--------------------------- MODULE ConsensusModule ---------------------------
(***************************************************************************)
(* The consensus module of the node, as the clustered service depends on   *)
(* it.  It is not part of this repository: the module is written from the  *)
(* way the service agent uses it, through                                  *)
(*   - the log streams the service joins when it is sent a JoinLog event,  *)
(*   - the commit-position counter that bounds how far it may consume them,*)
(*   - the recovery-state counter it reads when it starts,                 *)
(*   - the control stream (JoinLog, RequestServiceAck,                     *)
(*     ServiceTerminationPosition) and the ServiceAck messages it answers. *)
(*                                                                         *)
(* The node is one member of a cluster whose log may be extended by any    *)
(* leader: entries are appended to the live stream first and committed     *)
(* later, and a new leadership term drops whatever was not committed.      *)
(***************************************************************************)
EXTENDS ClusterLog

CONSTANTS
    Traffic,          \* kinds of entries a leader appends besides new-term events
    MaxUncommitted,   \* bound: entries a leader may have appended and not committed
    MaxTerm,          \* bound: leadership terms
    AwaitDrain,       \* whether it waits for the service to consume a stream
                      \* up to the commit position before it opens the next one
    PauseAtSnapshot   \* whether the commit position waits at a snapshot action
                      \* until the snapshot has been acknowledged

ASSUME ConsensusModuleAssumption ==
    /\ Traffic \subseteq Kinds \ {"NewLeadershipTermEvent"}
    /\ MaxUncommitted \in Nat
    /\ MaxTerm \in Nat
    /\ AwaitDrain \in BOOLEAN
    /\ PauseAtSnapshot \in BOOLEAN

VARIABLES
    log,            \* every committed entry of the cluster, append-only
    commitPos,      \* the commit-position counter of this node
    streams,        \* the log streams of this run of the node, the last is current
    term,           \* the last leadership term of the log
    cm,             \* what the consensus module is doing
    expectedAckId,  \* ackId of the next ServiceAck
    recovery,       \* the recovery-state counter of the next start
    control,        \* control stream to the service, in order
    acks            \* ServiceAck messages from the service, in order

cmVars == <<log, commitPos, streams, term, cm, expectedAckId, recovery, control, acks>>

\* Max position of a stream that is joined live (INT64_MAX in a JoinLog event).
NoMaxPosition == MaxLog + 1

\* relevantId of the first ack: the client id of the service's Aeron client.
ClientId == 0

Roles == {"LEADER", "FOLLOWER"}

\* Recording ids are positive, so they differ from NullValue and ClientId.
Recordings == Nat \ {0}

Streams == [base : Nat, entries : Seq(Entries), max : Nat]

JoinLogEvents == [type : {"JoinLog"}, logPosition : Nat, maxLogPosition : Nat,
                  stream : Nat \ {0}, isStartup : BOOLEAN, role : Roles]

ControlMessages ==
    JoinLogEvents
    \cup [type : {"RequestServiceAck", "ServiceTerminationPosition"}, logPosition : Nat]

ServiceAcks == [logPosition : Nat, ackId : Nat, relevantId : Nat \cup {NullValue}]

CMStates == {"starting", "settled", "joining", "active", "snapshot", "draining",
             "terminating", "error"}

CMTypeOK ==
    /\ log \in Seq(Entries)
    /\ commitPos \in Nat
    /\ streams \in Seq(Streams)
    /\ term \in Nat
    /\ cm \in CMStates
    /\ expectedAckId \in Nat
    /\ recovery \in [logPosition : Nat, term : Nat \cup {NullValue},
                     recording : Recordings \cup {NullValue}]
    /\ control \in Seq(ControlMessages)
    /\ acks \in Seq(ServiceAcks)

CMInit ==
    /\ log = <<>>
    /\ commitPos = 0
    /\ streams = <<>>
    /\ term = 0
    /\ cm = "starting"
    /\ expectedAckId = 0
    /\ recovery = [logPosition |-> 0, term |-> NullValue, recording |-> NullValue]
    /\ control = <<>>
    /\ acks = <<>>

-----------------------------------------------------------------------------
(* Streams *)

StreamEnd(s) == s.base + Len(s.entries)
EntryAt(s, p) == s.entries[p - s.base]
Current == streams[Len(streams)]
IsLive == streams # <<>> /\ Current.max = NoMaxPosition

\* The sessions open after the last entry of the current stream.
OpenAtEnd == IF Current.entries = <<>>
             THEN OpenAt(log, Current.base)
             ELSE Current.entries[Len(Current.entries)].open

\* Session ids come from a counter, an id that was given out is not given again.
IsKnown(s) == \/ \E i \in 1 .. Len(log) : log[i].session = s
              \/ \E i \in 1 .. Len(Current.entries) : Current.entries[i].session = s

\* What a leader can append next.
Candidates ==
    LET open == OpenAtEnd
        Entry(kind, session, after) ==
            [kind |-> kind, session |-> session, open |-> after, term |-> term]
    IN  {Entry("SessionOpenEvent", s, open \cup {s}) :
            s \in {t \in Sessions : ~ IsKnown(t)}}
        \cup {Entry("SessionCloseEvent", s, open \ {s}) : s \in open}
        \cup {Entry("SessionMessage", s, open) : s \in open \cup {NoSession}}
        \cup {Entry(k, NoSession, open) :
                 k \in {"TimerEvent", "Snapshot", "MembershipChangeEvent"}}

AppendEntry ==
    /\ cm \in {"active", "snapshot"}
    /\ IsLive
    /\ StreamEnd(Current) < MaxLog
    /\ StreamEnd(Current) < commitPos + MaxUncommitted
    /\ \E e \in {c \in Candidates : c.kind \in Traffic} :
          streams' = [streams EXCEPT ![Len(streams)].entries = Append(@, e)]
    /\ UNCHANGED <<log, commitPos, term, cm, expectedAckId, recovery, control, acks>>

\* The next entry of the current stream is committed; in a replay it was
\* committed before this start of the node.
Commit ==
    /\ cm = "active"
    /\ streams # <<>>
    /\ commitPos < StreamEnd(Current)
    /\ LET e == EntryAt(Current, commitPos + 1)
       IN  /\ log' = IF commitPos < Len(log) THEN log ELSE Append(log, e)
           /\ cm' = IF PauseAtSnapshot /\ e.kind = "Snapshot" THEN "snapshot" ELSE cm
    /\ commitPos' = commitPos + 1
    /\ UNCHANGED <<streams, term, expectedAckId, recovery, control, acks>>

-----------------------------------------------------------------------------
(* Joining the service to a stream *)

\* Open a stream whose first `entries` are already there and send the service to it.
OpenStream(entries, max, isStartup, role) ==
    /\ streams' = Append(streams,
                         [base |-> commitPos, entries |-> entries, max |-> max])
    /\ control' = Append(control,
           [type |-> "JoinLog", logPosition |-> commitPos, maxLogPosition |-> max,
            stream |-> Len(streams) + 1, isStartup |-> isStartup, role |-> role])
    /\ cm' = "joining"
    /\ UNCHANGED <<log, commitPos, term, expectedAckId, recovery, acks>>

\* A start of the node replays what was committed after its latest snapshot.
StartReplay ==
    /\ cm = "settled"
    /\ commitPos < Len(log)
    /\ OpenStream(SubSeq(log, commitPos + 1, Len(log)), Len(log), TRUE, "FOLLOWER")

\* The node enters the next leadership term, whoever won the election; the first
\* one after a start is a startup term.
IsStartup == \A i \in 1 .. Len(streams) : streams[i].max # NoMaxPosition

StartTerm ==
    /\ cm = "settled"
    /\ commitPos = Len(log)
    /\ term < MaxTerm /\ commitPos < MaxLog
    /\ \E role \in Roles : OpenStream(<<>>, NoMaxPosition, IsStartup, role)

\* The end of a replay, or of a leadership term: have the service catch up with
\* the commit position first.
LeaveStream ==
    /\ cm = "active"
    /\ commitPos = Len(log)
    /\ term < MaxTerm /\ commitPos < MaxLog
    /\ IF AwaitDrain
       THEN /\ control' = Append(control,
                              [type |-> "RequestServiceAck", logPosition |-> commitPos])
            /\ cm' = "draining"
       ELSE /\ cm' = "settled"
            /\ UNCHANGED control
    /\ UNCHANGED <<log, commitPos, streams, term, expectedAckId, recovery, acks>>

\* The cluster is shut down at the current position.
Terminate ==
    /\ cm = "active"
    /\ IsLive
    /\ control' = Append(control,
           [type |-> "ServiceTerminationPosition", logPosition |-> commitPos])
    /\ cm' = "terminating"
    /\ UNCHANGED <<log, commitPos, streams, term, expectedAckId, recovery, acks>>

-----------------------------------------------------------------------------
(* Acknowledgements *)

\* The states in which an ack is awaited, by the relevantId that identifies it.
\* While commits wait at a snapshot action nothing but its ack is awaited; if
\* they do not wait, it may come at any later time.
AwaitsSnapshot == IF PauseAtSnapshot THEN {"snapshot"} ELSE {"active", "draining", "terminating"}

Awaits(relevantId) ==
    CASE relevantId = ClientId -> cm = "starting"
      [] relevantId = NullValue -> cm \in {"joining", "draining"}
      [] OTHER -> cm \in AwaitsSnapshot

\* An ack in sequence, that is awaited, for the position the module waits at.
IsExpected(a) ==
    /\ a.ackId = expectedAckId
    /\ Awaits(a.relevantId)
    /\ \/ a.logPosition = commitPos
       \/ /\ ~ PauseAtSnapshot
          /\ a.relevantId \in Recordings
          /\ a.logPosition <= commitPos

TakeAck(relevantIds) ==
    /\ acks # <<>>
    /\ Head(acks).relevantId \in relevantIds
    /\ IsExpected(Head(acks))
    /\ expectedAckId' = expectedAckId + 1
    /\ acks' = Tail(acks)
    /\ UNCHANGED <<log, commitPos, control>>

ServiceStarted ==
    /\ TakeAck({ClientId})
    /\ cm' = "settled"
    /\ UNCHANGED <<streams, term, recovery>>

\* A new term begins with its NewLeadershipTermEvent, appended once the service
\* is on the stream.
ServiceJoined ==
    /\ TakeAck({NullValue})
    /\ cm = "joining"
    /\ cm' = "active"
    /\ IF IsLive
       THEN /\ term' = term + 1
            /\ streams' = [streams EXCEPT ![Len(streams)].entries =
                   <<[kind |-> "NewLeadershipTermEvent", session |-> NoSession,
                      open |-> OpenAt(log, commitPos), term |-> term + 1]>>]
       ELSE UNCHANGED <<streams, term>>
    /\ UNCHANGED recovery

\* The snapshot becomes the one the next start recovers from.
SnapshotTaken ==
    /\ TakeAck(Recordings)
    /\ cm' = IF cm = "snapshot" THEN "active" ELSE cm
    /\ LET a == Head(acks)
       IN  recovery' = [logPosition |-> a.logPosition, term |-> log[a.logPosition].term,
                        recording |-> a.relevantId]
    /\ UNCHANGED <<streams, term>>

ServiceDrained ==
    /\ TakeAck({NullValue})
    /\ cm = "draining"
    /\ cm' = "settled"
    /\ UNCHANGED <<streams, term, recovery>>

\* An ack out of sequence ends the consensus module.
RejectAck ==
    /\ cm # "error"
    /\ acks # <<>>
    /\ ~ IsExpected(Head(acks))
    /\ cm' = "error"
    /\ UNCHANGED <<log, commitPos, streams, term, expectedAckId, recovery, control, acks>>

\* The node stops and starts again: what was not committed, the streams and the
\* messages in flight are gone.
CMRestart ==
    /\ commitPos' = recovery.logPosition
    /\ streams' = <<>>
    /\ cm' = "starting"
    /\ expectedAckId' = 0
    /\ control' = <<>>
    /\ acks' = <<>>
    /\ UNCHANGED <<log, term, recovery>>

CMNext ==
    \/ AppendEntry \/ Commit
    \/ StartReplay \/ StartTerm \/ LeaveStream \/ Terminate
    \/ ServiceStarted \/ ServiceJoined \/ SnapshotTaken \/ ServiceDrained
    \/ RejectAck
=============================================================================
