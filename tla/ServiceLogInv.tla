---------------------------- MODULE ServiceLogInv ----------------------------
(***************************************************************************)
(* What the state of the service rests on: the log, the streams that carry *)
(* it, what the consensus module awaits, and the snapshots.  The invariant *)
(* holds if recordings are not abandoned, whatever else the consensus      *)
(* module promises.                                                        *)
(***************************************************************************)
EXTENDS ClusterNode

(* The log and its streams *)

TermAt(l, p) == IF p = 0 THEN NullValue ELSE l[p].term

\* An entry that follows one with these sessions open, in this term.
Follows(e, open, t) ==
    /\ e.open = CASE e.kind = "SessionOpenEvent"  -> open \cup {e.session}
                  [] e.kind = "SessionCloseEvent" -> open \ {e.session}
                  [] OTHER -> open
    /\ e.kind # "NewLeadershipTermEvent" => e.term = t

IsLog(l) ==
    /\ Len(l) <= MaxLog
    /\ \A p \in 1 .. Len(l) : Follows(l[p], OpenAt(l, p - 1), TermAt(l, p - 1))

\* The entries of a stream follow its base, and each other.
IsOrdered(l, s) ==
    \A k \in 1 .. Len(s.entries) :
        Follows(s.entries[k],
                IF k = 1 THEN OpenAt(l, s.base) ELSE s.entries[k - 1].open,
                IF k = 1 THEN TermAt(l, s.base) ELSE s.entries[k - 1].term)

\* A stream agrees with the log up to a position.
Agrees(l, s, p) ==
    \A k \in 1 .. Len(s.entries) : s.base + k <= p => s.entries[k] = l[s.base + k]

\* A live stream is what the log grows by, another one is a replay of it.
CarriesLog(l, s, p) ==
    /\ p <= StreamEnd(s)
    /\ Agrees(l, s, p)
    /\ IF s.max = NoMaxPosition
       THEN p = Len(l) /\ StreamEnd(s) <= MaxLog /\ IsOrdered(l, s)
       ELSE StreamEnd(s) <= Len(l) /\ Agrees(l, s, Len(l))

CurrentInv ==
    streams # <<>> =>
        /\ CarriesLog(log, Current, commitPos)
        /\ cm = "joining" => commitPos = Current.base /\ (IsLive => commitPos < MaxLog)
        /\ cm \in {"active", "snapshot"} /\ IsLive =>
              /\ Current.entries # <<>>
              /\ Current.entries[Len(Current.entries)].term = term

-----------------------------------------------------------------------------
(* What is awaited *)

\* The messages that call for an ack, and the acks of no particular snapshot.
Calls(messages) ==
    {i \in 1 .. Len(messages) : messages[i].type # "ServiceTerminationPosition"}

Answers(as) == {i \in 1 .. Len(as) : as[i].relevantId = NullValue}

NoneAsked == /\ Calls(control) = {}
             /\ activeLogEvent = NoEvent
             /\ requestedAckPosition = NullPosition

\* One thing is awaited at a time: a message, what the agent noted of it, or its ack.
CallInv ==
    /\ \A i \in Calls(control) :
          control[i].type = "JoinLog" => control[i].stream = Len(streams)
    /\ activeLogEvent # NoEvent => activeLogEvent.stream = Len(streams)
    /\ cm # "error" =>
          /\ \A i, j \in Calls(control) : i = j
          /\ \A i, j \in Answers(acks) : i = j
          /\ activeLogEvent # NoEvent => Calls(control) = {} /\ Answers(acks) = {}
          /\ requestedAckPosition # NullPosition =>
                Calls(control) = {} /\ Answers(acks) = {}
          /\ Answers(acks) # {} => NoneAsked
          /\ cm \notin {"joining", "draining"} => NoneAsked /\ Answers(acks) = {}
          /\ cm = "joining" =>
                /\ requestedAckPosition = NullPosition
                /\ \A i \in Calls(control) : control[i].type = "JoinLog"
          /\ cm = "draining" =>
                /\ activeLogEvent = NoEvent
                /\ \A i \in Calls(control) : control[i].type = "RequestServiceAck"

\* Entries are committed on the stream the agent has joined, if any, so that the
\* committed part of the image it reads is the log.
ImageInv ==
    image # NoImage =>
        /\ Agrees(log, streams[image.stream], commitPos)
        /\ \/ cm \in {"active", "snapshot"}
           \/ cm = "joining" /\ Answers(acks) # {}
           => image.stream = Len(streams)

-----------------------------------------------------------------------------
(* Sessions and snapshots *)

IsSorted(ids) == \A i, j \in 1 .. Len(ids) : i < j => ids[i] < ids[j]

Ids(ids) == {ids[i] : i \in 1 .. Len(ids)}

\* The vector of the sessions is that of the map, in order.
VectorInv == pc # "failed" => Ids(sessions) = sessionByIdMap /\ IsSorted(sessions)

\* The fragments of a snapshot of position p with these sessions.
SnapshotOf(l, ids, p) ==
    <<[type |-> "BEGIN", logPosition |-> p, term |-> TermAt(l, p)]>>
        \o [i \in 1 .. Len(ids) |-> [type |-> "SESSION", session |-> ids[i]]]
        \o <<[type |-> "END", logPosition |-> p, term |-> TermAt(l, p)]>>
        \o <<[type |-> "SERVICE", state |-> StateAt(l, p)]>>

SessionsIn(fragments) == [i \in 1 .. Len(fragments) - 3 |-> fragments[i + 1].session]

\* A recording that has the whole of a snapshot of position p.
IsComplete(l, r, p) ==
    /\ p \in 1 .. Len(l)
    /\ r.recorded = Len(r.published)
    /\ LET ids == SessionsIn(r.published)
       IN  /\ Ids(ids) = OpenAt(l, p)
           /\ IsSorted(ids)
           /\ r.published = SnapshotOf(l, ids, p)

\* A snapshot in progress is of the agent's position, and nothing else goes on until
\* it is acknowledged.
ProgressInv ==
    LET r == recordings[currentSnapshot.recording]
    IN  /\ currentSnapshot.step \in {"recording", "state", "ack"} =>
              pc = "begin" /\ r.active
        /\ currentSnapshot.step = "recording" => r.published = <<>>
        /\ currentSnapshot.step = "state" => r.published = SnapshotFragments
        /\ currentSnapshot.step = "ack" =>
              r.published = SnapshotFragments \o <<[type |-> "SERVICE", state |-> service]>>

\* Acknowledged, it is complete, and so is the snapshot of the next recovery.
SnapshotInv ==
    /\ \A i \in 1 .. Len(acks) :
          acks[i].relevantId \in Recordings =>
              IsComplete(log, recordings[acks[i].relevantId], acks[i].logPosition)
    /\ IF recovery.recording = NullValue
       THEN recovery.logPosition = 0 /\ recovery.term = NullValue
       ELSE /\ recovery.recording \in 1 .. Len(recordings)
            /\ IsComplete(log, recordings[recovery.recording], recovery.logPosition)
            /\ recovery.term = TermAt(log, recovery.logPosition)

\* A start loads the sessions of the recovery snapshot in their order.
LoadInv ==
    /\ pc \in StartSteps => acks = <<>>
    /\ pc \in StartSteps \ {"recover"} =>
          logPosition = recovery.logPosition /\ leadershipTermId = recovery.term
    /\ pc = "recover" => loader = [next |-> 1, inSnapshot |-> FALSE] /\ sessions = <<>>
    /\ pc = "load" =>
          LET fragments == recordings[recovery.recording].published
          IN  /\ loader.next <= Len(fragments) - 1
              /\ loader.inSnapshot = (loader.next > 1)
              /\ sessionByIdMap = {fragments[i].session : i \in 2 .. loader.next - 1}
    /\ pc = "start" => sessionByIdMap = OpenAt(log, logPosition)

\* The agent's state is that of the log at its position.
MatchInv ==
    IsStarted => /\ service = StateAt(log, logPosition)
                 /\ sessionByIdMap = OpenAt(log, logPosition)
                 /\ leadershipTermId = TermAt(log, logPosition)

ContentInv == /\ IsLog(log) /\ CurrentInv /\ CallInv /\ ImageInv
              /\ VectorInv /\ ProgressInv /\ SnapshotInv /\ LoadInv /\ MatchInv
=============================================================================
