----------------------------- MODULE ClusterNode -----------------------------
(***************************************************************************)
(* A cluster node: the service agent with the consensus module and the     *)
(* archive it works with, over any number of runs of the node.             *)
(***************************************************************************)
EXTENDS ServiceAgent

CONSTANT MaxRestarts    \* bound: restarts of the node

ASSUME ClusterNodeAssumption == MaxRestarts \in Nat

VARIABLE restarts

vars == <<cmVars, recordings, agentVars, restarts>>

Init == CMInit /\ ArchiveInit /\ AgentInit /\ restarts = 0

\* The node's processes stop, at any point or after an exception, and are
\* started again.
Restart ==
    /\ restarts < MaxRestarts
    /\ restarts' = restarts + 1
    /\ CMRestart
    /\ ArchiveRestart
    /\ pc' = "recover"
    /\ logPosition' = NullPosition /\ leadershipTermId' = NullValue
    /\ ackId' = 0 /\ requestedAckPosition' = NullPosition
    /\ terminationPosition' = NullPosition
    /\ sessions' = <<>> /\ sessionByIdMap' = {} /\ egress' = {}
    /\ role' = "FOLLOWER"
    /\ activeLogEvent' = NoEvent /\ image' = NoImage /\ maxLogPosition' = NullPosition
    /\ currentSnapshot' = NoSnapshot
    /\ poll' = [limit |-> 0, polled |-> 0]
    /\ loader' = [next |-> 1, inSnapshot |-> FALSE]
    /\ service' = <<>>
    /\ isAbort' \in Indeterminate

CMStep      == CMNext /\ UNCHANGED <<recordings, agentVars, restarts>>
ArchiveStep == ArchiveNext /\ UNCHANGED <<cmVars, agentVars, restarts>>
AgentStep   == AgentNext /\ UNCHANGED restarts

Next == CMStep \/ ArchiveStep \/ AgentStep \/ Restart

Spec == Init /\ [][Next]_vars

-----------------------------------------------------------------------------
(* Safety *)

TypeOK == CMTypeOK /\ ArchiveTypeOK /\ AgentTypeOK /\ restarts \in Nat

\* The agent has its state and its sessions: its start is over.
IsStarted == pc \in {"startAck"} \cup WorkSteps

\* A started service has seen exactly the callbacks of the committed log up to
\* the agent's position, each once and in order, through joins, new terms,
\* snapshots and restarts.
ServiceMatchesLog ==
    IsStarted => /\ logPosition <= Len(log)
                 /\ service = StateAt(log, logPosition)

\* The sessions of a started agent, in the map and in the vector, are the ones
\* the log has open at its position.
SessionsMatchLog ==
    IsStarted =>
        /\ sessionByIdMap = OpenAt(log, logPosition)
        /\ SessionIds = sessionByIdMap
        /\ \A i, j \in 1 .. Len(sessions) : i < j => sessions[i] < sessions[j]

\* A responding leader has asked for the response publication of every session,
\* whether it led when the session opened or not, except for the sessions that
\* were open when the node's first term started; no other session has one.
LeaderConnectsSessions ==
    /\ egress \subseteq sessionByIdMap
    /\ (IsResponding /\ role = "LEADER" /\ pc \in WorkSteps) =>
          \A s \in sessionByIdMap \ egress :
             \E i \in 1 .. Len(streams) :
                /\ streams[i].max = NoMaxPosition
                /\ \A j \in 1 .. i - 1 : streams[j].max # NoMaxPosition
                /\ s \in OpenAt(log, streams[i].base)

\* The agent never runs ahead of this node's commit position.
ConsumesCommitted == IsStarted => logPosition <= commitPos

\* The fragments of a snapshot taken at position p: the sessions by id.
IsSnapshotAt(fragments, p) ==
    LET open == OpenAt(log, p)
        n    == Cardinality(open)
        mark == [logPosition |-> p, term |-> IF p = 0 THEN NullValue ELSE log[p].term]
    IN  /\ Len(fragments) = n + 3
        /\ fragments[1] = [type |-> "BEGIN", logPosition |-> p, term |-> mark.term]
        /\ \A i \in 2 .. n + 1 : /\ fragments[i].type = "SESSION"
                                 /\ fragments[i].session \in open
                                 /\ i > 2 => fragments[i-1].session < fragments[i].session
        /\ fragments[n + 2] = [type |-> "END", logPosition |-> p, term |-> mark.term]
        /\ fragments[n + 3] = [type |-> "SERVICE", state |-> StateAt(log, p)]

\* What a snapshot holds is of one position: markers, sessions and service state,
\* although they are written by different calls of doWork.
SnapshotIsConsistentCut ==
    currentSnapshot.step = "ack" =>
        \E p \in 1 .. Len(log) :
            IsSnapshotAt(recordings[currentSnapshot.recording].published, p)

\* The snapshot the next start recovers from is complete, recorded, and of the
\* position the recovery state names.
RecoverySnapshotIsDurable ==
    recovery.recording # NullValue =>
        IsSnapshotAt(Replayed(recovery.recording), recovery.logPosition)

\* The consensus module never sees an ack out of sequence, for another position
\* than the one it waits at, or that it did not ask for.
AcksAreExpected == cm # "error"

\* What the consensus module waits for is on its way, exactly once: the message
\* or event that calls for the ack, the agent's note of it, or the ack.
Outstanding ==
    {<<"control", i>> : i \in {j \in 1 .. Len(control) :
                                control[j].type # "ServiceTerminationPosition"}}
    \cup {<<"ack", i>> : i \in 1 .. Len(acks)}
    \cup (IF pc \in StartSteps THEN {<<"start">>} ELSE {})
    \cup (IF activeLogEvent # NoEvent THEN {<<"join">>} ELSE {})
    \cup (IF requestedAckPosition # NullPosition THEN {<<"request">>} ELSE {})
    \cup (IF currentSnapshot # NoSnapshot THEN {<<"snapshot">>} ELSE {})
    \cup (IF /\ cm = "snapshot" /\ pc \in WorkSteps /\ logPosition < commitPos
          THEN {<<"event">>} ELSE {})

IsAwaiting == cm \in {"starting", "joining", "snapshot", "draining"}

OneAnswerOutstanding ==
    LET n == Cardinality(Outstanding)
    IN  pc # "failed" =>
           /\ IF IsAwaiting THEN n <= 1 ELSE n = 0
           /\ IsAwaiting /\ ~ (cm = "joining" /\ JoinAckMayBeLost) => n = 1

\* No exception ends the thread: no clashing or unknown session, no gap in the
\* log, no truncated snapshot.
NoException == pc # "failed"

-----------------------------------------------------------------------------
(* The inductive invariant behind the proofs: TypeOK depends on every index    *)
(* the agent and the consensus module follow being in bounds, so these facts   *)
(* go together.                                                                *)

\* Nothing is ahead of the commit position, and that is not ahead of the log.
PositionInv ==
    /\ commitPos <= Len(log)
    /\ recovery.logPosition <= commitPos
    /\ logPosition <= commitPos
    /\ poll.limit <= commitPos

\* Every reference to a stream is to one that is there, and the image is where
\* the agent is.
StreamInv ==
    /\ \A i \in 1 .. Len(streams) : streams[i].base <= commitPos
    /\ \A i \in 1 .. Len(control) :
          control[i].type = "JoinLog" => control[i].stream <= Len(streams)
    /\ activeLogEvent # NoEvent => activeLogEvent.stream <= Len(streams)
    /\ image # NoImage =>
          /\ image.stream \in 1 .. Len(streams)
          /\ streams[image.stream].base <= image.position
          /\ image.position = logPosition

\* What the agent has at each of its steps.
StepInv ==
    /\ pc = "recover" <=> logPosition = NullPosition
    /\ pc \in StartSteps => image = NoImage /\ currentSnapshot = NoSnapshot
    /\ pc = "poll" => image # NoImage
    /\ pc = "load" => recovery.term # NullValue

\* Every reference to a recording is to one that is there.
RecordingInv ==
    /\ \A r \in 1 .. Len(recordings) :
          recordings[r].recorded <= Len(recordings[r].published)
    /\ currentSnapshot.step # "none" => logPosition >= 1
    /\ currentSnapshot.step \in {"recording", "state", "ack"} =>
          currentSnapshot.recording \in 1 .. Len(recordings)
    /\ \A i \in 1 .. Len(acks) :
          acks[i].relevantId \in Recordings =>
             acks[i].relevantId <= Len(recordings) /\ acks[i].logPosition >= 1
    /\ recovery.term # NullValue => recovery.recording \in 1 .. Len(recordings)

IndInv == TypeOK /\ PositionInv /\ StreamInv /\ StepInv /\ RecordingInv

-----------------------------------------------------------------------------
(* The node implements ReplicatedService.  While the agent starts, the state *)
(* it stands for is that of the snapshot it is going to load.                *)

ServiceHistory ==
    IF IsStarted \/ pc = "failed" THEN service ELSE StateAt(log, recovery.logPosition)

Replicated == INSTANCE ReplicatedService
    WITH committed <- log, state <- ServiceHistory,
         snapshotPos <- recovery.logPosition

\* The service is fed the committed log, one entry at a time, and a failure takes
\* it back to its latest completed snapshot and no further.
ImplementsReplicatedService == Replicated!ReplicatedSpec

\* With a consensus module that keeps its promises it implements AckBarrier, too.  A
\* question that nobody will answer any more has lost its answer.
IsAsked == \/ \E i \in 1 .. Len(control) : control[i].type # "ServiceTerminationPosition"
           \/ activeLogEvent # NoEvent
           \/ requestedAckPosition # NullPosition

Answer == CASE acks # <<>> -> "sent"
            [] acks = <<>> /\ cm \in {"joining", "draining"} /\ ~ IsAsked -> "lost"
            [] OTHER -> "none"

Question == IF IsAwaiting THEN cm ELSE "nothing"

Consumed == IF pc = "recover" THEN recovery.logPosition ELSE logPosition

Barrier == INSTANCE AckBarrier
    WITH question <- Question, committed <- commitPos, consumed <- Consumed,
         durable <- recovery.logPosition, answer <- Answer, MayBeLost <- JoinAckMayBeLost

\* Every ack is a barrier: it is asked for at a commit position that stands still, is
\* given once and by an agent that has consumed the log up to there, and what it says
\* of a snapshot is of that position, in any number of terms and restarts.
ImplementsAckBarrier == Barrier!BarrierSpec

-----------------------------------------------------------------------------
(* Steps *)

\* Only a restart takes the agent back in the log, a callback always takes it
\* forward, and the id of a service ack is used once.
NeverGoesBack ==
    [][restarts' = restarts =>
          /\ logPosition' >= logPosition
          /\ (pc = "poll" /\ service' # service) => logPosition' > logPosition
          /\ ackId' \in {ackId, ackId + 1}]_vars

-----------------------------------------------------------------------------
(* Liveness *)

AgentDoes(A) == A /\ UNCHANGED <<log, commitPos, streams, term, cm, expectedAckId,
                                 recovery, restarts>>

ClockTicks == AgentDoes(\/ NoControlMessage \/ OnJoinLog \/ OnRequestServiceAck
                        \/ OnServiceTerminationPosition)

\* The container calls doWork for ever, and what it tries again and again, a
\* millisecond to pass, an image to appear, an offer to be accepted, succeeds at
\* last.  The archive records, and the consensus module takes its acks and gets
\* on with replays and with commits it does not have to wait for.
Fairness ==
    /\ WF_vars(AgentStep)
    /\ SF_vars(ClockTicks)
    /\ SF_vars(AgentDoes(JoinActiveLog))
    /\ SF_vars(AgentDoes(AckRequested))
    /\ WF_vars(ArchiveStep)
    /\ WF_vars(/\ \/ StartReplay \/ ServiceStarted \/ ServiceJoined
                  \/ SnapshotTaken \/ ServiceDrained \/ Commit
               /\ UNCHANGED <<recordings, agentVars, restarts>>)

FairSpec == Spec /\ Fairness

\* Whatever the consensus module waits for is acknowledged, or the node restarts:
\* the start of the service, a join, a snapshot, a request.
EveryWaitEnds ==
    \A state \in {"starting", "joining", "snapshot", "draining"} :
        cm = state ~> cm # state

\* Every committed entry reaches the service, however often the node restarts.
EveryEntryIsConsumed ==
    \A p \in 1 .. MaxLog : Len(log) >= p ~> logPosition >= p

-----------------------------------------------------------------------------
(* What the repository says of the agent and the runs refute *)

\* A JoinLog event is answered: an ack that was not accepted is offered again, as the ack
\* of a start, of a snapshot ("Failed to  ack recording: ") and of a request are.
JoinIsAnswered == cm = "joining" ~> cm # "joining"

\* "Cluster log must be contiguous": a log is joined where the last one was left.
JoinedLogIsContiguous == (pc = "join" /\ MayJoin) => IsContiguous

\* A message is shown to the service whoever sent it: "can be null if the client
\* was a service".
ServiceMessagesAreShown ==
    IsStarted => \A p \in 1 .. logPosition :
                    log[p].kind = "SessionMessage" => service[p] = <<log[p]>>
=============================================================================
