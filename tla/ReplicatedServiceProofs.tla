------------------------ MODULE ReplicatedServiceProofs ------------------------
(***************************************************************************)
(* Proof that a node whose archive does not abandon recordings implements  *)
(* ReplicatedService.                                                      *)
(***************************************************************************)
EXTENDS ServiceLogProofs

\* The snapshots on their way to the consensus module are of states the service went
\* through since the one the next start recovers from, in order.
HistoryInv ==
    /\ pc \notin {"recover", "load", "start"} => recovery.logPosition <= Len(service)
    /\ \A i \in 1 .. Len(acks) : acks[i].relevantId \in Recordings =>
          /\ recovery.logPosition <= acks[i].logPosition
          /\ acks[i].logPosition <= Len(service)
    /\ \A i, j \in 1 .. Len(acks) :
          /\ i < j
          /\ acks[i].relevantId \in Recordings
          /\ acks[j].relevantId \in Recordings
          => acks[i].logPosition <= acks[j].logPosition

StateInv == IndInv /\ ContentInv /\ HistoryInv

\* A step of the node is one of the abstract service, or none.
Refines == [Replicated!SpecNext]_(Replicated!specVars)

USE DEF Replicated!specVars

-----------------------------------------------------------------------------
(* Positions *)

LEMMA PositionTypes ==
    ASSUME IndInv
    PROVE  /\ Len(service) \in Nat /\ Len(log) \in Nat /\ Len(acks) \in Nat
           /\ recovery.logPosition \in 0 .. Len(log) /\ recovery.logPosition \in Nat
           /\ log \in Seq(Entries) /\ acks \in Seq(ServiceAcks)
           /\ \A i \in 1 .. Len(acks) : acks[i].logPosition \in Nat
<1>1. /\ log \in Seq(Entries) /\ acks \in Seq(ServiceAcks)
      /\ service \in Seq(Seq(Entries)) /\ commitPos \in Nat /\ recovery.logPosition \in Nat
    BY DEF IndInv, TypeOK, CMTypeOK, AgentTypeOK
<1>2. Len(service) \in Nat /\ Len(log) \in Nat /\ Len(acks) \in Nat
    BY <1>1, LenProperties
<1>3. recovery.logPosition <= commitPos /\ commitPos <= Len(log)
    BY DEF IndInv, PositionInv
<1>4. \A i \in 1 .. Len(acks) : acks[i].logPosition \in Nat
  <2> TAKE i \in 1 .. Len(acks)
  <2>1. acks[i] \in ServiceAcks
    BY <1>1, ElementOfSeq
  <2> QED
    BY <2>1 DEF ServiceAcks
<1> QED
    BY <1>1, <1>2, <1>3, <1>4

\* A started service went through as many states as its position says.
LEMMA StartedPosition ==
    ASSUME IndInv, ContentInv, IsStarted
    PROVE  Len(service) = logPosition
<1>1. logPosition \in Nat
    BY DEF IsStarted, WorkSteps, IndInv, StepInv, TypeOK, AgentTypeOK
<1>2. logPosition <= commitPos /\ commitPos <= Len(log) /\ commitPos \in Nat
      /\ Len(log) \in Nat /\ log \in Seq(Entries)
    BY PositionTypes DEF IndInv, PositionInv, TypeOK, CMTypeOK
<1>3. logPosition \in 0 .. Len(log)
    BY <1>1, <1>2
<1>4. service = StateAt(log, logPosition)
    BY DEF ContentInv, MatchInv
<1> QED
    BY <1>2, <1>3, <1>4, StateAtType

-----------------------------------------------------------------------------
(* Steps of the consensus module *)

\* What is left of the acks when the first is taken.
LEMMA AcksLeft ==
    ASSUME StateInv, NEW ids, TakeAck(ids)
    PROVE  /\ 1 \in 1 .. Len(acks) /\ Head(acks) = acks[1] /\ Len(acks) \in Nat
           /\ \A i \in 1 .. Len(acks') : /\ i + 1 \in 1 .. Len(acks) /\ 1 < i + 1
                                         /\ acks'[i] = acks[i + 1]
           /\ pc \notin StartSteps
<1>1. acks # <<>> /\ IndInv
    BY DEF TakeAck, StateInv
<1>2. pc \notin StartSteps
    BY <1>1 DEF StateInv, ContentInv, LoadInv
<1>3. \A i \in 1 .. Len(acks') : i + 1 \in 1 .. Len(acks) /\ acks'[i] = acks[i + 1]
    BY <1>1, TakeAckType
<1>4. Head(acks) = acks[1] /\ 1 \in 1 .. Len(acks)
    BY <1>1, TakeAckType
<1>5. \A i \in 1 .. Len(acks') : 1 < i + 1
    OBVIOUS
<1> QED
    BY <1>1, <1>2, <1>3, <1>4, <1>5, PositionTypes

LEMMA AckTakenHistory ==
    ASSUME StateInv, NEW ids, TakeAck(ids), UNCHANGED <<pc, service>>,
           recovery' = recovery
    PROVE  HistoryInv'
<1>1. \A i \in 1 .. Len(acks') : i + 1 \in 1 .. Len(acks) /\ acks'[i] = acks[i + 1]
    BY AcksLeft
<1>2. \A i, j \in 1 .. Len(acks') : i < j => i + 1 < j + 1
    OBVIOUS
<1> QED
    BY <1>1, <1>2 DEF StateInv, HistoryInv

\* The snapshot of the next recovery is of a state the service went through.
LEMMA SnapshotTakenHistory ==
    ASSUME StateInv, SnapshotTaken, UNCHANGED <<pc, service>>
    PROVE  /\ HistoryInv' /\ log' = log /\ pc \notin StartSteps
           /\ recovery'.logPosition \in recovery.logPosition .. Len(service)
<1>1. /\ TakeAck(Recordings) /\ log' = log
      /\ recovery'.logPosition = Head(acks).logPosition
      /\ Head(acks).relevantId \in Recordings
    BY DEF SnapshotTaken, TakeAck
<1>2. /\ 1 \in 1 .. Len(acks) /\ Head(acks) = acks[1] /\ pc \notin StartSteps
      /\ \A i \in 1 .. Len(acks') : /\ i + 1 \in 1 .. Len(acks) /\ 1 < i + 1
                                    /\ acks'[i] = acks[i + 1]
    BY <1>1, AcksLeft
<1> DEFINE p == acks[1].logPosition
<1>3. /\ recovery.logPosition <= p /\ p <= Len(service)
      /\ p \in Nat /\ Len(service) \in Nat /\ recovery.logPosition \in Nat
    BY <1>1, <1>2, PositionTypes DEF StateInv, HistoryInv
<1>4. recovery'.logPosition = p
    BY <1>1, <1>2
<1> HIDE DEF p
<1>5. recovery'.logPosition \in recovery.logPosition .. Len(service)
    BY <1>3, <1>4
<1>6. \A i \in 1 .. Len(acks') : acks'[i].relevantId \in Recordings =>
          p <= acks'[i].logPosition /\ acks'[i].logPosition <= Len(service)
    BY <1>1, <1>2 DEF StateInv, HistoryInv, p
<1>7. \A i, j \in 1 .. Len(acks') : i < j => i + 1 < j + 1
    OBVIOUS
<1>8. HistoryInv'
    BY <1>2, <1>3, <1>4, <1>6, <1>7 DEF StateInv, HistoryInv
<1> QED
    BY <1>1, <1>2, <1>5, <1>8

\* What a step leaves alone that neither commits, nor takes or sends an ack.
LEMMA HistoryKept ==
    ASSUME IndInv, UNCHANGED <<log, recovery, pc, service>>
    PROVE  ServiceHistory' = ServiceHistory
BY DEF ServiceHistory, IsStarted

LEMMA CommitRefines ==
    ASSUME StateInv, Commit, UNCHANGED agentVars
    PROVE  HistoryInv' /\ Refines
<1> USE DEF agentVars, positionVars
<1>1. /\ streams # <<>> /\ commitPos < StreamEnd(Current)
      /\ log' = IF commitPos < Len(log) THEN log
                ELSE Append(log, EntryAt(Current, commitPos + 1))
      /\ UNCHANGED <<acks, recovery>>
    BY DEF Commit
<1>2. HistoryInv'
    BY <1>1 DEF StateInv, HistoryInv
<1>3. CASE log' = log
    BY <1>1, <1>2, <1>3, HistoryKept DEF Refines, StateInv
<1>4. CASE log' # log
  <2> DEFINE e == EntryAt(Current, commitPos + 1)
  <2>1. log' = Append(log, e) /\ log \in Seq(Entries) /\ Len(log) \in Nat
        /\ recovery.logPosition \in 0 .. Len(log)
    BY <1>1, <1>4, PositionTypes DEF StateInv
  <2>2. e \in Entries
    <3>1. /\ Current \in Streams /\ Current.base <= commitPos /\ commitPos \in Nat
          /\ Current.base \in Nat
        BY <1>1, CurrentFacts DEF StateInv
    <3>2. commitPos + 1 \in Nat /\ Current.base < commitPos + 1
        BY <3>1
    <3>3. commitPos + 1 <= StreamEnd(Current)
      <4>1. StreamEnd(Current) \in Nat
        BY <1>1, CurrentFacts DEF StateInv
      <4> QED
        BY <4>1, <1>1, <3>1
    <3> QED
        BY <3>1, <3>2, <3>3, EntryAtType
  <2> HIDE DEF e
  <2>3. Len(log') = Len(log) + 1 /\ log'[Len(log')] = e
    BY <2>1, <2>2, AppendProperties
  <2>4. StateAt(log', recovery.logPosition) = StateAt(log, recovery.logPosition)
    BY <2>1, <2>2, GrowsKeepsState DEF Grows
  <2>5. ServiceHistory' = ServiceHistory
    BY <1>1, <2>4 DEF ServiceHistory, IsStarted
  <2>6. Replicated!CommitEntry
    BY <1>1, <2>1, <2>2, <2>3, <2>5
    DEF Replicated!CommitEntry, Replicated!Entries, Replicated!Kinds, Replicated!NoSession,
        Entries, Kinds, NoSession
  <2> QED
    BY <1>2, <2>6 DEF Refines, Replicated!SpecNext
<1> QED
    BY <1>3, <1>4

LEMMA CMStepRefines ==
    ASSUME StateInv, CMStep
    PROVE  HistoryInv' /\ Refines
<1>1. UNCHANGED agentVars /\ UNCHANGED <<pc, service>>
    BY DEF CMStep, agentVars, positionVars
<1>2. CASE Commit
    BY <1>1, <1>2, CommitRefines
<1>3. CASE SnapshotTaken
  <2>1. /\ HistoryInv' /\ log' = log /\ pc \notin StartSteps
        /\ recovery'.logPosition \in recovery.logPosition .. Len(service)
    BY <1>1, <1>3, SnapshotTakenHistory
  <2>2. pc \in WorkSteps \cup {"failed"}
    BY <2>1 DEF StateInv, IndInv, TypeOK, AgentTypeOK
  <2>3. ServiceHistory = service /\ ServiceHistory' = service
    BY <1>1, <2>2 DEF ServiceHistory, IsStarted
  <2>4. Replicated!CompleteSnapshot
    BY <2>1, <2>3 DEF Replicated!CompleteSnapshot
  <2> QED
    BY <2>1, <2>4 DEF Refines, Replicated!SpecNext
<1>4. CASE ServiceStarted \/ ServiceJoined \/ ServiceDrained
  <2>1. /\ \E ids : TakeAck(ids)
        /\ UNCHANGED <<log, recovery>>
    BY <1>4 DEF ServiceStarted, ServiceJoined, ServiceDrained, TakeAck
  <2>2. HistoryInv'
    BY <1>1, <2>1, AckTakenHistory
  <2> QED
    BY <1>1, <2>1, <2>2, HistoryKept DEF Refines, StateInv
<1>5. CASE AppendEntry \/ StartReplay \/ StartTerm \/ LeaveStream \/ Terminate \/ RejectAck
  <2>1. UNCHANGED <<log, recovery, acks>>
    BY <1>5 DEF AppendEntry, StartReplay, StartTerm, OpenStream, LeaveStream, Terminate,
                RejectAck
  <2>2. HistoryInv'
    BY <1>1, <2>1 DEF StateInv, HistoryInv
  <2> QED
    BY <1>1, <2>1, <2>2, HistoryKept DEF Refines, StateInv
<1> QED
    BY <1>2, <1>3, <1>4, <1>5 DEF CMStep, CMNext

-----------------------------------------------------------------------------
(* Steps of the archive, and the restart *)

LEMMA ArchiveStepRefines ==
    ASSUME StateInv, ArchiveStep
    PROVE  HistoryInv' /\ Refines
<1>1. UNCHANGED <<log, recovery, acks, pc, service>>
    BY DEF ArchiveStep, cmVars, agentVars, positionVars
<1> QED
    BY <1>1, HistoryKept DEF StateInv, HistoryInv, Refines

\* A restart takes the service back to its latest snapshot, and no further.
LEMMA RestartRefines ==
    ASSUME StateInv, Restart
    PROVE  HistoryInv' /\ Refines
<1>1. log' = log /\ recovery' = recovery /\ pc' = "recover" /\ acks' = <<>>
    BY DEF Restart, CMRestart
<1>2. HistoryInv'
    BY <1>1 DEF HistoryInv
<1>3. ServiceHistory' = StateAt(log, recovery.logPosition)
    BY <1>1 DEF ServiceHistory, IsStarted, WorkSteps
<1>4. Replicated!Recovers
    BY <1>1, <1>3
    DEF Replicated!Recovers, StateAt, Replicated!StateAt, Seen, Replicated!Seen, Shown,
        Replicated!Shown
<1> QED
    BY <1>2, <1>4 DEF Refines, Replicated!SpecNext

-----------------------------------------------------------------------------
(* Steps of the agent *)

\* A step that shows the service nothing and sends no ack, of a start or after one.
LEMMA QuietStep ==
    ASSUME StateInv, OthersKeep, UNCHANGED <<acks, service>>,
           \/ pc \in {"recover", "load", "start"} /\ pc' \in {"recover", "load", "start"}
           \/ pc \in WorkSteps /\ pc' \in WorkSteps \cup {"failed"}
    PROVE  HistoryInv' /\ Refines
<1>1. log' = log /\ recovery' = recovery
    BY DEF OthersKeep
<1>2. HistoryInv'
    BY <1>1 DEF StateInv, HistoryInv, WorkSteps
<1>3. ServiceHistory' = ServiceHistory
    BY <1>1 DEF ServiceHistory, IsStarted, WorkSteps
<1> QED
    BY <1>1, <1>2, <1>3 DEF Refines

LEMMA OnStartRefines ==
    ASSUME StateInv, OnStart, OthersKeep
    PROVE  HistoryInv' /\ Refines
<1>1. pc = "start" /\ pc' = "startAck" /\ acks' = acks
      /\ log' = log /\ recovery' = recovery
    BY DEF OnStart, OthersKeep
<1>2. acks = <<>>
    BY <1>1 DEF StateInv, ContentInv, LoadInv, StartSteps
<1>3. service' = StateAt(log, recovery.logPosition)
    BY OnStartService DEF StateInv
<1>4. Len(service') = recovery.logPosition /\ recovery.logPosition \in Nat
    BY <1>3, PositionTypes, StateAtType DEF StateInv
<1>5. HistoryInv'
    BY <1>1, <1>2, <1>4 DEF HistoryInv
<1>6. ServiceHistory' = ServiceHistory
    BY <1>1, <1>3 DEF ServiceHistory, IsStarted, WorkSteps
<1> QED
    BY <1>1, <1>5, <1>6 DEF Refines

\* A step of a started agent that shows the service nothing, and may send an ack.
LEMMA AckedStep ==
    ASSUME StateInv, OthersKeep, UNCHANGED service, IsStarted, pc' \in WorkSteps,
           \/ acks' = acks
           \/ \E id \in Nat \cup {NullValue} : Ack(id)
    PROVE  HistoryInv' /\ Refines
<1>1. log' = log /\ recovery' = recovery
    BY DEF OthersKeep
<1>2. ServiceHistory' = ServiceHistory
    BY <1>1 DEF ServiceHistory, IsStarted
<1>3. HistoryInv'
  <2>0. pc \notin {"recover", "load", "start"}
    BY DEF IsStarted, WorkSteps
  <2>1. CASE acks' = acks
    BY <2>0, <2>1, <1>1 DEF StateInv, HistoryInv
  <2>2. CASE \E id \in Nat \cup {NullValue} : Ack(id)
    <3>1. PICK id \in Nat \cup {NullValue} : Ack(id)
        BY <2>2
    <3> DEFINE a == [logPosition |-> logPosition, ackId |-> ackId, relevantId |-> id]
    <3>2. /\ Len(service) = logPosition /\ Len(service) \in Nat /\ Len(acks) \in Nat
          /\ recovery.logPosition \in Nat /\ acks \in Seq(ServiceAcks)
        BY StartedPosition, PositionTypes DEF StateInv
    <3>3. a \in ServiceAcks /\ a.logPosition = Len(service)
        BY <3>2 DEF ServiceAcks, StateInv, IndInv, TypeOK, AgentTypeOK
    <3>4. acks' = Append(acks, a)
        BY <3>1 DEF Ack, OfferAck
    <3> HIDE DEF a
    <3>5. /\ Len(acks') = Len(acks) + 1
          /\ \A i \in 1 .. Len(acks) : acks'[i] = acks[i]
          /\ acks'[Len(acks) + 1] = a
        BY <3>2, <3>3, <3>4, AppendProperties
    <3>6. recovery.logPosition <= Len(service)
        BY <2>0 DEF StateInv, HistoryInv
    <3>7. ASSUME NEW i \in 1 .. Len(acks'), acks'[i].relevantId \in Recordings
          PROVE  /\ recovery.logPosition <= acks'[i].logPosition
                 /\ acks'[i].logPosition <= Len(service)
      <4>1. CASE i \in 1 .. Len(acks)
        BY <3>5, <3>7, <4>1 DEF StateInv, HistoryInv
      <4>2. CASE i = Len(acks) + 1
        BY <3>2, <3>3, <3>5, <3>6, <4>2
      <4> QED
        BY <4>1, <4>2, <3>2, <3>5
    <3>8. ASSUME NEW i \in 1 .. Len(acks'), NEW j \in 1 .. Len(acks'), i < j,
                 acks'[i].relevantId \in Recordings, acks'[j].relevantId \in Recordings
          PROVE  acks'[i].logPosition <= acks'[j].logPosition
      <4>1. CASE j \in 1 .. Len(acks)
        <5>1. i \in 1 .. Len(acks)
            BY <3>2, <3>8, <4>1
        <5> QED
            BY <3>5, <3>8, <4>1, <5>1 DEF StateInv, HistoryInv
      <4>2. CASE j = Len(acks) + 1
        BY <3>3, <3>5, <3>7, <3>8, <4>2
      <4> QED
        BY <4>1, <4>2, <3>2, <3>5
    <3> QED
        BY <1>1, <3>6, <3>7, <3>8 DEF HistoryInv
  <2> QED
    BY <2>1, <2>2
<1> QED
    BY <1>1, <1>2, <1>3 DEF Refines

\* The service is shown the next event as it deserves, or the thread ends.
LEMMA EventShown ==
    ASSUME StateInv, LogEvent
    PROVE  /\ pc = "poll" /\ HasFragment /\ acks' = acks
           /\ \/ pc' = "failed" /\ service' = service
              \/ pc' = "poll" /\ service' = Append(service, Seen(NextEvent))
<1>1. pc = "poll" /\ HasFragment /\ acks' = acks
    BY DEF LogEvent, OnSessionMessage, OnTimerEvent, OnSessionOpen, OnSessionClose,
           OnTakeSnapshot, OnNewLeadershipTermEvent, OnMembershipChange, OnEvent
<1>2. CASE OnSessionMessage
  <2>1. NextEvent.kind = "SessionMessage" /\ pc' = pc
    BY <1>2 DEF OnSessionMessage, OnEvent
  <2>2. NextEvent.open = sessionByIdMap
    BY <1>1, <2>1, NextEventIsLogged DEF Follows, StateInv
  <2> QED
    BY <1>1, <1>2, <2>1, <2>2 DEF OnSessionMessage, Callback, NoCallback, Seen, Shown
<1>3. CASE OnSessionOpen
    BY <1>1, <1>3 DEF OnSessionOpen, OnEvent, Throw, Callback, Seen, Shown
<1>4. CASE OnSessionClose
    BY <1>1, <1>4 DEF OnSessionClose, OnEvent, Throw, Callback, Seen, Shown
<1>5. CASE OnTimerEvent \/ OnNewLeadershipTermEvent
    BY <1>1, <1>5 DEF OnTimerEvent, OnNewLeadershipTermEvent, OnEvent, Callback, Seen, Shown
<1>6. CASE OnTakeSnapshot \/ OnMembershipChange
    BY <1>1, <1>6 DEF OnTakeSnapshot, OnMembershipChange, OnEvent, NoCallback, Seen, Shown
<1> QED
    BY <1>2, <1>3, <1>4, <1>5, <1>6 DEF LogEvent

LEMMA LogEventRefines ==
    ASSUME StateInv, LogEvent, OthersKeep
    PROVE  HistoryInv' /\ Refines
<1>1. /\ pc = "poll" /\ HasFragment /\ acks' = acks
      /\ \/ pc' = "failed" /\ service' = service
         \/ pc' = "poll" /\ service' = Append(service, Seen(NextEvent))
    BY EventShown
<1>2. CASE pc' = "failed" /\ service' = service
    BY <1>1, <1>2, QuietStep DEF WorkSteps
<1>3. CASE pc' = "poll" /\ service' = Append(service, Seen(NextEvent))
  <2>1. log' = log /\ recovery' = recovery
    BY DEF OthersKeep
  <2>2. IsStarted /\ ServiceHistory = service /\ ServiceHistory' = service'
    BY <1>1, <1>3 DEF ServiceHistory, IsStarted, WorkSteps
  <2>3. /\ Len(service) = logPosition /\ logPosition \in 0 .. Len(log) - 1
        /\ NextEvent = log[logPosition + 1] /\ NextEvent \in Entries
        /\ Len(log) \in Nat /\ service \in Seq(Seq(Entries))
    BY <1>1, <2>2, StartedPosition, NextEventIsLogged, PositionTypes
    DEF StateInv, IndInv, TypeOK, AgentTypeOK
  <2>4. Seen(NextEvent) \in Seq(Entries)
    BY <2>3, EmptySeq DEF Seen
  <2>5. Len(service') = Len(service) + 1 /\ Len(service) \in Nat
    BY <1>3, <2>3, <2>4, AppendProperties, LenProperties
  <2>6. HistoryInv'
    <3>1. recovery.logPosition <= Len(service) /\ recovery.logPosition \in Nat
        BY <1>1, PositionTypes DEF StateInv, HistoryInv
    <3>2. \A i \in 1 .. Len(acks) : acks[i].logPosition \in Nat
        BY PositionTypes DEF StateInv
    <3>3. recovery.logPosition <= Len(service')
        BY <2>5, <3>1
    <3>4. \A i \in 1 .. Len(acks) : acks[i].relevantId \in Recordings =>
              /\ recovery.logPosition <= acks[i].logPosition
              /\ acks[i].logPosition <= Len(service')
        BY <2>5, <3>2 DEF StateInv, HistoryInv
    <3> QED
        BY <1>1, <2>1, <3>3, <3>4 DEF StateInv, HistoryInv
  <2>7. Replicated!ApplyEntry
    <3>1. Len(ServiceHistory) < Len(log)
        BY <2>2, <2>3
    <3>2. Seen(NextEvent) = Replicated!Seen(log[Len(ServiceHistory) + 1])
        BY <2>2, <2>3 DEF Seen, Replicated!Seen, Shown, Replicated!Shown
    <3> QED
        BY <1>3, <2>1, <2>2, <3>1, <3>2 DEF Replicated!ApplyEntry
  <2> QED
    BY <2>6, <2>7 DEF Refines, Replicated!SpecNext
<1> QED
    BY <1>1, <1>2, <1>3

LEMMA AgentStepRefines ==
    ASSUME StateInv, AgentStep
    PROVE  HistoryInv' /\ Refines
<1>0. OthersKeep
    BY DEF AgentStep, AgentNext, OthersKeep
<1>1. CASE Recover
    BY <1>0, <1>1, QuietStep DEF Recover
<1>2. CASE LoadFragment
  <2>1. pc = "load" /\ pc' \in {"load", "start"} /\ UNCHANGED <<acks, service>>
    BY <1>0, <1>2, LoadFragmentContent DEF LoadFragment, positionVars, StateInv
  <2> QED
    BY <1>0, <2>1, QuietStep
<1>3. CASE SnapshotEndedUnexpectedly
    BY <1>3, SnapshotEndsAsExpected DEF StateInv
<1>4. CASE OnStart
    BY <1>0, <1>4, OnStartRefines
<1>5. CASE StartAck \/ AckSnapshot \/ AckRequested \/ JoinActiveLog
  <2>1. /\ IsStarted /\ pc' \in WorkSteps /\ UNCHANGED service
        /\ acks' = acks \/ \E id : Ack(id) /\ id \in Nat \cup {NullValue}
    <3>1. currentSnapshot.recording \in Nat /\ ClientId \in Nat
        BY DEF StateInv, IndInv, TypeOK, AgentTypeOK, SnapshotStates, ClientId
    <3> QED
        BY <1>5, <3>1
        DEF StartAck, AckSnapshot, SnapshotStep, AckRequested, JoinActiveLog, positionVars,
            IsStarted, WorkSteps
  <2> QED
    BY <1>0, <2>1, AckedStep
<1>6. CASE StartRecording \/ TakeAgentSnapshot \/ TakeServiceSnapshot
    BY <1>0, <1>6, QuietStep
    DEF StartRecording, TakeAgentSnapshot, TakeServiceSnapshot, SnapshotStep, positionVars,
        WorkSteps
<1>7. CASE NoClockTick \/ UnexpectedAbort \/ NoControlMessage \/ OnJoinLog
           \/ OnRequestServiceAck \/ OnServiceTerminationPosition
    BY <1>0, <1>7, QuietStep
    DEF NoClockTick, UnexpectedAbort, NoControlMessage, OnJoinLog, OnRequestServiceAck,
        OnServiceTerminationPosition, ControlMessage, ClockTick, Throw, positionVars,
        WorkSteps
<1>8. CASE JoinNotContiguous \/ NoAckRequested \/ NoLog \/ PollLog \/ CloseLog \/ EndPoll
    BY <1>0, <1>8, QuietStep
    DEF JoinNotContiguous, NoAckRequested, NoLog, PollLog, CloseLog, EndPoll, Throw,
        positionVars, WorkSteps
<1>9. CASE LogEvent
    BY <1>0, <1>9, LogEventRefines
<1> QED
    BY <1>1, <1>2, <1>3, <1>4, <1>5, <1>6, <1>7, <1>8, <1>9
    DEF AgentStep, AgentNext, Startup, SnapshotWork, PollServiceAdapter

-----------------------------------------------------------------------------
(* The refinement *)

LEMMA InitRefines ==
    ASSUME Init
    PROVE  StateInv /\ Replicated!SpecInit
<1>1. IndInv /\ ContentInv
    BY InitInd, InitContent
<1>2. /\ log = <<>> /\ recovery.logPosition = 0 /\ pc = "recover" /\ acks = <<>>
      /\ log \in Seq(Entries)
    BY EmptySeq DEF Init, CMInit, AgentInit
<1>3. HistoryInv
    BY <1>2 DEF HistoryInv
<1>4. ServiceHistory = <<>>
  <2>1. ServiceHistory = StateAt(log, 0)
    BY <1>2 DEF ServiceHistory, IsStarted, WorkSteps
  <2> QED
    BY <2>1, <1>2, StateAtZero
<1> QED
    BY <1>1, <1>2, <1>3, <1>4 DEF StateInv, Replicated!SpecInit

LEMMA NextRefines ==
    ASSUME Reliable, StateInv, [Next]_vars
    PROVE  StateInv' /\ Refines
<1>1. IndInv' /\ ContentInv'
    BY NextInd, NextContent DEF StateInv, Reliable
<1>2. HistoryInv' /\ Refines
  <2>1. CASE CMStep
    BY <2>1, CMStepRefines
  <2>2. CASE ArchiveStep
    BY <2>2, ArchiveStepRefines
  <2>3. CASE AgentStep
    BY <2>3, AgentStepRefines
  <2>4. CASE Restart
    BY <2>4, RestartRefines
  <2>5. CASE UNCHANGED vars
    <3>1. UNCHANGED <<log, recovery, acks, pc, service>>
        BY <2>5 DEF vars, cmVars, agentVars, positionVars
    <3> QED
        BY <3>1, HistoryKept DEF StateInv, HistoryInv, Refines
  <2> QED
    BY <2>1, <2>2, <2>3, <2>4, <2>5 DEF Next
<1> QED
    BY <1>1, <1>2 DEF StateInv

\* The service is a deterministic state machine fed with the committed log, one entry
\* at a time; a failure takes it back to its latest completed snapshot and no further.
THEOREM NodeImplementsReplicatedService ==
    Reliable => (Spec => ImplementsReplicatedService)
<1> SUFFICES ASSUME Reliable PROVE Spec => ImplementsReplicatedService
    OBVIOUS
<1>1. Init => StateInv /\ Replicated!SpecInit
    BY InitRefines
<1>2. StateInv /\ [Next]_vars => StateInv' /\ [Replicated!SpecNext]_(Replicated!specVars)
    BY NextRefines DEF Refines
<1> QED
    BY <1>1, <1>2, PTL DEF Spec, ImplementsReplicatedService, Replicated!ReplicatedSpec
=============================================================================
