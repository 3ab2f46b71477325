--------------------------- MODULE ServiceAckProofs ---------------------------
(***************************************************************************)
(* Proofs that the acks of a node are the expected ones, each awaited once *)
(* and sent once, if the consensus module keeps its promises.              *)
(***************************************************************************)
EXTENDS ServiceAckInv, ServiceLogProofs

\* What the consensus module and the archive promise.
Promises == Reliable /\ AwaitDrain /\ PauseAtSnapshot

-----------------------------------------------------------------------------
(* Acks and positions *)

LEMMA AckTypes ==
    ASSUME IndInv
    PROVE  /\ commitPos \in Nat /\ Len(log) \in Nat /\ log \in Seq(Entries)
           /\ commitPos <= Len(log)
           /\ acks \in Seq(ServiceAcks) /\ Len(acks) \in Nat
           /\ acks # <<>> => 1 \in 1 .. Len(acks) /\ Head(acks) = acks[1]
           /\ control \in Seq(ControlMessages) /\ Len(control) \in Nat
           /\ ackId \in Nat /\ expectedAckId \in Nat
           /\ logPosition \in Nat \cup {NullPosition} /\ logPosition <= commitPos
           /\ ~ IsStarting => logPosition \in Nat
<1>1. /\ commitPos \in Nat /\ Len(log) \in Nat /\ log \in Seq(Entries)
      /\ acks \in Seq(ServiceAcks) /\ Len(acks) \in Nat
      /\ control \in Seq(ControlMessages) /\ Len(control) \in Nat
      /\ ackId \in Nat /\ expectedAckId \in Nat
      /\ logPosition \in Nat \cup {NullPosition}
    BY LenProperties DEF IndInv, TypeOK, CMTypeOK, AgentTypeOK
<1>2. acks # <<>> => 1 \in 1 .. Len(acks) /\ Head(acks) = acks[1]
    BY <1>1, EmptySeq, HeadTailProperties
<1>3. ~ IsStarting => logPosition \in Nat
    BY <1>1 DEF IndInv, StepInv, IsStarting, StartSteps
<1> QED
    BY <1>1, <1>2, <1>3 DEF IndInv, PositionInv

\* While commits wait at snapshots an ack that is expected is of their position.
LEMMA ExpectedAck ==
    ASSUME PauseAtSnapshot, NEW a, IsExpected(a)
    PROVE  /\ a.logPosition = commitPos /\ a.ackId = expectedAckId
           /\ cm \in {"starting", "joining", "draining", "snapshot"}
           /\ a.relevantId = ClientId <=> cm = "starting"
           /\ a.relevantId = NullValue <=> cm \in {"joining", "draining"}
<1>1. /\ a.ackId = expectedAckId /\ Awaits(a.relevantId) /\ a.logPosition = commitPos
    BY DEF IsExpected
<1>2. AwaitsSnapshot = {"snapshot"}
    BY DEF AwaitsSnapshot
<1>3. CASE a.relevantId = ClientId
  <2>1. cm = "starting" /\ a.relevantId # NullValue
    BY <1>1, <1>3 DEF Awaits, ClientId, NullValue
  <2> QED
    BY <2>1, <1>1, <1>3
<1>4. CASE a.relevantId = NullValue
  <2>1. cm \in {"joining", "draining"} /\ a.relevantId # ClientId
    BY <1>1, <1>4 DEF Awaits, ClientId, NullValue
  <2> QED
    BY <2>1, <1>1, <1>4
<1>5. CASE a.relevantId # ClientId /\ a.relevantId # NullValue
  <2>1. cm = "snapshot"
    BY <1>1, <1>2, <1>5 DEF Awaits
  <2> QED
    BY <2>1, <1>1, <1>5
<1> QED
    BY <1>3, <1>4, <1>5

\* There is no ack and no snapshot where none is awaited.
LEMMA NoAckAwaited ==
    ASSUME IndInv, AckInv, PauseAtSnapshot
    PROVE  /\ cm \in {"settled", "active", "terminating"} => acks = <<>>
           /\ acks # <<>> => IsExpected(acks[1]) /\ Len(acks) = 1
           /\ cm # "snapshot" => currentSnapshot = NoSnapshot
<1>1. acks # <<>> => IsExpected(acks[1]) /\ Len(acks) = 1
  <2> SUFFICES ASSUME acks # <<>> PROVE IsExpected(acks[1]) /\ Len(acks) = 1
    OBVIOUS
  <2>1. 1 \in 1 .. Len(acks) /\ Len(acks) \in Nat
    BY AckTypes
  <2>2. Len(acks) <= 1 /\ \A i \in 1 .. Len(acks) : IsExpected(acks[i])
    BY DEF AckInv, AckOrderInv
  <2>3. Len(acks) = 1
    BY <2>1, <2>2
  <2> QED
    BY <2>1, <2>2, <2>3
<1>2. acks # <<>> => cm \in {"starting", "joining", "draining", "snapshot"}
    BY <1>1, ExpectedAck
<1> QED
    BY <1>1, <1>2 DEF AckInv, SnapshotAheadInv

ackInvVars == <<log, commitPos, cm, expectedAckId, recovery, control, acks, ackId,
                activeLogEvent, requestedAckPosition, logPosition, currentSnapshot>>

\* A step that leaves all of this as it is, and does not end the start.
LEMMA AckUnchanged ==
    ASSUME AckInv, UNCHANGED ackInvVars, IsStarting' = IsStarting
    PROVE  AckInv'
<1> USE DEF ackInvVars
<1>1. AckOrderInv' /\ CalledInv'
    BY DEF AckInv, AckOrderInv, CalledInv, IsExpected, Awaits, AwaitsSnapshot, NoneAsked
<1>2. StartedInv' /\ CaughtUpInv' /\ SnapshotAheadInv'
    BY DEF AckInv, StartedInv, CaughtUpInv, SnapshotAheadInv
<1> QED
    BY <1>1, <1>2 DEF AckInv

-----------------------------------------------------------------------------
(* Steps of the consensus module *)

\* The next entry is committed: the agent is behind, and nothing is awaited but the
\* snapshot the entry may ask for.
LEMMA CommitAck ==
    ASSUME IndInv, ContentInv, AckInv, PauseAtSnapshot, Commit, UNCHANGED agentVars,
           ContentInv'
    PROVE  AckInv'
<1> DEFINE e == EntryAt(Current, commitPos + 1)
<1>1. /\ cm = "active" /\ streams # <<>> /\ commitPos < StreamEnd(Current)
      /\ cm' = IF e.kind = "Snapshot" THEN "snapshot" ELSE cm
      /\ commitPos' = commitPos + 1
      /\ log' = IF commitPos < Len(log) THEN log ELSE Append(log, e)
      /\ UNCHANGED <<streams, expectedAckId, recovery, control, acks>>
      /\ UNCHANGED <<pc, logPosition, ackId, activeLogEvent, requestedAckPosition,
                     currentSnapshot>>
    BY DEF Commit, agentVars, positionVars, ackVars, joinVars
<1>2. /\ commitPos \in Nat /\ commitPos <= Len(log) /\ Len(log) \in Nat
      /\ log \in Seq(Entries) /\ logPosition <= commitPos
      /\ ~ IsStarting => logPosition \in Nat
    BY AckTypes
<1>3. e = log'[commitPos + 1] /\ \A p \in 1 .. commitPos : log'[p] = log[p]
  <2>1. Current' = Current
    BY <1>1 DEF Current
  <2>2. Agrees(log', Current, commitPos + 1)
    BY <1>1, <2>1 DEF ContentInv, CurrentInv, CarriesLog
  <2>3. /\ Current.base \in Nat /\ Len(Current.entries) \in Nat
        /\ StreamEnd(Current) = Current.base + Len(Current.entries)
        /\ Current.base <= commitPos /\ Current.entries \in Seq(Entries)
    BY <1>1, CurrentFacts
  <2> DEFINE k == commitPos + 1 - Current.base
  <2>4. k \in 1 .. Len(Current.entries) /\ Current.base + k = commitPos + 1
    BY <1>1, <1>2, <2>3
  <2>5. e = Current.entries[k] /\ e \in Entries
    BY <2>3, <2>4, ElementOfSeq DEF EntryAt
  <2> HIDE DEF k, e
  <2>6. e = log'[commitPos + 1]
    BY <2>2, <2>4, <2>5, <1>2 DEF Agrees
  <2>7. \A p \in 1 .. Len(log) : log'[p] = log[p]
    BY <1>1, <1>2, <2>5, AppendProperties
  <2> QED
    BY <1>2, <2>6, <2>7
<1>4. ~ IsStarting /\ acks = <<>> /\ NoneAsked /\ currentSnapshot = NoSnapshot
    BY <1>1, NoAckAwaited, NothingAwaited DEF AckInv, StartedInv
<1> HIDE DEF e
<1>5. ~ IsStarting' /\ cm' \in {"active", "snapshot"} /\ NoneAsked' /\ Len(acks) = 0
    BY <1>1, <1>4 DEF IsStarting, NoneAsked
<1>6. AckOrderInv'
    BY <1>1, <1>5 DEF AckInv, AckOrderInv
<1>7. StartedInv' /\ CalledInv' /\ CaughtUpInv'
    BY <1>1, <1>4, <1>5 DEF StartedInv, CalledInv, CaughtUpInv, NoneAsked
<1>8. SnapshotAheadInv'
  <2>1. \A p \in logPosition + 1 .. commitPos : log[p].kind # "Snapshot"
    BY <1>1, <1>4 DEF AckInv, SnapshotAheadInv
  <2>2. ASSUME NEW p \in logPosition + 1 .. commitPos + 1, log'[p].kind = "Snapshot"
        PROVE  cm' = "snapshot" /\ p = commitPos'
    <3>1. CASE p = commitPos + 1
        BY <2>2, <3>1, <1>1, <1>3
    <3>2. CASE p # commitPos + 1
      <4>1. p \in logPosition + 1 .. commitPos /\ p \in 1 .. commitPos
        BY <2>2, <3>2, <1>2, <1>4
      <4> QED
        BY <4>1, <2>1, <2>2, <1>3
    <3> QED
        BY <3>1, <3>2
  <2>3. commitPos' >= 1 /\ logPosition' # commitPos'
    BY <1>1, <1>2, <1>4
  <2>4. cm' = "snapshot" => log'[commitPos'].kind = "Snapshot"
    BY <1>1, <1>3
  <2> QED
    BY <2>2, <2>3, <2>4, <1>1, <1>4 DEF SnapshotAheadInv
<1> QED
    BY <1>6, <1>7, <1>8 DEF AckInv

\* The service is sent to a new stream, or asked to catch up with the commit position,
\* or told to terminate: a message at the commit position, when nothing is awaited.
LEMMA ControlSentAck ==
    ASSUME IndInv, ContentInv, AckInv, PauseAtSnapshot, UNCHANGED agentVars,
           UNCHANGED <<log, commitPos, expectedAckId, recovery, acks>>,
           NEW m \in ControlMessages, control' = Append(control, m),
           m.logPosition = commitPos,
           \/ cm = "settled" /\ cm' = "joining" /\ m.type = "JoinLog"
           \/ cm = "active" /\ cm' = "draining" /\ m.type = "RequestServiceAck"
           \/ cm = "active" /\ cm' = "terminating" /\ m.type = "ServiceTerminationPosition"
    PROVE  AckInv'
<1>1. UNCHANGED <<pc, logPosition, ackId, activeLogEvent, requestedAckPosition,
                  currentSnapshot>>
    BY DEF agentVars, positionVars, ackVars, joinVars
<1>2. ~ IsStarting /\ acks = <<>> /\ NoneAsked /\ currentSnapshot = NoSnapshot
    BY NoAckAwaited, NothingAwaited DEF AckInv, StartedInv
<1>3. /\ Calls(control') = IF cm' = "terminating" THEN {} ELSE {Len(control) + 1}
      /\ control'[Len(control) + 1] = m
    BY <1>2, AckTypes, AppendCalls, AppendProperties DEF NoneAsked
<1>4. ~ IsStarting' /\ Len(acks) = 0
    BY <1>1, <1>2 DEF IsStarting
<1>5. AckOrderInv' /\ StartedInv'
    BY <1>1, <1>4 DEF AckInv, AckOrderInv, StartedInv
<1>6. CalledInv'
    BY <1>1, <1>2, <1>3 DEF CalledInv, NoneAsked
<1>7. CaughtUpInv'
    BY <1>1, <1>2 DEF AckInv, CaughtUpInv, IsStarting
<1>8. SnapshotAheadInv'
    BY <1>1, <1>2 DEF AckInv, SnapshotAheadInv, IsStarting
<1> QED
    BY <1>5, <1>6, <1>7, <1>8 DEF AckInv

\* An ack is taken: it was the only one, and the agent is where it was sent.
LEMMA AckTaken ==
    ASSUME IndInv, ContentInv, AckInv, PauseAtSnapshot, NEW ids, TakeAck(ids),
           UNCHANGED <<recordings, agentVars, restarts>>,
           cm' \in {"settled", "active"}
    PROVE  AckInv'
<1>1. /\ acks # <<>> /\ acks' = Tail(acks) /\ expectedAckId' = expectedAckId + 1
      /\ UNCHANGED <<log, commitPos, control>>
    BY DEF TakeAck
<1>2. UNCHANGED <<pc, logPosition, ackId, activeLogEvent, requestedAckPosition,
                  currentSnapshot>>
    BY DEF agentVars, positionVars, ackVars, joinVars
<1>3. ~ IsStarting /\ ~ IsStarting'
    BY <1>2, TakeAckContent DEF IsStarting
<1>4. Len(acks) = 1 /\ ackId = expectedAckId + 1 /\ expectedAckId \in Nat
    BY <1>1, NoAckAwaited, AckTypes DEF AckInv, AckOrderInv
<1>5. Len(acks') = 0
    BY <1>1, <1>4, AckTypes, HeadTailProperties
<1>6. logPosition = commitPos /\ currentSnapshot = NoSnapshot
    BY <1>1, <1>3 DEF AckInv, CaughtUpInv, SnapshotAheadInv
<1>7. AckOrderInv'
  <2>1. 1 .. Len(acks') = {} /\ Len(acks') <= 1 /\ cm' # "error"
    BY <1>5
  <2>2. ackId' = expectedAckId' + Len(acks')
    <3>1. ackId' = expectedAckId + 1 /\ expectedAckId' = expectedAckId + 1
        BY <1>1, <1>2, <1>4
    <3> QED
        BY <3>1, <1>4, <1>5
  <2>3. ASSUME NEW i \in 1 .. Len(acks') PROVE IsExpected(acks[i])'
    BY <2>1, <2>3
  <2> QED
    BY <2>1, <2>2, <2>3 DEF AckOrderInv
<1>8. StartedInv' /\ CaughtUpInv'
    BY <1>1, <1>2, <1>3, <1>6 DEF StartedInv, CaughtUpInv
<1>9. CalledInv'
    BY <1>1, <1>2 DEF AckInv, CalledInv
<1>10. SnapshotAheadInv'
  <2>1. commitPos + 1 .. commitPos = {}
    BY AckTypes
  <2> QED
    BY <2>1, <1>1, <1>2, <1>6 DEF SnapshotAheadInv
<1> QED
    BY <1>7, <1>8, <1>9, <1>10 DEF AckInv

\* The service is sent to a stream at the commit position.
LEMMA JoinLogSent ==
    ASSUME IndInv, StartReplay \/ StartTerm
    PROVE  \E m \in ControlMessages : /\ control' = Append(control, m)
                                      /\ m.type = "JoinLog" /\ m.logPosition = commitPos
<1>1. PICK max \in Nat, isStartup \in BOOLEAN, r \in Roles :
         \E entries : OpenStream(entries, max, isStartup, r)
  <2>1. Len(log) \in Nat /\ NoMaxPosition \in Nat /\ IsStartup \in BOOLEAN
    BY AckTypes, ClusterLogAssumption DEF NoMaxPosition, IsStartup
  <2>2. CASE StartReplay
    <3>1. OpenStream(SubSeq(log, commitPos + 1, Len(log)), Len(log), TRUE, "FOLLOWER")
        BY <2>2 DEF StartReplay
    <3> QED
        BY <3>1, <2>1 DEF Roles
  <2>3. CASE StartTerm
    <3>1. \E r \in Roles : OpenStream(<<>>, NoMaxPosition, IsStartup, r)
        BY <2>3 DEF StartTerm
    <3> QED
        BY <3>1, <2>1
  <2> QED
    BY <2>2, <2>3
<1> DEFINE m == [type |-> "JoinLog", logPosition |-> commitPos, maxLogPosition |-> max,
                 stream |-> Len(streams) + 1, isStartup |-> isStartup, role |-> r]
<1>2. m \in ControlMessages /\ m.type = "JoinLog" /\ m.logPosition = commitPos
  <2>1. commitPos \in Nat /\ Len(streams) + 1 \in Nat \ {0}
    BY LenProperties DEF IndInv, TypeOK, CMTypeOK
  <2> QED
    BY <2>1 DEF ControlMessages, JoinLogEvents
<1>3. control' = Append(control, m)
    BY <1>1 DEF OpenStream
<1> QED
    BY <1>2, <1>3

LEMMA CMStepAck ==
    ASSUME Promises, IndInv, ContentInv, AckInv, CMStep, ContentInv'
    PROVE  AckInv'
<1>0. /\ UNCHANGED <<recordings, agentVars, restarts>> /\ PauseAtSnapshot /\ AwaitDrain
      /\ UNCHANGED <<pc, logPosition, ackId, activeLogEvent, requestedAckPosition,
                     currentSnapshot>>
    BY DEF CMStep, Promises, agentVars, positionVars, ackVars, joinVars
<1>1. CASE AppendEntry
    BY <1>0, <1>1, AckUnchanged DEF AppendEntry, ackInvVars, IsStarting
<1>2. CASE Commit
    BY <1>0, <1>2, CommitAck
<1>3. CASE StartReplay \/ StartTerm
  <2>1. cm = "settled"
    BY <1>3 DEF StartReplay, StartTerm
  <2>2. PICK m \in ControlMessages : /\ control' = Append(control, m)
                                     /\ m.type = "JoinLog" /\ m.logPosition = commitPos
    BY <1>3, JoinLogSent
  <2>3. cm' = "joining" /\ UNCHANGED <<log, commitPos, expectedAckId, recovery, acks>>
    BY <1>3 DEF StartReplay, StartTerm, OpenStream
  <2> QED
    BY <1>0, <2>1, <2>2, <2>3, ControlSentAck
<1>4. CASE LeaveStream \/ Terminate
  <2> DEFINE type == IF LeaveStream THEN "RequestServiceAck" ELSE "ServiceTerminationPosition"
             m == [type |-> type, logPosition |-> commitPos]
  <2>1. m \in ControlMessages /\ m.type = type /\ m.logPosition = commitPos
    BY DEF ControlMessages, IndInv, TypeOK, CMTypeOK
  <2>2. /\ cm = "active" /\ control' = Append(control, m)
        /\ cm' = IF LeaveStream THEN "draining" ELSE "terminating"
        /\ UNCHANGED <<log, commitPos, expectedAckId, recovery, acks>>
    BY <1>0, <1>4 DEF LeaveStream, Terminate
  <2> HIDE DEF m
  <2>3. \/ cm' = "draining" /\ m.type = "RequestServiceAck"
        \/ cm' = "terminating" /\ m.type = "ServiceTerminationPosition"
    BY <2>1, <2>2
  <2> QED
    BY <1>0, <2>1, <2>2, <2>3, ControlSentAck
<1>5. CASE ServiceStarted
    BY <1>0, <1>5, AckTaken DEF ServiceStarted
<1>6. CASE ServiceJoined
    BY <1>0, <1>6, AckTaken DEF ServiceJoined
<1>7. CASE SnapshotTaken
  <2>1. TakeAck(Recordings) /\ cm' = IF cm = "snapshot" THEN "active" ELSE cm
    BY <1>7 DEF SnapshotTaken
  <2>2. Head(acks).relevantId \in Recordings /\ IsExpected(Head(acks))
    BY <2>1 DEF TakeAck
  <2>3. Head(acks).relevantId # ClientId /\ Head(acks).relevantId # NullValue
    BY <2>2 DEF Recordings, ClientId, NullValue
  <2>4. cm = "snapshot"
    BY <1>0, <2>2, <2>3, ExpectedAck
  <2> QED
    BY <1>0, <2>1, <2>4, AckTaken
<1>8. CASE ServiceDrained
    BY <1>0, <1>8, AckTaken DEF ServiceDrained
<1>9. CASE RejectAck
  <2>1. acks # <<>> /\ ~ IsExpected(Head(acks))
    BY <1>9 DEF RejectAck
  <2>2. IsExpected(acks[1]) /\ Head(acks) = acks[1]
    BY <1>0, <2>1, NoAckAwaited, AckTypes
  <2> QED
    BY <2>1, <2>2
<1> QED
    BY <1>1, <1>2, <1>3, <1>4, <1>5, <1>6, <1>7, <1>8, <1>9 DEF CMStep, CMNext

-----------------------------------------------------------------------------
(* Steps of the agent *)

\* A step before the start is acknowledged.
LEMMA StartingAck ==
    ASSUME IndInv, IndInv', AckInv, OthersKeep, IsStarting, IsStarting',
           UNCHANGED <<acks, ackVars, control, activeLogEvent>>
    PROVE  AckInv'
<1> USE DEF OthersKeep, ackVars
<1>1. cm = "starting" /\ currentSnapshot' = NoSnapshot
    BY DEF AckInv, StartedInv, IsStarting, IndInv, StepInv
<1>2. AckOrderInv' /\ CalledInv'
    BY DEF AckInv, AckOrderInv, CalledInv, IsExpected, Awaits, AwaitsSnapshot, NoneAsked
<1>3. StartedInv' /\ CaughtUpInv' /\ SnapshotAheadInv'
    BY <1>1 DEF AckInv, StartedInv, CaughtUpInv, SnapshotAheadInv
<1> QED
    BY <1>2, <1>3 DEF AckInv

\* The agent acknowledges what is awaited, at the commit position.
LEMMA AckSent ==
    ASSUME IndInv, AckInv, PauseAtSnapshot, OthersKeep,
           NEW id \in Nat \cup {NullValue}, Ack(id), Awaits(id), acks = <<>>,
           logPosition = commitPos, pc # "recover", ~ IsStarting',
           UNCHANGED <<logPosition, control>>, currentSnapshot' = NoSnapshot,
           activeLogEvent' \in {activeLogEvent, NoEvent}
    PROVE  AckInv'
<1>1. /\ ackId' = ackId + 1
      /\ requestedAckPosition' \in {requestedAckPosition, NullPosition}
    BY DEF Ack
<1>2. PICK a \in ServiceAcks :
         /\ acks' = Append(acks, a)
         /\ a.relevantId = id /\ a.logPosition = logPosition /\ a.ackId = ackId
  <2> DEFINE a == [logPosition |-> logPosition, ackId |-> ackId, relevantId |-> id]
  <2>1. logPosition \in Nat /\ ackId \in Nat
    BY AckTypes DEF IndInv, StepInv
  <2>2. a \in ServiceAcks
    BY <2>1 DEF ServiceAcks
  <2>3. acks' = Append(acks, a)
    BY DEF Ack, OfferAck
  <2> QED
    BY <2>2, <2>3
<1>3. Len(acks') = 1 /\ acks'[1] = a /\ acks' # <<>>
  <2>1. acks \in Seq(ServiceAcks) /\ Len(acks) = 0
    BY AckTypes
  <2>2. Len(acks') = Len(acks) + 1 /\ acks'[Len(acks) + 1] = a
    BY <1>2, <2>1, AppendProperties
  <2> QED
    BY <2>1, <2>2
<1>4. ackId = expectedAckId /\ expectedAckId \in Nat /\ cm # "error"
  <2>1. Len(acks) = 0 /\ ackId \in Nat /\ expectedAckId \in Nat
    BY AckTypes
  <2> QED
    BY <2>1 DEF AckInv, AckOrderInv
<1>5. a.ackId = expectedAckId' /\ a.logPosition = commitPos' /\ Awaits(a.relevantId)'
  <2>1. Awaits(id)'
    BY DEF Awaits, AwaitsSnapshot, OthersKeep
  <2> QED
    BY <1>2, <1>4, <2>1 DEF OthersKeep
<1> USE DEF OthersKeep
<1>6. AckOrderInv'
  <2>1. ASSUME NEW i \in 1 .. Len(acks') PROVE IsExpected(acks[i])'
    <3>1. i = 1
        BY <1>3
    <3> QED
        BY <3>1, <1>3, <1>5 DEF IsExpected
  <2> QED
    BY <1>1, <1>3, <1>4, <2>1 DEF AckOrderInv
<1>7. StartedInv' /\ CaughtUpInv'
    BY <1>3 DEF AckInv, StartedInv, CaughtUpInv
<1>8. CalledInv'
    BY <1>1, <1>3 DEF AckInv, CalledInv
<1>9. SnapshotAheadInv'
  <2>1. commitPos + 1 .. commitPos = {}
    BY AckTypes
  <2> QED
    BY <2>1, <1>3 DEF AckInv, SnapshotAheadInv
<1> QED
    BY <1>6, <1>7, <1>8, <1>9 DEF AckInv

\* Each ack is given where it is due: at the commit position, with none on its way, to
\* a consensus module that waits for it.
LEMMA StartAckDue ==
    ASSUME IndInv, ContentInv, AckInv, StartAck
    PROVE  /\ pc = "startAck" /\ pc' = "begin" /\ Ack(ClientId)
           /\ UNCHANGED <<logPosition, control, currentSnapshot, activeLogEvent>>
           /\ acks = <<>> /\ logPosition = commitPos /\ currentSnapshot = NoSnapshot
           /\ cm = "starting"
<1>1. /\ pc = "startAck" /\ pc' = "begin" /\ Ack(ClientId)
      /\ UNCHANGED <<logPosition, control, currentSnapshot, activeLogEvent>>
    BY DEF StartAck, positionVars, joinVars
<1>2. acks = <<>> /\ logPosition = recovery.logPosition /\ currentSnapshot = NoSnapshot
    BY <1>1 DEF ContentInv, LoadInv, StartSteps, IndInv, StepInv
<1>3. cm = "starting" /\ commitPos = recovery.logPosition
    BY <1>1 DEF AckInv, StartedInv, IsStarting, StartSteps
<1> QED
    BY <1>1, <1>2, <1>3

LEMMA StartAckAck ==
    ASSUME IndInv, ContentInv, AckInv, PauseAtSnapshot, OthersKeep, StartAck
    PROVE  AckInv'
<1>1. Awaits(ClientId)
    BY StartAckDue DEF Awaits, ClientId, NullValue
<1>2. ~ IsStarting'
    BY StartAckDue DEF IsStarting, StartSteps
<1> QED
    BY <1>1, <1>2, StartAckDue, AckSent DEF ClientId

\* The snapshot in progress goes on.
LEMMA SnapshotGoesOn ==
    ASSUME IndInv, AckInv, OthersKeep,
           StartRecording \/ TakeAgentSnapshot \/ TakeServiceSnapshot
    PROVE  AckInv'
<1>1. /\ currentSnapshot # NoSnapshot /\ currentSnapshot' # NoSnapshot
      /\ UNCHANGED <<pc, logPosition, ackVars, activeLogEvent, control, acks>>
    BY DEF StartRecording, TakeAgentSnapshot, TakeServiceSnapshot, SnapshotStep, NoSnapshot,
           positionVars, joinVars, IndInv, TypeOK, AgentTypeOK, SnapshotStates
<1> USE DEF OthersKeep, ackVars
<1>2. AckOrderInv' /\ CalledInv'
    BY <1>1 DEF AckInv, AckOrderInv, CalledInv, IsExpected, Awaits, AwaitsSnapshot, NoneAsked
<1>3. StartedInv' /\ CaughtUpInv' /\ SnapshotAheadInv'
    BY <1>1 DEF AckInv, StartedInv, CaughtUpInv, SnapshotAheadInv, IsStarting
<1> QED
    BY <1>2, <1>3 DEF AckInv

LEMMA AckSnapshotDue ==
    ASSUME IndInv, AckInv, AckSnapshot
    PROVE  /\ pc = "begin" /\ pc' = "begin" /\ Ack(currentSnapshot.recording)
           /\ currentSnapshot.recording \in Recordings /\ currentSnapshot' = NoSnapshot
           /\ UNCHANGED <<logPosition, control, activeLogEvent>>
           /\ acks = <<>> /\ logPosition = commitPos /\ cm = "snapshot"
<1>1. /\ pc = "begin" /\ pc' = "begin" /\ Ack(currentSnapshot.recording)
      /\ currentSnapshot.step = "ack" /\ currentSnapshot' = NoSnapshot
      /\ UNCHANGED <<logPosition, control, activeLogEvent>>
    BY DEF AckSnapshot, SnapshotStep, positionVars, joinVars
<1>2. currentSnapshot.recording \in Recordings
    BY <1>1, LenProperties DEF IndInv, RecordingInv, TypeOK, ArchiveTypeOK, Recordings
<1>3. currentSnapshot # NoSnapshot
    BY <1>1 DEF NoSnapshot
<1>4. cm = "snapshot" /\ logPosition = commitPos /\ acks = <<>>
    BY <1>3 DEF AckInv, SnapshotAheadInv
<1> QED
    BY <1>1, <1>2, <1>4

LEMMA AckSnapshotAck ==
    ASSUME IndInv, ContentInv, AckInv, PauseAtSnapshot, OthersKeep, AckSnapshot
    PROVE  AckInv'
<1> DEFINE r == currentSnapshot.recording
<1>1. r \in Nat \cup {NullValue} /\ r # ClientId /\ r # NullValue
    BY AckSnapshotDue DEF Recordings, ClientId, NullValue
<1>2. /\ pc = "begin" /\ pc' = "begin" /\ Ack(r) /\ currentSnapshot' = NoSnapshot
      /\ UNCHANGED <<logPosition, control, activeLogEvent>>
      /\ acks = <<>> /\ logPosition = commitPos /\ cm = "snapshot"
    BY AckSnapshotDue
<1> HIDE DEF r
<1>3. Awaits(r)
    BY <1>1, <1>2 DEF Awaits, AwaitsSnapshot
<1>4. ~ IsStarting'
    BY <1>2 DEF IsStarting, StartSteps
<1> QED
    BY <1>1, <1>2, <1>3, <1>4, AckSent

\* Where an answer is awaited and none is on its way, there is no ack.
LEMMA NoAnswerNoAck ==
    ASSUME IndInv, AckInv, PauseAtSnapshot, cm \in {"joining", "draining"},
           Answers(acks) = {}
    PROVE  acks = <<>>
<1> SUFFICES ASSUME acks # <<>> PROVE FALSE
    OBVIOUS
<1>1. IsExpected(acks[1]) /\ 1 \in 1 .. Len(acks)
    BY NoAckAwaited, AckTypes
<1>2. acks[1].relevantId = NullValue
    BY <1>1, ExpectedAck
<1> QED
    BY <1>1, <1>2 DEF Answers

LEMMA AckRequestedDue ==
    ASSUME IndInv, ContentInv, AckInv, PauseAtSnapshot, AckRequested
    PROVE  /\ pc = "join" /\ pc' = "log" /\ Ack(NullValue)
           /\ UNCHANGED <<logPosition, control, activeLogEvent, currentSnapshot>>
           /\ acks = <<>> /\ logPosition = commitPos /\ currentSnapshot = NoSnapshot
           /\ cm = "draining" /\ ~ NoneAsked
<1>1. /\ pc = "join" /\ pc' = "log" /\ Ack(NullValue)
      /\ requestedAckPosition # NullPosition /\ logPosition >= requestedAckPosition
      /\ UNCHANGED <<logPosition, control, activeLogEvent, currentSnapshot>>
    BY DEF AckRequested, IsAckDue, positionVars, joinVars
<1>2. cm = "draining" /\ Answers(acks) = {} /\ ~ NoneAsked
    BY <1>1 DEF ContentInv, CallInv, NoneAsked, AckInv, AckOrderInv
<1>3. acks = <<>> /\ currentSnapshot = NoSnapshot
    BY <1>2, NoAnswerNoAck, NoAckAwaited
<1>4. logPosition = commitPos
  <2>1. requestedAckPosition = commitPos
    BY <1>1 DEF AckInv, CalledInv
  <2> QED
    BY <2>1, <1>1, AckTypes DEF NullPosition
<1> QED
    BY <1>1, <1>2, <1>3, <1>4

LEMMA AckRequestedAck ==
    ASSUME IndInv, ContentInv, AckInv, PauseAtSnapshot, OthersKeep, AckRequested
    PROVE  AckInv'
<1>1. Awaits(NullValue)
    BY AckRequestedDue DEF Awaits, ClientId, NullValue
<1>2. ~ IsStarting'
    BY AckRequestedDue DEF IsStarting, StartSteps
<1> QED
    BY <1>1, <1>2, AckRequestedDue, AckSent

LEMMA JoinActiveLogDue ==
    ASSUME IndInv, ContentInv, AckInv, PauseAtSnapshot, JoinActiveLog
    PROVE  /\ pc = "join" /\ pc' = "log" /\ ~ IsStarting /\ ~ IsStarting'
           /\ activeLogEvent # NoEvent /\ activeLogEvent' = NoEvent
           /\ UNCHANGED <<logPosition, control, currentSnapshot>>
           /\ acks = <<>> /\ logPosition = commitPos /\ currentSnapshot = NoSnapshot
           /\ cm = "joining" /\ ~ NoneAsked
           /\ Ack(NullValue) \/ (JoinAckMayBeLost /\ UNCHANGED <<acks, ackVars>>)
<1>1. /\ pc = "join" /\ pc' = "log" /\ activeLogEvent # NoEvent
      /\ activeLogEvent' = NoEvent
      /\ UNCHANGED <<logPosition, control, currentSnapshot>>
    BY DEF JoinActiveLog, MayJoin, positionVars
<1>2. /\ cm = "joining" /\ Answers(acks) = {} /\ ~ NoneAsked
    BY <1>1 DEF ContentInv, CallInv, NoneAsked, AckInv, AckOrderInv
<1>3. acks = <<>> /\ currentSnapshot = NoSnapshot
    BY <1>2, NoAnswerNoAck, NoAckAwaited
<1>4. ~ IsStarting /\ ~ IsStarting'
    BY <1>1 DEF IsStarting, StartSteps
<1>5. logPosition = commitPos
    BY <1>2, <1>4 DEF AckInv, CaughtUpInv
<1>6. Ack(NullValue) \/ (JoinAckMayBeLost /\ UNCHANGED <<acks, ackVars>>)
    BY DEF JoinActiveLog
<1>7. /\ pc = "join" /\ pc' = "log" /\ activeLogEvent # NoEvent
      /\ activeLogEvent' = NoEvent
      /\ UNCHANGED <<logPosition, control, currentSnapshot>>
      /\ acks = <<>> /\ logPosition = commitPos /\ currentSnapshot = NoSnapshot
      /\ cm = "joining"
    BY <1>1, <1>2, <1>3, <1>5
<1> QED
    BY <1>2, <1>4, <1>6, <1>7, Zenon

LEMMA JoinActiveLogAck ==
    ASSUME IndInv, ContentInv, AckInv, PauseAtSnapshot, OthersKeep, JoinActiveLog
    PROVE  AckInv'
<1>1. /\ pc = "join" /\ activeLogEvent' = NoEvent
      /\ UNCHANGED <<logPosition, control, currentSnapshot>>
      /\ cm = "joining" /\ acks = <<>> /\ currentSnapshot = NoSnapshot
      /\ logPosition = commitPos
    BY JoinActiveLogDue
<1>2. ~ IsStarting /\ ~ IsStarting'
    BY JoinActiveLogDue
<1>3. CASE Ack(NullValue)
  <2>1. Awaits(NullValue)
    BY <1>1 DEF Awaits, ClientId, NullValue
  <2> QED
    BY <2>1, <1>1, <1>2, <1>3, AckSent DEF IndInv, StepInv
<1>4. CASE JoinAckMayBeLost /\ UNCHANGED <<acks, ackVars>>
  <2> USE DEF OthersKeep, ackVars
  <2>1. AckOrderInv' /\ CalledInv'
    BY <1>1, <1>4
    DEF AckInv, AckOrderInv, CalledInv, IsExpected, Awaits, AwaitsSnapshot
  <2>2. StartedInv' /\ CaughtUpInv' /\ SnapshotAheadInv'
    BY <1>1, <1>2, <1>4 DEF AckInv, StartedInv, CaughtUpInv, SnapshotAheadInv
  <2> QED
    BY <2>1, <2>2 DEF AckInv
<1> QED
    BY <1>3, <1>4, JoinActiveLogDue

\* A termination position neither calls for an ack nor takes a call away.
LEMMA TerminationTaken ==
    ASSUME IndInv, ContentInv, OthersKeep, ControlMessage("ServiceTerminationPosition")
    PROVE  (Calls(control') = {}) <=> (Calls(control) = {})
<1>1. control # <<>> /\ control' = Tail(control)
    BY DEF ControlMessage
<1>2. /\ \A i \in Calls(control') : i + 1 \in Calls(control)
      /\ 1 \notin Calls(control)
    BY ControlTaken
<1>3. ASSUME NEW j \in Calls(control) PROVE j - 1 \in Calls(control')
  <2>1. j \in 1 .. Len(control) /\ Len(control) \in Nat /\ j # 1
    BY <1>2, AckTypes DEF Calls
  <2>2. j \in Calls(control) /\ j = (j - 1) + 1 /\ j - 1 \in Nat \ {0}
    BY <2>1
  <2> QED
    BY <2>2, <1>1, AckTypes, TailCalls
<1> QED
    BY <1>2, <1>3

\* A message of the control stream is taken, and what it calls for is noted.
LEMMA ControlMessageAck ==
    ASSUME IndInv, ContentInv, AckInv, PauseAtSnapshot, OthersKeep,
           OnJoinLog \/ OnRequestServiceAck \/ OnServiceTerminationPosition
    PROVE  AckInv'
<1>1. /\ control # <<>> /\ control' = Tail(control) /\ pc = "begin" /\ pc' = "join"
      /\ UNCHANGED <<logPosition, ackId, currentSnapshot, acks>>
    BY DEF OnJoinLog, OnRequestServiceAck, OnServiceTerminationPosition, ControlMessage,
           ClockTick, positionVars
<1>2. /\ ~ IsStarting /\ ~ IsStarting' /\ cm # "error"
      /\ acks' # <<>> <=> acks # <<>>
    BY <1>1 DEF IsStarting, StartSteps, AckInv, AckOrderInv
<1> USE DEF OthersKeep
<1>3. AckOrderInv'
    BY <1>1 DEF AckInv, AckOrderInv, IsExpected, Awaits, AwaitsSnapshot
<1>4. StartedInv' /\ CaughtUpInv' /\ SnapshotAheadInv'
    BY <1>1, <1>2 DEF AckInv, StartedInv, CaughtUpInv, SnapshotAheadInv
<1>5. CalledInv'
  <2>1. CASE OnJoinLog
    <3>1. ControlMessage("JoinLog")
        BY <2>1 DEF OnJoinLog
    <3>2. /\ activeLogEvent' = Head(control)
          /\ requestedAckPosition' = requestedAckPosition
        BY <2>1 DEF OnJoinLog
    <3>3. 1 \in Calls(control) /\ control[1] = Head(control) /\ Calls(control') = {}
        BY <3>1, <1>2, ControlTaken
    <3>4. Head(control).logPosition = commitPos
        BY <3>3 DEF AckInv, CalledInv
    <3>5. activeLogEvent' # NoEvent
        BY <3>1, <3>2 DEF ControlMessage, NoEvent
    <3> QED
        BY <3>2, <3>3, <3>4, <3>5, <1>1 DEF AckInv, CalledInv, NoneAsked
  <2>2. CASE OnRequestServiceAck
    <3>1. ControlMessage("RequestServiceAck")
        BY <2>2 DEF OnRequestServiceAck
    <3>2. /\ requestedAckPosition' = Head(control).logPosition
          /\ activeLogEvent' = activeLogEvent
        BY <2>2 DEF OnRequestServiceAck
    <3>3. 1 \in Calls(control) /\ control[1] = Head(control) /\ Calls(control') = {}
        BY <3>1, <1>2, ControlTaken
    <3>4. requestedAckPosition' = commitPos /\ requestedAckPosition' # NullPosition
        BY <3>2, <3>3, AckTypes DEF AckInv, CalledInv, NullPosition
    <3> QED
        BY <3>2, <3>3, <3>4, <1>1 DEF AckInv, CalledInv, NoneAsked
  <2>3. CASE OnServiceTerminationPosition
    <3>1. ControlMessage("ServiceTerminationPosition")
        BY <2>3 DEF OnServiceTerminationPosition
    <3>2. UNCHANGED <<requestedAckPosition, activeLogEvent>>
        BY <2>3 DEF OnServiceTerminationPosition
    <3>3. /\ \A i \in Calls(control') :
                i + 1 \in Calls(control) /\ control'[i] = control[i + 1]
          /\ 1 \notin Calls(control)
        BY <3>1, ControlTaken
    <3>4. (Calls(control') = {}) <=> (Calls(control) = {})
        BY <3>1, TerminationTaken
    <3> QED
        BY <3>2, <3>3, <3>4, <1>1 DEF AckInv, CalledInv, NoneAsked
  <2> QED
    BY <2>1, <2>2, <2>3
<1> QED
    BY <1>3, <1>4, <1>5 DEF AckInv

\* An event of the log: the agent was behind the commit position, so no ack was on its
\* way.
LEMMA LogEventIsBehind ==
    ASSUME IndInv, ContentInv, AckInv, LogEvent
    PROVE  /\ pc = "poll" /\ ~ IsStarting /\ ~ IsStarting'
           /\ logPosition \in Nat /\ commitPos \in Nat
           /\ NextPosition = logPosition + 1 /\ NextPosition <= commitPos
           /\ logPosition' = NextPosition
           /\ NextEvent = log[NextPosition]
           /\ UNCHANGED <<ackVars, activeLogEvent, control, acks>>
           /\ acks = <<>> /\ cm \notin {"starting", "settled", "joining"}
           /\ currentSnapshot = NoSnapshot
           /\ currentSnapshot' = IF NextEvent.kind = "Snapshot"
                                 THEN [step |-> "publication", recording |-> 0]
                                 ELSE NoSnapshot
<1>1. PICK kind : OnEvent(kind)
    BY DEF LogEvent, OnSessionMessage, OnTimerEvent, OnSessionOpen, OnSessionClose,
           OnTakeSnapshot, OnNewLeadershipTermEvent, OnMembershipChange
<1>2. /\ pc = "poll" /\ HasFragment /\ NextEvent.kind = kind
      /\ logPosition' = NextPosition
      /\ UNCHANGED <<ackVars, activeLogEvent, control, acks>>
    BY <1>1 DEF OnEvent
<1>3. /\ NextPosition = logPosition + 1 /\ NextPosition <= commitPos
      /\ NextEvent = log[NextPosition]
  <2>1. NextPosition <= poll.limit /\ poll.limit <= commitPos /\ NextPosition \in Nat
        /\ poll.limit \in Nat /\ commitPos \in Nat
    BY <1>2, NextEventType DEF IndInv, PositionInv, TypeOK, CMTypeOK, AgentTypeOK
  <2> QED
    BY <2>1, <1>2, NextEventIsLogged
<1>4. /\ pc' \in {"poll", "failed"}
      /\ currentSnapshot' = IF kind = "Snapshot" THEN [step |-> "publication", recording |-> 0]
                            ELSE currentSnapshot
  <2>1. CASE OnTakeSnapshot
    <3>1. NextEvent.kind = "Snapshot"
        BY <2>1 DEF OnTakeSnapshot, OnEvent
    <3> QED
        BY <2>1, <3>1, <1>2 DEF OnTakeSnapshot
  <2>2. CASE OnSessionOpen \/ OnSessionClose
    <3>1. NextEvent.kind # "Snapshot"
        BY <2>2 DEF OnSessionOpen, OnSessionClose, OnEvent
    <3> QED
        BY <2>2, <3>1, <1>2 DEF OnSessionOpen, OnSessionClose, Throw
  <2>3. CASE OnSessionMessage \/ OnTimerEvent \/ OnNewLeadershipTermEvent
             \/ OnMembershipChange
    <3>1. NextEvent.kind # "Snapshot"
        BY <2>3 DEF OnSessionMessage, OnTimerEvent, OnNewLeadershipTermEvent,
                    OnMembershipChange, OnEvent
    <3> QED
        BY <2>3, <3>1, <1>2 DEF OnSessionMessage, OnTimerEvent, OnNewLeadershipTermEvent,
                                OnMembershipChange
  <2> QED
    BY <2>1, <2>2, <2>3 DEF LogEvent
<1>5. ~ IsStarting /\ ~ IsStarting'
    BY <1>2, <1>4 DEF IsStarting, StartSteps
<1>6. /\ logPosition \in Nat /\ commitPos \in Nat /\ logPosition # commitPos
    BY <1>3, <1>5, AckTypes
<1>7. /\ acks = <<>> /\ cm \notin {"starting", "settled", "joining"}
      /\ currentSnapshot = NoSnapshot
    BY <1>5, <1>6 DEF AckInv, CaughtUpInv, SnapshotAheadInv
<1> QED
    BY <1>2, <1>3, <1>4, <1>5, <1>6, <1>7

\* A snapshot action is the last committed entry.
LEMMA LogEventAck ==
    ASSUME IndInv, ContentInv, AckInv, PauseAtSnapshot, OthersKeep, LogEvent
    PROVE  AckInv'
<1> DEFINE kind == NextEvent.kind
<1>1. /\ ~ IsStarting /\ ~ IsStarting'
      /\ logPosition \in Nat /\ commitPos \in Nat
      /\ NextPosition = logPosition + 1 /\ NextPosition <= commitPos
      /\ logPosition' = NextPosition /\ kind = log[NextPosition].kind
      /\ UNCHANGED <<ackVars, activeLogEvent, control, acks>>
    BY LogEventIsBehind
<1>2. /\ acks = <<>> /\ cm \notin {"starting", "settled", "joining"}
      /\ currentSnapshot = NoSnapshot
      /\ currentSnapshot' = IF kind = "Snapshot"
                            THEN [step |-> "publication", recording |-> 0]
                            ELSE NoSnapshot
    BY LogEventIsBehind
<1> HIDE DEF kind
<1> USE DEF OthersKeep, ackVars
<1>3. AckOrderInv' /\ CalledInv'
    BY <1>1 DEF AckInv, AckOrderInv, CalledInv, IsExpected, Awaits, AwaitsSnapshot, NoneAsked
<1>4. StartedInv' /\ CaughtUpInv'
    BY <1>1, <1>2 DEF AckInv, StartedInv, CaughtUpInv
<1>5. SnapshotAheadInv'
  <2>1. \A p \in logPosition + 1 .. commitPos :
           log[p].kind = "Snapshot" => cm = "snapshot" /\ p = commitPos
    BY <1>1 DEF AckInv, SnapshotAheadInv
  <2>2. \A p \in NextPosition + 1 .. commitPos : p \in logPosition + 1 .. commitPos
    BY <1>1
  <2>3. NextPosition \in logPosition + 1 .. commitPos
    BY <1>1
  <2>4. kind = "Snapshot" => cm = "snapshot" /\ NextPosition = commitPos
    BY <2>1, <2>3, <1>1
  <2>5. cm = "snapshot" => commitPos >= 1 /\ log[commitPos].kind = "Snapshot"
    BY DEF AckInv, SnapshotAheadInv
  <2>6. currentSnapshot' # NoSnapshot <=> kind = "Snapshot"
    BY <1>2 DEF NoSnapshot
  <2>7. cm = "snapshot" /\ NextPosition = commitPos => kind = "Snapshot"
    BY <2>5, <1>1
  <2> QED
    BY <2>1, <2>2, <2>4, <2>5, <2>6, <2>7, <1>1, <1>2 DEF SnapshotAheadInv
<1> QED
    BY <1>3, <1>4, <1>5 DEF AckInv

\* A step of doWork that neither sends, takes nor consumes anything.
QuietWork == NoClockTick \/ UnexpectedAbort \/ NoControlMessage \/ JoinNotContiguous
             \/ NoAckRequested \/ NoLog \/ PollLog \/ CloseLog \/ EndPoll

LEMMA QuietWorkKeeps ==
    ASSUME IndInv, QuietWork
    PROVE  /\ UNCHANGED <<ackVars, activeLogEvent, currentSnapshot, control, acks>>
           /\ logPosition' = logPosition /\ ~ IsStarting /\ ~ IsStarting'
<1>1. UNCHANGED <<ackVars, activeLogEvent, currentSnapshot, control, acks>>
    BY DEF QuietWork, NoClockTick, UnexpectedAbort, NoControlMessage, JoinNotContiguous,
           NoAckRequested, NoLog, PollLog, CloseLog, EndPoll, joinVars
<1>2. ~ IsStarting /\ ~ IsStarting'
    BY DEF QuietWork, NoClockTick, UnexpectedAbort, NoControlMessage, JoinNotContiguous,
           NoAckRequested, NoLog, PollLog, CloseLog, EndPoll, ClockTick, Throw,
           IsStarting, StartSteps
<1>3. logPosition' = logPosition
  <2>1. CASE CloseLog
    BY <2>1, ImagePosition DEF CloseLog
  <2>2. CASE ~ CloseLog
    BY <2>2 DEF QuietWork, NoClockTick, UnexpectedAbort, NoControlMessage,
         JoinNotContiguous, NoAckRequested, NoLog, PollLog, EndPoll, positionVars
  <2> QED
    BY <2>1, <2>2
<1> QED
    BY <1>1, <1>2, <1>3

LEMMA AgentStepAck ==
    ASSUME IndInv, ContentInv, AckInv, PauseAtSnapshot, AgentStep, IndInv'
    PROVE  AckInv'
<1>0. OthersKeep
    BY DEF AgentStep, AgentNext, OthersKeep
<1>1. CASE Recover \/ LoadFragment \/ OnStart
  <2>1. /\ UNCHANGED <<acks, ackVars, control, activeLogEvent>>
    BY <1>1 DEF Recover, LoadFragment, OnStart, joinVars
  <2>2. IsStarting /\ IsStarting'
    BY <1>0, <1>1, LoadFragmentContent
    DEF Recover, LoadFragment, OnStart, IsStarting, StartSteps
  <2> QED
    BY <1>0, <2>1, <2>2, StartingAck
<1>2. CASE SnapshotEndedUnexpectedly
    BY <1>2, SnapshotEndsAsExpected
<1>3. CASE StartAck
    BY <1>0, <1>3, StartAckAck
<1>4. CASE StartRecording \/ TakeAgentSnapshot \/ TakeServiceSnapshot
    BY <1>0, <1>4, SnapshotGoesOn
<1>5. CASE AckSnapshot
    BY <1>0, <1>5, AckSnapshotAck
<1>6. CASE OnJoinLog \/ OnRequestServiceAck \/ OnServiceTerminationPosition
    BY <1>0, <1>6, ControlMessageAck
<1>7. CASE JoinActiveLog
    BY <1>0, <1>7, JoinActiveLogAck
<1>8. CASE AckRequested
    BY <1>0, <1>8, AckRequestedAck
<1>9. CASE LogEvent
    BY <1>0, <1>9, LogEventAck
<1>10. CASE QuietWork
  <2>1. IsStarting' = IsStarting
    BY <1>10, QuietWorkKeeps DEF IsStarting
  <2> QED
    BY <1>0, <1>10, <2>1, QuietWorkKeeps, AckUnchanged DEF ackInvVars, OthersKeep, ackVars
<1> QED
    BY <1>1, <1>2, <1>3, <1>4, <1>5, <1>6, <1>7, <1>8, <1>9, <1>10
    DEF AgentStep, AgentNext, Startup, SnapshotWork, PollServiceAdapter, QuietWork

\* The node stops: what was on its way is gone, and the start is what is awaited.
LEMMA RestartAck ==
    ASSUME IndInv, Restart
    PROVE  AckInv'
<1>1. /\ acks' = <<>> /\ control' = <<>> /\ cm' = "starting" /\ pc' = "recover"
      /\ ackId' = 0 /\ expectedAckId' = 0 /\ commitPos' = recovery'.logPosition
      /\ activeLogEvent' = NoEvent /\ requestedAckPosition' = NullPosition
      /\ currentSnapshot' = NoSnapshot
    BY DEF Restart, CMRestart
<1>2. IsStarting' /\ Len(acks') = 0 /\ Calls(control') = {}
    BY <1>1 DEF IsStarting, StartSteps, Calls
<1>3. AckOrderInv' /\ CalledInv'
    BY <1>1, <1>2 DEF AckOrderInv, CalledInv
<1>4. StartedInv' /\ CaughtUpInv' /\ SnapshotAheadInv'
    BY <1>1, <1>2 DEF StartedInv, CaughtUpInv, SnapshotAheadInv
<1> QED
    BY <1>3, <1>4 DEF AckInv

LEMMA InitAck ==
    ASSUME Init
    PROVE  AckInv
<1>1. /\ acks = <<>> /\ control = <<>> /\ cm = "starting" /\ pc = "recover"
      /\ ackId = 0 /\ expectedAckId = 0 /\ commitPos = recovery.logPosition
      /\ activeLogEvent = NoEvent /\ requestedAckPosition = NullPosition
      /\ currentSnapshot = NoSnapshot
    BY DEF Init, CMInit, AgentInit
<1>2. IsStarting /\ Len(acks) = 0 /\ Calls(control) = {}
    BY <1>1 DEF IsStarting, StartSteps, Calls
<1>3. AckOrderInv /\ CalledInv
    BY <1>1, <1>2 DEF AckOrderInv, CalledInv
<1>4. StartedInv /\ CaughtUpInv /\ SnapshotAheadInv
    BY <1>1, <1>2 DEF StartedInv, CaughtUpInv, SnapshotAheadInv
<1> QED
    BY <1>3, <1>4 DEF AckInv

LEMMA NextAck ==
    ASSUME Promises, IndInv, ContentInv, AckInv, [Next]_vars
    PROVE  IndInv' /\ ContentInv' /\ AckInv'
<1>1. IndInv' /\ ContentInv'
    BY NextInd, NextContent DEF Promises, Reliable
<1>2. CASE CMStep
    BY <1>1, <1>2, CMStepAck
<1>3. CASE ArchiveStep \/ UNCHANGED vars
  <2>1. UNCHANGED <<cmVars, agentVars>>
    BY <1>3 DEF ArchiveStep, vars
  <2> QED
    BY <1>1, <2>1, AckUnchanged
    DEF cmVars, agentVars, positionVars, ackVars, joinVars, ackInvVars, IsStarting
<1>4. CASE AgentStep
    BY <1>1, <1>4, AgentStepAck DEF Promises
<1>5. CASE Restart
    BY <1>1, <1>5, RestartAck
<1> QED
    BY <1>1, <1>2, <1>3, <1>4, <1>5 DEF Next

\* Acks, and what calls for them, keep to the state of the consensus module: the
\* inductive invariant of a node whose consensus module and archive keep their
\* promises.
THEOREM ServiceAckInvariant == Promises => (Spec => [](IndInv /\ ContentInv /\ AckInv))
<1> SUFFICES ASSUME Promises PROVE Spec => [](IndInv /\ ContentInv /\ AckInv)
    OBVIOUS
<1>1. Init => IndInv /\ ContentInv /\ AckInv
    BY InitInd, InitContent, InitAck
<1>2. (IndInv /\ ContentInv /\ AckInv) /\ [Next]_vars => (IndInv /\ ContentInv /\ AckInv)'
    BY NextAck
<1> QED
    BY <1>1, <1>2, PTL DEF Spec

-----------------------------------------------------------------------------
(* What follows from it *)

\* The consensus module never sees an ack out of sequence, for another position than
\* the one it waits at, or that it did not ask for, over any terms, snapshots, replays
\* and restarts, whether or not the ack of a join is lost.
THEOREM AcksAreExpectedAlways == Promises => (Spec => []AcksAreExpected)
<1>1. AckInv => AcksAreExpected
    BY DEF AckInv, AckOrderInv, AcksAreExpected
<1> QED
    BY <1>1, ServiceAckInvariant, PTL

\* What is outstanding, by its kinds.
LEMMA OutstandingKinds ==
    ASSUME IndInv, Len(acks) <= 1, pc # "failed"
    PROVE  Outstanding =
               {<<"control", i>> : i \in Calls(control)}
               \cup (IF acks # <<>> THEN {<<"ack", 1>>} ELSE {})
               \cup (IF IsStarting THEN {<<"start">>} ELSE {})
               \cup (IF activeLogEvent # NoEvent THEN {<<"join">>} ELSE {})
               \cup (IF requestedAckPosition # NullPosition THEN {<<"request">>} ELSE {})
               \cup (IF currentSnapshot # NoSnapshot THEN {<<"snapshot">>} ELSE {})
               \cup (IF cm = "snapshot" /\ ~ IsStarting /\ logPosition < commitPos
                     THEN {<<"event">>} ELSE {})
<1>1. {<<"ack", i>> : i \in 1 .. Len(acks)} = IF acks # <<>> THEN {<<"ack", 1>>} ELSE {}
  <2>1. CASE acks = <<>>
    <3>1. Len(acks) = 0
        BY <2>1
    <3>2. 1 .. Len(acks) = {}
        BY <3>1
    <3> QED
        BY <2>1, <3>2
  <2>2. CASE acks # <<>>
    <3>1. Len(acks) \in Nat /\ 1 \in 1 .. Len(acks)
        BY <2>2, AckTypes
    <3>2. 1 .. Len(acks) = {1}
        BY <3>1
    <3> QED
        BY <2>2, <3>2
  <2> QED
    BY <2>1, <2>2
<1>2. {j \in 1 .. Len(control) : control[j].type # "ServiceTerminationPosition"}
         = Calls(control)
    BY DEF Calls
<1>3. pc \in WorkSteps <=> ~ IsStarting
    BY DEF IsStarting, WorkSteps, StartSteps, IndInv, TypeOK, AgentTypeOK
<1> QED
    BY <1>1, <1>2, <1>3 DEF Outstanding, IsStarting

\* Exactly one answer is outstanding where one is awaited, and none where none is.
LEMMA OutstandingCount ==
    ASSUME IndInv, ContentInv, AckInv, PauseAtSnapshot, pc # "failed"
    PROVE  OneAnswerOutstanding
<1>1. /\ Len(acks) <= 1 /\ cm # "error"
      /\ acks # <<>> => IsExpected(acks[1]) /\ Len(acks) = 1 /\ 1 \in 1 .. Len(acks)
    BY NoAckAwaited, AckTypes DEF AckInv, AckOrderInv
<1>2. cm \in {"starting", "settled", "active", "snapshot", "terminating"} => NoneAsked
    BY NothingAwaited
<1>3. cm # "snapshot" => currentSnapshot = NoSnapshot
    BY NoAckAwaited
<1>4. IsStarting => cm = "starting"
    BY DEF AckInv, StartedInv
<1>5. IsStarting \in BOOLEAN
    BY DEF IsStarting
<1>6. CASE cm \in {"settled", "active", "terminating"}
  <2>1. acks = <<>>
    BY <1>6, NoAckAwaited
  <2>2. Outstanding = {}
    BY <1>1, <1>2, <1>3, <1>4, <1>6, <2>1, OutstandingKinds DEF NoneAsked
  <2>3. Cardinality(Outstanding) = 0
    BY <2>2, FS_EmptySet
  <2> QED
    BY <1>6, <2>3 DEF OneAnswerOutstanding, IsAwaiting
<1>7. ASSUME NEW x, Outstanding = {x}, cm \in {"starting", "joining", "snapshot", "draining"}
      PROVE  OneAnswerOutstanding
  <2>1. Cardinality(Outstanding) = 1
    BY <1>7, FS_Singleton
  <2> QED
    BY <1>7, <2>1 DEF OneAnswerOutstanding, IsAwaiting
<1>8. CASE cm = "starting"
  <2>1. CASE IsStarting
    <3>1. acks = <<>>
        BY <2>1 DEF ContentInv, LoadInv, IsStarting
    <3>2. Outstanding = {<<"start">>}
        BY <1>1, <1>2, <1>3, <1>8, <2>1, <3>1, OutstandingKinds DEF NoneAsked
    <3> QED
        BY <1>7, <1>8, <3>2
  <2>2. CASE ~ IsStarting
    <3>1. acks # <<>>
        BY <1>8, <2>2 DEF AckInv, StartedInv
    <3>2. Outstanding = {<<"ack", 1>>}
        BY <1>1, <1>2, <1>3, <1>8, <2>2, <3>1, OutstandingKinds DEF NoneAsked
    <3> QED
        BY <1>7, <1>8, <3>2
  <2> QED
    BY <2>1, <2>2, <1>5
<1>9. CASE cm = "snapshot"
  <2>1. ~ IsStarting /\ NoneAsked
    BY <1>2, <1>4, <1>9
  <2>2. CASE acks # <<>>
    <3>1. logPosition = commitPos /\ currentSnapshot = NoSnapshot /\ commitPos \in Nat
        BY <2>1, <2>2, AckTypes DEF AckInv, CaughtUpInv, SnapshotAheadInv
    <3>2. Outstanding = {<<"ack", 1>>}
        BY <1>1, <2>1, <2>2, <3>1, OutstandingKinds DEF NoneAsked
    <3> QED
        BY <1>7, <1>9, <3>2
  <2>3. CASE acks = <<>> /\ currentSnapshot # NoSnapshot
    <3>1. logPosition = commitPos /\ commitPos \in Nat
        BY <2>3, AckTypes DEF AckInv, SnapshotAheadInv
    <3>2. Outstanding = {<<"snapshot">>}
        BY <1>1, <2>1, <2>3, <3>1, OutstandingKinds DEF NoneAsked
    <3> QED
        BY <1>7, <1>9, <3>2
  <2>4. CASE acks = <<>> /\ currentSnapshot = NoSnapshot
    <3>1. logPosition # commitPos
        BY <1>9, <2>4 DEF AckInv, SnapshotAheadInv
    <3>2. logPosition < commitPos
        BY <3>1, <2>1, AckTypes
    <3>3. Outstanding = {<<"event">>}
        BY <1>1, <1>9, <2>1, <2>4, <3>2, OutstandingKinds DEF NoneAsked
    <3> QED
        BY <1>7, <1>9, <3>3
  <2> QED
    BY <2>2, <2>3, <2>4
<1>10. CASE cm \in {"joining", "draining"}
  <2>1. ~ IsStarting /\ currentSnapshot = NoSnapshot /\ cm # "snapshot"
    BY <1>3, <1>4, <1>10
  <2>2. CASE acks # <<>>
    <3>1. acks[1].relevantId = NullValue
        BY <1>1, <1>10, <2>2, ExpectedAck
    <3>2. Answers(acks) # {}
        BY <1>1, <2>2, <3>1 DEF Answers
    <3>3. NoneAsked
        BY <1>1, <3>2 DEF ContentInv, CallInv
    <3>4. Outstanding = {<<"ack", 1>>}
        BY <1>1, <2>1, <2>2, <3>3, OutstandingKinds DEF NoneAsked
    <3> QED
        BY <1>7, <1>10, <3>4
  <2>3. CASE acks = <<>> /\ Calls(control) # {}
    <3>1. PICK i \in Calls(control) : TRUE
        BY <2>3
    <3>2. Calls(control) = {i} /\ activeLogEvent = NoEvent
          /\ requestedAckPosition = NullPosition
        BY <1>1, <3>1 DEF ContentInv, CallInv
    <3>3. Outstanding = {<<"control", i>>}
        BY <1>1, <2>1, <2>3, <3>2, OutstandingKinds
    <3> QED
        BY <1>7, <1>10, <3>3
  <2>4. CASE acks = <<>> /\ activeLogEvent # NoEvent
    <3>1. Calls(control) = {} /\ requestedAckPosition = NullPosition
        BY <1>1, <1>10, <2>4 DEF ContentInv, CallInv
    <3>2. Outstanding = {<<"join">>}
        BY <1>1, <2>1, <2>4, <3>1, OutstandingKinds
    <3> QED
        BY <1>7, <1>10, <3>2
  <2>5. CASE acks = <<>> /\ requestedAckPosition # NullPosition
    <3>1. Calls(control) = {} /\ activeLogEvent = NoEvent
        BY <1>1, <1>10, <2>5 DEF ContentInv, CallInv
    <3>2. Outstanding = {<<"request">>}
        BY <1>1, <2>1, <2>5, <3>1, OutstandingKinds
    <3> QED
        BY <1>7, <1>10, <3>2
  <2>6. CASE acks = <<>> /\ NoneAsked
    <3>1. cm = "joining" /\ JoinAckMayBeLost
        BY <1>10, <2>6 DEF AckInv, CalledInv
    <3>2. Outstanding = {}
        BY <1>1, <2>1, <2>6, OutstandingKinds DEF NoneAsked
    <3>3. Cardinality(Outstanding) = 0
        BY <3>2, FS_EmptySet
    <3> QED
        BY <3>1, <3>3 DEF OneAnswerOutstanding, IsAwaiting
  <2> QED
    BY <2>2, <2>3, <2>4, <2>5, <2>6 DEF NoneAsked
<1> QED
    BY <1>1, <1>6, <1>8, <1>9, <1>10 DEF IndInv, TypeOK, CMTypeOK, CMStates

\* What the consensus module waits for is on its way exactly once: as a message, what
\* the agent noted of it, a snapshot, an event it has not come to, or the ack; and
\* nothing is on its way that it does not wait for.
THEOREM OneAnswerOutstandingAlways == Promises => (Spec => []OneAnswerOutstanding)
<1> SUFFICES ASSUME Promises PROVE Spec => []OneAnswerOutstanding
    OBVIOUS
<1>1. IndInv /\ ContentInv /\ AckInv => OneAnswerOutstanding
    BY OutstandingCount DEF Promises, OneAnswerOutstanding
<1> QED
    BY <1>1, ServiceAckInvariant, PTL

-----------------------------------------------------------------------------
(* The node implements AckBarrier *)

\* What the answer is, by what calls for one.
AnswerNow ==
    IF acks # <<>> THEN "sent"
    ELSE IF cm \in {"joining", "draining"} /\ NoneAsked THEN "lost" ELSE "none"

LEMMA AnswerIs == Answer = AnswerNow /\ Answer' = AnswerNow'
<1>1. (~ IsAsked <=> NoneAsked) /\ (~ IsAsked <=> NoneAsked)'
    BY DEF IsAsked, NoneAsked, Calls
<1> QED
    BY <1>1 DEF Answer, AnswerNow

BarrierStep == [Barrier!BarrierNext]_(Barrier!barrierVars)

\* A step that neither asks, answers, commits nor consumes.
LEMMA BarrierStutters ==
    ASSUME UNCHANGED <<commitPos, recovery, acks, Consumed>>,
           \/ cm' = cm /\ (NoneAsked' <=> NoneAsked)
           \/ {cm, cm'} \cap {"starting", "joining", "snapshot", "draining"} = {}
    PROVE  BarrierStep
<1>1. AnswerNow' = AnswerNow
    BY DEF AnswerNow
<1>2. Answer' = Answer
    BY <1>1, AnswerIs
<1>3. Question' = Question
    BY DEF Question, IsAwaiting
<1> QED
    BY <1>2, <1>3 DEF BarrierStep, Barrier!barrierVars

\* A question is asked: nothing was awaited, and now a message calls for an answer.
LEMMA BarrierAsked ==
    ASSUME IndInv, ContentInv, AckInv, PauseAtSnapshot, UNCHANGED agentVars,
           UNCHANGED <<commitPos, recovery, acks>>,
           NEW m, m.type # "ServiceTerminationPosition", control' = Append(control, m),
           m \in ControlMessages,
           \/ cm = "settled" /\ cm' = "joining"
           \/ cm = "active" /\ cm' = "draining"
    PROVE  BarrierStep
<1>1. ~ IsStarting /\ acks = <<>>
    BY NoAckAwaited DEF AckInv, StartedInv
<1>2. pc # "recover" /\ Consumed = logPosition /\ Consumed' = Consumed
    BY <1>1 DEF IsStarting, StartSteps, Consumed, agentVars, positionVars
<1>3. cm' = "joining" => Consumed = commitPos
    BY <1>1, <1>2 DEF AckInv, CaughtUpInv
<1>4. ~ NoneAsked'
    BY AckTypes, AppendCalls DEF NoneAsked
<1>5. Answer = "none" /\ Answer' = "none"
    BY <1>1, <1>4, AnswerIs DEF AnswerNow
<1>6. Question = "nothing" /\ Question' = cm'
    BY DEF Question, IsAwaiting
<1> QED
    BY <1>2, <1>3, <1>5, <1>6 DEF BarrierStep, Barrier!BarrierNext, Barrier!Ask

\* An ack is taken: it was the answer, and of a snapshot it says where that was taken.
LEMMA BarrierAnswerTaken ==
    ASSUME IndInv, ContentInv, AckInv, PauseAtSnapshot, NEW ids, TakeAck(ids),
           UNCHANGED <<recordings, agentVars, restarts>>, cm' \in {"settled", "active"},
           recovery'.logPosition = IF cm = "snapshot" THEN Head(acks).logPosition
                                                      ELSE recovery.logPosition
    PROVE  BarrierStep
<1>1. acks # <<>> /\ acks' = Tail(acks) /\ commitPos' = commitPos /\ pc' = pc
      /\ logPosition' = logPosition
    BY DEF TakeAck, agentVars, positionVars
<1>2. pc # "recover" /\ Consumed' = Consumed
    BY <1>1, TakeAckContent DEF StartSteps, Consumed
<1>3. acks' = <<>>
  <2>1. Len(acks) = 1 /\ acks \in Seq(ServiceAcks)
    BY <1>1, NoAckAwaited, AckTypes
  <2>2. Len(acks') = 0 /\ acks' \in Seq(ServiceAcks)
    BY <2>1, <1>1, HeadTailProperties
  <2> QED
    BY <2>2, EmptySeq
<1>4. Head(acks).logPosition = commitPos
      /\ cm \in {"starting", "joining", "draining", "snapshot"}
    BY ExpectedAck DEF TakeAck
<1>5. Answer = "sent" /\ Answer' = "none"
    BY <1>1, <1>3, AnswerIs DEF AnswerNow
<1>6. Question = cm /\ Question' = "nothing"
    BY <1>4 DEF Question, IsAwaiting
<1>7. recovery'.logPosition = IF Question = "snapshot" THEN commitPos
                                                       ELSE recovery.logPosition
    BY <1>4, <1>6
<1> QED
    BY <1>1, <1>2, <1>5, <1>6, <1>7
    DEF BarrierStep, Barrier!BarrierNext, Barrier!TakeAnswer

LEMMA CommitBarrier ==
    ASSUME IndInv, ContentInv, AckInv, PauseAtSnapshot, Commit, UNCHANGED agentVars
    PROVE  BarrierStep
<1>1. /\ cm = "active" /\ cm' \in {"active", "snapshot"} /\ commitPos' = commitPos + 1
      /\ UNCHANGED <<recovery, acks, pc, logPosition>>
    BY DEF Commit, agentVars, positionVars
<1>2. Answer' = Answer /\ Consumed' = Consumed
    BY <1>1, AnswerIs DEF AnswerNow, Consumed
<1>3. Question = "nothing" /\ Question' \in {"nothing", "snapshot"}
    BY <1>1 DEF Question, IsAwaiting
<1> QED
    BY <1>1, <1>2, <1>3 DEF BarrierStep, Barrier!BarrierNext, Barrier!CommitNext

LEMMA CMStepBarrier ==
    ASSUME Promises, IndInv, ContentInv, AckInv, CMStep
    PROVE  BarrierStep
<1>0. /\ UNCHANGED <<recordings, agentVars, restarts>> /\ PauseAtSnapshot /\ AwaitDrain
      /\ UNCHANGED <<pc, logPosition, activeLogEvent, requestedAckPosition>>
    BY DEF CMStep, Promises, agentVars, positionVars, ackVars, joinVars
<1>1. CASE AppendEntry
  <2>1. UNCHANGED <<commitPos, recovery, acks, cm, control>>
    BY <1>1 DEF AppendEntry
  <2>2. Consumed' = Consumed /\ (NoneAsked' <=> NoneAsked)
    BY <1>0, <2>1 DEF Consumed, NoneAsked
  <2> QED
    BY <2>1, <2>2, BarrierStutters
<1>2. CASE Commit
    BY <1>0, <1>2, CommitBarrier
<1>3. CASE StartReplay \/ StartTerm
  <2>1. PICK m \in ControlMessages : /\ control' = Append(control, m)
                                     /\ m.type = "JoinLog" /\ m.logPosition = commitPos
    BY <1>3, JoinLogSent
  <2>2. cm = "settled" /\ cm' = "joining" /\ UNCHANGED <<commitPos, recovery, acks>>
    BY <1>3 DEF StartReplay, StartTerm, OpenStream
  <2>3. m.type # "ServiceTerminationPosition"
    BY <2>1
  <2> QED
    BY <1>0, <2>1, <2>2, <2>3, BarrierAsked
<1>4. CASE LeaveStream
  <2> DEFINE m == [type |-> "RequestServiceAck", logPosition |-> commitPos]
  <2>1. /\ cm = "active" /\ cm' = "draining" /\ control' = Append(control, m)
        /\ UNCHANGED <<commitPos, recovery, acks>>
    BY <1>0, <1>4 DEF LeaveStream
  <2>2. m \in ControlMessages /\ m.type # "ServiceTerminationPosition"
    BY AckTypes DEF ControlMessages
  <2> HIDE DEF m
  <2> QED
    BY <1>0, <2>1, <2>2, BarrierAsked
<1>5. CASE Terminate
  <2>1. /\ cm = "active" /\ cm' = "terminating" /\ UNCHANGED <<commitPos, recovery, acks>>
    BY <1>5 DEF Terminate
  <2>2. Consumed' = Consumed
    BY <1>0, <2>1 DEF Consumed
  <2> QED
    BY <2>1, <2>2, BarrierStutters
<1>6. CASE ServiceStarted
  <2>1. TakeAck({ClientId}) /\ cm' = "settled" /\ recovery' = recovery
        /\ Head(acks).relevantId = ClientId
    BY <1>6 DEF ServiceStarted, TakeAck
  <2>2. cm = "starting"
    BY <1>0, <2>1, ExpectedAck DEF TakeAck
  <2> QED
    BY <1>0, <2>1, <2>2, BarrierAnswerTaken
<1>7. CASE ServiceJoined \/ ServiceDrained
  <2>1. TakeAck({NullValue}) /\ cm' \in {"settled", "active"} /\ recovery' = recovery
        /\ cm \in {"joining", "draining"}
    BY <1>7 DEF ServiceJoined, ServiceDrained
  <2> QED
    BY <1>0, <2>1, BarrierAnswerTaken
<1>8. CASE SnapshotTaken
  <2>1. /\ TakeAck(Recordings) /\ cm' = IF cm = "snapshot" THEN "active" ELSE cm
        /\ recovery'.logPosition = Head(acks).logPosition
    BY <1>8 DEF SnapshotTaken
  <2>2. Head(acks).relevantId \in Recordings /\ IsExpected(Head(acks))
    BY <2>1 DEF TakeAck
  <2>3. Head(acks).relevantId # ClientId /\ Head(acks).relevantId # NullValue
    BY <2>2 DEF Recordings, ClientId, NullValue
  <2>4. cm = "snapshot"
    BY <1>0, <2>2, <2>3, ExpectedAck
  <2> QED
    BY <1>0, <2>1, <2>4, BarrierAnswerTaken
<1>9. CASE RejectAck
  <2>1. acks # <<>> /\ ~ IsExpected(Head(acks))
    BY <1>9 DEF RejectAck
  <2>2. IsExpected(acks[1]) /\ Head(acks) = acks[1]
    BY <1>0, <2>1, NoAckAwaited, AckTypes
  <2> QED
    BY <2>1, <2>2
<1> QED
    BY <1>1, <1>2, <1>3, <1>4, <1>5, <1>6, <1>7, <1>8, <1>9 DEF CMStep, CMNext

\* An ack is sent where it is due.
LEMMA BarrierAcknowledged ==
    ASSUME OthersKeep, NEW id, Ack(id), acks = <<>>, acks \in Seq(ServiceAcks),
           cm \in {"starting", "joining", "snapshot", "draining"},
           cm \in {"joining", "draining"} => ~ NoneAsked,
           pc # "recover", pc' # "recover", logPosition = commitPos,
           logPosition' = logPosition
    PROVE  BarrierStep
<1>1. acks' # <<>>
  <2>1. acks' = Append(acks, [logPosition |-> logPosition, ackId |-> ackId,
                              relevantId |-> id])
    BY DEF Ack, OfferAck
  <2> QED
    BY <2>1
<1>2. Answer = "none" /\ Answer' = "sent"
    BY <1>1, AnswerIs DEF AnswerNow
<1>3. Question # "nothing" /\ Question' = Question
    BY DEF Question, IsAwaiting, OthersKeep
<1>4. Consumed = commitPos /\ Consumed' = Consumed
    BY DEF Consumed
<1> QED
    BY <1>2, <1>3, <1>4
    DEF BarrierStep, Barrier!BarrierNext, Barrier!Acknowledge, OthersKeep

LEMMA JoinActiveLogBarrier ==
    ASSUME IndInv, ContentInv, AckInv, PauseAtSnapshot, OthersKeep, JoinActiveLog
    PROVE  BarrierStep
<1>1. /\ pc = "join" /\ pc' = "log" /\ UNCHANGED <<logPosition, control>>
      /\ acks = <<>> /\ logPosition = commitPos /\ cm = "joining" /\ ~ NoneAsked
      /\ activeLogEvent # NoEvent /\ activeLogEvent' = NoEvent
    BY JoinActiveLogDue
<1>2. CASE Ack(NullValue)
    BY <1>1, <1>2, AckTypes, BarrierAcknowledged
<1>3. CASE JoinAckMayBeLost /\ UNCHANGED <<acks, ackVars>>
  <2>1. NoneAsked'
    BY <1>1, <1>3 DEF NoneAsked, ContentInv, CallInv, AckInv, AckOrderInv, ackVars
  <2>2. Answer = "none" /\ Answer' = "lost"
    BY <1>1, <1>3, <2>1, AnswerIs DEF AnswerNow, OthersKeep
  <2>3. Question = "joining" /\ Question' = Question
    BY <1>1 DEF Question, IsAwaiting, OthersKeep
  <2>4. Consumed = commitPos /\ Consumed' = Consumed
    BY <1>1 DEF Consumed
  <2> QED
    BY <1>3, <2>2, <2>3, <2>4
    DEF BarrierStep, Barrier!BarrierNext, Barrier!Acknowledge, OthersKeep
<1> QED
    BY <1>2, <1>3, JoinActiveLogDue

\* What a message called for is asked for, still.
LEMMA ControlMessageBarrier ==
    ASSUME IndInv, ContentInv, AckInv, OthersKeep,
           OnJoinLog \/ OnRequestServiceAck \/ OnServiceTerminationPosition
    PROVE  BarrierStep
<1>1. /\ pc = "begin" /\ pc' = "join" /\ UNCHANGED <<logPosition, acks>>
      /\ cm # "error"
    BY DEF OnJoinLog, OnRequestServiceAck, OnServiceTerminationPosition, ControlMessage,
           ClockTick, positionVars, AckInv, AckOrderInv
<1>2. NoneAsked' <=> NoneAsked
  <2>1. CASE OnJoinLog \/ OnRequestServiceAck
    <3>1. ~ NoneAsked
      <4>1. \E type : ControlMessage(type) /\ type # "ServiceTerminationPosition"
          BY <2>1 DEF OnJoinLog, OnRequestServiceAck
      <4>2. 1 \in Calls(control)
          BY <4>1, ControlTaken
      <4> QED
          BY <4>2 DEF NoneAsked
    <3>2. ~ NoneAsked'
      <4>1. CASE OnJoinLog
        <5>1. activeLogEvent' = Head(control) /\ Head(control).type = "JoinLog"
            BY <4>1 DEF OnJoinLog, ControlMessage
        <5> QED
            BY <5>1 DEF NoneAsked, NoEvent
      <4>2. CASE OnRequestServiceAck
        <5>1. /\ ControlMessage("RequestServiceAck")
              /\ requestedAckPosition' = Head(control).logPosition
            BY <4>2 DEF OnRequestServiceAck
        <5>2. 1 \in Calls(control) /\ control[1] = Head(control)
            BY <5>1, ControlTaken
        <5>3. requestedAckPosition' = commitPos
            BY <5>1, <5>2 DEF AckInv, CalledInv
        <5> QED
            BY <5>3, AckTypes DEF NoneAsked, NullPosition
      <4> QED
          BY <2>1, <4>1, <4>2
    <3> QED
        BY <3>1, <3>2 DEF NoneAsked
  <2>2. CASE OnServiceTerminationPosition
    <3>1. /\ ControlMessage("ServiceTerminationPosition")
          /\ UNCHANGED <<requestedAckPosition, activeLogEvent>>
        BY <2>2 DEF OnServiceTerminationPosition
    <3>2. (Calls(control') = {}) = (Calls(control) = {})
        BY <3>1, TerminationTaken
    <3> QED
        BY <3>1, <3>2 DEF NoneAsked
  <2> QED
    BY <2>1, <2>2
<1>3. Consumed' = Consumed
    BY <1>1 DEF Consumed
<1> QED
    BY <1>1, <1>2, <1>3, BarrierStutters DEF OthersKeep

LEMMA LogEventBarrier ==
    ASSUME IndInv, ContentInv, AckInv, OthersKeep, LogEvent
    PROVE  BarrierStep
<1>1. /\ ~ IsStarting /\ ~ IsStarting' /\ logPosition \in Nat /\ commitPos \in Nat
      /\ logPosition' = logPosition + 1 /\ logPosition + 1 <= commitPos
      /\ UNCHANGED <<ackVars, activeLogEvent, control, acks>>
      /\ acks = <<>> /\ cm \notin {"starting", "settled", "joining"}
    BY LogEventIsBehind
<1>2. Consumed = logPosition /\ Consumed' = logPosition'
    BY <1>1 DEF IsStarting, StartSteps, Consumed
<1>3. cm = "draining" => ~ NoneAsked
    BY <1>1 DEF AckInv, CalledInv
<1>4. Answer = "none" /\ Answer' = "none" /\ Question' = Question
  <2>1. NoneAsked' <=> NoneAsked
    BY <1>1 DEF NoneAsked, ackVars
  <2> QED
    BY <1>1, <1>3, <2>1, AnswerIs DEF AnswerNow, Question, IsAwaiting, OthersKeep
<1> QED
    BY <1>1, <1>2, <1>4
    DEF BarrierStep, Barrier!BarrierNext, Barrier!Consume, OthersKeep

LEMMA AgentStepBarrier ==
    ASSUME IndInv, ContentInv, AckInv, PauseAtSnapshot, AgentStep
    PROVE  BarrierStep
<1>0. OthersKeep
    BY DEF AgentStep, AgentNext, OthersKeep
<1>1. CASE StartAck
    BY <1>0, <1>1, StartAckDue, AckTypes, BarrierAcknowledged
<1>2. CASE AckSnapshot
    BY <1>0, <1>2, AckSnapshotDue, AckTypes, BarrierAcknowledged
<1>3. CASE AckRequested
    BY <1>0, <1>3, AckRequestedDue, AckTypes, BarrierAcknowledged
<1>4. CASE JoinActiveLog
    BY <1>0, <1>4, JoinActiveLogBarrier
<1>5. CASE OnJoinLog \/ OnRequestServiceAck \/ OnServiceTerminationPosition
    BY <1>0, <1>5, ControlMessageBarrier
<1>6. CASE LogEvent
    BY <1>0, <1>6, LogEventBarrier
<1>7. CASE SnapshotEndedUnexpectedly
    BY <1>7, SnapshotEndsAsExpected
<1>8. ASSUME UNCHANGED <<activeLogEvent, requestedAckPosition, control, acks, Consumed>>
      PROVE  BarrierStep
  <2>1. NoneAsked' <=> NoneAsked
    BY <1>8 DEF NoneAsked
  <2> QED
    BY <1>0, <1>8, <2>1, BarrierStutters DEF OthersKeep
<1>9. CASE Recover \/ LoadFragment \/ OnStart
  <2>1. UNCHANGED <<activeLogEvent, requestedAckPosition, control, acks>>
    BY <1>9 DEF Recover, LoadFragment, OnStart, joinVars, ackVars
  <2>2. Consumed' = Consumed
    BY <1>0, <1>9, LoadFragmentContent
    DEF Recover, LoadFragment, OnStart, Consumed, positionVars, OthersKeep
  <2> QED
    BY <1>8, <2>1, <2>2
<1>10. CASE StartRecording \/ TakeAgentSnapshot \/ TakeServiceSnapshot
    BY <1>8, <1>10
    DEF StartRecording, TakeAgentSnapshot, TakeServiceSnapshot, SnapshotStep, positionVars,
        joinVars, ackVars, Consumed
<1>11. CASE QuietWork
    BY <1>8, <1>11, QuietWorkKeeps DEF ackVars, Consumed, IsStarting, StartSteps
<1> QED
    BY <1>1, <1>2, <1>3, <1>4, <1>5, <1>6, <1>7, <1>9, <1>10, <1>11
    DEF AgentStep, AgentNext, Startup, SnapshotWork, PollServiceAdapter, QuietWork

LEMMA NextBarrier ==
    ASSUME Promises, IndInv, ContentInv, AckInv, [Next]_vars
    PROVE  BarrierStep
<1>1. CASE CMStep
    BY <1>1, CMStepBarrier
<1>2. CASE ArchiveStep \/ UNCHANGED vars
  <2>1. UNCHANGED <<cmVars, agentVars>>
    BY <1>2 DEF ArchiveStep, vars
  <2>2. UNCHANGED <<commitPos, recovery, acks, cm, control, activeLogEvent,
                    requestedAckPosition, pc, logPosition>>
    BY <2>1 DEF cmVars, agentVars, positionVars, ackVars, joinVars
  <2>3. Consumed' = Consumed /\ (NoneAsked' <=> NoneAsked)
    BY <2>2 DEF Consumed, NoneAsked
  <2> QED
    BY <2>2, <2>3, BarrierStutters
<1>3. CASE AgentStep
    BY <1>3, AgentStepBarrier DEF Promises
<1>4. CASE Restart
  <2>1. /\ acks' = <<>> /\ cm' = "starting" /\ pc' = "recover" /\ recovery' = recovery
        /\ commitPos' = recovery.logPosition
    BY <1>4 DEF Restart, CMRestart
  <2>2. /\ Answer' = "none" /\ Question' = "starting"
        /\ Consumed' = recovery.logPosition
    BY <2>1, AnswerIs DEF AnswerNow, Question, IsAwaiting, Consumed
  <2> QED
    BY <2>1, <2>2 DEF BarrierStep, Barrier!BarrierNext, Barrier!StartAgain
<1> QED
    BY <1>1, <1>2, <1>3, <1>4 DEF Next

LEMMA InitBarrier ==
    ASSUME Init
    PROVE  Barrier!BarrierInit
<1>1. /\ acks = <<>> /\ cm = "starting" /\ pc = "recover" /\ commitPos = 0
      /\ recovery.logPosition = 0
    BY DEF Init, CMInit, AgentInit
<1>2. Answer = "none" /\ Question = "starting" /\ Consumed = 0
    BY <1>1, AnswerIs DEF AnswerNow, Question, IsAwaiting, Consumed
<1> QED
    BY <1>1, <1>2 DEF Barrier!BarrierInit

\* Every ack is a barrier: asked for when nothing else is, given once, by an agent that
\* has consumed the whole of the committed log, before anything more is committed; the
\* ack of a snapshot makes that very position the one a restart goes back to; and an
\* ack that is lost is one of a join, after which only a restart helps.
THEOREM NodeImplementsAckBarrier == Promises => (Spec => ImplementsAckBarrier)
<1> SUFFICES ASSUME Promises PROVE Spec => ImplementsAckBarrier
    OBVIOUS
<1> DEFINE Inv == IndInv /\ ContentInv /\ AckInv
<1>1. Init => Inv /\ Barrier!BarrierInit
    BY InitInd, InitContent, InitAck, InitBarrier
<1>2. Inv /\ [Next]_vars => Inv' /\ [Barrier!BarrierNext]_(Barrier!barrierVars)
    BY NextAck, NextBarrier DEF BarrierStep
<1> QED
    BY <1>1, <1>2, PTL DEF Spec, ImplementsAckBarrier, Barrier!BarrierSpec

-----------------------------------------------------------------------------
(* Joining a log *)

\* A log is joined where the last one was left: with a consensus module that has the
\* service drain a stream before it opens the next, and after any restart, the check
\* of joinActiveLog ("Cluster log must be contiguous") never throws.
THEOREM JoinedLogIsContiguousAlways == Promises => (Spec => []JoinedLogIsContiguous)
<1> SUFFICES ASSUME Promises PROVE Spec => []JoinedLogIsContiguous
    OBVIOUS
<1>1. IndInv /\ ContentInv /\ AckInv => JoinedLogIsContiguous
  <2> SUFFICES ASSUME IndInv, ContentInv, AckInv, pc = "join", MayJoin
               PROVE  IsContiguous
    BY DEF JoinedLogIsContiguous
  <2>1. activeLogEvent # NoEvent /\ ~ IsStarting
    BY DEF MayJoin, IsStarting, StartSteps
  <2>2. cm = "joining"
    BY <2>1 DEF ContentInv, CallInv, NoneAsked, AckInv, AckOrderInv
  <2>3. logPosition = commitPos /\ activeLogEvent.logPosition = commitPos
    BY <2>1, <2>2 DEF AckInv, CaughtUpInv, CalledInv
  <2>4. activeLogEvent.stream = Len(streams) /\ streams # <<>>
    <3>1. activeLogEvent.stream = Len(streams)
        BY <2>1 DEF ContentInv, CallInv
    <3>2. activeLogEvent.stream \in Nat \ {0}
        BY <2>1 DEF IndInv, TypeOK, AgentTypeOK, JoinLogEvents
    <3> QED
        BY <3>1, <3>2, EmptySeq
  <2>5. JoinPosition = commitPos
    BY <2>2, <2>4 DEF ContentInv, CurrentInv, JoinPosition, Current
  <2> QED
    BY <2>3, <2>5 DEF IsContiguous
<1> QED
    BY <1>1, ServiceAckInvariant, PTL
=============================================================================
