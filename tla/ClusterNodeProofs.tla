-------------------------- MODULE ClusterNodeProofs --------------------------
(***************************************************************************)
(* Proofs about ClusterNode, for every value of its constants.             *)
(***************************************************************************)
EXTENDS ClusterNode, SequenceTheorems, FiniteSetTheorems, TLAPS

-----------------------------------------------------------------------------
(* Entries of streams *)

LEMMA EntryAtType ==
    ASSUME NEW s \in Streams, NEW p \in Nat, s.base < p, p <= StreamEnd(s)
    PROVE  EntryAt(s, p) \in Entries
<1>1. s.entries \in Seq(Entries) /\ s.base \in Nat
    BY DEF Streams
<1>2. p - s.base \in 1 .. Len(s.entries)
    BY <1>1 DEF StreamEnd
<1> QED
    BY <1>1, <1>2, ElementOfSeq DEF EntryAt

LEMMA OpenAtType ==
    ASSUME NEW l \in Seq(Entries), NEW p \in 0 .. Len(l)
    PROVE  OpenAt(l, p) \in SUBSET Sessions
<1>1. CASE p = 0
    BY <1>1 DEF OpenAt
<1>2. CASE p # 0
    <2>1. l[p] \in Entries
        BY <1>2, ElementOfSeq
    <2> QED
        BY <1>2, <2>1 DEF OpenAt, Entries
<1> QED
    BY <1>1, <1>2

-----------------------------------------------------------------------------
LEMMA InitInd == Init => IndInv
<1> SUFFICES ASSUME Init PROVE IndInv
    OBVIOUS
<1> USE ServiceAgentAssumption DEF Init, CMInit, ArchiveInit, AgentInit, NullValue, NullPosition
<1>1. TypeOK
  <2>1. CMTypeOK
    BY EmptySeq DEF CMTypeOK, CMStates
  <2>2. ArchiveTypeOK
    BY DEF ArchiveTypeOK
  <2>3. AgentTypeOK
    BY DEF AgentTypeOK, StartSteps, WorkSteps, NoEvent, NoImage, NoSnapshot, SnapshotStates, Roles
  <2> QED BY <2>1, <2>2, <2>3 DEF TypeOK
<1>2. PositionInv
  BY DEF PositionInv
<1>3. StreamInv
  BY DEF StreamInv, NoEvent, NoImage
<1>4. StepInv
  BY DEF StepInv, StartSteps, NoImage, NoSnapshot
<1>5. RecordingInv
  BY DEF RecordingInv, NoSnapshot
<1> QED
  BY <1>1, <1>2, <1>3, <1>4, <1>5 DEF IndInv

-----------------------------------------------------------------------------
(* Steps of the consensus module *)

\* What a step of the consensus module leaves alone: the agent and the archive.
LEMMA CMStepKeepsAgent ==
    ASSUME IndInv, UNCHANGED <<recordings, agentVars, restarts>>
    PROVE  ArchiveTypeOK' /\ AgentTypeOK' /\ restarts' \in Nat
BY DEF IndInv, TypeOK, ArchiveTypeOK, AgentTypeOK, agentVars, positionVars, ackVars,
       sessionVars, joinVars, startVars

LEMMA StreamType ==
    ASSUME CMTypeOK, NEW i \in 1 .. Len(streams)
    PROVE  /\ streams[i] \in Streams
           /\ streams[i].base \in Nat
           /\ streams[i].entries \in Seq(Entries)
<1>1. streams[i] \in Streams
    BY ElementOfSeq DEF CMTypeOK
<1> QED
    BY <1>1 DEF Streams

\* The current stream.
LEMMA CurrentStream ==
    ASSUME CMTypeOK, streams # <<>>
    PROVE  /\ Len(streams) \in 1 .. Len(streams)
           /\ Current \in Streams
<1>1. streams \in Seq(Streams)
    BY DEF CMTypeOK
<1>2. Len(streams) \in 1 .. Len(streams)
    BY <1>1, EmptySeq
<1> QED
    BY <1>1, <1>2, ElementOfSeq DEF Current

LEMMA CandidatesType ==
    ASSUME CMTypeOK, PositionInv, StreamInv, streams # <<>>
    PROVE  Candidates \subseteq Entries
<1>1. OpenAtEnd \in SUBSET Sessions
  <2>0. Current \in Streams /\ Current.base <= commitPos
    BY CurrentStream DEF StreamInv, Current
  <2>1. CASE Current.entries = <<>>
    <3>1. Current.base \in 0 .. Len(log) /\ log \in Seq(Entries)
        BY <2>0 DEF CMTypeOK, PositionInv, Streams
    <3> QED
        BY <2>1, <3>1, OpenAtType DEF OpenAtEnd
  <2>2. CASE Current.entries # <<>>
    <3>1. Current.entries \in Seq(Entries)
        BY <2>0 DEF Streams
    <3>2. Current.entries[Len(Current.entries)] \in Entries
        BY <2>2, <3>1, EmptySeq, ElementOfSeq
    <3> QED
        BY <2>2, <3>2 DEF OpenAtEnd, Entries
  <2> QED
    BY <2>1, <2>2
<1> QED
    BY <1>1 DEF Candidates, Entries, Kinds, CMTypeOK

\* Replacing the entries of the current stream.
LEMMA CurrentEntries ==
    ASSUME CMTypeOK, streams # <<>>, NEW es \in Seq(Entries),
           streams' = [streams EXCEPT ![Len(streams)].entries = es]
    PROVE  /\ streams' \in Seq(Streams)
           /\ Len(streams') = Len(streams)
           /\ \A i \in 1 .. Len(streams) : streams'[i].base = streams[i].base
<1>1. Len(streams) \in 1 .. Len(streams) /\ Current \in Streams /\ streams \in Seq(Streams)
    BY CurrentStream DEF CMTypeOK
<1> DEFINE s == [Current EXCEPT !.entries = es]
<1>2. s \in Streams /\ s.base = Current.base
    BY <1>1 DEF Streams
<1>3. streams' = [streams EXCEPT ![Len(streams)] = s]
    BY <1>1 DEF Current
<1> HIDE DEF s
<1> QED
    BY <1>1, <1>2, <1>3, ExceptSeq DEF Current

LEMMA AppendEntryInd ==
    ASSUME IndInv, AppendEntry, UNCHANGED <<recordings, agentVars, restarts>>
    PROVE  IndInv'
<1>1. PICK e \in Entries :
          streams' = [streams EXCEPT ![Len(streams)].entries = Append(@, e)]
    BY CandidatesType DEF IndInv, TypeOK, AppendEntry, IsLive
<1>2. Current.entries \in Seq(Entries)
    BY CurrentStream DEF IndInv, TypeOK, AppendEntry, IsLive, Streams
<1>3. /\ streams' \in Seq(Streams)
      /\ Len(streams') = Len(streams)
      /\ \A i \in 1 .. Len(streams) : streams'[i].base = streams[i].base
  <2>1. streams' = [streams EXCEPT ![Len(streams)].entries = Append(Current.entries, e)]
    BY <1>1 DEF Current
  <2>2. Append(Current.entries, e) \in Seq(Entries)
    BY <1>1, <1>2, AppendProperties
  <2> QED
    BY <2>1, <2>2, CurrentEntries DEF IndInv, TypeOK, AppendEntry, IsLive
<1> USE DEF agentVars, positionVars, ackVars, sessionVars, joinVars, startVars
<1>4. CMTypeOK'
    BY <1>3 DEF IndInv, TypeOK, CMTypeOK, AppendEntry
<1>5. PositionInv'
    BY DEF IndInv, PositionInv, AppendEntry
<1>6. StreamInv'
    BY <1>3 DEF IndInv, StreamInv, AppendEntry
<1>7. StepInv' /\ RecordingInv'
    BY DEF IndInv, StepInv, RecordingInv, AppendEntry
<1> QED
    BY <1>4, <1>5, <1>6, <1>7, CMStepKeepsAgent DEF IndInv, TypeOK

LEMMA CommitInd ==
    ASSUME IndInv, Commit, UNCHANGED <<recordings, agentVars, restarts>>
    PROVE  IndInv'
<1> DEFINE e == EntryAt(Current, commitPos + 1)
<1>0. streams # <<>> /\ commitPos < StreamEnd(Current)
    BY DEF Commit
<1>1. Current \in Streams /\ Current.base <= commitPos /\ commitPos \in Nat
    BY <1>0, CurrentStream DEF IndInv, TypeOK, CMTypeOK, StreamInv, Current
<1>2. e \in Entries
  <2>1. Current.base < commitPos + 1 /\ commitPos + 1 <= StreamEnd(Current)
    BY <1>0, <1>1, LenProperties DEF StreamEnd, Streams
  <2> QED
    BY <1>1, <2>1, EntryAtType
<1> HIDE DEF e
<1>3. log' \in Seq(Entries) /\ Len(log') >= Len(log) /\ commitPos + 1 <= Len(log')
  <2>0. log \in Seq(Entries) /\ commitPos <= Len(log) /\ Len(log) \in Nat
    BY LenProperties DEF IndInv, TypeOK, CMTypeOK, PositionInv
  <2>1. CASE commitPos < Len(log)
    BY <1>1, <2>0, <2>1 DEF Commit, e
  <2>2. CASE ~ commitPos < Len(log)
    <3>1. log' = Append(log, e)
        BY <2>2 DEF Commit, e
    <3> QED
        BY <1>1, <1>2, <2>0, <2>2, <3>1, AppendProperties
  <2> QED
    BY <2>1, <2>2
<1>4. cm' \in CMStates
    BY DEF Commit, IndInv, TypeOK, CMTypeOK, CMStates
<1> USE DEF agentVars, positionVars, ackVars, sessionVars, joinVars, startVars
<1>5. CMTypeOK'
    BY <1>3, <1>4 DEF IndInv, TypeOK, CMTypeOK, Commit
<1>6. PositionInv'
    BY <1>1, <1>3 DEF IndInv, PositionInv, Commit, TypeOK, AgentTypeOK, CMTypeOK, NullPosition
<1>7. StreamInv'
  <2>1. \A i \in 1 .. Len(streams) : streams[i].base \in Nat
    BY StreamType DEF IndInv, TypeOK
  <2> QED
    BY <1>1, <2>1 DEF IndInv, StreamInv, Commit
<1>8. StepInv' /\ RecordingInv'
    BY DEF IndInv, StepInv, RecordingInv, Commit
<1> QED
    BY <1>5, <1>6, <1>7, <1>8, CMStepKeepsAgent DEF IndInv, TypeOK

\* Opening a stream: what StartReplay and StartTerm have in common.
LEMMA OpenStreamInd ==
    ASSUME IndInv, NEW entries \in Seq(Entries), NEW max \in Nat,
           NEW isStartup \in BOOLEAN, NEW r \in Roles,
           OpenStream(entries, max, isStartup, r),
           UNCHANGED <<recordings, agentVars, restarts>>
    PROVE  IndInv'
<1> DEFINE s == [base |-> commitPos, entries |-> entries, max |-> max]
           m == [type |-> "JoinLog", logPosition |-> commitPos, maxLogPosition |-> max,
                 stream |-> Len(streams) + 1, isStartup |-> isStartup, role |-> r]
<1>1. commitPos \in Nat /\ streams \in Seq(Streams) /\ control \in Seq(ControlMessages)
    BY DEF IndInv, TypeOK, CMTypeOK
<1>2. s \in Streams /\ m \in ControlMessages
    BY <1>1, LenProperties DEF Streams, ControlMessages, JoinLogEvents
<1>3. s.base = commitPos /\ m.stream = Len(streams) + 1
    OBVIOUS
<1>4. streams' = Append(streams, s) /\ control' = Append(control, m)
    BY DEF OpenStream
<1> HIDE DEF s, m
<1>5. /\ streams' \in Seq(Streams)
      /\ Len(streams') = Len(streams) + 1 /\ Len(streams) \in Nat
      /\ \A i \in 1 .. Len(streams) : streams'[i] = streams[i]
      /\ streams'[Len(streams) + 1] = s
    BY <1>1, <1>2, <1>4, AppendProperties, LenProperties
<1>6. /\ control' \in Seq(ControlMessages)
      /\ Len(control') = Len(control) + 1 /\ Len(control) \in Nat
      /\ \A i \in 1 .. Len(control) : control'[i] = control[i]
      /\ control'[Len(control) + 1] = m
    BY <1>1, <1>2, <1>4, AppendProperties, LenProperties
<1> USE DEF agentVars, positionVars, ackVars, sessionVars, joinVars, startVars
<1>7. CMTypeOK'
    BY <1>5, <1>6 DEF IndInv, TypeOK, CMTypeOK, OpenStream, CMStates
<1>8. PositionInv'
    BY DEF IndInv, PositionInv, OpenStream
<1>9. StreamInv'
  <2>1. \A i \in 1 .. Len(streams') : streams'[i].base <= commitPos'
    BY <1>1, <1>3, <1>5 DEF IndInv, StreamInv, OpenStream
  <2>2. \A i \in 1 .. Len(control') :
           control'[i].type = "JoinLog" => control'[i].stream <= Len(streams')
    <3>1. \A i \in 1 .. Len(control) :
             control[i].type = "JoinLog" => control[i].stream \in Nat
        BY <1>1, ElementOfSeq DEF ControlMessages, JoinLogEvents
    <3>2. TAKE i \in 1 .. Len(control')
    <3>3. CASE i = Len(control) + 1
        BY <3>3, <1>3, <1>5, <1>6
    <3>4. CASE i \in 1 .. Len(control)
      <4>1. control[i].type = "JoinLog" => control[i].stream <= Len(streams)
        BY <3>4 DEF IndInv, StreamInv
      <4> QED
        BY <3>1, <3>4, <4>1, <1>5, <1>6
    <3> QED
        BY <3>3, <3>4, <1>6
  <2>3. activeLogEvent' # NoEvent => activeLogEvent'.stream <= Len(streams')
    <3>1. activeLogEvent # NoEvent => activeLogEvent.stream \in Nat
        BY DEF IndInv, TypeOK, AgentTypeOK, JoinLogEvents
    <3> QED
        BY <3>1, <1>5 DEF IndInv, StreamInv
  <2>4. image' # NoImage =>
          /\ image'.stream \in 1 .. Len(streams')
          /\ streams'[image'.stream].base <= image'.position
          /\ image'.position = logPosition'
    BY <1>5 DEF IndInv, StreamInv
  <2> QED
    BY <2>1, <2>2, <2>3, <2>4 DEF StreamInv
<1>10. StepInv' /\ RecordingInv'
    BY DEF IndInv, StepInv, RecordingInv, OpenStream
<1> QED
    BY <1>7, <1>8, <1>9, <1>10, CMStepKeepsAgent DEF IndInv, TypeOK

LEMMA StartReplayInd ==
    ASSUME IndInv, StartReplay, UNCHANGED <<recordings, agentVars, restarts>>
    PROVE  IndInv'
<1>1. log \in Seq(Entries) /\ commitPos \in Nat /\ Len(log) \in Nat
    BY LenProperties DEF IndInv, TypeOK, CMTypeOK
<1>2. SubSeq(log, commitPos + 1, Len(log)) \in Seq(Entries)
  <2>1. \A i \in commitPos + 1 .. Len(log) : log[i] \in Entries
    BY <1>1, ElementOfSeq
  <2> QED
    BY <1>1, <2>1, SubSeqProperties
<1>3. "FOLLOWER" \in Roles
    BY DEF Roles
<1>4. OpenStream(SubSeq(log, commitPos + 1, Len(log)), Len(log), TRUE, "FOLLOWER")
    BY DEF StartReplay
<1> QED
    BY <1>1, <1>2, <1>3, <1>4, OpenStreamInd

LEMMA StartTermInd ==
    ASSUME IndInv, StartTerm, UNCHANGED <<recordings, agentVars, restarts>>
    PROVE  IndInv'
<1>1. PICK r \in Roles : OpenStream(<<>>, NoMaxPosition, IsStartup, r)
    BY DEF StartTerm
<1>2. <<>> \in Seq(Entries) /\ NoMaxPosition \in Nat /\ IsStartup \in BOOLEAN
    BY ClusterLogAssumption, EmptySeq DEF NoMaxPosition, IsStartup
<1> QED
    BY <1>1, <1>2, OpenStreamInd

\* Sending the service a position: LeaveStream and Terminate.
LEMMA ControlPositionInd ==
    ASSUME IndInv, NEW m \in ControlMessages, m.type # "JoinLog",
           control' = Append(control, m), cm' \in CMStates,
           UNCHANGED <<log, commitPos, streams, term, expectedAckId, recovery, acks>>,
           UNCHANGED <<recordings, agentVars, restarts>>
    PROVE  IndInv'
<1>1. control \in Seq(ControlMessages)
    BY DEF IndInv, TypeOK, CMTypeOK
<1>2. /\ control' \in Seq(ControlMessages)
      /\ Len(control') = Len(control) + 1 /\ Len(control) \in Nat
      /\ \A i \in 1 .. Len(control) : control'[i] = control[i]
      /\ control'[Len(control) + 1] = m
    BY <1>1, AppendProperties, LenProperties
<1> USE DEF agentVars, positionVars, ackVars, sessionVars, joinVars, startVars
<1>3. CMTypeOK'
    BY <1>2 DEF IndInv, TypeOK, CMTypeOK
<1>4. PositionInv' /\ StepInv' /\ RecordingInv'
    BY DEF IndInv, PositionInv, StepInv, RecordingInv
<1>5. StreamInv'
    BY <1>2 DEF IndInv, StreamInv
<1> QED
    BY <1>3, <1>4, <1>5, CMStepKeepsAgent DEF IndInv, TypeOK

LEMMA LeaveStreamInd ==
    ASSUME IndInv, LeaveStream, UNCHANGED <<recordings, agentVars, restarts>>
    PROVE  IndInv'
<1>1. CASE AwaitDrain
  <2>1. [type |-> "RequestServiceAck", logPosition |-> commitPos] \in ControlMessages
    BY DEF ControlMessages, IndInv, TypeOK, CMTypeOK
  <2>2. control' = Append(control, [type |-> "RequestServiceAck", logPosition |-> commitPos])
        /\ cm' \in CMStates
    BY <1>1 DEF LeaveStream, CMStates
  <2> QED
    BY <2>1, <2>2, ControlPositionInd DEF LeaveStream
<1>2. CASE ~ AwaitDrain
  <2> USE DEF agentVars, positionVars, ackVars, sessionVars, joinVars, startVars
  <2>1. CMTypeOK' /\ PositionInv' /\ StreamInv'
    BY <1>2 DEF LeaveStream, IndInv, TypeOK, CMTypeOK, CMStates, PositionInv, StreamInv
  <2>2. StepInv' /\ RecordingInv'
    BY DEF LeaveStream, IndInv, StepInv, RecordingInv
  <2> QED
    BY <2>1, <2>2, CMStepKeepsAgent DEF IndInv, TypeOK
<1> QED
    BY <1>1, <1>2

LEMMA TerminateInd ==
    ASSUME IndInv, Terminate, UNCHANGED <<recordings, agentVars, restarts>>
    PROVE  IndInv'
<1>1. [type |-> "ServiceTerminationPosition", logPosition |-> commitPos] \in ControlMessages
    BY DEF ControlMessages, IndInv, TypeOK, CMTypeOK
<1>2. cm' \in CMStates
    BY DEF Terminate, CMStates
<1> QED
    BY <1>1, <1>2, ControlPositionInd DEF Terminate

\* The ack at the head is one of the agent's, and what is left of the acks are.
LEMMA TakeAckType ==
    ASSUME IndInv, NEW ids, TakeAck(ids)
    PROVE  /\ Head(acks) \in ServiceAcks
           /\ Head(acks) = acks[1] /\ 1 \in 1 .. Len(acks)
           /\ Head(acks).relevantId \in ids
           /\ acks' \in Seq(ServiceAcks)
           /\ \A i \in 1 .. Len(acks') : i + 1 \in 1 .. Len(acks) /\ acks'[i] = acks[i + 1]
<1>1. acks \in Seq(ServiceAcks) /\ acks # <<>> /\ acks' = Tail(acks)
    BY DEF IndInv, TypeOK, CMTypeOK, TakeAck
<1>2. Len(acks) \in Nat \ {0}
    BY <1>1, EmptySeq
<1> QED
    BY <1>1, <1>2, HeadTailProperties DEF TakeAck

\* A step that takes an ack and changes neither streams, term nor recovery.
LEMMA TakeAckInd ==
    ASSUME IndInv, NEW ids, TakeAck(ids), cm' \in CMStates,
           UNCHANGED <<streams, term, recovery>>,
           UNCHANGED <<recordings, agentVars, restarts>>
    PROVE  IndInv'
<1> USE TakeAckType DEF agentVars, positionVars, ackVars, sessionVars, joinVars, startVars
<1>1. CMTypeOK'
    BY DEF IndInv, TypeOK, CMTypeOK, TakeAck
<1>2. PositionInv' /\ StreamInv' /\ StepInv'
    BY DEF IndInv, PositionInv, StreamInv, StepInv, TakeAck
<1>3. RecordingInv'
    BY DEF IndInv, RecordingInv, TakeAck
<1> QED
    BY <1>1, <1>2, <1>3, CMStepKeepsAgent DEF IndInv, TypeOK

LEMMA ServiceJoinedInd ==
    ASSUME IndInv, ServiceJoined, UNCHANGED <<recordings, agentVars, restarts>>
    PROVE  IndInv'
<1>1. TakeAck({NullValue}) /\ cm' \in CMStates
    BY DEF ServiceJoined, CMStates
<1>2. CASE ~ IsLive
    BY <1>1, <1>2, TakeAckInd DEF ServiceJoined
<1>3. CASE IsLive
  <2> DEFINE e == [kind |-> "NewLeadershipTermEvent", session |-> NoSession,
                   open |-> OpenAt(log, commitPos), term |-> term + 1]
  <2>1. OpenAt(log, commitPos) \in SUBSET Sessions
    <3>1. log \in Seq(Entries) /\ commitPos \in 0 .. Len(log)
        BY LenProperties DEF IndInv, TypeOK, CMTypeOK, PositionInv
    <3> QED
        BY <3>1, OpenAtType
  <2>2. e \in Entries /\ term + 1 \in Nat
    BY <2>1 DEF Entries, Kinds, IndInv, TypeOK, CMTypeOK
  <2>3. streams' = [streams EXCEPT ![Len(streams)].entries = <<e>>] /\ term' = term + 1
    BY <1>3 DEF ServiceJoined
  <2> HIDE DEF e
  <2>4. <<e>> \in Seq(Entries)
    BY <2>2
  <2>5. /\ streams' \in Seq(Streams)
        /\ Len(streams') = Len(streams)
        /\ \A i \in 1 .. Len(streams) : streams'[i].base = streams[i].base
    BY <1>3, <2>3, <2>4, CurrentEntries DEF IndInv, TypeOK, IsLive
  <2> USE DEF agentVars, positionVars, ackVars, sessionVars, joinVars, startVars
  <2>6. CMTypeOK'
    BY <1>1, <2>2, <2>3, <2>5, TakeAckType DEF IndInv, TypeOK, CMTypeOK, TakeAck, ServiceJoined
  <2>7. PositionInv' /\ StepInv'
    BY <1>1 DEF IndInv, PositionInv, StepInv, TakeAck, ServiceJoined
  <2>8. StreamInv'
    BY <1>1, <2>5 DEF IndInv, StreamInv, TakeAck
  <2>9. RecordingInv'
    BY <1>1, TakeAckType DEF IndInv, RecordingInv, TakeAck, ServiceJoined
  <2> QED
    BY <2>6, <2>7, <2>8, <2>9, CMStepKeepsAgent DEF IndInv, TypeOK
<1> QED
    BY <1>2, <1>3

LEMMA SnapshotTakenInd ==
    ASSUME IndInv, SnapshotTaken, UNCHANGED <<recordings, agentVars, restarts>>
    PROVE  IndInv'
<1> DEFINE a == Head(acks)
<1>1. TakeAck(Recordings) /\ IsExpected(a) /\ cm' \in CMStates
    BY DEF SnapshotTaken, TakeAck, CMStates, IndInv, TypeOK, CMTypeOK
<1>2. /\ a \in ServiceAcks /\ a.relevantId \in Recordings
      /\ a.relevantId \in 1 .. Len(recordings) /\ a.logPosition >= 1
    BY <1>1, TakeAckType DEF IndInv, RecordingInv, Recordings
<1>3. a.logPosition \in Nat /\ a.logPosition <= commitPos /\ commitPos \in Nat
    BY <1>1, <1>2 DEF IsExpected, ServiceAcks, IndInv, TypeOK, CMTypeOK
<1>4. log[a.logPosition].term \in Nat
  <2>1. log \in Seq(Entries) /\ a.logPosition \in 1 .. Len(log)
    BY <1>2, <1>3, LenProperties DEF IndInv, TypeOK, CMTypeOK, PositionInv
  <2>2. log[a.logPosition] \in Entries
    BY <2>1, ElementOfSeq
  <2> QED
    BY <2>2 DEF Entries
<1>5. recovery' = [logPosition |-> a.logPosition, term |-> log[a.logPosition].term,
                   recording |-> a.relevantId]
    BY DEF SnapshotTaken
<1> HIDE DEF a
<1> USE DEF agentVars, positionVars, ackVars, sessionVars, joinVars, startVars
<1>6. CMTypeOK'
  <2>1. CMTypeOK
    BY DEF IndInv, TypeOK
  <2>2. recovery' \in [logPosition : Nat, term : Nat \cup {NullValue},
                      recording : Recordings \cup {NullValue}]
    BY <1>2, <1>3, <1>4, <1>5
  <2>3. acks' \in Seq(ServiceAcks) /\ expectedAckId' \in Nat
    BY <1>1, <2>1, TakeAckType DEF CMTypeOK, TakeAck
  <2>4. UNCHANGED <<log, commitPos, streams, term, control>>
    BY DEF SnapshotTaken, TakeAck
  <2> QED
    BY <1>1, <2>1, <2>2, <2>3, <2>4 DEF CMTypeOK
<1>7. PositionInv'
    BY <1>1, <1>3, <1>5 DEF IndInv, PositionInv, TakeAck
<1>8. StreamInv'
    BY <1>1 DEF IndInv, StreamInv, TakeAck, SnapshotTaken
<1>9. StepInv'
    BY <1>4, <1>5 DEF IndInv, StepInv, NullValue
<1>10. RecordingInv'
    BY <1>1, <1>2, <1>5, TakeAckType DEF IndInv, RecordingInv, TakeAck
<1> QED
    BY <1>6, <1>7, <1>8, <1>9, <1>10, CMStepKeepsAgent DEF IndInv, TypeOK

LEMMA CMStepInd ==
    ASSUME IndInv, CMStep
    PROVE  IndInv'
<1>0. UNCHANGED <<recordings, agentVars, restarts>>
    BY DEF CMStep
<1>1. CASE AppendEntry
    BY <1>0, <1>1, AppendEntryInd
<1>2. CASE Commit
    BY <1>0, <1>2, CommitInd
<1>3. CASE StartReplay
    BY <1>0, <1>3, StartReplayInd
<1>4. CASE StartTerm
    BY <1>0, <1>4, StartTermInd
<1>5. CASE LeaveStream
    BY <1>0, <1>5, LeaveStreamInd
<1>6. CASE Terminate
    BY <1>0, <1>6, TerminateInd
<1>7. CASE ServiceStarted
  <2>1. TakeAck({ClientId}) /\ cm' \in CMStates /\ UNCHANGED <<streams, term, recovery>>
    BY <1>7 DEF ServiceStarted, CMStates
  <2> QED
    BY <1>0, <2>1, TakeAckInd
<1>8. CASE ServiceJoined
    BY <1>0, <1>8, ServiceJoinedInd
<1>9. CASE SnapshotTaken
    BY <1>0, <1>9, SnapshotTakenInd
<1>10. CASE ServiceDrained
  <2>1. TakeAck({NullValue}) /\ cm' \in CMStates /\ UNCHANGED <<streams, term, recovery>>
    BY <1>10 DEF ServiceDrained, CMStates
  <2> QED
    BY <1>0, <2>1, TakeAckInd
<1>11. CASE RejectAck
  <2> USE DEF agentVars, positionVars, ackVars, sessionVars, joinVars, startVars
  <2>1. CMTypeOK' /\ PositionInv' /\ StreamInv'
    BY <1>0, <1>11 DEF RejectAck, IndInv, TypeOK, CMTypeOK, CMStates, PositionInv, StreamInv
  <2>2. StepInv' /\ RecordingInv'
    BY <1>0, <1>11 DEF RejectAck, IndInv, StepInv, RecordingInv
  <2> QED
    BY <1>0, <2>1, <2>2, CMStepKeepsAgent DEF IndInv, TypeOK
<1> QED
    BY <1>1, <1>2, <1>3, <1>4, <1>5, <1>6, <1>7, <1>8, <1>9, <1>10, <1>11 DEF CMStep, CMNext

-----------------------------------------------------------------------------
(* Steps of the archive *)

\* No more of a recording is recorded than was published.
RecordedInv ==
    \A r \in 1 .. Len(recordings) :
        recordings[r].recorded <= Len(recordings[r].published)

\* Putting another state of a recording in its place.
LEMMA ReplaceRecording ==
    ASSUME IndInv, NEW r \in 1 .. Len(recordings), NEW n \in RecordingStates,
           n.recorded <= Len(n.published),
           recordings' = [recordings EXCEPT ![r] = n]
    PROVE  ArchiveTypeOK' /\ Len(recordings') = Len(recordings) /\ RecordedInv'
<1>1. recordings \in Seq(RecordingStates) /\ Len(recordings) \in Nat
    BY LenProperties DEF IndInv, TypeOK, ArchiveTypeOK
<1>2. RecordedInv
    BY DEF IndInv, RecordingInv, RecordedInv
<1> QED
    BY <1>1, <1>2, ExceptSeq DEF ArchiveTypeOK, RecordedInv

LEMMA RecordingType ==
    ASSUME IndInv, NEW r \in 1 .. Len(recordings)
    PROVE  /\ recordings[r] \in RecordingStates
           /\ recordings[r].published \in Seq(Fragments)
           /\ Len(recordings[r].published) \in Nat
           /\ recordings[r].recorded \in Nat
           /\ recordings[r].recorded <= Len(recordings[r].published)
<1>1. recordings[r] \in RecordingStates
    BY ElementOfSeq DEF IndInv, TypeOK, ArchiveTypeOK
<1>2. recordings[r].published \in Seq(Fragments) /\ recordings[r].recorded \in Nat
    BY <1>1 DEF RecordingStates
<1> QED
    BY <1>1, <1>2, LenProperties DEF IndInv, RecordingInv

LEMMA ArchiveStepInd ==
    ASSUME IndInv, ArchiveStep
    PROVE  IndInv'
<1>1. PICK r \in 1 .. Len(recordings) : Record(r) \/ StopRecording(r)
    BY LenProperties DEF ArchiveStep, ArchiveNext, IndInv, TypeOK, ArchiveTypeOK
<1>2. ArchiveTypeOK' /\ Len(recordings') = Len(recordings) /\ RecordedInv'
  <2>1. CASE Record(r)
    <3> DEFINE n == [recordings[r] EXCEPT !.recorded = recordings[r].recorded + 1]
    <3>1. n \in RecordingStates /\ n.recorded <= Len(n.published)
        BY <2>1, RecordingType DEF RecordingStates, Record
    <3>2. recordings' = [recordings EXCEPT ![r] = n]
        BY <2>1 DEF Record
    <3> QED
        BY <3>1, <3>2, ReplaceRecording
  <2>2. CASE StopRecording(r)
    <3> DEFINE n == [recordings[r] EXCEPT !.active = FALSE]
    <3>1. n \in RecordingStates /\ n.recorded <= Len(n.published)
        BY RecordingType DEF RecordingStates
    <3>2. recordings' = [recordings EXCEPT ![r] = n]
        BY <2>2 DEF StopRecording
    <3> QED
        BY <3>1, <3>2, ReplaceRecording
  <2> QED
    BY <1>1, <2>1, <2>2
<1> USE DEF ArchiveStep, cmVars, agentVars, positionVars, ackVars, sessionVars, joinVars,
            startVars
<1>3. CMTypeOK' /\ AgentTypeOK' /\ restarts' \in Nat
    BY DEF IndInv, TypeOK, CMTypeOK, AgentTypeOK
<1>4. PositionInv' /\ StreamInv' /\ StepInv'
    BY DEF IndInv, PositionInv, StreamInv, StepInv
<1>5. RecordingInv'
    BY <1>2 DEF IndInv, RecordingInv, RecordedInv
<1> QED
    BY <1>2, <1>3, <1>4, <1>5 DEF IndInv, TypeOK

-----------------------------------------------------------------------------
(* The restart of the node *)

LEMMA RestartInd ==
    ASSUME IndInv, Restart
    PROVE  IndInv'
<1> DEFINE n(r) == [recordings[r] EXCEPT !.published = Replayed(r), !.active = FALSE]
<1>1. \A r \in 1 .. Len(recordings) :
         n(r) \in RecordingStates /\ n(r).recorded <= Len(n(r).published)
  <2> TAKE r \in 1 .. Len(recordings)
  <2>1. \A i \in 1 .. recordings[r].recorded : recordings[r].published[i] \in Fragments
    BY RecordingType, ElementOfSeq
  <2>2. Replayed(r) \in Seq(Fragments) /\ Len(Replayed(r)) = recordings[r].recorded
    BY <2>1, RecordingType, SubSeqProperties DEF Replayed
  <2>3. recordings[r] \in RecordingStates
    BY RecordingType
  <2>4. /\ n(r).published = Replayed(r) /\ n(r).recorded = recordings[r].recorded
        /\ n(r).active = FALSE /\ n(r) \in RecordingStates
    BY <2>2, <2>3 DEF RecordingStates
  <2> QED
    BY <2>2, <2>3, <2>4 DEF RecordingStates
<1>2. Len(recordings) \in Nat /\ DOMAIN recordings = 1 .. Len(recordings)
    BY LenProperties DEF IndInv, TypeOK, ArchiveTypeOK
<1>3. recordings' = [r \in 1 .. Len(recordings) |-> n(r)]
    BY <1>2 DEF Restart, ArchiveRestart
<1> HIDE DEF n
<1>4. recordings' \in Seq(RecordingStates) /\ Len(recordings') = Len(recordings)
  <2>1. recordings' \in [1 .. Len(recordings) -> RecordingStates]
    BY <1>1, <1>3
  <2>2. recordings' \in Seq(RecordingStates)
    BY <1>2, <2>1, SeqDef
  <2> QED
    BY <1>2, <2>1, <2>2, LenProperties
<1>5. ArchiveTypeOK' /\ RecordedInv'
    BY <1>1, <1>3, <1>4 DEF ArchiveTypeOK, RecordedInv
<1>6. CMTypeOK'
    BY EmptySeq DEF IndInv, TypeOK, CMTypeOK, CMStates, Restart, CMRestart
<1>7. AgentTypeOK' /\ restarts' \in Nat
  <2>1. AgentTypeOK'
    BY ServiceAgentAssumption, EmptySeq
    DEF Restart, AgentTypeOK, StartSteps, NoEvent, NoImage, NoSnapshot, SnapshotStates, Roles
  <2> QED
    BY <2>1 DEF Restart, IndInv, TypeOK
<1>8. PositionInv'
    BY DEF IndInv, TypeOK, CMTypeOK, PositionInv, Restart, CMRestart, NullPosition
<1>9. StreamInv'
    BY DEF StreamInv, Restart, CMRestart
<1>10. StepInv'
    BY DEF StepInv, Restart, StartSteps, NoImage, NoSnapshot
<1>11. RecordingInv'
    BY <1>2, <1>4, <1>5 DEF IndInv, RecordingInv, RecordedInv, Restart, CMRestart, NoSnapshot
<1> QED
    BY <1>5, <1>6, <1>7, <1>8, <1>9, <1>10, <1>11 DEF IndInv, TypeOK

-----------------------------------------------------------------------------
(* Steps of the agent *)

\* What no step of the agent changes.
OthersKeep == UNCHANGED <<log, commitPos, streams, term, cm, expectedAckId, recovery,
                          restarts>>

AgentKeepsMessages == UNCHANGED <<control, acks, recordings>>

LEMMA CMTypeKept ==
    ASSUME CMTypeOK, OthersKeep,
           control' \in Seq(ControlMessages), acks' \in Seq(ServiceAcks)
    PROVE  CMTypeOK'
BY DEF OthersKeep, CMTypeOK

LEMMA AddSessionType ==
    ASSUME AgentTypeOK, NEW s \in Sessions, AddSession(s)
    PROVE  sessions' \in Seq(Sessions) /\ sessionByIdMap' \in SUBSET Sessions
<1> DEFINE n == Len(sessions)
           below == {i \in 1 .. n : \A j \in 1 .. i : sessions[j] < s}
           k == LowerBound(s)
<1>1. sessions \in Seq(Sessions) /\ sessionByIdMap \in SUBSET Sessions /\ n \in Nat
    BY LenProperties DEF AgentTypeOK
<1>2. k \in 1 .. n + 1
  <2>1. IsFiniteSet(1 .. n) /\ Cardinality(1 .. n) <= n /\ below \in SUBSET (1 .. n)
    BY <1>1, FS_Interval
  <2>2. Cardinality(below) \in Nat /\ Cardinality(below) <= Cardinality(1 .. n)
        /\ Cardinality(1 .. n) \in Nat
    BY <2>1, FS_Subset, FS_CardinalityType
  <2>3. k = 1 + Cardinality(below)
    BY DEF LowerBound
  <2> QED
    BY <1>1, <2>1, <2>2, <2>3
<1> HIDE DEF k, n
<1>3. SubSeq(sessions, 1, k - 1) \in Seq(Sessions)
  <2>1. \A i \in 1 .. k - 1 : sessions[i] \in Sessions
    BY <1>1, <1>2, ElementOfSeq DEF n
  <2> QED
    BY <1>2, <1>1, <2>1, SubSeqProperties
<1>4. SubSeq(sessions, k, n) \in Seq(Sessions)
  <2>1. \A i \in k .. n : sessions[i] \in Sessions
    BY <1>1, <1>2, ElementOfSeq DEF n
  <2> QED
    BY <1>2, <1>1, <2>1, SubSeqProperties
<1>5. <<s>> \in Seq(Sessions)
    OBVIOUS
<1>6. sessions' = SubSeq(sessions, 1, k - 1) \o <<s>> \o SubSeq(sessions, k, n)
    BY DEF AddSession, k, n
<1>7. sessions' \in Seq(Sessions)
    BY <1>3, <1>4, <1>5, <1>6, ConcatProperties
<1> QED
    BY <1>1, <1>7 DEF AddSession

LEMMA RemoveSessionType ==
    ASSUME AgentTypeOK, NEW s \in SessionIds, RemoveSession(s)
    PROVE  sessions' \in Seq(Sessions) /\ sessionByIdMap' \in SUBSET Sessions
<1> DEFINE n == Len(sessions)
           k == IndexOf(s)
<1>1. sessions \in Seq(Sessions) /\ sessionByIdMap \in SUBSET Sessions /\ n \in Nat
    BY LenProperties DEF AgentTypeOK
<1>2. k \in 1 .. n
    BY DEF IndexOf, SessionIds
<1> HIDE DEF k, n
<1>3. SubSeq(sessions, 1, k - 1) \in Seq(Sessions)
  <2>1. \A i \in 1 .. k - 1 : sessions[i] \in Sessions
    BY <1>1, <1>2, ElementOfSeq DEF n
  <2> QED
    BY <1>1, <1>2, <2>1, SubSeqProperties
<1>4. SubSeq(sessions, k + 1, n) \in Seq(Sessions)
  <2>1. \A i \in k + 1 .. n : sessions[i] \in Sessions
    BY <1>1, <1>2, ElementOfSeq DEF n
  <2> QED
    BY <1>1, <1>2, <2>1, SubSeqProperties
<1>5. sessions' = SubSeq(sessions, 1, k - 1) \o SubSeq(sessions, k + 1, n)
    BY DEF RemoveSession, k, n
<1>6. sessions' \in Seq(Sessions)
    BY <1>3, <1>4, <1>5, ConcatProperties
<1> QED
    BY <1>1, <1>6 DEF RemoveSession

\* Acks of recordings name one that is there, at the position of a log entry.
AckRefs ==
    \A i \in 1 .. Len(acks) :
        acks[i].relevantId \in Recordings =>
            acks[i].relevantId <= Len(recordings) /\ acks[i].logPosition >= 1

LEMMA AckType ==
    ASSUME IndInv, pc # "recover", NEW id \in Nat \cup {NullValue}, Ack(id),
           id \in Recordings => id <= Len(recordings) /\ logPosition >= 1,
           UNCHANGED recordings
    PROVE  /\ acks' \in Seq(ServiceAcks)
           /\ ackId' \in Nat
           /\ requestedAckPosition' \in Nat \cup {NullPosition}
           /\ AckRefs'
<1> DEFINE a == [logPosition |-> logPosition, ackId |-> ackId, relevantId |-> id]
<1>1. logPosition \in Nat /\ ackId \in Nat /\ acks \in Seq(ServiceAcks) /\ Len(acks) \in Nat
    BY LenProperties DEF IndInv, TypeOK, CMTypeOK, AgentTypeOK, StepInv
<1>2. a \in ServiceAcks /\ a.relevantId = id /\ a.logPosition = logPosition
    BY <1>1 DEF ServiceAcks
<1>3. acks' = Append(acks, a)
    BY DEF Ack, OfferAck
<1> HIDE DEF a
<1>4. /\ acks' \in Seq(ServiceAcks) /\ Len(acks') = Len(acks) + 1
      /\ \A i \in 1 .. Len(acks) : acks'[i] = acks[i]
      /\ acks'[Len(acks) + 1] = a
    BY <1>1, <1>2, <1>3, AppendProperties
<1>5. AckRefs'
    BY <1>1, <1>2, <1>4 DEF IndInv, RecordingInv, AckRefs
<1>6. ackId' \in Nat /\ requestedAckPosition' \in Nat \cup {NullPosition}
    BY <1>1 DEF Ack, IndInv, TypeOK, AgentTypeOK
<1> QED
    BY <1>4, <1>5, <1>6

\* A step that only moves the agent on, or ends its thread.
LEMMA OnlyMovesInd ==
    ASSUME IndInv, OthersKeep, AgentKeepsMessages,
           pc # "recover", pc' \in WorkSteps \cup {"failed"}, pc' # "poll",
           UNCHANGED <<positionVars, ackVars, sessionVars, joinVars, currentSnapshot,
                       poll, startVars>>
    PROVE  IndInv'
<1> USE DEF OthersKeep, AgentKeepsMessages, positionVars, ackVars, sessionVars, joinVars,
            startVars
<1>1. CMTypeOK' /\ ArchiveTypeOK' /\ AgentTypeOK' /\ restarts' \in Nat
    BY DEF IndInv, TypeOK, CMTypeOK, ArchiveTypeOK, AgentTypeOK
<1>2. PositionInv' /\ StreamInv' /\ RecordingInv'
    BY DEF IndInv, PositionInv, StreamInv, RecordingInv
<1>3. StepInv'
    BY DEF IndInv, StepInv, StartSteps, WorkSteps
<1> QED
    BY <1>1, <1>2, <1>3 DEF IndInv, TypeOK

LEMMA RecoverInd ==
    ASSUME IndInv, Recover, OthersKeep
    PROVE  IndInv'
<1> USE DEF Recover, OthersKeep, ackVars, sessionVars, joinVars, startVars
<1>1. CMTypeOK' /\ ArchiveTypeOK' /\ restarts' \in Nat
    BY DEF IndInv, TypeOK, CMTypeOK, ArchiveTypeOK
<1>2. AgentTypeOK'
    BY DEF IndInv, TypeOK, CMTypeOK, AgentTypeOK, StartSteps
<1>3. StepInv /\ image = NoImage /\ currentSnapshot = NoSnapshot
    BY DEF IndInv, StepInv, StartSteps
<1>4. PositionInv'
    BY DEF IndInv, PositionInv
<1>5. StreamInv'
    BY <1>3 DEF IndInv, StreamInv
<1>6. StepInv'
    BY <1>3 DEF IndInv, TypeOK, CMTypeOK, StepInv, StartSteps, NullPosition
<1>7. RecordingInv'
    BY <1>3 DEF IndInv, RecordingInv, NoSnapshot
<1> QED
    BY <1>1, <1>2, <1>4, <1>5, <1>6, <1>7 DEF IndInv, TypeOK

\* A step of the start after the recovery state was read: the agent's place in
\* the log does not change.
LEMMA StartStepInd ==
    ASSUME IndInv, OthersKeep, AgentTypeOK', pc \in StartSteps \ {"recover"},
           pc' \in {"load", "start", "startAck", "begin", "failed"},
           pc' = "load" => pc = "load",
           UNCHANGED <<logPosition, image, currentSnapshot, activeLogEvent, poll,
                       control, recordings>>,
           acks' \in Seq(ServiceAcks), AckRefs'
    PROVE  IndInv'
<1> USE DEF OthersKeep
<1>1. CMTypeOK' /\ ArchiveTypeOK' /\ restarts' \in Nat
    BY DEF IndInv, TypeOK, CMTypeOK, ArchiveTypeOK
<1>2. PositionInv' /\ StreamInv'
    BY DEF IndInv, PositionInv, StreamInv
<1>3. StepInv'
    BY DEF IndInv, StepInv, StartSteps
<1>4. RecordingInv'
    BY DEF IndInv, RecordingInv, AckRefs
<1> QED
    BY <1>1, <1>2, <1>3, <1>4 DEF IndInv, TypeOK

\* What a replay of the recovery snapshot delivers.
LEMMA ReplayedType ==
    ASSUME IndInv, recovery.term # NullValue
    PROVE  /\ Replayed(recovery.recording) \in Seq(Fragments)
           /\ Len(Replayed(recovery.recording)) \in Nat
<1> DEFINE r == recovery.recording
<1>1. r \in 1 .. Len(recordings)
    BY DEF IndInv, RecordingInv
<1>2. \A i \in 1 .. recordings[r].recorded : recordings[r].published[i] \in Fragments
    BY <1>1, RecordingType, ElementOfSeq
<1>3. recordings[r].recorded \in Int
    BY <1>1, RecordingType
<1> HIDE DEF r
<1>4. Replayed(r) \in Seq(Fragments)
    BY <1>2, <1>3, SubSeqProperties DEF Replayed
<1> QED
    BY <1>4, LenProperties DEF r

LEMMA AckRefsKept ==
    ASSUME IndInv, UNCHANGED acks, Len(recordings') >= Len(recordings),
           ArchiveTypeOK'
    PROVE  AckRefs' /\ acks' \in Seq(ServiceAcks)
<1>1. Len(recordings) \in Nat /\ Len(recordings') \in Nat
    BY LenProperties DEF IndInv, TypeOK, ArchiveTypeOK
<1>2. AckRefs /\ acks \in Seq(ServiceAcks)
    BY DEF IndInv, RecordingInv, AckRefs, TypeOK, CMTypeOK
<1> QED
    BY <1>1, <1>2 DEF AckRefs, Recordings

LEMMA LoadFragmentInd ==
    ASSUME IndInv, LoadFragment, OthersKeep
    PROVE  IndInv'
<1> DEFINE f == Replayed(recovery.recording)[loader.next]
<1>1. f \in Fragments
  <2>1. recovery.term # NullValue /\ loader.next \in Nat \ {0}
    BY DEF LoadFragment, IndInv, StepInv, TypeOK, AgentTypeOK
  <2>2. /\ Replayed(recovery.recording) \in Seq(Fragments)
        /\ loader.next \in 1 .. Len(Replayed(recovery.recording))
    BY <2>1, ReplayedType DEF LoadFragment
  <2> QED
    BY <2>2, ElementOfSeq
<1>2. f.type = "SESSION" => f.session \in Sessions
    BY <1>1 DEF Fragments, Markers, SessionRecords, ServiceRecords
<1>3. loader' \in [next : Nat \ {0}, inSnapshot : BOOLEAN]
  <2>1. loader \in [next : Nat \ {0}, inSnapshot : BOOLEAN]
    BY DEF IndInv, TypeOK, AgentTypeOK
  <2>2. \/ loader' = loader
        \/ \E in \in BOOLEAN : loader' = [next |-> loader.next + 1, inSnapshot |-> in]
    BY <2>1 DEF LoadFragment
  <2> QED
    BY <2>1, <2>2
<1>4. sessions' \in Seq(Sessions) /\ sessionByIdMap' \in SUBSET Sessions
  <2>1. CASE f.type = "SESSION"
    BY <1>2, <2>1, AddSessionType DEF LoadFragment, IndInv, TypeOK
  <2>2. CASE f.type # "SESSION"
    BY <2>2 DEF LoadFragment, IndInv, TypeOK, AgentTypeOK
  <2> QED
    BY <2>1, <2>2
<1>5. /\ pc = "load" /\ pc' \in {"load", "start", "failed"}
      /\ UNCHANGED <<positionVars, ackVars, egress, joinVars, currentSnapshot, poll,
                     isAbort, terminationPosition, control, acks, recordings>>
    BY DEF LoadFragment, Throw
<1>6. AgentTypeOK'
    BY <1>3, <1>4, <1>5
    DEF IndInv, TypeOK, AgentTypeOK, StartSteps, positionVars, ackVars, joinVars
<1>7. AckRefs' /\ acks' \in Seq(ServiceAcks)
  <2>1. Len(recordings') >= Len(recordings) /\ ArchiveTypeOK' /\ UNCHANGED acks
    BY <1>5, LenProperties DEF IndInv, TypeOK, ArchiveTypeOK
  <2> QED
    BY <2>1, AckRefsKept
<1> QED
    BY <1>5, <1>6, <1>7, StartStepInd DEF StartSteps, positionVars, joinVars

LEMMA OnStartInd ==
    ASSUME IndInv, OnStart, OthersKeep
    PROVE  IndInv'
<1>1. service' \in Seq(Seq(Entries))
  <2>1. CASE HasServiceState
    <3> DEFINE fs == Replayed(recovery.recording)
    <3>1. fs \in Seq(Fragments) /\ Len(fs) \in Nat
        BY <2>1, ReplayedType DEF HasServiceState
    <3>2. PICK i \in 1 .. Len(fs) :
              fs[i].type = "SERVICE" /\ ServiceState = fs[i].state
        BY <2>1 DEF HasServiceState, ServiceState
    <3>3. fs[i] \in Fragments
        BY <3>1, <3>2, ElementOfSeq
    <3>4. fs[i].state \in Seq(Seq(Entries))
        BY <3>2, <3>3 DEF Fragments, Markers, SessionRecords, ServiceRecords
    <3> QED
        BY <2>1, <3>2, <3>4 DEF OnStart
  <2>2. CASE ~ HasServiceState
    BY <2>2, EmptySeq DEF OnStart
  <2> QED
    BY <2>1, <2>2
<1>2. AgentTypeOK'
    BY <1>1 DEF OnStart, IndInv, TypeOK, AgentTypeOK, StartSteps, ackVars, sessionVars,
                joinVars, startVars
<1>3. AckRefs' /\ acks' \in Seq(ServiceAcks)
  <2>1. Len(recordings') >= Len(recordings) /\ ArchiveTypeOK' /\ UNCHANGED acks
    BY LenProperties DEF OnStart, IndInv, TypeOK, ArchiveTypeOK
  <2> QED
    BY <2>1, AckRefsKept
<1> QED
    BY <1>2, <1>3, StartStepInd DEF OnStart, StartSteps, joinVars

LEMMA StartAckInd ==
    ASSUME IndInv, StartAck, OthersKeep
    PROVE  IndInv'
<1>1. pc = "startAck" /\ Ack(ClientId) /\ ClientId \in Nat /\ ClientId \notin Recordings
    BY DEF StartAck, ClientId, Recordings
<1>2. /\ acks' \in Seq(ServiceAcks) /\ ackId' \in Nat
      /\ requestedAckPosition' \in Nat \cup {NullPosition} /\ AckRefs'
    BY <1>1, AckType DEF StartAck
<1>3. AgentTypeOK'
    BY <1>2 DEF StartAck, IndInv, TypeOK, AgentTypeOK, WorkSteps, positionVars,
                sessionVars, joinVars, startVars
<1> QED
    BY <1>1, <1>2, <1>3, StartStepInd DEF StartAck, StartSteps, positionVars, joinVars

\* A step of the snapshot in progress.
LEMMA SnapshotWorkInd ==
    ASSUME IndInv, OthersKeep, pc = "begin", currentSnapshot.step # "none",
           UNCHANGED <<pc, positionVars, sessionVars, joinVars, poll, startVars, control>>,
           ackId' \in Nat, requestedAckPosition' \in Nat \cup {NullPosition},
           acks' \in Seq(ServiceAcks), AckRefs',
           ArchiveTypeOK', RecordedInv', Len(recordings') >= Len(recordings),
           currentSnapshot' \in SnapshotStates,
           currentSnapshot'.step \in {"recording", "state", "ack"} =>
               currentSnapshot'.recording \in 1 .. Len(recordings')
    PROVE  IndInv'
<1> USE DEF OthersKeep, positionVars, sessionVars, joinVars, startVars
<1>1. CMTypeOK' /\ restarts' \in Nat
    BY DEF IndInv, TypeOK, CMTypeOK
<1>2. AgentTypeOK'
    BY DEF IndInv, TypeOK, AgentTypeOK
<1>3. PositionInv' /\ StreamInv'
    BY DEF IndInv, PositionInv, StreamInv
<1>4. StepInv'
    BY DEF IndInv, StepInv, StartSteps
<1>5. RecordingInv'
  <2>1. Len(recordings) \in Nat /\ Len(recordings') \in Nat
    BY LenProperties DEF IndInv, TypeOK, ArchiveTypeOK
  <2> QED
    BY <2>1 DEF IndInv, RecordingInv, RecordedInv, AckRefs
<1> QED
    BY <1>1, <1>2, <1>3, <1>4, <1>5 DEF IndInv, TypeOK

LEMMA StartRecordingInd ==
    ASSUME IndInv, StartRecording, OthersKeep
    PROVE  IndInv'
<1>1. recordings \in Seq(RecordingStates) /\ Len(recordings) \in Nat
    BY LenProperties DEF IndInv, TypeOK, ArchiveTypeOK
<1>2. NewRecording \in RecordingStates /\ NewRecording.recorded = 0
      /\ Len(NewRecording.published) = 0
    BY EmptySeq DEF NewRecording, RecordingStates
<1>3. recordings' = Append(recordings, NewRecording)
    BY DEF StartRecording
<1>4. /\ recordings' \in Seq(RecordingStates) /\ Len(recordings') = Len(recordings) + 1
      /\ \A r \in 1 .. Len(recordings) : recordings'[r] = recordings[r]
      /\ recordings'[Len(recordings) + 1] = NewRecording
    BY <1>1, <1>2, <1>3, AppendProperties
<1>5. ArchiveTypeOK' /\ RecordedInv'
  <2>1. RecordedInv
    BY DEF IndInv, RecordingInv, RecordedInv
  <2> QED
    BY <1>1, <1>2, <1>4, <2>1 DEF ArchiveTypeOK, RecordedInv
<1>6. AckRefs' /\ acks' \in Seq(ServiceAcks)
    BY <1>1, <1>4, <1>5, AckRefsKept DEF StartRecording
<1>7. currentSnapshot' = [step |-> "recording", recording |-> Len(recordings) + 1]
      /\ currentSnapshot' \in SnapshotStates
    BY <1>1 DEF StartRecording, SnapshotStep, SnapshotStates
<1>8. pc = "begin" /\ currentSnapshot.step = "publication"
    BY DEF StartRecording, SnapshotStep
<1>9. ackId' \in Nat /\ requestedAckPosition' \in Nat \cup {NullPosition}
    BY DEF StartRecording, ackVars, IndInv, TypeOK, AgentTypeOK
<1> QED
    BY <1>1, <1>4, <1>5, <1>6, <1>7, <1>8, <1>9, SnapshotWorkInd DEF StartRecording

LEMMA SnapshotFragmentsType ==
    ASSUME IndInv, logPosition \in Nat
    PROVE  SnapshotFragments \in Seq(Fragments)
<1>1. \A type \in {"BEGIN", "END"} : Mark(type) \in Fragments
    BY DEF Mark, Fragments, Markers, IndInv, TypeOK, AgentTypeOK
<1>2. SessionFragments \in Seq(Fragments)
  <2>1. sessions \in Seq(Sessions) /\ Len(sessions) \in Nat
    BY LenProperties DEF IndInv, TypeOK, AgentTypeOK
  <2>2. \A i \in 1 .. Len(sessions) :
           [type |-> "SESSION", session |-> sessions[i]] \in Fragments
    BY <2>1, ElementOfSeq DEF Fragments, SessionRecords
  <2>3. SessionFragments \in [1 .. Len(sessions) -> Fragments]
    BY <2>2 DEF SessionFragments
  <2> QED
    BY <2>1, <2>3, SeqDef
<1>3. <<Mark("BEGIN")>> \in Seq(Fragments) /\ <<Mark("END")>> \in Seq(Fragments)
    BY <1>1
<1>4. <<Mark("BEGIN")>> \o SessionFragments \in Seq(Fragments)
    BY <1>2, <1>3, ConcatProperties
<1> QED
    BY <1>3, <1>4, ConcatProperties DEF SnapshotFragments

\* Writing fragments to the recording of the snapshot.
LEMMA PublishInd ==
    ASSUME IndInv, OthersKeep, pc = "begin",
           currentSnapshot.step \in {"recording", "state"},
           NEW fragments \in Seq(Fragments), NEW next \in {"state", "ack"},
           recordings' = Publish(currentSnapshot.recording, fragments),
           currentSnapshot' = [currentSnapshot EXCEPT !.step = next],
           UNCHANGED <<pc, positionVars, ackVars, sessionVars, joinVars, poll, startVars,
                       control, acks>>
    PROVE  IndInv'
<1> DEFINE r == currentSnapshot.recording
           n == [recordings[r] EXCEPT !.published = recordings[r].published \o fragments]
<1>1. r \in 1 .. Len(recordings)
    BY DEF IndInv, RecordingInv
<1>2. /\ recordings[r] \in RecordingStates
      /\ recordings[r].published \in Seq(Fragments)
      /\ Len(recordings[r].published) \in Nat
      /\ recordings[r].recorded \in Nat
      /\ recordings[r].recorded <= Len(recordings[r].published)
    BY <1>1, RecordingType
<1>3. /\ recordings[r].published \o fragments \in Seq(Fragments)
      /\ Len(recordings[r].published \o fragments)
            = Len(recordings[r].published) + Len(fragments)
      /\ Len(fragments) \in Nat
    BY <1>2, ConcatProperties, LenProperties
<1>4. n \in RecordingStates /\ n.recorded <= Len(n.published)
  <2> DEFINE p == recordings[r].published \o fragments
  <2>1. p \in Seq(Fragments) /\ recordings[r].recorded <= Len(p)
    BY <1>2, <1>3
  <2>2. n = [recordings[r] EXCEPT !.published = p]
    OBVIOUS
  <2> HIDE DEF p, n
  <2>3. n.published = p /\ n.recorded = recordings[r].recorded /\ n \in RecordingStates
    BY <1>2, <2>1, <2>2 DEF RecordingStates
  <2> QED
    BY <2>1, <2>3
<1>5. recordings' = [recordings EXCEPT ![r] = n]
    BY DEF Publish
<1>6. currentSnapshot' \in SnapshotStates /\ currentSnapshot'.recording = r
    BY DEF IndInv, TypeOK, AgentTypeOK, SnapshotStates
<1> HIDE DEF n, r
<1>7. ArchiveTypeOK' /\ Len(recordings') = Len(recordings) /\ RecordedInv'
    BY <1>1, <1>4, <1>5, ReplaceRecording
<1>8. Len(recordings) \in Nat
    BY LenProperties DEF IndInv, TypeOK, ArchiveTypeOK
<1>9. AckRefs' /\ acks' \in Seq(ServiceAcks)
    BY <1>7, <1>8, AckRefsKept
<1>10. ackId' \in Nat /\ requestedAckPosition' \in Nat \cup {NullPosition}
    BY DEF ackVars, IndInv, TypeOK, AgentTypeOK
<1> QED
    BY <1>1, <1>6, <1>7, <1>8, <1>9, <1>10, SnapshotWorkInd

LEMMA TakeAgentSnapshotInd ==
    ASSUME IndInv, TakeAgentSnapshot, OthersKeep
    PROVE  IndInv'
<1>1. /\ pc = "begin" /\ currentSnapshot.step = "recording"
      /\ currentSnapshot' = [currentSnapshot EXCEPT !.step = "state"]
      /\ recordings' = Publish(currentSnapshot.recording, SnapshotFragments)
    BY DEF TakeAgentSnapshot, SnapshotStep
<1>2. SnapshotFragments \in Seq(Fragments)
  <2>1. logPosition \in Nat
    BY <1>1 DEF IndInv, TypeOK, AgentTypeOK, StepInv
  <2> QED
    BY <2>1, SnapshotFragmentsType
<1> QED
    BY <1>1, <1>2, PublishInd DEF TakeAgentSnapshot

LEMMA TakeServiceSnapshotInd ==
    ASSUME IndInv, TakeServiceSnapshot, OthersKeep
    PROVE  IndInv'
<1>1. /\ pc = "begin" /\ currentSnapshot.step = "state"
      /\ currentSnapshot' = [currentSnapshot EXCEPT !.step = "ack"]
      /\ recordings' = Publish(currentSnapshot.recording,
                               <<[type |-> "SERVICE", state |-> service]>>)
    BY DEF TakeServiceSnapshot, SnapshotStep
<1>2. <<[type |-> "SERVICE", state |-> service]>> \in Seq(Fragments)
  <2>1. [type |-> "SERVICE", state |-> service] \in Fragments
    BY DEF Fragments, ServiceRecords, IndInv, TypeOK, AgentTypeOK
  <2> QED
    BY <2>1
<1> QED
    BY <1>1, <1>2, PublishInd DEF TakeServiceSnapshot

LEMMA AckSnapshotInd ==
    ASSUME IndInv, AckSnapshot, OthersKeep
    PROVE  IndInv'
<1> DEFINE r == currentSnapshot.recording
<1>1. pc = "begin" /\ currentSnapshot.step = "ack" /\ currentSnapshot' = NoSnapshot
      /\ Ack(r) /\ UNCHANGED recordings
    BY DEF AckSnapshot, SnapshotStep
<1>2. r \in 1 .. Len(recordings) /\ logPosition >= 1
    BY <1>1 DEF IndInv, RecordingInv
<1>3. Len(recordings) \in Nat
    BY LenProperties DEF IndInv, TypeOK, ArchiveTypeOK
<1>4. /\ acks' \in Seq(ServiceAcks) /\ ackId' \in Nat
      /\ requestedAckPosition' \in Nat \cup {NullPosition} /\ AckRefs'
    BY <1>1, <1>2, <1>3, AckType
<1>5. ArchiveTypeOK' /\ RecordedInv' /\ Len(recordings') >= Len(recordings)
    BY <1>1, <1>3 DEF IndInv, TypeOK, ArchiveTypeOK, RecordingInv, RecordedInv
<1>6. currentSnapshot' \in SnapshotStates /\ currentSnapshot'.step = "none"
    BY <1>1 DEF NoSnapshot, SnapshotStates
<1> QED
    BY <1>1, <1>4, <1>5, <1>6, SnapshotWorkInd DEF AckSnapshot

\* The message at the head of the control stream, and what is left of the stream.
LEMMA ControlMessageType ==
    ASSUME IndInv, NEW type, ControlMessage(type)
    PROVE  /\ Head(control) \in ControlMessages /\ Head(control).type = type
           /\ type = "JoinLog" => Head(control).stream <= Len(streams)
           /\ control' \in Seq(ControlMessages)
           /\ \A i \in 1 .. Len(control') :
                 control'[i].type = "JoinLog" => control'[i].stream <= Len(streams)
<1>1. control \in Seq(ControlMessages) /\ control # <<>> /\ control' = Tail(control)
      /\ Head(control).type = type
    BY DEF IndInv, TypeOK, CMTypeOK, ControlMessage
<1>2. Len(control) \in Nat \ {0}
    BY <1>1, EmptySeq
<1>3. \A i \in 1 .. Len(control) :
         control[i].type = "JoinLog" => control[i].stream <= Len(streams)
    BY DEF IndInv, StreamInv
<1>4. Head(control) = control[1] /\ 1 \in 1 .. Len(control)
    BY <1>1, <1>2
<1>5. /\ Head(control) \in ControlMessages
      /\ control' \in Seq(ControlMessages)
      /\ \A i \in 1 .. Len(control') :
            i + 1 \in 1 .. Len(control) /\ control'[i] = control[i + 1]
    BY <1>1, <1>2, HeadTailProperties
<1> QED
    BY <1>1, <1>3, <1>4, <1>5

\* A message of the control stream is dispatched.
LEMMA ControlMessageInd ==
    ASSUME IndInv, NEW type, ControlMessage(type), OthersKeep,
           requestedAckPosition' \in Nat \cup {NullPosition},
           terminationPosition' \in Nat \cup {NullPosition},
           maxLogPosition' \in Nat \cup {NullPosition},
           activeLogEvent' \in JoinLogEvents \cup {NoEvent},
           activeLogEvent' # NoEvent => activeLogEvent'.stream <= Len(streams),
           image' \in {image, NoImage}
    PROVE  IndInv'
<1> USE DEF OthersKeep, positionVars, sessionVars
<1>1. /\ pc = "begin" /\ pc' = "join" /\ currentSnapshot = NoSnapshot
      /\ UNCHANGED <<positionVars, sessionVars, ackId, currentSnapshot, poll, loader,
                     isAbort, role, acks, recordings>>
    BY DEF ControlMessage, ClockTick
<1>2. CMTypeOK' /\ ArchiveTypeOK' /\ restarts' \in Nat
    BY <1>1, ControlMessageType DEF IndInv, TypeOK, CMTypeOK, ArchiveTypeOK
<1>3. AgentTypeOK'
    BY <1>1 DEF IndInv, TypeOK, AgentTypeOK, WorkSteps, NoImage
<1>4. PositionInv'
    BY <1>1 DEF IndInv, PositionInv
<1>5. StreamInv'
    BY <1>1, ControlMessageType DEF IndInv, StreamInv
<1>6. StepInv'
    BY <1>1 DEF IndInv, StepInv, StartSteps
<1>7. RecordingInv'
    BY <1>1 DEF IndInv, RecordingInv
<1> QED
    BY <1>2, <1>3, <1>4, <1>5, <1>6, <1>7 DEF IndInv, TypeOK

LEMMA OnJoinLogInd ==
    ASSUME IndInv, OnJoinLog, OthersKeep
    PROVE  IndInv'
<1>1. ControlMessage("JoinLog")
    BY DEF OnJoinLog
<1>2. Head(control) \in JoinLogEvents /\ Head(control).stream <= Len(streams)
      /\ Head(control).maxLogPosition \in Nat
    BY <1>1, ControlMessageType DEF ControlMessages, JoinLogEvents
<1>3. /\ requestedAckPosition' \in Nat \cup {NullPosition}
      /\ terminationPosition' \in Nat \cup {NullPosition}
    BY DEF OnJoinLog, IndInv, TypeOK, AgentTypeOK
<1> QED
    BY <1>1, <1>2, <1>3, ControlMessageInd DEF OnJoinLog

LEMMA OnPositionInd ==
    ASSUME IndInv, OnRequestServiceAck \/ OnServiceTerminationPosition, OthersKeep
    PROVE  IndInv'
<1>1. PICK type \in {"RequestServiceAck", "ServiceTerminationPosition"} :
          ControlMessage(type)
    BY DEF OnRequestServiceAck, OnServiceTerminationPosition
<1>2. Head(control).logPosition \in Nat
    BY <1>1, ControlMessageType DEF ControlMessages, JoinLogEvents
<1>3. /\ requestedAckPosition' \in Nat \cup {NullPosition}
      /\ terminationPosition' \in Nat \cup {NullPosition}
      /\ UNCHANGED <<maxLogPosition, activeLogEvent, image>>
    BY <1>2 DEF OnRequestServiceAck, OnServiceTerminationPosition, IndInv, TypeOK,
                AgentTypeOK
<1>4. /\ maxLogPosition \in Nat \cup {NullPosition}
      /\ activeLogEvent \in JoinLogEvents \cup {NoEvent}
      /\ activeLogEvent # NoEvent => activeLogEvent.stream <= Len(streams)
    BY DEF IndInv, TypeOK, AgentTypeOK, StreamInv
<1> QED
    BY <1>1, <1>3, <1>4, ControlMessageInd

LEMMA JoinActiveLogInd ==
    ASSUME IndInv, JoinActiveLog, OthersKeep
    PROVE  IndInv'
<1> DEFINE st == activeLogEvent.stream
<1>0. pc = "join" /\ pc' = "log"
    BY DEF JoinActiveLog
<1>1. /\ activeLogEvent \in JoinLogEvents /\ st \in 1 .. Len(streams)
      /\ activeLogEvent.maxLogPosition \in Nat /\ activeLogEvent.role \in Roles
    BY LenProperties
    DEF JoinActiveLog, MayJoin, IndInv, TypeOK, AgentTypeOK, CMTypeOK, StreamInv,
        JoinLogEvents
<1>2. streams[st].base \in Nat /\ streams[st].base = logPosition
    BY <1>1, StreamType DEF JoinActiveLog, IsContiguous, JoinPosition, IndInv, TypeOK
<1>3. image' = [stream |-> st, position |-> streams[st].base]
    BY DEF JoinActiveLog, JoinPosition
<1>4. /\ acks' \in Seq(ServiceAcks) /\ ackId' \in Nat
      /\ requestedAckPosition' \in Nat \cup {NullPosition} /\ AckRefs'
  <2>1. CASE Ack(NullValue)
    <3>1. NullValue \in Nat \cup {NullValue} /\ NullValue \notin Recordings
        BY DEF NullValue, Recordings
    <3> QED
        BY <1>0, <2>1, <3>1, AckType DEF JoinActiveLog
  <2>2. CASE UNCHANGED <<acks, ackVars>>
    BY <2>2 DEF JoinActiveLog, ackVars, IndInv, TypeOK, CMTypeOK, AgentTypeOK,
                RecordingInv, AckRefs
  <2> QED
    BY <2>1, <2>2 DEF JoinActiveLog
<1>5. egress' \in SUBSET Sessions
  <2>1. SessionIds \subseteq Sessions
    BY ElementOfSeq DEF SessionIds, IndInv, TypeOK, AgentTypeOK
  <2> QED
    BY <2>1 DEF JoinActiveLog, ConnectedByJoin, IndInv, TypeOK, AgentTypeOK
<1> HIDE DEF st
<1> USE DEF OthersKeep, positionVars, startVars
<1>6. CMTypeOK' /\ ArchiveTypeOK' /\ restarts' \in Nat
    BY <1>4 DEF JoinActiveLog, IndInv, TypeOK, CMTypeOK, ArchiveTypeOK
<1>7. AgentTypeOK'
  <2>1. AgentTypeOK
    BY DEF IndInv, TypeOK
  <2>2. pc' \in WorkSteps
    BY <1>0 DEF WorkSteps
  <2>3. /\ activeLogEvent' = NoEvent /\ role' \in Roles /\ maxLogPosition' \in Nat
        /\ logPosition' \in Nat \cup {NullPosition}
    BY <1>1, <1>2, <2>1 DEF JoinActiveLog, AgentTypeOK
  <2>4. image' \in [stream : Nat, position : Nat]
    BY <1>1, <1>2, <1>3
  <2>5. UNCHANGED <<leadershipTermId, terminationPosition, sessions, sessionByIdMap,
                    currentSnapshot, poll, loader, service, isAbort>>
    BY DEF JoinActiveLog
  <2> QED
    BY <1>4, <1>5, <2>1, <2>2, <2>3, <2>4, <2>5 DEF AgentTypeOK
<1>8. PositionInv'
    BY DEF JoinActiveLog, IndInv, PositionInv
<1>9. StreamInv'
    BY <1>1, <1>2, <1>3 DEF JoinActiveLog, IndInv, StreamInv
<1>10. StepInv'
    BY <1>0 DEF JoinActiveLog, IndInv, StepInv, StartSteps
<1>11. RecordingInv'
    BY <1>4 DEF JoinActiveLog, IndInv, RecordingInv, AckRefs
<1> QED
    BY <1>6, <1>7, <1>8, <1>9, <1>10, <1>11 DEF IndInv, TypeOK

LEMMA AckRequestedInd ==
    ASSUME IndInv, AckRequested, OthersKeep
    PROVE  IndInv'
<1>0. pc = "join" /\ pc' = "log" /\ Ack(NullValue)
    BY DEF AckRequested
<1>1. /\ acks' \in Seq(ServiceAcks) /\ ackId' \in Nat
      /\ requestedAckPosition' \in Nat \cup {NullPosition} /\ AckRefs'
  <2>1. NullValue \in Nat \cup {NullValue} /\ NullValue \notin Recordings
    BY DEF NullValue, Recordings
  <2> QED
    BY <1>0, <2>1, AckType DEF AckRequested
<1> USE DEF OthersKeep, positionVars, sessionVars, joinVars, startVars
<1>2. CMTypeOK' /\ ArchiveTypeOK' /\ restarts' \in Nat
    BY <1>1 DEF AckRequested, IndInv, TypeOK, CMTypeOK, ArchiveTypeOK
<1>3. AgentTypeOK'
    BY <1>0, <1>1 DEF AckRequested, IndInv, TypeOK, AgentTypeOK, WorkSteps
<1>4. PositionInv' /\ StreamInv'
    BY DEF AckRequested, IndInv, PositionInv, StreamInv
<1>5. StepInv'
    BY <1>0 DEF AckRequested, IndInv, StepInv, StartSteps
<1>6. RecordingInv'
    BY <1>1 DEF AckRequested, IndInv, RecordingInv, AckRefs
<1> QED
    BY <1>2, <1>3, <1>4, <1>5, <1>6 DEF IndInv, TypeOK

LEMMA PollLogInd ==
    ASSUME IndInv, PollLog, OthersKeep
    PROVE  IndInv'
<1> USE DEF PollLog, OthersKeep, positionVars, ackVars, sessionVars, joinVars, startVars
<1>1. CMTypeOK' /\ ArchiveTypeOK' /\ restarts' \in Nat
    BY DEF IndInv, TypeOK, CMTypeOK, ArchiveTypeOK
<1>2. AgentTypeOK'
    BY DEF IndInv, TypeOK, CMTypeOK, AgentTypeOK, WorkSteps
<1>3. PositionInv' /\ StreamInv'
    BY DEF IndInv, TypeOK, CMTypeOK, PositionInv, StreamInv
<1>4. StepInv' /\ RecordingInv'
    BY DEF IndInv, StepInv, RecordingInv, StartSteps
<1> QED
    BY <1>1, <1>2, <1>3, <1>4 DEF IndInv, TypeOK

\* The position the image of a log is at is that of the agent.
LEMMA ImagePosition ==
    ASSUME IndInv, pc = "poll"
    PROVE  /\ image.stream \in 1 .. Len(streams)
           /\ image.position \in Nat /\ image.position = logPosition
           /\ streams[image.stream].base <= image.position
BY DEF IndInv, TypeOK, AgentTypeOK, StreamInv, StepInv

\* A poll ends, and the log may be closed with it.
LEMMA EndOfPollInd ==
    ASSUME IndInv, CloseLog \/ EndPoll, OthersKeep
    PROVE  IndInv'
<1>1. /\ pc = "poll" /\ pc' = "begin" /\ poll' = [limit |-> 0, polled |-> 0]
      /\ UNCHANGED <<leadershipTermId, service, ackVars, sessionVars, activeLogEvent,
                     maxLogPosition, currentSnapshot, startVars, control, acks, recordings>>
    BY DEF CloseLog, EndPoll, positionVars, joinVars
<1>2. logPosition' = logPosition /\ image' \in {image, NoImage} /\ role' \in Roles
    BY ImagePosition DEF CloseLog, EndPoll, positionVars, joinVars, Roles, IndInv, TypeOK,
                         AgentTypeOK
<1> USE <1>1, <1>2 DEF OthersKeep, ackVars, sessionVars, startVars
<1>3. CMTypeOK' /\ ArchiveTypeOK' /\ restarts' \in Nat
    BY DEF IndInv, TypeOK, CMTypeOK, ArchiveTypeOK
<1>4. AgentTypeOK'
    BY DEF IndInv, TypeOK, CMTypeOK, AgentTypeOK, WorkSteps, NoImage
<1>5. PositionInv' /\ StreamInv'
    BY DEF IndInv, TypeOK, CMTypeOK, PositionInv, StreamInv
<1>6. StepInv' /\ RecordingInv'
    BY DEF IndInv, StepInv, RecordingInv, StartSteps
<1> QED
    BY <1>3, <1>4, <1>5, <1>6 DEF IndInv, TypeOK

LEMMA NextEventType ==
    ASSUME IndInv, pc = "poll", HasFragment
    PROVE  /\ NextEvent \in Entries
           /\ NextPosition \in Nat /\ NextPosition = logPosition + 1
           /\ NextPosition <= poll.limit
<1> DEFINE s == streams[image.stream]
<1>1. /\ image.stream \in 1 .. Len(streams)
      /\ image.position \in Nat /\ image.position = logPosition
      /\ s.base <= image.position
    BY ImagePosition
<1>2. s \in Streams /\ s.base \in Nat /\ Len(s.entries) \in Nat
    BY <1>1, StreamType, LenProperties DEF IndInv, TypeOK
<1>3. poll.limit \in Nat
    BY DEF IndInv, TypeOK, AgentTypeOK
<1>4. image.position < poll.limit /\ image.position < StreamEnd(s)
    BY DEF HasFragment
<1>5. NextPosition \in Nat /\ NextPosition = logPosition + 1 /\ NextPosition <= poll.limit
    BY <1>1, <1>3, <1>4 DEF NextPosition
<1>6. s.base < NextPosition /\ NextPosition <= StreamEnd(s)
    BY <1>1, <1>2, <1>4 DEF NextPosition, StreamEnd
<1>7. EntryAt(s, NextPosition) \in Entries
    BY <1>2, <1>5, <1>6, EntryAtType
<1> QED
    BY <1>5, <1>7 DEF NextEvent

\* An event of the log is handled.
LEMMA OnEventInd ==
    ASSUME IndInv, NEW kind, OnEvent(kind), OthersKeep,
           pc' \in {pc, "failed"},
           leadershipTermId' \in Nat \cup {NullValue},
           service' \in Seq(Seq(Entries)),
           sessions' \in Seq(Sessions), sessionByIdMap' \in SUBSET Sessions,
           egress' \in SUBSET Sessions,
           currentSnapshot' \in {currentSnapshot, [step |-> "publication", recording |-> 0]}
    PROVE  IndInv'
<1>1. /\ pc = "poll" /\ HasFragment
      /\ image' = [image EXCEPT !.position = NextPosition]
      /\ poll' = [poll EXCEPT !.polled = @ + 1]
      /\ logPosition' = NextPosition
      /\ UNCHANGED <<ackVars, activeLogEvent, maxLogPosition, role, startVars,
                     control, acks, recordings>>
    BY DEF OnEvent
<1>2. /\ NextPosition \in Nat /\ NextPosition = logPosition + 1
      /\ NextPosition <= poll.limit
    BY <1>1, NextEventType
<1>3. /\ image.stream \in 1 .. Len(streams) /\ image.stream \in Nat
      /\ streams[image.stream].base \in Nat
      /\ streams[image.stream].base <= logPosition
      /\ logPosition \in Nat
      /\ image \in [stream : Nat, position : Nat] /\ poll \in [limit : Nat, polled : Nat]
    BY <1>1, ImagePosition, StreamType DEF IndInv, TypeOK, AgentTypeOK
<1>4. image' \in [stream : Nat, position : Nat] /\ image'.stream = image.stream
      /\ image'.position = NextPosition
      /\ poll' \in [limit : Nat, polled : Nat] /\ poll'.limit = poll.limit
  <2>1. image' \in [stream : Nat, position : Nat] /\ image'.stream = image.stream
        /\ image'.position = NextPosition
    BY <1>1, <1>2, <1>3
  <2>2. poll.polled + 1 \in Nat
    BY <1>3
  <2>3. poll' = [poll EXCEPT !.polled = poll.polled + 1]
    BY <1>1
  <2>4. poll' \in [limit : Nat, polled : Nat] /\ poll'.limit = poll.limit
    BY <1>3, <2>2, <2>3
  <2> QED
    BY <2>1, <2>4
<1> USE DEF OthersKeep, ackVars, startVars
<1>5. CMTypeOK' /\ ArchiveTypeOK' /\ restarts' \in Nat
    BY <1>1 DEF IndInv, TypeOK, CMTypeOK, ArchiveTypeOK
<1>6. AgentTypeOK'
  <2>1. AgentTypeOK
    BY DEF IndInv, TypeOK
  <2>2. pc' \in StartSteps \cup WorkSteps \cup {"failed"}
    BY <2>1 DEF AgentTypeOK
  <2>3. currentSnapshot' \in SnapshotStates
    BY <2>1 DEF AgentTypeOK, SnapshotStates
  <2>4. UNCHANGED <<ackId, requestedAckPosition, terminationPosition, role, activeLogEvent,
                    maxLogPosition, loader, isAbort>>
    BY <1>1
  <2> QED
    BY <1>1, <1>2, <1>4, <2>1, <2>2, <2>3, <2>4 DEF AgentTypeOK
<1>7. PositionInv'
  <2>1. PositionInv /\ commitPos \in Nat /\ poll.limit \in Nat
    BY <1>3 DEF IndInv, TypeOK, CMTypeOK
  <2> QED
    BY <1>1, <1>2, <1>4, <2>1 DEF PositionInv
<1>8. StreamInv'
  <2>1. StreamInv
    BY DEF IndInv
  <2>2. UNCHANGED <<streams, commitPos, control, activeLogEvent>>
    BY <1>1 DEF OnEvent
  <2>3. image'.position = logPosition' /\ streams[image.stream].base <= image'.position
    BY <1>1, <1>2, <1>3, <1>4
  <2> QED
    BY <1>3, <1>4, <2>1, <2>2, <2>3 DEF StreamInv
<1>9. StepInv'
  <2>1. pc' \in {"poll", "failed"}
    BY <1>1
  <2>2. logPosition' \in Nat /\ logPosition' # NullPosition
    BY <1>1, <1>2 DEF NullPosition
  <2>3. image'.stream # NoImage.stream
    BY <1>3, <1>4 DEF NoImage
  <2> QED
    BY <2>1, <2>2, <2>3 DEF StepInv, StartSteps
<1>10. RecordingInv'
    BY <1>1, <1>2, <1>3 DEF IndInv, RecordingInv
<1> QED
    BY <1>5, <1>6, <1>7, <1>8, <1>9, <1>10 DEF IndInv, TypeOK

LEMMA CallbackType ==
    ASSUME IndInv, pc = "poll", HasFragment, Callback \/ NoCallback
    PROVE  service' \in Seq(Seq(Entries))
<1>1. service \in Seq(Seq(Entries))
    BY DEF IndInv, TypeOK, AgentTypeOK
<1>2. <<NextEvent>> \in Seq(Entries) /\ <<>> \in Seq(Entries)
    BY NextEventType, EmptySeq
<1>3. PICK e \in Seq(Entries) : service' = Append(service, e)
    BY <1>2 DEF Callback, NoCallback
<1> QED
    BY <1>1, <1>3, AppendProperties

LEMMA LogEventInd ==
    ASSUME IndInv, LogEvent, OthersKeep
    PROVE  IndInv'
<1>1. /\ leadershipTermId \in Nat \cup {NullValue}
      /\ service \in Seq(Seq(Entries))
      /\ sessions \in Seq(Sessions)
      /\ sessionByIdMap \in SUBSET Sessions
      /\ egress \in SUBSET Sessions
    BY DEF IndInv, TypeOK, AgentTypeOK
<1>2. CASE OnSessionMessage
  <2>1. OnEvent("SessionMessage") /\ (Callback \/ NoCallback)
        /\ UNCHANGED <<pc, leadershipTermId, sessionVars, currentSnapshot>>
    BY <1>2 DEF OnSessionMessage
  <2>2. service' \in Seq(Seq(Entries))
    BY <2>1, CallbackType DEF OnEvent
  <2> QED
    BY <1>1, <2>1, <2>2, OnEventInd DEF sessionVars
<1>3. CASE OnTimerEvent \/ OnMembershipChange
  <2>1. PICK kind : OnEvent(kind)
    BY <1>3 DEF OnTimerEvent, OnMembershipChange
  <2>2. (Callback \/ NoCallback)
        /\ UNCHANGED <<pc, leadershipTermId, sessionVars, currentSnapshot>>
    BY <1>3 DEF OnTimerEvent, OnMembershipChange
  <2>3. service' \in Seq(Seq(Entries))
    BY <2>1, <2>2, CallbackType DEF OnEvent
  <2> QED
    BY <1>1, <2>1, <2>2, <2>3, OnEventInd DEF sessionVars
<1>4. CASE OnSessionOpen
  <2>1. OnEvent("SessionOpenEvent") /\ UNCHANGED <<leadershipTermId, currentSnapshot>>
    BY <1>4 DEF OnSessionOpen
  <2>2. NextEvent.session \in Sessions
    BY <2>1, NextEventType DEF OnEvent, Entries
  <2>3. CASE NextEvent.session \in sessionByIdMap
    <3>1. pc' = "failed" /\ UNCHANGED <<service, sessionVars>>
        BY <1>4, <2>3 DEF OnSessionOpen, Throw
    <3> QED
        BY <1>1, <2>1, <3>1, OnEventInd DEF sessionVars
  <2>4. CASE NextEvent.session \notin sessionByIdMap
    <3>1. /\ AddSession(NextEvent.session) /\ Callback /\ pc' = pc
          /\ egress' \in {egress, egress \cup {NextEvent.session}}
        BY <1>4, <2>4 DEF OnSessionOpen
    <3>2. sessions' \in Seq(Sessions) /\ sessionByIdMap' \in SUBSET Sessions
        BY <2>2, <3>1, AddSessionType DEF IndInv, TypeOK
    <3>3. service' \in Seq(Seq(Entries))
        BY <2>1, <3>1, CallbackType DEF OnEvent
    <3> QED
        BY <1>1, <2>1, <2>2, <3>1, <3>2, <3>3, OnEventInd
  <2> QED
    BY <2>3, <2>4
<1>5. CASE OnSessionClose
  <2>1. OnEvent("SessionCloseEvent") /\ UNCHANGED <<leadershipTermId, currentSnapshot>>
    BY <1>5 DEF OnSessionClose
  <2>2. CASE NextEvent.session \notin SessionIds
    <3>1. /\ pc' = "failed" /\ UNCHANGED <<service, sessions, egress>>
          /\ sessionByIdMap' = sessionByIdMap \ {NextEvent.session}
        BY <1>5, <2>2 DEF OnSessionClose, Throw
    <3> QED
        BY <1>1, <2>1, <3>1, OnEventInd
  <2>3. CASE NextEvent.session \in SessionIds
    <3>1. /\ RemoveSession(NextEvent.session) /\ Callback /\ pc' = pc
          /\ egress' = egress \ {NextEvent.session}
        BY <1>5, <2>3 DEF OnSessionClose
    <3>2. sessions' \in Seq(Sessions) /\ sessionByIdMap' \in SUBSET Sessions
        BY <2>3, <3>1, RemoveSessionType DEF IndInv, TypeOK
    <3>3. service' \in Seq(Seq(Entries))
        BY <2>1, <3>1, CallbackType DEF OnEvent
    <3> QED
        BY <1>1, <2>1, <3>1, <3>2, <3>3, OnEventInd
  <2> QED
    BY <2>2, <2>3
<1>6. CASE OnTakeSnapshot
  <2>1. /\ OnEvent("Snapshot") /\ NoCallback
        /\ currentSnapshot' = [step |-> "publication", recording |-> 0]
        /\ UNCHANGED <<pc, leadershipTermId, sessionVars>>
    BY <1>6 DEF OnTakeSnapshot
  <2>2. service' \in Seq(Seq(Entries))
    BY <2>1, CallbackType DEF OnEvent
  <2> QED
    BY <1>1, <2>1, <2>2, OnEventInd DEF sessionVars
<1>7. CASE OnNewLeadershipTermEvent
  <2>1. /\ OnEvent("NewLeadershipTermEvent") /\ Callback
        /\ leadershipTermId' = NextEvent.term
        /\ UNCHANGED <<pc, sessionVars, currentSnapshot>>
    BY <1>7 DEF OnNewLeadershipTermEvent
  <2>2. service' \in Seq(Seq(Entries))
    BY <2>1, CallbackType DEF OnEvent
  <2>3. leadershipTermId' \in Nat
    BY <2>1, NextEventType DEF OnEvent, Entries
  <2> QED
    BY <1>1, <2>1, <2>2, <2>3, OnEventInd DEF sessionVars
<1> QED
    BY <1>2, <1>3, <1>4, <1>5, <1>6, <1>7 DEF LogEvent

LEMMA AgentStepInd ==
    ASSUME IndInv, AgentStep
    PROVE  IndInv'
<1>0. OthersKeep
    BY DEF AgentStep, AgentNext, OthersKeep
<1>1. CASE Recover
    BY <1>0, <1>1, RecoverInd
<1>2. CASE LoadFragment
    BY <1>0, <1>2, LoadFragmentInd
<1>3. CASE OnStart
    BY <1>0, <1>3, OnStartInd
<1>4. CASE StartAck
    BY <1>0, <1>4, StartAckInd
<1>5. CASE StartRecording
    BY <1>0, <1>5, StartRecordingInd
<1>6. CASE TakeAgentSnapshot
    BY <1>0, <1>6, TakeAgentSnapshotInd
<1>7. CASE TakeServiceSnapshot
    BY <1>0, <1>7, TakeServiceSnapshotInd
<1>8. CASE AckSnapshot
    BY <1>0, <1>8, AckSnapshotInd
<1>9. CASE OnJoinLog
    BY <1>0, <1>9, OnJoinLogInd
<1>10. CASE OnRequestServiceAck \/ OnServiceTerminationPosition
    BY <1>0, <1>10, OnPositionInd
<1>11. CASE JoinActiveLog
    BY <1>0, <1>11, JoinActiveLogInd
<1>12. CASE AckRequested
    BY <1>0, <1>12, AckRequestedInd
<1>13. CASE PollLog
    BY <1>0, <1>13, PollLogInd
<1>14. CASE CloseLog \/ EndPoll
    BY <1>0, <1>14, EndOfPollInd
<1>15. CASE LogEvent
    BY <1>0, <1>15, LogEventInd
<1>16. CASE SnapshotEndedUnexpectedly \/ NoClockTick \/ UnexpectedAbort
            \/ NoControlMessage \/ JoinNotContiguous \/ NoAckRequested \/ NoLog
  <2>1. /\ AgentKeepsMessages
        /\ UNCHANGED <<positionVars, ackVars, sessionVars, joinVars, currentSnapshot,
                       poll, startVars>>
    BY <1>16 DEF SnapshotEndedUnexpectedly, NoClockTick, UnexpectedAbort,
                 NoControlMessage, JoinNotContiguous, NoAckRequested, NoLog,
                 AgentKeepsMessages
  <2>2. pc # "recover" /\ pc' \in WorkSteps \cup {"failed"} /\ pc' # "poll"
    BY <1>16 DEF SnapshotEndedUnexpectedly, NoClockTick, UnexpectedAbort, ClockTick,
                 NoControlMessage, JoinNotContiguous, NoAckRequested, NoLog, Throw,
                 WorkSteps
  <2> QED
    BY <1>0, <2>1, <2>2, OnlyMovesInd
<1> QED
    BY <1>1, <1>2, <1>3, <1>4, <1>5, <1>6, <1>7, <1>8, <1>9, <1>10, <1>11, <1>12, <1>13,
       <1>14, <1>15, <1>16
    DEF AgentStep, AgentNext, Startup, SnapshotWork, PollServiceAdapter

-----------------------------------------------------------------------------
(* The invariant and what follows from it *)

LEMMA NextInd == IndInv /\ [Next]_vars => IndInv'
<1> SUFFICES ASSUME IndInv, [Next]_vars PROVE IndInv'
    OBVIOUS
<1>1. CASE CMStep
    BY <1>1, CMStepInd
<1>2. CASE ArchiveStep
    BY <1>2, ArchiveStepInd
<1>3. CASE AgentStep
    BY <1>3, AgentStepInd
<1>4. CASE Restart
    BY <1>4, RestartInd
<1>5. CASE UNCHANGED vars
  <2> USE <1>5 DEF vars, cmVars, agentVars, positionVars, ackVars, sessionVars, joinVars,
                   startVars
  <2>1. CMTypeOK' /\ ArchiveTypeOK' /\ AgentTypeOK' /\ restarts' \in Nat
    BY DEF IndInv, TypeOK, CMTypeOK, ArchiveTypeOK, AgentTypeOK
  <2>2. PositionInv' /\ StreamInv' /\ StepInv' /\ RecordingInv'
    BY DEF IndInv, PositionInv, StreamInv, StepInv, RecordingInv
  <2> QED
    BY <2>1, <2>2 DEF IndInv, TypeOK
<1> QED
    BY <1>1, <1>2, <1>3, <1>4, <1>5 DEF Next

\* Every index the agent, the consensus module and the archive follow, into the
\* log, its streams, the recordings and the messages in flight, is in bounds.
THEOREM IndexesInBounds == Spec => []IndInv
<1>1. Init => IndInv
    BY InitInd
<1>2. IndInv /\ [Next]_vars => IndInv'
    BY NextInd
<1> QED
    BY <1>1, <1>2, PTL DEF Spec

\* Type correctness: every variable of the agent, of the consensus module and of
\* the archive keeps to the values the code's members, messages and counters have.
THEOREM TypeCorrect == Spec => []TypeOK
<1>1. IndInv => TypeOK
    BY DEF IndInv
<1> QED
    BY <1>1, IndexesInBounds, PTL

\* The bounded poll never takes a started agent past this node's commit position,
\* although it reads that position once per poll, and whatever restarts, joins and
\* new terms come in between.
THEOREM ConsumesCommittedAlways == Spec => []ConsumesCommitted
<1>1. IndInv => ConsumesCommitted
    BY DEF IndInv, PositionInv, ConsumesCommitted
<1> QED
    BY <1>1, IndexesInBounds, PTL

-----------------------------------------------------------------------------
(* What a step may never do *)

GoesForward ==
    /\ logPosition' >= logPosition
    /\ (pc = "poll" /\ service' # service) => logPosition' > logPosition
    /\ ackId' \in {ackId, ackId + 1}

\* Taking an event takes the agent one position forward.
LEMMA EventGoesForward ==
    ASSUME IndInv, LogEvent
    PROVE  GoesForward
<1>1. PICK kind : OnEvent(kind)
    BY DEF LogEvent, OnSessionMessage, OnTimerEvent, OnSessionOpen, OnSessionClose,
           OnTakeSnapshot, OnNewLeadershipTermEvent, OnMembershipChange
<1>2. NextPosition \in Nat /\ NextPosition = logPosition + 1 /\ logPosition \in Nat
    BY <1>1, NextEventType, ImagePosition DEF OnEvent
<1>3. logPosition' = NextPosition /\ ackId' = ackId
    BY <1>1 DEF OnEvent, ackVars
<1> QED
    BY <1>2, <1>3 DEF GoesForward

LEMMA AgentGoesForward ==
    ASSUME IndInv, AgentStep
    PROVE  GoesForward
<1>0. logPosition \in Nat \cup {-1} /\ ackId \in Nat
    BY DEF IndInv, TypeOK, AgentTypeOK, NullPosition
<1>1. CASE Recover
  <2>1. logPosition = -1 /\ logPosition' \in Nat /\ pc = "recover" /\ ackId' = ackId
    BY <1>1 DEF Recover, IndInv, TypeOK, CMTypeOK, StepInv, NullPosition, ackVars
  <2> QED
    BY <2>1 DEF GoesForward
<1>2. CASE OnStart
    BY <1>0, <1>2 DEF OnStart, GoesForward, ackVars
<1>3. CASE LogEvent
    BY <1>3, EventGoesForward
<1>4. CASE CloseLog \/ EndPoll
  <2>1. logPosition' = logPosition /\ service' = service /\ ackId' = ackId
    BY <1>4, ImagePosition DEF CloseLog, EndPoll, positionVars, ackVars
  <2> QED
    BY <1>0, <2>1 DEF GoesForward
<1>5. CASE \/ LoadFragment \/ SnapshotEndedUnexpectedly \/ StartRecording
           \/ TakeAgentSnapshot \/ TakeServiceSnapshot \/ NoClockTick \/ UnexpectedAbort
           \/ NoControlMessage \/ OnJoinLog \/ OnRequestServiceAck
           \/ OnServiceTerminationPosition \/ JoinNotContiguous \/ NoAckRequested
           \/ NoLog \/ PollLog
  <2>1. UNCHANGED positionVars /\ ackId' = ackId
    BY <1>5
    DEF LoadFragment, SnapshotEndedUnexpectedly, StartRecording, TakeAgentSnapshot,
        TakeServiceSnapshot, NoClockTick, UnexpectedAbort, NoControlMessage, OnJoinLog,
        OnRequestServiceAck, OnServiceTerminationPosition, ControlMessage,
        JoinNotContiguous, NoAckRequested, NoLog, PollLog, ackVars
  <2> QED
    BY <1>0, <2>1 DEF GoesForward, positionVars
<1>6. CASE StartAck \/ AckSnapshot \/ JoinActiveLog \/ AckRequested
  <2>1. UNCHANGED positionVars /\ ackId' \in {ackId, ackId + 1}
    BY <1>6 DEF StartAck, AckSnapshot, JoinActiveLog, AckRequested, Ack, ackVars
  <2> QED
    BY <1>0, <2>1 DEF GoesForward, positionVars
<1> QED
    BY <1>1, <1>2, <1>3, <1>4, <1>5, <1>6
    DEF AgentStep, AgentNext, Startup, SnapshotWork, PollServiceAdapter

\* Between two restarts the agent's log position never decreases, not even when a log
\* is closed (closeLog takes the maximum) or joined; a callback of the log always moves
\* it forward; and no two acks of a run are sent with the same id.
THEOREM NeverGoesBackAlways == Spec => NeverGoesBack
<1>1. IndInv /\ [Next]_vars => [restarts' = restarts => GoesForward]_vars
  <2> SUFFICES ASSUME IndInv, Next, restarts' = restarts
               PROVE  GoesForward
    OBVIOUS
  <2>0. logPosition \in Nat \cup {-1} /\ ackId \in Nat /\ restarts \in Nat
    BY DEF IndInv, TypeOK, AgentTypeOK, NullPosition
  <2>1. CASE CMStep \/ ArchiveStep
    BY <2>0, <2>1 DEF CMStep, ArchiveStep, agentVars, positionVars, ackVars, GoesForward
  <2>2. CASE AgentStep
    BY <2>2, AgentGoesForward
  <2>3. CASE Restart
    BY <2>0, <2>3 DEF Restart
  <2> QED
    BY <2>1, <2>2, <2>3 DEF Next
<1> QED
    BY <1>1, IndexesInBounds, PTL DEF Spec, NeverGoesBack, GoesForward
=============================================================================
