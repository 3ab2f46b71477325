------------------------- MODULE AgentStartupProofs -------------------------
(***************************************************************************)
(* That a start which the consensus module does not interrupt finds its    *)
(* own counters and reads one recovery state, for every size of the        *)
(* counter table and any number of runs and other counters.                *)
(***************************************************************************)
EXTENDS AgentStartup, TLAPS

\* Only a consensus module that is up has counters, and they are of its present run.
OwnersInv ==
    /\ isUp => run # OtherRun
    /\ \A i \in SlotIds :
          slots[i].state = "ALLOCATED" /\ slots[i].cluster = "ours"
              => isUp /\ slots[i].run = run

Live(type) == [state |-> "ALLOCATED", type |-> type, cluster |-> "ours", run |-> run]

\* What was found stays, unless the consensus module stops.
FoundInv ==
    /\ ~ restarted /\ commitPosition # NullCounterId => slots[commitPosition] = Live("commit")
    /\ ~ restarted /\ recoveryCounterId # NullCounterId
           => slots[recoveryCounterId] = Live("recovery")

\* What was read is of the present run, unless the consensus module stops.
ReadInv ==
    /\ pc \in {"position", "term", "recording", "recovered", "failed"}
           => recoveryCounterId # NullCounterId
    /\ ~ restarted =>
          /\ pc # "failed"
          /\ pc \in {"term", "recording", "recovered"} => logPosition = LogPositionOf(run)
          /\ pc \in {"recording", "recovered"} => leadershipTermId = TermOf(run)
          /\ pc = "recovered" /\ run > 1 => snapshotRecordingId = RecordingOf(run)

IndInv == TypeOK /\ OwnersInv /\ FoundInv /\ ReadInv

-----------------------------------------------------------------------------
(* The counter table *)

\* A counter that is allocated, in this step or before it, is not given out again.
LEMMA AllocateKeeps ==
    ASSUME NEW type \in Types, NEW cluster \in Clusters, NEW owner \in Nat,
           TypeOK, Allocate(type, cluster, owner)
    PROVE  /\ slots' \in [SlotIds -> SlotStates]
           /\ \A i \in SlotIds :
                 \/ slots'[i] = slots[i]
                 \/ /\ slots[i].state # "ALLOCATED"
                    /\ slots'[i].cluster = cluster
                    /\ slots'[i].run = owner
  <1>1. PICK k \in SlotIds :
            /\ IsFree(k)
            /\ slots' = [slots EXCEPT ![k] = [state |-> "ALLOCATED", type |-> type,
                                              cluster |-> cluster, run |-> owner]]
    BY DEF Allocate
  <1>2. slots \in [SlotIds -> SlotStates]
    BY DEF TypeOK, TableTypeOK
  <1>3. [state |-> "ALLOCATED", type |-> type, cluster |-> cluster, run |-> owner] \in SlotStates
    BY DEF SlotStates, States
  <1>4. slots[k].state # "ALLOCATED"
    BY <1>1 DEF IsFree
  <1> QED BY <1>1, <1>2, <1>3, <1>4

\* A slot is reclaimed or stays as it is.
LEMMA ReclaimKeeps ==
    ASSUME NEW ids \in SUBSET SlotIds, TypeOK, Reclaim(ids)
    PROVE  /\ slots' \in [SlotIds -> SlotStates]
           /\ \A i \in SlotIds : i \notin ids => slots'[i] = slots[i]
           /\ \A i \in ids : slots'[i].state = "RECLAIMED"
  <1>1. slots \in [SlotIds -> SlotStates]
    BY DEF TypeOK, TableTypeOK
  <1>2. \A i \in SlotIds : [slots[i] EXCEPT !.state = "RECLAIMED"] \in SlotStates
    BY <1>1 DEF SlotStates, States
  <1>3. slots' = [i \in SlotIds |-> IF i \in ids
                                    THEN [slots[i] EXCEPT !.state = "RECLAIMED"]
                                    ELSE slots[i]]
    BY DEF Reclaim
  <1>4. \A i \in ids : [slots[i] EXCEPT !.state = "RECLAIMED"].state = "RECLAIMED"
    BY <1>1 DEF SlotStates
  <1> QED BY <1>1, <1>2, <1>3, <1>4

\* A search returns nothing, or a slot that matches.
LEMMA OutcomeMatches ==
    ASSUME NEW type, TypeOK, NEW id \in Outcome(type)
    PROVE  id = NullCounterId \/ (id \in SlotIds /\ Matches(id, type))
  BY DEF Outcome, Ends

\* What matches is live.
LEMMA MatchIsLive ==
    ASSUME NEW type, NEW i \in SlotIds, TypeOK, OwnersInv, Matches(i, type)
    PROVE  slots[i] = Live(type)
  <1>1. slots[i] \in SlotStates
    BY DEF TypeOK, TableTypeOK
  <1> QED BY <1>1 DEF OwnersInv, Matches, Live, SlotStates

-----------------------------------------------------------------------------
(* The environment *)

LEMMA InitInd == Init => IndInv
  <1> SUFFICES ASSUME Init PROVE IndInv
    OBVIOUS
  <1>1. slots \in [SlotIds -> SlotStates] /\ \A i \in SlotIds : slots[i].state = "UNUSED"
    BY DEF Init, TableInit, SlotStates, States, Types, Clusters, OtherRun
  <1>2. TypeOK
    <2>1. TableTypeOK
      BY <1>1 DEF Init, TableInit, TableTypeOK
    <2>2. next \in 0 .. NumSlots
      BY CounterTableAssumption DEF Init
    <2>3. pc = "resolve" /\ resolved = FALSE /\ restarted = FALSE
      BY DEF Init
    <2>4. commitPosition = NullCounterId /\ recoveryCounterId = NullCounterId
      BY DEF Init
    <2>5. logPosition \in Int /\ leadershipTermId \in Int /\ snapshotRecordingId \in Int
      BY DEF Init, NullValue
    <2> QED BY <2>1, <2>2, <2>3, <2>4, <2>5 DEF TypeOK
  <1>3. OwnersInv
    BY <1>1 DEF Init, TableInit, OwnersInv
  <1>4. FoundInv /\ ReadInv
    BY DEF Init, FoundInv, ReadInv
  <1> QED BY <1>2, <1>3, <1>4 DEF IndInv

\* A step that leaves the start alone, and every counter that is in use, keeps IndInv.
LEMMA EnvironmentInd ==
    ASSUME IndInv, UNCHANGED <<run, isUp, restarted, startVars>>,
           slots' \in [SlotIds -> SlotStates],
           \A i \in SlotIds :
              slots[i].state = "ALLOCATED" /\ slots[i].run # OtherRun => slots'[i] = slots[i],
           OwnersInv'
    PROVE  IndInv'
  <1>1. TypeOK'
    BY DEF IndInv, TypeOK, TableTypeOK, startVars, foundVars, readVars
  <1>2. FoundInv'
    <2>1. \A i \in SlotIds : \A type \in Types :
              slots[i] = Live(type) => slots'[i] = Live(type)
      BY DEF IndInv, OwnersInv, Live
    <2>2. \A type : Live(type)' = Live(type)
      BY DEF Live
    <2> QED BY <2>1, <2>2 DEF FoundInv, IndInv, TypeOK, startVars, foundVars, Types
  <1>3. ReadInv'
    BY DEF IndInv, ReadInv, startVars, foundVars, readVars, LogPositionOf, TermOf, RecordingOf
  <1> QED BY <1>1, <1>2, <1>3 DEF IndInv

LEMMA StartsInd == IndInv /\ ConsensusModuleStarts => IndInv'
  <1> SUFFICES ASSUME IndInv, ConsensusModuleStarts PROVE IndInv'
    OBVIOUS
  <1> USE DEF ConsensusModuleStarts, startVars, foundVars, readVars
  <1>1. run \in Nat /\ run' = run + 1 /\ isUp' = TRUE /\ ~ isUp /\ slots' = slots
    BY DEF IndInv, TypeOK, TableTypeOK
  <1>2. TypeOK'
    BY <1>1 DEF IndInv, TypeOK, TableTypeOK
  <1>3. OwnersInv'
    BY <1>1 DEF IndInv, OwnersInv, OtherRun
  <1>4. \A i \in SlotIds : ~ (slots[i].state = "ALLOCATED" /\ slots[i].cluster = "ours")
    BY <1>1 DEF IndInv, OwnersInv
  <1>5. ~ restarted => /\ commitPosition = NullCounterId
                      /\ recoveryCounterId = NullCounterId
    BY <1>4 DEF IndInv, FoundInv, Live, TypeOK
  <1>6. FoundInv'
    BY <1>5 DEF FoundInv
  <1>7. ReadInv'
    BY <1>5 DEF IndInv, ReadInv
  <1> QED BY <1>2, <1>3, <1>6, <1>7 DEF IndInv

LEMMA AllocatesInd ==
    ASSUME NEW type \in {"recovery", "commit"}, IndInv, ConsensusModuleAllocates(type)
    PROVE  IndInv'
  <1>1. /\ slots' \in [SlotIds -> SlotStates]
        /\ \A i \in SlotIds : \/ slots'[i] = slots[i]
                             \/ /\ slots[i].state # "ALLOCATED"
                                /\ slots'[i].run = run
    BY AllocateKeeps DEF IndInv, TypeOK, TableTypeOK, ConsensusModuleAllocates, Types, Clusters
  <1>2. OwnersInv'
    BY <1>1 DEF IndInv, OwnersInv, ConsensusModuleAllocates
  <1> QED BY <1>1, <1>2, EnvironmentInd DEF ConsensusModuleAllocates

LEMMA StopsInd == IndInv /\ ConsensusModuleStops => IndInv'
  <1> SUFFICES ASSUME IndInv, ConsensusModuleStops PROVE IndInv'
    OBVIOUS
  <1> DEFINE ids == {i \in SlotIds : slots[i].state = "ALLOCATED" /\ slots[i].run = run}
  <1> USE DEF startVars, foundVars, readVars
  <1>1. /\ slots' \in [SlotIds -> SlotStates]
        /\ \A i \in SlotIds : i \notin ids => slots'[i] = slots[i]
        /\ \A i \in ids : slots'[i].state = "RECLAIMED"
    BY ReclaimKeeps DEF IndInv, ConsensusModuleStops
  <1>2. TypeOK'
    BY <1>1 DEF ConsensusModuleStops, IndInv, TypeOK, TableTypeOK
  <1>3. OwnersInv'
    BY <1>1 DEF ConsensusModuleStops, IndInv, OwnersInv
  <1>4. ~ restarted' => /\ ~ restarted
                       /\ commitPosition = NullCounterId
                       /\ recoveryCounterId = NullCounterId
    BY DEF ConsensusModuleStops, IndInv, TypeOK
  <1>5. FoundInv'
    BY <1>4 DEF ConsensusModuleStops, FoundInv
  <1>6. ReadInv'
    BY <1>4 DEF ConsensusModuleStops, IndInv, ReadInv
  <1> QED BY <1>2, <1>3, <1>5, <1>6 DEF IndInv

LEMMA OthersInd == IndInv /\ OthersNext => IndInv'
  <1> SUFFICES ASSUME IndInv, OthersNext PROVE IndInv'
    OBVIOUS
  <1>1. CASE OtherAllocates
    <2>1. PICK type \in {"recovery", "commit"} : Allocate(type, "other", OtherRun)
      BY <1>1 DEF OtherAllocates
    <2>2. /\ slots' \in [SlotIds -> SlotStates]
          /\ \A i \in SlotIds : \/ slots'[i] = slots[i]
                               \/ /\ slots[i].state # "ALLOCATED"
                                  /\ slots'[i].cluster = "other"
      BY <2>1, AllocateKeeps DEF IndInv, Types, Clusters, OtherRun
    <2>3. OwnersInv'
      BY <1>1, <2>2 DEF IndInv, OwnersInv, OtherAllocates
    <2> QED BY <1>1, <2>2, <2>3, EnvironmentInd DEF OtherAllocates, OthersNext
  <1>2. CASE OtherFrees
    <2>1. PICK i \in SlotIds : slots[i].run = OtherRun /\ Reclaim({i})
      BY <1>2 DEF OtherFrees
    <2>2. /\ slots' \in [SlotIds -> SlotStates]
          /\ \A j \in SlotIds : j # i => slots'[j] = slots[j]
          /\ slots'[i].state = "RECLAIMED"
      BY <2>1, ReclaimKeeps DEF IndInv
    <2>3. OwnersInv'
      BY <1>2, <2>2 DEF IndInv, OwnersInv, OtherFrees
    <2> QED BY <1>2, <2>1, <2>2, <2>3, EnvironmentInd DEF OtherFrees, OthersNext
  <1> QED BY <1>1, <1>2 DEF OthersNext
-----------------------------------------------------------------------------
(* The start *)

\* A step of poll changes nothing outside, and what was found stays live.
LEMMA PollKeeps ==
    ASSUME IndInv, UNCHANGED outside
    PROVE  /\ TableTypeOK' /\ OwnersInv' /\ restarted' = restarted /\ run' = run
           /\ \A type : Live(type)' = Live(type)
           /\ \A i \in SlotIds : slots'[i] = slots[i]
  BY DEF IndInv, TypeOK, TableTypeOK, OwnersInv, Live, outside, tableVars

\* A step of poll before the counter is read.
LEMMA SearchInd ==
    ASSUME IndInv, UNCHANGED <<readVars, outside>>,
           pc' \in {"resolve", "findCommit", "findRecovery", "step0"},
           resolved' \in BOOLEAN, next' \in 0 .. NumSlots,
           \/ commitPosition' = commitPosition
           \/ commitPosition' = NullCounterId
           \/ commitPosition' \in SlotIds /\ slots[commitPosition'] = Live("commit"),
           \/ recoveryCounterId' = recoveryCounterId
           \/ recoveryCounterId' = NullCounterId
           \/ recoveryCounterId' \in SlotIds /\ slots[recoveryCounterId'] = Live("recovery")
    PROVE  IndInv'
  <1>1. TypeOK'
    BY PollKeeps DEF IndInv, TypeOK, readVars, outside
  <1>2. FoundInv'
    BY PollKeeps DEF IndInv, TypeOK, FoundInv
  <1>3. ReadInv'
    BY DEF ReadInv
  <1> QED BY <1>1, <1>2, <1>3, PollKeeps DEF IndInv

LEMMA ResolveInd == IndInv /\ Resolve => IndInv'
  <1> SUFFICES ASSUME IndInv, Resolve PROVE IndInv'
    OBVIOUS
  <1>1. next' \in 0 .. NumSlots
    BY CounterTableAssumption DEF Resolve, Goto
  <1>2. resolved \in BOOLEAN /\ resolved' \in {resolved, TRUE}
    BY DEF Resolve, IndInv, TypeOK
  <1>3. resolved' \in BOOLEAN
    BY <1>2, Zenon
  <1> QED BY <1>1, <1>3, SearchInd DEF Resolve, Goto, foundVars

LEMMA ExamineInd ==
    ASSUME NEW type, IndInv, Examine(type), pc \in {"findCommit", "findRecovery"}
    PROVE  IndInv'
  <1>1. next \in SlotIds
    BY DEF Examine, Outcome, Ends
  <1>2. next' \in 0 .. NumSlots
    BY <1>1, CounterTableAssumption DEF Examine, SlotIds
  <1> QED BY <1>2, SearchInd DEF Examine, foundVars, IndInv, TypeOK

LEMMA FindCommitInd == IndInv /\ FindCommitPosition => IndInv'
  <1> SUFFICES ASSUME IndInv, FindCommitPosition PROVE IndInv'
    OBVIOUS
  <1>1. CASE Examine("commit")
    BY <1>1, ExamineInd DEF FindCommitPosition
  <1>2. CASE /\ commitPosition' \in Outcome("commit")
             /\ Goto(AfterCommit)
             /\ UNCHANGED <<resolved, recoveryCounterId, readVars, outside>>
    <2>1. \/ commitPosition' = NullCounterId
          \/ commitPosition' \in SlotIds /\ slots[commitPosition'] = Live("commit")
      BY <1>2, OutcomeMatches, MatchIsLive DEF IndInv
    <2>2. next' \in 0 .. NumSlots
      BY <1>2, CounterTableAssumption DEF Goto
    <2> QED BY <1>2, <2>1, <2>2, SearchInd DEF Goto, AfterCommit, IndInv, TypeOK
  <1> QED BY <1>1, <1>2 DEF FindCommitPosition

LEMMA FindRecoveryInd == IndInv /\ FindRecoveryCounter => IndInv'
  <1> SUFFICES ASSUME IndInv, FindRecoveryCounter PROVE IndInv'
    OBVIOUS
  <1>1. CASE Examine("recovery")
    BY <1>1, ExamineInd DEF FindRecoveryCounter
  <1>2. CASE /\ recoveryCounterId' \in Outcome("recovery")
             /\ Goto("step0")
             /\ UNCHANGED <<resolved, commitPosition, readVars, outside>>
    <2>1. \/ recoveryCounterId' = NullCounterId
          \/ recoveryCounterId' \in SlotIds /\ slots[recoveryCounterId'] = Live("recovery")
      BY <1>2, OutcomeMatches, MatchIsLive DEF IndInv
    <2>2. next' \in 0 .. NumSlots
      BY <1>2, CounterTableAssumption DEF Goto
    <2> QED BY <1>2, <2>1, <2>2, SearchInd DEF Goto, IndInv, TypeOK
  <1> QED BY <1>1, <1>2 DEF FindRecoveryCounter

LEMMA NotConnectedInd == IndInv /\ NotConnected => IndInv'
  <1> SUFFICES ASSUME IndInv, NotConnected PROVE IndInv'
    OBVIOUS
  <1>1. next' \in 0 .. NumSlots
    BY CounterTableAssumption DEF NotConnected, Goto
  <1> QED BY <1>1, SearchInd DEF NotConnected, Goto, foundVars, IndInv, TypeOK

\* A step of poll once the counters are found.
LEMMA StepInd ==
    ASSUME IndInv, UNCHANGED <<resolved, foundVars, outside>>,
           next' = 0,
           recoveryCounterId # NullCounterId,
           pc' \in {"position", "term", "recording", "recovered", "failed"},
           logPosition' \in Int, leadershipTermId' \in Int, snapshotRecordingId' \in Int,
           ReadInv'
    PROVE  IndInv'
  <1>1. next' \in 0 .. NumSlots
    BY CounterTableAssumption
  <1>2. TypeOK'
    BY <1>1, PollKeeps DEF IndInv, TypeOK, foundVars, outside
  <1>3. FoundInv'
    BY PollKeeps DEF IndInv, TypeOK, FoundInv, foundVars
  <1> QED BY <1>2, <1>3, PollKeeps DEF IndInv

LEMMA ConnectedInd == IndInv /\ Connected => IndInv'
  <1> SUFFICES ASSUME IndInv, Connected PROVE IndInv'
    OBVIOUS
  <1>1. ReadInv'
    BY DEF Connected, Goto, ReadInv, IsResolved, foundVars
  <1> QED BY <1>1, StepInd DEF Connected, Goto, IsResolved, readVars, IndInv, TypeOK

\* Unless the consensus module stopped, the getters read its recovery state.
LEMMA CounterIsLive ==
    ASSUME IndInv, ~ restarted, recoveryCounterId # NullCounterId
    PROVE  /\ IsRecoveryCounter(recoveryCounterId)
           /\ slots[recoveryCounterId].run = run
  BY DEF IndInv, FoundInv, Live, IsRecoveryCounter

\* Whatever they read is an integer.
LEMMA FieldTypes ==
    ASSUME IndInv, recoveryCounterId # NullCounterId
    PROVE  /\ LogPositionOf(slots[recoveryCounterId].run) \in Int
           /\ TermOf(slots[recoveryCounterId].run) \in Int
           /\ RecordingOf(slots[recoveryCounterId].run) \in Int
           /\ NullValue \in Int
  <1>1. slots[recoveryCounterId].run \in Nat
    BY DEF IndInv, TypeOK, TableTypeOK, SlotStates
  <1> QED BY <1>1 DEF LogPositionOf, TermOf, RecordingOf, NullValue

LEMMA GetLogPositionInd == IndInv /\ GetLogPosition => IndInv'
  <1> SUFFICES ASSUME IndInv, GetLogPosition PROVE IndInv'
    OBVIOUS
  <1>1. recoveryCounterId # NullCounterId
    BY DEF IndInv, ReadInv, GetLogPosition
  <1>2. logPosition' \in Int
    BY <1>1, FieldTypes DEF GetLogPosition
  <1>3. ~ restarted => logPosition' = LogPositionOf(run)
    BY <1>1, CounterIsLive DEF GetLogPosition
  <1>4. ReadInv'
    BY <1>1, <1>3, PollKeeps DEF GetLogPosition, Goto, ReadInv, foundVars, LogPositionOf
  <1> QED BY <1>1, <1>2, <1>4, StepInd DEF GetLogPosition, Goto, IndInv, TypeOK

LEMMA GetLeadershipTermIdInd == IndInv /\ GetLeadershipTermId => IndInv'
  <1> SUFFICES ASSUME IndInv, GetLeadershipTermId PROVE IndInv'
    OBVIOUS
  <1>1. recoveryCounterId # NullCounterId
    BY DEF IndInv, ReadInv, GetLeadershipTermId
  <1>2. leadershipTermId' \in Int
    BY <1>1, FieldTypes DEF GetLeadershipTermId
  <1>3. ~ restarted => leadershipTermId' = TermOf(run)
    BY <1>1, CounterIsLive DEF GetLeadershipTermId
  <1>4. ~ restarted => logPosition = LogPositionOf(run)
    BY DEF IndInv, ReadInv, GetLeadershipTermId
  \* Only the first run has no snapshot.
  <1>5. ~ restarted /\ pc' = "recovered" => ~ run > 1
    <2>1. run \in Nat
      BY DEF IndInv, TypeOK, TableTypeOK
    <2> QED BY <1>3, <2>1 DEF GetLeadershipTermId, Goto, TermOf, NullValue
  <1>6. pc' \in {"recording", "recovered"}
    BY DEF GetLeadershipTermId, Goto
  <1>7. ReadInv'
    BY <1>1, <1>3, <1>4, <1>5, <1>6, PollKeeps
    DEF GetLeadershipTermId, ReadInv, foundVars, LogPositionOf, TermOf
  <1> QED BY <1>1, <1>2, <1>6, <1>7, StepInd DEF GetLeadershipTermId, Goto, IndInv, TypeOK

LEMMA GetSnapshotRecordingIdInd == IndInv /\ GetSnapshotRecordingId => IndInv'
  <1> SUFFICES ASSUME IndInv, GetSnapshotRecordingId PROVE IndInv'
    OBVIOUS
  <1>1. recoveryCounterId # NullCounterId
    BY DEF IndInv, ReadInv, GetSnapshotRecordingId
  <1>2. snapshotRecordingId' \in Int
    BY <1>1, FieldTypes DEF GetSnapshotRecordingId, IndInv, TypeOK
  <1>3. ~ restarted => /\ pc' = "recovered"
                      /\ snapshotRecordingId' = RecordingOf(run)
                      /\ logPosition = LogPositionOf(run)
                      /\ leadershipTermId = TermOf(run)
    BY <1>1, CounterIsLive DEF GetSnapshotRecordingId, Goto, IndInv, ReadInv
  <1>4. pc' \in {"recovered", "failed"}
    BY DEF GetSnapshotRecordingId, Goto
  <1>5. ReadInv'
    BY <1>1, <1>3, <1>4, PollKeeps
    DEF GetSnapshotRecordingId, ReadInv, foundVars, LogPositionOf, TermOf, RecordingOf
  <1> QED BY <1>1, <1>2, <1>4, <1>5, StepInd DEF GetSnapshotRecordingId, Goto, IndInv, TypeOK

-----------------------------------------------------------------------------
LEMMA NextInd == IndInv /\ [Next]_vars => IndInv'
  <1> SUFFICES ASSUME IndInv, [Next]_vars PROVE IndInv'
    OBVIOUS
  <1>1. CASE UNCHANGED vars
    BY <1>1 DEF vars, startVars, foundVars, readVars, outside, tableVars, IndInv, TypeOK,
                TableTypeOK, OwnersInv, FoundInv, ReadInv, Live, LogPositionOf, TermOf,
                RecordingOf
  <1>2. CASE ConsensusModuleNext
    BY <1>2, StartsInd, StopsInd, AllocatesInd DEF ConsensusModuleNext
  <1>3. CASE OthersNext
    BY <1>3, OthersInd
  <1>4. CASE StartNext
    BY <1>4, ResolveInd, FindCommitInd, FindRecoveryInd, NotConnectedInd, ConnectedInd,
       GetLogPositionInd, GetLeadershipTermIdInd, GetSnapshotRecordingIdInd
    DEF StartNext
  <1> QED BY <1>1, <1>2, <1>3, <1>4 DEF Next

\* The inductive invariant of the start: what was found and read belongs to the
\* present run of the service's own consensus module until that stops.
THEOREM StartInvariant == Spec => []IndInv
  <1> QED BY InitInd, NextInd, PTL DEF Spec

\* Every variable of the start keeps its type, whatever the size of the table.
THEOREM StartTypeCorrect == Spec => []TypeOK
  <1>1. IndInv => TypeOK
    BY DEF IndInv
  <1> QED BY <1>1, StartInvariant, PTL

\* An uninterrupted start recovers position, term and snapshot of one run of its own
\* consensus module and does not fail.
THEOREM RecoversFromOneStateAlways == Spec => []RecoversFromOneState
  <1>1. IndInv => RecoversFromOneState
    BY DEF IndInv, ReadInv, RecoversFromOneState
  <1> QED BY <1>1, StartInvariant, PTL

\* The counter that bounds the polls is the live commit position of the service's own
\* consensus module as long as that does not stop.
THEOREM CommitPositionIsLiveAlways == Spec => []CommitPositionIsLive
  <1>1. IndInv => CommitPositionIsLive
    BY DEF IndInv, FoundInv, Live, CommitPositionIsLive
  <1> QED BY <1>1, StartInvariant, PTL
=============================================================================
