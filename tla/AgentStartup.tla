---------------------------- MODULE AgentStartup ----------------------------
(***************************************************************************)
(* The first part of AsyncConnect::poll: how a service agent finds what it *)
(* needs and reads the recovery state, up to the point ServiceAgent's      *)
(* Recover stands for.  Every poll looks for what is still missing, in     *)
(* this order: publication, subscription and archive, the commit-position  *)
(* counter, the recovery-state counter.  When nothing is missing and the   *)
(* consensus module is connected, the fields of the recovery state are     *)
(* read one after the other.                                               *)
(*                                                                         *)
(* A counter found in an earlier poll is not looked for again.  A slot of  *)
(* the counter table is examined in one step, state, type and key together.*)
(***************************************************************************)
EXTENDS CounterTable

VARIABLES pc,                   \* the next part of poll
          resolved,             \* m_proxy, m_serviceAdapter and m_archive are there
          next,                 \* the slot a search examines next
          commitPosition,       \* m_commitPosition: its counter id
          recoveryCounterId,    \* m_recoveryCounterId
          logPosition,          \* m_logPosition
          leadershipTermId,     \* m_leadershipTermId
          snapshotRecordingId,  \* m_snapshotRecordingId
          restarted             \* history: the consensus module has stopped since
                                \* the first of its counters was found

foundVars == <<commitPosition, recoveryCounterId>>
readVars  == <<logPosition, leadershipTermId, snapshotRecordingId>>
startVars == <<pc, resolved, next, foundVars, readVars>>
outside   == <<tableVars, restarted>>
vars      == <<startVars, outside>>

NullCounterId == -1
NullValue     == -1

\* The recovery state of a run of the consensus module.  The first run has no
\* snapshot to recover from; the values of other runs, and those of the counters of
\* other clusters, tell the runs apart.
LogPositionOf(r) == IF r = 1 THEN 0 ELSE 10 + r
TermOf(r)        == IF r = 1 THEN NullValue ELSE r
RecordingOf(r)   == r

Init ==
    /\ TableInit
    /\ pc = "resolve" /\ resolved = FALSE /\ next = 0
    /\ commitPosition = NullCounterId /\ recoveryCounterId = NullCounterId
    /\ logPosition = NullValue /\ leadershipTermId = NullValue
    /\ snapshotRecordingId = NullValue
    /\ restarted = FALSE

-----------------------------------------------------------------------------
(* The consensus module *)

ConsensusModuleStarts ==
    /\ ~ isUp /\ run < MaxRuns
    /\ run' = run + 1
    /\ isUp' = TRUE
    /\ UNCHANGED <<slots, startVars, restarted>>

ConsensusModuleAllocates(type) ==
    /\ isUp
    /\ Allocated(type, run) = {}
    /\ Allocate(type, "ours", run)
    /\ UNCHANGED <<run, isUp, startVars, restarted>>

\* It stops, and the driver reclaims its counters.
ConsensusModuleStops ==
    /\ isUp
    /\ isUp' = FALSE
    /\ Reclaim({i \in SlotIds : slots[i].state = "ALLOCATED" /\ slots[i].run = run})
    /\ restarted' = (restarted \/ {commitPosition, recoveryCounterId} # {NullCounterId})
    /\ UNCHANGED <<run, startVars>>

ConsensusModuleNext ==
    \/ ConsensusModuleStarts \/ ConsensusModuleStops
    \/ \E type \in {"recovery", "commit"} : ConsensusModuleAllocates(type)

OthersNext == (OtherAllocates \/ OtherFrees) /\ UNCHANGED <<startVars, restarted>>

-----------------------------------------------------------------------------
(* Finding *)

Goto(step) == pc' = step /\ next' = 0

Resolve ==
    /\ pc = "resolve"
    /\ resolved' \in {resolved, TRUE}
    /\ Goto(IF commitPosition = NullCounterId THEN "findCommit"
            ELSE IF recoveryCounterId = NullCounterId THEN "findRecovery" ELSE "step0")
    /\ UNCHANGED <<foundVars, readVars, outside>>

\* Slips the runs must notice: the cluster id is not looked at; the state is not.
MatchesAnyCluster(i, type) == slots[i].state = "ALLOCATED" /\ slots[i].type = type
MatchesReclaimed(i, type)  == slots[i].type = type /\ slots[i].cluster = "ours"

\* The test of ClusterCounters::find and RecoveryState::findCounter.
Matches(i, type) == /\ slots[i].state = "ALLOCATED"
                    /\ slots[i].type = type
                    /\ slots[i].cluster = "ours"

\* A slip the runs must notice: a search ends at a reclaimed slot.
EndsAtReclaimed(i) == i \in SlotIds => slots[i].state \in {"UNUSED", "RECLAIMED"}

\* The searches stop at the first slot that was never used.
Ends(i) == i \in SlotIds => slots[i].state = "UNUSED"

\* What a search returns at this slot; nothing if it goes on.
Outcome(type) == IF Ends(next) THEN {NullCounterId}
                 ELSE IF Matches(next, type) THEN {next} ELSE {}

Examine(type) ==
    /\ Outcome(type) = {}
    /\ next' = next + 1
    /\ UNCHANGED <<pc, resolved, foundVars, readVars, outside>>

AfterCommit == IF recoveryCounterId = NullCounterId THEN "findRecovery" ELSE "step0"

FindCommitPosition ==
    /\ pc = "findCommit"
    /\ \/ Examine("commit")
       \/ /\ commitPosition' \in Outcome("commit")
          /\ Goto(AfterCommit)
          /\ UNCHANGED <<resolved, recoveryCounterId, readVars, outside>>

\* A slip the runs must notice: the id returned is off by one.
FindNextRecoveryCounter ==
    /\ pc = "findRecovery"
    /\ \/ Examine("recovery")
       \/ /\ recoveryCounterId' \in {IF id = NullCounterId THEN id ELSE id + 1 :
                                       id \in Outcome("recovery")}
          /\ Goto("step0")
          /\ UNCHANGED <<resolved, commitPosition, readVars, outside>>

FindRecoveryCounter ==
    /\ pc = "findRecovery"
    /\ \/ Examine("recovery")
       \/ /\ recoveryCounterId' \in Outcome("recovery")
          /\ Goto("step0")
          /\ UNCHANGED <<resolved, commitPosition, readVars, outside>>

-----------------------------------------------------------------------------
(* Steps 0 and 1 *)

IsResolved == /\ resolved
              /\ commitPosition # NullCounterId /\ recoveryCounterId # NullCounterId

\* Something is missing, or the publication is not connected: the poll ends.
NotConnected ==
    /\ pc = "step0"
    /\ Goto("resolve")
    /\ UNCHANGED <<resolved, foundVars, readVars, outside>>

Connected ==
    /\ pc = "step0"
    /\ IsResolved
    /\ Goto("position")
    /\ UNCHANGED <<resolved, foundVars, readVars, outside>>

\* What the getters of RecoveryState test before each field; the cluster id is not
\* tested again.
IsRecoveryCounter(i) == slots[i].state = "ALLOCATED" /\ slots[i].type = "recovery"

GetLogPosition ==
    /\ pc = "position"
    /\ logPosition' = IF IsRecoveryCounter(recoveryCounterId)
                      THEN LogPositionOf(slots[recoveryCounterId].run) ELSE NullValue
    /\ Goto("term")
    /\ UNCHANGED <<resolved, foundVars, leadershipTermId, snapshotRecordingId, outside>>

GetLeadershipTermId ==
    /\ pc = "term"
    /\ leadershipTermId' = IF IsRecoveryCounter(recoveryCounterId)
                           THEN TermOf(slots[recoveryCounterId].run) ELSE NullValue
    /\ Goto(IF leadershipTermId' # NullValue THEN "recording" ELSE "recovered")
    /\ UNCHANGED <<resolved, foundVars, logPosition, snapshotRecordingId, outside>>

\* "active counter not found" if there is none.
GetSnapshotRecordingId ==
    /\ pc = "recording"
    /\ \/ /\ IsRecoveryCounter(recoveryCounterId)
          /\ snapshotRecordingId' = RecordingOf(slots[recoveryCounterId].run)
          /\ Goto("recovered")
       \/ /\ ~ IsRecoveryCounter(recoveryCounterId)
          /\ Goto("failed")
          /\ UNCHANGED snapshotRecordingId
    /\ UNCHANGED <<resolved, foundVars, logPosition, leadershipTermId, outside>>

StartNext ==
    \/ Resolve \/ FindCommitPosition \/ FindRecoveryCounter
    \/ NotConnected \/ Connected
    \/ GetLogPosition \/ GetLeadershipTermId \/ GetSnapshotRecordingId

Next == ConsensusModuleNext \/ OthersNext \/ StartNext

Spec == Init /\ [][Next]_vars

\* The container polls until the agent is there, and a resource that is asked for again
\* and again is there at last; the consensus module allocates both counters.
Fairness ==
    /\ WF_vars(StartNext)
    /\ SF_vars(Resolve /\ resolved')
    /\ SF_vars(Connected)
    /\ \A type \in {"recovery", "commit"} : SF_vars(ConsensusModuleAllocates(type))

FairSpec == Spec /\ Fairness

-----------------------------------------------------------------------------
TypeOK ==
    /\ TableTypeOK
    /\ pc \in {"resolve", "findCommit", "findRecovery", "step0", "position", "term",
               "recording", "recovered", "failed"}
    /\ resolved \in BOOLEAN
    /\ next \in 0 .. NumSlots
    /\ commitPosition \in SlotIds \cup {NullCounterId}
    /\ recoveryCounterId \in SlotIds \cup {NullCounterId}
    /\ restarted \in BOOLEAN
    /\ logPosition \in Int /\ leadershipTermId \in Int /\ snapshotRecordingId \in Int

\* Unless the consensus module stops in between, a start that reads the recovery
\* state gets position, term and snapshot of the present run of its own consensus
\* module, although they are read one by one from a counter an earlier scan found in a
\* table that other processes change, and it does not fail.
RecoversFromOneState ==
    pc \in {"recovered", "failed"} /\ ~ restarted =>
        /\ pc = "recovered"
        /\ logPosition = LogPositionOf(run)
        /\ leadershipTermId = TermOf(run)
        /\ run > 1 => snapshotRecordingId = RecordingOf(run)

\* The counter that will bound every poll of the log is the live commit position of
\* its own consensus module, unless that stops after the counter was found.
CommitPositionIsLive ==
    commitPosition # NullCounterId /\ ~ restarted =>
        slots[commitPosition] = [state |-> "ALLOCATED", type |-> "commit",
                                 cluster |-> "ours", run |-> run]

\* With a consensus module that stays up the start gets through, whatever slots its
\* counters were given and whatever other processes do to the table.
StartGetsThrough == <>[](isUp /\ ~ restarted) => <>(pc = "recovered")

\* "counterId for the active recovery counter": what the getters are documented to
\* be given.  It is asked only while there is a consensus module to have one.
ReadsActiveCounter ==
    isUp /\ pc \in {"position", "term", "recording"} => Matches(recoveryCounterId, "recovery")
=============================================================================
