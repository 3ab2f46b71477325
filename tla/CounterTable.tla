---------------------------- MODULE CounterTable ----------------------------
(***************************************************************************)
(* The counters of the media driver, as the service looks for the ones of  *)
(* its consensus module among them.  They are not part of this repository. *)
(*                                                                         *)
(* A process allocates a counter with a type and a key and frees it; the   *)
(* driver gives out slots that were reclaimed, or else the first one that  *)
(* was never used.  Other processes allocate counters too, those of other  *)
(* clusters on the same driver among them.                                 *)
(***************************************************************************)
EXTENDS Integers, FiniteSets

CONSTANTS NumSlots,     \* maxCounterId of the CountersReader
          MaxRuns,      \* bound: runs of the consensus module
          MaxOthers     \* bound: counters other processes hold at a time

ASSUME CounterTableAssumption ==
    /\ NumSlots \in Nat \ {0}
    /\ MaxRuns \in Nat
    /\ MaxOthers \in Nat

VARIABLES slots,    \* counter id -> what the counters reader shows of it
          run,      \* runs of the consensus module so far
          isUp      \* whether the last one goes on

tableVars == <<slots, run, isUp>>

SlotIds == 0 .. NumSlots - 1
OtherRun == 0       \* in place of the run, for counters of other processes

States   == {"UNUSED", "ALLOCATED", "RECLAIMED"}
Types    == {"recovery", "commit", "none"}
Clusters == {"ours", "other"}

SlotStates == [state : States, type : Types, cluster : Clusters, run : Nat]

TableTypeOK == /\ slots \in [SlotIds -> SlotStates]
               /\ run \in Nat
               /\ isUp \in BOOLEAN

TableInit ==
    /\ slots = [i \in SlotIds |-> [state |-> "UNUSED", type |-> "none",
                                   cluster |-> "other", run |-> OtherRun]]
    /\ run = 0
    /\ isUp = FALSE

IsFree(i) == \/ slots[i].state = "RECLAIMED"
             \/ /\ slots[i].state = "UNUSED"
                /\ \A j \in SlotIds : j < i => slots[j].state # "UNUSED"

Allocate(type, cluster, owner) ==
    \E i \in SlotIds :
        /\ IsFree(i)
        /\ slots' = [slots EXCEPT ![i] = [state |-> "ALLOCATED", type |-> type,
                                          cluster |-> cluster, run |-> owner]]

\* The metadata of a reclaimed counter stays until its slot is given out again.
Reclaim(ids) ==
    slots' = [i \in SlotIds |-> IF i \in ids
                                THEN [slots[i] EXCEPT !.state = "RECLAIMED"]
                                ELSE slots[i]]

Allocated(type, owner) ==
    {i \in SlotIds : /\ slots[i].state = "ALLOCATED"
                     /\ slots[i].type = type
                     /\ slots[i].run = owner}

OtherAllocates ==
    /\ Cardinality(Allocated("recovery", OtherRun) \cup Allocated("commit", OtherRun)) < MaxOthers
    /\ \E type \in {"recovery", "commit"} : Allocate(type, "other", OtherRun)
    /\ UNCHANGED <<run, isUp>>

OtherFrees ==
    /\ \E i \in SlotIds : /\ slots[i].state = "ALLOCATED"
                          /\ slots[i].run = OtherRun
                          /\ Reclaim({i})
    /\ UNCHANGED <<run, isUp>>
=============================================================================
