-------------------------- MODULE ReplicatedService --------------------------
(***************************************************************************)
(* What a clustered service container promises: the service is a           *)
(* deterministic state machine fed with the committed log.  Its state is   *)
(* always the one of a prefix of that log; it advances by one entry at a   *)
(* time; and it never falls back behind its latest completed snapshot,     *)
(* which is where a failure takes it back to.                              *)
(***************************************************************************)
EXTENDS ClusterLog

VARIABLES committed,    \* the committed log
          state,        \* the history of the service
          snapshotPos   \* position of the latest completed snapshot

specVars == <<committed, state, snapshotPos>>

SpecInit ==
    /\ committed = <<>>
    /\ state = <<>>
    /\ snapshotPos = 0

\* The cluster commits an entry.
CommitEntry ==
    /\ Len(committed') = Len(committed) + 1
    /\ committed'[Len(committed')] \in Entries
    /\ committed' = Append(committed, committed'[Len(committed')])
    /\ UNCHANGED <<state, snapshotPos>>

\* The service is shown the next committed entry.
ApplyEntry ==
    /\ Len(state) < Len(committed)
    /\ state' = Append(state, Seen(committed[Len(state) + 1]))
    /\ UNCHANGED <<committed, snapshotPos>>

\* A snapshot, of the present state or one the service went through since the
\* latest snapshot, is complete.
CompleteSnapshot ==
    /\ snapshotPos' \in snapshotPos .. Len(state)
    /\ UNCHANGED <<committed, state>>

\* The service fails and starts again from its snapshot.
Recovers ==
    /\ state' = StateAt(committed, snapshotPos)
    /\ UNCHANGED <<committed, snapshotPos>>

SpecNext == CommitEntry \/ ApplyEntry \/ CompleteSnapshot \/ Recovers

ReplicatedSpec == SpecInit /\ [][SpecNext]_specVars
=============================================================================
