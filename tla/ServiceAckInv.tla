--------------------------- MODULE ServiceAckInv ---------------------------
(***************************************************************************)
(* What an orderly exchange of service acks rests on, for a consensus      *)
(* module that awaits each of them: AwaitDrain and PauseAtSnapshot.  While *)
(* one is awaited the commit position stands still, so that the agent gets *)
(* to it and acknowledges the position it was asked for.                   *)
(***************************************************************************)
EXTENDS ServiceLogInv

IsStarting == pc \in StartSteps

\* Every ack on its way is the one that is awaited, and ids follow each other.
AckOrderInv ==
    /\ cm # "error"
    /\ Len(acks) <= 1
    /\ ackId = expectedAckId + Len(acks)
    /\ \A i \in 1 .. Len(acks) : IsExpected(acks[i])

\* The start is acknowledged once, at the position of the recovery.
StartedInv ==
    /\ IsStarting => cm = "starting"
    /\ cm = "starting" =>
          commitPos = recovery.logPosition /\ (~ IsStarting => acks # <<>>)

\* What calls for an ack names the position that is committed, and does so until
\* there is the ack.
CalledInv ==
    /\ \A i \in Calls(control) : control[i].logPosition = commitPos
    /\ activeLogEvent # NoEvent => activeLogEvent.logPosition = commitPos
    /\ requestedAckPosition # NullPosition => requestedAckPosition = commitPos
    /\ \/ cm = "draining"
       \/ cm = "joining" /\ ~ JoinAckMayBeLost
       => ~ NoneAsked \/ acks # <<>>

\* The agent is at the commit position when it acknowledges it, and stays there until
\* there is something to consume again.
CaughtUpInv ==
    ~ IsStarting /\ (acks # <<>> \/ cm \in {"starting", "settled", "joining"}) =>
        logPosition = commitPos

\* No snapshot action is ahead of the agent, but for the one at which commits wait.
SnapshotAheadInv ==
    /\ ~ IsStarting =>
          \A p \in logPosition + 1 .. commitPos :
             log[p].kind = "Snapshot" => cm = "snapshot" /\ p = commitPos
    /\ currentSnapshot # NoSnapshot =>
          cm = "snapshot" /\ logPosition = commitPos /\ acks = <<>>
    /\ cm = "snapshot" =>
          /\ commitPos >= 1
          /\ log[commitPos].kind = "Snapshot"
          /\ logPosition = commitPos => acks # <<>> \/ currentSnapshot # NoSnapshot

AckInv == AckOrderInv /\ StartedInv /\ CalledInv /\ CaughtUpInv /\ SnapshotAheadInv

-----------------------------------------------------------------------------
(* Sessions are opened once, and closed while they are open. *)

Fits(e, open) ==
    /\ e.kind = "SessionOpenEvent" => e.session \notin open
    /\ e.kind = "SessionCloseEvent" => e.session \in open

\* An open session has an entry of its own.
IsMentioned(l, s) == \E i \in 1 .. Len(l) : l[i].session = s

FitLog == \A p \in 1 .. Len(log) :
             /\ Fits(log[p], OpenAt(log, p - 1))
             /\ \A s \in log[p].open : IsMentioned(log, s)

FitCurrent ==
    IsLive => \A k \in 1 .. Len(Current.entries) :
        LET e == Current.entries[k]
        IN  /\ Fits(e, IF k = 1 THEN OpenAt(log, Current.base)
                                ELSE Current.entries[k - 1].open)
            /\ \A s \in e.open : \/ IsMentioned(log, s)
                                \/ \E j \in 1 .. k : Current.entries[j].session = s

\* Nothing has ended the thread, and the flag that might is not set.
RunsInv == pc # "failed" /\ ~ isAbort

FitInv == FitLog /\ FitCurrent /\ RunsInv
=============================================================================
