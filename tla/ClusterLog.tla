----------------------------- MODULE ClusterLog -----------------------------
(***************************************************************************)
(* The replicated log as the clustered service sees it: the entries a      *)
(* BoundedLogAdapter dispatches on, and what a service that has consumed   *)
(* a prefix of the log must have seen.                                     *)
(*                                                                         *)
(* A log position is counted in entries: position p is the position after  *)
(* the p-th entry, which is the value every log event carries              *)
(* (header.position() for events stamped by the transport, the logPosition *)
(* field for ClusterActionRequest, NewLeadershipTermEvent and              *)
(* MembershipChangeEvent).  Payloads, timestamps and correlation ids are   *)
(* abstracted: only the position tells two messages apart.                 *)
(***************************************************************************)
EXTENDS Integers, Sequences, FiniteSets

CONSTANTS Sessions,     \* the cluster session ids that clients may be given
          MaxLog        \* bound: no log entry is appended past this position

ASSUME ClusterLogAssumption ==
    /\ Sessions \subseteq Nat \ {0}
    /\ MaxLog \in Nat

\* aeron::NULL_VALUE and archive::client::NULL_POSITION
NullValue    == -1
NullPosition == -1

\* The sender of a message that was offered by a clustered service and not
\* by a client: its clusterSessionId is that of no session.
NoSession == 0

\* The templates BoundedLogAdapter::onMessage dispatches on.
Kinds == {"SessionMessage", "TimerEvent", "SessionOpenEvent", "SessionCloseEvent",
          "Snapshot", "NewLeadershipTermEvent", "MembershipChangeEvent"}

\* An entry, with the set of sessions the consensus module holds open after it
\* and the leadership term it was appended in.  Sessions are opened and closed,
\* NoSession is not.
Entries ==
    {e \in [kind    : Kinds,
            session : Sessions \cup {NoSession},
            open    : SUBSET Sessions,
            term    : Nat] :
        e.kind \in {"SessionOpenEvent", "SessionCloseEvent"} => e.session \in Sessions}

OpenAt(l, p) == IF p = 0 THEN {} ELSE l[p].open

\* What the service is shown of an entry: a sequence of at most one callback.
\* A snapshot action and a membership change have none, and a message has one
\* only if its sender is an open session.
Shown(e) == CASE e.kind \in {"Snapshot", "MembershipChangeEvent"} -> FALSE
              [] e.kind = "SessionMessage" -> e.session \in e.open
              [] OTHER -> TRUE

Seen(e) == IF Shown(e) THEN <<e>> ELSE <<>>

\* The state of a deterministic service that consumed l up to position p: its
\* history, one element per log position.
StateAt(l, p) == [i \in 1 .. p |-> Seen(l[i])]
=============================================================================
