--------------------------- MODULE SessionStream ---------------------------
(***************************************************************************)
(* What a client gets of its connection: a session, once, and from then on *)
(* the messages that each member sends to it, from each member in order    *)
(* and none left out.                                                      *)
(***************************************************************************)
EXTENDS Integers

CONSTANTS Senders, NoSession

VARIABLES session,    \* the client's session
          sent,       \* the messages to be delivered, by sender, as numbers that ascend
          delivered   \* those that have been

streamVars == <<session, sent, delivered>>

StreamInit == /\ session = NoSession
              /\ sent = [s \in Senders |-> {}]
              /\ delivered = [s \in Senders |-> {}]

\* Messages may have been sent before the client knows of its session.
Open == /\ session = NoSession
        /\ session' \in Nat
        /\ sent' \in [Senders -> SUBSET Nat]
        /\ delivered' = [s \in Senders |-> {}]

SendNext(s) == /\ session # NoSession
               /\ \E i \in sent'[s] : /\ \A j \in sent[s] : j < i
                                      /\ sent' = [sent EXCEPT ![s] = @ \cup {i}]
               /\ UNCHANGED <<session, delivered>>

Deliver(s) == /\ \E i \in sent[s] \ delivered[s] :
                    /\ \A j \in sent[s] \ delivered[s] : i <= j
                    /\ delivered' = [delivered EXCEPT ![s] = @ \cup {i}]
              /\ UNCHANGED <<session, sent>>

StreamNext == Open \/ \E s \in Senders : SendNext(s) \/ Deliver(s)

StreamSpec == StreamInit /\ [][StreamNext]_streamVars
=============================================================================
