---------------------------- MODULE EgressAdapter ----------------------------
(***************************************************************************)
(* EgressAdapter: the dispatch of the egress stream to the callbacks of a  *)
(* client, for the session and the subscription it is constructed with:    *)
(* those of the AeronCluster, which does not construct it itself.          *)
(***************************************************************************)
EXTENDS ClientConnect

VARIABLE heard  \* the messages the callbacks were given, by image and index in it

AdapterInit == heard = <<>>

Callbacks == {"SessionMessage", "SessionEvent", "NewLeaderEvent", "AdminResponse"}

\* Slips the runs must notice: the session is not compared; what a later leader says is
\* not dispatched.
IsForAnyone(message) == message.kind \in Callbacks
IsFromItsLeader(message) == /\ message.kind \in Callbacks
                            /\ message.session = aeronCluster.session
                            /\ message.leader = accepted.leader

\* Which messages have a callback: those of the session, of four kinds.
IsDispatched(message) == /\ message.kind \in Callbacks
                         /\ message.session = aeronCluster.session

\* onFragment; a poll calls it for one fragment after the other, in any image.
OnFragment(m) ==
    /\ step = "DONE"
    /\ position[m] < Len(egress[m])
    /\ position' = [position EXCEPT ![m] = @ + 1]
    /\ LET message == egress[m][position[m] + 1]
       IN  heard' = IF IsDispatched(message)
                    THEN Append(heard, [image |-> m, at |-> position[m] + 1]) ELSE heard
    /\ UNCHANGED <<ingressEndpoints, connectVars, poller, egressImages, fragments>>
=============================================================================
