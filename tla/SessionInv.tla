------------------------------ MODULE SessionInv ------------------------------
(***************************************************************************)
(* What the connecting and the closing of client sessions rest on: which   *)
(* leadership term a JoinLog event is of, and who leads it.                *)
(***************************************************************************)
EXTENDS ClientSessions

-----------------------------------------------------------------------------
(* What the connected sessions of a leader rest on *)

\* The stream of the first leadership term of this run of the node.
IsFirstLive(i) ==
    /\ i \in 1 .. Len(streams)
    /\ streams[i].max = NoMaxPosition
    /\ \A j \in 1 .. i - 1 : streams[j].max # NoMaxPosition

\* Only that term is started up by a leader.
StartsFirstTerm(m) == m.isStartup /\ m.role = "LEADER" => IsFirstLive(m.stream)

JoinsOf(messages) == {i \in 1 .. Len(messages) : messages[i].type = "JoinLog"}

StartupInv ==
    /\ \A i \in JoinsOf(control) : StartsFirstTerm(control[i])
    /\ activeLogEvent # NoEvent => StartsFirstTerm(activeLogEvent)

OpenAtStartup(s) ==
    \E i \in 1 .. Len(streams) : IsFirstLive(i) /\ s \in OpenAt(log, streams[i].base)

EgressInv ==
    /\ egress \subseteq sessionByIdMap
    /\ pc \in StartSteps => role = "FOLLOWER"
    /\ IsResponding /\ role = "LEADER" =>
          \A s \in sessionByIdMap \ egress : OpenAtStartup(s)

ConnectInv == StartupInv /\ EgressInv

-----------------------------------------------------------------------------
(* What the closing of sessions rests on *)

\* The consensus module leads the term of every log it sends the service to lead, from
\* the moment it does so.
LeadsInv ==
    /\ \A i \in JoinsOf(control) : control[i].role = "LEADER" => leads
    /\ activeLogEvent # NoEvent => (activeLogEvent.role = "LEADER" => leads)
    /\ LeadsItsLog => leads

ClosingInv == SessionTypeOK /\ LeadsInv /\ ClosingIsAsked
=============================================================================
