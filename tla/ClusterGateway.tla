--------------------------- MODULE ClusterGateway ---------------------------
(***************************************************************************)
(* EXTERNAL: what a client meets of the cluster, written from the way      *)
(* src/client uses it.  Requests that a publication has accepted are       *)
(* handled in order, each by some member: the leader opens a session,      *)
(* challenges or rejects, another member redirects.  Each member that      *)
(* sends to the client has an image of its own in the egress subscription. *)
(* The egress channel is shared: other clients' messages are in it too.    *)
(***************************************************************************)
EXTENDS Integers, Sequences, FiniteSets

CONSTANTS Members,            \* the cluster's members
          Interference,       \* which of the outcomes below the cluster may choose
          MaxTerm, MaxTraffic,\* bounds on elections and on messages nobody asked for
          MaxChallenges,      \* bound on the challenges of one session
          ReadsBareRequest    \* a request without a message header is understood,
                              \* as no cluster does and every request needs

VARIABLES leader, term,       \* who leads, and in which leadership term
          ingress,            \* the requests the client's publications have accepted
          handled,            \* how many of them have been handled
          sessions,           \* the sessions opened for this client, by id
          egress,             \* what each member has sent, by member
          traffic,            \* how many messages nobody asked for
          connected           \* the client's publication has a subscriber

gatewayVars == <<leader, term, ingress, handled, sessions, egress, traffic, connected>>

\* Challenges, redirects and rejections; a session that is closed; a connection that
\* is lost; a resource that the media driver refuses.
Outcomes == {"challenge", "redirect", "reject", "close", "disconnect", "refuse"}

ASSUME GatewayAssumption ==
    /\ IsFiniteSet(Members) /\ Members \subseteq Nat /\ Members # {}
    /\ Interference \subseteq Outcomes
    /\ MaxTerm \in Nat /\ MaxTraffic \in Nat /\ MaxChallenges \in Nat
    /\ ReadsBareRequest \in BOOLEAN

NullValue      == -1
ForeignSession == 0   \* the id of a session of another client
EventCodes     == {"OK", "ERROR", "REDIRECT", "AUTHENTICATION_REJECTED", "CLOSED", "NULL_VALUE"}

\* An egress message with the fields every kind has; the others are told below.
Message(kind, session, correlation, code) ==
    [kind |-> kind, session |-> session, correlation |-> correlation, code |-> code,
     term |-> term, leader |-> leader, endpoints |-> {}]

SessionEvent(session, correlation, code) ==
    Message("SessionEvent", session, correlation, code)

Challenge(session, correlation) ==
    Message("Challenge", session, correlation, "NULL_VALUE")

GatewayInit ==
    /\ leader \in Members /\ term = 1
    /\ ingress = <<>> /\ handled = 0 /\ sessions = <<>>
    /\ egress = [m \in Members |-> <<>>]
    /\ traffic = 0
    /\ connected = FALSE

Send(m, message) == egress' = [egress EXCEPT ![m] = Append(@, message)]

-----------------------------------------------------------------------------
(* Requests *)

Request == ingress[handled + 1]

HandlesRequest ==
    /\ handled < Len(ingress)
    /\ Request.header \/ ReadsBareRequest
    /\ handled' = handled + 1
    /\ UNCHANGED <<leader, term, ingress, traffic, connected>>

\* The session a request is for: a new one, or one that was challenged.
SessionOf(r) == IF r.kind = "SessionConnectRequest" THEN Len(sessions) + 1 ELSE r.session

MayDecide(r) == \/ r.kind = "SessionConnectRequest"
                \/ /\ r.session \in 1 .. Len(sessions)
                   /\ sessions[r.session].state = "challenged"

SetSession(id, state, correlation, challenges) ==
    LET session == [state |-> state, correlation |-> correlation, challenges |-> challenges]
    IN  sessions' = IF id > Len(sessions) THEN Append(sessions, session)
                    ELSE [sessions EXCEPT ![id] = session]

ChallengesOf(id) == IF id > Len(sessions) THEN 0 ELSE sessions[id].challenges

OpensSession ==
    /\ HandlesRequest
    /\ MayDecide(Request)
    /\ LET id == SessionOf(Request)
       IN  /\ SetSession(id, "open", Request.correlation, ChallengesOf(id))
           /\ Send(leader, SessionEvent(id, Request.correlation, "OK"))

ChallengesSession ==
    /\ "challenge" \in Interference
    /\ HandlesRequest
    /\ MayDecide(Request)
    /\ LET id == SessionOf(Request)
       IN  /\ ChallengesOf(id) < MaxChallenges
           /\ SetSession(id, "challenged", Request.correlation, ChallengesOf(id) + 1)
           /\ Send(leader, Challenge(id, Request.correlation))

RejectsSession ==
    /\ "reject" \in Interference
    /\ HandlesRequest
    /\ MayDecide(Request)
    /\ LET id == SessionOf(Request)
       IN  /\ SetSession(id, "closed", Request.correlation, ChallengesOf(id))
           /\ \E code \in {"ERROR", "AUTHENTICATION_REJECTED"} :
                 Send(leader, SessionEvent(id, Request.correlation, code))

\* A member that is not the leader, or was not when it sent this, names the leader
\* and the endpoints of the members it knows of.
RedirectsRequest ==
    /\ "redirect" \in Interference
    /\ HandlesRequest
    /\ Request.kind = "SessionConnectRequest"
    /\ \E m \in Members \ {leader}, endpoints \in {{leader}, Members} :
          Send(m, [SessionEvent(NullValue, Request.correlation, "REDIRECT")
                      EXCEPT !.endpoints = endpoints])
    /\ UNCHANGED sessions

\* A challenge response for a session that awaits none is dropped.
IgnoresRequest ==
    /\ HandlesRequest
    /\ ~ MayDecide(Request)
    /\ UNCHANGED <<sessions, egress>>

RequestNext == \/ OpensSession \/ ChallengesSession \/ RejectsSession
               \/ RedirectsRequest \/ IgnoresRequest

-----------------------------------------------------------------------------
(* Messages nobody asked for *)

OpenSessions == {s \in 1 .. Len(sessions) : sessions[s].state = "open"}

SendsUnasked ==
    /\ traffic < MaxTraffic
    /\ traffic' = traffic + 1
    /\ UNCHANGED <<ingress, handled, connected>>

\* The service or the leader has something for a session of this client or of another.
SendsToSession ==
    /\ SendsUnasked
    /\ \E s \in OpenSessions \cup {ForeignSession}, kind \in {"SessionMessage", "AdminResponse"} :
          Send(leader, Message(kind, s, NullValue, "NULL_VALUE"))
    /\ UNCHANGED <<leader, term, sessions>>

\* Another client has connected.
OpensForeignSession ==
    /\ SendsUnasked
    /\ Send(leader, SessionEvent(ForeignSession, 0, "OK"))
    /\ UNCHANGED <<leader, term, sessions>>

ClosesSession ==
    /\ "close" \in Interference
    /\ SendsUnasked
    /\ \E s \in OpenSessions :
          /\ SetSession(s, "closed", sessions[s].correlation, sessions[s].challenges)
          /\ Send(leader, SessionEvent(s, sessions[s].correlation, "CLOSED"))
    /\ UNCHANGED <<leader, term>>

\* A member is elected, and tells the sessions it has.
ElectsLeader ==
    /\ SendsUnasked
    /\ term < MaxTerm
    /\ term' = term + 1
    /\ leader' \in Members \ {leader}
    /\ IF OpenSessions = {} THEN UNCHANGED egress
       ELSE \E s \in OpenSessions :
               Send(leader', [Message("NewLeaderEvent", s, NullValue, "NULL_VALUE")
                                 EXCEPT !.term = term', !.leader = leader', !.endpoints = Members])
    /\ UNCHANGED sessions

\* The connection of the client's publication comes and goes.
ConnectsOrNot ==
    /\ connected => "disconnect" \in Interference
    /\ connected' = ~ connected
    /\ UNCHANGED <<leader, term, ingress, handled, sessions, egress, traffic>>

GatewayNext == \/ RequestNext \/ SendsToSession \/ OpensForeignSession \/ ClosesSession
               \/ ElectsLeader \/ ConnectsOrNot
=============================================================================
