------------------------- MODULE ClusterClientProofs -------------------------
(***************************************************************************)
(* That a client that is connected has the session which the cluster       *)
(* opened for its own request and hears all of it, for any members and any *)
(* number of messages in the shared egress stream; and that none of its    *)
(* requests is sent before the one before it is answered.                  *)
(***************************************************************************)
EXTENDS ClusterClient, TLAPS

-----------------------------------------------------------------------------
(* The cluster *)

\* What a step of the cluster does to what it has sent and opened.
EgressGrows ==
    \A m \in Members :
        /\ Len(egress[m]) <= Len(egress'[m])
        /\ \A i \in 1 .. Len(egress[m]) : egress'[m][i] = egress[m][i]

SessionsStay ==
    \A s \in 1 .. Len(sessions) :
        /\ s \in 1 .. Len(sessions')
        /\ sessions[s].state # "challenged" =>
              /\ sessions'[s].state # "challenged"
              /\ sessions'[s].correlation = sessions[s].correlation

IsTrue(event) == event.kind = "SessionEvent" /\ event.code = "OK" =>
                    event.correlation = 0 \/ IsOpened(event.session, event.correlation)

LEMMA ElementOfSeq ==
    ASSUME NEW S, NEW seq \in Seq(S), NEW k \in 1 .. Len(seq) PROVE seq[k] \in S
  OBVIOUS

\* A message that is sent is the last in its stream and changes no other.
LEMMA SendGrows ==
    ASSUME NEW m \in Members, NEW message \in EgressMessages, TypeOK, Send(m, message)
    PROVE  /\ egress' \in [Members -> Seq(EgressMessages)]
           /\ EgressGrows
           /\ \A n \in Members : \A i \in 1 .. Len(egress'[n]) :
                 i \in 1 .. Len(egress[n]) \/ egress'[n][i] = message
  <1>1. egress \in [Members -> Seq(EgressMessages)]
    BY DEF TypeOK, GatewayTypeOK
  <1>2. egress' = [egress EXCEPT ![m] = Append(egress[m], message)]
    BY DEF Send
  <1>3. Append(egress[m], message) \in Seq(EgressMessages)
    BY <1>1
  <1>4. /\ Len(Append(egress[m], message)) = Len(egress[m]) + 1
        /\ \A i \in 1 .. Len(egress[m]) : Append(egress[m], message)[i] = egress[m][i]
        /\ Append(egress[m], message)[Len(egress[m]) + 1] = message
        /\ Len(egress[m]) \in Nat
    BY <1>1
  <1>5. \A n \in Members : Len(egress[n]) \in Nat
    BY <1>1
  <1>6. \A n \in Members \ {m} : egress'[n] = egress[n]
    BY <1>1, <1>2
  <1>7. egress'[m] = Append(egress[m], message)
    BY <1>1, <1>2
  <1>8. egress' \in [Members -> Seq(EgressMessages)]
    BY <1>1, <1>2, <1>3
  <1>9. EgressGrows
    <2> SUFFICES ASSUME NEW n \in Members
                 PROVE  /\ Len(egress[n]) <= Len(egress'[n])
                        /\ \A i \in 1 .. Len(egress[n]) : egress'[n][i] = egress[n][i]
      BY DEF EgressGrows
    <2>1. CASE n = m
      BY <2>1, <1>4, <1>7
    <2>2. CASE n # m
      BY <2>2, <1>5, <1>6
    <2> QED BY <2>1, <2>2
  <1>10. ASSUME NEW n \in Members, NEW i \in 1 .. Len(egress'[n])
         PROVE  i \in 1 .. Len(egress[n]) \/ egress'[n][i] = message
    <2>1. CASE n = m
      BY <2>1, <1>4, <1>7
    <2>2. CASE n # m
      BY <2>2, <1>6
    <2> QED BY <2>1, <2>2
  <1> QED BY <1>8, <1>9, <1>10

\* What a session becomes when the cluster decides on it.
LEMMA SetSessionStays ==
    ASSUME NEW id \in Nat \ {0}, NEW state \in {"challenged", "open", "closed"},
           NEW correlation \in IdOrNull, NEW challenges \in Nat, TypeOK,
           id <= Len(sessions) + 1,
           id <= Len(sessions) =>
              \/ sessions[id].state = "challenged"
              \/ state # "challenged" /\ correlation = sessions[id].correlation,
           SetSession(id, state, correlation, challenges)
    PROVE  /\ sessions' \in Seq(Sessions)
           /\ SessionsStay
           /\ id \in 1 .. Len(sessions')
           /\ sessions'[id].state = state /\ sessions'[id].correlation = correlation
  <1> DEFINE session == [state |-> state, correlation |-> correlation, challenges |-> challenges]
  <1>1. sessions \in Seq(Sessions) /\ session \in Sessions /\ Len(sessions) \in Nat
    BY DEF TypeOK, GatewayTypeOK, Sessions
  <1>2. session.state = state /\ session.correlation = correlation
    OBVIOUS
  <1>3. sessions' = IF id > Len(sessions) THEN Append(sessions, session)
                    ELSE [sessions EXCEPT ![id] = session]
    BY DEF SetSession
  <1> HIDE DEF session
  <1>4. CASE id > Len(sessions)
    <2>1. id = Len(sessions) + 1 /\ sessions' = Append(sessions, session)
      BY <1>1, <1>3, <1>4
    <2>2. /\ sessions' \in Seq(Sessions) /\ Len(sessions') = Len(sessions) + 1
          /\ sessions'[id] = session
          /\ \A s \in 1 .. Len(sessions) : sessions'[s] = sessions[s]
      BY <1>1, <2>1
    <2> QED BY <1>1, <1>2, <2>1, <2>2 DEF SessionsStay
  <1>5. CASE ~ (id > Len(sessions))
    <2>1. id \in 1 .. Len(sessions) /\ sessions' = [sessions EXCEPT ![id] = session]
      BY <1>1, <1>3, <1>5
    <2>2. /\ sessions' \in Seq(Sessions) /\ Len(sessions') = Len(sessions)
          /\ sessions'[id] = session
          /\ \A s \in 1 .. Len(sessions) : s # id => sessions'[s] = sessions[s]
      BY <1>1, <2>1
    <2> QED BY <1>1, <1>2, <2>1, <2>2 DEF SessionsStay
  <1> QED BY <1>4, <1>5

\* The invariant survives a step that leaves the client alone, lets the egress streams
\* grow by events that are true, and keeps what was decided of sessions.
LEMMA ClusterKeeps ==
    ASSUME IndInv, UNCHANGED <<clientVars, heard>>, GatewayTypeOK', EgressGrows,
           SessionsStay,
           \A m \in Members : \A i \in 1 .. Len(egress'[m]) :
              i \in 1 .. Len(egress[m]) \/ IsTrue(egress[m][i])'
    PROVE  IndInv'
  <1>1. \A m \in Members : Len(egress[m]) \in Nat /\ Len(egress'[m]) \in Nat
    BY DEF IndInv, TypeOK, GatewayTypeOK
  <1>2. \A m \in Members : position[m] \in Nat /\ position[m] <= Len(egress[m])
    BY DEF IndInv, TypeOK, PollerTypeOK
  <1>3. \A s, c : IsOpened(s, c) => IsOpened(s, c)'
    BY DEF SessionsStay, IsOpened
  <1>4. TypeOK'
    <2>1. PollerTypeOK'
      BY <1>1, <1>2 DEF IndInv, TypeOK, PollerTypeOK, clientVars, pollVars, EgressGrows
    <2>2. ConnectTypeOK'
      BY DEF IndInv, TypeOK, ConnectTypeOK, clientVars, connectVars, pollVars
    <2>3. HeardTypeOK'
      BY DEF IndInv, TypeOK, HeardTypeOK, clientVars, pollVars
    <2> QED BY <2>1, <2>2, <2>3 DEF TypeOK
  <1>5. OpenedInv'
    <2> SUFFICES ASSUME NEW m \in Members, NEW i \in 1 .. Len(egress'[m])
                 PROVE  IsTrue(egress[m][i])'
      BY DEF OpenedInv, IsTrue
    <2>1. CASE i \in 1 .. Len(egress[m])
      <3>1. egress'[m][i] = egress[m][i]
        BY <2>1 DEF EgressGrows
      <3>2. IsTrue(egress[m][i])
        BY <2>1 DEF IndInv, OpenedInv, IsTrue
      <3> QED BY <3>1, <3>2, <1>3 DEF IsTrue
    <2> QED BY <2>1
  <1>6. NotedInv'
    <2> SUFFICES ASSUME poller.image # NoImage, poller.code # "NULL_VALUE" PROVE NotedInv'
      BY DEF NotedInv, clientVars, pollVars
    <2>1. poller.image \in Members
      BY DEF IndInv, TypeOK, PollerTypeOK, ImageOrNull
    <2>2. PICK i \in 1 .. position[poller.image] :
             LET event == egress[poller.image][i]
             IN  /\ event.kind = "SessionEvent" /\ event.code = poller.code
                 /\ event.session = poller.session
                 /\ event.correlation = poller.correlation
      BY DEF IndInv, NotedInv
    <2>3. egress'[poller.image][i] = egress[poller.image][i]
      BY <1>1, <1>2, <2>1 DEF EgressGrows
    <2>4. poller.isPollComplete
      BY DEF IndInv, NotedInv
    <2> QED BY <2>2, <2>3, <2>4 DEF NotedInv, clientVars, pollVars
  <1>7. AcceptedInv'
    <2>1. CASE step \notin {"CONCLUDE_CONNECT", "DONE"}
      BY <2>1 DEF IndInv, AcceptedInv, clientVars, connectVars
    <2>2. CASE step \in {"CONCLUDE_CONNECT", "DONE"}
      <3>1. accepted.image \in Members
        BY <2>2 DEF IndInv, AcceptedInv
      <3>2. PICK i \in 1 .. position[accepted.image] :
               Opens(egress[accepted.image][i], accepted.session, correlationId)
        BY <2>2 DEF IndInv, AcceptedInv
      <3>3. egress'[accepted.image][i] = egress[accepted.image][i]
        BY <1>1, <1>2, <3>1 DEF EgressGrows
      <3> QED BY <2>2, <3>1, <3>2, <3>3 DEF IndInv, AcceptedInv, clientVars, connectVars,
                                           pollVars, Opens
    <2> QED BY <2>1, <2>2
  <1> QED BY <1>4, <1>5, <1>6, <1>7 DEF IndInv

\* What a request that is handled is for: a session to decide on, which is not decided.
LEMMA SessionOfRequest ==
    ASSUME IndInv, HandlesRequest, MayDecide(Request)
    PROVE  /\ Request \in Requests
           /\ SessionOf(Request) \in Nat \ {0}
           /\ SessionOf(Request) <= Len(sessions) + 1
           /\ SessionOf(Request) <= Len(sessions) =>
                 sessions[SessionOf(Request)].state = "challenged"
           /\ ChallengesOf(SessionOf(Request)) \in Nat
  <1>1. /\ ingress \in Seq(Requests) /\ handled \in 0 .. Len(ingress)
        /\ sessions \in Seq(Sessions) /\ Len(sessions) \in Nat
    BY DEF IndInv, TypeOK, GatewayTypeOK
  <1>2. Request \in Requests
    BY <1>1 DEF Request, HandlesRequest
  <1>3. /\ SessionOf(Request) \in Nat \ {0}
        /\ SessionOf(Request) <= Len(sessions) + 1
        /\ SessionOf(Request) <= Len(sessions) =>
              sessions[SessionOf(Request)].state = "challenged"
    BY <1>1 DEF MayDecide, SessionOf
  <1>4. ASSUME NEW id \in Nat \ {0} PROVE ChallengesOf(id) \in Nat
    <2>1. CASE id > Len(sessions)
      BY <2>1 DEF ChallengesOf
    <2>2. CASE ~ (id > Len(sessions))
      <3>1. sessions[id] \in Sessions
        BY <1>1, <2>2
      <3> QED BY <1>1, <2>2, <3>1 DEF ChallengesOf, Sessions
    <2> QED BY <2>1, <2>2
  <1> QED BY <1>2, <1>3, <1>4

\* The rest of the cluster's types when a request is handled.
LEMMA HandledTypes ==
    ASSUME IndInv, HandlesRequest, sessions' \in Seq(Sessions),
           egress' \in [Members -> Seq(EgressMessages)]
    PROVE  GatewayTypeOK'
  BY DEF IndInv, TypeOK, GatewayTypeOK, HandlesRequest

LEMMA TypeOfEvent ==
    ASSUME IndInv, NEW s \in IdOrNull, NEW c \in IdOrNull, NEW code \in EventCodes
    PROVE  /\ SessionEvent(s, c, code) \in EgressMessages
           /\ Challenge(s, c) \in EgressMessages
           /\ \A kind \in {"SessionMessage", "AdminResponse", "NewLeaderEvent"} :
                 Message(kind, s, c, code) \in EgressMessages
  BY DEF IndInv, TypeOK, GatewayTypeOK, SessionEvent, Challenge, Message, EgressMessages,
         EventCodes, Callbacks

\* The leader decides on the session of a request and sends word of it.
LEMMA DecisionInd ==
    ASSUME IndInv, HandlesRequest, MayDecide(Request), UNCHANGED <<clientVars, heard>>,
           NEW state \in {"challenged", "open", "closed"}, NEW challenges \in Nat,
           NEW message \in EgressMessages,
           SetSession(SessionOf(Request), state, Request.correlation, challenges),
           Send(leader, message),
           message.kind = "SessionEvent" /\ message.code = "OK" =>
              /\ state = "open" /\ message.session = SessionOf(Request)
              /\ message.correlation = Request.correlation
    PROVE  IndInv'
  <1>1. Request.correlation \in IdOrNull
    BY SessionOfRequest DEF Requests
  <1>2. TypeOK /\ leader \in Members
    BY DEF IndInv, TypeOK, GatewayTypeOK
  <1> DEFINE id == SessionOf(Request)
             c  == Request.correlation
  <1>3. id \in Nat \ {0} /\ id <= Len(sessions) + 1
    BY SessionOfRequest
  <1>4. id <= Len(sessions) => sessions[id].state = "challenged"
    BY SessionOfRequest
  <1> HIDE DEF id, c
  <1>5. /\ sessions' \in Seq(Sessions)
        /\ SessionsStay
        /\ id \in 1 .. Len(sessions')
        /\ sessions'[id].state = state /\ sessions'[id].correlation = c
    BY <1>1, <1>2, <1>3, <1>4, SetSessionStays DEF id, c
  <1>6. /\ egress' \in [Members -> Seq(EgressMessages)]
        /\ EgressGrows
        /\ \A n \in Members : \A i \in 1 .. Len(egress'[n]) :
              i \in 1 .. Len(egress[n]) \/ egress'[n][i] = message
    BY <1>2, SendGrows
  <1>7. GatewayTypeOK'
    BY <1>5, <1>6, HandledTypes
  <1>8. message.kind = "SessionEvent" /\ message.code = "OK" =>
            IsOpened(message.session, message.correlation)'
    BY <1>5 DEF IsOpened, id, c
  <1>9. \A m \in Members : \A i \in 1 .. Len(egress'[m]) :
            i \in 1 .. Len(egress[m]) \/ IsTrue(egress[m][i])'
    BY <1>6, <1>8 DEF IsTrue
  <1> QED BY <1>5, <1>6, <1>7, <1>9, ClusterKeeps

LEMMA RequestInd ==
    ASSUME IndInv, RequestNext, UNCHANGED <<clientVars, heard>>
    PROVE  IndInv'
  <1>1. leader \in Members
    BY DEF IndInv, TypeOK, GatewayTypeOK
  <1>2. SessionsStay \/ sessions' # sessions
    BY DEF SessionsStay
  <1>3. ASSUME NEW id, MayDecide(Request), HandlesRequest, id = SessionOf(Request)
        PROVE  /\ id \in IdOrNull /\ Request.correlation \in IdOrNull
               /\ ChallengesOf(id) \in Nat
    BY <1>3, SessionOfRequest DEF IdOrNull, Requests
  <1>4. CASE OpensSession
    <2> DEFINE id == SessionOf(Request)
    <2>1. /\ HandlesRequest /\ MayDecide(Request)
          /\ SetSession(id, "open", Request.correlation, ChallengesOf(id))
          /\ Send(leader, SessionEvent(id, Request.correlation, "OK"))
      BY <1>4 DEF OpensSession
    <2>2. SessionEvent(id, Request.correlation, "OK") \in EgressMessages
      BY <1>3, <2>1, TypeOfEvent DEF EventCodes
    <2>3. /\ SessionEvent(id, Request.correlation, "OK").session = id
          /\ SessionEvent(id, Request.correlation, "OK").correlation = Request.correlation
      BY DEF SessionEvent, Message
    <2>4. ChallengesOf(id) \in Nat
      BY <1>3, <2>1
    <2> QED BY <2>1, <2>2, <2>3, <2>4, DecisionInd
  <1>5. CASE ChallengesSession
    <2> DEFINE id == SessionOf(Request)
    <2>1. /\ HandlesRequest /\ MayDecide(Request)
          /\ SetSession(id, "challenged", Request.correlation, ChallengesOf(id) + 1)
          /\ Send(leader, Challenge(id, Request.correlation))
      BY <1>5 DEF ChallengesSession
    <2>2. Challenge(id, Request.correlation) \in EgressMessages
      BY <1>3, <2>1, TypeOfEvent DEF EventCodes
    <2>3. Challenge(id, Request.correlation).kind # "SessionEvent"
      BY DEF Challenge, Message
    <2>4. ChallengesOf(id) + 1 \in Nat
      BY <1>3, <2>1
    <2> QED BY <2>1, <2>2, <2>3, <2>4, DecisionInd
  <1>6. CASE RejectsSession
    <2> DEFINE id == SessionOf(Request)
    <2>1. PICK code \in {"ERROR", "AUTHENTICATION_REJECTED"} :
             /\ HandlesRequest /\ MayDecide(Request)
             /\ SetSession(id, "closed", Request.correlation, ChallengesOf(id))
             /\ Send(leader, SessionEvent(id, Request.correlation, code))
      BY <1>6 DEF RejectsSession
    <2>2. SessionEvent(id, Request.correlation, code) \in EgressMessages
      BY <1>3, <2>1, TypeOfEvent DEF EventCodes
    <2>3. SessionEvent(id, Request.correlation, code).code # "OK"
      BY DEF SessionEvent, Message
    <2>4. ChallengesOf(id) \in Nat
      BY <1>3, <2>1
    <2> QED BY <2>1, <2>2, <2>3, <2>4, DecisionInd
  <1>7. CASE RedirectsRequest
    <2> DEFINE event(endpoints) == [SessionEvent(NullValue, Request.correlation, "REDIRECT")
                                       EXCEPT !.endpoints = endpoints]
    <2>1. PICK m \in Members \ {leader}, endpoints \in {{leader}, Members} :
             Send(m, event(endpoints))
      BY <1>7 DEF RedirectsRequest
    <2>2. Request \in Requests
      BY <1>7 DEF RedirectsRequest, HandlesRequest, Request, IndInv, TypeOK, GatewayTypeOK
    <2>3. event(endpoints) \in EgressMessages /\ event(endpoints).code = "REDIRECT"
      <3>1. SessionEvent(NullValue, Request.correlation, "REDIRECT") \in EgressMessages
        BY <2>2, TypeOfEvent DEF Requests, IdOrNull, EventCodes
      <3>2. SessionEvent(NullValue, Request.correlation, "REDIRECT").code = "REDIRECT"
        BY DEF SessionEvent, Message
      <3> QED BY <1>1, <3>1, <3>2 DEF EgressMessages
    <2> HIDE DEF event
    <2>4. /\ egress' \in [Members -> Seq(EgressMessages)] /\ EgressGrows
          /\ \A n \in Members : \A i \in 1 .. Len(egress'[n]) :
                i \in 1 .. Len(egress[n]) \/ egress'[n][i] = event(endpoints)
      BY <2>1, <2>3, SendGrows DEF IndInv
    <2>5. \A n \in Members : \A i \in 1 .. Len(egress'[n]) :
              i \in 1 .. Len(egress[n]) \/ IsTrue(egress[n][i])'
      BY <2>3, <2>4 DEF IsTrue
    <2>6. sessions' = sessions /\ HandlesRequest
      BY <1>7 DEF RedirectsRequest
    <2>7. GatewayTypeOK'
      BY <2>4, <2>6, HandledTypes DEF IndInv, TypeOK, GatewayTypeOK
    <2> QED BY <1>2, <2>4, <2>5, <2>6, <2>7, ClusterKeeps
  <1>8. CASE IgnoresRequest
    <2>1. HandlesRequest /\ sessions' = sessions /\ egress' = egress
      BY <1>8 DEF IgnoresRequest
    <2>2. egress \in [Members -> Seq(EgressMessages)] /\ sessions \in Seq(Sessions)
      BY DEF IndInv, TypeOK, GatewayTypeOK
    <2>3. GatewayTypeOK'
      BY <2>1, <2>2, HandledTypes
    <2>4. EgressGrows
      BY <2>1, <2>2 DEF EgressGrows
    <2> QED BY <1>2, <2>1, <2>3, <2>4, ClusterKeeps
  <1> QED BY <1>4, <1>5, <1>6, <1>7, <1>8 DEF RequestNext

LEMMA UnaskedTypes ==
    ASSUME IndInv, SendsUnasked, leader' \in Members, term' \in Nat,
           sessions' \in Seq(Sessions), egress' \in [Members -> Seq(EgressMessages)]
    PROVE  GatewayTypeOK'
  <1>1. MaxTraffic \in Nat
    BY GatewayAssumption
  <1> QED BY <1>1 DEF IndInv, TypeOK, GatewayTypeOK, SendsUnasked

\* One more message that is not an OK event, or is one of another client.
LEMMA UnaskedInd ==
    ASSUME IndInv, SendsUnasked, leader' \in Members, term' \in Nat,
           sessions' \in Seq(Sessions), SessionsStay, UNCHANGED <<clientVars, heard>>,
           NEW m \in Members, NEW message \in EgressMessages, Send(m, message),
           message.kind = "SessionEvent" /\ message.code = "OK" => message.correlation = 0
    PROVE  IndInv'
  <1>1. /\ egress' \in [Members -> Seq(EgressMessages)]
        /\ EgressGrows
        /\ \A n \in Members : \A i \in 1 .. Len(egress'[n]) :
              i \in 1 .. Len(egress[n]) \/ egress'[n][i] = message
    BY SendGrows DEF IndInv
  <1>2. GatewayTypeOK'
    BY <1>1, UnaskedTypes
  <1>3. \A n \in Members : \A i \in 1 .. Len(egress'[n]) :
            i \in 1 .. Len(egress[n]) \/ IsTrue(egress[n][i])'
    BY <1>1 DEF IsTrue
  <1> QED BY <1>1, <1>2, <1>3, ClusterKeeps

LEMMA GatewayInd ==
    ASSUME IndInv, GatewayNext, UNCHANGED <<clientVars, heard>>
    PROVE  IndInv'
  <1>1. /\ leader \in Members /\ term \in Nat /\ sessions \in Seq(Sessions)
        /\ egress \in [Members -> Seq(EgressMessages)]
    BY DEF IndInv, TypeOK, GatewayTypeOK
  <1>2. sessions' = sessions => SessionsStay
    BY DEF SessionsStay
  <1>3. OpenSessions \subseteq Nat
    BY <1>1 DEF OpenSessions
  <1>4. CASE RequestNext
    BY <1>4, RequestInd
  <1>5. CASE SendsToSession
    <2>1. PICK s \in OpenSessions \cup {ForeignSession}, kind \in {"SessionMessage", "AdminResponse"} :
             Send(leader, Message(kind, s, NullValue, "NULL_VALUE"))
      BY <1>5 DEF SendsToSession
    <2>2. Message(kind, s, NullValue, "NULL_VALUE") \in EgressMessages
      BY <1>3, TypeOfEvent DEF IdOrNull, ForeignSession, EventCodes
    <2>3. Message(kind, s, NullValue, "NULL_VALUE").kind # "SessionEvent"
      BY DEF Message
    <2>4. SendsUnasked /\ UNCHANGED <<leader, term, sessions>>
      BY <1>5 DEF SendsToSession
    <2> QED BY <1>1, <1>2, <2>1, <2>2, <2>3, <2>4, UnaskedInd
  <1>6. CASE OpensForeignSession
    <2>1. /\ SendsUnasked /\ UNCHANGED <<leader, term, sessions>>
          /\ Send(leader, SessionEvent(ForeignSession, 0, "OK"))
      BY <1>6 DEF OpensForeignSession
    <2>2. SessionEvent(ForeignSession, 0, "OK") \in EgressMessages
      BY TypeOfEvent DEF IdOrNull, ForeignSession, EventCodes
    <2>3. SessionEvent(ForeignSession, 0, "OK").correlation = 0
      BY DEF SessionEvent, Message
    <2> QED BY <1>1, <1>2, <2>1, <2>2, <2>3, UnaskedInd
  <1>7. CASE ClosesSession
    <2>1. PICK s \in OpenSessions :
             /\ SetSession(s, "closed", sessions[s].correlation, sessions[s].challenges)
             /\ Send(leader, SessionEvent(s, sessions[s].correlation, "CLOSED"))
      BY <1>7 DEF ClosesSession
    <2>2. /\ s \in 1 .. Len(sessions) /\ s \in Nat \ {0} /\ s <= Len(sessions) + 1
          /\ sessions[s].correlation \in IdOrNull /\ sessions[s].challenges \in Nat
      <3>1. s \in 1 .. Len(sessions)
        BY DEF OpenSessions
      <3>2. Len(sessions) \in Nat
        BY <1>1
      <3>3. sessions[s] \in Sessions
        BY <1>1, <3>1
      <3> QED BY <3>1, <3>2, <3>3 DEF Sessions
    <2>3. sessions' \in Seq(Sessions) /\ SessionsStay
      BY <2>1, <2>2, SetSessionStays DEF IndInv
    <2>4. SessionEvent(s, sessions[s].correlation, "CLOSED") \in EgressMessages
      BY <2>2, TypeOfEvent DEF IdOrNull, EventCodes
    <2>5. SessionEvent(s, sessions[s].correlation, "CLOSED").code # "OK"
      BY DEF SessionEvent, Message
    <2>6. SendsUnasked /\ UNCHANGED <<leader, term>>
      BY <1>7 DEF ClosesSession
    <2> QED BY <1>1, <2>1, <2>3, <2>4, <2>5, <2>6, UnaskedInd
  <1>8. CASE ElectsLeader
    <2>1. /\ SendsUnasked /\ term' = term + 1 /\ leader' \in Members /\ sessions' = sessions
      BY <1>8 DEF ElectsLeader
    <2>2. CASE OpenSessions = {}
      <3>1. egress' = egress
        BY <1>8, <2>2 DEF ElectsLeader
      <3>2. GatewayTypeOK'
        BY <1>1, <2>1, <3>1, UnaskedTypes
      <3>3. EgressGrows
        BY <1>1, <3>1 DEF EgressGrows
      <3> QED BY <1>2, <2>1, <3>1, <3>2, <3>3, ClusterKeeps
    <2>3. CASE OpenSessions # {}
      <3> DEFINE event(s) == [Message("NewLeaderEvent", s, NullValue, "NULL_VALUE")
                                 EXCEPT !.term = term', !.leader = leader', !.endpoints = Members]
      <3>1. PICK s \in OpenSessions : Send(leader', event(s))
        BY <1>8, <2>3 DEF ElectsLeader
      <3>2. event(s) \in EgressMessages /\ event(s).kind = "NewLeaderEvent"
        <4>1. Message("NewLeaderEvent", s, NullValue, "NULL_VALUE") \in EgressMessages
          BY <1>3, TypeOfEvent DEF IdOrNull, EventCodes
        <4>2. Message("NewLeaderEvent", s, NullValue, "NULL_VALUE").kind = "NewLeaderEvent"
          BY DEF Message
        <4>3. term' \in Nat
          BY <1>1, <2>1
        <4> QED BY <2>1, <4>1, <4>2, <4>3 DEF EgressMessages
      <3> HIDE DEF event
      <3> QED BY <1>1, <1>2, <2>1, <3>1, <3>2, UnaskedInd
    <2> QED BY <2>2, <2>3
  <1>9. CASE ConnectsOrNot
    <2>1. GatewayTypeOK' /\ EgressGrows
      BY <1>1, <1>9 DEF IndInv, TypeOK, GatewayTypeOK, ConnectsOrNot, EgressGrows
    <2> QED BY <1>2, <1>9, <2>1, ClusterKeeps DEF ConnectsOrNot
  <1> QED BY <1>4, <1>5, <1>6, <1>7, <1>8, <1>9 DEF GatewayNext

-----------------------------------------------------------------------------
(* The client *)

LEMMA InitInd == Init => IndInv
  <1> SUFFICES ASSUME Init PROVE IndInv
    OBVIOUS
  <1>1. Members \subseteq Nat
    BY GatewayAssumption
  <1>2. \A m \in Members : egress[m] = <<>> /\ position[m] = 0
    BY DEF Init, GatewayInit, ConnectInit
  <1>3. \A m \in Members : Len(egress[m]) = 0
    BY <1>2
  <1>4. GatewayTypeOK
    <2>1. MaxTraffic \in Nat
      BY GatewayAssumption
    <2>2. egress \in [Members -> Seq(EgressMessages)]
      BY DEF Init, GatewayInit
    <2>3. ingress \in Seq(Requests) /\ sessions \in Seq(Sessions) /\ Len(ingress) = 0
      BY DEF Init, GatewayInit
    <2>4. /\ leader \in Members /\ term \in Nat /\ connected \in BOOLEAN
          /\ handled = 0 /\ traffic = 0
      BY DEF Init, GatewayInit
    <2>5. handled \in 0 .. Len(ingress) /\ traffic \in 0 .. MaxTraffic
      BY <2>1, <2>3, <2>4
    <2> QED BY <2>2, <2>3, <2>4, <2>5 DEF GatewayTypeOK
  <1>5. PollerTypeOK
    BY <1>1, <1>3 DEF Init, ConnectInit, PollerTypeOK, NoPoller, NotPolling, IdOrNull, ImageOrNull,
                      NoImage, NullValue, EventCodes
  <1>6. ConnectTypeOK
    BY DEF Init, ConnectInit, ConnectTypeOK, NoRequest, NoAnswerYet, NoCluster, IdOrNull,
           ImageOrNull, NoImage, NullValue, Steps
  <1>7. HeardTypeOK
    BY DEF Init, AdapterInit, HeardTypeOK
  <1>8. OpenedInv
    BY <1>3 DEF OpenedInv
  <1>9. NotedInv
    BY DEF Init, ConnectInit, NotedInv, NoPoller
  <1>10. AcceptedInv
    BY DEF Init, ConnectInit, AcceptedInv
  <1> QED BY <1>4, <1>5, <1>6, <1>7, <1>8, <1>9, <1>10 DEF IndInv, TypeOK

\* The invariant survives a step of the connect that reads nothing from the egress
\* streams and keeps what the poller has noted.
LEMMA ConnectKeeps ==
    ASSUME IndInv, UNCHANGED <<leader, term, handled, sessions, egress, traffic, connected>>,
           ingress' \in Seq(Requests), Len(ingress) <= Len(ingress'),
           UNCHANGED <<poller, fragments, position, heard>>,
           egressImages' \in {egressImages, NotPolling},
           ConnectTypeOK', AcceptedInv'
    PROVE  IndInv'
  <1>1. GatewayTypeOK'
    BY DEF IndInv, TypeOK, GatewayTypeOK
  <1>2. PollerTypeOK'
    BY DEF IndInv, TypeOK, PollerTypeOK
  <1>3. HeardTypeOK'
    BY DEF IndInv, TypeOK, HeardTypeOK
  <1>4. OpenedInv'
    BY DEF IndInv, OpenedInv, IsOpened
  <1>5. NotedInv'
    BY DEF IndInv, NotedInv
  <1> QED BY <1>1, <1>2, <1>3, <1>4, <1>5 DEF IndInv, TypeOK

\* A request that is prepared has a correlation id that no other client uses.
LEMMA PrepareInd ==
    ASSUME IndInv, NEW kind \in {"SessionConnectRequest", "ChallengeResponse"},
           NEW session \in IdOrNull, Prepare(kind, session),
           UNCHANGED <<ingressEndpoints, aeronCluster>>,
           ingressPublication' \in {"none", "open", "closed"},
           memberByIdMap' \subseteq Members,
           accepted' \in [session : IdOrNull, term : IdOrNull, leader : IdOrNull,
                          image : ImageOrNull]
    PROVE  ConnectTypeOK' /\ AcceptedInv'
  <1>1. nextCorrelationId \in Nat \ {0} /\ step' = "SEND_MESSAGE"
    BY DEF IndInv, TypeOK, ConnectTypeOK, Prepare
  <1>2. buffer' \in Requests
    BY <1>1 DEF Prepare, Requests, IdOrNull
  <1>3. ConnectTypeOK'
    BY <1>1, <1>2 DEF IndInv, TypeOK, ConnectTypeOK, Prepare, Steps
  <1>4. AcceptedInv'
    BY <1>1 DEF AcceptedInv, Prepare
  <1> QED BY <1>3, <1>4

\* The steps up to the offer, and those after the answer.
LEMMA ConnectInd ==
    ASSUME IndInv, UNCHANGED <<gatewayVars, heard>>,
           \/ CreateIngressPublications \/ RegistrationFails \/ AwaitPublicationConnected
           \/ SendMessageFails \/ ConcludeConnect \/ Close
    PROVE  IndInv'
  <1>1. /\ UNCHANGED <<leader, term, handled, sessions, egress, traffic, connected>>
        /\ ingress' = ingress /\ ingress \in Seq(Requests) /\ Len(ingress) \in Nat
    BY DEF gatewayVars, IndInv, TypeOK, GatewayTypeOK
  <1>2. ConnectTypeOK /\ AcceptedInv
    BY DEF IndInv, TypeOK
  <1>3. CASE CreateIngressPublications
    <2>1. UNCHANGED <<poller, fragments, position, egressImages>>
      BY <1>3 DEF CreateIngressPublications, pollVars
    <2>2. ConnectTypeOK' /\ AcceptedInv'
      BY <1>2, <1>3 DEF CreateIngressPublications, ConnectTypeOK, AcceptedInv, Steps
    <2> QED BY <1>1, <2>1, <2>2, ConnectKeeps
  <1>4. CASE RegistrationFails
    <2>1. UNCHANGED <<poller, fragments, position, egressImages>>
      BY <1>4 DEF RegistrationFails, pollVars
    <2>2. ConnectTypeOK' /\ AcceptedInv'
      BY <1>2, <1>4 DEF RegistrationFails, ConnectTypeOK, AcceptedInv, Ended
    <2> QED BY <1>1, <2>1, <2>2, ConnectKeeps
  <1>5. CASE AwaitPublicationConnected
    <2>1. UNCHANGED <<poller, fragments, position, egressImages>>
      BY <1>5 DEF AwaitPublicationConnected, pollVars
    <2>2. Prepare("SessionConnectRequest", NullValue) /\ NullValue \in IdOrNull
      BY <1>5 DEF AwaitPublicationConnected, IdOrNull
    <2>3. /\ ingressPublication' \in {"none", "open", "closed"}
          /\ memberByIdMap' \subseteq Members
          /\ UNCHANGED <<ingressEndpoints, aeronCluster>>
          /\ accepted' \in [session : IdOrNull, term : IdOrNull, leader : IdOrNull,
                             image : ImageOrNull]
      BY <1>2, <1>5 DEF AwaitPublicationConnected, ConnectTypeOK
    <2>4. ConnectTypeOK' /\ AcceptedInv'
      BY <2>2, <2>3, PrepareInd
    <2> QED BY <1>1, <2>1, <2>4, ConnectKeeps
  <1>6. CASE SendMessageFails
    <2>1. UNCHANGED <<poller, fragments, position, egressImages>>
      BY <1>6 DEF SendMessageFails, pollVars
    <2>2. ConnectTypeOK' /\ AcceptedInv'
      BY <1>2, <1>6 DEF SendMessageFails, ConnectTypeOK, AcceptedInv, Ended
    <2> QED BY <1>1, <2>1, <2>2, ConnectKeeps
  <1>7. CASE ConcludeConnect
    <2>1. UNCHANGED <<poller, fragments, position, egressImages>>
      BY <1>7 DEF ConcludeConnect, pollVars
    <2>2. ConnectTypeOK'
      BY <1>2, <1>7 DEF ConcludeConnect, ConnectTypeOK, Ended
    <2>3. AcceptedInv'
      BY <1>1, <1>2, <1>7, <2>1 DEF ConcludeConnect, AcceptedInv, At, Opens
    <2> QED BY <1>1, <2>1, <2>2, <2>3, ConnectKeeps
  <1>8. CASE Close
    <2>1. UNCHANGED <<poller, fragments, position, egressImages>>
      BY <1>8 DEF Close, pollVars
    <2>2. ConnectTypeOK' /\ AcceptedInv'
      BY <1>2, <1>8 DEF Close, ConnectTypeOK, AcceptedInv, Ended
    <2> QED BY <1>1, <2>1, <2>2, ConnectKeeps
  <1> QED BY <1>3, <1>4, <1>5, <1>6, <1>7, <1>8

\* The offer of a request.
LEMMA SendMessageInd ==
    ASSUME IndInv, SendMessage,
           UNCHANGED <<leader, term, handled, sessions, egress, traffic, connected, heard>>
    PROVE  IndInv'
  <1>1. ConnectTypeOK /\ AcceptedInv /\ ingress \in Seq(Requests) /\ step = "SEND_MESSAGE"
    BY DEF IndInv, TypeOK, GatewayTypeOK, SendMessage, OfferAccepted, At
  <1>2. ingress' = Append(ingress, buffer) /\ buffer \in Requests
    BY <1>1 DEF ConnectTypeOK, SendMessage, OfferAccepted
  <1>3. ingress' \in Seq(Requests) /\ Len(ingress') = Len(ingress) + 1 /\ Len(ingress) \in Nat
    BY <1>1, <1>2
  <1>4. UNCHANGED <<poller, fragments, position, egressImages>>
    BY DEF SendMessage, pollVars
  <1>5. ConnectTypeOK' /\ AcceptedInv'
    BY <1>1 DEF SendMessage, OfferAccepted, ConnectTypeOK, AcceptedInv, Steps
  <1> QED BY <1>3, <1>4, <1>5, ConnectKeeps

\* A poller whose memory nobody initialised.
LEMMA CreateEgressSubscriptionInd ==
    ASSUME IndInv, CreateEgressSubscription, UNCHANGED <<gatewayVars, heard>>
    PROVE  IndInv'
  <1>1. CorrelationInMemory \subseteq Int
    BY ConnectAssumption
  <1>2. PICK isPollComplete, isChallenged \in BOOLEAN,
             code \in EventCodes, c \in CorrelationInMemory :
          poller' = [NoPoller EXCEPT !.isPollComplete = isPollComplete,
                                     !.isChallenged = isChallenged,
                                     !.code = code, !.correlation = c]
    BY DEF CreateEgressSubscription
  <1>3. poller'.image = NoImage
    BY <1>2 DEF NoPoller
  <1>4. GatewayTypeOK' /\ HeardTypeOK' /\ OpenedInv'
    BY DEF IndInv, TypeOK, GatewayTypeOK, HeardTypeOK, OpenedInv, IsOpened, gatewayVars,
           CreateEgressSubscription
  <1>5. PollerTypeOK'
    BY <1>1, <1>2 DEF IndInv, TypeOK, PollerTypeOK, NoPoller, CreateEgressSubscription,
                      gatewayVars, IdOrNull, ImageOrNull
  <1>6. ConnectTypeOK' /\ AcceptedInv'
    BY DEF IndInv, TypeOK, ConnectTypeOK, AcceptedInv, CreateEgressSubscription, Steps
  <1>7. NotedInv'
    BY <1>3 DEF NotedInv
  <1> QED BY <1>4, <1>5, <1>6, <1>7 DEF IndInv, TypeOK

LEMMA StartPollInd ==
    ASSUME IndInv, StartPoll, UNCHANGED <<gatewayVars, heard>>
    PROVE  IndInv'
  <1>1. GatewayTypeOK' /\ HeardTypeOK' /\ OpenedInv'
    BY DEF IndInv, TypeOK, GatewayTypeOK, HeardTypeOK, OpenedInv, IsOpened, gatewayVars,
           StartPoll
  <1>2. PollerTypeOK'
    <2>1. /\ egressImages' \in SUBSET Members /\ fragments' = 0
          /\ position' = position /\ egress' = egress
      BY DEF StartPoll, gatewayVars
    <2>2. poller' \in [isPollComplete : BOOLEAN, isChallenged : BOOLEAN, session : IdOrNull,
                       correlation : Int, term : IdOrNull, leader : IdOrNull,
                       code : EventCodes, endpoints : SUBSET Members, image : ImageOrNull]
      <3>1. poller \in [isPollComplete : BOOLEAN, isChallenged : BOOLEAN, session : IdOrNull,
                        correlation : Int, term : IdOrNull, leader : IdOrNull,
                        code : EventCodes, endpoints : SUBSET Members, image : ImageOrNull]
        BY DEF IndInv, TypeOK, PollerTypeOK
      <3>2. NullValue \in IdOrNull /\ NullValue \in Int /\ "NULL_VALUE" \in EventCodes
        BY DEF IdOrNull, NullValue, EventCodes
      <3>3. poller' \in {poller, [poller EXCEPT !.isPollComplete = FALSE, !.session = NullValue,
                                     !.correlation = NullValue, !.term = NullValue,
                                     !.leader = NullValue, !.code = "NULL_VALUE"]}
        BY DEF StartPoll
      <3> QED BY <3>1, <3>2, <3>3
    <2> QED BY <2>1, <2>2 DEF IndInv, TypeOK, PollerTypeOK
  <1>3. ConnectTypeOK' /\ AcceptedInv'
    BY DEF IndInv, TypeOK, ConnectTypeOK, AcceptedInv, StartPoll, connectVars, gatewayVars
  <1>4. NotedInv'
    <2>1. CASE poller.isPollComplete
      <3>1. poller'.code = "NULL_VALUE"
        BY <2>1 DEF StartPoll, IndInv, TypeOK, PollerTypeOK
      <3> QED BY <3>1 DEF NotedInv
    <2>2. CASE ~ poller.isPollComplete
      BY <2>2 DEF StartPoll, IndInv, NotedInv, gatewayVars
    <2> QED BY <2>1, <2>2
  <1> QED BY <1>1, <1>2, <1>3, <1>4 DEF IndInv, TypeOK

\* What a poll notes of a message that completes it, or does not.
LEMMA NotedTypes ==
    ASSUME IndInv, NEW m \in Members, NEW message \in EgressMessages
    PROVE  /\ Noted(message, m) \in
                 [isPollComplete : BOOLEAN, isChallenged : BOOLEAN, session : IdOrNull,
                  correlation : Int, term : IdOrNull, leader : IdOrNull,
                  code : EventCodes, endpoints : SUBSET Members, image : ImageOrNull]
           /\ message.kind = "SessionEvent" =>
                 LET noted == Noted(message, m)
                 IN  /\ noted.isPollComplete /\ noted.image = m
                     /\ noted.code = message.code /\ noted.session = message.session
                     /\ noted.correlation = message.correlation
           /\ message.kind # "SessionEvent" =>
                 /\ Noted(message, m).image = poller.image
                 /\ Noted(message, m).code = poller.code
  <1>1. poller \in [isPollComplete : BOOLEAN, isChallenged : BOOLEAN, session : IdOrNull,
                    correlation : Int, term : IdOrNull, leader : IdOrNull,
                    code : EventCodes, endpoints : SUBSET Members, image : ImageOrNull]
    BY DEF IndInv, TypeOK, PollerTypeOK
  <1>2. /\ message.session \in IdOrNull /\ message.correlation \in Int
        /\ message.term \in IdOrNull /\ message.leader \in IdOrNull
        /\ message.code \in EventCodes /\ message.endpoints \in SUBSET Members
        /\ m \in ImageOrNull
    <2>1. Members \subseteq Nat
      BY GatewayAssumption
    <2>2. IdOrNull \subseteq Int /\ Nat \subseteq IdOrNull /\ Members \subseteq ImageOrNull
      BY DEF IdOrNull, NullValue, ImageOrNull
    <2>3. /\ message.session \in IdOrNull /\ message.correlation \in IdOrNull
          /\ message.term \in Nat /\ message.leader \in Members
          /\ message.code \in EventCodes /\ message.endpoints \in SUBSET Members
      BY DEF EgressMessages
    <2> QED BY <2>1, <2>2, <2>3
  <1>3. CASE message.kind = "SessionMessage"
    BY <1>1, <1>2, <1>3 DEF Noted
  <1>4. CASE message.kind = "SessionEvent"
    BY <1>1, <1>2, <1>4 DEF Noted
  <1>5. CASE message.kind = "NewLeaderEvent"
    BY <1>1, <1>2, <1>5 DEF Noted
  <1>6. CASE message.kind = "Challenge"
    BY <1>1, <1>2, <1>6 DEF Noted
  <1>7. CASE message.kind = "AdminResponse"
    BY <1>1, <1>7 DEF Noted
  <1> QED BY <1>3, <1>4, <1>5, <1>6, <1>7 DEF EgressMessages, Callbacks

\* A poll of one image; a complete poll notes nothing more.
LEMMA PollImageInd ==
    ASSUME IndInv, NEW m \in Members, PollImage(m), UNCHANGED <<gatewayVars, heard>>
    PROVE  IndInv'
  <1>1. PICK last \in position[m] .. Len(egress[m]) :
          /\ TakesUpTo(m, last)
          /\ position' = [position EXCEPT ![m] = last]
          /\ fragments' = fragments + (last - position[m])
          /\ poller' = IF last = position[m] THEN poller ELSE Noted(egress[m][last], m)
    BY DEF PollImage
  <1>2. /\ egress \in [Members -> Seq(EgressMessages)] /\ Len(egress[m]) \in Nat
        /\ position \in [Members -> Nat] /\ fragments \in Nat
        /\ position[m] <= Len(egress[m]) /\ egress' = egress /\ sessions' = sessions
    BY DEF IndInv, TypeOK, GatewayTypeOK, PollerTypeOK, gatewayVars
  <1>3. last \in Nat /\ last >= position[m] /\ last <= Len(egress[m])
    BY <1>1, <1>2
  <1>4. /\ position' \in [Members -> Nat] /\ position'[m] = last
        /\ \A n \in Members : position[n] <= position'[n] /\ position'[n] <= Len(egress[n])
    <2>1. \A n \in Members : position[n] \in Nat /\ position[n] <= Len(egress[n])
      BY DEF IndInv, TypeOK, PollerTypeOK
    <2> QED BY <1>1, <1>2, <1>3, <2>1
  <1>5. last # position[m] => egress[m][last] \in EgressMessages /\ last \in 1 .. position'[m]
    BY <1>2, <1>3, <1>4
  <1>6. GatewayTypeOK' /\ OpenedInv'
    BY DEF IndInv, TypeOK, GatewayTypeOK, OpenedInv, IsOpened, gatewayVars
  <1>7. HeardTypeOK'
    <2>1. heard \in Seq([image : Members, at : Nat]) /\ heard' = heard
      BY DEF IndInv, TypeOK, HeardTypeOK
    <2>2. ASSUME NEW k \in 1 .. Len(heard) PROVE heard[k].at \in 1 .. position'[heard[k].image]
      <3>1. heard[k] \in [image : Members, at : Nat]
        BY <2>1, ElementOfSeq
      <3>2. heard[k].image \in Members /\ heard[k].at \in Nat
        BY <3>1
      <3>3. heard[k].at \in 1 .. position[heard[k].image]
        BY DEF IndInv, TypeOK, HeardTypeOK
      <3>4. position[heard[k].image] <= position'[heard[k].image]
        BY <1>4, <3>2
      <3>5. position[heard[k].image] \in Nat /\ position'[heard[k].image] \in Nat
        BY <1>2, <1>4, <3>2
      <3> QED BY <3>2, <3>3, <3>4, <3>5
    <2> QED BY <2>1, <2>2 DEF HeardTypeOK
  <1>8. PollerTypeOK'
    <2>1. poller' \in [isPollComplete : BOOLEAN, isChallenged : BOOLEAN, session : IdOrNull,
                       correlation : Int, term : IdOrNull, leader : IdOrNull,
                       code : EventCodes, endpoints : SUBSET Members, image : ImageOrNull]
      BY <1>1, <1>5, NotedTypes DEF IndInv, TypeOK, PollerTypeOK
    <2>2. egressImages' \in SUBSET Members
      <3>1. m \in egressImages /\ egressImages' = egressImages \ {m}
        BY DEF PollImage
      <3>2. m \notin NotPolling
        BY GatewayAssumption DEF NotPolling, NullValue
      <3>3. egressImages \in (SUBSET Members) \cup {NotPolling}
        BY DEF IndInv, TypeOK, PollerTypeOK
      <3> QED BY <3>1, <3>2, <3>3
    <2>3. fragments' \in Nat
      <3>1. last - position[m] \in Nat
        BY <1>2, <1>3
      <3> QED BY <1>1, <1>2, <3>1
    <2> QED BY <1>2, <1>4, <2>1, <2>2, <2>3 DEF PollerTypeOK
  <1>9. ConnectTypeOK' /\ AcceptedInv'
    BY DEF IndInv, TypeOK, ConnectTypeOK, AcceptedInv, PollImage, connectVars
  <1>10. NotedInv'
    <2>1. CASE last = position[m]
      <3>1. poller' = poller /\ position' = position
        BY <1>1, <1>2, <2>1
      <3> QED BY <1>2, <3>1 DEF IndInv, NotedInv
    <2>2. CASE last # position[m]
      <3>1. ~ poller.isPollComplete
        BY <1>1, <2>2 DEF TakesUpTo
      <3>2. poller.image = NoImage \/ poller.code = "NULL_VALUE"
        BY <3>1 DEF IndInv, NotedInv
      <3> DEFINE message == egress[m][last]
      <3>3. poller' = Noted(message, m)
        BY <1>1, <2>2
      <3>4. message \in EgressMessages /\ last \in 1 .. position'[m]
        BY <1>5, <2>2
      <3> HIDE DEF message
      <3>5. CASE message.kind = "SessionEvent"
        <4>1. /\ poller'.isPollComplete /\ poller'.image = m
              /\ poller'.code = message.code /\ poller'.session = message.session
              /\ poller'.correlation = message.correlation
          BY <3>3, <3>4, <3>5, NotedTypes
        <4> QED BY <1>2, <3>4, <3>5, <4>1 DEF NotedInv, message
      <3>6. CASE message.kind # "SessionEvent"
        <4>1. poller'.image = poller.image /\ poller'.code = poller.code
          BY <3>3, <3>4, <3>6, NotedTypes
        <4> QED BY <3>2, <4>1 DEF NotedInv
      <3> QED BY <3>5, <3>6
    <2> QED BY <2>1, <2>2
  <1> QED BY <1>6, <1>7, <1>8, <1>9, <1>10 DEF IndInv, TypeOK

\* The answer that is accepted is an event of the shared stream with the correlation id
\* of the request.
LEMMA PollResponseInd ==
    ASSUME IndInv, PollResponse, UNCHANGED <<gatewayVars, heard>>
    PROVE  IndInv'
  <1>1. /\ UNCHANGED <<leader, term, handled, sessions, egress, traffic, connected>>
        /\ ingress' = ingress /\ ingress \in Seq(Requests) /\ Len(ingress) \in Nat
    BY DEF gatewayVars, IndInv, TypeOK, GatewayTypeOK
  <1>2. ConnectTypeOK /\ AcceptedInv /\ PollerTypeOK
    BY DEF IndInv, TypeOK
  <1>3. EndsPoll
    BY DEF PollResponse, NoAnswer, AnswerChallenge, AnswerOk, AnswerError, AnswerRedirect,
           AnswerNothing, Answer
  <1>4. /\ UNCHANGED <<poller, fragments, position, ingressEndpoints>>
        /\ egressImages' = NotPolling /\ step = "POLL_RESPONSE"
    BY <1>3 DEF EndsPoll
  <1>5. SUFFICES ConnectTypeOK' /\ AcceptedInv'
    BY <1>1, <1>4, ConnectKeeps
  <1>6. CASE NoAnswer \/ AnswerNothing
    <2>1. UNCHANGED connectVars
      BY <1>6 DEF NoAnswer, AnswerNothing
    <2> QED BY <1>2, <1>4, <2>1 DEF connectVars, ConnectTypeOK, AcceptedInv
  <1>7. CASE AnswerChallenge
    <2>1. poller.session \in IdOrNull
      BY <1>2 DEF PollerTypeOK
    <2>2. /\ accepted' = [accepted EXCEPT !.session = poller.session]
          /\ Prepare("ChallengeResponse", poller.session)
          /\ UNCHANGED <<ingressPublication, memberByIdMap, aeronCluster>>
      BY <1>7 DEF AnswerChallenge
    <2>3. accepted' \in [session : IdOrNull, term : IdOrNull, leader : IdOrNull,
                         image : ImageOrNull]
      BY <1>2, <2>1, <2>2 DEF ConnectTypeOK
    <2> QED BY <1>2, <1>4, <2>1, <2>2, <2>3, PrepareInd DEF ConnectTypeOK
  <1>8. CASE AnswerOk
    <2>1. poller.correlation = correlationId /\ poller.code = "OK"
      BY <1>8 DEF AnswerOk, Answer, IsAnswer
    <2>2. UNCHANGED <<ingressPublication, memberByIdMap, correlationId, nextCorrelationId,
                      buffer, aeronCluster>>
      BY <1>8 DEF AnswerOk
    <2>3. correlationId >= 1
      BY <1>2, <1>4 DEF AcceptedInv
    <2>4. CASE poller.image = NoImage
      <3>1. step' = "undefined" /\ accepted' = accepted
        BY <1>8, <2>4 DEF AnswerOk
      <3> QED BY <1>2, <1>4, <2>2, <3>1 DEF ConnectTypeOK, AcceptedInv, Ended
    <2>5. CASE poller.image # NoImage
      <3>1. /\ step' = "CONCLUDE_CONNECT"
            /\ accepted' = [session |-> poller.session, term |-> poller.leader,
                            leader |-> poller.leader, image |-> poller.image]
        BY <1>8, <2>5 DEF AnswerOk
      <3>2. poller.image \in Members
        BY <1>2, <2>5 DEF PollerTypeOK, ImageOrNull
      <3>3. \E i \in 1 .. position[poller.image] :
               Opens(egress[poller.image][i], poller.session, correlationId)
        BY <2>1, <2>5 DEF IndInv, NotedInv, Opens
      <3>4. accepted' \in [session : IdOrNull, term : IdOrNull, leader : IdOrNull,
                           image : ImageOrNull]
        BY <1>2, <3>1 DEF PollerTypeOK
      <3>5. ConnectTypeOK'
        BY <1>2, <1>4, <2>2, <3>1, <3>4 DEF ConnectTypeOK, Steps
      <3>6. AcceptedInv'
        BY <1>1, <1>4, <2>2, <2>3, <3>1, <3>2, <3>3 DEF AcceptedInv, Opens
      <3> QED BY <3>5, <3>6
    <2> QED BY <2>4, <2>5
  <1>9. CASE AnswerError
    BY <1>2, <1>4, <1>9 DEF AnswerError, ConnectTypeOK, AcceptedInv, Ended
  <1>10. CASE AnswerRedirect
    <2>1. accepted' \in [session : IdOrNull, term : IdOrNull, leader : IdOrNull,
                         image : ImageOrNull]
      BY <1>2, <1>10 DEF AnswerRedirect, ConnectTypeOK, PollerTypeOK
    <2>2. step' \in {"AWAIT_PUBLICATION_CONNECTED", "hung"} /\ memberByIdMap' \subseteq Members
      BY <1>2, <1>10 DEF AnswerRedirect, ConnectTypeOK
    <2> QED BY <1>2, <1>4, <1>10, <2>1, <2>2 DEF AnswerRedirect, ConnectTypeOK, AcceptedInv,
                                              Steps
  <1> QED BY <1>6, <1>7, <1>8, <1>9, <1>10 DEF PollResponse

LEMMA OnFragmentInd ==
    ASSUME IndInv, NEW m \in Members, OnFragment(m), UNCHANGED gatewayVars
    PROVE  IndInv'
  <1>1. /\ egress \in [Members -> Seq(EgressMessages)] /\ Len(egress[m]) \in Nat
        /\ position \in [Members -> Nat] /\ egress' = egress /\ sessions' = sessions
        /\ position[m] < Len(egress[m]) /\ position' = [position EXCEPT ![m] = position[m] + 1]
    BY DEF IndInv, TypeOK, GatewayTypeOK, PollerTypeOK, gatewayVars, OnFragment
  <1>2. /\ UNCHANGED <<ingressEndpoints, step, ingressPublication, memberByIdMap, correlationId,
                       nextCorrelationId, buffer, accepted, aeronCluster, poller, egressImages,
                       fragments>>
        /\ step = "DONE"
    BY DEF OnFragment, connectVars
  <1>3. /\ position' \in [Members -> Nat] /\ position'[m] = position[m] + 1
        /\ \A n \in Members : position[n] <= position'[n] /\ position'[n] <= Len(egress[n])
    <2>1. \A n \in Members : position[n] \in Nat /\ position[n] <= Len(egress[n])
      BY DEF IndInv, TypeOK, PollerTypeOK
    <2> QED BY <1>1, <2>1
  <1>4. GatewayTypeOK' /\ OpenedInv' /\ ConnectTypeOK'
    BY <1>2 DEF IndInv, TypeOK, GatewayTypeOK, OpenedInv, IsOpened, gatewayVars, ConnectTypeOK
  <1>5. PollerTypeOK'
    BY <1>1, <1>2, <1>3 DEF IndInv, TypeOK, PollerTypeOK
  <1>6. HeardTypeOK'
    <2> DEFINE entry == [image |-> m, at |-> position[m] + 1]
    <2>1. /\ heard \in Seq([image : Members, at : Nat]) /\ Len(heard) \in Nat
          /\ entry \in [image : Members, at : Nat] /\ entry.image = m
          /\ entry.at = position[m] + 1 /\ position[m] \in Nat
      BY <1>1 DEF IndInv, TypeOK, HeardTypeOK
    <2>2. heard' \in {heard, Append(heard, entry)}
      BY DEF OnFragment
    <2> HIDE DEF entry
    <2>3. ASSUME NEW k \in 1 .. Len(heard) PROVE heard[k].at \in 1 .. position'[heard[k].image]
      <3>1. heard[k] \in [image : Members, at : Nat]
        BY <2>1, ElementOfSeq
      <3>2. heard[k].image \in Members /\ heard[k].at \in Nat
        BY <3>1
      <3>3. heard[k].at \in 1 .. position[heard[k].image]
        BY DEF IndInv, TypeOK, HeardTypeOK
      <3>4. position[heard[k].image] <= position'[heard[k].image]
        BY <1>3, <3>2
      <3>5. position[heard[k].image] \in Nat /\ position'[heard[k].image] \in Nat
        BY <1>1, <1>3, <3>2
      <3> QED BY <3>2, <3>3, <3>4, <3>5
    <2>4. CASE heard' = heard
      BY <2>1, <2>3, <2>4 DEF HeardTypeOK
    <2>5. CASE heard' = Append(heard, entry)
      <3>1. /\ heard' \in Seq([image : Members, at : Nat]) /\ Len(heard') = Len(heard) + 1
            /\ \A k \in 1 .. Len(heard) : heard'[k] = heard[k]
            /\ heard'[Len(heard) + 1] = entry
        BY <2>1, <2>5
      <3>2. entry.at \in 1 .. position'[entry.image]
        BY <1>3, <2>1
      <3>3. ASSUME NEW k \in 1 .. Len(heard') PROVE heard'[k].at \in 1 .. position'[heard'[k].image]
        <4>1. CASE k \in 1 .. Len(heard)
          BY <2>3, <3>1, <4>1
        <4>2. CASE k = Len(heard) + 1
          BY <3>1, <3>2, <4>2
        <4> QED BY <2>1, <3>1, <4>1, <4>2
      <3> QED BY <3>1, <3>3 DEF HeardTypeOK
    <2> QED BY <2>2, <2>4, <2>5
  <1>7. ASSUME NEW n \in Members, NEW i \in 1 .. position[n] PROVE i \in 1 .. position'[n]
    BY <1>1, <1>3
  <1>8. NotedInv'
    <2> SUFFICES ASSUME poller.image # NoImage, poller.code # "NULL_VALUE" PROVE NotedInv'
      BY <1>2 DEF NotedInv
    <2>1. poller.image \in Members
      BY DEF IndInv, TypeOK, PollerTypeOK, ImageOrNull
    <2> QED BY <1>1, <1>2, <1>7, <2>1 DEF IndInv, NotedInv
  <1>9. AcceptedInv'
    <2>1. accepted.image \in Members
      BY <1>2 DEF IndInv, AcceptedInv
    <2>2. PICK i \in 1 .. position[accepted.image] :
             Opens(egress[accepted.image][i], accepted.session, correlationId)
      BY <1>2 DEF IndInv, AcceptedInv
    <2>3. i \in 1 .. position'[accepted.image]
      BY <1>7, <2>1, <2>2
    <2> QED BY <1>1, <1>2, <2>1, <2>2, <2>3 DEF IndInv, AcceptedInv, Opens
  <1> QED BY <1>4, <1>5, <1>6, <1>8, <1>9 DEF IndInv, TypeOK

-----------------------------------------------------------------------------
(* The client and the cluster *)

LEMMA StepInd == IndInv /\ [Next]_vars => IndInv'
  <1> SUFFICES ASSUME IndInv, [Next]_vars PROVE IndInv'
    OBVIOUS
  <1>1. CASE GatewayNext /\ UNCHANGED <<clientVars, heard>>
    BY <1>1, GatewayInd
  <1>2. CASE SendMessage /\ UNCHANGED <<leader, term, handled, sessions, egress, traffic,
                                       connected, heard>>
    BY <1>2, SendMessageInd
  <1>3. CASE (Poll \/ SendMessageFails) /\ UNCHANGED <<gatewayVars, heard>>
    <2>1. CASE CreateEgressSubscription
      BY <1>3, <2>1, CreateEgressSubscriptionInd
    <2>2. CASE \/ CreateIngressPublications \/ RegistrationFails
               \/ AwaitPublicationConnected \/ ConcludeConnect \/ SendMessageFails
      BY <1>3, <2>2, ConnectInd
    <2>3. CASE StartPoll
      BY <1>3, <2>3, StartPollInd
    <2>4. CASE \E m \in Members : PollImage(m)
      BY <1>3, <2>4, PollImageInd
    <2>5. CASE PollResponse
      BY <1>3, <2>5, PollResponseInd
    <2> QED BY <1>3, <2>1, <2>2, <2>3, <2>4, <2>5 DEF Poll
  <1>4. CASE Close /\ UNCHANGED <<gatewayVars, heard>>
    BY <1>4, ConnectInd
  <1>5. CASE (\E m \in Members : OnFragment(m)) /\ UNCHANGED gatewayVars
    BY <1>5, OnFragmentInd
  <1>6. CASE UNCHANGED vars
    <2>1. UNCHANGED <<clientVars, heard>> /\ UNCHANGED gatewayVars
      BY <1>6 DEF vars
    <2>2. GatewayTypeOK' /\ EgressGrows /\ SessionsStay
      BY <2>1 DEF gatewayVars, IndInv, TypeOK, GatewayTypeOK, EgressGrows, SessionsStay
    <2>3. egress' = egress
      BY <2>1 DEF gatewayVars
    <2> QED BY <2>1, <2>2, <2>3, ClusterKeeps
  <1> QED BY <1>1, <1>2, <1>3, <1>4, <1>5, <1>6 DEF Next, PollConnect

\* The inductive invariant of the connect: every OK event in a stream is of another
\* client or tells of a session that was opened for its correlation id, the poller's
\* fields are those of the event that completed its poll, and what the connect accepts
\* is such an event with the correlation id of its own request.
THEOREM ConnectInvariant == Spec => []IndInv
  BY InitInd, StepInd, PTL DEF Spec

\* The fields of the connect, its poller and its requests have the types that
\* AeronCluster.h and EgressPoller.h give them, and no image is read past its end.
THEOREM ConnectTypeCorrect == Spec => []TypeOK
  <1>1. IndInv => TypeOK
    BY DEF IndInv
  <1> QED BY <1>1, ConnectInvariant, PTL

\* pollResponse and concludeConnect make a client of the session which the cluster opened
\* for the request of that client, however many other clients' messages the shared egress
\* stream holds and however the images of the members are read.
THEOREM ConnectsToOwnSessionAlways == Spec => []ConnectsToOwnSession
  <1>1. IndInv => ConnectsToOwnSession
    <2> SUFFICES ASSUME IndInv, step = "DONE" PROVE ConnectsToOwnSession
      BY DEF ConnectsToOwnSession
    <2>1. /\ accepted.image \in Members /\ correlationId >= 1
          /\ aeronCluster.session = accepted.session /\ aeronCluster.image = accepted.image
      BY DEF IndInv, AcceptedInv
    <2>2. PICK i \in 1 .. position[accepted.image] :
             Opens(egress[accepted.image][i], accepted.session, correlationId)
      BY DEF IndInv, AcceptedInv
    <2>3. i \in 1 .. Len(egress[accepted.image])
      <3>1. egress[accepted.image] \in Seq(EgressMessages)
        BY <2>1 DEF IndInv, TypeOK, GatewayTypeOK
      <3>2. Len(egress[accepted.image]) \in Nat
        BY <3>1
      <3>3. position[accepted.image] \in Nat
        BY <2>1 DEF IndInv, TypeOK, PollerTypeOK
      <3>4. position[accepted.image] <= Len(egress[accepted.image])
        BY <2>1 DEF IndInv, TypeOK, PollerTypeOK
      <3> QED BY <2>2, <3>2, <3>3, <3>4
    <2>4. \/ egress[accepted.image][i].correlation = 0
          \/ IsOpened(egress[accepted.image][i].session, egress[accepted.image][i].correlation)
      BY <2>1, <2>2, <2>3 DEF IndInv, OpenedInv, Opens
    <2>5. IsOpened(accepted.session, correlationId)
      BY <2>1, <2>2, <2>4 DEF Opens
    <2> QED BY <2>1, <2>2, <2>5 DEF ConnectsToOwnSession, IsOpened, Opens
  <1> QED BY <1>1, ConnectInvariant, PTL

-----------------------------------------------------------------------------
(* That a request is answered before the next one *)

\* What memory held when the poller was made is no correlation id of this client.
NoIdInMemory == \A c \in CorrelationInMemory : c < 1

PositionsGrow == \A m \in Members : position[m] \in Nat /\ position'[m] \in Nat
                                    /\ position[m] <= position'[m]

\* What is answered stays so.
LEMMA StaysAnswered ==
    ASSUME IndInv, EgressGrows, PositionsGrow, NEW c, IsAnswered(c)
    PROVE  IsAnswered(c)'
  <1>1. PICK m \in Members : \E j \in 1 .. position[m] : egress[m][j].correlation = c
    BY DEF IsAnswered
  <1>2. PICK j \in 1 .. position[m] : egress[m][j].correlation = c
    BY <1>1
  <1>3. position[m] \in Nat /\ position[m] <= Len(egress[m]) /\ Len(egress[m]) \in Nat
    BY DEF IndInv, TypeOK, PollerTypeOK, GatewayTypeOK
  <1>4. j \in 1 .. Len(egress[m]) /\ j \in 1 .. position'[m]
    BY <1>3 DEF PositionsGrow
  <1>5. egress'[m][j].correlation = c
    BY <1>2, <1>4 DEF EgressGrows
  <1> QED BY <1>4, <1>5 DEF IsAnswered

\* A step that prepares and offers nothing.
LEMMA AnsweredKept ==
    ASSUME IndInv, AnsweredInv, EgressGrows, PositionsGrow, ingress' = ingress,
           poller'.correlation >= 1 =>
              poller'.correlation = poller.correlation \/ IsAnswered(poller.correlation)',
           \/ step' = step /\ UNCHANGED <<buffer, correlationId>>
           \/ step \in StepsBeforeOffer /\ step' \in StepsBeforeOffer \ {"SEND_MESSAGE"}
           \/ step' \notin StepsBeforeOffer \cup {"POLL_RESPONSE"}
    PROVE  AnsweredInv'
  <1>1. AnsweredBeforeNextRequest'
    <2>1. \A i \in 1 .. Len(ingress) - 1 : IsAnswered(ingress[i].correlation)'
      BY StaysAnswered DEF AnsweredInv, AnsweredBeforeNextRequest
    <2> QED BY <2>1 DEF AnsweredBeforeNextRequest, IsAnswered
  <1>2. poller'.correlation >= 1 => IsAnswered(poller.correlation)'
    BY StaysAnswered DEF AnsweredInv, IsAnswered
  <1>3. step' \in StepsBeforeOffer /\ ingress' # <<>> =>
           IsAnswered(ingress[Len(ingress)].correlation)'
    BY StaysAnswered DEF AnsweredInv, IsAnswered
  <1>4. step' = "SEND_MESSAGE" => buffer'.correlation = correlationId'
    BY DEF AnsweredInv, StepsBeforeOffer
  <1>5. step' = "POLL_RESPONSE" =>
           ingress' # <<>> /\ ingress'[Len(ingress')].correlation = correlationId'
    BY DEF AnsweredInv, StepsBeforeOffer
  <1> QED BY <1>1, <1>2, <1>3, <1>4, <1>5 DEF AnsweredInv

\* A step that prepares the next request, once the last one is answered.
LEMMA PrepareAnswered ==
    ASSUME IndInv, AnsweredInv, UNCHANGED <<egress, position, poller, ingress>>,
           NEW kind, NEW session, Prepare(kind, session),
           ingress # <<>> => IsAnswered(ingress[Len(ingress)].correlation)
    PROVE  AnsweredInv'
  <1>1. step' = "SEND_MESSAGE" /\ buffer'.correlation = correlationId'
    BY DEF Prepare
  <1>2. \A c : IsAnswered(c)' <=> IsAnswered(c)
    BY DEF IsAnswered
  <1> QED BY <1>1, <1>2 DEF AnsweredInv, AnsweredBeforeNextRequest

LEMMA Unmoved ==
    ASSUME IndInv
    PROVE  /\ egress' = egress => EgressGrows
           /\ position' = position => PositionsGrow
  <1>1. \A m \in Members : Len(egress[m]) \in Nat /\ position[m] \in Nat
    BY DEF IndInv, TypeOK, PollerTypeOK, GatewayTypeOK
  <1> QED BY <1>1 DEF EgressGrows, PositionsGrow

LEMMA SendOnlyGrows ==
    ASSUME IndInv, NEW m \in Members, NEW message, Send(m, message)
    PROVE  /\ EgressGrows
           /\ \A n \in Members : \A i \in 1 .. Len(egress'[n]) :
                 \/ i \in 1 .. Len(egress[n])
                 \/ i = Len(egress'[n]) /\ egress'[n][i] = message
           /\ \A n \in Members \ {m} : egress'[n] = egress[n]
  <1> DEFINE S == EgressMessages \cup {message}
  <1>1. egress \in [Members -> Seq(S)]
    BY DEF IndInv, TypeOK, GatewayTypeOK
  <1>2. egress' = [egress EXCEPT ![m] = Append(egress[m], message)] /\ message \in S
    BY DEF Send
  <1> HIDE DEF S
  <1>3. /\ Len(Append(egress[m], message)) = Len(egress[m]) + 1
        /\ \A i \in 1 .. Len(egress[m]) : Append(egress[m], message)[i] = egress[m][i]
        /\ Append(egress[m], message)[Len(egress[m]) + 1] = message
    BY <1>1, <1>2
  <1>4. \A n \in Members : Len(egress[n]) \in Nat
    BY <1>1
  <1>5. /\ egress'[m] = Append(egress[m], message)
        /\ \A n \in Members \ {m} : egress'[n] = egress[n]
    BY <1>1, <1>2
  <1>6. ASSUME NEW n \in Members
        PROVE  /\ Len(egress[n]) <= Len(egress'[n])
               /\ \A i \in 1 .. Len(egress[n]) : egress'[n][i] = egress[n][i]
               /\ \A i \in 1 .. Len(egress'[n]) :
                     \/ i \in 1 .. Len(egress[n])
                     \/ i = Len(egress'[n]) /\ egress'[n][i] = message
    <2>1. CASE n = m
      BY <1>3, <1>4, <1>5, <2>1
    <2>2. CASE n # m
      BY <1>4, <1>5, <2>2
    <2> QED BY <2>1, <2>2
  <1> QED BY <1>5, <1>6 DEF EgressGrows

\* A step of the cluster sends one message or none.
LEMMA GatewaySends ==
    ASSUME IndInv, GatewayNext
    PROVE  egress' = egress \/ \E m \in Members : \E message : Send(m, message)
  <1>1. leader \in Members
    BY DEF IndInv, TypeOK, GatewayTypeOK
  <1>2. CASE \/ OpensSession \/ ChallengesSession \/ RejectsSession
             \/ SendsToSession \/ OpensForeignSession \/ ClosesSession
    <2>1. \E message : Send(leader, message)
      BY <1>2 DEF OpensSession, ChallengesSession, RejectsSession, SendsToSession,
                  OpensForeignSession, ClosesSession
    <2> QED BY <1>1, <2>1
  <1>3. CASE RedirectsRequest
    BY <1>3 DEF RedirectsRequest
  <1>4. CASE IgnoresRequest \/ ConnectsOrNot
    BY <1>4 DEF IgnoresRequest, ConnectsOrNot
  <1>5. CASE ElectsLeader
    <2>1. leader' \in Members
      BY <1>5 DEF ElectsLeader
    <2>2. egress' = egress \/ \E message : Send(leader', message)
      BY <1>5 DEF ElectsLeader
    <2> QED BY <2>1, <2>2
  <1> QED BY <1>2, <1>3, <1>4, <1>5 DEF GatewayNext, RequestNext

\* The cluster only adds to its streams, and takes no request back.
LEMMA GatewayGrows ==
    ASSUME IndInv, GatewayNext
    PROVE  EgressGrows /\ ingress' = ingress
  <1>1. ingress' = ingress
    BY DEF GatewayNext, RequestNext, OpensSession, ChallengesSession, RejectsSession,
           RedirectsRequest, IgnoresRequest, HandlesRequest, SendsToSession,
           OpensForeignSession, ClosesSession, ElectsLeader, SendsUnasked, ConnectsOrNot
  <1>2. EgressGrows
    BY GatewaySends, SendOnlyGrows, Unmoved
  <1> QED BY <1>1, <1>2

LEMMA SendMessageAnswered ==
    ASSUME IndInv, AnsweredInv, SendMessage, egress' = egress
    PROVE  AnsweredInv'
  <1>1. /\ ingress' = Append(ingress, buffer) /\ step = "SEND_MESSAGE"
        /\ step' = "POLL_RESPONSE"
        /\ UNCHANGED <<buffer, correlationId, poller, position>>
    BY DEF SendMessage, OfferAccepted, At, pollVars
  <1>2. ingress \in Seq(Requests) /\ buffer \in Requests
    BY <1>1 DEF IndInv, TypeOK, GatewayTypeOK, ConnectTypeOK
  <1>3. /\ Len(ingress') = Len(ingress) + 1 /\ Len(ingress) \in Nat
        /\ ingress'[Len(ingress) + 1] = buffer /\ ingress' # <<>>
        /\ \A i \in 1 .. Len(ingress) : ingress'[i] = ingress[i]
        /\ ingress = <<>> <=> Len(ingress) = 0
    BY <1>1, <1>2
  <1>4. \A c : IsAnswered(c)' <=> IsAnswered(c)
    BY <1>1 DEF IsAnswered
  <1>5. ASSUME NEW i \in 1 .. Len(ingress') - 1 PROVE IsAnswered(ingress'[i].correlation)
    <2>1. i \in 1 .. Len(ingress) /\ ingress'[i] = ingress[i]
      BY <1>3
    <2>2. CASE i = Len(ingress)
      BY <1>1, <1>3, <2>1, <2>2 DEF AnsweredInv, StepsBeforeOffer
    <2>3. CASE i # Len(ingress)
      BY <1>3, <2>1, <2>3 DEF AnsweredInv, AnsweredBeforeNextRequest
    <2> QED BY <2>2, <2>3
  <1>6. AnsweredBeforeNextRequest'
    BY <1>4, <1>5 DEF AnsweredBeforeNextRequest
  <1>7. buffer.correlation = correlationId
    BY <1>1 DEF AnsweredInv
  <1> QED BY <1>1, <1>3, <1>4, <1>6, <1>7 DEF AnsweredInv, StepsBeforeOffer

LEMMA NotedCorrelation ==
    ASSUME IndInv, NEW m, NEW message \in EgressMessages
    PROVE  Noted(message, m).correlation \in {poller.correlation, message.correlation}
  <1>1. poller \in [isPollComplete : BOOLEAN, isChallenged : BOOLEAN, session : IdOrNull,
                    correlation : Int, term : IdOrNull, leader : IdOrNull,
                    code : EventCodes, endpoints : SUBSET Members, image : ImageOrNull]
    BY DEF IndInv, TypeOK, PollerTypeOK
  <1>2. CASE message.kind = "SessionMessage"
    BY <1>1, <1>2 DEF Noted
  <1>3. CASE message.kind = "SessionEvent"
    BY <1>1, <1>3 DEF Noted
  <1>4. CASE message.kind = "NewLeaderEvent"
    BY <1>1, <1>4 DEF Noted
  <1>5. CASE message.kind = "Challenge"
    BY <1>1, <1>5 DEF Noted
  <1>6. CASE message.kind = "AdminResponse"
    BY <1>6 DEF Noted
  <1> QED BY <1>2, <1>3, <1>4, <1>5, <1>6 DEF EgressMessages, Callbacks

\* What the poller notes has just been read.
LEMMA PollImageAnswered ==
    ASSUME IndInv, AnsweredInv, NEW m \in Members, PollImage(m),
           UNCHANGED <<gatewayVars, heard>>
    PROVE  AnsweredInv'
  <1>1. PICK last \in position[m] .. Len(egress[m]) :
          /\ position' = [position EXCEPT ![m] = last]
          /\ poller' = IF last = position[m] THEN poller ELSE Noted(egress[m][last], m)
    BY DEF PollImage
  <1>2. /\ egress \in [Members -> Seq(EgressMessages)] /\ Len(egress[m]) \in Nat
        /\ position \in [Members -> Nat] /\ position[m] <= Len(egress[m])
    BY DEF IndInv, TypeOK, GatewayTypeOK, PollerTypeOK
  <1>3. /\ egress' = egress /\ ingress' = ingress
        /\ step' = step /\ UNCHANGED <<buffer, correlationId>>
    BY DEF PollImage, connectVars, gatewayVars
  <1>4. EgressGrows
    BY <1>3, Unmoved
  <1>5. PositionsGrow /\ position'[m] = last
    BY <1>1, <1>2 DEF PositionsGrow
  <1>6. poller'.correlation = poller.correlation \/ IsAnswered(poller.correlation)'
    <2>1. CASE last = position[m]
      BY <1>1, <2>1
    <2>2. CASE last # position[m]
      <3> DEFINE message == egress[m][last]
      <3>1. last \in 1 .. Len(egress[m]) /\ last \in 1 .. position'[m]
        BY <1>2, <1>5, <2>2
      <3>2. message \in EgressMessages
        BY <1>2, <3>1
      <3>3. poller' = Noted(message, m)
        BY <1>1, <2>2
      <3>4. poller'.correlation \in {poller.correlation, message.correlation}
        BY <3>2, <3>3, NotedCorrelation
      <3>5. \E j \in 1 .. position'[m] : egress'[m][j].correlation = message.correlation
        BY <1>3, <3>1
      <3> QED BY <3>4, <3>5 DEF IsAnswered
    <2> QED BY <2>1, <2>2
  <1> QED BY <1>3, <1>4, <1>5, <1>6, AnsweredKept

\* The answers that lead to another request are answers to the last one.
LEMMA PollResponseAnswered ==
    ASSUME IndInv, AnsweredInv, PollResponse, UNCHANGED <<gatewayVars, heard>>
    PROVE  AnsweredInv'
  <1>1. EndsPoll
    BY DEF PollResponse, NoAnswer, AnswerChallenge, AnswerOk, AnswerError, AnswerRedirect,
           AnswerNothing, Answer
  <1>2. /\ step = "POLL_RESPONSE" /\ UNCHANGED <<poller, position>>
        /\ egress' = egress /\ ingress' = ingress
    BY <1>1 DEF EndsPoll, gatewayVars
  <1>3. EgressGrows /\ PositionsGrow
    BY <1>2, Unmoved
  <1>4. ingress # <<>> /\ ingress[Len(ingress)].correlation = correlationId
    BY <1>2 DEF AnsweredInv
  <1>5. IsAnswer => IsAnswered(ingress[Len(ingress)].correlation)
    <2>1. correlationId >= 1
      BY <1>2 DEF IndInv, AcceptedInv
    <2> QED BY <1>4, <2>1 DEF IsAnswer, AnsweredInv
  <1>6. CASE NoAnswer \/ AnswerNothing
    <2>1. step' = step /\ UNCHANGED <<buffer, correlationId>>
      BY <1>6 DEF NoAnswer, AnswerNothing, connectVars
    <2> QED BY <1>2, <1>3, <2>1, AnsweredKept
  <1>7. CASE AnswerChallenge
    <2>1. IsAnswer /\ Prepare("ChallengeResponse", poller.session)
      BY <1>7 DEF AnswerChallenge
    <2> QED BY <1>2, <1>5, <2>1, PrepareAnswered
  <1>8. CASE AnswerOk \/ AnswerError
    <2>1. step' \in {"undefined", "CONCLUDE_CONNECT", "failed"}
      BY <1>8 DEF AnswerOk, AnswerError
    <2> QED BY <1>2, <1>3, <2>1, AnsweredKept DEF StepsBeforeOffer
  <1>9. CASE AnswerRedirect
    <2>1. IsAnswer /\ step' \in {"AWAIT_PUBLICATION_CONNECTED", "hung"}
      BY <1>9 DEF AnswerRedirect, Answer
    <2>2. IsAnswered(ingress[Len(ingress)].correlation)'
      BY <1>2, <1>3, <1>5, <2>1, StaysAnswered DEF IsAnswered
    <2>3. AnsweredBeforeNextRequest' /\ (poller'.correlation >= 1 => IsAnswered(poller.correlation)')
      BY <1>2, <1>3, StaysAnswered DEF AnsweredInv, AnsweredBeforeNextRequest,
                                            IsAnswered
    <2> QED BY <2>1, <2>2, <2>3 DEF AnsweredInv
  <1> QED BY <1>6, <1>7, <1>8, <1>9 DEF PollResponse

\* The steps of a connect that neither read nor offer, and the end of it.
LEMMA ConnectAnswered ==
    ASSUME NoIdInMemory, IndInv, AnsweredInv, UNCHANGED <<gatewayVars, heard>>,
           \/ CreateEgressSubscription \/ CreateIngressPublications \/ RegistrationFails
           \/ AwaitPublicationConnected \/ StartPoll \/ SendMessageFails
           \/ ConcludeConnect \/ Close
    PROVE  AnsweredInv'
  <1>1. egress' = egress /\ ingress' = ingress
    BY DEF gatewayVars
  <1>2. position' = position
    BY DEF CreateEgressSubscription, CreateIngressPublications, RegistrationFails, pollVars,
           AwaitPublicationConnected, StartPoll, SendMessageFails, ConcludeConnect, Close
  <1>3. EgressGrows /\ PositionsGrow
    BY <1>1, <1>2, Unmoved
  <1>4. CASE CreateEgressSubscription
    <2>1. PICK isPollComplete, isChallenged \in BOOLEAN,
               code \in EventCodes, c \in CorrelationInMemory :
            poller' = [NoPoller EXCEPT !.isPollComplete = isPollComplete,
                                       !.isChallenged = isChallenged,
                                       !.code = code, !.correlation = c]
      BY <1>4 DEF CreateEgressSubscription
    <2>2. poller'.correlation = c
      BY <2>1 DEF NoPoller
    <2>3. ~ (poller'.correlation >= 1)
      BY <2>2, ConnectAssumption DEF NoIdInMemory
    <2>4. step \in StepsBeforeOffer /\ step' \in StepsBeforeOffer \ {"SEND_MESSAGE"}
      BY <1>4 DEF CreateEgressSubscription, At, StepsBeforeOffer
    <2> QED BY <1>1, <1>3, <2>3, <2>4, AnsweredKept
  <1>5. CASE CreateIngressPublications
    <2>1. /\ step \in StepsBeforeOffer /\ step' \in StepsBeforeOffer \ {"SEND_MESSAGE"}
          /\ poller' = poller
      BY <1>5 DEF CreateIngressPublications, At, StepsBeforeOffer, pollVars
    <2> QED BY <1>1, <1>3, <2>1, AnsweredKept
  <1>6. CASE RegistrationFails \/ SendMessageFails \/ ConcludeConnect \/ Close
    <2>1. step' \in {"failed", "DONE", "undefined", "closed"} /\ poller' = poller
      BY <1>6 DEF RegistrationFails, SendMessageFails, ConcludeConnect, Close, pollVars
    <2> QED BY <1>1, <1>3, <2>1, AnsweredKept DEF StepsBeforeOffer
  <1>7. CASE AwaitPublicationConnected
    <2>1. /\ step = "AWAIT_PUBLICATION_CONNECTED" /\ poller' = poller
          /\ Prepare("SessionConnectRequest", NullValue)
      BY <1>7 DEF AwaitPublicationConnected, At, pollVars
    <2>2. ingress # <<>> => IsAnswered(ingress[Len(ingress)].correlation)
      BY <2>1 DEF AnsweredInv, StepsBeforeOffer
    <2> QED BY <1>1, <1>2, <2>1, <2>2, PrepareAnswered
  <1>8. CASE StartPoll
    <2>1. step' = step /\ UNCHANGED <<buffer, correlationId>>
      BY <1>8 DEF StartPoll, connectVars
    <2>2. poller'.correlation \in {poller.correlation, NullValue}
      BY <1>8 DEF StartPoll, IndInv, TypeOK, PollerTypeOK
    <2>3. ~ (NullValue >= 1)
      BY DEF NullValue
    <2> QED BY <1>1, <1>3, <2>1, <2>2, <2>3, AnsweredKept
  <1> QED BY <1>4, <1>5, <1>6, <1>7, <1>8

LEMMA AnsweredInd ==
    ASSUME NoIdInMemory, IndInv, AnsweredInv, [Next]_vars
    PROVE  AnsweredInv'
  <1>1. CASE GatewayNext /\ UNCHANGED <<clientVars, heard>>
    <2>1. step' = step /\ UNCHANGED <<poller, position, buffer, correlationId>>
      BY <1>1 DEF clientVars, connectVars, pollVars
    <2> QED BY <1>1, <2>1, GatewayGrows, Unmoved, AnsweredKept
  <1>2. CASE SendMessage /\ UNCHANGED <<leader, term, handled, sessions, egress, traffic,
                                       connected, heard>>
    BY <1>2, SendMessageAnswered
  <1>3. CASE (Poll \/ SendMessageFails) /\ UNCHANGED <<gatewayVars, heard>>
    <2>1. CASE \E m \in Members : PollImage(m)
      BY <1>3, <2>1, PollImageAnswered
    <2>2. CASE PollResponse
      BY <1>3, <2>2, PollResponseAnswered
    <2> QED BY <1>3, <2>1, <2>2, ConnectAnswered DEF Poll
  <1>4. CASE Close /\ UNCHANGED <<gatewayVars, heard>>
    BY <1>4, ConnectAnswered
  <1>5. CASE (\E m \in Members : OnFragment(m)) /\ UNCHANGED gatewayVars
    <2>1. PICK m \in Members : OnFragment(m)
      BY <1>5
    <2>2. /\ position' = [position EXCEPT ![m] = position[m] + 1]
          /\ UNCHANGED <<step, buffer, correlationId, poller>>
      BY <2>1 DEF OnFragment, connectVars
    <2>3. PositionsGrow
      BY <2>2 DEF PositionsGrow, IndInv, TypeOK, PollerTypeOK
    <2>4. egress' = egress /\ ingress' = ingress
      BY <1>5 DEF gatewayVars
    <2> QED BY <2>2, <2>3, <2>4, Unmoved, AnsweredKept
  <1>6. CASE UNCHANGED vars
    <2>1. /\ UNCHANGED <<egress, ingress, position, poller, buffer, correlationId>>
          /\ step' = step
      BY <1>6 DEF vars, gatewayVars, clientVars, connectVars, pollVars
    <2> QED BY <2>1, Unmoved, AnsweredKept
  <1> QED BY <1>1, <1>2, <1>3, <1>4, <1>5, <1>6 DEF Next, PollConnect

\* Nothing is sent twice, nor on an answer to another client or to an older request: every
\* request but the first follows an answer to the one before it, through any number of
\* challenges and redirects.
THEOREM AnsweredBeforeNextRequestAlways ==
    NoIdInMemory => (Spec => []AnsweredBeforeNextRequest)
  <1> SUFFICES ASSUME NoIdInMemory PROVE Spec => []AnsweredBeforeNextRequest
    OBVIOUS
  <1>1. Init => AnsweredInv
    BY DEF Init, GatewayInit, ConnectInit, AnsweredInv, AnsweredBeforeNextRequest, NoPoller,
           NullValue
  <1>2. IndInv /\ AnsweredInv /\ [Next]_vars => AnsweredInv'
    BY AnsweredInd
  <1>3. AnsweredInv => AnsweredBeforeNextRequest
    BY DEF AnsweredInv
  <1> QED BY <1>1, <1>2, <1>3, ConnectInvariant, PTL DEF Spec

-----------------------------------------------------------------------------
(* That the session is heard: what the cluster sends *)

LEMMA StaysOpened ==
    ASSUME SessionsStay, NEW s, NEW c, IsOpened(s, c) PROVE IsOpened(s, c)'
  BY DEF SessionsStay, IsOpened

LEMMA OrderKept ==
    ASSUME OrderInv, SessionsStay, egress' = egress PROVE OrderInv'
  <1> SUFFICES ASSUME NEW m \in Members, NEW o \in 1 .. Len(egress[m]),
                      IsOk(egress[m][o]), egress[m][o].session # ForeignSession
               PROVE  IsOpened(egress[m][o].session, egress[m][o].correlation)'
    BY DEF OrderInv, IsOk
  <1>1. IsOpened(egress[m][o].session, egress[m][o].correlation)
    BY DEF OrderInv
  <1> QED BY <1>1 DEF SessionsStay, IsOpened

\* A message keeps the order if it is an OK event for a session that was not opened, or is
\* none and for a callback, or is for a session that has had no OK event yet.
LEMMA SendOrder ==
    ASSUME IndInv, OrderInv, SessionsStay,
           NEW m \in Members, NEW message, Send(m, message),
           IsOk(message) /\ message.session # ForeignSession =>
              IsOpened(message.session, message.correlation)',
           message.session # ForeignSession =>
              \/ message.kind \in Callbacks /\ ~ IsOk(message)
              \/ \A c : ~ IsOpened(message.session, c)
    PROVE  OrderInv'
  <1>1. /\ EgressGrows
        /\ \A n \in Members : \A i \in 1 .. Len(egress'[n]) :
              \/ i \in 1 .. Len(egress[n])
              \/ i = Len(egress'[n]) /\ egress'[n][i] = message
    BY SendOnlyGrows
  <1>2. \A n \in Members : Len(egress[n]) \in Nat
    BY DEF IndInv, TypeOK, GatewayTypeOK
  <1>3. \A n \in Members : Len(egress'[n]) \in Nat
    <2>1. egress \in [Members -> Seq(EgressMessages \cup {message})]
      BY DEF IndInv, TypeOK, GatewayTypeOK
    <2>2. Append(egress[m], message) \in Seq(EgressMessages \cup {message})
      BY <2>1
    <2>3. egress' \in [Members -> Seq(EgressMessages \cup {message})]
      BY <2>1, <2>2 DEF Send
    <2> QED BY <2>3
  <1> SUFFICES ASSUME NEW n \in Members, NEW o \in 1 .. Len(egress'[n]),
                      IsOk(egress'[n][o]), egress'[n][o].session # ForeignSession
               PROVE  /\ IsOpened(egress[n][o].session, egress[n][o].correlation)'
                      /\ \A i \in o + 1 .. Len(egress'[n]) :
                            egress'[n][i].session = egress'[n][o].session =>
                               egress'[n][i].kind \in Callbacks /\ ~ IsOk(egress'[n][i])
    BY DEF OrderInv, IsOk
  <1>4. CASE o \in 1 .. Len(egress[n])
    <2>1. egress'[n][o] = egress[n][o]
      BY <1>1, <1>4 DEF EgressGrows
    <2>2. IsOpened(egress[n][o].session, egress[n][o].correlation)
      BY <1>4, <2>1 DEF OrderInv
    <2>3. ASSUME NEW i \in o + 1 .. Len(egress'[n]),
                 egress'[n][i].session = egress'[n][o].session
          PROVE  egress'[n][i].kind \in Callbacks /\ ~ IsOk(egress'[n][i])
      <3>1. CASE i \in 1 .. Len(egress[n])
        <4>1. egress'[n][i] = egress[n][i] /\ i \in o + 1 .. Len(egress[n])
          BY <1>1, <1>2, <1>4, <3>1 DEF EgressGrows
        <4> QED BY <1>4, <2>1, <2>3, <4>1 DEF OrderInv
      <3>2. CASE egress'[n][i] = message
        BY <2>1, <2>2, <2>3, <3>2
      <3> QED BY <1>1, <1>2, <1>3, <1>4, <3>1, <3>2
    <2> QED BY <2>1, <2>2, <2>3 DEF SessionsStay, IsOpened
  <1>5. CASE o \notin 1 .. Len(egress[n])
    <2>1. o = Len(egress'[n]) /\ egress'[n][o] = message
      BY <1>1, <1>5
    <2>2. \A i \in o + 1 .. Len(egress'[n]) : FALSE
      BY <1>3, <2>1
    <2> QED BY <2>1, <2>2 DEF IsOpened
  <1> QED BY <1>4, <1>5

\* The leader's word on the session of a request.
LEMMA DecisionOrder ==
    ASSUME IndInv, OrderInv, HandlesRequest, MayDecide(Request),
           NEW state \in {"challenged", "open", "closed"}, NEW challenges \in Nat, NEW message,
           SetSession(SessionOf(Request), state, Request.correlation, challenges),
           Send(leader, message),
           message.session = SessionOf(Request), message.correlation = Request.correlation,
           IsOk(message) => state = "open"
    PROVE  OrderInv'
  <1> DEFINE id == SessionOf(Request)
             c  == Request.correlation
  <1>1. c \in IdOrNull
    BY SessionOfRequest DEF Requests
  <1>2. /\ id \in Nat \ {0} /\ id <= Len(sessions) + 1
        /\ id <= Len(sessions) => sessions[id].state = "challenged"
    BY SessionOfRequest
  <1>3. TypeOK /\ leader \in Members
    BY DEF IndInv, TypeOK, GatewayTypeOK
  <1> HIDE DEF id, c
  <1>4. /\ SessionsStay
        /\ id \in 1 .. Len(sessions') /\ sessions'[id].state = state
        /\ sessions'[id].correlation = c
    BY <1>1, <1>2, <1>3, SetSessionStays DEF id, c
  <1>5. IsOk(message) => IsOpened(message.session, message.correlation)'
    BY <1>4 DEF IsOpened, id, c
  <1>6. \A d : ~ IsOpened(message.session, d)
    BY <1>2 DEF IsOpened, id
  <1> QED BY <1>3, <1>4, <1>5, <1>6, SendOrder

LEMMA RequestOrder ==
    ASSUME IndInv, OrderInv, RequestNext
    PROVE  OrderInv'
  <1>1. leader \in Members
    BY DEF IndInv, TypeOK, GatewayTypeOK
  <1>2. sessions' = sessions => SessionsStay
    BY DEF SessionsStay
  <1>3. MayDecide(Request) /\ HandlesRequest => ChallengesOf(SessionOf(Request)) \in Nat
    BY SessionOfRequest
  <1> DEFINE id == SessionOf(Request)
             c  == Request.correlation
  <1>4. CASE OpensSession
    <2>1. /\ HandlesRequest /\ MayDecide(Request)
          /\ SetSession(id, "open", c, ChallengesOf(id))
          /\ Send(leader, SessionEvent(id, c, "OK"))
      BY <1>4 DEF OpensSession
    <2>2. SessionEvent(id, c, "OK").session = id /\ SessionEvent(id, c, "OK").correlation = c
      BY DEF SessionEvent, Message
    <2> QED BY <1>3, <2>1, <2>2, DecisionOrder
  <1>5. CASE ChallengesSession
    <2>1. /\ HandlesRequest /\ MayDecide(Request)
          /\ SetSession(id, "challenged", c, ChallengesOf(id) + 1)
          /\ Send(leader, Challenge(id, c))
      BY <1>5 DEF ChallengesSession
    <2>2. /\ Challenge(id, c).session = id /\ Challenge(id, c).correlation = c
          /\ ~ IsOk(Challenge(id, c))
      BY DEF Challenge, Message, IsOk
    <2>3. ChallengesOf(id) + 1 \in Nat
      BY <1>3, <2>1
    <2> QED BY <2>1, <2>2, <2>3, DecisionOrder
  <1>6. CASE RejectsSession
    <2>1. PICK code \in {"ERROR", "AUTHENTICATION_REJECTED"} :
             /\ HandlesRequest /\ MayDecide(Request)
             /\ SetSession(id, "closed", c, ChallengesOf(id))
             /\ Send(leader, SessionEvent(id, c, code))
      BY <1>6 DEF RejectsSession
    <2>2. /\ SessionEvent(id, c, code).session = id
          /\ SessionEvent(id, c, code).correlation = c
          /\ ~ IsOk(SessionEvent(id, c, code))
      BY DEF SessionEvent, Message, IsOk
    <2> QED BY <1>3, <2>1, <2>2, DecisionOrder
  <1>7. CASE RedirectsRequest
    <2> DEFINE event(endpoints) == [SessionEvent(NullValue, c, "REDIRECT")
                                       EXCEPT !.endpoints = endpoints]
    <2>1. PICK m \in Members \ {leader}, endpoints \in {{leader}, Members} :
             Send(m, event(endpoints))
      BY <1>7 DEF RedirectsRequest
    <2>2. event(endpoints).kind = "SessionEvent" /\ event(endpoints).code = "REDIRECT"
      BY DEF SessionEvent, Message
    <2>3. sessions' = sessions
      BY <1>7 DEF RedirectsRequest
    <2> HIDE DEF event
    <2>4. event(endpoints).kind \in Callbacks /\ ~ IsOk(event(endpoints))
      BY <2>2 DEF IsOk, Callbacks
    <2> QED BY <1>2, <2>1, <2>3, <2>4, SendOrder
  <1>8. CASE IgnoresRequest
    BY <1>2, <1>8, OrderKept DEF IgnoresRequest
  <1> QED BY <1>4, <1>5, <1>6, <1>7, <1>8 DEF RequestNext

LEMMA GatewayOrder ==
    ASSUME IndInv, OrderInv, GatewayNext
    PROVE  OrderInv'
  <1>1. leader \in Members /\ sessions \in Seq(Sessions)
    BY DEF IndInv, TypeOK, GatewayTypeOK
  <1>2. sessions' = sessions => SessionsStay
    BY DEF SessionsStay
  <1>3. CASE RequestNext
    BY <1>3, RequestOrder
  <1>4. CASE SendsToSession
    <2>1. PICK s \in OpenSessions \cup {ForeignSession}, kind \in {"SessionMessage", "AdminResponse"} :
             Send(leader, Message(kind, s, NullValue, "NULL_VALUE"))
      BY <1>4 DEF SendsToSession
    <2>2. LET message == Message(kind, s, NullValue, "NULL_VALUE")
          IN  message.kind \in Callbacks /\ ~ IsOk(message)
      BY DEF Message, Callbacks, IsOk
    <2>3. sessions' = sessions
      BY <1>4 DEF SendsToSession
    <2> QED BY <1>1, <1>2, <2>1, <2>2, <2>3, SendOrder
  <1>5. CASE OpensForeignSession
    <2>1. sessions' = sessions /\ Send(leader, SessionEvent(ForeignSession, 0, "OK"))
      BY <1>5 DEF OpensForeignSession
    <2>2. SessionEvent(ForeignSession, 0, "OK").session = ForeignSession
      BY DEF SessionEvent, Message
    <2> QED BY <1>1, <1>2, <2>1, <2>2, SendOrder
  <1>6. CASE ClosesSession
    <2>1. PICK s \in OpenSessions :
             /\ SetSession(s, "closed", sessions[s].correlation, sessions[s].challenges)
             /\ Send(leader, SessionEvent(s, sessions[s].correlation, "CLOSED"))
      BY <1>6 DEF ClosesSession
    <2>2. /\ s \in Nat \ {0} /\ s <= Len(sessions) + 1
          /\ sessions[s].correlation \in IdOrNull /\ sessions[s].challenges \in Nat
      <3>1. s \in 1 .. Len(sessions) /\ Len(sessions) \in Nat
        BY <1>1 DEF OpenSessions
      <3>2. sessions[s] \in Sessions
        BY <1>1, <3>1
      <3> QED BY <3>1, <3>2 DEF Sessions
    <2>3. SessionsStay
      BY <2>1, <2>2, SetSessionStays DEF IndInv
    <2>4. LET message == SessionEvent(s, sessions[s].correlation, "CLOSED")
          IN  message.kind \in Callbacks /\ ~ IsOk(message)
      BY DEF SessionEvent, Message, Callbacks, IsOk
    <2> QED BY <1>1, <2>1, <2>3, <2>4, SendOrder
  <1>7. CASE ElectsLeader
    <2>1. leader' \in Members /\ sessions' = sessions
      BY <1>7 DEF ElectsLeader
    <2>2. CASE egress' = egress
      BY <1>2, <2>1, <2>2, OrderKept
    <2>3. CASE egress' # egress
      <3> DEFINE event(s) == [Message("NewLeaderEvent", s, NullValue, "NULL_VALUE")
                                 EXCEPT !.term = term', !.leader = leader', !.endpoints = Members]
      <3>1. PICK s \in OpenSessions : Send(leader', event(s))
        BY <1>7, <2>3 DEF ElectsLeader
      <3>2. event(s).kind = "NewLeaderEvent"
        BY DEF Message
      <3> HIDE DEF event
      <3>3. event(s).kind \in Callbacks /\ ~ IsOk(event(s))
        BY <3>2 DEF Callbacks, IsOk
      <3> QED BY <1>2, <2>1, <3>1, <3>3, SendOrder
    <2> QED BY <2>2, <2>3
  <1>8. CASE ConnectsOrNot
    BY <1>2, <1>8, OrderKept DEF ConnectsOrNot
  <1> QED BY <1>3, <1>4, <1>5, <1>6, <1>7, <1>8 DEF GatewayNext

-----------------------------------------------------------------------------
(* That the session is heard: what the client reads *)

\* The session a connect accepts is one of this client's.
LEMMA OwnSession ==
    ASSUME IndInv, step \in {"CONCLUDE_CONNECT", "DONE"}
    PROVE  /\ accepted.image \in Members /\ accepted.session # ForeignSession
           /\ \E o \in 1 .. position[accepted.image] :
                 LET event == egress[accepted.image][o]
                 IN  /\ o \in 1 .. Len(egress[accepted.image])
                     /\ IsOk(event) /\ event.session = accepted.session
  <1>1. accepted.image \in Members /\ correlationId >= 1
    BY DEF IndInv, AcceptedInv
  <1>2. PICK o \in 1 .. position[accepted.image] :
           Opens(egress[accepted.image][o], accepted.session, correlationId)
    BY DEF IndInv, AcceptedInv
  <1>3. /\ position[accepted.image] \in Nat /\ Len(egress[accepted.image]) \in Nat
        /\ position[accepted.image] <= Len(egress[accepted.image])
    BY <1>1 DEF IndInv, TypeOK, PollerTypeOK, GatewayTypeOK
  <1>4. o \in 1 .. Len(egress[accepted.image])
    BY <1>3
  <1>5. IsOpened(accepted.session, correlationId)
    BY <1>1, <1>2, <1>4 DEF IndInv, OpenedInv, Opens
  <1> QED BY <1>1, <1>2, <1>4, <1>5 DEF Opens, IsOk, IsOpened, ForeignSession

\* A step of the cluster leaves what has been read as it is.
LEMMA GatewayListens ==
    ASSUME IndInv, ListenInv, GatewayNext, UNCHANGED <<clientVars, heard>>
    PROVE  ListenInv'
  <1>1. OrderInv' /\ EgressGrows
    BY GatewayOrder, GatewayGrows DEF ListenInv
  <1>2. \A m \in Members : /\ position[m] \in Nat /\ Len(egress[m]) \in Nat
                           /\ position[m] <= Len(egress[m])
    BY DEF IndInv, TypeOK, PollerTypeOK, GatewayTypeOK
  <1>3. \A m \in Members : \A i \in 1 .. position[m] : egress'[m][i] = egress[m][i]
    BY <1>1, <1>2 DEF EgressGrows
  <1>4. LastInv'
    <2>1. ASSUME step # "DONE", poller.image # NoImage, poller.code # "NULL_VALUE"
          PROVE  LET event == egress'[poller.image][position[poller.image]]
                 IN  /\ position[poller.image] >= 1
                     /\ event.kind = "SessionEvent"
                     /\ event.code = poller.code /\ event.session = poller.session
      <3>1. poller.image \in Members
        BY <2>1 DEF IndInv, TypeOK, PollerTypeOK, ImageOrNull
      <3> QED BY <1>2, <1>3, <2>1, <3>1 DEF ListenInv, LastInv
    <2>2. ASSUME step = "CONCLUDE_CONNECT"
          PROVE  LET event == egress'[accepted.image][position[accepted.image]]
                 IN  /\ position[accepted.image] >= 1
                     /\ IsOk(event) /\ event.session = accepted.session
      <3>1. accepted.image \in Members
        BY <2>2, OwnSession
      <3> QED BY <1>2, <1>3, <2>2, <3>1 DEF ListenInv, LastInv
    <2> QED BY <2>1, <2>2 DEF LastInv, IsOk, clientVars, connectVars, pollVars
  <1>5. HearsItsSession'
    <2> SUFFICES ASSUME step = "DONE" PROVE HearsItsSession'
      BY DEF HearsItsSession, clientVars, connectVars
    <2> DEFINE its == aeronCluster.image
    <2>1. its \in Members
      BY OwnSession DEF IndInv, AcceptedInv
    <2>2. \A k \in 1 .. Len(heard) :
             egress'[heard[k].image][heard[k].at] = egress[heard[k].image][heard[k].at]
      <3> SUFFICES ASSUME NEW k \in 1 .. Len(heard)
                   PROVE  egress'[heard[k].image][heard[k].at] = egress[heard[k].image][heard[k].at]
        OBVIOUS
      <3>1. heard[k] \in [image : Members, at : Nat]
        BY ElementOfSeq DEF IndInv, TypeOK, HeardTypeOK
      <3>2. heard[k].image \in Members /\ heard[k].at \in 1 .. position[heard[k].image]
        BY <3>1 DEF IndInv, TypeOK, HeardTypeOK
      <3> QED BY <1>3, <3>2
    <2>3. \A i \in 1 .. position[its] : i \in ItsMessages' <=> i \in ItsMessages
      <3> SUFFICES ASSUME NEW i \in 1 .. position[its]
                   PROVE  i \in ItsMessages' <=> i \in ItsMessages
        OBVIOUS
      <3>1. i \in 1 .. Len(egress[its]) /\ i \in 1 .. Len(egress'[its])
        <4>1. Len(egress[its]) <= Len(egress'[its]) /\ Len(egress'[its]) \in Nat
          BY <1>1, <2>1, GatewayInd DEF EgressGrows, IndInv, TypeOK, GatewayTypeOK
        <4> QED BY <1>2, <2>1, <4>1
      <3>2. \A o \in 1 .. i - 1 : egress'[its][o] = egress[its][o]
        BY <1>2, <1>3, <2>1
      <3>3. egress'[its][i] = egress[its][i]
        BY <1>3, <2>1
      <3>4. aeronCluster' = aeronCluster
        BY DEF clientVars, connectVars
      <3> QED BY <3>1, <3>2, <3>3, <3>4 DEF ItsMessages, IsOpening, IsOk
    <2>4. ItsMessages' \cap 1 .. position[its] = ItsMessages \cap 1 .. position[its]
      BY <2>3
    <2>5. UNCHANGED <<heard, aeronCluster, position, step>>
      BY DEF clientVars, connectVars, pollVars
    <2>6. HeardIn(its)' = HeardIn(its)
      BY <2>5 DEF HeardIn
    <2> QED BY <2>2, <2>4, <2>5, <2>6 DEF ListenInv, HearsItsSession
  <1> QED BY <1>1, <1>4, <1>5 DEF ListenInv, clientVars, connectVars

\* A step of a connect that is not over with it.
LEMMA ConnectListens ==
    ASSUME ListenInv, LastInv', step # "DONE", step' # "DONE",
           UNCHANGED <<egress, sessions, heard>>
    PROVE  ListenInv'
  <1>1. OrderInv'
    BY OrderKept DEF ListenInv, SessionsStay
  <1> QED BY <1>1 DEF ListenInv, HearsItsSession

\* The steps that neither poll nor accept an answer.
LEMMA OtherListens ==
    ASSUME ListenInv, UNCHANGED <<egress, sessions, heard, position>>,
           step # "DONE", step' \notin {"DONE", "CONCLUDE_CONNECT"},
           poller' = poller \/ poller'.image = NoImage \/ poller'.code = "NULL_VALUE"
    PROVE  ListenInv'
  <1>1. LastInv'
    BY DEF ListenInv, LastInv
  <1> QED BY <1>1, ConnectListens

LEMMA PollImageListens ==
    ASSUME IndInv, ListenInv, NEW m \in Members, PollImage(m),
           UNCHANGED <<gatewayVars, heard>>
    PROVE  ListenInv'
  <1>1. PICK last \in position[m] .. Len(egress[m]) :
          /\ TakesUpTo(m, last)
          /\ position' = [position EXCEPT ![m] = last]
          /\ poller' = IF last = position[m] THEN poller ELSE Noted(egress[m][last], m)
    BY DEF PollImage
  <1>2. /\ egress \in [Members -> Seq(EgressMessages)] /\ Len(egress[m]) \in Nat
        /\ position \in [Members -> Nat] /\ position[m] <= Len(egress[m])
    BY DEF IndInv, TypeOK, GatewayTypeOK, PollerTypeOK
  <1>3. /\ egress' = egress /\ sessions' = sessions /\ heard' = heard
        /\ step' = step /\ step = "POLL_RESPONSE"
    BY DEF PollImage, connectVars, gatewayVars
  <1>4. CASE last = position[m]
    <2>1. poller' = poller /\ position' = position
      BY <1>1, <1>2, <1>4
    <2> QED BY <1>3, <2>1, OtherListens
  <1>5. CASE last # position[m]
    <2>1. ~ poller.isPollComplete
      BY <1>1, <1>5 DEF TakesUpTo
    <2>2. poller.image = NoImage \/ poller.code = "NULL_VALUE"
      BY <2>1 DEF IndInv, NotedInv
    <2> DEFINE message == egress[m][last]
    <2>3. last \in 1 .. Len(egress[m]) /\ position'[m] = last
      BY <1>1, <1>2, <1>5
    <2>4. message \in EgressMessages /\ poller' = Noted(message, m)
      BY <1>1, <1>2, <1>5, <2>3
    <2> HIDE DEF message
    <2>5. LastInv'
      <3>1. CASE message.kind = "SessionEvent"
        <4>1. poller'.image = m /\ poller'.code = message.code /\ poller'.session = message.session
          BY <2>4, <3>1, NotedTypes
        <4> QED BY <1>3, <2>3, <3>1, <4>1 DEF LastInv, message
      <3>2. CASE message.kind # "SessionEvent"
        <4>1. poller'.image = poller.image /\ poller'.code = poller.code
          BY <2>4, <3>2, NotedTypes
        <4> QED BY <1>3, <2>2, <4>1 DEF LastInv
      <3> QED BY <3>1, <3>2
    <2> QED BY <1>3, <2>5, ConnectListens
  <1> QED BY <1>4, <1>5

LEMMA PollResponseListens ==
    ASSUME IndInv, ListenInv, PollResponse, UNCHANGED <<gatewayVars, heard>>
    PROVE  ListenInv'
  <1>1. EndsPoll
    BY DEF PollResponse, NoAnswer, AnswerChallenge, AnswerOk, AnswerError, AnswerRedirect,
           AnswerNothing, Answer
  <1>2. /\ step = "POLL_RESPONSE" /\ UNCHANGED <<poller, position>>
        /\ egress' = egress /\ sessions' = sessions /\ heard' = heard
    BY <1>1 DEF EndsPoll, gatewayVars
  <1>3. CASE ~ AnswerOk
    <2>1. step' \in {step, "SEND_MESSAGE", "failed", "AWAIT_PUBLICATION_CONNECTED", "hung"}
      BY <1>3 DEF PollResponse, NoAnswer, AnswerChallenge, Prepare, AnswerError, AnswerRedirect,
                  AnswerNothing, connectVars
    <2> QED BY <1>2, <2>1, OtherListens
  <1>4. CASE AnswerOk /\ poller.image = NoImage
    BY <1>2, <1>4, OtherListens DEF AnswerOk
  <1>5. CASE AnswerOk /\ poller.image # NoImage
    <2>1. /\ step' = "CONCLUDE_CONNECT" /\ poller.code = "OK"
          /\ accepted' = [session |-> poller.session, term |-> poller.leader,
                          leader |-> poller.leader, image |-> poller.image]
      BY <1>5 DEF AnswerOk, Answer
    <2>2. LastInv'
      BY <1>2, <1>5, <2>1 DEF ListenInv, LastInv, IsOk
    <2> QED BY <1>2, <2>1, <2>2, ConnectListens
  <1> QED BY <1>3, <1>4, <1>5

\* Nothing that was read of the image follows the OK event of the session.
LEMMA ConcludeListens ==
    ASSUME IndInv, ListenInv, ConcludeConnect, UNCHANGED <<gatewayVars, heard>>
    PROVE  ListenInv'
  <1>1. /\ step = "CONCLUDE_CONNECT" /\ step' = "DONE" /\ UNCHANGED <<poller, position>>
        /\ aeronCluster'.session = accepted.session /\ aeronCluster'.image = accepted.image
        /\ egress' = egress /\ sessions' = sessions /\ heard' = heard
    BY DEF ConcludeConnect, At, pollVars, gatewayVars
  <1> DEFINE its == accepted.image
             last == position[its]
             in == egress[its]
  <1>2. its \in Members /\ accepted.session # ForeignSession
    BY <1>1, OwnSession
  <1>3. last \in Nat /\ last <= Len(in) /\ Len(in) \in Nat
    BY <1>2 DEF IndInv, TypeOK, PollerTypeOK, GatewayTypeOK
  <1>4. last >= 1 /\ IsOk(in[last]) /\ in[last].session = accepted.session
    BY <1>1 DEF ListenInv, LastInv
  <1>5. \A o \in 1 .. last - 1 : ~ (IsOk(in[o]) /\ in[o].session = accepted.session)
    <2> SUFFICES ASSUME NEW o \in 1 .. last - 1, IsOk(in[o]),
                        in[o].session = accepted.session
                 PROVE  FALSE
      OBVIOUS
    <2>1. o \in 1 .. Len(in) /\ last \in o + 1 .. Len(in)
      BY <1>3
    <2> QED BY <1>2, <1>4, <2>1 DEF ListenInv, OrderInv
  <1>6. ItsMessages' \cap 1 .. last = {}
    <2> SUFFICES ASSUME NEW i \in 1 .. last, i \in ItsMessages' PROVE FALSE
      OBVIOUS
    <2>1. PICK o \in 1 .. i - 1 : IsOk(in[o]) /\ in[o].session = accepted.session
      BY <1>1 DEF ItsMessages, IsOpening, IsOk
    <2>2. o \in 1 .. last - 1
      BY <1>3
    <2> QED BY <1>5, <2>1, <2>2
  <1>7. heard' = <<>> /\ Len(heard') = 0
    BY <1>1 DEF ListenInv
  <1>8. HeardIn(its)' = {}
    BY <1>1, <1>7 DEF HeardIn
  <1>9. HearsItsSession'
    BY <1>1, <1>6, <1>7, <1>8 DEF HearsItsSession, HeardIn
  <1>10. OrderInv'
    BY <1>1, OrderKept DEF ListenInv, SessionsStay
  <1>11. LastInv'
    BY <1>1 DEF LastInv
  <1> QED BY <1>1, <1>9, <1>10, <1>11 DEF ListenInv

\* The listener reads one message on, and gives it to a callback if it is of the session.
LEMMA OnFragmentListens ==
    ASSUME IndInv, ListenInv, NEW m \in Members, OnFragment(m), UNCHANGED gatewayVars
    PROVE  ListenInv'
  <1> DEFINE its == aeronCluster.image
             next == position[m] + 1
             message == egress[m][next]
             entry == [image |-> m, at |-> next]
  <1>1. /\ step = "DONE" /\ step' = "DONE" /\ aeronCluster' = aeronCluster
        /\ egress' = egress /\ sessions' = sessions /\ poller' = poller
        /\ position[m] < Len(egress[m]) /\ position' = [position EXCEPT ![m] = next]
        /\ heard' = IF IsDispatched(message) THEN Append(heard, entry) ELSE heard
    BY DEF OnFragment, connectVars, gatewayVars
  <1>2. /\ position \in [Members -> Nat] /\ Len(egress[m]) \in Nat
        /\ heard \in Seq([image : Members, at : Nat])
        /\ \A k \in 1 .. Len(heard) : heard[k].at \in 1 .. position[heard[k].image]
    <2>1. position \in [Members -> Nat] /\ Len(egress[m]) \in Nat
      BY DEF IndInv, TypeOK, GatewayTypeOK, PollerTypeOK
    <2>2. HeardTypeOK
      BY DEF IndInv, TypeOK
    <2> QED BY <2>1, <2>2 DEF HeardTypeOK
  <1>3. /\ next \in 1 .. Len(egress[m]) /\ position'[m] = next
        /\ \A n \in Members \ {m} : position'[n] = position[n]
    BY <1>1, <1>2
  <1>4. /\ its \in Members /\ its = accepted.image
        /\ aeronCluster.session = accepted.session /\ accepted.session # ForeignSession
    BY <1>1, OwnSession DEF IndInv, AcceptedInv
  <1>5. OrderInv' /\ LastInv'
    BY <1>1, OrderKept DEF ListenInv, SessionsStay, LastInv
  <1>6. m = its => (next \in ItsMessages <=> IsDispatched(message))
    <2> SUFFICES ASSUME m = its PROVE next \in ItsMessages <=> IsDispatched(message)
      OBVIOUS
    <2>1. PICK o \in 1 .. position[its] :
             /\ o \in 1 .. Len(egress[its])
             /\ IsOk(egress[its][o]) /\ egress[its][o].session = aeronCluster.session
      BY <1>1, <1>4, OwnSession
    <2>2. o \in 1 .. next - 1 /\ next \in o + 1 .. Len(egress[its])
      BY <1>2, <1>3, <1>4
    <2>3. message.session = aeronCluster.session => message.kind \in Callbacks
      BY <1>4, <2>1, <2>2 DEF ListenInv, OrderInv
    <2>4. next \in ItsMessages <=> message.session = aeronCluster.session
      BY <1>3, <2>1, <2>2 DEF ItsMessages, IsOpening
    <2> QED BY <2>3, <2>4 DEF IsDispatched
  <1>7. /\ HeardIn(its) = ItsMessages \cap 1 .. position[its]
        /\ \A k \in 1 .. Len(heard) :
              egress[heard[k].image][heard[k].at].session = aeronCluster.session
        /\ \A k, l \in 1 .. Len(heard) :
              k < l /\ heard[k].image = heard[l].image => heard[k].at < heard[l].at
    BY <1>1 DEF ListenInv, HearsItsSession
  <1>8. ItsMessages' = ItsMessages
    BY <1>1 DEF ItsMessages, IsOpening
  <1>9. ItsMessages \cap 1 .. position'[its] =
           IF m = its /\ next \in ItsMessages THEN HeardIn(its) \cup {next} ELSE HeardIn(its)
    <2>1. CASE m = its
      <3>1. 1 .. position'[its] = 1 .. position[its] \cup {next}
        <4>1. position[its] \in Nat /\ position'[its] = position[its] + 1
          BY <1>2, <1>3, <1>4, <2>1
        <4>2. next = position[its] + 1
          BY <2>1
        <4> HIDE DEF next, its
        <4> QED BY <4>1, <4>2
      <3> QED BY <1>7, <2>1, <3>1
    <2>2. CASE m # its
      BY <1>3, <1>4, <1>7, <2>2
    <2> QED BY <2>1, <2>2
  <1>10. HearsItsSession'
    <2>1. CASE ~ IsDispatched(message)
      <3>1. heard' = heard
        BY <1>1, <2>1
      <3>2. HeardIn(its)' = HeardIn(its)
        BY <1>1, <3>1 DEF HeardIn
      <3>3. ItsMessages \cap 1 .. position'[its] = HeardIn(its)
        BY <1>6, <1>9, <2>1
      <3> QED BY <1>1, <1>7, <1>8, <3>1, <3>2, <3>3 DEF HearsItsSession
    <2>2. CASE IsDispatched(message)
      <3>1. heard' = Append(heard, entry) /\ entry \in [image : Members, at : Nat]
        BY <1>1, <1>3, <2>2
      <3>2. entry.image = m /\ entry.at = next
        OBVIOUS
      <3> HIDE DEF entry
      <3>3. /\ Len(heard) \in Nat /\ Len(heard') = Len(heard) + 1
            /\ \A k \in 1 .. Len(heard) : heard'[k] = heard[k]
            /\ heard'[Len(heard) + 1] = entry
        BY <1>2, <3>1
      <3>4. \A k \in 1 .. Len(heard') : k \in 1 .. Len(heard) \/ k = Len(heard) + 1
        BY <3>3
      <3>5. ASSUME NEW k \in 1 .. Len(heard')
            PROVE  egress[heard'[k].image][heard'[k].at].session = aeronCluster.session
        <4>1. CASE k \in 1 .. Len(heard)
          BY <1>7, <3>3, <4>1
        <4>2. CASE k = Len(heard) + 1
          BY <2>2, <3>2, <3>3, <4>2 DEF IsDispatched
        <4> QED BY <3>4, <4>1, <4>2
      <3>6. ASSUME NEW k \in 1 .. Len(heard'), NEW l \in 1 .. Len(heard'), k < l,
                   heard'[k].image = heard'[l].image
            PROVE  heard'[k].at < heard'[l].at
        <4>1. k \in 1 .. Len(heard) /\ heard'[k] = heard[k]
          BY <3>3, <3>6
        <4>2. CASE l \in 1 .. Len(heard)
          BY <1>7, <3>3, <3>6, <4>1, <4>2
        <4>3. CASE l = Len(heard) + 1
          <5>1. heard[k].image = m /\ heard[k].at \in 1 .. position[m]
            BY <1>2, <3>2, <3>3, <3>6, <4>1, <4>3
          <5>2. heard'[l].at = next
            BY <3>2, <3>3, <4>3
          <5> QED BY <1>2, <4>1, <5>1, <5>2
        <4> QED BY <3>4, <4>2, <4>3
      <3>7. HeardIn(its)' = IF m = its THEN HeardIn(its) \cup {next} ELSE HeardIn(its)
        <4>1. HeardIn(its)' = {heard'[k].at : k \in {l \in 1 .. Len(heard') : heard'[l].image = its}}
          BY <1>1 DEF HeardIn
        <4>2. \A x : x \in HeardIn(its)' <=>
                       \E k \in 1 .. Len(heard') : heard'[k].image = its /\ heard'[k].at = x
          BY <4>1
        <4>3. \A x : x \in HeardIn(its) <=>
                       \E k \in 1 .. Len(heard) : heard[k].image = its /\ heard[k].at = x
          BY DEF HeardIn
        <4>4. \A x : x \in HeardIn(its)' <=> x \in HeardIn(its) \/ (m = its /\ x = next)
          <5> SUFFICES ASSUME NEW x
                       PROVE  x \in HeardIn(its)' <=> x \in HeardIn(its) \/ (m = its /\ x = next)
            OBVIOUS
          <5>1. ASSUME x \in HeardIn(its)' PROVE x \in HeardIn(its) \/ (m = its /\ x = next)
            <6>1. PICK k \in 1 .. Len(heard') : heard'[k].image = its /\ heard'[k].at = x
              BY <4>2, <5>1
            <6> QED BY <3>2, <3>3, <3>4, <4>3, <6>1
          <5>2. ASSUME x \in HeardIn(its) PROVE x \in HeardIn(its)'
            <6>1. PICK k \in 1 .. Len(heard) : heard[k].image = its /\ heard[k].at = x
              BY <4>3, <5>2
            <6>2. k \in 1 .. Len(heard') /\ heard'[k] = heard[k]
              BY <3>3
            <6> QED BY <4>2, <6>1, <6>2
          <5>3. ASSUME m = its, x = next PROVE x \in HeardIn(its)'
            <6>1. Len(heard) + 1 \in 1 .. Len(heard')
              BY <3>3
            <6> QED BY <3>2, <3>3, <4>2, <5>3, <6>1
          <5> QED BY <5>1, <5>2, <5>3
        <4> QED BY <4>4
      <3>8. ItsMessages \cap 1 .. position'[its] = HeardIn(its)'
        BY <1>6, <1>9, <2>2, <3>7
      <3> QED BY <1>1, <1>8, <3>5, <3>6, <3>8 DEF HearsItsSession
    <2> QED BY <2>1, <2>2
  <1> QED BY <1>1, <1>5, <1>10 DEF ListenInv

LEMMA ListenInd ==
    ASSUME IndInv, ListenInv, [Next]_vars
    PROVE  ListenInv'
  <1>1. CASE GatewayNext /\ UNCHANGED <<clientVars, heard>>
    BY <1>1, GatewayListens
  <1>2. CASE SendMessage /\ UNCHANGED <<leader, term, handled, sessions, egress, traffic,
                                       connected, heard>>
    <2>1. step = "SEND_MESSAGE" /\ step' = "POLL_RESPONSE" /\ UNCHANGED <<poller, position>>
      BY <1>2 DEF SendMessage, OfferAccepted, At, pollVars
    <2> QED BY <1>2, <2>1, OtherListens
  <1>3. CASE (Poll \/ SendMessageFails) /\ UNCHANGED <<gatewayVars, heard>>
    <2>1. UNCHANGED <<egress, sessions, heard>>
      BY <1>3 DEF gatewayVars
    <2>2. CASE \E m \in Members : PollImage(m)
      BY <1>3, <2>2, PollImageListens
    <2>3. CASE PollResponse
      BY <1>3, <2>3, PollResponseListens
    <2>4. CASE ConcludeConnect
      BY <1>3, <2>4, ConcludeListens
    <2>5. CASE CreateEgressSubscription
      <3>1. poller'.image = NoImage /\ position' = position
        BY <2>5 DEF CreateEgressSubscription, NoPoller
      <3>2. step = "CREATE_EGRESS_SUBSCRIPTION" /\ step' = "CREATE_INGRESS_PUBLICATIONS"
        BY <2>5 DEF CreateEgressSubscription, At
      <3> QED BY <2>1, <3>1, <3>2, OtherListens
    <2>6. CASE CreateIngressPublications \/ RegistrationFails \/ SendMessageFails
               \/ AwaitPublicationConnected
      <3>1. /\ UNCHANGED <<poller, position>> /\ step # "DONE"
            /\ step' \in {"AWAIT_PUBLICATION_CONNECTED", "failed", "SEND_MESSAGE"}
        BY <2>6 DEF CreateIngressPublications, RegistrationFails, SendMessageFails,
                    AwaitPublicationConnected, Prepare, At, pollVars
      <3> QED BY <2>1, <3>1, OtherListens
    <2>7. CASE StartPoll
      <3>1. /\ step = "POLL_RESPONSE" /\ step' = step /\ position' = position
            /\ poller' = poller \/ poller'.code = "NULL_VALUE"
        BY <2>7 DEF StartPoll, At, connectVars, IndInv, TypeOK, PollerTypeOK
      <3> QED BY <2>1, <3>1, OtherListens
    <2> QED BY <1>3, <2>2, <2>3, <2>4, <2>5, <2>6, <2>7 DEF Poll
  <1>4. CASE Close /\ UNCHANGED <<gatewayVars, heard>>
    <2>1. /\ step # "DONE" /\ step' \in {"undefined", "closed"} /\ UNCHANGED <<poller, position>>
          /\ UNCHANGED <<egress, sessions, heard>>
      BY <1>4 DEF Close, Steps, pollVars, gatewayVars
    <2> QED BY <2>1, OtherListens
  <1>5. CASE (\E m \in Members : OnFragment(m)) /\ UNCHANGED gatewayVars
    BY <1>5, OnFragmentListens
  <1>6. CASE UNCHANGED vars
    BY <1>6 DEF vars, gatewayVars, clientVars, connectVars, pollVars, ListenInv, OrderInv,
                IsOpened, LastInv, HearsItsSession, HeardIn, ItsMessages, IsOpening
  <1> QED BY <1>1, <1>2, <1>3, <1>4, <1>5, <1>6 DEF Next, PollConnect

LEMMA ListenInvariant == Spec => []ListenInv
  <1>1. Init => ListenInv
    <2> SUFFICES ASSUME Init PROVE ListenInv
      OBVIOUS
    <2>1. \A m \in Members : Len(egress[m]) = 0
      BY DEF Init, GatewayInit
    <2>2. step = "CREATE_EGRESS_SUBSCRIPTION" /\ heard = <<>> /\ poller.image = NoImage
      BY DEF Init, ConnectInit, AdapterInit, NoPoller
    <2> QED BY <2>1, <2>2 DEF ListenInv, OrderInv, LastInv, HearsItsSession
  <1>2. IndInv /\ ListenInv /\ [Next]_vars => ListenInv'
    BY ListenInd
  <1> QED BY <1>1, <1>2, ConnectInvariant, PTL DEF Spec

\* The adapter shows the callbacks all that the image of its session holds for it, once
\* and in order, and nothing of other clients, although the connect has read the stream
\* up to its answer and members and other clients write to it at any time.
THEOREM HearsItsSessionAlways == Spec => []HearsItsSession
  <1>1. ListenInv => HearsItsSession
    BY DEF ListenInv
  <1> QED BY <1>1, ListenInvariant, PTL

-----------------------------------------------------------------------------
(* The refinement: what the client hears is a stream for its session *)

\* There is no client before the connect is done.
UnconnectedInv == step # "DONE" => aeronCluster = NoCluster

\* The two functions of the refinement, before a step and after it.
LEMMA StreamIs ==
    /\ step = "DONE" => /\ Sent = [m \in Members |-> Due(m)]
                        /\ Delivered = [m \in Members |-> HeardIn(m)]
    /\ step' = "DONE" => /\ Sent' = [m \in Members |-> Due(m)']
                         /\ Delivered' = [m \in Members |-> HeardIn(m)']
    /\ step # "DONE" => Sent = [m \in Members |-> {}] /\ Delivered = Sent
    /\ step' # "DONE" => Sent' = [m \in Members |-> {}] /\ Delivered' = Sent'
  BY DEF Sent, Delivered, WhenConnected, Due, HeardIn

\* What a client is that is not connected, and what it is afterwards.
LEMMA UntilDone ==
    ASSUME [Next]_vars, step # "DONE"
    PROVE  \/ ConcludeConnect /\ UNCHANGED <<gatewayVars, heard>>
           \/ step' # "DONE" /\ aeronCluster' = aeronCluster
  <1>1. CASE \/ GatewayNext /\ UNCHANGED <<clientVars, heard>>
             \/ UNCHANGED vars
    BY <1>1 DEF vars, clientVars, connectVars
  <1>2. CASE SendMessage \/ SendMessageFails \/ Close
    BY <1>2 DEF SendMessage, OfferAccepted, SendMessageFails, Close
  <1>3. CASE Poll /\ UNCHANGED <<gatewayVars, heard>>
    <2>1. CASE ConcludeConnect
      BY <1>3, <2>1
    <2>2. CASE \/ CreateEgressSubscription \/ CreateIngressPublications \/ RegistrationFails
               \/ AwaitPublicationConnected \/ StartPoll \/ \E m \in Members : PollImage(m)
      BY <2>2 DEF CreateEgressSubscription, CreateIngressPublications, RegistrationFails,
                  AwaitPublicationConnected, Prepare, StartPoll, PollImage, connectVars
    <2>3. CASE PollResponse
      BY <2>3 DEF PollResponse, NoAnswer, AnswerChallenge, Prepare, AnswerOk, AnswerError,
                  AnswerRedirect, AnswerNothing, connectVars
    <2> QED BY <1>3, <2>1, <2>2, <2>3 DEF Poll
  <1>4. ~ \E m \in Members : OnFragment(m)
    BY DEF OnFragment
  <1> QED BY <1>1, <1>2, <1>3, <1>4 DEF Next, PollConnect

LEMMA OnceDone ==
    ASSUME [Next]_vars, step = "DONE"
    PROVE  /\ step' = "DONE" /\ aeronCluster' = aeronCluster
           /\ \/ GatewayNext /\ UNCHANGED <<clientVars, heard>>
              \/ (\E m \in Members : OnFragment(m)) /\ UNCHANGED gatewayVars
              \/ UNCHANGED vars
  <1>1. ~ PollConnect
    BY DEF PollConnect, Poll, SendMessage, OfferAccepted, SendMessageFails, At,
           CreateEgressSubscription, CreateIngressPublications, RegistrationFails,
           AwaitPublicationConnected, StartPoll, PollImage, ConcludeConnect, PollResponse,
           NoAnswer, AnswerChallenge, AnswerOk, AnswerError, AnswerRedirect, AnswerNothing,
           Answer, EndsPoll
  <1>2. ~ Close
    BY DEF Close, Steps
  <1>3. (\E m \in Members : OnFragment(m)) => step' = "DONE" /\ aeronCluster' = aeronCluster
    BY DEF OnFragment, connectVars
  <1> QED BY <1>1, <1>2, <1>3 DEF Next, vars, clientVars, connectVars

\* What a connect accepts is a session that the cluster opened.
LEMMA SessionIsOpened ==
    ASSUME IndInv, step \in {"CONCLUDE_CONNECT", "DONE"}
    PROVE  /\ IsOpened(accepted.session, correlationId)
           /\ step = "DONE" => aeronCluster.session # NullValue
  <1>1. PICK o \in 1 .. position[accepted.image] :
           Opens(egress[accepted.image][o], accepted.session, correlationId)
    BY DEF IndInv, AcceptedInv
  <1>2. correlationId >= 1 /\ accepted.image \in Members
    BY DEF IndInv, AcceptedInv
  <1>3. o \in 1 .. Len(egress[accepted.image])
    <2>1. /\ position[accepted.image] \in Nat /\ Len(egress[accepted.image]) \in Nat
          /\ position[accepted.image] <= Len(egress[accepted.image])
      BY <1>2 DEF IndInv, TypeOK, PollerTypeOK, GatewayTypeOK
    <2> QED BY <2>1
  <1>4. IsOpened(accepted.session, correlationId)
    BY <1>1, <1>2, <1>3 DEF IndInv, OpenedInv, Opens
  <1> QED BY <1>4 DEF IsOpened, IndInv, AcceptedInv, NullValue

\* The session of a client is a session that the cluster opened, and no other follows.
LEMMA ConcludeOpens ==
    ASSUME IndInv, ListenInv, UnconnectedInv, ConcludeConnect,
           UNCHANGED <<gatewayVars, heard>>
    PROVE  Stream!Open
  <1>1. /\ step = "CONCLUDE_CONNECT" /\ step' = "DONE" /\ heard' = <<>>
        /\ aeronCluster'.session = accepted.session
        /\ aeronCluster.session = NullValue
    BY DEF ConcludeConnect, At, ListenInv, UnconnectedInv, NoCluster
  <1>2. accepted.session \in Nat
    BY <1>1, SessionIsOpened DEF IsOpened
  <1>3. Sent' \in [Members -> SUBSET Nat]
    <2>1. \A m \in Members : Len(egress'[m]) \in Nat
      BY DEF IndInv, TypeOK, GatewayTypeOK, gatewayVars
    <2>2. \A m \in Members : 1 .. Len(egress'[m]) \subseteq Nat
      BY <2>1
    <2> QED BY <1>1, <2>2, StreamIs DEF Due
  <1>4. Delivered' = [m \in Members |-> {}]
    <2>1. Len(heard') = 0
      BY <1>1
    <2>2. \A m \in Members : HeardIn(m)' = {}
      BY <2>1 DEF HeardIn
    <2> QED BY <1>1, <2>2, StreamIs DEF HeardIn
  <1> QED BY <1>1, <1>2, <1>3, <1>4 DEF Stream!Open

\* What is due of a member's messages may become one more, the last.
LEMMA DueGrows ==
    ASSUME IndInv, step = "DONE", UNCHANGED <<clientVars, heard>>, EgressGrows,
           NEW m \in Members, Len(egress'[m]) \in Nat,
           \A i \in 1 .. Len(egress'[m]) : i \in 1 .. Len(egress[m]) \/ i = Len(egress'[m])
    PROVE  \/ Sent'[m] = Sent[m]
           \/ \E new \in Nat : /\ Sent'[m] = Sent[m] \cup {new}
                               /\ \A j \in Sent[m] : j < new
  <1> DEFINE new == Len(egress'[m])
             size == Len(egress[m])
  <1>1. UNCHANGED <<step, aeronCluster, position, heard>>
    BY DEF clientVars, connectVars, pollVars
  <1>2. /\ Sent[m] = {i \in 1 .. size : i \in Sent[m]}
        /\ Sent'[m] = {i \in 1 .. new : i \in Sent'[m]}
    BY <1>1, StreamIs DEF Due
  <1>3. size \in Nat /\ size <= new
    BY DEF IndInv, TypeOK, GatewayTypeOK, EgressGrows
  <1>4. ASSUME NEW i \in 1 .. size PROVE i \in Sent'[m] <=> i \in Sent[m]
    <2>1. i \in 1 .. new
      BY <1>3
    <2>2. /\ egress'[m][i] = egress[m][i]
          /\ \A o \in 1 .. i - 1 : egress'[m][o] = egress[m][o]
      BY <1>3 DEF EgressGrows
    <2>3. Sent[m] = Due(m) /\ Sent'[m] = Due(m)'
      BY <1>1, StreamIs
    <2>4. HeardIn(m)' = HeardIn(m)
      BY <1>1 DEF HeardIn
    <2>5. i \in Sent[m] <=>
             /\ egress[m][i].kind \in Callbacks
             /\ egress[m][i].session = aeronCluster.session
             /\ \/ position[m] < i \/ i \in HeardIn(m)
                \/ m = aeronCluster.image
                   /\ \E o \in 1 .. i - 1 : IsOk(egress[m][o])
                                            /\ egress[m][o].session = aeronCluster.session
      BY <2>3 DEF Due, IsOpening
    <2>6. i \in Sent'[m] <=>
             /\ egress'[m][i].kind \in Callbacks
             /\ egress'[m][i].session = aeronCluster.session
             /\ \/ position[m] < i \/ i \in HeardIn(m)
                \/ m = aeronCluster.image
                   /\ \E o \in 1 .. i - 1 : IsOk(egress'[m][o])
                                            /\ egress'[m][o].session = aeronCluster.session
      BY <1>1, <2>1, <2>3, <2>4 DEF Due, IsOpening, IsOk, HeardIn
    <2> QED BY <2>2, <2>5, <2>6 DEF IsOk
  <1> HIDE DEF new, size
  <1>5. CASE new \in Sent'[m] \ Sent[m]
    <2>1. new \notin 1 .. size
      BY <1>4, <1>5
    <2>2. Sent'[m] = Sent[m] \cup {new}
      BY <1>2, <1>3, <1>4, <1>5 DEF new, size
    <2>3. new \in Nat /\ \A j \in Sent[m] : j < new
      BY <1>2, <1>3, <2>1 DEF new
    <2> QED BY <2>2, <2>3
  <1>6. CASE new \notin Sent'[m] \ Sent[m]
    <2>1. ASSUME NEW i PROVE i \in Sent'[m] <=> i \in Sent[m]
      <3>1. CASE i \in 1 .. size
        BY <1>4, <3>1
      <3>2. CASE i \notin 1 .. size
        <4>1. i \notin Sent[m]
          BY <1>2, <3>2
        <4>2. i \in Sent'[m] => i = new
          BY <1>2, <3>2 DEF new, size
        <4> QED BY <1>6, <4>1, <4>2
      <3> QED BY <3>1, <3>2
    <2> QED BY <2>1
  <1> QED BY <1>5, <1>6

\* The cluster sends the client its next message, or nothing.
LEMMA GatewayStream ==
    ASSUME IndInv, step = "DONE", GatewayNext, UNCHANGED <<clientVars, heard>>
    PROVE  (\E m \in Members : Stream!SendNext(m)) \/ UNCHANGED Stream!streamVars
  <1>1. UNCHANGED <<step, aeronCluster, position, heard>>
    BY DEF clientVars, connectVars, pollVars
  <1>2. Delivered' = Delivered
    BY <1>1 DEF Delivered, WhenConnected, HeardIn
  <1>3. CASE egress' = egress
    <2>1. Sent' = Sent
      BY <1>1, <1>3 DEF Sent, WhenConnected, Due, IsOpening, HeardIn
    <2> QED BY <1>1, <1>2, <2>1 DEF Stream!streamVars
  <1>4. ASSUME NEW m \in Members, NEW message, Send(m, message)
        PROVE  Stream!SendNext(m) \/ UNCHANGED Stream!streamVars
    <2>1. /\ EgressGrows /\ \A n \in Members \ {m} : egress'[n] = egress[n]
          /\ \A i \in 1 .. Len(egress'[m]) : i \in 1 .. Len(egress[m]) \/ i = Len(egress'[m])
      BY <1>4, SendOnlyGrows
    <2>2. Len(egress'[m]) \in Nat
      BY GatewayInd DEF IndInv, TypeOK, GatewayTypeOK
    <2>3. Sent = [n \in Members |-> Sent[n]] /\ Sent' = [n \in Members |-> Sent'[n]]
      BY <1>1, StreamIs
    <2>4. \A n \in Members \ {m} : Sent'[n] = Sent[n]
      <3> SUFFICES ASSUME NEW n \in Members \ {m} PROVE Sent'[n] = Sent[n]
        OBVIOUS
      <3>1. Sent'[n] = Due(n)' /\ Sent[n] = Due(n)
        BY <1>1, StreamIs
      <3>2. Due(n)' = Due(n)
        BY <1>1, <2>1 DEF Due, IsOpening, IsOk, HeardIn
      <3> QED BY <3>1, <3>2
    <2>5. CASE Sent'[m] = Sent[m]
      <3>1. Sent' = Sent
        BY <2>3, <2>4, <2>5
      <3> QED BY <1>1, <1>2, <3>1 DEF Stream!streamVars
    <2>6. ASSUME NEW new \in Nat, Sent'[m] = Sent[m] \cup {new}, \A j \in Sent[m] : j < new
          PROVE  Stream!SendNext(m)
      <3>1. Sent' = [Sent EXCEPT ![m] = Sent[m] \cup {new}]
        BY <2>3, <2>4, <2>6
      <3>2. new \in Sent'[m]
        BY <2>6
      <3>3. aeronCluster.session # NullValue
        BY SessionIsOpened
      <3> QED BY <1>1, <1>2, <2>6, <3>1, <3>2, <3>3 DEF Stream!SendNext
    <2> QED BY <2>1, <2>2, <2>5, <2>6, DueGrows
  <1> QED BY <1>3, <1>4, GatewaySends

\* What the listener is given is the next of what is due from the member, and what it is
\* not given was never due.
LEMMA OnFragmentStream ==
    ASSUME IndInv, ListenInv, NEW m \in Members, OnFragment(m), UNCHANGED gatewayVars
    PROVE  Stream!Deliver(m) \/ UNCHANGED Stream!streamVars
  <1> DEFINE next == position[m] + 1
             message == egress[m][next]
             entry == [image |-> m, at |-> next]
  <1>1. /\ step = "DONE" /\ step' = "DONE" /\ aeronCluster' = aeronCluster
        /\ egress' = egress
        /\ position[m] < Len(egress[m]) /\ position' = [position EXCEPT ![m] = next]
        /\ heard' = IF IsDispatched(message) THEN Append(heard, entry) ELSE heard
    BY DEF OnFragment, connectVars, gatewayVars
  <1>2. /\ position \in [Members -> Nat] /\ Len(egress[m]) \in Nat
        /\ heard \in Seq([image : Members, at : Nat])
        /\ \A k \in 1 .. Len(heard) : heard[k].at \in 1 .. position[heard[k].image]
    <2>1. position \in [Members -> Nat] /\ Len(egress[m]) \in Nat
      BY DEF IndInv, TypeOK, GatewayTypeOK, PollerTypeOK
    <2>2. HeardTypeOK
      BY DEF IndInv, TypeOK
    <2> QED BY <2>1, <2>2 DEF HeardTypeOK
  <1>3. /\ next \in 1 .. Len(egress[m]) /\ position'[m] = next
        /\ \A n \in Members \ {m} : position'[n] = position[n]
    BY <1>1, <1>2
  <1>4. \A n \in Members : \A i : i \in HeardIn(n) <=>
            \E k \in 1 .. Len(heard) : heard[k].image = n /\ heard[k].at = i
    BY DEF HeardIn
  <1>5. \A n \in Members : \A i : i \in HeardIn(n)' <=>
            \E k \in 1 .. Len(heard') : heard'[k].image = n /\ heard'[k].at = i
    BY DEF HeardIn
  <1>6. \A i \in HeardIn(m) : i <= position[m]
    BY <1>2, <1>4
  <1>7. ASSUME NEW n \in Members, NEW i
        PROVE  i \in HeardIn(n)' <=>
                  i \in HeardIn(n) \/ (IsDispatched(message) /\ n = m /\ i = next)
    <2>1. CASE ~ IsDispatched(message)
      BY <1>1, <1>4, <1>5, <2>1
    <2>2. CASE IsDispatched(message)
      <3>1. heard' = Append(heard, entry) /\ entry \in [image : Members, at : Nat]
        BY <1>1, <1>3, <2>2
      <3>2. entry.image = m /\ entry.at = next
        OBVIOUS
      <3> HIDE DEF entry, message, next
      <3>3. /\ Len(heard) \in Nat /\ Len(heard') = Len(heard) + 1
            /\ \A k \in 1 .. Len(heard) : heard'[k] = heard[k]
            /\ heard'[Len(heard) + 1] = entry
        BY <1>2, <3>1
      <3>4. \A k : k \in 1 .. Len(heard') <=> k \in 1 .. Len(heard) \/ k = Len(heard) + 1
        BY <3>3
      <3>5. (\E k \in 1 .. Len(heard') : heard'[k].image = n /\ heard'[k].at = i) <=>
               \/ \E k \in 1 .. Len(heard) : heard[k].image = n /\ heard[k].at = i
               \/ n = m /\ i = next
        BY <3>2, <3>3, <3>4
      <3> QED BY <1>4, <1>5, <2>2, <3>5
    <2> QED BY <2>1, <2>2
  <1>8. ASSUME NEW n \in Members, NEW i \in 1 .. Len(egress[n])
        PROVE  i \in Sent'[n] <=> i \in Sent[n]
    <2>1. Sent[n] = Due(n) /\ Sent'[n] = Due(n)'
      BY <1>1, StreamIs
    <2> DEFINE isOpened == n = aeronCluster.image /\ \E o \in 1 .. i - 1 : IsOpening(egress[n][o])
    <2>2. i \in Sent[n] <=> /\ IsDispatched(egress[n][i])
                            /\ position[n] < i \/ i \in HeardIn(n) \/ isOpened
      BY <2>1 DEF Due, IsDispatched
    <2>3. i \in Sent'[n] <=> /\ IsDispatched(egress[n][i])
                             /\ position'[n] < i \/ i \in HeardIn(n)' \/ isOpened
      BY <1>1, <2>1 DEF Due, IsDispatched, HeardIn, IsOpening
    <2> HIDE DEF isOpened
    <2>4. CASE n = m /\ i = next
      <3>1. position[n] < i /\ ~ position'[n] < i /\ i \notin HeardIn(n)
        BY <1>2, <1>3, <1>6, <2>4
      <3>2. IsDispatched(egress[n][i]) => i \in HeardIn(n)'
        BY <1>7, <2>4
      <3> QED BY <2>2, <2>3, <3>1, <3>2
    <2>5. CASE ~ (n = m /\ i = next)
      <3>1. position'[n] < i <=> position[n] < i
        BY <1>2, <1>3, <2>5
      <3>2. i \in HeardIn(n)' <=> i \in HeardIn(n)
        BY <1>7, <2>5
      <3> QED BY <2>2, <2>3, <3>1, <3>2
    <2> QED BY <2>4, <2>5
  <1>9. Sent' = Sent
    <2>1. /\ Sent = [n \in Members |-> Sent[n]] /\ Sent' = [n \in Members |-> Sent'[n]]
          /\ \A n \in Members : /\ Sent[n] \subseteq 1 .. Len(egress[n])
                                /\ Sent'[n] \subseteq 1 .. Len(egress[n])
      BY <1>1, StreamIs DEF Due
    <2>2. \A n \in Members : Sent'[n] = Sent[n]
      BY <1>8, <2>1
    <2> QED BY <2>1, <2>2
  <1>10. /\ Delivered = [n \in Members |-> Delivered[n]]
         /\ Delivered' = [n \in Members |-> Delivered'[n]]
         /\ \A n \in Members : /\ Delivered[n] = HeardIn(n) /\ Delivered'[n] = HeardIn(n)'
    BY <1>1, StreamIs
  <1>11. CASE ~ IsDispatched(message)
    <2>1. \A n \in Members : Delivered'[n] = Delivered[n]
      BY <1>7, <1>10, <1>11
    <2>2. Delivered' = Delivered
      BY <1>10, <2>1
    <2> QED BY <1>1, <1>9, <2>2 DEF Stream!streamVars
  <1>12. CASE IsDispatched(message)
    <2>1. /\ Delivered'[m] = Delivered[m] \cup {next}
          /\ \A n \in Members \ {m} : Delivered'[n] = Delivered[n]
      <3> HIDE DEF next, message
      <3>1. \A n \in Members : \A i : i \in Delivered'[n] <=>
                i \in Delivered[n] \/ (n = m /\ i = next)
        BY <1>7, <1>10, <1>12
      <3> QED BY <3>1
    <2>2. Delivered' = [Delivered EXCEPT ![m] = Delivered[m] \cup {next}]
      BY <1>10, <2>1
    <2>3. Sent[m] = Due(m)
      BY <1>1, StreamIs
    <2>4. next \in Sent[m] \ Delivered[m]
      <3>1. next \notin HeardIn(m) /\ position[m] < next
        BY <1>2, <1>6
      <3> QED BY <1>3, <1>10, <1>12, <2>3, <3>1 DEF Due, IsDispatched
    <2>5. ASSUME NEW j \in Sent[m] \ Delivered[m], ~ next <= j PROVE FALSE
      <3>1. j \in 1 .. position[m] /\ j \in 1 .. Len(egress[m]) /\ j \notin HeardIn(m)
        BY <1>2, <1>10, <2>3, <2>5 DEF Due
      <3>2. /\ m = aeronCluster.image /\ \E o \in 1 .. j - 1 : IsOpening(egress[m][o])
            /\ egress[m][j].session = aeronCluster.session
        BY <1>2, <2>3, <2>5, <3>1 DEF Due
      <3>3. j \in ItsMessages \cap 1 .. position[m]
        BY <3>1, <3>2 DEF ItsMessages
      <3>4. HeardIn(m) = ItsMessages \cap 1 .. position[m]
        BY <1>1, <3>2 DEF ListenInv, HearsItsSession
      <3> QED BY <3>1, <3>3, <3>4
    <2> QED BY <1>1, <1>9, <2>2, <2>4, <2>5 DEF Stream!Deliver
  <1> QED BY <1>11, <1>12

\* A step is one of the stream, or none; before the connect is done nothing is.
LEMMA StreamStep ==
    ASSUME IndInv, ListenInv, UnconnectedInv, [Next]_vars
    PROVE  UnconnectedInv' /\ [Stream!StreamNext]_(Stream!streamVars)
  <1>1. CASE step = "DONE"
    <2>1. step' = "DONE" /\ aeronCluster' = aeronCluster
      BY <1>1, OnceDone
    <2>2. CASE GatewayNext /\ UNCHANGED <<clientVars, heard>>
      BY <1>1, <2>1, <2>2, GatewayStream DEF Stream!StreamNext, UnconnectedInv
    <2>3. CASE (\E m \in Members : OnFragment(m)) /\ UNCHANGED gatewayVars
      BY <2>1, <2>3, OnFragmentStream DEF Stream!StreamNext, UnconnectedInv
    <2>4. CASE UNCHANGED vars
      <3>1. UNCHANGED Stream!streamVars
        BY <2>4 DEF vars, gatewayVars, clientVars, connectVars, pollVars, Stream!streamVars,
                    Sent, Delivered, WhenConnected, Due, HeardIn, IsOpening
      <3> QED BY <2>1, <3>1 DEF UnconnectedInv
    <2> QED BY <1>1, <2>2, <2>3, <2>4, OnceDone
  <1>2. CASE step # "DONE"
    <2>1. CASE ConcludeConnect /\ UNCHANGED <<gatewayVars, heard>>
      <3>1. step' = "DONE"
        BY <2>1 DEF ConcludeConnect
      <3> QED BY <2>1, <3>1, ConcludeOpens DEF Stream!StreamNext, UnconnectedInv
    <2>2. CASE step' # "DONE" /\ aeronCluster' = aeronCluster
      BY <1>2, <2>2, StreamIs DEF Stream!streamVars, UnconnectedInv
    <2> QED BY <1>2, <2>1, <2>2, UntilDone
  <1> QED BY <1>1, <1>2

\* A client is given one session and, from each member, the messages to that session in
\* their order, none left out and none twice: the adapter implements a stream that is the
\* client's own on an egress channel which the members and other clients share, and which
\* the connect has read before it.
THEOREM ClientImplementsSessionStream == Spec => ImplementsSessionStream
  <1>1. Init => UnconnectedInv /\ Stream!StreamInit
    <2> SUFFICES ASSUME Init PROVE UnconnectedInv /\ Stream!StreamInit
      OBVIOUS
    <2>1. step # "DONE" /\ aeronCluster = NoCluster
      BY DEF Init, ConnectInit
    <2> QED BY <2>1, StreamIs DEF Stream!StreamInit, UnconnectedInv, NoCluster
  <1>2. IndInv /\ ListenInv /\ UnconnectedInv /\ [Next]_vars =>
            UnconnectedInv' /\ [Stream!StreamNext]_(Stream!streamVars)
    BY StreamStep
  <1> QED BY <1>1, <1>2, ConnectInvariant, ListenInvariant, PTL
          DEF Spec, ImplementsSessionStream, Stream!StreamSpec
-----------------------------------------------------------------------------
(* What the defects at two lines stop: with the constants as the code has them *)

\* A shared publication is not found among the exclusive ones, or the cluster does not
\* read a request without a message header.
AsTheCodeIs == ~ SharedFoundAsExclusive \/ ~ ReadsBareRequest

StepsWithoutPublication ==
    {"CREATE_EGRESS_SUBSCRIPTION", "CREATE_INGRESS_PUBLICATIONS",
     "AWAIT_PUBLICATION_CONNECTED", "failed", "undefined"}

\* No request has a header, and without a publication there is none.
BareInv ==
    /\ sessions = <<>>
    /\ \A i \in 1 .. Len(ingress) : ~ ingress[i].header
    /\ step = "SEND_MESSAGE" => ~ buffer.header
    /\ ~ SharedFoundAsExclusive =>
          /\ ingress = <<>> /\ ingressPublication = "none" /\ memberByIdMap = {}
          /\ step \in StepsWithoutPublication

LEMMA NothingHandled ==
    ASSUME AsTheCodeIs, IndInv, BareInv PROVE ~ HandlesRequest
  <1> SUFFICES ASSUME HandlesRequest PROVE FALSE
    OBVIOUS
  <1>1. /\ ingress \in Seq(Requests) /\ handled \in 0 .. Len(ingress)
        /\ handled < Len(ingress)
    BY DEF IndInv, TypeOK, GatewayTypeOK, HandlesRequest
  <1>2. handled + 1 \in 1 .. Len(ingress)
    BY <1>1
  <1>3. CASE ~ SharedFoundAsExclusive
    BY <1>1, <1>3 DEF BareInv
  <1>4. CASE ~ ReadsBareRequest
    BY <1>2, <1>4 DEF HandlesRequest, Request, BareInv
  <1> QED BY <1>3, <1>4 DEF AsTheCodeIs

LEMMA BareInd ==
    ASSUME AsTheCodeIs, IndInv, BareInv, [Next]_vars PROVE BareInv'
  <1>1. CASE GatewayNext /\ UNCHANGED <<clientVars, heard>>
    <2>1. ~ RequestNext
      BY NothingHandled DEF RequestNext, OpensSession, ChallengesSession, RejectsSession,
                            RedirectsRequest, IgnoresRequest
    <2>2. ~ ClosesSession
      <3>1. OpenSessions = {}
        BY DEF OpenSessions, BareInv
      <3> QED BY <3>1 DEF ClosesSession
    <2>3. UNCHANGED <<sessions, ingress>>
      BY <1>1, <2>1, <2>2 DEF GatewayNext, SendsToSession, OpensForeignSession, ElectsLeader,
                              ConnectsOrNot, SendsUnasked
    <2>4. UNCHANGED <<step, buffer, ingressPublication, memberByIdMap>>
      BY <1>1 DEF clientVars, connectVars
    <2> QED BY <2>3, <2>4 DEF BareInv
  <1>2. CASE SendMessage /\ UNCHANGED <<leader, term, handled, sessions, egress, traffic,
                                       connected, heard>>
    <2>1. /\ step = "SEND_MESSAGE" /\ step' = "POLL_RESPONSE"
          /\ ingress' = Append(ingress, buffer) /\ ~ buffer.header
      BY <1>2 DEF SendMessage, OfferAccepted, At, BareInv
    <2>2. SharedFoundAsExclusive
      BY <2>1 DEF BareInv, StepsWithoutPublication
    <2>3. ingress \in Seq(Requests) /\ buffer \in Requests
      BY <2>1 DEF IndInv, TypeOK, GatewayTypeOK, ConnectTypeOK
    <2>4. ASSUME NEW i \in 1 .. Len(ingress') PROVE ~ ingress'[i].header
      <3>1. CASE i \in 1 .. Len(ingress)
        BY <2>1, <2>3, <3>1 DEF BareInv
      <3>2. CASE i = Len(ingress) + 1
        BY <2>1, <2>3, <3>2
      <3> QED BY <2>1, <2>3, <3>1, <3>2
    <2> QED BY <1>2, <2>1, <2>2, <2>4 DEF BareInv
  <1>3. CASE (Poll \/ SendMessageFails) /\ UNCHANGED <<gatewayVars, heard>>
    <2>1. UNCHANGED <<sessions, ingress>>
      BY <1>3 DEF gatewayVars
    <2>2. step' = "SEND_MESSAGE" => ~ buffer'.header
      BY <1>3 DEF Poll, BareInv, At, CreateEgressSubscription, CreateIngressPublications,
         RegistrationFails, AwaitPublicationConnected, Prepare, StartPoll, PollImage,
         PollResponse, NoAnswer, AnswerChallenge, AnswerOk, AnswerError, AnswerRedirect,
         AnswerNothing, ConcludeConnect, SendMessageFails, connectVars
    <2>3. ASSUME ~ SharedFoundAsExclusive
          PROVE  /\ ingressPublication' = "none" /\ memberByIdMap' = {}
                 /\ step' \in StepsWithoutPublication
      <3>1. /\ ingressPublication = "none" /\ memberByIdMap = {}
            /\ step \in StepsWithoutPublication
        BY <2>3 DEF BareInv
      <3> QED
        BY <1>3, <2>3, <3>1 DEF Poll, At, StepsWithoutPublication, CreateEgressSubscription,
           CreateIngressPublications, RegistrationFails, AwaitPublicationConnected, StartPoll,
           PollImage, PollResponse, NoAnswer, AnswerChallenge, Answer, AnswerOk, AnswerError,
           AnswerRedirect, AnswerNothing, EndsPoll, ConcludeConnect, SendMessageFails
    <2> QED BY <2>1, <2>2, <2>3 DEF BareInv
  <1>4. CASE Close /\ UNCHANGED <<gatewayVars, heard>>
    <2>1. UNCHANGED <<sessions, ingress>>
      BY <1>4 DEF gatewayVars
    <2>2. /\ step' \in {"undefined", "closed"} /\ memberByIdMap' = {}
          /\ ingressPublication = "none" =>
                step' = "undefined" /\ ingressPublication' = "none"
      BY <1>4 DEF Close
    <2> QED BY <2>1, <2>2 DEF BareInv, StepsWithoutPublication
  <1>5. CASE (\E m \in Members : OnFragment(m)) /\ UNCHANGED gatewayVars
    BY <1>5 DEF OnFragment, gatewayVars, connectVars, BareInv
  <1>6. CASE UNCHANGED vars
    BY <1>6 DEF vars, gatewayVars, clientVars, connectVars, BareInv
  <1> QED BY <1>1, <1>2, <1>3, <1>4, <1>5, <1>6 DEF Next, PollConnect

\* With the lookup of createIngressPublications (AeronCluster.cpp:104-109), or with the
\* requests of prepareConnectRequest and prepareChallengeResponse (203, 280), as they
\* are, no connect of this code makes a client: what holds of a client is said of the
\* code past these two lines.
THEOREM NoClientAsTheCodeIs == AsTheCodeIs => (Spec => [](step # "DONE"))
  <1> SUFFICES ASSUME AsTheCodeIs PROVE Spec => [](step # "DONE")
    OBVIOUS
  <1>1. Init => BareInv
    BY DEF Init, GatewayInit, ConnectInit, BareInv, StepsWithoutPublication
  <1>2. IndInv /\ BareInv /\ [Next]_vars => BareInv'
    BY BareInd
  <1>3. BareInv /\ ConnectsToOwnSession => step # "DONE"
    BY DEF BareInv, ConnectsToOwnSession
  <1> QED BY <1>1, <1>2, <1>3, ConnectInvariant, ConnectsToOwnSessionAlways, PTL DEF Spec
=============================================================================
