---------------------------- MODULE ClusterClient ----------------------------
(***************************************************************************)
(* A client of the cluster: it connects and then listens to its session.   *)
(***************************************************************************)
EXTENDS EgressAdapter

vars == <<gatewayVars, clientVars, heard>>

Init == GatewayInit /\ ConnectInit /\ AdapterInit

\* AsyncConnect::poll
PollConnect ==
    \/ SendMessage /\ UNCHANGED <<leader, term, handled, sessions, egress, traffic,
                                  connected, heard>>
    \/ (Poll \/ SendMessageFails) /\ UNCHANGED <<gatewayVars, heard>>

Next ==
    \/ GatewayNext /\ UNCHANGED <<clientVars, heard>>
    \/ PollConnect
    \/ Close /\ UNCHANGED <<gatewayVars, heard>>
    \/ (\E m \in Members : OnFragment(m)) /\ UNCHANGED gatewayVars

Spec == Init /\ [][Next]_vars

-----------------------------------------------------------------------------
\* A client, an exception, closed by the caller, or through a null pointer.
Ended == {"DONE", "failed", "closed", "undefined"}

IdOrNull == Nat \cup {NullValue}
ImageOrNull == Members \cup {NoImage}

EgressMessages ==
    [kind : Callbacks \cup {"Challenge"}, session : IdOrNull, correlation : IdOrNull,
     code : EventCodes, term : Nat, leader : Members, endpoints : SUBSET Members]

Requests == [kind : {"SessionConnectRequest", "ChallengeResponse"}, header : BOOLEAN,
             correlation : IdOrNull, session : IdOrNull]

Sessions == [state : {"challenged", "open", "closed"}, correlation : IdOrNull,
             challenges : Nat]

GatewayTypeOK ==
    /\ leader \in Members /\ term \in Nat
    /\ ingress \in Seq(Requests) /\ handled \in 0 .. Len(ingress)
    /\ sessions \in Seq(Sessions)
    /\ egress \in [Members -> Seq(EgressMessages)]
    /\ traffic \in 0 .. MaxTraffic /\ connected \in BOOLEAN

PollerTypeOK ==
    /\ poller \in [isPollComplete : BOOLEAN, isChallenged : BOOLEAN, session : IdOrNull,
                   correlation : Int, term : IdOrNull, leader : IdOrNull,
                   code : EventCodes, endpoints : SUBSET Members, image : ImageOrNull]
    /\ egressImages \in (SUBSET Members) \cup {NotPolling}
    /\ fragments \in Nat
    /\ position \in [Members -> Nat]
    /\ \A m \in Members : position[m] <= Len(egress[m])

ConnectTypeOK ==
    /\ ingressEndpoints \in BOOLEAN
    /\ step \in Steps \cup Ended \cup {"hung"}
    /\ ingressPublication \in {"none", "open", "closed"} /\ memberByIdMap \subseteq Members
    /\ nextCorrelationId \in Nat \ {0}
    /\ correlationId \in {NullValue} \cup 1 .. nextCorrelationId - 1
    /\ buffer \in Requests \cup {NoRequest}
    /\ step = "SEND_MESSAGE" => buffer \in Requests
    /\ accepted \in [session : IdOrNull, term : IdOrNull, leader : IdOrNull,
                     image : ImageOrNull]
    /\ aeronCluster \in [session : IdOrNull, term : IdOrNull, image : ImageOrNull,
                         members : SUBSET Members]

HeardTypeOK ==
    /\ heard \in Seq([image : Members, at : Nat])
    /\ \A k \in 1 .. Len(heard) : heard[k].at \in 1 .. position[heard[k].image]

TypeOK == GatewayTypeOK /\ PollerTypeOK /\ ConnectTypeOK /\ HeardTypeOK

\* A client that is connected has the session the cluster opened for its own last
\* request, as an OK event in the image it keeps told it, although the egress stream
\* is shared with other clients and the poller keeps fields of earlier messages.
ConnectsToOwnSession ==
    step = "DONE" =>
        /\ aeronCluster.session \in 1 .. Len(sessions)
        /\ sessions[aeronCluster.session].correlation = correlationId
        /\ \E i \in 1 .. position[aeronCluster.image] :
              LET event == egress[aeronCluster.image][i]
              IN  /\ event.kind = "SessionEvent" /\ event.code = "OK"
                  /\ event.session = aeronCluster.session

\* A message that answers the request with this correlation id was read.
IsAnswered(correlation) ==
    \E m \in Members : \E j \in 1 .. position[m] : egress[m][j].correlation = correlation

\* Every request but the first follows an answer to the one before it: nothing is sent
\* twice, and nothing is sent on an answer to another client or to an older request.
AnsweredBeforeNextRequest ==
    \A i \in 1 .. Len(ingress) - 1 : IsAnswered(ingress[i].correlation)

IsOk(message) == message.kind = "SessionEvent" /\ message.code = "OK"

\* The messages of the client's session in the image it was opened in.
IsOpening(message) == IsOk(message) /\ message.session = aeronCluster.session

ItsMessages ==
    LET in == egress[aeronCluster.image]
    IN  {i \in 1 .. Len(in) : /\ in[i].session = aeronCluster.session
                              /\ \E o \in 1 .. i - 1 : IsOpening(in[o])}

\* Where the messages of an image are that the callbacks were given.
HeardIn(m) == {heard[k].at : k \in {l \in 1 .. Len(heard) : heard[l].image = m}}

\* The callbacks are given messages of the client's session only, those of one image in
\* their order, and, of the image it was opened in, every one that was read: the connect
\* has consumed none that follows its answer.
HearsItsSession ==
    step = "DONE" =>
        /\ \A k \in 1 .. Len(heard) :
              egress[heard[k].image][heard[k].at].session = aeronCluster.session
        /\ \A k, l \in 1 .. Len(heard) :
              k < l /\ heard[k].image = heard[l].image => heard[k].at < heard[l].at
        /\ HeardIn(aeronCluster.image) =
              ItsMessages \cap 1 .. position[aeronCluster.image]

\* What a member has for a client that is connected: what was not read before, and of the
\* member that opened the session all that follows.
Due(m) ==
    {i \in 1 .. Len(egress[m]) :
        /\ egress[m][i].kind \in Callbacks
        /\ egress[m][i].session = aeronCluster.session
        /\ \/ position[m] < i \/ i \in HeardIn(m)
           \/ m = aeronCluster.image /\ \E o \in 1 .. i - 1 : IsOpening(egress[m][o])}

WhenConnected(f) == IF step = "DONE" THEN f ELSE [m \in Members |-> {}]

Sent      == WhenConnected([m \in Members |-> Due(m)])
Delivered == WhenConnected([m \in Members |-> HeardIn(m)])

Stream == INSTANCE SessionStream
    WITH Senders <- Members, NoSession <- NullValue, session <- aeronCluster.session,
         sent <- Sent, delivered <- Delivered

\* The client is given a session once, and each member's messages to it in their order,
\* whatever else the members send through the stream the client shares with others.
ImplementsSessionStream == Stream!StreamSpec

-----------------------------------------------------------------------------
(* What makes ConnectsToOwnSession and the types inductive *)

Opens(event, session, correlation) ==
    /\ event.kind = "SessionEvent" /\ event.code = "OK"
    /\ event.session = session /\ event.correlation = correlation

IsOpened(session, correlation) ==
    /\ session \in 1 .. Len(sessions)
    /\ sessions[session].state # "challenged"
    /\ sessions[session].correlation = correlation

\* An OK event tells the truth about a session, as the one that is told is decided.
OpenedInv ==
    \A m \in Members : \A i \in 1 .. Len(egress[m]) :
        LET event == egress[m][i]
        IN  event.kind = "SessionEvent" /\ event.code = "OK" =>
               \/ event.correlation = 0
               \/ IsOpened(event.session, event.correlation)

\* Once the poller has an image, a code it holds is that of the event that completed
\* the poll, and so are session and correlation id.
NotedInv ==
    poller.image # NoImage /\ poller.code # "NULL_VALUE" =>
        /\ poller.isPollComplete
        /\ \E i \in 1 .. position[poller.image] :
              LET event == egress[poller.image][i]
              IN  /\ event.kind = "SessionEvent" /\ event.code = poller.code
                  /\ event.session = poller.session
                  /\ event.correlation = poller.correlation

\* What the connect has accepted is an OK event for its request.
AcceptedInv ==
    /\ step \in {"SEND_MESSAGE", "POLL_RESPONSE", "CONCLUDE_CONNECT", "DONE"} =>
          correlationId >= 1
    /\ step \in {"CONCLUDE_CONNECT", "DONE"} =>
          /\ accepted.image \in Members
          /\ \E i \in 1 .. position[accepted.image] :
                Opens(egress[accepted.image][i], accepted.session, correlationId)
    /\ step = "DONE" => /\ aeronCluster.session = accepted.session
                        /\ aeronCluster.image = accepted.image

IndInv == TypeOK /\ OpenedInv /\ NotedInv /\ AcceptedInv

(* and AnsweredBeforeNextRequest, if the memory holds no correlation id of a request. *)

StepsBeforeOffer == {"CREATE_EGRESS_SUBSCRIPTION", "CREATE_INGRESS_PUBLICATIONS",
                     "AWAIT_PUBLICATION_CONNECTED", "SEND_MESSAGE"}

\* The last request is answered before another is prepared, and the poller holds no
\* correlation id of this client but that of a message it has read.
AnsweredInv ==
    /\ AnsweredBeforeNextRequest
    /\ poller.correlation >= 1 => IsAnswered(poller.correlation)
    /\ step \in StepsBeforeOffer /\ ingress # <<>> =>
          IsAnswered(ingress[Len(ingress)].correlation)
    /\ step = "SEND_MESSAGE" => buffer.correlation = correlationId
    /\ step = "POLL_RESPONSE" =>
          ingress # <<>> /\ ingress[Len(ingress)].correlation = correlationId

(* and HearsItsSession *)

\* An OK event is of another client's session or of one that is open for it.  What
\* follows it in its image for that session is for a callback and no second one.
OrderInv ==
    \A m \in Members : \A o \in 1 .. Len(egress[m]) :
        LET ok == egress[m][o]
        IN  IsOk(ok) /\ ok.session # ForeignSession =>
               /\ IsOpened(ok.session, ok.correlation)
               /\ \A i \in o + 1 .. Len(egress[m]) :
                     egress[m][i].session = ok.session =>
                        egress[m][i].kind \in Callbacks /\ ~ IsOk(egress[m][i])

\* An OK event that was accepted is the last that was read of its image, until the
\* listener reads on.
LastInv ==
    /\ step # "DONE" /\ poller.image # NoImage /\ poller.code # "NULL_VALUE" =>
          LET event == egress[poller.image][position[poller.image]]
          IN  /\ position[poller.image] >= 1
              /\ event.kind = "SessionEvent"
              /\ event.code = poller.code /\ event.session = poller.session
    /\ step = "CONCLUDE_CONNECT" =>
          LET event == egress[accepted.image][position[accepted.image]]
          IN  /\ position[accepted.image] >= 1
              /\ IsOk(event) /\ event.session = accepted.session

ListenInv == /\ OrderInv /\ LastInv /\ HearsItsSession
             /\ step # "DONE" => heard = <<>>

-----------------------------------------------------------------------------
(* Liveness *)

\* The program polls the connect for ever (main.cpp), what it asks the media driver for
\* is there at last, the connection comes back, and the cluster handles requests.
\* Nothing in the repository polls an EgressAdapter: OnFragment is not fair.
Fairness ==
    /\ WF_vars(PollConnect)
    /\ SF_vars(AwaitPublicationConnected /\ UNCHANGED <<gatewayVars, heard>>)
    /\ WF_vars(ConnectsOrNot /\ ~ connected /\ UNCHANGED <<clientVars, heard>>)
    /\ WF_vars(RequestNext /\ UNCHANGED <<clientVars, heard>>)

FairSpec == Spec /\ Fairness

\* What the cluster decided on the last request was sent.  A challenge does not count:
\* the poller does not note that it is one, so that the wait may go on after it.
AnswerIsSent ==
    \E m \in Members : \E i \in 1 .. Len(egress[m]) :
        /\ egress[m][i].kind = "SessionEvent"
        /\ egress[m][i].correlation = correlationId

\* An answer that was sent is not lost: the connect finds it and goes on, in whatever
\* image it is and whatever else the images hold (EgressPoller::poll and onFragment,
\* pollResponse).
AnswerEndsWait ==
    (step = "POLL_RESPONSE" /\ AnswerIsSent) ~> step # "POLL_RESPONSE"

-----------------------------------------------------------------------------
(* What the repository says of the connect and a run refutes *)

\* "Poll to advance steps in the connection until complete or error."
PollsUntilCompleteOrError == <>(step \in Ended)
=============================================================================
