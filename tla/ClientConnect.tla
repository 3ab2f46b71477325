---------------------------- MODULE ClientConnect ----------------------------
(***************************************************************************)
(* AeronCluster::AsyncConnect and the EgressPoller it reads answers with.  *)
(* An action is one call of AsyncConnect::poll, except in POLL_RESPONSE,   *)
(* where the poll of the egress subscription takes an action for each      *)
(* image.  An attempt that finds nothing yet (no resource, no connection,  *)
(* back-pressure) leaves the state as it is and is a stuttering step.      *)
(***************************************************************************)
EXTENDS ClusterGateway

CONSTANTS SharedFoundAsExclusive,  \* findExclusivePublication finds what addPublication added
          ClockAtStart,            \* systemNanoClock() when the connect starts
          CorrelationInMemory,     \* what an uninitialised correlation id may be
          FragmentLimit

VARIABLES ingressEndpoints,    \* the context names endpoints of members
          step,                \* m_step, or how the connect ended otherwise
          ingressPublication,  \* m_ingressPublication
          memberByIdMap,       \* the members m_memberByIdMap has a publication for
          correlationId,       \* m_correlationId
          nextCorrelationId,   \* what aeron()->nextCorrelationId() returns
          buffer,              \* the request that m_buffer holds
          poller,              \* the fields of m_egressPoller, once there is one
          egressImages,        \* the images the poll in progress has yet to read
          fragments,           \* how many fragments it has read
          position,            \* the subscriber's position in each image
          accepted,            \* m_clusterSessionId, m_leadershipTermId, m_leaderMemberId,
                               \* m_egressImage
          aeronCluster         \* the AeronCluster that was made

connectVars == <<step, ingressPublication, memberByIdMap, correlationId, nextCorrelationId,
                 buffer, accepted, aeronCluster>>
pollVars    == <<poller, egressImages, fragments, position>>
clientVars  == <<ingressEndpoints, connectVars, pollVars>>

ASSUME ConnectAssumption ==
    /\ SharedFoundAsExclusive \in BOOLEAN
    /\ ClockAtStart \in Nat
    /\ FragmentLimit \in Nat \ {0}
    /\ CorrelationInMemory \subseteq Int

NoImage    == NullValue
NotPolling == {NullValue}
NoPoller   == [isPollComplete |-> FALSE, isChallenged |-> FALSE, session |-> NullValue,
               correlation |-> NullValue, term |-> NullValue, leader |-> NullValue,
               code |-> "NULL_VALUE", endpoints |-> {}, image |-> NoImage]
NoRequest  == [kind |-> "none", header |-> FALSE, correlation |-> NullValue,
               session |-> NullValue]
NoAnswerYet == [session |-> NullValue, term |-> NullValue, leader |-> NullValue,
                image |-> NoImage]
NoCluster  == [session |-> NullValue, term |-> NullValue, image |-> NoImage, members |-> {}]

ConnectInit ==
    /\ ingressEndpoints \in BOOLEAN
    /\ step = "CREATE_EGRESS_SUBSCRIPTION"
    /\ ingressPublication = "none" /\ memberByIdMap = {}
    /\ correlationId = NullValue /\ nextCorrelationId = 1
    /\ buffer = NoRequest
    /\ poller = NoPoller /\ egressImages = NotPolling /\ fragments = 0
    /\ position = [m \in Members |-> 0]
    /\ accepted = NoAnswerYet
    /\ aeronCluster = NoCluster

\* The deadline is the time of the start, as messageTimeoutNs() is 0; it has passed if
\* it is negative.
DeadlineNs     == ClockAtStart + 0
DeadlinePassed == DeadlineNs < 0

At(s) == step = s /\ ~ DeadlinePassed

-----------------------------------------------------------------------------
(* The steps up to the request *)

\* The poller's members are not initialised: whether a poll is complete, whether there
\* was a challenge, the last code and correlation id are what the memory held; the
\* first poll resets code and id if a poll is complete.
CreateEgressSubscription ==
    /\ At("CREATE_EGRESS_SUBSCRIPTION")
    /\ \E isPollComplete, isChallenged \in BOOLEAN,
          code \in EventCodes, c \in CorrelationInMemory :
          /\ isPollComplete => code = "NULL_VALUE"
          /\ poller' = [NoPoller EXCEPT !.isPollComplete = isPollComplete,
                                        !.isChallenged = isChallenged,
                                        !.code = code, !.correlation = c]
    /\ step' = "CREATE_INGRESS_PUBLICATIONS"
    /\ UNCHANGED <<ingressEndpoints, ingressPublication, memberByIdMap, correlationId,
                   nextCorrelationId, buffer, egressImages, fragments, position, accepted,
                   aeronCluster>>

\* With endpoints there is a publication for each member of the map, which nothing has
\* filled, and none by itself.  Without, the code adds a shared publication and looks it
\* up among the exclusive ones, where it is not: SharedFoundAsExclusive is FALSE of the
\* code, which then never leaves the step, and TRUE lets a run see what follows.
CreateIngressPublications ==
    /\ At("CREATE_INGRESS_PUBLICATIONS")
    /\ IF ingressEndpoints
       THEN /\ memberByIdMap # {} => SharedFoundAsExclusive
            /\ UNCHANGED ingressPublication
       ELSE /\ SharedFoundAsExclusive
            /\ ingressPublication' = "open"
    /\ step' = "AWAIT_PUBLICATION_CONNECTED"
    /\ UNCHANGED <<ingressEndpoints, memberByIdMap, correlationId, nextCorrelationId, buffer,
                   pollVars, accepted, aeronCluster>>

\* Asking for a resource throws if the media driver has refused it; with endpoints the
\* exception is caught.
RegistrationFails ==
    /\ "refuse" \in Interference
    /\ \/ At("CREATE_EGRESS_SUBSCRIPTION")
       \/ At("CREATE_INGRESS_PUBLICATIONS") /\ ~ ingressEndpoints
    /\ step' = "failed"
    /\ UNCHANGED <<ingressEndpoints, ingressPublication, memberByIdMap, correlationId,
                   nextCorrelationId, buffer, pollVars, accepted, aeronCluster>>

\* A slip the runs must notice: the correlation id is one that was not given out.
PrepareAhead(kind, session) ==
    /\ correlationId' = nextCorrelationId + 1
    /\ nextCorrelationId' = nextCorrelationId + 1
    /\ buffer' = [kind |-> kind, header |-> FALSE, correlation |-> nextCorrelationId + 1,
                  session |-> session]
    /\ step' = "SEND_MESSAGE"

\* prepareConnectRequest and prepareChallengeResponse write no message header.
Prepare(kind, session) ==
    /\ correlationId' = nextCorrelationId
    /\ nextCorrelationId' = nextCorrelationId + 1
    /\ buffer' = [kind |-> kind, header |-> FALSE, correlation |-> nextCorrelationId,
                  session |-> session]
    /\ step' = "SEND_MESSAGE"

AwaitPublicationConnected ==
    /\ At("AWAIT_PUBLICATION_CONNECTED")
    /\ connected
    /\ ingressPublication # "none" \/ memberByIdMap # {}
    /\ ingressPublication' = "open"
    /\ Prepare("SessionConnectRequest", NullValue)
    /\ UNCHANGED <<ingressEndpoints, memberByIdMap, pollVars, accepted, aeronCluster>>

\* A slip the runs must notice: the step may not be left when the offer is accepted.
SendsAgain ==
    /\ At("SEND_MESSAGE")
    /\ connected
    /\ ingress' = Append(ingress, buffer)
    /\ step' \in {step, "POLL_RESPONSE"}

OfferAccepted ==
    /\ At("SEND_MESSAGE")
    /\ connected
    /\ ingress' = Append(ingress, buffer)
    /\ step' = "POLL_RESPONSE"

SendMessage ==
    /\ OfferAccepted
    /\ UNCHANGED <<ingressEndpoints, ingressPublication, memberByIdMap, correlationId,
                   nextCorrelationId, buffer, pollVars, accepted, aeronCluster>>

\* "unexpected loss of connection to cluster"
SendMessageFails ==
    /\ At("SEND_MESSAGE")
    /\ ~ connected
    /\ step' = "failed"
    /\ UNCHANGED <<ingressEndpoints, ingressPublication, memberByIdMap, correlationId,
                   nextCorrelationId, buffer, pollVars, accepted, aeronCluster, ingress>>

-----------------------------------------------------------------------------
(* EgressPoller *)

Completes(message) == message.kind # "AdminResponse"

\* What onFragment notes of a message; leadershipTermId() returns m_leaderMemberId, so
\* that the leadership term is noted and never read.
Noted(message, m) ==
    CASE message.kind = "SessionMessage" ->
            [poller EXCEPT !.isPollComplete = TRUE, !.term = message.term,
                           !.session = message.session]
      [] message.kind = "SessionEvent" ->
            [poller EXCEPT !.isPollComplete = TRUE, !.session = message.session,
                           !.correlation = message.correlation, !.term = message.term,
                           !.leader = message.leader, !.code = message.code,
                           !.endpoints = message.endpoints, !.image = m]
      [] message.kind = "NewLeaderEvent" ->
            [poller EXCEPT !.isPollComplete = TRUE, !.session = message.session,
                           !.term = message.term, !.leader = message.leader,
                           !.endpoints = message.endpoints]
      [] message.kind = "Challenge" ->
            [poller EXCEPT !.isPollComplete = TRUE, !.session = message.session,
                           !.correlation = message.correlation]
      [] OTHER -> poller

\* A poll forgets the message of the last complete one, but not its detail and image,
\* nor whether there was a challenge.
StartPoll ==
    /\ At("POLL_RESPONSE")
    /\ egressImages = NotPolling
    /\ egressImages' = {m \in Members : egress[m] # <<>>}
    /\ fragments' = 0
    /\ poller' = IF poller.isPollComplete
                 THEN [poller EXCEPT !.isPollComplete = FALSE, !.session = NullValue,
                                     !.correlation = NullValue, !.term = NullValue,
                                     !.leader = NullValue, !.code = "NULL_VALUE"]
                 ELSE poller
    /\ UNCHANGED <<ingressEndpoints, connectVars, position>>

\* Where a poll of an image ends: at the limit, at the end, or at the first message
\* that completes it.
EndsAt(m, last) ==
    LET limit == position[m] + FragmentLimit - fragments
    IN  /\ last <= limit
        /\ \A i \in position[m] + 1 .. last - 1 : ~ Completes(egress[m][i])
        /\ \/ last \in {limit, Len(egress[m])}
           \/ last > position[m] /\ Completes(egress[m][last])

\* A slip the runs must notice: a complete poll takes fragments of the next image too.
TakesAnyway(m, last) == EndsAt(m, last)

\* A complete poll aborts at the first fragment of the next image.
TakesUpTo(m, last) ==
    IF poller.isPollComplete THEN last = position[m] ELSE EndsAt(m, last)

PollImage(m) ==
    /\ step = "POLL_RESPONSE"
    /\ m \in egressImages
    /\ egressImages' = egressImages \ {m}
    /\ \E last \in position[m] .. Len(egress[m]) :
          /\ TakesUpTo(m, last)
          /\ position' = [position EXCEPT ![m] = last]
          /\ fragments' = fragments + (last - position[m])
          /\ poller' = IF last = position[m] THEN poller ELSE Noted(egress[m][last], m)
    /\ UNCHANGED <<ingressEndpoints, connectVars>>

-----------------------------------------------------------------------------
(* pollResponse *)

EndsPoll ==
    /\ step = "POLL_RESPONSE"
    /\ egressImages = {}
    /\ egressImages' = NotPolling
    /\ UNCHANGED <<ingressEndpoints, poller, fragments, position>>

\* A slip the runs must notice: the correlation id is not compared.
AnswersAnyone == fragments > 0 /\ poller.isPollComplete

IsAnswer == fragments > 0 /\ poller.isPollComplete /\ poller.correlation = correlationId

NoAnswer ==
    /\ EndsPoll
    /\ ~ IsAnswer
    /\ UNCHANGED connectVars

AnswerChallenge ==
    /\ EndsPoll
    /\ IsAnswer /\ poller.isChallenged
    /\ accepted' = [accepted EXCEPT !.session = poller.session]
    /\ Prepare("ChallengeResponse", poller.session)
    /\ UNCHANGED <<ingressPublication, memberByIdMap, aeronCluster>>

Answer(code) == EndsPoll /\ IsAnswer /\ ~ poller.isChallenged /\ poller.code = code

\* The image is copied through a pointer that only a SessionEvent sets.
AnswerOk ==
    /\ Answer("OK")
    /\ IF poller.image = NoImage
       THEN step' = "undefined" /\ UNCHANGED accepted
       ELSE /\ step' = "CONCLUDE_CONNECT"
            /\ accepted' = [session |-> poller.session, term |-> poller.leader,
                            leader |-> poller.leader, image |-> poller.image]
    /\ UNCHANGED <<ingressPublication, memberByIdMap, correlationId, nextCorrelationId, buffer,
                   aeronCluster>>

AnswerError ==
    /\ Answer("ERROR") \/ Answer("AUTHENTICATION_REJECTED")
    /\ step' = "failed"
    /\ UNCHANGED <<ingressPublication, memberByIdMap, correlationId, nextCorrelationId, buffer,
                   accepted, aeronCluster>>

\* The first comma is found again and again; without one nothing is parsed.
ParseEnds(endpoints) == Cardinality(endpoints) <= 1

AnswerRedirect ==
    /\ Answer("REDIRECT")
    /\ accepted' = [accepted EXCEPT !.leader = poller.leader]
    /\ ingressPublication' = "none"
    /\ IF ParseEnds(poller.endpoints)
       THEN step' = "AWAIT_PUBLICATION_CONNECTED" /\ memberByIdMap' = {}
       ELSE step' = "hung" /\ UNCHANGED memberByIdMap
    /\ UNCHANGED <<correlationId, nextCorrelationId, buffer, aeronCluster>>

AnswerNothing ==
    /\ Answer("CLOSED") \/ Answer("NULL_VALUE")
    /\ UNCHANGED connectVars

PollResponse == \/ NoAnswer \/ AnswerChallenge \/ AnswerOk \/ AnswerError
                \/ AnswerRedirect \/ AnswerNothing

-----------------------------------------------------------------------------
(* concludeConnect and close *)

\* The map is copied with the leader still in it.
ConcludeConnect ==
    /\ At("CONCLUDE_CONNECT")
    /\ ingressPublication # "none"
    /\ aeronCluster' = [session |-> accepted.session, term |-> accepted.term,
                        image |-> accepted.image, members |-> memberByIdMap]
    /\ ingressPublication' = "none"
    /\ memberByIdMap' = memberByIdMap \ {accepted.leader}
    /\ step' = "DONE"
    /\ UNCHANGED <<ingressEndpoints, correlationId, nextCorrelationId, buffer, pollVars,
                   accepted>>

Steps == {"CREATE_EGRESS_SUBSCRIPTION", "CREATE_INGRESS_PUBLICATIONS",
          "AWAIT_PUBLICATION_CONNECTED", "SEND_MESSAGE", "POLL_RESPONSE", "CONCLUDE_CONNECT"}

\* The caller gives up.  Publication and subscription are closed unchecked.
Close ==
    /\ step \in Steps
    /\ egressImages = NotPolling
    /\ step' = IF ingressPublication = "none" THEN "undefined" ELSE "closed"
    /\ ingressPublication' = IF ingressPublication = "none" THEN "none" ELSE "closed"
    /\ memberByIdMap' = {}
    /\ UNCHANGED <<ingressEndpoints, correlationId, nextCorrelationId, buffer, pollVars,
                   accepted, aeronCluster>>

\* The steps of AsyncConnect::poll that offer nothing.
Poll ==
    \/ CreateEgressSubscription \/ CreateIngressPublications \/ RegistrationFails
    \/ AwaitPublicationConnected \/ StartPoll \/ (\E m \in Members : PollImage(m)) \/ PollResponse \/ ConcludeConnect
=============================================================================
