---------------------------- MODULE ServiceAgent ----------------------------
(***************************************************************************)
(* ClusteredServiceAgent: the container that runs one clustered service.   *)
(*                                                                         *)
(* It is a single thread.  AsyncConnect::poll takes it through its start   *)
(* (pc "recover", "load", "start", "startAck"); after that the container   *)
(* calls doWork over and over (pc "begin" to "poll").  Every action is     *)
(* the part of a call between two reads of something another process       *)
(* writes: the control stream, the log streams, the commit-position        *)
(* counter, a recording-position counter, the outcome of an offer.         *)
(*                                                                         *)
(* A try that finds nothing yet (a publication, a subscription, an image,  *)
(* a counter) or an offer that is back-pressured leaves the agent where it *)
(* was, to try again: such a try is a stuttering step unless it moves the  *)
(* agent on.  Cluster time and member id only travel with the positions    *)
(* and are left out.                                                       *)
(***************************************************************************)
EXTENDS ConsensusModule, SnapshotArchive

CONSTANTS
    FragmentLimit,      \* ctx.logFragmentLimit
    IsResponding,       \* ctx.isRespondingService
    Indeterminate,      \* the values an uninitialised bool member may hold
    JoinAckMayBeLost    \* whether the ack of joinActiveLog may be back-pressured

ASSUME ServiceAgentAssumption ==
    /\ FragmentLimit \in Nat \ {0}
    /\ IsResponding \in BOOLEAN
    /\ Indeterminate \subseteq BOOLEAN /\ Indeterminate # {}
    /\ JoinAckMayBeLost \in BOOLEAN

VARIABLES
    pc,                     \* the next part of AsyncConnect::poll or doWork
    logPosition,            \* m_logPosition
    leadershipTermId,       \* m_leadershipTermId
    ackId,                  \* m_ackId
    requestedAckPosition,   \* m_requestedAckPosition
    terminationPosition,    \* m_terminationPosition
    sessions,               \* m_sessions: session ids, sorted
    sessionByIdMap,         \* keys of m_sessionByIdMap
    egress,                 \* sessions whose m_responsePublicationId is set
    role,                   \* m_role
    activeLogEvent,         \* m_activeLogEvent
    image,                  \* m_image of the log adapter
    maxLogPosition,         \* m_maxLogPosition of the log adapter
    currentSnapshot,        \* m_currentSnapshot
    poll,                   \* the arguments and progress of a bounded poll
    loader,                 \* the ServiceSnapshotLoader of the start
    service,                \* the service's state: its history of callbacks
    isAbort                 \* m_isAbort, which no constructor initialises

sessionVars  == <<sessions, sessionByIdMap, egress>>
joinVars     == <<activeLogEvent, image, maxLogPosition, role>>
ackVars      == <<ackId, requestedAckPosition>>
positionVars == <<logPosition, leadershipTermId, service>>
startVars    == <<loader, isAbort, terminationPosition>>
agentVars    == <<pc, positionVars, ackVars, sessionVars, joinVars,
                  currentSnapshot, poll, startVars>>

\* nullptr
NoEvent == [type |-> "none"]
NoImage == [stream |-> 0, position |-> 0]

\* SnapshotState, by what its doWork has to do next: find its publication, find
\* the recording counter, have the service write its state, acknowledge.
SnapshotStates == [step : {"none", "publication", "recording", "state", "ack"},
                   recording : Nat]
NoSnapshot == [step |-> "none", recording |-> 0]

StartSteps == {"recover", "load", "start", "startAck"}
WorkSteps  == {"begin", "join", "log", "poll"}

AgentTypeOK ==
    /\ pc \in StartSteps \cup WorkSteps \cup {"failed"}
    /\ logPosition \in Nat \cup {NullPosition}
    /\ leadershipTermId \in Nat \cup {NullValue}
    /\ ackId \in Nat
    /\ requestedAckPosition \in Nat \cup {NullPosition}
    /\ terminationPosition \in Nat \cup {NullPosition}
    /\ sessions \in Seq(Sessions)
    /\ sessionByIdMap \in SUBSET Sessions
    /\ egress \in SUBSET Sessions
    /\ role \in Roles
    /\ activeLogEvent \in JoinLogEvents \cup {NoEvent}
    /\ image \in [stream : Nat, position : Nat]
    /\ maxLogPosition \in Nat \cup {NullPosition}
    /\ currentSnapshot \in SnapshotStates
    /\ poll \in [limit : Nat, polled : Nat]
    /\ loader \in [next : Nat \ {0}, inSnapshot : BOOLEAN]
    /\ service \in Seq(Seq(Entries))
    /\ isAbort \in BOOLEAN

\* A fresh ClusteredServiceAgent.
AgentInit ==
    /\ pc = "recover"
    /\ logPosition = NullPosition /\ leadershipTermId = NullValue
    /\ ackId = 0 /\ requestedAckPosition = NullPosition
    /\ terminationPosition = NullPosition
    /\ sessions = <<>> /\ sessionByIdMap = {} /\ egress = {}
    /\ role = "FOLLOWER"
    /\ activeLogEvent = NoEvent /\ image = NoImage /\ maxLogPosition = NullPosition
    /\ currentSnapshot = NoSnapshot
    /\ poll = [limit |-> 0, polled |-> 0]
    /\ loader = [next |-> 1, inSnapshot |-> FALSE]
    /\ service = <<>>
    /\ isAbort \in Indeterminate

-----------------------------------------------------------------------------
(* Helpers of the agent *)

\* An offer of a ServiceAck that is accepted.
OfferAck(relevantId) ==
    acks' = Append(acks, [logPosition |-> logPosition, ackId |-> ackId,
                          relevantId |-> relevantId])

\* A slip the runs must notice: the requested position is never cleared.
AckKeepsRequest(relevantId) ==
    /\ OfferAck(relevantId)
    /\ ackId' = ackId + 1
    /\ UNCHANGED requestedAckPosition

\* ack(relevantId), accepted: an ack that answers no particular request clears
\* the requested position.
Ack(relevantId) ==
    /\ OfferAck(relevantId)
    /\ ackId' = ackId + 1
    /\ requestedAckPosition' =
           IF relevantId = NullValue THEN NullPosition ELSE requestedAckPosition

\* A slip the runs must notice: the session goes to the end.
LowerBoundAtEnd(s) == Len(sessions) + 1

\* std::lower_bound over m_sessions: the first index whose id is not below s.
LowerBound(s) ==
    1 + Cardinality({i \in 1 .. Len(sessions) :
                        \A j \in 1 .. i : sessions[j] < s})

\* A slip the runs must notice: the map is forgotten.
AddSessionToVector(s) ==
    /\ UNCHANGED sessionByIdMap
    /\ LET k == LowerBound(s)
       IN  sessions' = SubSeq(sessions, 1, k - 1) \o <<s>>
                           \o SubSeq(sessions, k, Len(sessions))

AddSession(s) ==
    /\ sessionByIdMap' = sessionByIdMap \cup {s}
    /\ LET k == LowerBound(s)
       IN  sessions' = SubSeq(sessions, 1, k - 1) \o <<s>>
                           \o SubSeq(sessions, k, Len(sessions))

\* removeSession: std::find_if picks the entry with this id (m_sessions holds an
\* id once, see SessionsMatchLog).
IndexOf(s) == CHOOSE i \in 1 .. Len(sessions) : sessions[i] = s

RemoveSession(s) ==
    /\ sessionByIdMap' = sessionByIdMap \ {s}
    /\ LET k == IndexOf(s)
       IN  sessions' = SubSeq(sessions, 1, k - 1)
                           \o SubSeq(sessions, k + 1, Len(sessions))

SessionIds == {sessions[i] : i \in 1 .. Len(sessions)}

\* An exception that leaves the thread: the process ends.
Throw == pc' = "failed"

-----------------------------------------------------------------------------
(* Start: AsyncConnect::poll *)

\* Step 1: read the recovery state, and replay the snapshot if there is one.
Recover ==
    /\ pc = "recover"
    /\ logPosition' = recovery.logPosition
    /\ leadershipTermId' = recovery.term
    /\ pc' = IF recovery.term # NullValue THEN "load" ELSE "start"
    /\ UNCHANGED <<service, ackVars, sessionVars, joinVars, currentSnapshot, poll,
                   startVars, control, acks, recordings>>

\* Step 2: ServiceSnapshotLoader::onFragment, one fragment of the replay.  What the
\* service wrote is of another schema, which the loader must not meet.
LoadFragment ==
    /\ pc = "load"
    /\ loader.next <= Len(Replayed(recovery.recording))
    /\ LET f == Replayed(recovery.recording)[loader.next]
           More(in) == [next |-> loader.next + 1, inSnapshot |-> in]
       IN  \/ /\ f.type = "BEGIN" /\ ~ loader.inSnapshot
              /\ loader' = More(TRUE)
              /\ UNCHANGED <<pc, sessions, sessionByIdMap>>
           \/ /\ f.type = "SESSION"
              /\ AddSession(f.session)
              /\ loader' = More(loader.inSnapshot)
              /\ UNCHANGED pc
           \/ /\ f.type = "END" /\ loader.inSnapshot
              /\ loader' = More(TRUE)
              /\ pc' = "start"
              /\ UNCHANGED <<sessions, sessionByIdMap>>
           \/ /\ \/ f.type = "BEGIN" /\ loader.inSnapshot
                 \/ f.type = "END" /\ ~ loader.inSnapshot
                 \/ f.type = "SERVICE"
              /\ Throw
              /\ UNCHANGED <<loader, sessions, sessionByIdMap>>
    /\ UNCHANGED <<positionVars, ackVars, egress, joinVars, currentSnapshot, poll,
                   isAbort, terminationPosition, control, acks, recordings>>

\* Step 2: the replay ended before the loader saw the END marker.
SnapshotEndedUnexpectedly ==
    /\ pc = "load"
    /\ loader.next > Len(Replayed(recovery.recording))
    /\ Throw
    /\ UNCHANGED <<positionVars, ackVars, sessionVars, joinVars, currentSnapshot, poll,
                   startVars, control, acks, recordings>>

\* What is left of the replay for the service to read in onStart, if it was
\* recorded.
HasServiceState ==
    /\ recovery.term # NullValue
    /\ \E i \in 1 .. Len(Replayed(recovery.recording)) :
          Replayed(recovery.recording)[i].type = "SERVICE"

ServiceState ==
    LET fragments == Replayed(recovery.recording)
    IN  fragments[CHOOSE i \in 1 .. Len(fragments) : fragments[i].type = "SERVICE"].state

\* A slip the runs must notice: the service starts empty.
OnStartEmpty ==
    /\ pc = "start"
    /\ service' = <<>>
    /\ pc' = "startAck"
    /\ UNCHANGED <<logPosition, leadershipTermId, ackVars, sessionVars, joinVars,
                   currentSnapshot, poll, startVars, control, acks, recordings>>

\* Step 3: onStart, the service loads its own part of the snapshot.
OnStart ==
    /\ pc = "start"
    /\ service' = IF HasServiceState THEN ServiceState ELSE <<>>
    /\ pc' = "startAck"
    /\ UNCHANGED <<logPosition, leadershipTermId, ackVars, sessionVars, joinVars,
                   currentSnapshot, poll, startVars, control, acks, recordings>>

\* Step 4: tell the consensus module, with the client id, and go to work.
StartAck ==
    /\ pc = "startAck"
    /\ Ack(ClientId)
    /\ pc' = "begin"
    /\ UNCHANGED <<positionVars, sessionVars, joinVars, currentSnapshot, poll,
                   startVars, control, recordings>>

-----------------------------------------------------------------------------
(* doWork: the snapshot in progress.  Until it is acknowledged doWork returns *)
(* here, so that neither the control stream nor the log is polled.            *)

SnapshotStep(from, to) ==
    /\ pc = "begin"
    /\ currentSnapshot.step = from
    /\ currentSnapshot' = to

\* A slip the runs must notice: the recording id is not kept.
StartRecordingWithoutId ==
    /\ SnapshotStep("publication", [step |-> "recording", recording |-> NullValue])
    /\ recordings' = Append(recordings, NewRecording)
    /\ UNCHANGED <<pc, positionVars, ackVars, sessionVars, joinVars, poll, startVars,
                   control, acks>>

\* The snapshot publication is there: ask the archive to record it.
StartRecording ==
    /\ SnapshotStep("publication", [step |-> "recording",
                                    recording |-> Len(recordings) + 1])
    /\ recordings' = Append(recordings, NewRecording)
    /\ UNCHANGED <<pc, positionVars, ackVars, sessionVars, joinVars, poll, startVars,
                   control, acks>>

\* snapshotState: the markers and the sessions of this moment.
Mark(type) == [type |-> type, logPosition |-> logPosition, term |-> leadershipTermId]

SessionFragments ==
    [i \in 1 .. Len(sessions) |-> [type |-> "SESSION", session |-> sessions[i]]]

\* A slip the runs must notice: the END marker is missing.
SnapshotFragmentsWithoutEnd == <<Mark("BEGIN")>> \o SessionFragments

SnapshotFragments == <<Mark("BEGIN")>> \o SessionFragments \o <<Mark("END")>>

\* The recording counter is there: write the agent's part of the snapshot.
TakeAgentSnapshot ==
    /\ SnapshotStep("recording", [currentSnapshot EXCEPT !.step = "state"])
    /\ recordings[currentSnapshot.recording].active
    /\ recordings' = Publish(currentSnapshot.recording, SnapshotFragments)
    /\ UNCHANGED <<pc, positionVars, ackVars, sessionVars, joinVars, poll, startVars,
                   control, acks>>

\* The service's onTakeSnapshot returns true.
TakeServiceSnapshot ==
    /\ SnapshotStep("state", [currentSnapshot EXCEPT !.step = "ack"])
    /\ recordings' = Publish(currentSnapshot.recording,
                             <<[type |-> "SERVICE", state |-> service]>>)
    /\ UNCHANGED <<pc, positionVars, ackVars, sessionVars, joinVars, poll, startVars,
                   control, acks>>

\* A slip the runs must notice: the recording is acknowledged when it is written
\* to the publication.
AckSnapshotWithoutWaiting ==
    /\ SnapshotStep("ack", NoSnapshot)
    /\ Ack(currentSnapshot.recording)
    /\ UNCHANGED <<pc, positionVars, sessionVars, joinVars, poll, startVars,
                   control, recordings>>

\* The recording position has reached the publication's: acknowledge the recording.
AckSnapshot ==
    /\ SnapshotStep("ack", NoSnapshot)
    /\ LET r == currentSnapshot.recording
       IN  /\ \E counter \in CounterValues(r) :
                 counter >= Len(recordings[r].published)
           /\ Ack(r)
    /\ UNCHANGED <<pc, positionVars, sessionVars, joinVars, poll, startVars,
                   control, recordings>>

-----------------------------------------------------------------------------
(* doWork: the clock tick and the control stream *)

\* A slip the runs must notice: doWork goes on while a snapshot is taken.
ClockTickDuringSnapshot == pc = "begin" /\ ~ isAbort

\* checkForClockTick finds a millisecond gone, or doWork goes on without a tick.
ClockTick ==
    /\ pc = "begin"
    /\ currentSnapshot = NoSnapshot
    /\ ~ isAbort

NoClockTick ==
    /\ ClockTick
    /\ pc' = "log"
    /\ UNCHANGED <<positionVars, ackVars, sessionVars, joinVars, currentSnapshot, poll,
                   startVars, control, acks, recordings>>

\* m_isAbort reads true: "unexpected Aeron close".
UnexpectedAbort ==
    /\ pc = "begin"
    /\ currentSnapshot = NoSnapshot
    /\ isAbort
    /\ Throw
    /\ UNCHANGED <<positionVars, ackVars, sessionVars, joinVars, currentSnapshot, poll,
                   startVars, control, acks, recordings>>

\* m_serviceAdapter->poll(): at most one message.
NoControlMessage ==
    /\ ClockTick
    /\ control = <<>>
    /\ pc' = "join"
    /\ UNCHANGED <<positionVars, ackVars, sessionVars, joinVars, currentSnapshot, poll,
                   startVars, control, acks, recordings>>

ControlMessage(type) ==
    /\ ClockTick
    /\ control # <<>>
    /\ Head(control).type = type
    /\ control' = Tail(control)
    /\ pc' = "join"
    /\ UNCHANGED <<positionVars, sessionVars, ackId, currentSnapshot, poll, loader,
                   isAbort, role, acks, recordings>>

\* The image is dropped, whether or not it has been consumed.
OnJoinLog ==
    /\ ControlMessage("JoinLog")
    /\ maxLogPosition' = Head(control).maxLogPosition
    /\ image' = NoImage
    /\ activeLogEvent' = Head(control)
    /\ UNCHANGED <<requestedAckPosition, terminationPosition>>

OnRequestServiceAck ==
    /\ ControlMessage("RequestServiceAck")
    /\ requestedAckPosition' = Head(control).logPosition
    /\ UNCHANGED <<image, maxLogPosition, activeLogEvent, terminationPosition>>

OnServiceTerminationPosition ==
    /\ ControlMessage("ServiceTerminationPosition")
    /\ terminationPosition' = Head(control).logPosition
    /\ UNCHANGED <<image, maxLogPosition, activeLogEvent, requestedAckPosition>>

-----------------------------------------------------------------------------
(* doWork: joining a log, and the acknowledgement that was asked for *)

MayJoin == activeLogEvent # NoEvent /\ image = NoImage

\* The position the image of the event's stream was joined at.
JoinPosition == streams[activeLogEvent.stream].base

IsContiguous == /\ JoinPosition = logPosition
                /\ activeLogEvent.logPosition = logPosition

\* A slip the runs must notice: only a startup connects the sessions.
ConnectedByStartupJoin ==
    IF activeLogEvent.role = "LEADER" /\ IsResponding /\ activeLogEvent.isStartup
    THEN egress \cup SessionIds ELSE egress

\* A node that leads from now on connects the sessions it has: connect asks for a
\* response publication if the session has not asked for one.
ConnectedByJoin ==
    IF activeLogEvent.role = "LEADER" /\ IsResponding /\ ~ activeLogEvent.isStartup
    THEN egress \cup SessionIds ELSE egress

\* joinActiveLog, once the subscription has its image.  The outcome of the ack
\* is not looked at.
JoinActiveLog ==
    /\ pc = "join"
    /\ MayJoin
    /\ IsContiguous
    /\ image' = [stream |-> activeLogEvent.stream, position |-> JoinPosition]
    /\ maxLogPosition' = activeLogEvent.maxLogPosition
    /\ \/ Ack(NullValue)
       \/ JoinAckMayBeLost /\ UNCHANGED <<acks, ackVars>>
    /\ egress' = ConnectedByJoin
    /\ role' = activeLogEvent.role
    /\ activeLogEvent' = NoEvent
    /\ pc' = "log"
    /\ UNCHANGED <<positionVars, sessions, sessionByIdMap, currentSnapshot, poll,
                   startVars, control, recordings>>

\* "Cluster log must be contiguous".
JoinNotContiguous ==
    /\ pc = "join"
    /\ MayJoin
    /\ ~ IsContiguous
    /\ Throw
    /\ UNCHANGED <<positionVars, ackVars, sessionVars, joinVars, currentSnapshot, poll,
                   startVars, control, acks, recordings>>

\* A slip the runs must notice: the position has to be passed.
IsAckOverdue == /\ requestedAckPosition # NullPosition
                /\ logPosition > requestedAckPosition

\* A slip the runs must notice: a request is answered wherever the agent is.
IsAckDueAtOnce == requestedAckPosition # NullPosition

IsAckDue == /\ requestedAckPosition # NullPosition
            /\ logPosition >= requestedAckPosition

\* There was nothing to join, or not yet its image: the position has reached the
\* requested one, and the ack is accepted.  (terminate, which may precede it, is
\* empty.)
AckRequested ==
    /\ pc = "join"
    /\ IsAckDue
    /\ Ack(NullValue)
    /\ pc' = "log"
    /\ UNCHANGED <<positionVars, sessionVars, joinVars, currentSnapshot, poll,
                   startVars, control, recordings>>

\* A slip the runs must notice: a back-pressured ack clears the request.
NoAckRequestedForgets ==
    /\ pc = "join"
    /\ pc' = "log"
    /\ requestedAckPosition' = IF IsAckDue THEN NullPosition ELSE requestedAckPosition
    /\ UNCHANGED <<positionVars, ackId, sessionVars, joinVars, currentSnapshot, poll,
                   startVars, control, acks, recordings>>

\* The ack is not due, or back-pressured.
NoAckRequested ==
    /\ pc = "join"
    /\ pc' = "log"
    /\ UNCHANGED <<positionVars, ackVars, sessionVars, joinVars, currentSnapshot, poll,
                   startVars, control, acks, recordings>>

-----------------------------------------------------------------------------
(* doWork: the log *)

NoLog ==
    /\ pc = "log"
    /\ image = NoImage
    /\ pc' = "begin"
    /\ UNCHANGED <<positionVars, ackVars, sessionVars, joinVars, currentSnapshot, poll,
                   startVars, control, acks, recordings>>

\* A slip the runs must notice: the poll is bounded by the log, not the commit
\* position.
PollLogToMaxPosition ==
    /\ pc = "log"
    /\ image # NoImage
    /\ poll' = [limit |-> maxLogPosition, polled |-> 0]
    /\ pc' = "poll"
    /\ UNCHANGED <<positionVars, ackVars, sessionVars, joinVars, currentSnapshot,
                   startVars, control, acks, recordings>>

\* The commit position is read once, for the whole poll.
PollLog ==
    /\ pc = "log"
    /\ image # NoImage
    /\ poll' = [limit |-> commitPos, polled |-> 0]
    /\ pc' = "poll"
    /\ UNCHANGED <<positionVars, ackVars, sessionVars, joinVars, currentSnapshot,
                   startVars, control, acks, recordings>>

\* Slips the runs must notice: the limit is off by one, either way.
HasFragmentPastLimit ==
    /\ image.position <= poll.limit
    /\ poll.polled < FragmentLimit
    /\ image.position < StreamEnd(streams[image.stream])

HasFragmentBelowLimit ==
    /\ image.position < poll.limit - 1
    /\ poll.polled < FragmentLimit
    /\ image.position < StreamEnd(streams[image.stream])

\* boundedControlledPoll has another fragment within its limits.
HasFragment ==
    /\ image.position < poll.limit
    /\ poll.polled < FragmentLimit
    /\ image.position < StreamEnd(streams[image.stream])

NextPosition == image.position + 1
NextEvent == EntryAt(streams[image.stream], NextPosition)

\* What every handler of a log event does: take over its position, and return
\* to the poll.
OnEvent(kind) ==
    /\ pc = "poll"
    /\ HasFragment
    /\ NextEvent.kind = kind
    /\ image' = [image EXCEPT !.position = NextPosition]
    /\ poll' = [poll EXCEPT !.polled = @ + 1]
    /\ logPosition' = NextPosition
    /\ UNCHANGED <<ackVars, activeLogEvent, maxLogPosition, role, startVars,
                   control, acks, recordings>>

\* The service's callback for the event.
Callback == service' = Append(service, <<NextEvent>>)
NoCallback == service' = Append(service, <<>>)

OnSessionMessage ==
    /\ OnEvent("SessionMessage")
    /\ IF NextEvent.session \in sessionByIdMap THEN Callback ELSE NoCallback
    /\ UNCHANGED <<pc, leadershipTermId, sessionVars, currentSnapshot>>

OnTimerEvent ==
    /\ OnEvent("TimerEvent")
    /\ Callback
    /\ UNCHANGED <<pc, leadershipTermId, sessionVars, currentSnapshot>>

\* "clashing open" if the id is known.  A session that opens on a leader is connected.
OnSessionOpen ==
    /\ OnEvent("SessionOpenEvent")
    /\ IF NextEvent.session \in sessionByIdMap
       THEN /\ Throw
            /\ UNCHANGED <<service, sessionVars>>
       ELSE /\ egress' = IF role = "LEADER" /\ IsResponding
                         THEN egress \cup {NextEvent.session} ELSE egress
            /\ AddSession(NextEvent.session)
            /\ Callback
            /\ UNCHANGED pc
    /\ UNCHANGED <<leadershipTermId, currentSnapshot>>

\* "unknown clusterSessionId" if m_sessions has no such session.
OnSessionClose ==
    /\ OnEvent("SessionCloseEvent")
    /\ IF NextEvent.session \notin SessionIds
       THEN /\ Throw
            /\ sessionByIdMap' = sessionByIdMap \ {NextEvent.session}
            /\ UNCHANGED <<service, sessions, egress>>
       ELSE /\ RemoveSession(NextEvent.session)
            /\ egress' = egress \ {NextEvent.session}
            /\ Callback
            /\ UNCHANGED pc
    /\ UNCHANGED <<leadershipTermId, currentSnapshot>>

\* onServiceAction with a SNAPSHOT action: a new SnapshotState takes the place
\* of the current one.
OnTakeSnapshot ==
    /\ OnEvent("Snapshot")
    /\ currentSnapshot' = [step |-> "publication", recording |-> 0]
    /\ NoCallback
    /\ UNCHANGED <<pc, leadershipTermId, sessionVars>>

\* A slip the runs must notice: the position is taken from termBaseLogPosition.
OnNewLeadershipTermEventAtBase ==
    /\ pc = "poll"
    /\ HasFragment
    /\ NextEvent.kind = "NewLeadershipTermEvent"
    /\ image' = [image EXCEPT !.position = NextPosition]
    /\ poll' = [poll EXCEPT !.polled = @ + 1]
    /\ logPosition' = streams[image.stream].base
    /\ leadershipTermId' = NextEvent.term
    /\ Callback
    /\ UNCHANGED <<pc, sessionVars, currentSnapshot, ackVars, activeLogEvent,
                   maxLogPosition, role, startVars, control, acks, recordings>>

OnNewLeadershipTermEvent ==
    /\ OnEvent("NewLeadershipTermEvent")
    /\ leadershipTermId' = NextEvent.term
    /\ Callback
    /\ UNCHANGED <<pc, sessionVars, currentSnapshot>>

\* A member that quits calls terminate, which is empty.
OnMembershipChange ==
    /\ OnEvent("MembershipChangeEvent")
    /\ NoCallback
    /\ UNCHANGED <<pc, leadershipTermId, sessionVars, currentSnapshot>>

\* BoundedLogAdapter::isDone; the image of a stream that was left may be closed.
IsDone(closed) ==
    \/ image.position >= maxLogPosition
    \/ closed /\ image.stream # Len(streams)

\* Nothing was polled and the log is done: closeLog.
CloseLog ==
    /\ pc = "poll"
    /\ ~ HasFragment
    /\ poll.polled = 0
    /\ \E closed \in BOOLEAN : IsDone(closed)
    /\ logPosition' = IF image.position > logPosition THEN image.position
                                                      ELSE logPosition
    /\ image' = NoImage
    /\ role' = "FOLLOWER"
    /\ poll' = [limit |-> 0, polled |-> 0]
    /\ pc' = "begin"
    /\ UNCHANGED <<leadershipTermId, service, ackVars, sessionVars, activeLogEvent,
                   maxLogPosition, currentSnapshot, startVars, control, acks, recordings>>

EndPoll ==
    /\ pc = "poll"
    /\ ~ HasFragment
    /\ poll.polled > 0 \/ \E closed \in BOOLEAN : ~ IsDone(closed)
    /\ poll' = [limit |-> 0, polled |-> 0]
    /\ pc' = "begin"
    /\ UNCHANGED <<positionVars, ackVars, sessionVars, joinVars, currentSnapshot,
                   startVars, control, acks, recordings>>

-----------------------------------------------------------------------------
Startup ==
    \/ Recover \/ LoadFragment \/ SnapshotEndedUnexpectedly \/ OnStart \/ StartAck

SnapshotWork ==
    \/ StartRecording \/ TakeAgentSnapshot \/ TakeServiceSnapshot \/ AckSnapshot

PollServiceAdapter ==
    \/ NoControlMessage \/ OnJoinLog \/ OnRequestServiceAck
    \/ OnServiceTerminationPosition
    \/ JoinActiveLog \/ JoinNotContiguous \/ AckRequested \/ NoAckRequested

LogEvent ==
    \/ OnSessionMessage \/ OnTimerEvent \/ OnSessionOpen \/ OnSessionClose
    \/ OnTakeSnapshot \/ OnNewLeadershipTermEvent \/ OnMembershipChange

AgentNext ==
    /\ \/ Startup \/ SnapshotWork
       \/ NoClockTick \/ UnexpectedAbort \/ PollServiceAdapter
       \/ NoLog \/ PollLog \/ LogEvent \/ CloseLog \/ EndPoll
    /\ UNCHANGED <<log, commitPos, streams, term, cm, expectedAckId, recovery>>
=============================================================================
