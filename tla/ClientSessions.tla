--------------------------- MODULE ClientSessions ---------------------------
(***************************************************************************)
(* Closing client sessions: the flag m_isClosing of ContainerClientSession *)
(* and closeClientSession, on top of ClusterNode.  A step of the node is   *)
(* the same step with what it does to the flags; the service may call      *)
(* close on sessions in any callback in which the agent allows it.         *)
(***************************************************************************)
EXTENDS ClusterNode

CONSTANT ClosingInMemory    \* what an uninitialised m_isClosing may hold

ASSUME ClientSessionsAssumption ==
    ClosingInMemory \subseteq BOOLEAN /\ ClosingInMemory # {}

VARIABLES closing,          \* the sessions whose m_isClosing is true
          assigned,         \* the sessions whose m_isClosing somebody has written
          closeRequests,    \* CloseSession requests on their way, by session
          leads,            \* the consensus module leads the current stream's term
          asked             \* the sessions it was asked to close in that term

flagVars    == <<closing, assigned>>
closeVars   == <<flagVars, closeRequests, leads, asked>>
allVars == <<vars, closeVars>>

SessionInit ==
    /\ Init
    /\ closing = {} /\ assigned = {} /\ closeRequests = {}
    /\ leads = FALSE /\ asked = {}

-----------------------------------------------------------------------------
(* The consensus module: what it was asked to close is forgotten with the     *)
(* term, and a request that finds it not leading is dropped.                  *)

LeadershipFollows ==
    IF Len(streams') = Len(streams)
    THEN UNCHANGED <<leads, asked>>
    ELSE /\ leads' = (control'[Len(control')].role = "LEADER")
         /\ asked' = {}

TakeCloseRequest ==
    /\ cm # "error"
    /\ \E s \in closeRequests :
          /\ closeRequests' = closeRequests \ {s}
          /\ asked' = IF leads THEN asked \cup {s} ELSE asked
    /\ UNCHANGED <<vars, flagVars, leads>>

-----------------------------------------------------------------------------
(* The flags *)

\* Sessions that a step adds have whatever the memory held, those that it removes
\* take their flags with them.
Arriving == sessionByIdMap' \ sessionByIdMap

\* A slip the runs must notice: the flag of a session that is gone stays.
FlaggedForEver(undefined) == closing \cup undefined

Flagged(undefined) == (closing \cap sessionByIdMap') \cup undefined

SessionsArrive ==
    /\ \E value \in ClosingInMemory :
          closing' = Flagged(IF value THEN Arriving ELSE {})
    /\ assigned' = assigned \cap sessionByIdMap'
    /\ UNCHANGED <<closeRequests, leads, asked>>

\* closeClientSession for those of `called` whose offer is accepted: nothing for a
\* session that is closing, the request and the flag for another.
CloseClientSessions(called, flagged) ==
    \E accepted \in SUBSET (called \ flagged) :
       /\ closing' = flagged \cup accepted
       /\ assigned' = (assigned \cap sessionByIdMap') \cup accepted
       /\ closeRequests' = closeRequests \cup accepted

\* A callback of the service is part of the step: onStart, onTakeSnapshot, or one
\* that carries a log event.
IsCallback == \/ pc \in {"start", "begin"}
              \/ pc = "poll" /\ service' # service /\ service'[Len(service')] # <<>>

ServiceMayClose ==
    /\ \E value \in ClosingInMemory :
          CloseClientSessions(IF IsCallback THEN sessionByIdMap' ELSE {},
                              Flagged(IF value THEN Arriving ELSE {}))
    /\ UNCHANGED <<leads, asked>>

\* A slip the runs must notice: the flag is reset where the session is connected.
ResetIfConnected ==
    /\ IF activeLogEvent.role = "LEADER" /\ IsResponding /\ ~ activeLogEvent.isStartup
       THEN closing' = closing \ SessionIds /\ assigned' = assigned \cup SessionIds
       ELSE UNCHANGED flagVars
    /\ UNCHANGED <<closeRequests, leads, asked>>

\* joinActiveLog, for a node that leads from now on: resetClosing for every session.
ResetClosing ==
    /\ IF activeLogEvent.role = "LEADER"
       THEN closing' = closing \ SessionIds /\ assigned' = assigned \cup SessionIds
       ELSE UNCHANGED flagVars
    /\ UNCHANGED <<closeRequests, leads, asked>>

-----------------------------------------------------------------------------
(* What the agent does besides *)
OtherAgentStep ==
    \/ Recover \/ SnapshotEndedUnexpectedly \/ StartAck
    \/ StartRecording \/ TakeAgentSnapshot \/ AckSnapshot
    \/ NoClockTick \/ UnexpectedAbort
    \/ NoControlMessage \/ OnJoinLog \/ OnRequestServiceAck
    \/ OnServiceTerminationPosition
    \/ JoinNotContiguous \/ AckRequested \/ NoAckRequested
    \/ NoLog \/ PollLog \/ CloseLog \/ EndPoll

\* The process ends, and so does the consensus module's.
RestartSessions ==
    /\ Restart
    /\ closing' = {} /\ assigned' = {} /\ closeRequests' = {}
    /\ leads' = FALSE /\ asked' = {}

SessionNext ==
    \/ CMStep /\ LeadershipFollows /\ UNCHANGED <<flagVars, closeRequests>>
    \/ TakeCloseRequest
    \/ ArchiveStep /\ UNCHANGED closeVars
    \/ AgentDoes(LoadFragment) /\ SessionsArrive
    \/ AgentDoes(OnStart \/ TakeServiceSnapshot \/ LogEvent) /\ ServiceMayClose
    \/ AgentDoes(JoinActiveLog) /\ ResetClosing
    \/ AgentDoes(OtherAgentStep) /\ UNCHANGED closeVars
    \/ RestartSessions

SessionSpec == SessionInit /\ [][SessionNext]_allVars

-----------------------------------------------------------------------------
SessionTypeOK ==
    /\ closing \subseteq sessionByIdMap /\ assigned \subseteq sessionByIdMap
    /\ closeRequests \subseteq Sessions /\ asked \subseteq Sessions
    /\ leads \in BOOLEAN

\* While this node leads and the service is on its log, every session whose closing
\* was promised (closeClientSession returned true and the flag was written, not found
\* in memory) is one that the leader of this term is asked to close: requests that an
\* earlier term lost, or that a follower dropped, are made again.
LeadsItsLog == /\ role = "LEADER"
               /\ image # NoImage
               /\ image.stream = Len(streams)

ClosingIsAsked ==
    LeadsItsLog => closing \cap assigned \subseteq closeRequests \cup asked
=============================================================================
