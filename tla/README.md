# Verification of aeron-cluster-cpp

This directory holds TLA+ models of aeron-cluster-cpp, the C++ implementation of
the Aeron Cluster service container and client, the TLC configurations that check
them, and proofs for the TLA+ proof system. Paths of source files are relative to
the repository; `agent.cpp` and `agent.h` stand for
`src/service/ClusteredServiceAgent.cpp` and `.h`.

## The system

A cluster node runs a *consensus module* (Java, not in this repository), an
*archive* and a *clustered service*. The consensus modules agree on a log. Each
service consumes the committed part of it and must, as a deterministic state
machine, be in the same state on every node. This repository contains the
container the service runs in, and the beginnings of a client.

| Component | State | Operations | Interacts through |
|---|---|---|---|
| `ClusteredServiceAgent` | log position, leadership term, ack id, requested and termination position, sessions (a map and a sorted vector), role, the pending JoinLog event, the snapshot in progress | `AsyncConnect::poll` (start), `doWork`, and a handler for each control message and log event | counters and the log (read), the control stream (read), service acks (offered), the archive, callbacks of the service |
| `BoundedLogAdapter` | image of the log, max position, a reassembly buffer | `poll` up to the commit position, `onFragment`, `isDone`, `close` | calls the agent's log handlers |
| `ServiceAdapter` | - | `poll`, one message at a time | calls the agent's control handlers |
| `ConsensusModuleProxy` | publication | `ack`, `closeSession`, timers | offers that may be back-pressured |
| `SnapshotState`, `ServiceSnapshotTaker`, `ServiceSnapshotLoader` | publication, recording counter, loader flags | write, await and acknowledge a snapshot; load one | archive recording and replay |
| `ContainerClientSession` | response publication and its id, closing flag | `connect`, `disconnect`, `close` | agent, Aeron client |
| `RecoveryState`, `ClusterCounters` | - | find a counter, read its fields | counters the consensus module allocates |
| `AeronCluster::AsyncConnect` | step, correlation id, the request, publications by member, the session it was given | `poll`, `close` | ingress and egress streams |
| `EgressPoller` | the fields of the last message | `poll`, `onFragment` | egress stream, read by `AsyncConnect` |
| `EgressAdapter` | - | `poll`, `onFragment` | egress stream, callbacks of a client |
| `ClusterMarkFile`, configuration, programs | - | encode a header; options; loops that call the above | - |

The agent is one thread. What is hard about it is that everything it reads moves
under it, and that the parts of one operation are spread over several calls:

- *interleaving*: the commit position, the control stream, the log and the
  recording counter advance between any two reads; a request for an ack, a
  snapshot action and a join may overlap;
- *atomicity*: a SNAPSHOT action starts a procedure that takes several `doWork`
  calls, and one poll of the log may go on past the action;
- *failure*: the node stops between any two steps and starts again from the last
  acknowledged snapshot and a replay of the log;
- *unreliable offers*: every ack may be back-pressured; some callers try again
  and one does not;
- *ordering*: a new log may be joined before the previous one is consumed;
- *undefined values*: some members are read before anything is written to them.

A client is one thread as well. It shares its egress channel with other clients,
reads the streams of several members in one poll, and is sent answers to earlier
requests, closes and new leaders at any point of its connect.

What makes each component correct: the service's state is that of the log at the
agent's position (agent, log adapter); sessions are those the log has open, in
order (agent, snapshot taker and loader); a snapshot is of one position and is
durable before it is acknowledged (SnapshotState); each question of the consensus
module is answered once, in sequence, at the position it asked about (agent,
proxy); every committed entry is consumed and every question answered
(`doWork`). A client is connected to the session that was opened for its own
request, and is given all of that session and nothing else. `PROJECT.json` lists the hazards with their lines.

## Modules

| Module | Models |
|---|---|
| `ClusterLog` | the entries of the log, and what a service must have seen of a prefix |
| `ConsensusModule` | *external*: log streams, commit position, control stream, acks, recovery state |
| `SnapshotArchive` | *external*: recordings, their position counters, replays |
| `ServiceAgent` | the agent with its adapters, proxy, snapshot taker and loader |
| `ClusterNode` | the three composed, restarts, all properties, the inductive invariant |
| `CounterTable` | *external*: the counters of the media driver, shared with other processes |
| `ClientSessions` | closing flags and close requests, a layer over `ClusterNode`; with its own specification and run |
| `AgentStartup` | the resolution steps of the start, against `CounterTable`; with its own specification and runs |
| `ClusterGateway` | *external*: the cluster as its clients see it: requests, sessions, elections, egress streams |
| `ClientConnect` | `AsyncConnect` with its `EgressPoller` |
| `EgressAdapter` | the dispatch of the egress stream to a client's callbacks |
| `ClusterClient` | the three composed: connect, then listen; with its own specification and runs |
| `ReplicatedService` | an abstract specification: a deterministic service over a committed log |
| `AckBarrier` | an abstract specification: what consensus module and service make of questions and acks |
| `SessionStream` | an abstract specification: a session and the messages of each member to it |
| `MCClusterNode` | the root of the TLC runs |
| `ServiceLogInv`, `ServiceAckInv` | the inductive invariants of the service's state and of its acks, over `ClusterNode` |
| `SessionInv` | those of connecting and closing sessions, over `ClientSessions` |
| `ClusterNodeProofs`, `ServiceLogProofs`, then `ReplicatedServiceProofs` and `ServiceAckProofs`, `NoExceptionProofs` | theorems about `ClusterNode`, each resting on the ones before |
| `SessionProofs` | theorems about `ClientSessions`, resting on `ServiceLogProofs` |
| `AgentStartupProofs`, `ClusterClientProofs` | theorems about `AgentStartup` and `ClusterClient` |

### How `ServiceAgent` corresponds to the code

`pc` says which part of the thread comes next: `recover`, `load`, `start`,
`startAck` are steps 1 to 4 of `AsyncConnect::poll` (agent.cpp:163-255); `begin`
is the start of `doWork`, `join` follows the poll of the control stream in
`pollServiceAdapter`, `log` is the test of the log's image and `poll` a bounded
poll in progress; `failed` is the end of the process by an exception. An action
is the code between two reads of something another process writes. The other
variables carry the names of the members they stand for.

| Action | Code |
|---|---|
| `Recover`, `LoadFragment`, `SnapshotEndedUnexpectedly`, `OnStart`, `StartAck` | `AsyncConnect::poll`, `ServiceSnapshotLoader::onFragment` |
| `StartRecording`, `TakeAgentSnapshot`, `TakeServiceSnapshot`, `AckSnapshot` | `SnapshotState::doWork`; while it returns false `doWork` returns, so nothing else is enabled at `begin` |
| `NoClockTick`, `UnexpectedAbort` | `checkForClockTick` |
| `NoControlMessage`, `OnJoinLog`, `OnRequestServiceAck`, `OnServiceTerminationPosition` | `ServiceAdapter::poll` and the handlers |
| `JoinActiveLog`, `JoinNotContiguous`, `AckRequested`, `NoAckRequested` | the rest of `pollServiceAdapter`, `joinActiveLog`, `ack` |
| `NoLog`, `PollLog` | `doWork` from agent.cpp:335, the commit position read once |
| `OnSessionMessage` ... `OnMembershipChange` | `BoundedLogAdapter::onMessage` and the agent's handler, one entry each |
| `CloseLog`, `EndPoll` | the end of a poll, `isDone`, `closeLog` |

Attempts that find nothing (no publication, subscription, image or counter yet; a
back-pressured offer that is tried again) leave the state as it is and are
stuttering steps, unless they move the agent on: `NoAckRequested` is a requested
ack that was back-pressured, and `JoinActiveLog` may lose its ack when
`JoinAckMayBeLost`. Operators under the comment "a slip the runs must notice" are
faulty variants of a definition; nothing uses them but the mutation of that
definition, which each property is tested with.

### How `ClientSessions` corresponds to the code

Every step is a step of `ClusterNode` together with what it does to the flags
`m_isClosing` (`closing`) and to the CloseSession requests on their way.

| Operator | Code |
|---|---|
| `SessionsArrive` | `addSession`: a session is constructed, and its flag is what the memory held (`ClosingInMemory`) |
| `ServiceMayClose`, `CloseClientSessions` | the service calls `close` on sessions in a callback: `closeClientSession` (agent.cpp:410-434) returns early for a session that is closing, offers `CloseSession`, and sets the flag if the offer is accepted |
| `ResetClosing` | `joinActiveLog` of a node that leads from now on (agent.cpp:950-962): `resetClosing` for every session, whether it is connected or not |
| `LeadershipFollows`, `TakeCloseRequest` | external: the consensus module forgets with its term what it was asked to close, and drops a request when it does not lead |
| `RestartSessions` | flags and requests end with the process |

`assigned` is a history variable: the flags that somebody has written. A flag that
was found in memory promises nothing that the code could keep, so `ClosingIsAsked` is
about the others. The check of `m_isBackgroundInvocation`, which nothing writes
either, is taken to pass: if it does not, no close is ever offered.

### How `AgentStartup` corresponds to the code

It is `AsyncConnect::poll` up to what `Recover` stands for, in finer steps: one
slot of the counter table, or one getter of the recovery state, at a time.

| Action | Code |
|---|---|
| `Resolve` | the constructor's requests, and the publication, subscription and archive (agent.cpp:92-131) |
| `FindCommitPosition`, `FindRecoveryCounter` | agent.cpp:132-142 with the loops of `ClusterCounters::find` and `RecoveryState::findCounter`, which make the same tests |
| `NotConnected`, `Connected` | step 0 (144-161) |
| `GetLogPosition`, `GetLeadershipTermId`, `GetSnapshotRecordingId` | step 1 (163-174) and the getters; `getTimestamp` is one more of the same |

Meanwhile the consensus module stops, starts and allocates its counters in either
order, and other processes allocate and free theirs; a freed slot keeps its
metadata until it is given out again. `restarted` is a history variable: whether
the consensus module has stopped since the first of its counters was found.
`ClusterNode` uses the result, that a start of which this is false recovers from
one state: its `Restart` stops service and consensus module together, and
`Recover` reads the state in one step.

### How `ClientConnect` and `EgressAdapter` correspond to the code

`step` is `m_step`, by the names of `stepName`, or how the connect ended: `DONE`
(a client), `failed` (an exception), `closed` (by the caller), `undefined` (a null
pointer was dereferenced) or `hung` (a loop that does not end). An action is one call of
`AsyncConnect::poll`; in `POLL_RESPONSE` the poll of the subscription is one
action for each image, because members publish between the images.

| Action | Code (`AeronCluster.cpp`) |
|---|---|
| `CreateEgressSubscription`, `CreateIngressPublications` | steps -1 and 0 (82-171), with what the memory of a new poller holds |
| `RegistrationFails` | a resource the media driver refuses |
| `AwaitPublicationConnected`, `SendMessage`, `SendMessageFails` | steps 1 and 2 (173-230), `Prepare` with the correlation id |
| `StartPoll`, `PollImage` | `EgressPoller::poll` and `onFragment` (`EgressPoller.cpp`) |
| `NoAnswer`, `AnswerChallenge`, `AnswerOk`, `AnswerError`, `AnswerRedirect`, `AnswerNothing` | `pollResponse` (232-307), one branch each |
| `ConcludeConnect` | `concludeConnect` (309-331) |
| `Close` | `close` (401-413), which the caller may call between polls |
| `OnFragment` | `EgressAdapter::onFragment`, one fragment in any image |

What makes a connect of the code as it is impossible is a constant, so that the
rest of the protocol is not hidden behind it: `ReadsBareRequest` (the request has no
message header, `AeronCluster.cpp:203` and 280), `SharedFoundAsExclusive` (a shared
publication is looked up among the exclusive ones, 104-109). Both are FALSE of the code:
a connect without endpoints stays in `CREATE_INGRESS_PUBLICATIONS` for ever, and would
stay in `POLL_RESPONSE` behind it. The runs have them TRUE. That only adds behaviours, so
that a safety property which holds with them holds of the code too; no liveness property
here says that a connect gets through, and the theorem `NoClientAsTheCodeIs` says that with
either as the code has it none does. `ClockAtStart` is the time of the start (the deadline
passes only if it is negative). `CorrelationInMemory` is what an uninitialised correlation id may hold.
What the code does with endpoints, challenges and redirects is not a constant: it
is modelled as it is, and `connect_ends` shows where it leads.

### Abstractions

Positions are counted in entries, so an entry is never split (see *not modelled*).
Payloads, timestamps, cluster time, member ids and credentials are left out. A
client session is its id and whether it asked for its response publication
(`egress`). The service is its history of callbacks; its own snapshot is that
history. The exceptions of a lost publication, an archive error or a closed
Aeron client are not actions: they end the process, and `Restart` may do that at
any point.

### The external modules

`ConsensusModule` is written from the way the agent uses its counterpart. It
publishes entries to a live stream and commits them later; a new term drops
what was not committed. Where the agent's own guarantees depend on what it
promises, the promise is a constant:

- `AwaitDrain`: it waits, by RequestServiceAck, until the service has consumed a
  stream before it sends the next JoinLog;
- `PauseAtSnapshot`: the commit position waits at a SNAPSHOT action for its ack;
- `RecordingMayStop` (archive): a recording may be abandoned, after which its
  counter may be reused and read as anything;
- `JoinAckMayBeLost` (agent): the offer of the join ack may be back-pressured
  until its attempts are used up.

`ClusterGateway` handles the requests that a publication has accepted in their
order. `Interference` names what it may do besides opening a session: challenge,
redirect, reject, close, lose the connection, refuse a resource. It opens a session
for the correlation id of a request, and the sessions of other clients have an id
that is none of ours.

In `ConsensusModule`, a session id is given out once, ack ids are checked in sequence, and an ack that
was not asked for, or is for another position, puts it into `error`.

## What the runs check

| Run | Question | Result |
|---|---|---|
| `recovery` | Does a node whose consensus module keeps both promises work, over two terms, snapshots, replay and a restart at any point? | `TypeOK`, `ServiceMatchesLog`, `RecoverySnapshotIsDurable`, `AcksAreExpected`, `OneAnswerOutstanding`, `NoException`, `NeverGoesBack` hold, and it implements `ReplicatedService` and `AckBarrier` |
| `weak_contract` | What does the agent guarantee on its own, with neither promise, lost join acks and an `m_isAbort` that nobody has initialised (agent.h:109)? | a running agent still has `ServiceMatchesLog`, `SessionsMatchLog`, `LeaderConnectsSessions`, `ConsumesCommitted`, `SnapshotIsConsistentCut` |
| `progress` | Is everything that is awaited answered, and every committed entry consumed? | `EveryWaitEnds`, `EveryEntryIsConsumed` hold under `FairSpec` |
| `startup` | Does a start find what belongs to it in a table of counters that changes? | `TypeOK`, `RecoversFromOneState`, `CommitPositionIsLive`, `StartGetsThrough` hold, the last under `FairSpec` |
| `stale_counter` | Are the fields of the recovery state read from the active counter? | `ReadsActiveCounter` is violated: the counter is found once (agent.cpp:139), and the consensus module may restart before it is read |
| `contiguous` | May a log be joined before the last one is consumed? | `JoinedLogIsContiguous` is violated: `onJoinLog` drops the image (agent.cpp:851) and the thread ends at 923-939 |
| `service_messages` | Is a service's message shown to the service? | `ServiceMessagesAreShown` is violated: `onSessionMessage` returns if there is no session (agent.h:313), its doc says the session may be null |
| `abandoned_recording` | Is the recovery snapshot durable if a recording may stop? | `RecoverySnapshotIsDurable` is violated: the counter's value is compared, not whether it is still the recording's (agent.cpp:647) |
| `closing` | Is a session that was promised to be closed closed by the leader of the day? | `SessionTypeOK` and `ClosingIsAsked` hold, whatever an uninitialised `m_isClosing` holds |
| `connect` | Does a client get the session opened for it, and all of that session? | `TypeOK`, `ConnectsToOwnSession`, `AnsweredBeforeNextRequest`, `HearsItsSession` hold, it implements `SessionStream`, and under `FairSpec` `AnswerEndsWait` holds |
| `connect_ends` | Does every connect complete or fail? | `PollsUntilCompleteOrError` is violated: with endpoints in the context nothing fills the map of members (`AeronCluster.cpp:124`), and the deadline never passes (368) |
| `lost_join_ack` | Is a join answered? | `JoinIsAnswered` is violated: the result of the ack is ignored (agent.cpp:945), where the acks of a start (250), a snapshot (653) and a request (351) are offered again |

The properties, in words:

- `ServiceMatchesLog`: the service has been shown exactly the callbacks of the
  committed log up to the agent's position, once each and in order.
- `SessionsMatchLog`: the map and the vector hold the sessions open in the log at
  that position; the vector is sorted, which `lower_bound` relies on.
- `LeaderConnectsSessions`: a responding leader has asked for a response
  publication for every session, except those it had when its first term started,
  which the code leaves out (`!m_isStartup`).
- `ConsumesCommitted`: the agent's position is never past the commit position.
- `SnapshotIsConsistentCut`: markers, sessions and service state in a snapshot are
  of one log position, although different calls wrote them.
- `RecoverySnapshotIsDurable`: the snapshot a restart would use is completely
  recorded, and of the position that the recovery state names.
- `AcksAreExpected`, `OneAnswerOutstanding`: the consensus module never sees an
  unexpected ack, and what it waits for is on its way exactly once, as a message,
  a note the agent took of it, or an ack.
- `NeverGoesBack`: only a restart takes the position or the ack id back.
- `ImplementsReplicatedService`: with the refinement mapping at the end of
  `ClusterNode`, every step of the node is a commit, an application of the next
  entry, a completed snapshot, a recovery from it, or a stutter.
- `ImplementsAckBarrier`: one question is open at a time, and from the question to the
  end of its answer nothing is committed; the answer is given once, by a service that
  has consumed all that was committed; the ack of a snapshot makes just that position
  the one a restart goes back to. The mapping in `ClusterNode` takes an answer as sent
  from the ack until the consensus module has it, and a join ack that was not accepted
  as lost, after which only a restart goes on.
- `ClosingIsAsked`: while the node leads and is on its log, every session for which
  `closeClientSession` returned true is one that the leader of this very term is asked
  to close, or will be by a request on its way: what an earlier term lost, or a
  follower's consensus module dropped, is asked for again.
- `RecoversFromOneState`: unless the consensus module stops in between, a start
  gets position, term and snapshot of the present run of its own consensus module
  and does not fail.
- `CommitPositionIsLive`: up to then, the counter that bounds the polls is the live
  commit position of that run.
- `StartGetsThrough`: with a consensus module that stays up, a start gets through.
- `ConnectsToOwnSession`: a connected client has the session that was opened for its
  last request, as an OK event in the image it keeps said.
- `AnsweredBeforeNextRequest`: every request but the first follows an answer to the
  one before it, so that none is sent twice.
- `HearsItsSession`: callbacks are given messages of the session only, those of each
  image once and in order, and of the image it was opened in every one that was read,
  although the connect has read a part of it.
- `AnswerEndsWait`: a session event that answers the last request ends the wait for it, in
  whatever image it is, whatever is around it and whatever the memory of the poller held.
  It says nothing of a request that is not answered, of a challenge, which the poller does
  not note (`EgressPoller.cpp:124`), or of what comes after the wait.
- `ImplementsSessionStream`: a client is given one session, and the messages of each
  member to it in order, none left out or repeated, on a channel that other clients and
  the connect read and write too. What a member has for the client (`Due`) is what the
  connect has not read and, of the member that opened the session, all that follows.

### Bounds

`MaxLog`, `MaxTerm`, `MaxUncommitted`, `MaxRestarts`, `Sessions` and `Traffic` are
constants that appear in guards of the environment only; nothing the agent does
is bounded. `recovery` has a log of five entries: enough for a term event, a
session that opens, a snapshot action with an entry polled behind it and a second
term in which the log is replayed, with a restart anywhere. A fragment limit of 2
makes a poll end by its limit as well as by the commit position. `weak_contract`
has two sessions, so that order in the vector matters, and two uncommitted
entries, so that a stream has a tail that is never committed. `closing` has two
sessions, a log of four entries, two terms and a restart: enough for a session that
is closed by a follower that leads in the next term, and for one that is closed in a
term that ends before the request is taken. `progress` needs no
sessions: what is awaited depends on positions and snapshots only; it has a
restart and two terms. Deadlock is checked in `recovery`, `progress` and the two runs of
`AgentStartup`. In the other runs the
bounds stop a behaviour (the last term ends, or an exception comes after the last
restart), so it is not.

`startup` has three slots, two runs of the consensus module and one counter of
another process at a time: enough for a slot that is free before the one looked
for, a slot that is reused by the next run or by another cluster, and a scan that
goes on while that happens.

`connect` has two members, so that a poll goes over two images and a redirect has
where to go; one challenge, two terms and two messages nobody asked for, so that an
answer has company before and behind it; and a fragment limit of 2, so that a poll
may end by its limit between an unrelated message and the answer. Deadlock is not
checked in the two runs of the client: a connect ends. `connect_ends` lets the cluster
challenge and redirect, and nothing else go wrong.

### Fairness

`Fairness` in `ClusterNode` asks for weak fairness of the agent's thread, which
`src/service/service-main.cpp:97-101` justifies: it calls `doWork` for ever. Three
actions have strong fairness, because they are enabled again and again and the
thread may pass them by each time: a clock tick, since a millisecond passes at
last; the success of `JoinActiveLog`, since the image of a stream that exists
appears; and the success of a requested ack, since back-pressure ends. The
archive is weakly fair for recording. The consensus module is weakly fair for
taking acks, replaying and committing what it has published, never for
appending, electing or stopping. `Restart` is not fair. In `AgentStartup` the
thread that polls is weakly fair (`service-main.cpp:85-94`); strong fairness says
that what the start asks for again and again (the media driver's resources, the
connection) is there at last, and that a consensus module that stays up allocates
its counters. In `ClusterClient` the connect is polled for ever, as
`main.cpp:16-18` does, and so is weakly fair; `AnswerEndsWait` needs no more than that. The
rest of its fairness is a kind environment, which makes the refutation in `connect_ends`
the stronger: a publication that is connected from time to time is found so at last
(strong), requests are handled and connections come back (weak); what nobody asked for is
not fair. `OnFragment` is not fair either: nothing in the repository constructs or polls an
`EgressAdapter`, so that nothing is claimed to be heard at last, only that what is
heard is right (`HearsItsSession`, `ImplementsSessionStream`).

## What is proved

`ClusterNodeProofs` proves, for every value of the constants their assumptions
allow (any set of sessions, any bounds, any of the contracts above):

| Theorem | Statement |
|---|---|
| `IndexesInBounds` | `Spec => []IndInv` |
| `TypeCorrect` | `Spec => []TypeOK` |
| `ConsumesCommittedAlways` | `Spec => []ConsumesCommitted` |
| `NeverGoesBackAlways` | `Spec => NeverGoesBack` |

`ServiceLogProofs` and `ReplicatedServiceProofs` prove, for an archive whose
recordings are not abandoned (`Reliable`, which is `RecordingMayStop = FALSE`) and for
every value of the other constants:

| Theorem | Statement |
|---|---|
| `ServiceLogInvariant` | `Reliable => (Spec => [](IndInv /\ ContentInv))` |
| `ServiceMatchesLogAlways` | `Reliable => (Spec => []ServiceMatchesLog)` |
| `SessionsMatchLogAlways` | `Reliable => (Spec => []SessionsMatchLog)` |
| `AddSessionSorted`, `RemoveSessionSorted` | insertion at the lower bound, and removal, keep the vector sorted and change it by just that session |
| `SessionsInSnapshot` | the fragments of a snapshot give back the sessions it was made of |
| `SnapshotIsConsistentCutAlways` | `Reliable => (Spec => []SnapshotIsConsistentCut)` |
| `RecoverySnapshotIsDurableAlways` | `Reliable => (Spec => []RecoverySnapshotIsDurable)` |
| `NodeImplementsReplicatedService` | `Reliable => (Spec => ImplementsReplicatedService)` |

Neither `AwaitDrain` nor `PauseAtSnapshot` is assumed, and the ack of a join may be
lost: what the service is in does not depend on them. The one assumption cannot be
dropped: the run `abandoned_recording` shows a node that breaks
`RecoverySnapshotIsDurable` without it.

`ServiceAckProofs` and `NoExceptionProofs` prove what does depend on them. `Promises` is
`Reliable`, `AwaitDrain` and `PauseAtSnapshot`; join acks may still be lost:

| Theorem | Statement |
|---|---|
| `ServiceAckInvariant` | `Promises => (Spec => [](IndInv /\ ContentInv /\ AckInv))` |
| `AcksAreExpectedAlways` | `Promises => (Spec => []AcksAreExpected)` |
| `OneAnswerOutstandingAlways` | `Promises => (Spec => []OneAnswerOutstanding)` |
| `NodeImplementsAckBarrier` | `Promises => (Spec => ImplementsAckBarrier)` |
| `JoinedLogIsContiguousAlways` | `Promises => (Spec => []JoinedLogIsContiguous)` |
| `NoExceptionAlways` | `Promises /\ Indeterminate = {FALSE} => (Spec => []NoException)` |

The last one needs to know that `m_isAbort` happens to be false, because `checkForClockTick`
throws on it and no constructor writes it (agent.h:109). `JoinedLogIsContiguousAlways` is the
other side of the run `contiguous`: without `AwaitDrain` the check of `joinActiveLog` throws,
with it never.

`SessionProofs` proves, again without either promise:

| Theorem | Statement |
|---|---|
| `LeaderConnectsSessionsAlways` | `Reliable => (Spec => []LeaderConnectsSessions)` |
| `ClosingImplementsNode` | `SessionSpec => Spec`, so that what is proved of the node holds with closing sessions too |
| `SessionInvariant` | `Reliable => (SessionSpec => [](IndInv /\ ContentInv /\ ClosingInv))` |
| `SessionTypeCorrect` | `Reliable => (SessionSpec => []SessionTypeOK)` |
| `ClosingIsAskedAlways` | `Reliable => (SessionSpec => []ClosingIsAsked)` |

`AgentStartupProofs` proves, for every number of slots, runs and other counters:

| Theorem | Statement |
|---|---|
| `StartInvariant` | `Spec => []IndInv` |
| `StartTypeCorrect` | `Spec => []TypeOK` |
| `RecoversFromOneStateAlways` | `Spec => []RecoversFromOneState` |
| `CommitPositionIsLiveAlways` | `Spec => []CommitPositionIsLive` |

`ClusterClientProofs` proves, for any members and bounds, any interference and any
content of uninitialised memory (but for `AnsweredBeforeNextRequestAlways`):

| Theorem | Statement |
|---|---|
| `ConnectInvariant` | `Spec => []IndInv` |
| `ConnectTypeCorrect` | `Spec => []TypeOK` |
| `ConnectsToOwnSessionAlways` | `Spec => []ConnectsToOwnSession` |
| `HearsItsSessionAlways` | `Spec => []HearsItsSession` |
| `ClientImplementsSessionStream` | `Spec => ImplementsSessionStream` |
| `AnsweredBeforeNextRequestAlways` | `NoIdInMemory => (Spec => []AnsweredBeforeNextRequest)` |
| `NoClientAsTheCodeIs` | `AsTheCodeIs => (Spec => [](step # "DONE"))` |

`NoIdInMemory` says that what the memory of a new poller holds as a correlation id is not one
this client will be given. The code compares that id with its own before anything writes
it, if the memory also says that no poll is complete; the run has the same restriction.
`AsTheCodeIs` says that one of `SharedFoundAsExclusive` and `ReadsBareRequest` is FALSE.
`BareInv` carries that theorem: no request has a header, no session is opened, and where no
publication is found nothing is sent; `ConnectsToOwnSession` would have a session for a client.

### The argument for `ClusterNode`

`TypeOK` is not inductive. The state refers to itself by index: the image and the
JoinLog event name a stream, acks and the recovery state name a recording, an
entry is looked up in a stream between its base and its end. A step keeps types
only if these indexes are in bounds. `IndInv` adds what says so, in four parts:

- `PositionInv`: log, commit, poll and recovery positions are ordered;
- `StreamInv`: every stream that is named exists, and the image stands where the
  agent's position is;
- `StepInv`: what the agent has at each `pc`;
- `RecordingInv`: every recording that is named exists, and a snapshot, its ack
  and the recovery state have a position of at least 1.

The proof has an initial-state lemma, lemmas on the operators (sequences built by
`AddSession` and `RemoveSession`, fragments of a snapshot, what a replay holds),
one lemma per action, and one per process (`CMStepInd`, `ArchiveStepInd`,
`AgentStepInd`, `RestartInd`) that `NextInd` puts together. `ConsumesCommitted`
follows from `PositionInv` and `NeverGoesBack` from `IndInv` before the step.

### The argument for the service's state

`ServiceMatchesLog` compares the service with the log, and what the agent reads is a
stream. `ContentInv` (module `ServiceLogInv`) adds what relates the two:

- `IsLog`, `CurrentInv`: each entry follows the one before it (its sessions, its
  term), a live stream is what the log grows by, another is a replay of it;
- `CallInv`: one thing is awaited at a time, as a message, what the agent noted of it,
  or its ack. So an ack that starts commits of a stream is that of its join;
- `ImageInv`: then the committed part of the image the agent reads is the log, whether
  it has left an earlier stream half read or not;
- `VectorInv`: the sorted vector holds the sessions of the map;
- `ProgressInv`, `SnapshotInv`: what a snapshot has written so far is of the agent's
  position, which does not move until it is acknowledged; an acknowledged one, and that
  of the next recovery, is complete;
- `LoadInv`: a start has loaded a prefix of the sessions of that snapshot;
- `MatchInv`: the state is that of the log at the position.

The case that carries the argument is an entry of the log (`LogEvent`): `ImageInv` says
which entry it is, `IsLog` what it does to sessions and term, `MatchInv` does the rest.
The other hard cases are `CommitEntries` (the new part of the log is that of the stream
the agent is on), `TakeAck` (it is the ack of what is awaited) and `Restart` with
`LoadFragment` (the fragments of a complete snapshot give back its sessions, and the
loader never refuses them).

The refinement needs a history besides. The abstract specification keeps the snapshots
a recovery may start from as states of the service; `HistoryInv` says that those which
are acknowledged and on their way are states the service went through, in order. Each
process then has a lemma that maps its step to a commit, an application of the next
entry, a completed snapshot, a recovery or a stutter.

### The argument for acks and exceptions

`AcksAreExpected` says nothing about the step that sends an ack; the consensus module
compares it later with a state of its own. `AckInv` (module `ServiceAckInv`) says that
this state has not moved:

- `AckOrderInv`: at most one ack is on its way, and it is the expected one;
- `StartedInv`: the start's ack is of the position of the recovery;
- `CalledInv`: whatever calls for an ack (a message, a noted JoinLog or request) names the
  commit position, which stands still while something is awaited;
- `CaughtUpInv`: the agent is at the commit position when it acknowledges it;
- `SnapshotAheadInv`: of the snapshot actions the agent has not come to there is at most
  the one at which commits wait, so that a poll never goes on past one.

The refinement of `AckBarrier` needs no more: `CalledInv` and `CaughtUpInv` say that an ack
is given at the committed position, `CallInv` and `AckOrderInv` that a question is asked
only when none is open and that its answer is on its way once, and `CurrentInv` that a
stream is opened where the log ends, which makes a joined log contiguous.

`OneAnswerOutstanding` then counts what `CallInv` and `AckInv` place. For `NoException`,
`FitInv` adds that a session in the log was opened once and is closed while it is open (an
id that was given out is mentioned in the log or the live stream for ever). With
`MatchInv` the agent's sessions are those of the log, so neither `onSessionOpen` nor
`onSessionClose` throws; with `CalledInv` and `CaughtUpInv` a log is joined at the agent's
position; with `LoadInv` the loader sees the end of the snapshot.

### The argument for client sessions

`LeaderConnectsSessions` is broken by a stream that starts up as leader after the first
one: the code connects no session then. `ConnectInv` says that of the live streams of a
run of the node only the first is joined so, in each place the JoinLog may be (a message,
the agent's note); and that the sessions without a publication are then those its base
had open. `ClosingIsAsked` relates the flag of a session to a request for the leader of
this term. `ClosingInv` carries it over with `LeadsInv`: the consensus module leads before
the service learns it does, so a request offered by a leading service is never dropped,
and what an earlier term left behind is reset by the join that makes the service lead.

### The argument for `AgentStartup`

Each getter reads a slot that was matched many steps before, so the property says
nothing about the step that reads. `IndInv` carries the match over: `OwnersInv`
(an allocated counter of our cluster is of the present run, and there is one only
while it is up), `FoundInv` (a slot that was found is still that counter) and
`ReadInv` (each field that was read is of the present run), the last two unless
`restarted`. Other processes keep `FoundInv` because a slot that is allocated is not
given out (`AllocateKeeps`), a new run because it starts only after a stop. Step
lemmas follow the parts of the poll: `SearchInd` up to step 0, `StepInd` after it.

### The argument for `ClusterClient`

The poller holds fields of several messages at once, and the connect accepts them many
steps after the cluster has decided. `IndInv` follows the answer through: `OpenedInv`
(an OK event in a stream is another client's or tells of a session that is opened for
its correlation id), `NotedInv` (once the poller has an image, a code it holds is that
of the event which completed the poll, and so are session and correlation id),
`AcceptedInv` (what the connect has accepted is an OK event for its request). They
hold together because correlation ids of this client are at least 1, those of the other
are not, and a poll that is complete takes nothing more.

`AnsweredInv` does the same for requests: before each offer the last one is answered, by a
message that was read (`StepsBeforeOffer`), and from the offer on the connect waits for just
that one. `HearsItsSession` takes three facts (`ListenInv`): the OK event of a session is
the only one, and what follows it in its image for that session has a callback
(`OrderInv`); the OK event that is accepted is the last message read of its image
(`LastInv`), so that a connect has consumed nothing of the session; and from there on
the adapter reads one message after the other.

The refinement of `SessionStream` rests on these. A step of the cluster sends one message or
none (`GatewaySends`), so that what is due grows by the last or not at all (`DueGrows`). A
fragment the adapter gives to a callback is the least that is due: `HearsItsSession` says
that no earlier one of the opening image was passed over, and of another image those that
the connect has read are not due. One it does not give was not due either
(`OnFragmentStream`).

### What is left to TLC

Every safety property that a run finds to hold has a theorem, under the assumptions named.
What is only model-checked is liveness (`EveryWaitEnds`, `EveryEntryIsConsumed`,
`StartGetsThrough`, `AnswerEndsWait`) and the refuted properties.
Liveness stays with TLC: fairness and ENABLED are out of the prover's reach, and so is
induction over data. No module declares a RECURSIVE operator.

## Not modelled

- *Other calls of the service on the cluster.* The agent can cancel a timer and has no
  way to schedule one, and `offer` of a session and of the cluster are stubs. Of the
  uninitialised `m_isBackgroundInvocation`, on which each call throws, only the value
  that lets calls pass is modelled.
- *Response publications*: `connect` looks a shared publication up among the
  exclusive ones and gives up after three attempts. The model stops at the
  request for it.
- *Reassembly* of fragmented messages. `BoundedLogAdapter::onFragment` reassembles by
  the header's flags what comes through a `ControlledFragmentAssembler` of the Aeron
  client, which has done so before. Whether the flags it then sees are those of the last
  fragment or of a whole message depends on the version of the client, which the build
  does not pin, so a model would be of a guess. Entries of the model are unfragmented.
- *The rest of the client.* A connected `AeronCluster` has no operation in the code,
  `AeronCluster::connect` is a stub, nothing calls `IngressSessionDecorator`, and
  `AeronCluster` does not construct an `EgressAdapter`. Payloads are left out, and with
  them the offset at `EgressAdapter.cpp:81`. `EgressPoller::leadershipTermId` returns the
  member id (`EgressPoller.h:46`), which the model follows; nothing reads it afterwards.
- *Termination*: `terminate` is empty; the position is recorded and nothing follows.
- *Mark file, configuration, codecs, programs*: unused, accessors, generated, or loops.

## Plan

The plan is carried out. What would come next depends on the code: a connected client with
operations of its own, timers that can be scheduled, a response publication that is found,
and a build that pins the version of the Aeron client, so that reassembly can be modelled.
