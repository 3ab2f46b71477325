----------------------------- MODULE SessionProofs -----------------------------
(***************************************************************************)
(* Proofs that a leader connects its sessions, and that the leader of the  *)
(* term is asked to close every session whose closing the service was      *)
(* promised.                                                               *)
(***************************************************************************)
EXTENDS SessionInv, ServiceLogProofs

-----------------------------------------------------------------------------
(* Streams and messages *)

\* No step of the consensus module changes where a stream starts, or what it is.
StreamsKept == /\ Len(streams) \in Nat /\ Len(streams') \in Nat
               /\ Len(streams) <= Len(streams')
               /\ \A i \in 1 .. Len(streams) : /\ streams'[i].base = streams[i].base
                                               /\ streams'[i].max = streams[i].max

LEMMA EntriesReplaced ==
    ASSUME IndInv, streams # <<>>, NEW es \in Seq(Entries),
           streams' = [streams EXCEPT ![Len(streams)].entries = es]
    PROVE  StreamsKept /\ Len(streams') = Len(streams)
<1>1. /\ Len(streams') = Len(streams)
      /\ Current' = [Current EXCEPT !.entries = es]
      /\ \A i \in 1 .. Len(streams) : i # Len(streams) => streams'[i] = streams[i]
    BY CurrentReplaced
<1>2. Current \in Streams /\ Current = streams[Len(streams)] /\ Len(streams) \in Nat
    BY CurrentFacts, LenProperties DEF IndInv, TypeOK, CMTypeOK
<1>3. Current'.base = Current.base /\ Current'.max = Current.max
    BY <1>1, <1>2 DEF Streams
<1>4. Current' = streams'[Len(streams)]
    BY <1>1 DEF Current
<1> QED
    BY <1>1, <1>2, <1>3, <1>4 DEF StreamsKept

LEMMA FirstLiveKept ==
    ASSUME StreamsKept, NEW i, IsFirstLive(i)
    PROVE  IsFirstLive(i)'
<1>1. /\ i \in 1 .. Len(streams) /\ streams[i].max = NoMaxPosition
      /\ \A j \in 1 .. i - 1 : streams[j].max # NoMaxPosition
    BY DEF IsFirstLive
<1>2. \A j \in 1 .. i - 1 : j \in 1 .. Len(streams)
    BY <1>1 DEF StreamsKept
<1>3. i \in 1 .. Len(streams')
    BY <1>1 DEF StreamsKept
<1> QED
    BY <1>1, <1>2, <1>3 DEF IsFirstLive, StreamsKept

\* What a step of the consensus module does to them.
LEMMA CMStepStreams ==
    ASSUME IndInv, CMNext
    PROVE  /\ StreamsKept /\ Grows(log, log')
           /\ Len(streams') = Len(streams) =>
                 \/ control' = control
                 \/ \E m \in ControlMessages :
                       m.type # "JoinLog" /\ control' = Append(control, m)
           /\ Len(streams') # Len(streams) =>
                 /\ cm = "settled" /\ Len(streams') = Len(streams) + 1
                 /\ \E m \in ControlMessages :
                       /\ m.type = "JoinLog" /\ control' = Append(control, m)
                       /\ m.stream = Len(streams) + 1
                       /\ m.isStartup /\ m.role = "LEADER" =>
                             IsStartup /\ streams'[m.stream].max = NoMaxPosition
<1>1. /\ streams \in Seq(Streams) /\ Len(streams) \in Nat /\ log \in Seq(Entries)
      /\ Len(log) \in Nat /\ commitPos \in Nat /\ commitPos <= Len(log)
      /\ term \in Nat
    BY LenProperties DEF IndInv, PositionInv, TypeOK, CMTypeOK
<1>2. CASE AppendEntry
  <2>1. streams # <<>> /\ UNCHANGED <<log, control>>
    BY <1>2 DEF AppendEntry, IsLive
  <2>2. PICK e \in Candidates :
           streams' = [streams EXCEPT ![Len(streams)].entries = Append(Current.entries, e)]
    BY <1>2 DEF AppendEntry, Current
  <2>3. e \in Entries /\ Current.entries \in Seq(Entries)
    BY <2>1, CandidatesType, CurrentFacts, <1>2 DEF IndInv, TypeOK, AppendEntry
  <2>4. Append(Current.entries, e) \in Seq(Entries)
    BY <2>3, AppendProperties
  <2> QED
    BY <2>1, <2>2, <2>4, EntriesReplaced DEF Grows
<1>3. CASE Commit
  <2>1. /\ streams # <<>> /\ commitPos < StreamEnd(Current) /\ UNCHANGED <<streams, control>>
        /\ log' = IF commitPos < Len(log) THEN log
                  ELSE Append(log, EntryAt(Current, commitPos + 1))
    BY <1>3 DEF Commit
  <2>2. EntryAt(Current, commitPos + 1) \in Entries
    <3>1. /\ Current \in Streams /\ Current.base \in Nat /\ Current.base <= commitPos
          /\ StreamEnd(Current) \in Nat
        BY <2>1, CurrentFacts
    <3>2. commitPos + 1 \in Nat /\ Current.base < commitPos + 1
          /\ commitPos + 1 <= StreamEnd(Current)
        BY <3>1, <2>1, <1>1
    <3> QED
        BY <3>1, <3>2, EntryAtType
  <2> QED
    BY <1>1, <2>1, <2>2 DEF Grows, StreamsKept
<1>4. CASE StartReplay \/ StartTerm
  <2>1. cm = "settled" /\ UNCHANGED log
    BY <1>4 DEF StartReplay, StartTerm, OpenStream
  <2>2. PICK max \in Nat, startup \in BOOLEAN, r \in Roles :
           /\ \E entries : OpenStream(entries, max, startup, r)
           /\ startup /\ r = "LEADER" => IsStartup /\ max = NoMaxPosition
    <3>1. Len(log) \in Nat /\ NoMaxPosition \in Nat /\ IsStartup \in BOOLEAN
        BY <1>1, ClusterLogAssumption DEF NoMaxPosition, IsStartup
    <3>2. CASE StartReplay
      <4> DEFINE entries == SubSeq(log, commitPos + 1, Len(log))
      <4>1. OpenStream(entries, Len(log), TRUE, "FOLLOWER")
        BY <3>2 DEF StartReplay
      <4>2. "FOLLOWER" \in Roles /\ "FOLLOWER" # "LEADER" /\ TRUE \in BOOLEAN
        BY DEF Roles
      <4> HIDE DEF entries
      <4> QED
        BY <4>1, <4>2, <3>1
    <3>3. CASE StartTerm
      <4>1. PICK r \in Roles : OpenStream(<<>>, NoMaxPosition, IsStartup, r)
        BY <3>3 DEF StartTerm
      <4> DEFINE entries == <<>>
      <4>2. OpenStream(entries, NoMaxPosition, IsStartup, r)
        BY <4>1
      <4> HIDE DEF entries
      <4> QED
        BY <4>2, <3>1
    <3> QED
        BY <1>4, <3>2, <3>3
  <2>0. PICK entries : OpenStream(entries, max, startup, r)
    BY <2>2
  <2> DEFINE s == [base |-> commitPos, entries |-> entries, max |-> max]
             m == [type |-> "JoinLog", logPosition |-> commitPos, maxLogPosition |-> max,
                   stream |-> Len(streams) + 1, isStartup |-> startup, role |-> r]
  <2>3. streams' = Append(streams, s) /\ control' = Append(control, m)
    BY <2>0 DEF OpenStream
  <2>4. /\ m \in ControlMessages /\ m.type = "JoinLog" /\ m.stream = Len(streams) + 1
        /\ m.isStartup = startup /\ m.role = r /\ s.max = max
    <3>1. Len(streams) + 1 \in Nat \ {0}
        BY <1>1
    <3> QED
        BY <3>1, <1>1 DEF ControlMessages, JoinLogEvents
  <2> HIDE DEF m, s
  <2>5. /\ Len(streams') = Len(streams) + 1 /\ streams'[Len(streams) + 1] = s
        /\ \A i \in 1 .. Len(streams) : streams'[i] = streams[i]
    BY <1>1, <2>3
  <2>6. StreamsKept
    BY <1>1, <2>5 DEF StreamsKept
  <2>7. m.isStartup /\ m.role = "LEADER" =>
           IsStartup /\ streams'[m.stream].max = NoMaxPosition
    BY <2>2, <2>4, <2>5
  <2> QED
    BY <1>1, <2>1, <2>3, <2>4, <2>5, <2>6, <2>7 DEF Grows
<1>5. CASE LeaveStream \/ Terminate
  <2> DEFINE type == IF LeaveStream THEN "RequestServiceAck" ELSE "ServiceTerminationPosition"
             m == [type |-> type, logPosition |-> commitPos]
  <2>1. m \in ControlMessages /\ m.type # "JoinLog"
    BY <1>1 DEF ControlMessages
  <2>2. (control' = Append(control, m) \/ UNCHANGED control) /\ UNCHANGED <<log, streams>>
    BY <1>5 DEF LeaveStream, Terminate
  <2> HIDE DEF m
  <2> QED
    BY <1>1, <2>1, <2>2 DEF Grows, StreamsKept
<1>6. CASE ServiceJoined
  <2>1. UNCHANGED <<log, control, commitPos>>
    BY <1>6 DEF ServiceJoined, TakeAck
  <2>2. CASE ~ IsLive
    BY <1>1, <1>6, <2>1, <2>2 DEF ServiceJoined, Grows, StreamsKept
  <2>3. CASE IsLive
    <3> DEFINE e == [kind |-> "NewLeadershipTermEvent", session |-> NoSession,
                     open |-> OpenAt(log, commitPos), term |-> term + 1]
               es == <<e>>
    <3>1. streams # <<>> /\ streams' = [streams EXCEPT ![Len(streams)].entries = es]
        BY <1>6, <2>3 DEF ServiceJoined, IsLive
    <3>2. e \in Entries
      <4>1. OpenAt(log, commitPos) \in SUBSET Sessions
        BY <1>1, OpenAtType
      <4> QED
        BY <4>1, <1>1 DEF Entries, Kinds
    <3> HIDE DEF e
    <3>3. es \in Seq(Entries)
        BY <3>2
    <3> HIDE DEF es
    <3> QED
        BY <2>1, <3>1, <3>3, EntriesReplaced DEF Grows
  <2> QED
    BY <2>2, <2>3
<1>7. CASE ServiceStarted \/ SnapshotTaken \/ ServiceDrained \/ RejectAck
  <2>1. UNCHANGED <<log, streams, control>>
    BY <1>7 DEF ServiceStarted, SnapshotTaken, ServiceDrained, RejectAck, TakeAck
  <2> QED
    BY <1>1, <2>1 DEF Grows, StreamsKept
<1> QED
    BY <1>2, <1>3, <1>4, <1>5, <1>6, <1>7 DEF CMNext

\* Messages that are appended, and messages that are taken.
LEMMA AppendJoins ==
    ASSUME NEW q \in Seq(ControlMessages), NEW m \in ControlMessages
    PROVE  \A i \in JoinsOf(Append(q, m)) :
              \/ i \in JoinsOf(q) /\ Append(q, m)[i] = q[i]
              \/ m.type = "JoinLog" /\ Append(q, m)[i] = m
<1>1. /\ Len(q) \in Nat /\ Len(Append(q, m)) = Len(q) + 1
      /\ \A i \in 1 .. Len(q) : Append(q, m)[i] = q[i]
      /\ Append(q, m)[Len(q) + 1] = m
    BY LenProperties, AppendProperties
<1> DEFINE r == Append(q, m)
<1> HIDE DEF r
<1>2. \A i \in 1 .. Len(r) : i \in 1 .. Len(q) \/ i = Len(q) + 1
    BY <1>1 DEF r
<1> QED
    BY <1>1, <1>2 DEF JoinsOf, r

LEMMA TailJoins ==
    ASSUME NEW q \in Seq(ControlMessages), q # <<>>
    PROVE  /\ \A i \in JoinsOf(Tail(q)) : i + 1 \in JoinsOf(q) /\ Tail(q)[i] = q[i + 1]
           /\ Head(q) \in ControlMessages /\ Head(q) = q[1]
           /\ Head(q).type = "JoinLog" => 1 \in JoinsOf(q)
<1>1. /\ Len(q) \in Nat /\ Len(q) >= 1 /\ Len(Tail(q)) = Len(q) - 1
      /\ \A i \in 1 .. Len(Tail(q)) : Tail(q)[i] = q[i + 1]
      /\ Head(q) = q[1] /\ 1 \in 1 .. Len(q)
    BY LenProperties, EmptySeq, HeadTailProperties
<1>2. Head(q) \in ControlMessages
    BY <1>1, ElementOfSeq
<1>3. \A i \in 1 .. Len(Tail(q)) : i + 1 \in 1 .. Len(q)
    BY <1>1
<1> QED
    BY <1>1, <1>2, <1>3 DEF JoinsOf

-----------------------------------------------------------------------------
(* The sessions of a leader *)

LEMMA StartsFirstTermKept ==
    ASSUME StreamsKept
    PROVE  \A m : StartsFirstTerm(m) =>
              (m.isStartup /\ m.role = "LEADER" => IsFirstLive(m.stream)')
BY FirstLiveKept DEF StartsFirstTerm

LEMMA OpenAtStartupKept ==
    ASSUME IndInv, StreamsKept, Grows(log, log')
    PROVE  \A s : OpenAtStartup(s) => OpenAtStartup(s)'
<1> SUFFICES ASSUME NEW s, OpenAtStartup(s) PROVE OpenAtStartup(s)'
    OBVIOUS
<1>1. PICK i \in 1 .. Len(streams) : IsFirstLive(i) /\ s \in OpenAt(log, streams[i].base)
    BY DEF OpenAtStartup
<1>2. IsFirstLive(i)' /\ i \in 1 .. Len(streams')
    BY <1>1, FirstLiveKept DEF IsFirstLive
<1>3. streams[i].base \in 0 .. Len(log) /\ log \in Seq(Entries)
  <2>1. streams[i].base <= commitPos /\ commitPos <= Len(log) /\ streams[i].base \in Nat
    BY <1>1, StreamType DEF IndInv, StreamInv, PositionInv, TypeOK, Streams
  <2>2. commitPos \in Nat /\ Len(log) \in Nat /\ log \in Seq(Entries)
    BY LenProperties DEF IndInv, TypeOK, CMTypeOK
  <2> QED
    BY <2>1, <2>2
<1>4. OpenAt(log', streams'[i].base) = OpenAt(log, streams[i].base)
    BY <1>3, GrowsKeepsState DEF StreamsKept
<1> QED
    BY <1>1, <1>2, <1>4 DEF OpenAtStartup

LEMMA CMStepConnect ==
    ASSUME IndInv, ConnectInv, CMStep
    PROVE  ConnectInv'
<1>1. CMNext /\ UNCHANGED <<pc, egress, sessionByIdMap, role, activeLogEvent>>
    BY DEF CMStep, agentVars, sessionVars, joinVars
<1>2. StreamsKept /\ Grows(log, log')
    BY <1>1, CMStepStreams
<1>3. EgressInv'
    BY <1>1, <1>2, OpenAtStartupKept DEF ConnectInv, EgressInv
<1>4. control \in Seq(ControlMessages)
    BY DEF IndInv, TypeOK, CMTypeOK
<1>5. ASSUME NEW i \in JoinsOf(control')
      PROVE  StartsFirstTerm(control[i])'
  <2>1. CASE i \in JoinsOf(control) /\ control'[i] = control[i]
    BY <2>1, <1>2, StartsFirstTermKept DEF ConnectInv, StartupInv, StartsFirstTerm
  <2>2. CASE ~ (i \in JoinsOf(control) /\ control'[i] = control[i])
    <3>1. PICK m \in ControlMessages :
             /\ control' = Append(control, m)
             /\ m.type = "JoinLog" =>
                   /\ m.stream = Len(streams) + 1 /\ Len(streams') = Len(streams) + 1
                   /\ m.isStartup /\ m.role = "LEADER" =>
                         IsStartup /\ streams'[m.stream].max = NoMaxPosition
      <4>1. CASE Len(streams') = Len(streams)
        BY <4>1, <1>1, <2>2, CMStepStreams
      <4>2. CASE Len(streams') # Len(streams)
        BY <4>2, <1>1, CMStepStreams
      <4> QED
        BY <4>1, <4>2
    <3>2. m.type = "JoinLog" /\ control'[i] = m
        BY <2>2, <3>1, <1>4, AppendJoins
    <3>3. ASSUME m.isStartup, m.role = "LEADER"
          PROVE  IsFirstLive(m.stream)'
      <4>1. /\ m.stream = Len(streams) + 1 /\ Len(streams') = Len(streams) + 1
            /\ IsStartup /\ streams'[m.stream].max = NoMaxPosition
        BY <3>1, <3>2, <3>3
      <4>2. m.stream \in 1 .. Len(streams') /\ m.stream - 1 = Len(streams)
        BY <4>1, <1>2 DEF StreamsKept
      <4>3. \A j \in 1 .. Len(streams) : streams'[j].max # NoMaxPosition
        BY <4>1, <1>2 DEF IsStartup, StreamsKept
      <4> QED
        BY <4>1, <4>2, <4>3 DEF IsFirstLive
    <3> QED
        BY <3>2, <3>3 DEF StartsFirstTerm
  <2> QED
    BY <2>1, <2>2
<1>6. activeLogEvent' # NoEvent => StartsFirstTerm(activeLogEvent)'
    BY <1>1, <1>2, StartsFirstTermKept DEF ConnectInv, StartupInv, StartsFirstTerm
<1> QED
    BY <1>3, <1>5, <1>6 DEF ConnectInv, StartupInv

\* A step that connects no fewer of the sessions it keeps, and makes no leader.
LEMMA EgressKept ==
    ASSUME EgressInv, OthersKeep, role' \in {role, "FOLLOWER"},
           egress' \subseteq sessionByIdMap',
           sessionByIdMap' \ egress' \subseteq sessionByIdMap \ egress,
           pc' \in StartSteps => pc \in StartSteps
    PROVE  EgressInv'
<1>1. \A s : OpenAtStartup(s) => OpenAtStartup(s)'
    BY DEF OthersKeep, OpenAtStartup, IsFirstLive
<1> QED
    BY <1>1 DEF EgressInv

\* A step that leaves the messages and the joined log as they are.
LEMMA StartupKept ==
    ASSUME StartupInv, OthersKeep, control' = control, activeLogEvent' = activeLogEvent
    PROVE  StartupInv'
BY DEF StartupInv, OthersKeep, StartsFirstTerm, IsFirstLive

LEMMA ControlMessageConnect ==
    ASSUME IndInv, ConnectInv, OthersKeep,
           OnJoinLog \/ OnRequestServiceAck \/ OnServiceTerminationPosition
    PROVE  ConnectInv'
<1>1. /\ control # <<>> /\ control' = Tail(control) /\ pc' = "join" /\ role' = role
      /\ UNCHANGED <<sessionVars>>
    BY DEF OnJoinLog, OnRequestServiceAck, OnServiceTerminationPosition, ControlMessage
<1>2. control \in Seq(ControlMessages)
    BY DEF IndInv, TypeOK, CMTypeOK
<1>3. \A i \in JoinsOf(control') : StartsFirstTerm(control[i])'
  <2> SUFFICES ASSUME NEW i \in JoinsOf(control') PROVE StartsFirstTerm(control[i])'
    OBVIOUS
  <2>1. i + 1 \in JoinsOf(control) /\ control'[i] = control[i + 1]
    BY <1>1, <1>2, TailJoins
  <2>2. StartsFirstTerm(control[i + 1])
    BY <2>1 DEF ConnectInv, StartupInv
  <2> QED
    BY <2>1, <2>2 DEF StartsFirstTerm, IsFirstLive, OthersKeep
<1>4. activeLogEvent' # NoEvent => StartsFirstTerm(activeLogEvent)'
  <2>1. CASE OnJoinLog
    <3>1. activeLogEvent' = control[1] /\ 1 \in JoinsOf(control)
        BY <1>1, <1>2, <2>1, TailJoins DEF OnJoinLog, ControlMessage
    <3> QED
        BY <3>1 DEF ConnectInv, StartupInv, StartsFirstTerm, IsFirstLive, OthersKeep
  <2>2. CASE ~ OnJoinLog
    <3>1. activeLogEvent' = activeLogEvent
        BY <2>2 DEF OnRequestServiceAck, OnServiceTerminationPosition
    <3> QED
        BY <3>1 DEF ConnectInv, StartupInv, StartsFirstTerm, IsFirstLive, OthersKeep
  <2> QED
    BY <2>1, <2>2
<1>5. EgressInv'
    BY <1>1, EgressKept DEF ConnectInv, EgressInv, sessionVars, StartSteps
<1> QED
    BY <1>3, <1>4, <1>5 DEF ConnectInv, StartupInv

\* A new leader connects its sessions, but for a leader that starts up, whose sessions
\* are those at the start of its log.
LEMMA JoinActiveLogConnect ==
    ASSUME IndInv, ContentInv, ConnectInv, OthersKeep, JoinActiveLog
    PROVE  ConnectInv'
<1>1. /\ pc = "join" /\ pc' = "log" /\ activeLogEvent # NoEvent /\ IsContiguous
      /\ role' = activeLogEvent.role /\ activeLogEvent' = NoEvent
      /\ egress' = ConnectedByJoin /\ UNCHANGED <<sessionByIdMap, control>>
    BY DEF JoinActiveLog, MayJoin
<1>2. SessionIds = sessionByIdMap /\ sessionByIdMap = OpenAt(log, logPosition)
    BY <1>1 DEF ContentInv, MatchInv, VectorInv, IsStarted, WorkSteps, SessionIds, Ids
<1>3. StartupInv'
    BY <1>1 DEF ConnectInv, StartupInv, OthersKeep, StartsFirstTerm, IsFirstLive
<1>4. ASSUME IsResponding, role' = "LEADER", NEW s \in sessionByIdMap \ egress'
      PROVE  OpenAtStartup(s)'
  <2>1. activeLogEvent.role = "LEADER" /\ activeLogEvent.isStartup
    BY <1>1, <1>2, <1>4 DEF ConnectedByJoin
  <2>2. IsFirstLive(activeLogEvent.stream)
    BY <1>1, <2>1 DEF ConnectInv, StartupInv, StartsFirstTerm
  <2>3. s \in OpenAt(log, streams[activeLogEvent.stream].base)
    BY <1>1, <1>2, <1>4 DEF IsContiguous, JoinPosition
  <2>4. OpenAtStartup(s)
    BY <2>2, <2>3 DEF OpenAtStartup, IsFirstLive
  <2> QED
    BY <2>4 DEF OthersKeep, OpenAtStartup, IsFirstLive
<1>5. egress' \subseteq sessionByIdMap
    BY <1>1, <1>2 DEF ConnectedByJoin, ConnectInv, EgressInv
<1> QED
    BY <1>1, <1>3, <1>4, <1>5 DEF ConnectInv, EgressInv, StartSteps

LEMMA LogEventConnect ==
    ASSUME IndInv, ContentInv, ConnectInv, OthersKeep, LogEvent
    PROVE  ConnectInv'
<1>1. pc = "poll" /\ UNCHANGED <<activeLogEvent, control, role>> /\ pc' \in {"poll", "failed"}
    BY DEF LogEvent, OnSessionMessage, OnTimerEvent, OnSessionOpen, OnSessionClose,
           OnTakeSnapshot, OnNewLeadershipTermEvent, OnMembershipChange, OnEvent, Throw
<1>2. StartupInv'
    BY <1>1, StartupKept DEF ConnectInv
<1>3. SessionIds = sessionByIdMap
    BY <1>1 DEF ContentInv, VectorInv, SessionIds, Ids
<1>4. CASE OnSessionOpen
  <2>1. CASE UNCHANGED sessionVars
    <3>1. EgressInv'
        BY <1>1, <2>1, EgressKept DEF ConnectInv, EgressInv, sessionVars, StartSteps
    <3> QED
        BY <3>1, <1>2 DEF ConnectInv
  <2>2. CASE ~ UNCHANGED sessionVars
    <3> DEFINE s == NextEvent.session
    <3>1. /\ sessionByIdMap' = sessionByIdMap \cup {s}
          /\ egress' = IF role = "LEADER" /\ IsResponding THEN egress \cup {s} ELSE egress
        BY <1>4, <2>2 DEF OnSessionOpen, AddSession
    <3> HIDE DEF s
    <3>2. EgressInv /\ egress \subseteq sessionByIdMap /\ pc' \notin StartSteps
        BY <1>1 DEF ConnectInv, EgressInv, StartSteps
    <3>3. CASE role = "LEADER" /\ IsResponding
      <4>1. /\ egress' \subseteq sessionByIdMap'
            /\ sessionByIdMap' \ egress' \subseteq sessionByIdMap \ egress
        BY <3>1, <3>2, <3>3
      <4>2. EgressInv'
        BY <1>1, <3>2, <4>1, EgressKept
      <4> QED
        BY <4>2, <1>2 DEF ConnectInv
    <3>4. CASE ~ (role = "LEADER" /\ IsResponding)
      <4>1. EgressInv'
        BY <1>1, <3>1, <3>2, <3>4 DEF EgressInv
      <4> QED
        BY <4>1, <1>2 DEF ConnectInv
    <3> QED
        BY <3>3, <3>4
  <2> QED
    BY <2>1, <2>2
<1>5. CASE OnSessionClose
  <2>1. /\ sessionByIdMap' = sessionByIdMap \ {NextEvent.session}
        /\ egress' = egress \ {NextEvent.session}
    BY <1>3, <1>5 DEF OnSessionClose, RemoveSession, ConnectInv, EgressInv
  <2>2. /\ egress' \subseteq sessionByIdMap'
        /\ sessionByIdMap' \ egress' \subseteq sessionByIdMap \ egress
    BY <2>1 DEF ConnectInv, EgressInv
  <2>3. EgressInv'
    BY <1>1, <2>2, EgressKept DEF ConnectInv, StartSteps
  <2> QED
    BY <1>2, <2>3 DEF ConnectInv
<1>6. CASE OnSessionMessage \/ OnTimerEvent \/ OnTakeSnapshot
           \/ OnNewLeadershipTermEvent \/ OnMembershipChange
  <2>1. UNCHANGED sessionVars
    BY <1>6 DEF OnSessionMessage, OnTimerEvent, OnTakeSnapshot,
                OnNewLeadershipTermEvent, OnMembershipChange
  <2>2. EgressInv'
    BY <1>1, <2>1, EgressKept DEF ConnectInv, EgressInv, sessionVars, StartSteps
  <2> QED
    BY <1>2, <2>2 DEF ConnectInv
<1>7. EgressInv'
    BY <1>4, <1>5, <1>6 DEF LogEvent, ConnectInv
<1> QED
    BY <1>2, <1>7 DEF ConnectInv

LEMMA AgentStepConnect ==
    ASSUME IndInv, ContentInv, ConnectInv, AgentStep
    PROVE  ConnectInv'
<1>0. OthersKeep
    BY DEF AgentStep, AgentNext, OthersKeep
<1>1. CASE LoadFragment
  <2>1. /\ pc = "load" /\ UNCHANGED <<egress, role, activeLogEvent, control>>
        /\ sessionByIdMap \subseteq sessionByIdMap'
    BY <1>1 DEF LoadFragment, joinVars, AddSession
  <2>2. StartupInv'
    BY <1>0, <2>1, StartupKept DEF ConnectInv
  <2> QED
    BY <2>1, <2>2 DEF ConnectInv, EgressInv, StartSteps
<1>2. CASE OnJoinLog \/ OnRequestServiceAck \/ OnServiceTerminationPosition
    BY <1>0, <1>2, ControlMessageConnect
<1>3. CASE JoinActiveLog
    BY <1>0, <1>3, JoinActiveLogConnect
<1>4. CASE LogEvent
    BY <1>0, <1>4, LogEventConnect
<1>5. CASE \/ Recover \/ SnapshotEndedUnexpectedly \/ OnStart \/ StartAck
           \/ SnapshotWork \/ NoClockTick \/ UnexpectedAbort \/ NoControlMessage
  <2>1. /\ UNCHANGED <<sessionVars, role, activeLogEvent, control>>
        /\ pc' \in StartSteps => pc \in StartSteps
    BY <1>5 DEF Recover, SnapshotEndedUnexpectedly, OnStart, StartAck, SnapshotWork,
         StartRecording, TakeAgentSnapshot, TakeServiceSnapshot, AckSnapshot, SnapshotStep,
         NoClockTick, UnexpectedAbort, NoControlMessage, Throw, StartSteps, joinVars
  <2>2. StartupInv' /\ EgressInv'
    BY <1>0, <2>1, StartupKept, EgressKept DEF ConnectInv, EgressInv, sessionVars
  <2> QED
    BY <2>2 DEF ConnectInv
<1>6. CASE \/ JoinNotContiguous \/ AckRequested \/ NoAckRequested
           \/ NoLog \/ PollLog \/ CloseLog \/ EndPoll
  <2>1. /\ UNCHANGED <<sessionVars, activeLogEvent, control>>
        /\ role' \in {role, "FOLLOWER"} /\ pc' \notin StartSteps
    BY <1>6 DEF JoinNotContiguous, AckRequested, NoAckRequested, NoLog, PollLog,
         CloseLog, EndPoll, Throw, StartSteps, joinVars
  <2>2. StartupInv' /\ EgressInv'
    BY <1>0, <2>1, StartupKept, EgressKept DEF ConnectInv, EgressInv, sessionVars
  <2> QED
    BY <2>2 DEF ConnectInv
<1> QED
    BY <1>1, <1>2, <1>3, <1>4, <1>5, <1>6
    DEF AgentStep, AgentNext, Startup, PollServiceAdapter

LEMMA NextConnect ==
    ASSUME IndInv, ContentInv, ConnectInv, [Next]_vars
    PROVE  ConnectInv'
<1>1. CASE CMStep
    BY <1>1, CMStepConnect
<1>2. CASE ArchiveStep \/ UNCHANGED vars
  <2>1. UNCHANGED <<cmVars, agentVars>>
    BY <1>2 DEF ArchiveStep, vars
  <2>2. UNCHANGED <<log, streams, control, pc, egress, sessionByIdMap, role, activeLogEvent>>
    BY <2>1 DEF cmVars, agentVars, sessionVars, joinVars
  <2> QED
    BY <2>2 DEF ConnectInv, StartupInv, EgressInv, StartsFirstTerm, IsFirstLive, OpenAtStartup
<1>3. CASE AgentStep
    BY <1>3, AgentStepConnect
<1>4. CASE Restart
  <2>1. /\ control' = <<>> /\ activeLogEvent' = NoEvent /\ egress' = {}
        /\ role' = "FOLLOWER"
    BY <1>4 DEF Restart, CMRestart
  <2>2. JoinsOf(control') = {}
    BY <2>1 DEF JoinsOf
  <2> QED
    BY <2>1, <2>2 DEF ConnectInv, StartupInv, EgressInv
<1> QED
    BY <1>1, <1>2, <1>3, <1>4 DEF Next

\* A responding leader has asked for the response publication of every session, whether
\* it led when the session opened or not, but for those that were open when the node's
\* first term started; and no session that is gone has one.
THEOREM LeaderConnectsSessionsAlways == Reliable => (Spec => []LeaderConnectsSessions)
<1> SUFFICES ASSUME Reliable PROVE Spec => []LeaderConnectsSessions
    OBVIOUS
<1>1. Init => IndInv /\ ContentInv /\ ConnectInv
  <2> SUFFICES ASSUME Init PROVE ConnectInv
    BY InitInd, InitContent
  <2>1. control = <<>> /\ activeLogEvent = NoEvent /\ egress = {} /\ role = "FOLLOWER"
    BY DEF Init, CMInit, AgentInit
  <2>2. JoinsOf(control) = {}
    BY <2>1 DEF JoinsOf
  <2> QED
    BY <2>1, <2>2 DEF ConnectInv, StartupInv, EgressInv
<1>2. (IndInv /\ ContentInv /\ ConnectInv) /\ [Next]_vars => (IndInv /\ ContentInv /\ ConnectInv)'
    BY NextInd, NextContent, NextConnect DEF Reliable
<1>3. IndInv /\ ConnectInv => LeaderConnectsSessions
    BY DEF ConnectInv, EgressInv, OpenAtStartup, IsFirstLive, LeaderConnectsSessions
<1> QED
    BY <1>1, <1>2, <1>3, PTL DEF Spec

-----------------------------------------------------------------------------
(* The closing of sessions *)

\* Every step of the sessions is one of the node, or one that leaves it as it is.
LEMMA SessionStepIsStep ==
    ASSUME [SessionNext]_allVars
    PROVE  [Next]_vars
<1>1. CASE AgentDoes(LoadFragment) \/ AgentDoes(OnStart \/ TakeServiceSnapshot \/ LogEvent)
           \/ AgentDoes(JoinActiveLog) \/ AgentDoes(OtherAgentStep)
  <2>1. /\ \/ LoadFragment \/ OnStart \/ TakeServiceSnapshot \/ LogEvent \/ JoinActiveLog
           \/ OtherAgentStep
        /\ UNCHANGED <<log, commitPos, streams, term, cm, expectedAckId, recovery, restarts>>
    BY <1>1 DEF AgentDoes
  <2>2. AgentNext
    BY <2>1 DEF AgentNext, Startup, SnapshotWork, PollServiceAdapter, OtherAgentStep
  <2> QED
    BY <2>1, <2>2 DEF Next, AgentStep
<1>2. CASE UNCHANGED allVars \/ TakeCloseRequest
    BY <1>2 DEF allVars, TakeCloseRequest
<1> QED
    BY <1>1, <1>2 DEF SessionNext, Next, RestartSessions

\* The consensus module knows whether it leads before the service does.
LEMMA CMStepClosing ==
    ASSUME IndInv, ContentInv, ClosingInv, CMStep, LeadershipFollows,
           UNCHANGED <<flagVars, closeRequests>>
    PROVE  ClosingInv'
<1>1. CMNext /\ UNCHANGED <<sessionByIdMap, role, image, activeLogEvent>>
    BY DEF CMStep, agentVars, sessionVars, joinVars
<1>2. control \in Seq(ControlMessages) /\ StreamsKept
    BY <1>1, CMStepStreams DEF IndInv, TypeOK, CMTypeOK
<1>3. CASE Len(streams') = Len(streams)
  <2>1. UNCHANGED <<leads, asked, closing, assigned, closeRequests>>
    BY <1>3 DEF LeadershipFollows, flagVars
  <2>2. \A i \in JoinsOf(control') : i \in JoinsOf(control) /\ control'[i] = control[i]
    BY <1>1, <1>2, <1>3, CMStepStreams, AppendJoins
  <2>3. LeadsItsLog' = LeadsItsLog
    BY <1>1, <1>3 DEF LeadsItsLog
  <2> QED
    BY <1>1, <2>1, <2>2, <2>3 DEF ClosingInv, SessionTypeOK, LeadsInv, ClosingIsAsked
<1>4. CASE Len(streams') # Len(streams)
  <2>1. /\ leads' = (control'[Len(control')].role = "LEADER") /\ asked' = {}
        /\ UNCHANGED <<closing, assigned, closeRequests>>
    BY <1>4 DEF LeadershipFollows, flagVars
  <2>2. PICK m \in ControlMessages : control' = Append(control, m)
    BY <1>1, <1>4, CMStepStreams
  <2>3. Len(streams') = Len(streams) + 1 /\ cm = "settled"
    BY <1>1, <1>4, CMStepStreams
  <2>4. NoneAsked
    BY <2>3, NothingAwaited
  <2>5. JoinsOf(control) = {} /\ activeLogEvent' = NoEvent
    BY <2>4, <1>1 DEF NoneAsked, Calls, JoinsOf
  <2>6. control'[Len(control')] = m
    BY <1>2, <2>2, AppendProperties
  <2>7. \A i \in JoinsOf(control') : control'[i] = m
    BY <1>2, <2>2, <2>5, AppendJoins
  <2>8. ~ LeadsItsLog'
    <3>1. image # NoImage => image.stream \in 1 .. Len(streams)
        BY DEF IndInv, StreamInv
    <3> QED
        BY <3>1, <2>3, <1>1, <1>2 DEF LeadsItsLog, StreamsKept
  <2>9. leads' \in BOOLEAN
    BY <2>1
  <2> QED
    BY <1>1, <2>1, <2>5, <2>6, <2>7, <2>8, <2>9
    DEF ClosingInv, SessionTypeOK, LeadsInv, ClosingIsAsked
<1> QED
    BY <1>3, <1>4

\* A step of the agent that neither joins a log nor takes a message, and leads it no
\* more than before.
LEMMA LeadsKept ==
    ASSUME LeadsInv, OthersKeep, UNCHANGED <<control, activeLogEvent, leads>>,
           LeadsItsLog' => LeadsItsLog
    PROVE  LeadsInv'
BY DEF LeadsInv, JoinsOf

\* Sessions come and go, and the service may close some that are there.
LEMMA CallbackClosing ==
    ASSUME ClosingInv, OthersKeep, ServiceMayClose,
           UNCHANGED <<control, activeLogEvent>>, LeadsItsLog' => LeadsItsLog,
           sessionByIdMap' \subseteq Sessions
    PROVE  ClosingInv'
<1>1. PICK value \in ClosingInMemory :
         CloseClientSessions(IF IsCallback THEN sessionByIdMap' ELSE {},
                             Flagged(IF value THEN Arriving ELSE {}))
    BY DEF ServiceMayClose
<1> DEFINE undefined == IF value THEN Arriving ELSE {}
           called == IF IsCallback THEN sessionByIdMap' ELSE {}
           flagged == (closing \cap sessionByIdMap') \cup undefined
<1>2. PICK accepted \in SUBSET (called \ flagged) :
         /\ closing' = flagged \cup accepted
         /\ assigned' = (assigned \cap sessionByIdMap') \cup accepted
         /\ closeRequests' = closeRequests \cup accepted
    BY <1>1 DEF CloseClientSessions, Flagged
<1>3. /\ undefined \subseteq sessionByIdMap' \ sessionByIdMap
      /\ called \subseteq sessionByIdMap'
    BY DEF Arriving
<1> HIDE DEF undefined, called
<1>4. UNCHANGED <<leads, asked>>
    BY DEF ServiceMayClose
<1>5. /\ closing \subseteq sessionByIdMap /\ assigned \subseteq sessionByIdMap
      /\ closeRequests \subseteq Sessions /\ asked \subseteq Sessions /\ leads \in BOOLEAN
    BY DEF ClosingInv, SessionTypeOK
<1>6. SessionTypeOK'
    BY <1>2, <1>3, <1>4, <1>5 DEF SessionTypeOK
<1>7. closing' \cap assigned' \subseteq (closing \cap assigned) \cup accepted
    BY <1>2, <1>3, <1>5
<1>8. ClosingIsAsked'
    BY <1>2, <1>4, <1>7 DEF ClosingInv, ClosingIsAsked
<1>9. LeadsInv'
    BY <1>4, LeadsKept DEF ClosingInv
<1> QED
    BY <1>6, <1>8, <1>9 DEF ClosingInv

LEMMA JoinActiveLogClosing ==
    ASSUME IndInv, ContentInv, ClosingInv, OthersKeep, JoinActiveLog, ResetClosing
    PROVE  ClosingInv'
<1>1. /\ pc = "join" /\ activeLogEvent # NoEvent
      /\ role' = activeLogEvent.role /\ activeLogEvent' = NoEvent
      /\ UNCHANGED <<sessionByIdMap, control>>
    BY DEF JoinActiveLog, MayJoin
<1>2. UNCHANGED <<closeRequests, leads, asked>>
    BY DEF ResetClosing
<1>3. SessionIds = sessionByIdMap
    BY <1>1 DEF ContentInv, VectorInv, SessionIds, Ids
<1>4. /\ closing \subseteq sessionByIdMap /\ assigned \subseteq sessionByIdMap
      /\ closing' \subseteq closing /\ assigned' \subseteq sessionByIdMap
      /\ role' = "LEADER" => closing' = {}
    BY <1>1, <1>3 DEF ClosingInv, SessionTypeOK, ResetClosing, flagVars
<1>5. SessionTypeOK' /\ ClosingIsAsked'
    BY <1>1, <1>2, <1>4 DEF ClosingInv, SessionTypeOK, ClosingIsAsked, LeadsItsLog
<1>6. LeadsInv'
    BY <1>1, <1>2 DEF ClosingInv, LeadsInv, LeadsItsLog, JoinsOf
<1> QED
    BY <1>5, <1>6 DEF ClosingInv

\* Messages are taken in their order, and no log is led between them.
LEMMA ControlMessageClosing ==
    ASSUME IndInv, ClosingInv, OthersKeep, UNCHANGED closeVars,
           OnJoinLog \/ OnRequestServiceAck \/ OnServiceTerminationPosition
    PROVE  ClosingInv'
<1>1. /\ control # <<>> /\ control' = Tail(control) /\ role' = role
      /\ UNCHANGED sessionByIdMap /\ image' \in {image, NoImage}
      /\ UNCHANGED <<closing, assigned, closeRequests, leads, asked>>
    BY DEF OnJoinLog, OnRequestServiceAck, OnServiceTerminationPosition, ControlMessage,
           sessionVars, closeVars, flagVars
<1>2. control \in Seq(ControlMessages)
    BY DEF IndInv, TypeOK, CMTypeOK
<1>3. \A i \in JoinsOf(control') : control'[i].role = "LEADER" => leads
    BY <1>1, <1>2, TailJoins DEF ClosingInv, LeadsInv
<1>4. activeLogEvent' # NoEvent => (activeLogEvent'.role = "LEADER" => leads)
  <2>1. CASE OnJoinLog
    <3>1. activeLogEvent' = control[1] /\ 1 \in JoinsOf(control)
        BY <1>1, <1>2, <2>1, TailJoins DEF OnJoinLog, ControlMessage
    <3> QED
        BY <3>1 DEF ClosingInv, LeadsInv
  <2>2. CASE ~ OnJoinLog
    BY <2>2 DEF OnRequestServiceAck, OnServiceTerminationPosition, ClosingInv, LeadsInv
  <2> QED
    BY <2>1, <2>2
<1>5. LeadsItsLog' => LeadsItsLog
    BY <1>1 DEF LeadsItsLog, OthersKeep
<1>6. LeadsInv'
    BY <1>1, <1>3, <1>4, <1>5 DEF ClosingInv, LeadsInv
<1> QED
    BY <1>1, <1>5, <1>6 DEF ClosingInv, SessionTypeOK, ClosingIsAsked

LEMMA OtherAgentStepClosing ==
    ASSUME IndInv, ClosingInv, OthersKeep, OtherAgentStep, UNCHANGED closeVars
    PROVE  ClosingInv'
<1>1. CASE OnJoinLog \/ OnRequestServiceAck \/ OnServiceTerminationPosition
    BY <1>1, ControlMessageClosing
<1>2. CASE ~ (OnJoinLog \/ OnRequestServiceAck \/ OnServiceTerminationPosition)
  <2>1. CASE CloseLog
    <3>1. UNCHANGED <<control, activeLogEvent, sessionByIdMap>> /\ image' = NoImage
        BY <2>1 DEF CloseLog, sessionVars
    <3> QED
        BY <3>1, LeadsKept DEF ClosingInv, SessionTypeOK, ClosingIsAsked, LeadsItsLog,
           closeVars, flagVars
  <2>2. CASE ~ CloseLog
    <3>1. UNCHANGED <<control, activeLogEvent, sessionByIdMap, image, role>>
        BY <1>2, <2>2 DEF OtherAgentStep, Recover, SnapshotEndedUnexpectedly, StartAck,
           StartRecording, TakeAgentSnapshot, AckSnapshot, NoClockTick, UnexpectedAbort,
           NoControlMessage, JoinNotContiguous, AckRequested, NoAckRequested, NoLog,
           PollLog, EndPoll, sessionVars, joinVars
    <3>2. LeadsItsLog' = LeadsItsLog
        BY <3>1 DEF LeadsItsLog, OthersKeep
    <3> QED
        BY <3>1, <3>2, LeadsKept DEF ClosingInv, SessionTypeOK, ClosingIsAsked,
           closeVars, flagVars
  <2> QED
    BY <2>1, <2>2
<1> QED
    BY <1>1, <1>2

LEMMA SessionStepClosing ==
    ASSUME IndInv, ContentInv, ClosingInv, [SessionNext]_allVars, IndInv'
    PROVE  ClosingInv'
<1>1. CASE CMStep /\ LeadershipFollows /\ UNCHANGED <<flagVars, closeRequests>>
    BY <1>1, CMStepClosing
<1>2. CASE TakeCloseRequest
  <2>1. /\ UNCHANGED <<control, activeLogEvent, sessionByIdMap, image, role, streams>>
        /\ UNCHANGED <<closing, assigned, leads>>
    BY <1>2 DEF TakeCloseRequest, vars, cmVars, agentVars, sessionVars, joinVars, flagVars
  <2>2. PICK s \in closeRequests :
           /\ closeRequests' = closeRequests \ {s}
           /\ asked' = IF leads THEN asked \cup {s} ELSE asked
    BY <1>2 DEF TakeCloseRequest
  <2>3. LeadsInv' /\ LeadsItsLog' = LeadsItsLog
    BY <2>1 DEF ClosingInv, LeadsInv, LeadsItsLog, JoinsOf
  <2>4. SessionTypeOK'
    BY <2>1, <2>2 DEF ClosingInv, SessionTypeOK
  <2>5. ClosingIsAsked'
    BY <2>1, <2>2, <2>3 DEF ClosingInv, LeadsInv, ClosingIsAsked
  <2> QED
    BY <2>3, <2>4, <2>5 DEF ClosingInv
<1>3. CASE (ArchiveStep /\ UNCHANGED closeVars) \/ UNCHANGED allVars
  <2>1. UNCHANGED <<cmVars, agentVars, closeVars>>
    BY <1>3 DEF ArchiveStep, allVars, vars
  <2> QED
    BY <2>1 DEF cmVars, agentVars, sessionVars, joinVars, closeVars, flagVars,
        ClosingInv, SessionTypeOK, LeadsInv, LeadsItsLog, ClosingIsAsked, JoinsOf
<1>4. CASE AgentDoes(LoadFragment) /\ SessionsArrive
  <2>1. /\ pc = "load" /\ UNCHANGED <<control, activeLogEvent, image, leads, asked>>
        /\ UNCHANGED closeRequests /\ OthersKeep /\ sessionByIdMap \subseteq sessionByIdMap'
    BY <1>4 DEF AgentDoes, LoadFragment, SessionsArrive, joinVars, AddSession, OthersKeep
  <2>2. ~ LeadsItsLog'
    BY <2>1 DEF IndInv, StepInv, StartSteps, LeadsItsLog
  <2>3. LeadsInv'
    BY <2>1, <2>2, LeadsKept DEF ClosingInv
  <2>4. closing' \subseteq sessionByIdMap' /\ assigned' \subseteq sessionByIdMap'
    BY <1>4 DEF SessionsArrive, Flagged, Arriving
  <2> QED
    BY <2>1, <2>2, <2>3, <2>4 DEF ClosingInv, SessionTypeOK, ClosingIsAsked
<1>5. CASE AgentDoes(OnStart \/ TakeServiceSnapshot \/ LogEvent) /\ ServiceMayClose
  <2>1. (OnStart \/ TakeServiceSnapshot \/ LogEvent) /\ OthersKeep /\ ServiceMayClose
    BY <1>5 DEF AgentDoes, OthersKeep
  <2>2. sessionByIdMap' \subseteq Sessions
    BY DEF IndInv, TypeOK, AgentTypeOK
  <2>3. /\ UNCHANGED <<control, activeLogEvent, role>>
        /\ image' # NoImage => image # NoImage /\ image'.stream = image.stream
    <3>1. CASE OnStart \/ TakeServiceSnapshot
        BY <3>1 DEF OnStart, TakeServiceSnapshot, joinVars
    <3>2. CASE LogEvent
      <4>1. /\ pc = "poll" /\ UNCHANGED <<control, activeLogEvent, role>>
            /\ image' = [image EXCEPT !.position = NextPosition]
        BY <3>2 DEF LogEvent, OnSessionMessage, OnTimerEvent, OnSessionOpen,
           OnSessionClose, OnTakeSnapshot, OnNewLeadershipTermEvent, OnMembershipChange,
           OnEvent
      <4>2. image # NoImage /\ image \in [stream : Nat, position : Nat]
        BY <4>1 DEF IndInv, StepInv, TypeOK, AgentTypeOK
      <4> QED
        BY <4>1, <4>2
    <3> QED
        BY <2>1, <3>1, <3>2
  <2>4. LeadsItsLog' => LeadsItsLog
    BY <2>1, <2>3 DEF LeadsItsLog, OthersKeep
  <2> QED
    BY <2>1, <2>2, <2>3, <2>4, CallbackClosing
<1>6. CASE AgentDoes(JoinActiveLog) /\ ResetClosing
    BY <1>6, JoinActiveLogClosing DEF AgentDoes, OthersKeep
<1>7. CASE AgentDoes(OtherAgentStep) /\ UNCHANGED closeVars
    BY <1>7, OtherAgentStepClosing DEF AgentDoes, OthersKeep
<1>8. CASE RestartSessions
  <2>1. /\ control' = <<>> /\ activeLogEvent' = NoEvent /\ image' = NoImage
        /\ closing' = {} /\ assigned' = {} /\ closeRequests' = {}
        /\ leads' = FALSE /\ asked' = {}
    BY <1>8 DEF RestartSessions, Restart, CMRestart
  <2>2. JoinsOf(control') = {}
    BY <2>1 DEF JoinsOf
  <2> QED
    BY <2>1, <2>2 DEF ClosingInv, SessionTypeOK, LeadsInv, LeadsItsLog, ClosingIsAsked
<1> QED
    BY <1>1, <1>2, <1>3, <1>4, <1>5, <1>6, <1>7, <1>8 DEF SessionNext

\* The inductive invariant of a node whose service closes sessions.
THEOREM SessionInvariant ==
    Reliable => (SessionSpec => [](IndInv /\ ContentInv /\ ClosingInv))
<1> SUFFICES ASSUME Reliable
             PROVE  SessionSpec => [](IndInv /\ ContentInv /\ ClosingInv)
    OBVIOUS
<1>1. SessionInit => IndInv /\ ContentInv /\ ClosingInv
  <2> SUFFICES ASSUME SessionInit PROVE IndInv /\ ContentInv /\ ClosingInv
    OBVIOUS
  <2>1. IndInv /\ ContentInv
    BY InitInd, InitContent DEF SessionInit
  <2>2. control = <<>> /\ activeLogEvent = NoEvent /\ image = NoImage
    BY DEF SessionInit, Init, CMInit, AgentInit
  <2>3. JoinsOf(control) = {}
    BY <2>2 DEF JoinsOf
  <2> QED
    BY <2>1, <2>2, <2>3
    DEF SessionInit, ClosingInv, SessionTypeOK, LeadsInv, LeadsItsLog, ClosingIsAsked
<1>2. (IndInv /\ ContentInv /\ ClosingInv) /\ [SessionNext]_allVars
        => (IndInv /\ ContentInv /\ ClosingInv)'
  <2> SUFFICES ASSUME IndInv, ContentInv, ClosingInv, [SessionNext]_allVars
               PROVE  (IndInv /\ ContentInv /\ ClosingInv)'
    OBVIOUS
  <2>1. [Next]_vars
    BY SessionStepIsStep
  <2>2. IndInv' /\ ContentInv'
    BY <2>1, NextInd, NextContent DEF Reliable
  <2> QED
    BY <2>2, SessionStepClosing
<1> QED
    BY <1>1, <1>2, PTL DEF SessionSpec

\* A service that closes sessions in its callbacks changes nothing of what the node does:
\* whatever is proved of the node holds of the node with closing sessions too.
THEOREM ClosingImplementsNode == SessionSpec => Spec
<1>1. SessionInit => Init
    BY DEF SessionInit
<1>2. [SessionNext]_allVars => [Next]_vars
    BY SessionStepIsStep
<1> QED
    BY <1>1, <1>2, PTL DEF SessionSpec, Spec

\* The flags are those of sessions that are there, and requests are for sessions.
THEOREM SessionTypeCorrect == Reliable => (SessionSpec => []SessionTypeOK)
<1>1. ClosingInv => SessionTypeOK
    BY DEF ClosingInv
<1> QED
    BY <1>1, SessionInvariant, PTL

\* While this node leads and the service is on its log, the leader of this term is asked
\* to close every session whose closing the service was promised, whatever requests an
\* earlier term or a follower has lost.
THEOREM ClosingIsAskedAlways == Reliable => (SessionSpec => []ClosingIsAsked)
<1>1. ClosingInv => ClosingIsAsked
    BY DEF ClosingInv
<1> QED
    BY <1>1, SessionInvariant, PTL
=============================================================================
