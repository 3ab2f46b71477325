--------------------------- MODULE NoExceptionProofs ---------------------------
(***************************************************************************)
(* Proof that no exception ends the agent's thread, if the consensus       *)
(* module and the archive keep their promises and the flag that no         *)
(* constructor initialises is not set.                                     *)
(***************************************************************************)
EXTENDS ServiceAckProofs

-----------------------------------------------------------------------------
(* Sessions are opened once, and closed while they are open *)

LEMMA FitKept ==
    ASSUME FitLog, FitCurrent, UNCHANGED <<log, streams>>
    PROVE  FitLog' /\ FitCurrent'
BY DEF FitLog, FitCurrent, IsLive, Current

\* A session that was given out before is not opened again.
LEMMA CandidateFits ==
    ASSUME IndInv, FitCurrent, IsLive,
           Len(Current.entries) \in 1 .. Len(Current.entries),
           OpenAtEnd = Current.entries[Len(Current.entries)].open,
           NEW e \in Candidates
    PROVE  /\ Fits(e, OpenAtEnd)
           /\ \A s \in e.open : s \in OpenAtEnd \/ e.session = s
<1> DEFINE Entry(kind, session, after) ==
               [kind |-> kind, session |-> session, open |-> after, term |-> term]
           n == Len(Current.entries)
<1>1. \/ \E s \in {t \in Sessions : ~ IsKnown(t)} :
            e = Entry("SessionOpenEvent", s, OpenAtEnd \cup {s})
      \/ \E s \in OpenAtEnd : e = Entry("SessionCloseEvent", s, OpenAtEnd \ {s})
      \/ \E s \in OpenAtEnd \cup {NoSession} : e = Entry("SessionMessage", s, OpenAtEnd)
      \/ \E k \in {"TimerEvent", "Snapshot", "MembershipChangeEvent"} :
            e = Entry(k, NoSession, OpenAtEnd)
    BY DEF Candidates
<1>2. ASSUME NEW s, ~ IsKnown(s) PROVE s \notin OpenAtEnd
  <2>1. \A t \in Current.entries[n].open :
            IsMentioned(log, t) \/ \E j \in 1 .. n : Current.entries[j].session = t
    BY DEF FitCurrent
  <2> QED
    BY <1>2, <2>1 DEF IsKnown, IsMentioned
<1>3. ASSUME NEW s, ~ IsKnown(s), e = Entry("SessionOpenEvent", s, OpenAtEnd \cup {s})
      PROVE  /\ e.kind = "SessionOpenEvent" /\ e.session \notin OpenAtEnd
             /\ e.open = OpenAtEnd \cup {e.session}
    BY <1>2, <1>3
<1>4. ASSUME NEW s \in OpenAtEnd, e = Entry("SessionCloseEvent", s, OpenAtEnd \ {s})
      PROVE  e.kind = "SessionCloseEvent" /\ e.session \in OpenAtEnd /\ e.open \subseteq OpenAtEnd
    BY <1>4
<1>5. ASSUME NEW s, NEW k \in {"SessionMessage", "TimerEvent", "Snapshot",
                               "MembershipChangeEvent"},
             e = Entry(k, s, OpenAtEnd)
      PROVE  /\ e.kind # "SessionOpenEvent" /\ e.kind # "SessionCloseEvent"
             /\ e.open = OpenAtEnd
  <2>1. e.kind = k /\ e.open = OpenAtEnd
    BY <1>5
  <2> QED
    BY <2>1
<1> HIDE DEF Entry
<1>6. CASE \E s \in {t \in Sessions : ~ IsKnown(t)} :
              e = Entry("SessionOpenEvent", s, OpenAtEnd \cup {s})
    BY <1>6, <1>3 DEF Fits
<1>7. CASE \E s \in OpenAtEnd : e = Entry("SessionCloseEvent", s, OpenAtEnd \ {s})
    BY <1>7, <1>4 DEF Fits
<1>8. CASE \/ \E s \in OpenAtEnd \cup {NoSession} : e = Entry("SessionMessage", s, OpenAtEnd)
           \/ \E k \in {"TimerEvent", "Snapshot", "MembershipChangeEvent"} :
                 e = Entry(k, NoSession, OpenAtEnd)
    BY <1>8, <1>5 DEF Fits
<1> QED
    BY <1>1, <1>6, <1>7, <1>8

LEMMA AppendEntryFits ==
    ASSUME IndInv, ContentInv, FitLog, FitCurrent, AppendEntry
    PROVE  FitLog' /\ FitCurrent'
<1>1. /\ cm \in {"active", "snapshot"} /\ IsLive /\ streams # <<>> /\ UNCHANGED log
    BY DEF AppendEntry, IsLive
<1>2. PICK e \in Candidates :
          streams' = [streams EXCEPT ![Len(streams)].entries = Append(Current.entries, e)]
    BY DEF AppendEntry, Current
<1> DEFINE n == Len(Current.entries)
           es == Append(Current.entries, e)
<1>3. e \in Entries /\ n \in 1 .. n /\ n \in Nat
    BY <1>1, CandidateFollows, CurrentFacts
<1>4. OpenAtEnd = Current.entries[n].open
    BY <1>3, CurrentFacts, EmptySeq, <1>1 DEF OpenAtEnd
<1>5. /\ es \in Seq(Entries) /\ Len(es) = n + 1
      /\ \A k \in 1 .. n : es[k] = Current.entries[k]
      /\ es[n + 1] = e
    BY <1>1, <1>3, CurrentFacts, AppendProperties
<1>6. /\ Fits(e, Current.entries[n].open)
      /\ \A s \in e.open : s \in Current.entries[n].open \/ e.session = s
    BY <1>1, <1>3, <1>4, CandidateFits
<1>7. Current'.base = Current.base /\ Current'.entries = es
  <2>1. Current' = [Current EXCEPT !.entries = es] /\ Current \in Streams
    BY <1>1, <1>2, <1>5, CurrentReplaced, CurrentFacts
  <2> HIDE DEF es
  <2> QED
    BY <2>1 DEF Streams
<1>8. \A k \in 1 .. n :
        /\ Fits(Current.entries[k], IF k = 1 THEN OpenAt(log, Current.base)
                                             ELSE Current.entries[k - 1].open)
        /\ \A s \in Current.entries[k].open :
              \/ IsMentioned(log, s)
              \/ \E j \in 1 .. k : Current.entries[j].session = s
    BY <1>1 DEF FitCurrent
<1> HIDE DEF es, n
<1>9. ASSUME NEW k \in 1 .. n + 1
      PROVE  /\ Fits(es[k], IF k = 1 THEN OpenAt(log, Current.base) ELSE es[k - 1].open)
             /\ \A s \in es[k].open : \/ IsMentioned(log, s)
                                      \/ \E j \in 1 .. k : es[j].session = s
  <2>1. CASE k \in 1 .. n
    <3>1. es[k] = Current.entries[k] /\ (k # 1 => es[k - 1] = Current.entries[k - 1])
      <4>1. k # 1 => k - 1 \in 1 .. n
        BY <2>1, <1>3
      <4> QED
        BY <2>1, <4>1, <1>5
    <3>2. \A j \in 1 .. k : es[j] = Current.entries[j]
      <4>1. \A j \in 1 .. k : j \in 1 .. n
        BY <2>1, <1>3
      <4> QED
        BY <4>1, <1>5
    <3>3. Fits(es[k], IF k = 1 THEN OpenAt(log, Current.base) ELSE es[k - 1].open)
        BY <2>1, <3>1, <1>8
    <3>4. \A s \in es[k].open : \/ IsMentioned(log, s)
                                \/ \E j \in 1 .. k : es[j].session = s
        BY <2>1, <3>1, <3>2, <1>8
    <3> QED
        BY <3>3, <3>4
  <2>2. CASE k = n + 1
    <3>1. k # 1 /\ k - 1 = n /\ n \in 1 .. n /\ es[k] = e /\ es[k - 1] = Current.entries[n]
        BY <2>2, <1>3, <1>5
    <3>2. Fits(es[k], IF k = 1 THEN OpenAt(log, Current.base) ELSE es[k - 1].open)
        BY <3>1, <1>6
    <3>3. ASSUME NEW s \in e.open
          PROVE  IsMentioned(log, s) \/ \E j \in 1 .. k : es[j].session = s
      <4>1. CASE e.session = s
        <5>1. k \in 1 .. k
            BY <2>2, <1>3
        <5> QED
            BY <4>1, <5>1, <3>1
      <4>2. CASE s \in Current.entries[n].open
        <5>1. IsMentioned(log, s) \/ \E j \in 1 .. n : Current.entries[j].session = s
            BY <4>2, <3>1, <1>8
        <5>2. \A j \in 1 .. n : j \in 1 .. k
            BY <2>2, <1>3
        <5> QED
            BY <5>1, <5>2, <1>5
      <4> QED
        BY <4>1, <4>2, <1>6
    <3> QED
        BY <3>1, <3>2, <3>3
  <2> QED
    BY <2>1, <2>2, <1>3
<1>10. FitCurrent'
    BY <1>1, <1>5, <1>7, <1>9 DEF FitCurrent
<1> QED
    BY <1>1, <1>10 DEF FitLog

\* What a longer log mentions.
LEMMA MentionGrows ==
    ASSUME NEW l \in Seq(Entries), NEW m, Grows(l, m), NEW s, IsMentioned(l, s)
    PROVE  IsMentioned(m, s)
<1>1. /\ Len(l) <= Len(m) /\ Len(l) \in Nat /\ Len(m) \in Nat
      /\ \A p \in 1 .. Len(l) : m[p] = l[p]
    BY GrowsKeeps
<1>2. PICK i \in 1 .. Len(l) : l[i].session = s
    BY DEF IsMentioned
<1>3. i \in 1 .. Len(m) /\ m[i].session = s
    BY <1>1, <1>2
<1> QED
    BY <1>3 DEF IsMentioned

LEMMA CommitFits ==
    ASSUME IndInv, ContentInv, FitLog, FitCurrent, Commit
    PROVE  FitLog' /\ FitCurrent'
<1> DEFINE e == EntryAt(Current, commitPos + 1)
<1>1. /\ streams # <<>> /\ commitPos < StreamEnd(Current) /\ UNCHANGED streams
      /\ log' = IF commitPos < Len(log) THEN log ELSE Append(log, e)
    BY DEF Commit
<1>2. /\ Current.base \in Nat /\ Len(Current.entries) \in Nat
      /\ Current.base <= commitPos /\ commitPos \in Nat
      /\ commitPos <= Len(log) /\ Len(log) \in Nat /\ log \in Seq(Entries)
      /\ StreamEnd(Current) = Current.base + Len(Current.entries)
    BY <1>1, CurrentFacts
<1>3. CarriesLog(log, Current, commitPos)
    BY <1>1 DEF ContentInv, CurrentInv
<1>4. Current' = Current /\ IsLive' = IsLive
    BY <1>1 DEF Current, IsLive
<1>5. CASE ~ IsLive
  <2>1. StreamEnd(Current) <= Len(log)
    BY <1>1, <1>3, <1>5 DEF CarriesLog, IsLive
  <2>2. log' = log
    BY <1>1, <1>2, <2>1
  <2> QED
    BY <1>1, <2>2, FitKept
<1>6. CASE IsLive
  <2> DEFINE b == Current.base
             k == commitPos + 1 - b
             c == Len(Current.entries)
  <2>1. /\ e \in Entries /\ commitPos = Len(log)
        /\ e = Current.entries[k]
    <3>1. e = Current.entries[k]
      <4>1. b \in Nat /\ commitPos \in Nat
        BY <1>2
      <4> HIDE DEF b
      <4>2. k = (commitPos + 1) - b
        BY <4>1
      <4> HIDE DEF k
      <4> QED
        BY <4>2 DEF EntryAt, b
    <3>2. e \in Entries /\ commitPos = Len(log)
      <4>1. streams # <<>> /\ commitPos < StreamEnd(Current)
        BY <1>1
      <4> QED
        BY <4>1, <1>6, NextEntryFollows
    <3> QED
        BY <3>1, <3>2
  <2> HIDE DEF e
  <2>2. /\ log' = Append(log, e) /\ Grows(log, log') /\ Len(log') = Len(log) + 1
        /\ \A p \in 1 .. Len(log) : log'[p] = log[p]
        /\ log'[Len(log) + 1] = e
    BY <1>1, <1>2, <2>1, AppendProperties DEF Grows
  <2>3. k \in 1 .. c /\ b + k = commitPos + 1 /\ k \in Nat /\ b \in Nat /\ c \in Nat
    BY <1>1, <1>2
  <2>4. \A j \in 1 .. c : b + j <= commitPos => Current.entries[j] = log[b + j]
    BY <1>3 DEF CarriesLog, Agrees
  <2>5. /\ Fits(e, IF k = 1 THEN OpenAt(log, b) ELSE Current.entries[k - 1].open)
        /\ \A s \in e.open : \/ IsMentioned(log, s)
                             \/ \E j \in 1 .. k : Current.entries[j].session = s
    BY <1>6, <2>1, <2>3 DEF FitCurrent
  <2> HIDE DEF k, c
  <2>6. Fits(e, OpenAt(log, commitPos))
    <3>1. CASE k = 1
      <4>1. b = commitPos
        BY <3>1, <2>3, <1>2
      <4> QED
        BY <3>1, <4>1, <2>5
    <3>2. CASE k # 1
      <4>1. k - 1 \in 1 .. c /\ b + (k - 1) = commitPos /\ commitPos # 0
        BY <3>2, <2>3, <1>2
      <4>2. Current.entries[k - 1] = log[commitPos]
        BY <4>1, <2>4, <1>2
      <4> QED
        BY <3>2, <4>1, <4>2, <2>5 DEF OpenAt
    <3> QED
        BY <3>1, <3>2
  <2>7. ASSUME NEW s \in e.open
        PROVE  IsMentioned(log', s)
    <3>1. CASE IsMentioned(log, s)
        BY <3>1, <1>2, <2>2, MentionGrows
    <3>2. ASSUME NEW j \in 1 .. k, Current.entries[j].session = s
          PROVE  IsMentioned(log', s)
      <4>1. CASE j = k
        <5>1. log'[Len(log) + 1].session = s /\ Len(log) + 1 \in 1 .. Len(log')
            BY <4>1, <3>2, <2>1, <2>2, <1>2
        <5> QED
            BY <5>1 DEF IsMentioned
      <4>2. CASE j # k
        <5>1. j \in 1 .. c /\ b + j <= commitPos /\ b + j \in 1 .. Len(log)
            BY <4>2, <2>1, <2>3, <1>2
        <5>2. log[b + j].session = s
            BY <5>1, <2>4, <3>2
        <5>3. IsMentioned(log, s)
            BY <5>1, <5>2 DEF IsMentioned
        <5> QED
            BY <5>3, <3>1
      <4> QED
        BY <4>1, <4>2
    <3> QED
        BY <2>5, <3>1, <3>2
  <2>8. ASSUME NEW p \in 1 .. Len(log')
        PROVE  /\ Fits(log'[p], OpenAt(log', p - 1))
               /\ \A s \in log'[p].open : IsMentioned(log', s)
    <3>1. p - 1 \in 0 .. Len(log) /\ OpenAt(log', p - 1) = OpenAt(log, p - 1)
      <4>1. p - 1 \in 0 .. Len(log)
        BY <1>2, <2>2
      <4> QED
        BY <4>1, <1>2, <2>2, GrowsKeepsState
    <3>2. CASE p \in 1 .. Len(log)
      <4>1. log'[p] = log[p]
        BY <3>2, <2>2
      <4>2. Fits(log[p], OpenAt(log, p - 1)) /\ \A s \in log[p].open : IsMentioned(log, s)
        BY <3>2 DEF FitLog
      <4> QED
        BY <3>1, <4>1, <4>2, <1>2, <2>2, MentionGrows
    <3>3. CASE p = Len(log) + 1
      <4>1. log'[p] = e /\ p - 1 = commitPos
        BY <3>3, <2>1, <2>2, <1>2
      <4> QED
        BY <3>1, <4>1, <2>6, <2>7
    <3> QED
        BY <3>2, <3>3, <2>2, <1>2
  <2>9. FitLog'
    BY <2>8 DEF FitLog
  <2>10. FitCurrent'
    <3>1. OpenAt(log', b) = OpenAt(log, b)
      <4>1. b \in 0 .. Len(log)
        BY <1>2
      <4> QED
        BY <4>1, <1>2, <2>2, GrowsKeepsState
    <3>2. \A s : IsMentioned(log, s) => IsMentioned(log', s)
        BY <1>2, <2>2, MentionGrows
    <3> QED
        BY <1>4, <3>1, <3>2 DEF FitCurrent
  <2> QED
    BY <2>9, <2>10
<1> QED
    BY <1>5, <1>6

\* A new stream is a replay, or has no entries yet.
LEMMA OpenStreamFits ==
    ASSUME IndInv, ContentInv, FitLog, StartReplay \/ StartTerm
    PROVE  FitLog' /\ FitCurrent'
<1>1. /\ log \in Seq(Entries) /\ streams \in Seq(Streams) /\ Len(streams) \in Nat
      /\ Len(log) \in Nat /\ MaxLog \in Nat
    BY LenProperties, ClusterLogAssumption DEF IndInv, TypeOK, CMTypeOK
<1>2. ASSUME NEW s, streams' = Append(streams, s)
      PROVE  Current' = s
  <2>1. Len(streams') = Len(streams) + 1 /\ streams'[Len(streams) + 1] = s
    BY <1>1, <1>2
  <2> QED
    BY <2>1 DEF Current
<1>3. UNCHANGED log
    BY DEF StartReplay, StartTerm, OpenStream
<1>4. CASE StartTerm
  <2>1. PICK s : streams' = Append(streams, s) /\ s.entries = <<>>
    <3> DEFINE s == [base |-> commitPos, entries |-> <<>>, max |-> NoMaxPosition]
    <3>1. streams' = Append(streams, s) /\ s.entries = <<>>
        BY <1>4 DEF StartTerm, OpenStream
    <3> HIDE DEF s
    <3> QED
        BY <3>1
  <2>2. Len(Current'.entries) = 0
    BY <2>1, <1>2
  <2>3. 1 .. Len(Current'.entries) = {}
    BY <2>2
  <2> QED
    BY <2>3, <1>3 DEF FitLog, FitCurrent
<1>5. CASE StartReplay
  <2>1. PICK s : streams' = Append(streams, s) /\ s.max = Len(log)
    <3> DEFINE s == [base |-> commitPos, entries |-> SubSeq(log, commitPos + 1, Len(log)),
                     max |-> Len(log)]
    <3>1. streams' = Append(streams, s) /\ s.max = Len(log)
        BY <1>5 DEF StartReplay, OpenStream
    <3> HIDE DEF s
    <3> QED
        BY <3>1
  <2>2. Current'.max = Len(log)
    BY <2>1, <1>2
  <2>3. Len(log) <= MaxLog
    BY DEF ContentInv, IsLog
  <2>4. ~ IsLive'
    BY <2>2, <2>3, <1>1 DEF IsLive, NoMaxPosition
  <2> QED
    BY <2>4, <1>3 DEF FitLog, FitCurrent
<1> QED
    BY <1>4, <1>5

\* A new term starts with the sessions that are open.
LEMMA ServiceJoinedFits ==
    ASSUME IndInv, ContentInv, FitLog, FitCurrent, ServiceJoined
    PROVE  FitLog' /\ FitCurrent'
<1>1. UNCHANGED <<log, commitPos>> /\ cm = "joining"
    BY DEF ServiceJoined, TakeAck
<1>2. CASE ~ IsLive
    BY <1>1, <1>2, FitKept DEF ServiceJoined
<1>3. CASE IsLive
  <2> DEFINE e == [kind |-> "NewLeadershipTermEvent", session |-> NoSession,
                   open |-> OpenAt(log, commitPos), term |-> term + 1]
             es == <<e>>
  <2>1. streams # <<>> /\ streams' = [streams EXCEPT ![Len(streams)].entries = es]
    BY <1>3 DEF IsLive, ServiceJoined
  <2>2. /\ commitPos \in Nat /\ commitPos <= Len(log) /\ Len(log) \in Nat
        /\ log \in Seq(Entries) /\ term \in Nat
    BY LenProperties DEF IndInv, PositionInv, TypeOK, CMTypeOK
  <2>3. e \in Entries
    <3>1. OpenAt(log, commitPos) \in SUBSET Sessions
        BY <2>2, OpenAtType
    <3> QED
        BY <3>1, <2>2 DEF Entries, Kinds
  <2>4. e.kind = "NewLeadershipTermEvent" /\ e.open = OpenAt(log, commitPos)
    OBVIOUS
  <2> HIDE DEF e
  <2>5. es \in Seq(Entries) /\ Len(es) = 1 /\ es[1] = e
    BY <2>3
  <2> HIDE DEF es
  <2>6. Current' = [Current EXCEPT !.entries = es] /\ Current \in Streams
    BY <2>1, <2>5, CurrentReplaced, CurrentFacts
  <2>7. Current'.entries = es
    BY <2>6 DEF Streams
  <2>8. \A s \in e.open : IsMentioned(log, s)
    BY <2>2, <2>4 DEF FitLog, OpenAt
  <2>9. \A k \in 1 .. Len(es) : es[k] = e
    BY <2>5
  <2>10. \A open : Fits(e, open)
    BY <2>4 DEF Fits
  <2>11. FitCurrent'
    BY <1>1, <2>7, <2>8, <2>9, <2>10 DEF FitCurrent
  <2> QED
    BY <1>1, <2>11 DEF FitLog
<1> QED
    BY <1>2, <1>3

LEMMA CMStepFits ==
    ASSUME IndInv, ContentInv, FitInv, CMStep
    PROVE  FitInv'
<1>1. FitLog' /\ FitCurrent'
  <2>1. CASE AppendEntry
    BY <2>1, AppendEntryFits DEF FitInv
  <2>2. CASE Commit
    BY <2>2, CommitFits DEF FitInv
  <2>3. CASE StartReplay \/ StartTerm
    BY <2>3, OpenStreamFits DEF FitInv
  <2>4. CASE ServiceJoined
    BY <2>4, ServiceJoinedFits DEF FitInv
  <2>5. CASE LeaveStream \/ Terminate \/ ServiceStarted \/ SnapshotTaken
             \/ ServiceDrained \/ RejectAck
    BY <2>5, FitKept DEF FitInv, LeaveStream, Terminate, ServiceStarted, SnapshotTaken,
                         ServiceDrained, RejectAck, TakeAck
  <2> QED
    BY <2>1, <2>2, <2>3, <2>4, <2>5 DEF CMStep, CMNext
<1>2. RunsInv'
    BY DEF FitInv, RunsInv, CMStep, agentVars, startVars
<1> QED
    BY <1>1, <1>2 DEF FitInv

-----------------------------------------------------------------------------
(* Steps of the agent that might throw *)

\* The log of a JoinLog event starts where the agent is.
LEMMA JoinIsContiguous ==
    ASSUME IndInv, ContentInv, AckInv
    PROVE  ~ JoinNotContiguous
<1> SUFFICES ASSUME JoinNotContiguous PROVE FALSE
    OBVIOUS
<1>1. pc = "join" /\ activeLogEvent # NoEvent /\ ~ IsContiguous
    BY DEF JoinNotContiguous, MayJoin
<1>2. cm = "joining" /\ activeLogEvent.stream = Len(streams)
    BY <1>1 DEF ContentInv, CallInv, NoneAsked, AckInv, AckOrderInv
<1>3. logPosition = commitPos /\ activeLogEvent.logPosition = commitPos
    BY <1>1, <1>2 DEF AckInv, CaughtUpInv, CalledInv, IsStarting, StartSteps
<1>4. streams # <<>>
  <2>1. activeLogEvent.stream \in Nat \ {0}
    BY <1>1 DEF IndInv, TypeOK, AgentTypeOK, JoinLogEvents
  <2>2. Len(<<>>) = 0
    OBVIOUS
  <2> QED
    BY <2>1, <2>2, <1>2
<1>5. commitPos = streams[Len(streams)].base
    BY <1>2, <1>4 DEF ContentInv, CurrentInv, Current
<1> QED
    BY <1>1, <1>2, <1>3, <1>5 DEF IsContiguous, JoinPosition

\* The sessions an event opens or closes are as the agent has them.
LEMMA LogEventRuns ==
    ASSUME IndInv, ContentInv, FitLog, LogEvent
    PROVE  pc' = "poll"
<1>1. CASE OnSessionMessage \/ OnTimerEvent \/ OnTakeSnapshot
           \/ OnNewLeadershipTermEvent \/ OnMembershipChange
    BY <1>1 DEF OnSessionMessage, OnTimerEvent, OnTakeSnapshot,
                OnNewLeadershipTermEvent, OnMembershipChange, OnEvent
<1>2. CASE OnSessionOpen \/ OnSessionClose
  <2>1. pc = "poll" /\ HasFragment
    BY <1>2 DEF OnSessionOpen, OnSessionClose, OnEvent
  <2>2. /\ NextEvent = log[NextPosition] /\ NextPosition = logPosition + 1
        /\ logPosition \in 0 .. Len(log) - 1
    BY <2>1, NextEventIsLogged
  <2>3. NextPosition \in 1 .. Len(log) /\ NextPosition - 1 = logPosition
    BY <2>2, AckTypes
  <2>4. sessionByIdMap = OpenAt(log, logPosition) /\ SessionIds = sessionByIdMap
    BY <2>1 DEF ContentInv, MatchInv, VectorInv, IsStarted, WorkSteps, SessionIds, Ids
  <2>5. Fits(NextEvent, sessionByIdMap)
    BY <2>2, <2>3, <2>4 DEF FitLog
  <2>6. CASE OnSessionOpen
    <3>1. NextEvent.session \notin sessionByIdMap
        BY <2>5, <2>6 DEF OnSessionOpen, OnEvent, Fits
    <3> QED
        BY <2>1, <2>6, <3>1 DEF OnSessionOpen
  <2>7. CASE OnSessionClose
    <3>1. NextEvent.session \in SessionIds
        BY <2>4, <2>5, <2>7 DEF OnSessionClose, OnEvent, Fits
    <3> QED
        BY <2>1, <2>7, <3>1 DEF OnSessionClose
  <2> QED
    BY <1>2, <2>6, <2>7
<1> QED
    BY <1>1, <1>2 DEF LogEvent

LEMMA AgentStepRuns ==
    ASSUME IndInv, ContentInv, AckInv, FitInv, AgentStep
    PROVE  FitInv'
<1>0. OthersKeep /\ FitLog /\ pc # "failed" /\ ~ isAbort
    BY DEF AgentStep, AgentNext, OthersKeep, FitInv, RunsInv
<1>1. FitLog' /\ FitCurrent'
    BY <1>0, FitKept DEF OthersKeep, FitInv
<1>2. CASE LoadFragment
  <2>1. UNCHANGED isAbort
    BY <1>2 DEF LoadFragment
  <2> QED
    BY <1>0, <1>1, <1>2, <2>1, LoadFragmentContent DEF FitInv, RunsInv
<1>3. CASE LogEvent
  <2>1. UNCHANGED isAbort
    BY <1>3 DEF LogEvent, OnSessionMessage, OnTimerEvent, OnSessionOpen, OnSessionClose,
                OnTakeSnapshot, OnNewLeadershipTermEvent, OnMembershipChange, OnEvent,
                startVars
  <2> QED
    BY <1>0, <1>1, <1>3, <2>1, LogEventRuns DEF FitInv, RunsInv
<1>4. CASE SnapshotEndedUnexpectedly \/ UnexpectedAbort \/ JoinNotContiguous
    BY <1>0, <1>4, SnapshotEndsAsExpected, JoinIsContiguous DEF UnexpectedAbort
<1>5. CASE Recover \/ OnStart \/ StartAck \/ SnapshotWork \/ NoClockTick
           \/ NoControlMessage \/ OnJoinLog \/ OnRequestServiceAck
           \/ OnServiceTerminationPosition
  <2>1. UNCHANGED isAbort /\ pc' # "failed"
    BY <1>0, <1>5 DEF Recover, OnStart, StartAck, SnapshotWork, StartRecording,
         TakeAgentSnapshot, TakeServiceSnapshot, AckSnapshot, NoClockTick,
         NoControlMessage, OnJoinLog, OnRequestServiceAck, OnServiceTerminationPosition,
         ControlMessage, startVars
  <2> QED
    BY <1>1, <2>1, <1>0 DEF FitInv, RunsInv
<1>6. CASE JoinActiveLog \/ AckRequested \/ NoAckRequested \/ NoLog \/ PollLog
           \/ CloseLog \/ EndPoll
  <2>1. UNCHANGED isAbort /\ pc' # "failed"
    BY <1>6 DEF JoinActiveLog, AckRequested, NoAckRequested, NoLog, PollLog, CloseLog,
         EndPoll, startVars
  <2> QED
    BY <1>1, <2>1, <1>0 DEF FitInv, RunsInv
<1> QED
    BY <1>2, <1>3, <1>4, <1>5, <1>6
    DEF AgentStep, AgentNext, Startup, PollServiceAdapter

-----------------------------------------------------------------------------
LEMMA NextFits ==
    ASSUME Indeterminate = {FALSE}, IndInv, ContentInv, AckInv, FitInv, [Next]_vars
    PROVE  FitInv'
<1>1. CASE CMStep
    BY <1>1, CMStepFits
<1>2. CASE ArchiveStep \/ UNCHANGED vars
  <2>1. UNCHANGED <<cmVars, agentVars>>
    BY <1>2 DEF ArchiveStep, vars
  <2>2. UNCHANGED <<log, streams, pc, isAbort>>
    BY <2>1 DEF cmVars, agentVars, startVars
  <2> QED
    BY <2>2, FitKept DEF FitInv, RunsInv
<1>3. CASE AgentStep
    BY <1>3, AgentStepRuns
<1>4. CASE Restart
  <2>1. streams' = <<>> /\ UNCHANGED log /\ pc' = "recover" /\ isAbort' = FALSE
    BY <1>4 DEF Restart, CMRestart
  <2>2. ~ IsLive'
    BY <2>1 DEF IsLive
  <2> QED
    BY <2>1, <2>2 DEF FitInv, FitLog, FitCurrent, RunsInv
<1> QED
    BY <1>1, <1>2, <1>3, <1>4 DEF Next

LEMMA InitFits ==
    ASSUME Indeterminate = {FALSE}, Init
    PROVE  FitInv
<1>1. streams = <<>> /\ log = <<>> /\ pc = "recover" /\ isAbort = FALSE
    BY DEF Init, CMInit, AgentInit
<1>2. ~ IsLive /\ 1 .. Len(log) = {}
    BY <1>1 DEF IsLive
<1> QED
    BY <1>1, <1>2 DEF FitInv, FitLog, FitCurrent, RunsInv

\* No exception ends the agent's thread, over any terms, snapshots, replays and
\* restarts: no session clashes or is unknown, a log is joined where the last one was
\* left, and the loader sees the end of the snapshot.
THEOREM NoExceptionAlways ==
    Promises /\ Indeterminate = {FALSE} => (Spec => []NoException)
<1> SUFFICES ASSUME Promises, Indeterminate = {FALSE} PROVE Spec => []NoException
    OBVIOUS
<1> DEFINE Inv == IndInv /\ ContentInv /\ AckInv /\ FitInv
<1>1. Init => Inv
    BY InitInd, InitContent, InitAck, InitFits
<1>2. Inv /\ [Next]_vars => Inv'
    BY NextAck, NextFits
<1>3. Inv => NoException
    BY DEF FitInv, RunsInv, NoException
<1> QED
    BY <1>1, <1>2, <1>3, PTL DEF Spec
=============================================================================
