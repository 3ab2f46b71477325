--------------------------- MODULE ServiceLogProofs ---------------------------
(***************************************************************************)
(* Proofs that the state of the service is that of the log, of a node      *)
(* whose archive does not abandon recordings.                              *)
(***************************************************************************)
EXTENDS ServiceLogInv, ClusterNodeProofs

-----------------------------------------------------------------------------
(* The log grows at its end *)

LEMMA EntryType ==
    ASSUME NEW l \in Seq(Entries), NEW p \in 1 .. Len(l)
    PROVE  /\ l[p] \in Entries /\ l[p].term \in Nat /\ l[p].open \in SUBSET Sessions
           /\ l[p].kind \in Kinds
BY ElementOfSeq DEF Entries

\* A log that is as it was, or one entry longer.
Grows(l, m) == \/ m = l
               \/ \E e \in Entries : m = Append(l, e)

LEMMA GrowsKeeps ==
    ASSUME NEW l \in Seq(Entries), NEW m, Grows(l, m)
    PROVE  /\ m \in Seq(Entries) /\ Len(l) <= Len(m)
           /\ Len(l) \in Nat /\ Len(m) \in Nat
           /\ \A p \in 1 .. Len(l) : m[p] = l[p]
<1>1. CASE m = l
    BY <1>1, LenProperties
<1>2. CASE m # l
    BY <1>2, LenProperties, AppendProperties DEF Grows
<1> QED
    BY <1>1, <1>2

LEMMA GrowsKeepsState ==
    ASSUME NEW l \in Seq(Entries), NEW m, Grows(l, m), NEW p \in 0 .. Len(l)
    PROVE  /\ OpenAt(m, p) = OpenAt(l, p)
           /\ TermAt(m, p) = TermAt(l, p)
           /\ StateAt(m, p) = StateAt(l, p)
<1>1. Len(l) \in Nat /\ \A q \in 1 .. Len(l) : m[q] = l[q]
    BY GrowsKeeps
<1>2. p \in Nat /\ (p = 0 \/ p \in 1 .. Len(l))
    BY <1>1
<1>3. \A q \in 1 .. p : m[q] = l[q]
    BY <1>1, <1>2
<1> QED
    BY <1>1, <1>2, <1>3 DEF OpenAt, TermAt, StateAt

LEMMA StateAtType ==
    ASSUME NEW l \in Seq(Entries), NEW p \in 0 .. Len(l)
    PROVE  /\ StateAt(l, p) \in Seq(Seq(Entries))
           /\ Len(StateAt(l, p)) = p
           /\ \A q \in 1 .. p : StateAt(l, p)[q] = Seen(l[q])
<1>1. Len(l) \in Nat
    BY LenProperties
<1>2. \A q \in 1 .. p : Seen(l[q]) \in Seq(Entries)
  <2> TAKE q \in 1 .. p
  <2>1. l[q] \in Entries
    BY <1>1, ElementOfSeq
  <2> QED
    BY <2>1, EmptySeq DEF Seen
<1>3. StateAt(l, p) \in [1 .. p -> Seq(Entries)]
    BY <1>2 DEF StateAt
<1>4. StateAt(l, p) \in Seq(Seq(Entries))
    BY <1>1, <1>3, SeqDef
<1>5. Len(StateAt(l, p)) \in Nat /\ DOMAIN StateAt(l, p) = 1 .. Len(StateAt(l, p))
    BY <1>4, LenProperties
<1>6. Len(StateAt(l, p)) = p
    BY <1>1, <1>3, <1>5
<1> QED
    BY <1>4, <1>6 DEF StateAt

LEMMA StateAtNext ==
    ASSUME NEW l \in Seq(Entries), NEW p \in 0 .. Len(l) - 1
    PROVE  StateAt(l, p + 1) = Append(StateAt(l, p), Seen(l[p + 1]))
<1>0. Len(l) \in Nat /\ p \in 0 .. Len(l) /\ p + 1 \in 0 .. Len(l) /\ p + 1 \in 1 .. Len(l)
    BY LenProperties
<1>1. Seen(l[p + 1]) \in Seq(Entries)
    BY <1>0, EntryType, EmptySeq DEF Seen
<1>2. /\ StateAt(l, p) \in Seq(Seq(Entries)) /\ Len(StateAt(l, p)) = p
      /\ \A q \in 1 .. p : StateAt(l, p)[q] = Seen(l[q])
    BY <1>0, StateAtType
<1>3. /\ StateAt(l, p + 1) \in Seq(Seq(Entries)) /\ Len(StateAt(l, p + 1)) = p + 1
      /\ \A q \in 1 .. p + 1 : StateAt(l, p + 1)[q] = Seen(l[q])
    BY <1>0, StateAtType
<1> DEFINE t == Append(StateAt(l, p), Seen(l[p + 1]))
<1>4. /\ t \in Seq(Seq(Entries)) /\ Len(t) = p + 1
      /\ \A q \in 1 .. p : t[q] = Seen(l[q])
      /\ t[p + 1] = Seen(l[p + 1])
    BY <1>1, <1>2, AppendProperties
<1> HIDE DEF t
<1>5. \A q \in 1 .. p + 1 : StateAt(l, p + 1)[q] = t[q]
    BY <1>0, <1>3, <1>4
<1> QED
    BY <1>3, <1>4, <1>5, SeqEqual DEF t

\* The empty log has nothing to see.
LEMMA StateAtZero ==
    ASSUME NEW l \in Seq(Entries)
    PROVE  StateAt(l, 0) = <<>> /\ OpenAt(l, 0) = {} /\ TermAt(l, 0) = NullValue
<1>1. StateAt(l, 0) \in Seq(Seq(Entries)) /\ Len(StateAt(l, 0)) = 0
    BY StateAtType, LenProperties
<1>2. StateAt(l, 0) = <<>>
    BY <1>1, EmptySeq
<1> QED
    BY <1>2 DEF OpenAt, TermAt

-----------------------------------------------------------------------------
(* Snapshots *)

\* What putting one element after a sequence gives.
LEMMA ConcatOne ==
    ASSUME NEW S, NEW s \in Seq(S), NEW e \in S
    PROVE  /\ s \o <<e>> \in Seq(S) /\ Len(s \o <<e>>) = Len(s) + 1
           /\ \A i \in 1 .. Len(s) : (s \o <<e>>)[i] = s[i]
           /\ (s \o <<e>>)[Len(s) + 1] = e
<1> DEFINE d == <<e>>
<1>1. d \in Seq(S) /\ Len(d) = 1 /\ d[1] = e
    OBVIOUS
<1>2. Len(s) \in Nat
    BY LenProperties
<1> HIDE DEF d
<1>3. /\ s \o d \in Seq(S) /\ Len(s \o d) = Len(s) + Len(d)
      /\ \A i \in 1 .. Len(s) + Len(d) :
            (s \o d)[i] = IF i <= Len(s) THEN s[i] ELSE d[i - Len(s)]
    BY <1>1, ConcatProperties
<1>4. \A i \in 1 .. Len(s) : (s \o d)[i] = s[i]
    BY <1>1, <1>2, <1>3
<1>5. (s \o d)[Len(s) + 1] = e
    BY <1>1, <1>2, <1>3
<1> QED
    BY <1>1, <1>3, <1>4, <1>5 DEF d

LEMMA SnapshotOfElements ==
    ASSUME NEW l \in Seq(Entries), NEW p \in 1 .. Len(l), NEW ids \in Seq(Sessions)
    PROVE  LET s == SnapshotOf(l, ids, p)
               n == Len(ids)
           IN  /\ s \in Seq(Fragments) /\ Len(s) = n + 3 /\ n \in Nat
               /\ s[1] = [type |-> "BEGIN", logPosition |-> p, term |-> TermAt(l, p)]
               /\ \A i \in 2 .. n + 1 : s[i] = [type |-> "SESSION", session |-> ids[i - 1]]
               /\ s[n + 2] = [type |-> "END", logPosition |-> p, term |-> TermAt(l, p)]
               /\ s[n + 3] = [type |-> "SERVICE", state |-> StateAt(l, p)]
<1> DEFINE n == Len(ids)
           b == [type |-> "BEGIN", logPosition |-> p, term |-> TermAt(l, p)]
           m == [i \in 1 .. n |-> [type |-> "SESSION", session |-> ids[i]]]
           e == [type |-> "END", logPosition |-> p, term |-> TermAt(l, p)]
           v == [type |-> "SERVICE", state |-> StateAt(l, p)]
<1>1. n \in Nat /\ Len(l) \in Nat /\ p \in Nat /\ p \in 0 .. Len(l)
    BY LenProperties
<1>2. TermAt(l, p) \in Nat
    BY <1>1, EntryType DEF TermAt
<1>3. b \in Fragments /\ e \in Fragments
    BY <1>1, <1>2 DEF Fragments, Markers
<1>4. v \in Fragments
    BY <1>1, StateAtType DEF Fragments, ServiceRecords
<1>5. m \in Seq(Fragments) /\ Len(m) = n
  <2>1. \A i \in 1 .. n : [type |-> "SESSION", session |-> ids[i]] \in Fragments
    BY ElementOfSeq DEF Fragments, SessionRecords
  <2>2. m \in [1 .. n -> Fragments]
    BY <2>1
  <2>3. m \in Seq(Fragments)
    BY <1>1, <2>2, SeqDef
  <2> QED
    BY <1>1, <2>2, <2>3, LenProperties
<1>6. \A i \in 1 .. n : m[i] = [type |-> "SESSION", session |-> ids[i]]
    OBVIOUS
<1>7. SnapshotOf(l, ids, p) = <<b>> \o m \o <<e>> \o <<v>>
    BY DEF SnapshotOf
<1> HIDE DEF b, m, e, v, n
<1>8. /\ <<b>> \in Seq(Fragments) /\ Len(<<b>>) = 1 /\ <<b>>[1] = b
      /\ <<e>> \in Seq(Fragments) /\ Len(<<e>>) = 1 /\ <<e>>[1] = e
      /\ <<v>> \in Seq(Fragments) /\ Len(<<v>>) = 1 /\ <<v>>[1] = v
    BY <1>3, <1>4
<1> DEFINE s1 == <<b>> \o m
           s2 == s1 \o <<e>>
           s3 == s2 \o <<v>>
<1>9. /\ s1 \in Seq(Fragments) /\ Len(s1) = n + 1 /\ s1[1] = b
      /\ \A i \in 2 .. n + 1 : s1[i] = m[i - 1]
    BY <1>1, <1>5, <1>8, ConcatProperties
<1> HIDE DEF s1
<1>10. /\ s2 \in Seq(Fragments) /\ Len(s2) = n + 2
       /\ \A i \in 1 .. n + 1 : s2[i] = s1[i]
       /\ s2[n + 2] = e
  <2>1. /\ s2 \in Seq(Fragments) /\ Len(s2) = (n + 1) + 1
        /\ \A i \in 1 .. n + 1 : s2[i] = s1[i]
        /\ s2[(n + 1) + 1] = e
    BY <1>3, <1>9, ConcatOne
  <2> QED
    BY <2>1, <1>1
<1> HIDE DEF s2
<1>11. /\ s3 \in Seq(Fragments) /\ Len(s3) = n + 3
       /\ \A i \in 1 .. n + 2 : s3[i] = s2[i]
       /\ s3[n + 3] = v
  <2>1. /\ s3 \in Seq(Fragments) /\ Len(s3) = (n + 2) + 1
        /\ \A i \in 1 .. n + 2 : s3[i] = s2[i]
        /\ s3[(n + 2) + 1] = v
    BY <1>4, <1>10, ConcatOne
  <2> QED
    BY <2>1, <1>1
<1>12. SnapshotOf(l, ids, p) = s3
    BY <1>7 DEF s1, s2
<1> HIDE DEF s3
<1>13. s3[1] = b /\ s3[n + 2] = e
    BY <1>1, <1>9, <1>10, <1>11
<1>14. \A i \in 2 .. n + 1 : s3[i] = [type |-> "SESSION", session |-> ids[i - 1]]
  <2> TAKE i \in 2 .. n + 1
  <2>1. i - 1 \in 1 .. n /\ i \in 1 .. n + 1 /\ i \in 1 .. n + 2
    BY <1>1
  <2>2. s3[i] = m[i - 1]
    BY <2>1, <1>9, <1>10, <1>11
  <2> QED
    BY <2>1, <2>2, <1>6
<1> QED
    BY <1>1, <1>11, <1>12, <1>13, <1>14 DEF b, e, v, n

\* What ServiceSnapshotLoader reads of a snapshot that ServiceSnapshotTaker wrote, markers
\* and fragments of sessions, are the sessions it was made of, in their order.
THEOREM SessionsInSnapshot ==
    ASSUME NEW l \in Seq(Entries), NEW p \in 1 .. Len(l), NEW ids \in Seq(Sessions)
    PROVE  SessionsIn(SnapshotOf(l, ids, p)) = ids
<1> DEFINE s == SnapshotOf(l, ids, p)
           n == Len(ids)
<1>1. /\ n \in Nat /\ Len(s) = n + 3
      /\ \A i \in 2 .. n + 1 : s[i] = [type |-> "SESSION", session |-> ids[i - 1]]
    BY SnapshotOfElements
<1> HIDE DEF s
<1>2. SessionsIn(s) = [i \in 1 .. n |-> s[i + 1].session]
    BY <1>1 DEF SessionsIn
<1>3. \A i \in 1 .. n : s[i + 1].session = ids[i]
  <2> TAKE i \in 1 .. n
  <2>1. i + 1 \in 2 .. n + 1 /\ (i + 1) - 1 = i
    BY <1>1
  <2>2. s[i + 1] = [type |-> "SESSION", session |-> ids[(i + 1) - 1]]
    BY <2>1, <1>1
  <2> QED
    BY <2>1, <2>2
<1>4. ids = [i \in 1 .. n |-> ids[i]]
    BY LenProperties
<1>5. [i \in 1 .. n |-> s[i + 1].session] = [i \in 1 .. n |-> ids[i]]
    BY <1>3
<1> QED
    BY <1>2, <1>4, <1>5 DEF s

LEMMA SameInterval ==
    ASSUME NEW m \in Nat, NEW n \in Nat, 1 .. m = 1 .. n
    PROVE  m = n
<1>1. CASE m < n
    BY <1>1
<1>2. CASE n < m
    BY <1>2
<1> QED
    BY <1>1, <1>2

LEMMA CompleteHasSessions ==
    ASSUME NEW l \in Seq(Entries), NEW r \in RecordingStates, NEW p, IsComplete(l, r, p)
    PROVE  /\ p \in 1 .. Len(l) /\ Len(r.published) = r.recorded
           /\ \E ids \in Seq(Sessions) : /\ Ids(ids) = OpenAt(l, p)
                                         /\ IsSorted(ids)
                                         /\ r.published = SnapshotOf(l, ids, p)
<1> DEFINE ids == SessionsIn(r.published)
<1>1. /\ p \in 1 .. Len(l) /\ r.recorded = Len(r.published)
      /\ Ids(ids) = OpenAt(l, p) /\ IsSorted(ids) /\ r.published = SnapshotOf(l, ids, p)
    BY DEF IsComplete
<1>2. OpenAt(l, p) \in SUBSET Sessions
    BY <1>1, LenProperties, OpenAtType
<1>3. Len(r.published) \in Nat
    BY LenProperties DEF RecordingStates
<1>4. PICK n \in Nat : 1 .. Len(r.published) - 3 = 1 .. n
  <2>1. CASE Len(r.published) >= 3
    <3>1. Len(r.published) - 3 \in Nat
        BY <2>1, <1>3
    <3> QED
        BY <3>1
  <2>2. CASE Len(r.published) < 3
    <3>1. 1 .. Len(r.published) - 3 = 1 .. 0
        BY <2>2, <1>3
    <3> QED
        BY <3>1
  <2> QED
    BY <2>1, <2>2, <1>3
<1>5. ids = [i \in 1 .. n |-> r.published[i + 1].session]
    BY <1>4 DEF SessionsIn
<1> HIDE DEF ids
<1>6. Len(ids) = n
  <2>1. ids \in [1 .. n -> {ids[i] : i \in 1 .. n}]
    BY <1>5
  <2>2. ids \in Seq({ids[i] : i \in 1 .. n})
    BY <2>1, SeqDef
  <2>3. Len(ids) \in Nat /\ DOMAIN ids = 1 .. Len(ids) /\ DOMAIN ids = 1 .. n
    BY <2>1, <2>2, LenProperties
  <2> QED
    BY <2>3, SameInterval
<1>7. \A i \in 1 .. n : ids[i] \in Sessions
    BY <1>1, <1>2, <1>6 DEF Ids
<1>8. ids \in [1 .. n -> Sessions]
    BY <1>5, <1>7
<1>9. ids \in Seq(Sessions)
    BY <1>8, SeqDef
<1> QED
    BY <1>1, <1>9

LEMMA CompleteIntro ==
    ASSUME NEW l \in Seq(Entries), NEW r, NEW p \in 1 .. Len(l), NEW ids \in Seq(Sessions),
           Len(r.published) = r.recorded,
           Ids(ids) = OpenAt(l, p), IsSorted(ids), r.published = SnapshotOf(l, ids, p)
    PROVE  IsComplete(l, r, p)
BY SessionsInSnapshot DEF IsComplete

LEMMA CompleteGrows ==
    ASSUME NEW l \in Seq(Entries), NEW m, Grows(l, m), NEW r, NEW p, IsComplete(l, r, p)
    PROVE  IsComplete(m, r, p)
<1>1. p \in 1 .. Len(l) /\ p \in 0 .. Len(l) /\ p \in 1 .. Len(m)
    BY GrowsKeeps DEF IsComplete
<1>2. /\ OpenAt(m, p) = OpenAt(l, p)
      /\ TermAt(m, p) = TermAt(l, p)
      /\ StateAt(m, p) = StateAt(l, p)
    BY <1>1, GrowsKeepsState
<1>3. \A ids : SnapshotOf(m, ids, p) = SnapshotOf(l, ids, p)
    BY <1>2 DEF SnapshotOf
<1> QED
    BY <1>1, <1>2, <1>3 DEF IsComplete

\* A snapshot that is complete ends with what the service wrote.
LEMMA CompleteEnds ==
    ASSUME NEW l \in Seq(Entries), NEW r \in RecordingStates, NEW p, IsComplete(l, r, p)
    PROVE  /\ Len(r.published) \in Nat /\ Len(r.published) >= 3
           /\ r.published[Len(r.published)].type = "SERVICE"
<1>1. PICK ids \in Seq(Sessions) :
         p \in 1 .. Len(l) /\ r.published = SnapshotOf(l, ids, p)
    BY CompleteHasSessions
<1> DEFINE s == SnapshotOf(l, ids, p)
<1>2. /\ Len(ids) \in Nat /\ Len(s) = Len(ids) + 3
      /\ s[Len(ids) + 3] = [type |-> "SERVICE", state |-> StateAt(l, p)]
    BY <1>1, SnapshotOfElements
<1> HIDE DEF s
<1> QED
    BY <1>1, <1>2 DEF s

-----------------------------------------------------------------------------
(* The vector of the sessions *)

\* lower_bound: what is before it is below s, what is not is not.
LEMMA LowerBoundSplits ==
    ASSUME AgentTypeOK, IsSorted(sessions), NEW s \in Sessions
    PROVE  LET k == LowerBound(s)
           IN  /\ k \in 1 .. Len(sessions) + 1
               /\ \A i \in 1 .. k - 1 : sessions[i] < s
               /\ \A i \in k .. Len(sessions) : ~ sessions[i] < s
<1> DEFINE n == Len(sessions)
           below == {i \in 1 .. n : \A j \in 1 .. i : sessions[j] < s}
           m == Cardinality(below)
<1>1. n \in Nat /\ s \in Nat /\ \A i \in 1 .. n : sessions[i] \in Nat
    BY ClusterLogAssumption, LenProperties, ElementOfSeq DEF AgentTypeOK
<1>2. below \in SUBSET (1 .. n) /\ IsFiniteSet(1 .. n)
    BY <1>1, FS_Interval
<1>3. IsFiniteSet(below) /\ m \in Nat
    BY <1>2, FS_Subset, FS_CardinalityType
<1>4. \A i \in below : i <= m
  <2> TAKE i \in below
  <2>1. i \in Nat /\ 1 <= i /\ 1 .. i \in SUBSET below
    BY <1>1
  <2>2. Cardinality(1 .. i) = i
    BY <2>1, FS_Interval
  <2> QED
    BY <1>3, <2>1, <2>2, FS_Subset
<1>5. below = 1 .. m
  <2>1. below \in SUBSET (1 .. m)
    BY <1>1, <1>4
  <2>2. IsFiniteSet(1 .. m) /\ Cardinality(1 .. m) = m
    BY <1>3, FS_Interval
  <2> QED
    BY <2>1, <2>2, FS_Subset
<1>6. LowerBound(s) = 1 + m
    BY DEF LowerBound
<1>7. m \in 0 .. n
  <2>1. CASE m = 0
    BY <2>1, <1>1
  <2>2. CASE m # 0
    <3>1. m \in 1 .. m
        BY <2>2, <1>3
    <3>2. m \in below
        BY <3>1, <1>5
    <3> QED
        BY <3>2, <1>2, <1>3, <1>1
  <2> QED
    BY <2>1, <2>2
<1>8. \A i \in 1 .. m : sessions[i] < s
  <2> TAKE i \in 1 .. m
  <2>1. i \in below /\ i \in 1 .. i
    BY <1>3, <1>5
  <2> QED
    BY <2>1
<1>9. \A i \in m + 1 .. n : ~ sessions[i] < s
  <2> SUFFICES ASSUME NEW i \in m + 1 .. n, sessions[i] < s PROVE FALSE
    OBVIOUS
  <2>1. i \in 1 .. n /\ i \in Nat
    BY <1>1, <1>3
  <2>2. \A j \in 1 .. i : sessions[j] < s
    <3> TAKE j \in 1 .. i
    <3>1. j \in 1 .. n /\ (j = i \/ j < i)
        BY <2>1, <1>1
    <3>2. sessions[j] \in Nat /\ sessions[i] \in Nat
        BY <3>1, <2>1, <1>1
    <3>3. j = i \/ sessions[j] < sessions[i]
        BY <3>1, <2>1 DEF IsSorted
    <3> QED
        BY <3>2, <3>3, <1>1
  <2>3. i \in below
    BY <2>1, <2>2
  <2> QED
    BY <2>3, <1>3, <1>4
<1> HIDE DEF m
<1> QED
    BY <1>1, <1>6, <1>7, <1>8, <1>9

\* addSession inserts at the lower bound: the vector stays sorted by id and holds one
\* session more, for any sessions and any id that is not among them.
THEOREM AddSessionSorted ==
    ASSUME AgentTypeOK, IsSorted(sessions), NEW s \in Sessions, s \notin Ids(sessions),
           AddSession(s)
    PROVE  IsSorted(sessions') /\ Ids(sessions') = Ids(sessions) \cup {s}
<1> DEFINE n == Len(sessions)
           k == LowerBound(s)
           a == SubSeq(sessions, 1, k - 1)
           b == SubSeq(sessions, k, n)
<1>1. n \in Nat /\ s \in Nat /\ sessions \in Seq(Sessions)
      /\ \A i \in 1 .. n : sessions[i] \in Nat /\ sessions[i] \in Sessions
    BY ClusterLogAssumption, LenProperties, ElementOfSeq DEF AgentTypeOK
<1>2. /\ k \in 1 .. n + 1
      /\ \A i \in 1 .. k - 1 : sessions[i] < s
      /\ \A i \in k .. n : ~ sessions[i] < s
    BY LowerBoundSplits
<1>3. sessions' = a \o <<s>> \o b
    BY DEF AddSession
<1> HIDE DEF k, n
<1>4. /\ a \in Seq(Sessions) /\ Len(a) = k - 1
      /\ \A i \in 1 .. k - 1 : a[i] = sessions[i]
  <2>1. \A i \in 1 .. k - 1 : sessions[i] \in Sessions
    BY <1>1, <1>2
  <2>2. 1 \in Int /\ k - 1 \in Int
    BY <1>2, <1>1
  <2> QED
    BY <2>1, <2>2, <1>1, <1>2, SubSeqProperties
<1>5. /\ b \in Seq(Sessions) /\ Len(b) = n - k + 1
      /\ \A i \in 1 .. n - k + 1 : b[i] = sessions[k + i - 1]
  <2>1. \A i \in k .. n : sessions[i] \in Sessions
    BY <1>1, <1>2
  <2>2. n \in Int /\ k \in Int
    BY <1>2, <1>1
  <2> QED
    BY <2>1, <2>2, <1>1, <1>2, SubSeqProperties
<1>6. <<s>> \in Seq(Sessions) /\ Len(<<s>>) = 1 /\ <<s>>[1] = s
    OBVIOUS
<1> HIDE DEF a, b
<1> DEFINE c == a \o <<s>>
<1>7. /\ c \in Seq(Sessions) /\ Len(c) = k
      /\ \A i \in 1 .. k - 1 : c[i] = sessions[i]
      /\ c[k] = s
  <2>1. s \in Sessions
    OBVIOUS
  <2> DEFINE d == <<s>>
  <2>2. d \in Seq(Sessions) /\ Len(d) = 1 /\ d[1] = s
    BY <2>1
  <2>3. c = a \o d
    OBVIOUS
  <2> HIDE DEF c, d
  <2>4. /\ a \o d \in Seq(Sessions) /\ Len(a \o d) = Len(a) + Len(d)
        /\ \A i \in 1 .. Len(a) + Len(d) :
              (a \o d)[i] = IF i <= Len(a) THEN a[i] ELSE d[i - Len(a)]
    BY <1>4, <2>2, ConcatProperties
  <2>5. Len(a) + Len(d) = k /\ k \in Nat /\ k >= 1
    BY <1>1, <1>2, <1>4, <2>2
  <2>6. \A i \in 1 .. k - 1 : c[i] = sessions[i]
    BY <1>4, <2>3, <2>4, <2>5
  <2>7. k \in 1 .. k /\ ~ k <= k - 1 /\ k - (k - 1) = 1
    BY <2>5
  <2>8. c[k] = d[1]
    BY <1>4, <2>3, <2>4, <2>5, <2>7
  <2> QED
    BY <2>2, <2>3, <2>4, <2>5, <2>6, <2>8
<1> HIDE DEF c
<1>8. /\ Len(sessions') = n + 1
      /\ \A i \in 1 .. k - 1 : sessions'[i] = sessions[i]
      /\ sessions'[k] = s
      /\ \A i \in k + 1 .. n + 1 : sessions'[i] = sessions[i - 1]
  <2>1. sessions' = c \o b
    BY <1>3 DEF c
  <2>2. /\ Len(c \o b) = n + 1
        /\ \A i \in 1 .. n + 1 : (c \o b)[i] = IF i <= k THEN c[i] ELSE b[i - k]
    BY <1>1, <1>2, <1>5, <1>7, ConcatProperties
  <2>3. \A i \in k + 1 .. n + 1 : (c \o b)[i] = sessions[i - 1]
    <3> TAKE i \in k + 1 .. n + 1
    <3>1. i \in 1 .. n + 1 /\ ~ i <= k /\ i - k \in 1 .. n - k + 1
          /\ k + (i - k) - 1 = i - 1
        BY <1>1, <1>2
    <3>2. (c \o b)[i] = b[i - k] /\ b[i - k] = sessions[k + (i - k) - 1]
        BY <3>1, <2>2, <1>5
    <3> QED
        BY <3>1, <3>2
  <2>4. \A i \in 1 .. k : (c \o b)[i] = c[i]
    <3>1. \A i \in 1 .. k : i \in 1 .. n + 1 /\ i <= k
        BY <1>1, <1>2
    <3> QED
        BY <3>1, <2>2
  <2>5. k \in 1 .. k /\ \A i \in 1 .. k - 1 : i \in 1 .. k
    BY <1>1, <1>2
  <2>6. \A i \in 1 .. k - 1 : (c \o b)[i] = sessions[i]
    BY <1>7, <2>4, <2>5
  <2>7. (c \o b)[k] = s
    BY <1>7, <2>4, <2>5
  <2> QED
    BY <2>1, <2>2, <2>3, <2>6, <2>7
<1>9. \A i \in k .. n : s < sessions[i]
  <2> TAKE i \in k .. n
  <2>1. i \in 1 .. n /\ sessions[i] # s
    BY <1>1, <1>2 DEF Ids, n
  <2> QED
    BY <2>1, <1>1, <1>2
<1>10. IsSorted(sessions')
  <2> SUFFICES ASSUME NEW i \in 1 .. n + 1, NEW j \in 1 .. n + 1, i < j
               PROVE  sessions'[i] < sessions'[j]
    BY <1>8 DEF IsSorted
  <2>0. \A x, y \in 1 .. n : x < y => sessions[x] < sessions[y]
    BY DEF IsSorted, n
  <2>1. CASE j < k
    BY <2>1, <2>0, <1>1, <1>2, <1>8
  <2>2. CASE j = k
    BY <2>2, <1>1, <1>2, <1>8
  <2>3. CASE k < j /\ i < k
    <3>1. i \in 1 .. n /\ j - 1 \in 1 .. n /\ i < j - 1
        BY <2>3, <1>1, <1>2
    <3>2. sessions'[i] = sessions[i] /\ sessions'[j] = sessions[j - 1]
        BY <2>3, <1>1, <1>2, <1>8
    <3> QED
        BY <3>1, <3>2, <2>0
  <2>4. CASE k < j /\ i = k
    <3>1. j - 1 \in k .. n /\ sessions'[j] = sessions[j - 1]
        BY <2>4, <1>1, <1>2, <1>8
    <3> QED
        BY <3>1, <2>4, <1>8, <1>9
  <2>5. CASE k < j /\ k < i
    <3>1. i - 1 \in 1 .. n /\ j - 1 \in 1 .. n /\ i - 1 < j - 1
        BY <2>5, <1>1, <1>2
    <3>2. sessions'[i] = sessions[i - 1] /\ sessions'[j] = sessions[j - 1]
        BY <2>5, <1>1, <1>2, <1>8
    <3> QED
        BY <3>1, <3>2, <2>0
  <2> QED
    BY <2>1, <2>2, <2>3, <2>4, <2>5, <1>1, <1>2
<1>11. Ids(sessions') = Ids(sessions) \cup {s}
  <2>1. \A x \in Ids(sessions') : x \in Ids(sessions) \cup {s}
    <3> TAKE x \in Ids(sessions')
    <3>1. PICK i \in 1 .. n + 1 : x = sessions'[i]
        BY <1>8 DEF Ids
    <3>2. CASE i < k
        BY <3>1, <3>2, <1>1, <1>2, <1>8 DEF Ids, n
    <3>3. CASE i = k
        BY <3>1, <3>3, <1>8
    <3>4. CASE k < i
        <4>1. i - 1 \in 1 .. n /\ x = sessions[i - 1]
            BY <3>1, <3>4, <1>1, <1>2, <1>8
        <4> QED
            BY <4>1 DEF Ids, n
    <3> QED
        BY <3>2, <3>3, <3>4, <1>1, <1>2
  <2>2. \A x \in Ids(sessions) : x \in Ids(sessions')
    <3> TAKE x \in Ids(sessions)
    <3>1. PICK i \in 1 .. n : x = sessions[i]
        BY DEF Ids, n
    <3>2. CASE i < k
        <4>1. i \in 1 .. n + 1 /\ x = sessions'[i]
            BY <3>1, <3>2, <1>1, <1>2, <1>8
        <4> QED
            BY <4>1, <1>8 DEF Ids
    <3>3. CASE ~ i < k
        <4>1. i + 1 \in k + 1 .. n + 1 /\ i + 1 \in 1 .. n + 1 /\ (i + 1) - 1 = i
            BY <3>1, <3>3, <1>1, <1>2
        <4>2. sessions'[i + 1] = sessions[(i + 1) - 1]
            BY <4>1, <1>8
        <4> QED
            BY <3>1, <4>1, <4>2, <1>8 DEF Ids
    <3> QED
        BY <3>2, <3>3
  <2>3. s \in Ids(sessions')
    BY <1>1, <1>2, <1>8 DEF Ids
  <2> QED
    BY <2>1, <2>2, <2>3
<1> QED
    BY <1>10, <1>11

\* removeSession erases the entry with the id, and no other: what remains is still sorted.
THEOREM RemoveSessionSorted ==
    ASSUME AgentTypeOK, IsSorted(sessions), NEW s \in SessionIds, RemoveSession(s)
    PROVE  IsSorted(sessions') /\ Ids(sessions') = Ids(sessions) \ {s}
<1> DEFINE n == Len(sessions)
           k == IndexOf(s)
           a == SubSeq(sessions, 1, k - 1)
           b == SubSeq(sessions, k + 1, n)
<1>1. n \in Nat /\ sessions \in Seq(Sessions)
      /\ \A i \in 1 .. n : sessions[i] \in Nat /\ sessions[i] \in Sessions
    BY ClusterLogAssumption, LenProperties, ElementOfSeq DEF AgentTypeOK
<1>2. k \in 1 .. n /\ sessions[k] = s
    BY DEF IndexOf, SessionIds
<1>3. sessions' = a \o b
    BY DEF RemoveSession
<1>0. \A x, y \in 1 .. n : x < y => sessions[x] < sessions[y]
    BY DEF IsSorted
<1> HIDE DEF k, n
<1>4. /\ a \in Seq(Sessions) /\ Len(a) = k - 1
      /\ \A i \in 1 .. k - 1 : a[i] = sessions[i]
  <2>1. \A i \in 1 .. k - 1 : sessions[i] \in Sessions
    BY <1>1, <1>2
  <2>2. 1 \in Int /\ k - 1 \in Int
    BY <1>2, <1>1
  <2> QED
    BY <2>1, <2>2, <1>1, <1>2, SubSeqProperties
<1>5. /\ b \in Seq(Sessions) /\ Len(b) = n - k
      /\ \A i \in 1 .. n - k : b[i] = sessions[k + i]
  <2>1. \A i \in k + 1 .. n : sessions[i] \in Sessions
    BY <1>1, <1>2
  <2>2. n \in Int /\ k + 1 \in Int
    BY <1>2, <1>1
  <2>3. b \in Seq(Sessions) /\ Len(b) = n - k
    BY <2>1, <2>2, <1>1, <1>2, SubSeqProperties
  <2>4. \A i \in 1 .. n - (k + 1) + 1 : b[i] = sessions[(k + 1) + i - 1]
    BY <2>1, <2>2, <1>1, <1>2, SubSeqProperties
  <2>5. \A i \in 1 .. n - k : b[i] = sessions[k + i]
    <3> TAKE i \in 1 .. n - k
    <3>1. i \in 1 .. n - (k + 1) + 1 /\ (k + 1) + i - 1 = k + i
        BY <1>1, <1>2
    <3> QED
        BY <3>1, <2>4
  <2> QED
    BY <2>3, <2>5
<1> HIDE DEF a, b
<1>6. /\ Len(sessions') = n - 1
      /\ \A i \in 1 .. n - 1 : sessions'[i] = IF i < k THEN sessions[i] ELSE sessions[i + 1]
  <2>1. /\ Len(a \o b) = n - 1
        /\ \A i \in 1 .. n - 1 : (a \o b)[i] = IF i <= k - 1 THEN a[i] ELSE b[i - (k - 1)]
    BY <1>1, <1>2, <1>4, <1>5, ConcatProperties
  <2>2. ASSUME NEW i \in 1 .. n - 1
        PROVE  (a \o b)[i] = IF i < k THEN sessions[i] ELSE sessions[i + 1]
    <3>1. CASE i < k
        <4>1. i <= k - 1 /\ i \in 1 .. k - 1
            BY <3>1, <1>1, <1>2
        <4> QED
            BY <3>1, <4>1, <2>1, <1>4
    <3>2. CASE ~ i < k
        <4>1. ~ i <= k - 1 /\ i - (k - 1) \in 1 .. n - k /\ k + (i - (k - 1)) = i + 1
            BY <3>2, <1>1, <1>2
        <4>2. b[i - (k - 1)] = sessions[k + (i - (k - 1))]
            BY <4>1, <1>5
        <4> QED
            BY <3>2, <4>1, <4>2, <2>1
    <3> QED
        BY <3>1, <3>2
  <2> QED
    BY <1>3, <2>1, <2>2
<1>7. IsSorted(sessions')
  <2> SUFFICES ASSUME NEW i \in 1 .. n - 1, NEW j \in 1 .. n - 1, i < j
               PROVE  sessions'[i] < sessions'[j]
    BY <1>6 DEF IsSorted
  <2> DEFINE x == IF i < k THEN i ELSE i + 1
             y == IF j < k THEN j ELSE j + 1
  <2>1. x \in 1 .. n /\ y \in 1 .. n /\ x < y
    BY <1>1, <1>2
  <2>2. sessions'[i] = sessions[x] /\ sessions'[j] = sessions[y]
    BY <1>6
  <2> HIDE DEF x, y
  <2> QED
    BY <2>1, <2>2, <1>0
<1>8. \A i \in 1 .. n : i # k => sessions[i] # s
  <2> TAKE i \in 1 .. n
  <2>1. CASE i < k
    <3>1. sessions[i] < sessions[k] /\ sessions[i] \in Nat
        BY <2>1, <1>0, <1>1, <1>2
    <3> QED
        BY <3>1, <1>2
  <2>2. CASE k < i
    <3>1. sessions[k] < sessions[i] /\ sessions[i] \in Nat
        BY <2>2, <1>0, <1>1, <1>2
    <3> QED
        BY <3>1, <1>2
  <2> QED
    BY <2>1, <2>2, <1>1, <1>2
<1>9. Ids(sessions') = Ids(sessions) \ {s}
  <2>1. \A x \in Ids(sessions') : x \in Ids(sessions) \ {s}
    <3> TAKE x \in Ids(sessions')
    <3>1. PICK i \in 1 .. n - 1 : x = sessions'[i]
        BY <1>6 DEF Ids
    <3> DEFINE j == IF i < k THEN i ELSE i + 1
    <3>2. j \in 1 .. n /\ j # k
        BY <1>1, <1>2
    <3>3. x = sessions[j]
        BY <3>1, <1>6
    <3> HIDE DEF j
    <3> QED
        BY <3>2, <3>3, <1>8 DEF Ids, n
  <2>2. \A x \in Ids(sessions) \ {s} : x \in Ids(sessions')
    <3> TAKE x \in Ids(sessions) \ {s}
    <3>1. PICK i \in 1 .. n : x = sessions[i]
        BY DEF Ids, n
    <3>2. i # k
        BY <3>1, <1>2
    <3> DEFINE j == IF i < k THEN i ELSE i - 1
    <3>3. j \in 1 .. n - 1 /\ (IF j < k THEN j ELSE j + 1) = i
        BY <3>2, <1>1, <1>2
    <3>4. x = sessions'[j]
        BY <3>1, <3>3, <1>6
    <3> HIDE DEF j
    <3> QED
        BY <3>3, <3>4, <1>6 DEF Ids
  <2> QED
    BY <2>1, <2>2
<1> QED
    BY <1>7, <1>9

-----------------------------------------------------------------------------
(* Steps of the consensus module *)

\* What a step of the consensus module keeps of the agent and of the snapshots, if
\* the recovery state stays as it is.
LEMMA CMKeepsContent ==
    ASSUME IndInv, ContentInv, Grows(log, log'),
           UNCHANGED <<recordings, agentVars>>,
           UNCHANGED recovery \/ acks # <<>>,
           acks = <<>> => acks' = <<>>,
           SnapshotInv'
    PROVE  VectorInv' /\ ProgressInv' /\ LoadInv' /\ MatchInv'
<1> USE DEF agentVars, positionVars, ackVars, sessionVars, joinVars, startVars
<1>1. log \in Seq(Entries) /\ Len(log) \in Nat
    BY LenProperties DEF IndInv, TypeOK, CMTypeOK
<1>2. VectorInv'
    BY DEF ContentInv, VectorInv
<1>3. ProgressInv'
    BY DEF ContentInv, ProgressInv, SnapshotFragments, SessionFragments, Mark
<1>4. ASSUME logPosition # NullPosition
      PROVE  /\ OpenAt(log', logPosition) = OpenAt(log, logPosition)
             /\ TermAt(log', logPosition) = TermAt(log, logPosition)
             /\ StateAt(log', logPosition) = StateAt(log, logPosition)
  <2>1. logPosition \in 0 .. Len(log)
    BY <1>1, <1>4 DEF IndInv, TypeOK, CMTypeOK, AgentTypeOK, PositionInv
  <2> QED
    BY <1>1, <2>1, GrowsKeepsState
<1>5. pc # "recover" => logPosition # NullPosition
    BY DEF IndInv, StepInv
<1>6. LoadInv'
  <2>1. CASE pc \in StartSteps
    <3>1. acks = <<>> /\ UNCHANGED recovery
        BY <2>1 DEF ContentInv, LoadInv
    <3> QED
        BY <2>1, <3>1, <1>4, <1>5 DEF ContentInv, LoadInv
  <2>2. CASE pc \notin StartSteps
    BY <2>2 DEF LoadInv, StartSteps
  <2> QED
    BY <2>1, <2>2
<1>7. MatchInv'
    BY <1>4, <1>5 DEF ContentInv, MatchInv, IsStarted, WorkSteps
<1> QED
    BY <1>2, <1>3, <1>6, <1>7

\* The snapshots of the recovery state and of the acks stay complete.
LEMMA SnapshotKept ==
    ASSUME IndInv, ContentInv, Grows(log, log'),
           UNCHANGED <<recordings, recovery>>,
           \A i \in 1 .. Len(acks') : \E j \in 1 .. Len(acks) : acks'[i] = acks[j]
    PROVE  SnapshotInv'
<1>1. log \in Seq(Entries) /\ Len(log) \in Nat
    BY LenProperties DEF IndInv, TypeOK, CMTypeOK
<1>2. \A r, p : IsComplete(log, r, p) => IsComplete(log', r, p)
    BY <1>1, CompleteGrows
<1>3. recovery.recording # NullValue =>
         TermAt(log', recovery.logPosition) = TermAt(log, recovery.logPosition)
  <2> SUFFICES ASSUME recovery.recording # NullValue
               PROVE  TermAt(log', recovery.logPosition) = TermAt(log, recovery.logPosition)
    OBVIOUS
  <2>1. recovery.logPosition \in 0 .. Len(log)
    BY <1>1 DEF IndInv, PositionInv, TypeOK, CMTypeOK
  <2> QED
    BY <2>1, <1>1, GrowsKeepsState
<1> QED
    BY <1>2, <1>3 DEF ContentInv, SnapshotInv

\* The messages that are left, and the acks, when the first is taken.
LEMMA TailCalls ==
    ASSUME NEW s \in Seq(ControlMessages), s # <<>>
    PROVE  \A i : i \in Calls(Tail(s)) <=> i + 1 \in Calls(s) /\ i \in Nat \ {0}
<1>1. Len(s) \in Nat \ {0}
    BY EmptySeq
<1>2. /\ Len(Tail(s)) = Len(s) - 1
      /\ \A i \in 1 .. Len(s) - 1 : Tail(s)[i] = s[i + 1]
    BY <1>1, HeadTailProperties
<1> QED
    BY <1>1, <1>2 DEF Calls

LEMMA TailAnswers ==
    ASSUME NEW s \in Seq(ServiceAcks), s # <<>>
    PROVE  \A i : i \in Answers(Tail(s)) <=> i + 1 \in Answers(s) /\ i \in Nat \ {0}
<1>1. Len(s) \in Nat \ {0}
    BY EmptySeq
<1>2. /\ Len(Tail(s)) = Len(s) - 1
      /\ \A i \in 1 .. Len(s) - 1 : Tail(s)[i] = s[i + 1]
    BY <1>1, HeadTailProperties
<1> QED
    BY <1>1, <1>2 DEF Answers

LEMMA AppendCalls ==
    ASSUME NEW s \in Seq(ControlMessages), NEW m \in ControlMessages
    PROVE  Calls(Append(s, m)) =
               Calls(s) \cup (IF m.type = "ServiceTerminationPosition"
                              THEN {} ELSE {Len(s) + 1})
<1>1. Len(s) \in Nat
    BY LenProperties
<1>2. /\ Len(Append(s, m)) = Len(s) + 1
      /\ \A i \in 1 .. Len(s) : Append(s, m)[i] = s[i]
      /\ Append(s, m)[Len(s) + 1] = m
    BY AppendProperties
<1> QED
    BY <1>1, <1>2 DEF Calls

LEMMA AppendAnswers ==
    ASSUME NEW s \in Seq(ServiceAcks), NEW a \in ServiceAcks
    PROVE  Answers(Append(s, a)) =
               Answers(s) \cup (IF a.relevantId = NullValue THEN {Len(s) + 1} ELSE {})
<1>1. Len(s) \in Nat
    BY LenProperties
<1>2. /\ Len(Append(s, a)) = Len(s) + 1
      /\ \A i \in 1 .. Len(s) : Append(s, a)[i] = s[i]
      /\ Append(s, a)[Len(s) + 1] = a
    BY AppendProperties
<1> QED
    BY <1>1, <1>2 DEF Answers

\* The current stream begins at a committed position.
LEMMA CurrentFacts ==
    ASSUME IndInv, streams # <<>>
    PROVE  /\ Current \in Streams /\ Current.base \in Nat
           /\ Current.entries \in Seq(Entries) /\ Len(Current.entries) \in Nat
           /\ Current.base <= commitPos /\ commitPos \in Nat
           /\ commitPos <= Len(log) /\ Len(log) \in Nat /\ log \in Seq(Entries)
           /\ Len(streams) \in 1 .. Len(streams)
           /\ StreamEnd(Current) = Current.base + Len(Current.entries)
           /\ Current = streams[Len(streams)]
<1>1. Len(streams) \in 1 .. Len(streams) /\ Current \in Streams
    BY CurrentStream DEF IndInv, TypeOK
<1>2. Current.base <= commitPos
    BY <1>1 DEF Current, IndInv, StreamInv
<1> QED
    BY <1>1, <1>2, LenProperties DEF Streams, StreamEnd, Current, IndInv, TypeOK, CMTypeOK, PositionInv

\* Replacing the entries of the current stream replaces it, and only it.
LEMMA CurrentReplaced ==
    ASSUME IndInv, streams # <<>>, NEW es \in Seq(Entries),
           streams' = [streams EXCEPT ![Len(streams)].entries = es]
    PROVE  /\ Len(streams') = Len(streams) /\ streams' # <<>>
           /\ Current' = [Current EXCEPT !.entries = es]
           /\ \A i \in 1 .. Len(streams) : i # Len(streams) => streams'[i] = streams[i]
<1>1. /\ Len(streams) \in 1 .. Len(streams) /\ Current \in Streams
      /\ streams \in Seq(Streams) /\ Len(streams) \in Nat
    BY CurrentFacts, LenProperties DEF IndInv, TypeOK, CMTypeOK
<1> DEFINE s == [Current EXCEPT !.entries = es]
<1>2. s \in Streams
    BY <1>1 DEF Streams
<1>3. streams' = [streams EXCEPT ![Len(streams)] = s]
    BY DEF Current
<1> HIDE DEF s
<1>4. /\ streams' \in Seq(Streams) /\ Len(streams') = Len(streams)
      /\ \A i \in 1 .. Len(streams) :
            streams'[i] = IF i = Len(streams) THEN s ELSE streams[i]
  <2> DEFINE n == Len(streams)
             t == [streams EXCEPT ![n] = s]
  <2>1. n \in 1 .. Len(streams) /\ streams' = t
    BY <1>1, <1>3
  <2> HIDE DEF n, t
  <2>2. t \in Seq(Streams) /\ Len(t) = Len(streams)
        /\ \A i \in 1 .. Len(streams) : t[i] = IF i = n THEN s ELSE streams[i]
    BY <1>1, <1>2, <2>1, ExceptSeq DEF t
  <2> QED
    BY <2>1, <2>2 DEF n
<1>5. streams' # <<>>
    BY <1>1, <1>4, EmptySeq
<1> QED
    BY <1>1, <1>4, <1>5 DEF Current, s

\* A live stream has entries of the term.
LEMMA CandidateFollows ==
    ASSUME IndInv, ContentInv, streams # <<>>, IsLive, cm \in {"active", "snapshot"},
           NEW e \in Candidates
    PROVE  /\ e \in Entries /\ e.term = term
           /\ Len(Current.entries) \in 1 .. Len(Current.entries)
           /\ Follows(e, Current.entries[Len(Current.entries)].open,
                         Current.entries[Len(Current.entries)].term)
<1>1. e \in Entries
    BY CandidatesType DEF IndInv, TypeOK
<1>2. Current.entries # <<>> /\ Current.entries[Len(Current.entries)].term = term
    BY DEF ContentInv, CurrentInv
<1>3. Len(Current.entries) \in 1 .. Len(Current.entries)
    BY <1>2, CurrentFacts, EmptySeq
<1>4. OpenAtEnd = Current.entries[Len(Current.entries)].open
    BY <1>2 DEF OpenAtEnd
<1>5. Follows(e, OpenAtEnd, term) /\ e.term = term
  <2> DEFINE Entry(kind, session, after) ==
                 [kind |-> kind, session |-> session, open |-> after, term |-> term]
  <2>1. \/ \E s \in Sessions :
              e = Entry("SessionOpenEvent", s, OpenAtEnd \cup {s})
        \/ \E s \in OpenAtEnd : e = Entry("SessionCloseEvent", s, OpenAtEnd \ {s})
        \/ \E s \in OpenAtEnd \cup {NoSession} : e = Entry("SessionMessage", s, OpenAtEnd)
        \/ \E k \in {"TimerEvent", "Snapshot", "MembershipChangeEvent"} :
              e = Entry(k, NoSession, OpenAtEnd)
    BY DEF Candidates
  <2>2. ASSUME NEW s, e = Entry("SessionOpenEvent", s, OpenAtEnd \cup {s})
        PROVE  Follows(e, OpenAtEnd, term) /\ e.term = term
    <3>1. e.kind = "SessionOpenEvent" /\ e.session = s /\ e.term = term
          /\ e.open = OpenAtEnd \cup {s}
        BY <2>2
    <3> QED
        BY <3>1 DEF Follows
  <2>3. ASSUME NEW s, e = Entry("SessionCloseEvent", s, OpenAtEnd \ {s})
        PROVE  Follows(e, OpenAtEnd, term) /\ e.term = term
    <3>1. e.kind = "SessionCloseEvent" /\ e.session = s /\ e.term = term
          /\ e.open = OpenAtEnd \ {s}
        BY <2>3
    <3> QED
        BY <3>1 DEF Follows
  <2>4. ASSUME NEW s, NEW k \in {"SessionMessage", "TimerEvent", "Snapshot",
                                 "MembershipChangeEvent"},
               e = Entry(k, s, OpenAtEnd)
        PROVE  Follows(e, OpenAtEnd, term) /\ e.term = term
    <3>1. e.kind = k /\ e.term = term /\ e.open = OpenAtEnd
        BY <2>4
    <3>2. e.kind # "SessionOpenEvent" /\ e.kind # "SessionCloseEvent"
        BY <3>1
    <3> QED
        BY <3>1, <3>2 DEF Follows
  <2> HIDE DEF Entry
  <2> QED
    BY <2>1, <2>2, <2>3, <2>4
<1> QED
    BY <1>1, <1>2, <1>3, <1>4, <1>5

LEMMA AppendEntryContent ==
    ASSUME IndInv, ContentInv, AppendEntry, UNCHANGED <<recordings, agentVars, restarts>>
    PROVE  ContentInv'
<1>1. /\ cm \in {"active", "snapshot"} /\ IsLive /\ streams # <<>>
      /\ StreamEnd(Current) < MaxLog
      /\ UNCHANGED <<log, commitPos, term, cm, expectedAckId, recovery, control, acks>>
    BY DEF AppendEntry, IsLive
<1>2. PICK e \in Candidates :
          streams' = [streams EXCEPT ![Len(streams)].entries = Append(Current.entries, e)]
    BY DEF AppendEntry, Current
<1> DEFINE n == Len(Current.entries)
           es == Append(Current.entries, e)
<1>3. /\ e \in Entries /\ e.term = term /\ n \in 1 .. n
      /\ Follows(e, Current.entries[n].open, Current.entries[n].term)
    BY <1>1, CandidateFollows
<1>4. /\ Current.entries \in Seq(Entries) /\ n \in Nat /\ Current \in Streams
      /\ Current.base \in Nat /\ Current.base <= commitPos /\ commitPos \in Nat
      /\ StreamEnd(Current) = Current.base + n
      /\ Current = streams[Len(streams)] /\ Len(streams) \in 1 .. Len(streams)
    BY <1>1, CurrentFacts
<1>5. /\ es \in Seq(Entries) /\ Len(es) = n + 1
      /\ \A k \in 1 .. n : es[k] = Current.entries[k]
      /\ es[n + 1] = e
    BY <1>3, <1>4, AppendProperties
<1> HIDE DEF es, n
<1>6. /\ Len(streams') = Len(streams) /\ streams' # <<>>
      /\ Current' = [Current EXCEPT !.entries = es]
      /\ \A i \in 1 .. Len(streams) : i # Len(streams) => streams'[i] = streams[i]
    BY <1>1, <1>2, <1>5, CurrentReplaced DEF es
<1>7. Current'.base = Current.base /\ Current'.max = Current.max /\ Current'.entries = es
    BY <1>4, <1>6 DEF Streams
<1>8. CarriesLog(log, Current, commitPos) /\ Current.max = NoMaxPosition
    BY <1>1 DEF ContentInv, CurrentInv, IsLive
<1>9. Agrees(log', Current', commitPos')
  <2> SUFFICES ASSUME NEW k \in 1 .. n + 1, Current.base + k <= commitPos
               PROVE  es[k] = log[Current.base + k]
    BY <1>1, <1>5, <1>7 DEF Agrees
  <2>1. commitPos <= Current.base + n
    BY <1>4, <1>8 DEF CarriesLog
  <2>2. k \in 1 .. n
    BY <2>1, <1>4
  <2> QED
    BY <2>2, <1>5, <1>8 DEF CarriesLog, Agrees, n
<1>10. IsOrdered(log', Current')
  <2> SUFFICES ASSUME NEW k \in 1 .. n + 1
               PROVE  Follows(es[k],
                        IF k = 1 THEN OpenAt(log, Current.base) ELSE es[k - 1].open,
                        IF k = 1 THEN TermAt(log, Current.base) ELSE es[k - 1].term)
    BY <1>1, <1>5, <1>7 DEF IsOrdered
  <2>1. CASE k \in 1 .. n
    <3>1. es[k] = Current.entries[k] /\ (k # 1 => es[k - 1] = Current.entries[k - 1])
      <4>1. k # 1 => k - 1 \in 1 .. n
        BY <2>1, <1>4
      <4> QED
        BY <2>1, <4>1, <1>5
    <3>2. IsOrdered(log, Current)
        BY <1>8 DEF CarriesLog
    <3> QED
        BY <2>1, <3>1, <3>2 DEF IsOrdered, n
  <2>2. CASE k = n + 1
    <3>1. k # 1 /\ k - 1 = n /\ n \in 1 .. n
        BY <2>2, <1>3, <1>4
    <3> QED
        BY <2>2, <3>1, <1>3, <1>5
  <2> QED
    BY <2>1, <2>2, <1>4
<1>11. StreamEnd(Current') = Current.base + (n + 1)
    BY <1>5, <1>7 DEF StreamEnd
<1>12. CarriesLog(log', Current', commitPos')
  <2>1. commitPos <= Current.base + n /\ commitPos = Len(log)
    BY <1>4, <1>8 DEF CarriesLog
  <2>2. Current.base + (n + 1) <= MaxLog /\ commitPos <= Current.base + (n + 1)
    BY <2>1, <1>1, <1>4, ClusterLogAssumption
  <2> QED
    BY <2>1, <2>2, <1>1, <1>7, <1>8, <1>9, <1>10, <1>11 DEF CarriesLog
<1>13. CurrentInv'
  <2>1. es # <<>> /\ es[Len(es)].term = term
    BY <1>3, <1>4, <1>5, EmptySeq
  <2> QED
    BY <2>1, <1>1, <1>7, <1>12 DEF CurrentInv
<1>14. IsLog(log') /\ CallInv'
    BY <1>1, <1>6 DEF ContentInv, CallInv, NoneAsked, agentVars, joinVars, ackVars
<1>15. ImageInv'
  <2>1. ASSUME image # NoImage
        PROVE  Agrees(log, streams'[image.stream], commitPos)
    <3>1. image.stream \in 1 .. Len(streams)
        BY <2>1 DEF IndInv, StreamInv
    <3>2. CASE image.stream = Len(streams)
        BY <3>2, <1>1, <1>6, <1>9 DEF Current
    <3>3. CASE image.stream # Len(streams)
        BY <2>1, <3>1, <3>3, <1>6 DEF ContentInv, ImageInv
    <3> QED
        BY <3>2, <3>3
  <2> QED
    BY <2>1, <1>1, <1>6 DEF ContentInv, ImageInv, agentVars, joinVars
<1>16. Grows(log, log') /\ UNCHANGED <<recordings, recovery, acks>>
    BY <1>1 DEF Grows
<1>17. SnapshotInv'
    BY <1>16, SnapshotKept
<1> QED
    BY <1>13, <1>14, <1>15, <1>16, <1>17, CMKeepsContent DEF ContentInv

\* The next entry of a live stream is one the log can go on with.
LEMMA NextEntryFollows ==
    ASSUME IndInv, ContentInv, streams # <<>>, commitPos < StreamEnd(Current), IsLive
    PROVE  LET e == EntryAt(Current, commitPos + 1)
           IN  /\ e \in Entries /\ commitPos = Len(log) /\ Len(log) < MaxLog
               /\ Follows(e, OpenAt(log, commitPos), TermAt(log, commitPos))
<1> DEFINE b == Current.base
           k == commitPos + 1 - b
           e == EntryAt(Current, commitPos + 1)
<1>1. /\ Current.entries \in Seq(Entries) /\ Len(Current.entries) \in Nat
      /\ b \in Nat /\ b <= commitPos /\ commitPos \in Nat /\ Current \in Streams
      /\ StreamEnd(Current) = b + Len(Current.entries)
    BY CurrentFacts
<1>2. CarriesLog(log, Current, commitPos) /\ Current.max = NoMaxPosition
    BY DEF ContentInv, CurrentInv, IsLive
<1>3. /\ commitPos = Len(log) /\ StreamEnd(Current) <= MaxLog
      /\ IsOrdered(log, Current) /\ Agrees(log, Current, commitPos)
    BY <1>2 DEF CarriesLog
<1> HIDE DEF b
<1>4. k \in 1 .. Len(Current.entries) /\ e = Current.entries[k]
    BY <1>1 DEF EntryAt, b
<1>5. e \in Entries
    BY <1>1, <1>4, ElementOfSeq
<1> HIDE DEF e
<1>6. Follows(e, IF k = 1 THEN OpenAt(log, b) ELSE Current.entries[k - 1].open,
                 IF k = 1 THEN TermAt(log, b) ELSE Current.entries[k - 1].term)
    BY <1>3, <1>4 DEF IsOrdered, b
<1>7. CASE k = 1
  <2>1. b = commitPos
    BY <1>7, <1>1
  <2> QED
    BY <2>1, <1>1, <1>3, <1>5, <1>6, <1>7, ClusterLogAssumption DEF e
<1>8. CASE k # 1
  <2>0. k \in Nat /\ b + (k - 1) = commitPos
    BY <1>1
  <2>1. k - 1 \in 1 .. Len(Current.entries) /\ b + (k - 1) = commitPos /\ commitPos # 0
    <3> DEFINE c == Len(Current.entries)
    <3>1. k \in 1 .. c /\ c \in Nat
        BY <1>4, <1>1
    <3> HIDE DEF c, k
    <3>2. k - 1 \in 1 .. c
        BY <3>1, <2>0, <1>8
    <3>3. commitPos # 0
        BY <3>2, <2>0, <1>1
    <3> QED
        BY <3>2, <3>3, <2>0 DEF c
  <2>2. Current.entries[k - 1] = log[b + (k - 1)]
    <3>1. Agrees(log, Current, commitPos) /\ b + (k - 1) <= commitPos
        BY <2>1, <1>1, <1>3
    <3> HIDE DEF k
    <3> QED
        BY <2>1, <3>1 DEF Agrees, b
  <2>3. Current.entries[k - 1].open = OpenAt(log, commitPos)
        /\ Current.entries[k - 1].term = TermAt(log, commitPos)
    BY <2>1, <2>2 DEF OpenAt, TermAt
  <2> QED
    BY <2>3, <1>1, <1>3, <1>5, <1>6, <1>8, ClusterLogAssumption DEF e
<1> QED
    BY <1>7, <1>8

\* An ordered log with an entry that follows is ordered.
LEMMA IsLogGrows ==
    ASSUME NEW l \in Seq(Entries), IsLog(l), Len(l) < MaxLog, NEW e \in Entries,
           Follows(e, OpenAt(l, Len(l)), TermAt(l, Len(l)))
    PROVE  IsLog(Append(l, e))
<1> DEFINE m == Append(l, e)
           n == Len(l)
<1>1. /\ n \in Nat /\ Len(m) = n + 1 /\ Grows(l, m)
      /\ \A p \in 1 .. n : m[p] = l[p]
      /\ m[n + 1] = e
    BY LenProperties, AppendProperties DEF Grows
<1> HIDE DEF m
<1>2. \A p \in 1 .. n + 1 : Follows(m[p], OpenAt(m, p - 1), TermAt(m, p - 1))
  <2> TAKE p \in 1 .. n + 1
  <2>1. p - 1 \in 0 .. n
    BY <1>1
  <2>2. OpenAt(m, p - 1) = OpenAt(l, p - 1) /\ TermAt(m, p - 1) = TermAt(l, p - 1)
    BY <2>1, <1>1, GrowsKeepsState
  <2>3. CASE p \in 1 .. n
    BY <2>2, <2>3, <1>1 DEF IsLog
  <2>4. CASE p = n + 1
    BY <2>2, <2>4, <1>1
  <2> QED
    BY <2>3, <2>4, <1>1
<1>3. n + 1 <= MaxLog
    BY <1>1, ClusterLogAssumption
<1> QED
    BY <1>1, <1>2, <1>3 DEF IsLog, m

LEMMA CommitContent ==
    ASSUME IndInv, ContentInv, Commit, UNCHANGED <<recordings, agentVars, restarts>>
    PROVE  ContentInv'
<1> DEFINE e == EntryAt(Current, commitPos + 1)
<1>1. /\ cm = "active" /\ streams # <<>> /\ commitPos < StreamEnd(Current)
      /\ log' = IF commitPos < Len(log) THEN log ELSE Append(log, e)
      /\ cm' \in {"active", "snapshot"} /\ commitPos' = commitPos + 1
      /\ UNCHANGED <<streams, term, expectedAckId, recovery, control, acks>>
    BY DEF Commit
<1>2. /\ Current \in Streams /\ Current.base \in Nat /\ Len(Current.entries) \in Nat
      /\ Current.base <= commitPos /\ commitPos \in Nat
      /\ commitPos <= Len(log) /\ Len(log) \in Nat /\ log \in Seq(Entries)
      /\ StreamEnd(Current) = Current.base + Len(Current.entries)
      /\ Current = streams[Len(streams)] /\ Len(streams) \in 1 .. Len(streams)
    BY <1>1, CurrentFacts
<1>3. CarriesLog(log, Current, commitPos)
    BY <1>1 DEF ContentInv, CurrentInv
<1>4. Current' = Current /\ StreamEnd(Current') = StreamEnd(Current) /\ IsLive' = IsLive
    BY <1>1 DEF Current, StreamEnd, IsLive
<1>5. IsLog(log) /\ Len(log) <= MaxLog
    BY DEF ContentInv, IsLog
<1>6. IsLog(log') /\ Grows(log, log') /\ CarriesLog(log', Current, commitPos + 1)
  <2>1. CASE IsLive
    <3>1. /\ e \in Entries /\ commitPos = Len(log) /\ Len(log) < MaxLog
          /\ Follows(e, OpenAt(log, commitPos), TermAt(log, commitPos))
      <4>1. streams # <<>> /\ commitPos < StreamEnd(Current)
        BY <1>1
      <4> QED
        BY <4>1, <2>1, NextEntryFollows
    <3>2. log' = Append(log, e)
        BY <1>1, <1>2, <3>1
    <3>3. e = Current.entries[(commitPos + 1) - Current.base]
        BY DEF EntryAt
    <3> HIDE DEF e
    <3>4. /\ Len(log') = Len(log) + 1 /\ Grows(log, log')
          /\ \A p \in 1 .. Len(log) : log'[p] = log[p]
          /\ log'[Len(log) + 1] = e
        BY <1>2, <3>1, <3>2, AppendProperties DEF Grows
    <3>5. IsLog(log')
        BY <1>2, <1>5, <3>1, <3>2, IsLogGrows
    <3>6. Agrees(log', Current, commitPos + 1)
      <4> SUFFICES ASSUME NEW k \in 1 .. Len(Current.entries),
                          Current.base + k <= commitPos + 1
                   PROVE  Current.entries[k] = log'[Current.base + k]
        BY DEF Agrees
      <4>1. CASE Current.base + k <= commitPos
        <5>1. Current.entries[k] = log[Current.base + k]
            BY <4>1, <1>3 DEF CarriesLog, Agrees
        <5>2. Current.base + k \in 1 .. Len(log)
            BY <4>1, <1>2
        <5> QED
            BY <5>1, <5>2, <3>4
      <4>2. CASE Current.base + k = commitPos + 1
        <5>1. (commitPos + 1) - Current.base = k
            BY <4>2, <1>2
        <5> QED
            BY <5>1, <4>2, <3>1, <3>3, <3>4
      <4> QED
        BY <4>1, <4>2, <1>2
    <3>7. IsOrdered(log', Current)
      <4>1. Current.base \in 0 .. Len(log)
        BY <1>2
      <4>2. OpenAt(log', Current.base) = OpenAt(log, Current.base)
            /\ TermAt(log', Current.base) = TermAt(log, Current.base)
        BY <4>1, <1>2, <3>4, GrowsKeepsState
      <4>3. IsOrdered(log, Current)
        BY <1>3, <2>1 DEF CarriesLog, IsLive
      <4> QED
        BY <4>2, <4>3 DEF IsOrdered
    <3>8. commitPos + 1 <= StreamEnd(Current) /\ StreamEnd(Current) <= MaxLog
          /\ commitPos + 1 = Len(log') /\ Current.max = NoMaxPosition
        BY <1>1, <1>2, <1>3, <2>1, <3>1, <3>4 DEF CarriesLog, IsLive
    <3> QED
        BY <3>4, <3>5, <3>6, <3>7, <3>8 DEF CarriesLog
  <2>2. CASE ~ IsLive
    <3>1. Current.max # NoMaxPosition
        BY <1>1, <2>2 DEF IsLive
    <3>2. StreamEnd(Current) <= Len(log) /\ Agrees(log, Current, Len(log))
        BY <1>3, <3>1 DEF CarriesLog
    <3>3. commitPos < Len(log) /\ log' = log
        BY <1>1, <1>2, <3>2
    <3>4. Agrees(log, Current, commitPos + 1) /\ commitPos + 1 <= StreamEnd(Current)
        BY <1>1, <1>2, <3>2, <3>3 DEF Agrees
    <3> QED
        BY <1>5, <3>1, <3>2, <3>3, <3>4 DEF CarriesLog, Grows
  <2> QED
    BY <2>1, <2>2
<1> HIDE DEF e
<1>7. CurrentInv'
    BY <1>1, <1>4, <1>6 DEF ContentInv, CurrentInv
<1>8. CallInv'
    BY <1>1 DEF ContentInv, CallInv, NoneAsked, agentVars, joinVars, ackVars
<1>9. ImageInv'
  <2>1. image # NoImage => image.stream = Len(streams)
    BY <1>1 DEF ContentInv, ImageInv
  <2>2. Agrees(log', Current, commitPos + 1)
    BY <1>6 DEF CarriesLog
  <2> QED
    BY <1>1, <1>2, <2>1, <2>2 DEF ImageInv, agentVars, joinVars
<1>10. SnapshotInv'
    BY <1>1, <1>6, SnapshotKept
<1> QED
    BY <1>1, <1>6, <1>7, <1>8, <1>9, <1>10, CMKeepsContent DEF ContentInv

\* Nothing is awaited while the module is settled or takes commits.
LEMMA NothingAwaited ==
    ASSUME ContentInv, cm \in {"starting", "settled", "active", "snapshot", "terminating"}
    PROVE  NoneAsked /\ Answers(acks) = {}
BY DEF ContentInv, CallInv

\* A stream is opened with the committed entries from the commit position on, or to
\* be live with none.
LEMMA OpenStreamContent ==
    ASSUME IndInv, ContentInv, cm = "settled",
           NEW entries, NEW max \in Nat, NEW isStartup \in BOOLEAN, NEW r \in Roles,
           OpenStream(entries, max, isStartup, r),
           \/ /\ entries = SubSeq(log, commitPos + 1, Len(log))
              /\ max = Len(log)
           \/ /\ entries = <<>> /\ max = NoMaxPosition
              /\ commitPos = Len(log) /\ commitPos < MaxLog,
           UNCHANGED <<recordings, agentVars, restarts>>
    PROVE  ContentInv'
<1> DEFINE s == [base |-> commitPos, entries |-> entries, max |-> max]
           m == [type |-> "JoinLog", logPosition |-> commitPos, maxLogPosition |-> max,
                 stream |-> Len(streams) + 1, isStartup |-> isStartup, role |-> r]
<1>1. /\ log \in Seq(Entries) /\ Len(log) \in Nat /\ commitPos \in Nat
      /\ commitPos <= Len(log)
      /\ streams \in Seq(Streams) /\ Len(streams) \in Nat
      /\ control \in Seq(ControlMessages) /\ Len(control) \in Nat
    BY LenProperties DEF IndInv, TypeOK, CMTypeOK, PositionInv
<1>2. IsLog(log) /\ Len(log) <= MaxLog /\ MaxLog \in Nat
    BY ClusterLogAssumption DEF ContentInv, IsLog
<1>3. /\ entries \in Seq(Entries)
      /\ \A k \in 1 .. Len(entries) : entries[k] = log[commitPos + k]
      /\ Len(entries) = Len(log) - commitPos
  <2>1. CASE entries = <<>> /\ commitPos = Len(log)
    <3>1. Len(entries) = 0
        BY <2>1
    <3> QED
        BY <2>1, <3>1, <1>1, EmptySeq
  <2>2. CASE entries = SubSeq(log, commitPos + 1, Len(log))
    <3>1. \A k \in commitPos + 1 .. Len(log) : log[k] \in Entries
        BY <1>1, ElementOfSeq
    <3> DEFINE a == commitPos + 1
               n == Len(log)
    <3>2. a \in Int /\ n \in Int /\ a <= n + 1
        BY <1>1
    <3>3. \A k \in a .. n : log[k] \in Entries
        BY <3>1
    <3>4. entries = SubSeq(log, a, n)
        BY <2>2
    <3>0. a = commitPos + 1 /\ n = Len(log)
        OBVIOUS
    <3> HIDE DEF a, n
    <3>5. /\ entries \in Seq(Entries)
          /\ Len(entries) = n - a + 1
          /\ \A k \in 1 .. n - a + 1 : entries[k] = log[a + k - 1]
        BY <3>2, <3>3, <3>4, SubSeqProperties
    <3>6. Len(entries) = Len(log) - commitPos
        BY <3>0, <3>5, <1>1
    <3>7. \A k \in 1 .. Len(entries) : entries[k] = log[commitPos + k]
      <4> TAKE k \in 1 .. Len(entries)
      <4>1. k \in 1 .. n - a + 1 /\ a + k - 1 = commitPos + k
        BY <3>0, <3>6, <1>1
      <4> QED
        BY <4>1, <3>5
    <3> QED
        BY <3>5, <3>6, <3>7
  <2> QED
    BY <2>1, <2>2
<1>4. s \in Streams /\ s.base = commitPos /\ s.entries = entries /\ s.max = max
    BY <1>1, <1>3 DEF Streams
<1>5. m \in ControlMessages /\ m.type = "JoinLog" /\ m.stream = Len(streams) + 1
    BY <1>1 DEF ControlMessages, JoinLogEvents
<1>6. /\ streams' = Append(streams, s) /\ control' = Append(control, m) /\ cm' = "joining"
      /\ UNCHANGED <<log, commitPos, term, expectedAckId, recovery, acks>>
    BY DEF OpenStream
<1> HIDE DEF s, m
<1>7. /\ Len(streams') = Len(streams) + 1 /\ streams' # <<>>
      /\ \A i \in 1 .. Len(streams) : streams'[i] = streams[i]
      /\ Current' = s
  <2>1. /\ Len(streams') = Len(streams) + 1
        /\ \A i \in 1 .. Len(streams) : streams'[i] = streams[i]
        /\ streams'[Len(streams) + 1] = s
    BY <1>1, <1>4, <1>6, AppendProperties
  <2>2. streams' # <<>>
    BY <2>1, <1>1
  <2> QED
    BY <2>1, <2>2 DEF Current
<1>8. StreamEnd(s) = Len(log) /\ \A p : Agrees(log, s, p)
    BY <1>1, <1>3, <1>4 DEF StreamEnd, Agrees
<1>9. CarriesLog(log, s, commitPos) /\ (s.max = NoMaxPosition => commitPos < MaxLog)
  <2>1. CASE max = Len(log)
    <3>1. s.max # NoMaxPosition
        BY <2>1, <1>1, <1>2, <1>4 DEF NoMaxPosition
    <3> QED
        BY <3>1, <1>1, <1>8 DEF CarriesLog
  <2>2. CASE entries = <<>> /\ commitPos = Len(log) /\ commitPos < MaxLog
            /\ max = NoMaxPosition
    <3>1. IsOrdered(log, s)
        BY <2>2, <1>1, <1>3, <1>4 DEF IsOrdered
    <3> QED
        BY <2>2, <3>1, <1>1, <1>2, <1>4, <1>8 DEF CarriesLog
  <2> QED
    BY <2>1, <2>2
<1>10. CurrentInv'
    BY <1>4, <1>6, <1>7, <1>9 DEF CurrentInv, IsLive
<1>11. /\ NoneAsked /\ Answers(acks) = {}
    BY NothingAwaited
<1>12. Calls(control') = {Len(control) + 1} /\ control'[Len(control) + 1] = m
    BY <1>1, <1>5, <1>6, <1>11, AppendCalls, AppendProperties DEF NoneAsked
<1>13. CallInv'
    BY <1>5, <1>6, <1>7, <1>11, <1>12
    DEF CallInv, NoneAsked, agentVars, joinVars, ackVars
<1>14. ImageInv'
    BY <1>6, <1>7, <1>11 DEF ContentInv, ImageInv, IndInv, StreamInv, agentVars, joinVars
<1>15. Grows(log, log')
    BY <1>6 DEF Grows
<1>16. SnapshotInv'
    BY <1>6, <1>15, SnapshotKept
<1> QED
    BY <1>2, <1>6, <1>10, <1>13, <1>14, <1>15, <1>16, CMKeepsContent DEF ContentInv

\* A message is sent, or none, and the module goes on.
LEMMA ControlSentContent ==
    ASSUME IndInv, ContentInv, LeaveStream \/ Terminate,
           UNCHANGED <<recordings, agentVars, restarts>>
    PROVE  ContentInv'
<1>1. /\ cm = "active"
      /\ UNCHANGED <<log, commitPos, streams, term, expectedAckId, recovery, acks>>
    BY DEF LeaveStream, Terminate
<1>2. control \in Seq(ControlMessages) /\ Len(control) \in Nat /\ commitPos \in Nat
    BY LenProperties DEF IndInv, TypeOK, CMTypeOK
<1>3. NoneAsked /\ Answers(acks) = {}
    BY <1>1, NothingAwaited
<1>4. cm' \in {"draining", "settled", "terminating"}
    BY DEF LeaveStream, Terminate
<1>5. IsLog(log') /\ CurrentInv'
    BY <1>1, <1>4 DEF ContentInv, CurrentInv, Current
<1>6. ImageInv'
    BY <1>1, <1>4 DEF ContentInv, ImageInv, agentVars, joinVars
<1>7. CallInv'
  <2> USE DEF agentVars, joinVars, ackVars
  <2>1. CASE cm' = "draining"
    <3> DEFINE m == [type |-> "RequestServiceAck", logPosition |-> commitPos]
    <3>1. control' = Append(control, m) /\ m \in ControlMessages
          /\ m.type = "RequestServiceAck"
        BY <2>1, <1>2 DEF LeaveStream, Terminate, ControlMessages
    <3> HIDE DEF m
    <3>2. Calls(control') = {Len(control) + 1} /\ control'[Len(control) + 1] = m
        BY <3>1, <1>2, <1>3, AppendCalls, AppendProperties DEF NoneAsked
    <3> QED
        BY <2>1, <3>1, <3>2, <1>1, <1>3 DEF CallInv, NoneAsked
  <2>2. CASE cm' = "settled"
    <3>1. control' = control
        BY <2>2 DEF LeaveStream, Terminate
    <3> QED
        BY <2>2, <3>1, <1>1, <1>3 DEF CallInv, NoneAsked
  <2>3. CASE cm' = "terminating"
    <3> DEFINE m == [type |-> "ServiceTerminationPosition", logPosition |-> commitPos]
    <3>1. control' = Append(control, m) /\ m \in ControlMessages
          /\ m.type = "ServiceTerminationPosition"
        BY <2>3, <1>2 DEF LeaveStream, Terminate, ControlMessages
    <3> HIDE DEF m
    <3>2. Calls(control') = {}
        BY <3>1, <1>2, <1>3, AppendCalls DEF NoneAsked
    <3> QED
        BY <2>3, <3>2, <1>1, <1>3 DEF CallInv, NoneAsked
  <2> QED
    BY <2>1, <2>2, <2>3, <1>4
<1>8. Grows(log, log')
    BY <1>1 DEF Grows
<1>9. SnapshotInv'
    BY <1>1, <1>8, SnapshotKept
<1> QED
    BY <1>1, <1>5, <1>6, <1>7, <1>8, <1>9, CMKeepsContent DEF ContentInv

\* An ack is taken: what is left of the acks.
LEMMA TakeAckContent ==
    ASSUME IndInv, ContentInv, NEW ids, TakeAck(ids),
           UNCHANGED <<recordings, agentVars, restarts>>
    PROVE  /\ acks # <<>> /\ Awaits(Head(acks).relevantId)
           /\ \A i : i \in Answers(acks') <=> i + 1 \in Answers(acks) /\ i \in Nat \ {0}
           /\ (1 \in Answers(acks)) = (Head(acks).relevantId = NullValue)
           /\ \A i \in 1 .. Len(acks') : \E j \in 1 .. Len(acks) : acks'[i] = acks[j]
           /\ pc \notin StartSteps
<1>1. acks # <<>> /\ acks' = Tail(acks) /\ acks \in Seq(ServiceAcks)
      /\ IsExpected(Head(acks))
    BY DEF TakeAck, IndInv, TypeOK, CMTypeOK
<1>2. \A i : i \in Answers(acks') <=> i + 1 \in Answers(acks) /\ i \in Nat \ {0}
    BY <1>1, TailAnswers
<1>3. Head(acks) = acks[1] /\ 1 \in 1 .. Len(acks)
      /\ \A i \in 1 .. Len(acks') : i + 1 \in 1 .. Len(acks) /\ acks'[i] = acks[i + 1]
    BY TakeAckType
<1>4. pc \notin StartSteps
    BY <1>1 DEF ContentInv, LoadInv
<1> QED
    BY <1>1, <1>2, <1>3, <1>4 DEF IsExpected, Answers

\* The ack of a join or of a request: nothing is awaited then.
LEMMA AnswerTaken ==
    ASSUME IndInv, ContentInv, TakeAck({NullValue}),
           UNCHANGED <<recordings, agentVars, restarts>>
    PROVE  /\ cm \in {"joining", "draining"}
           /\ Answers(acks) # {} /\ Answers(acks') = {}
           /\ NoneAsked /\ NoneAsked'
<1>1. Head(acks).relevantId = NullValue
    BY DEF TakeAck
<1>2. cm \in {"joining", "draining"}
    BY <1>1, TakeAckContent DEF Awaits, NullValue, ClientId
<1>3. 1 \in Answers(acks)
    BY <1>1, TakeAckContent
<1>4. \A i, j \in Answers(acks) : i = j
    BY <1>2 DEF ContentInv, CallInv
<1>5. Answers(acks') = {}
  <2> SUFFICES ASSUME NEW i \in Answers(acks') PROVE FALSE
    OBVIOUS
  <2>1. i + 1 \in Answers(acks) /\ i \in Nat \ {0}
    BY TakeAckContent
  <2>2. i + 1 = 1
    BY <2>1, <1>3, <1>4
  <2> QED
    BY <2>1, <2>2
<1>6. NoneAsked
    BY <1>2, <1>3 DEF ContentInv, CallInv
<1>7. NoneAsked'
    BY <1>6 DEF NoneAsked, TakeAck, agentVars, joinVars, ackVars
<1> QED
    BY <1>2, <1>3, <1>5, <1>6, <1>7

LEMMA ServiceJoinedContent ==
    ASSUME IndInv, ContentInv, ServiceJoined, UNCHANGED <<recordings, agentVars, restarts>>
    PROVE  ContentInv'
<1>1. /\ TakeAck({NullValue}) /\ cm = "joining" /\ cm' = "active"
      /\ UNCHANGED <<log, commitPos, control, recovery>>
    BY DEF ServiceJoined, TakeAck
<1>2. /\ Answers(acks) # {} /\ Answers(acks') = {} /\ NoneAsked' /\ NoneAsked
    BY <1>1, AnswerTaken
<1>3. Len(streams') = Len(streams)
  <2>1. CASE IsLive
    <3>1. streams # <<>> /\ streams \in Seq(Streams) /\ Len(streams) \in Nat
        BY <2>1, LenProperties DEF IsLive, IndInv, TypeOK, CMTypeOK
    <3> QED
        BY <2>1, <3>1 DEF ServiceJoined
  <2>2. CASE ~ IsLive
    BY <2>2 DEF ServiceJoined
  <2> QED
    BY <2>1, <2>2
<1>4. /\ CurrentInv'
      /\ image # NoImage => Agrees(log, streams'[image.stream], commitPos)
  <2>0. image # NoImage => /\ Agrees(log, streams[image.stream], commitPos)
                           /\ image.stream = Len(streams)
    BY <1>1, <1>2 DEF ContentInv, ImageInv
  <2>1. CASE ~ IsLive
    <3>1. UNCHANGED <<streams, term>>
        BY <2>1 DEF ServiceJoined
    <3>2. Current' = Current /\ IsLive' = FALSE
        BY <2>1, <3>1 DEF Current, IsLive
    <3>3. CurrentInv'
        BY <1>1, <3>1, <3>2 DEF ContentInv, CurrentInv
    <3> QED
        BY <2>0, <3>1, <3>3
  <2>2. CASE IsLive
    <3> DEFINE e == [kind |-> "NewLeadershipTermEvent", session |-> NoSession,
                     open |-> OpenAt(log, commitPos), term |-> term + 1]
               es == <<e>>
    <3>1. streams # <<>> /\ Current.max = NoMaxPosition
        BY <2>2 DEF IsLive
    <3>2. /\ Current \in Streams /\ Current.base \in Nat /\ commitPos \in Nat
          /\ log \in Seq(Entries) /\ commitPos \in 0 .. Len(log)
          /\ Current = streams[Len(streams)]
        BY <3>1, CurrentFacts
    <3>3. OpenAt(log, commitPos) \in SUBSET Sessions
        BY <3>2, OpenAtType
    <3>4. e \in Entries /\ e.kind = "NewLeadershipTermEvent" /\ e.term = term + 1
          /\ e.open = OpenAt(log, commitPos)
        BY <3>3 DEF Entries, Kinds, IndInv, TypeOK, CMTypeOK
    <3>5. streams' = [streams EXCEPT ![Len(streams)].entries = es] /\ term' = term + 1
        BY <2>2 DEF ServiceJoined
    <3> HIDE DEF e
    <3>6. es \in Seq(Entries) /\ Len(es) = 1 /\ es[1] = e /\ es # <<>>
        BY <3>4
    <3> HIDE DEF es
    <3>7. /\ streams' # <<>>
          /\ Current' = [Current EXCEPT !.entries = es]
        BY <3>1, <3>5, <3>6, CurrentReplaced
    <3>8. /\ Current'.base = Current.base /\ Current'.max = Current.max
          /\ Current'.entries = es
        BY <3>2, <3>7 DEF Streams
    <3>9. /\ CarriesLog(log, Current, commitPos)
          /\ commitPos = Current.base /\ commitPos < MaxLog
        BY <1>1, <2>2, <3>1 DEF ContentInv, CurrentInv
    <3>10. Agrees(log, Current', commitPos)
        BY <3>2, <3>6, <3>8, <3>9 DEF Agrees
    <3>11. IsOrdered(log, Current')
      <4>1. Follows(e, OpenAt(log, Current.base), TermAt(log, Current.base))
        BY <3>4, <3>9 DEF Follows
      <4> SUFFICES ASSUME NEW k \in 1 .. Len(es)
                   PROVE  Follows(es[k],
                            IF k = 1 THEN OpenAt(log, Current.base) ELSE es[k - 1].open,
                            IF k = 1 THEN TermAt(log, Current.base) ELSE es[k - 1].term)
        BY <3>8 DEF IsOrdered
      <4>2. k = 1
        BY <3>6
      <4> QED
        BY <4>1, <4>2, <3>6
    <3>12. StreamEnd(Current') = commitPos + 1 /\ commitPos + 1 <= MaxLog
      <4>1. StreamEnd(Current') = Current.base + Len(es)
        BY <3>8 DEF StreamEnd
      <4> QED
        BY <4>1, <3>2, <3>6, <3>9, ClusterLogAssumption
    <3>13. CarriesLog(log, Current', commitPos)
        BY <3>1, <3>2, <3>8, <3>9, <3>10, <3>11, <3>12 DEF CarriesLog
    <3>14. CurrentInv'
        BY <1>1, <3>4, <3>5, <3>6, <3>7, <3>8, <3>13 DEF CurrentInv
    <3>15. streams'[Len(streams)] = Current'
        BY <1>3 DEF Current
    <3> QED
        BY <2>0, <3>10, <3>14, <3>15
  <2> QED
    BY <2>1, <2>2
<1>5. IsLog(log')
    BY <1>1 DEF ContentInv
<1>6. CallInv'
    BY <1>1, <1>2, <1>3 DEF ContentInv, CallInv, NoneAsked, agentVars, joinVars, ackVars
<1>7. ImageInv'
    BY <1>1, <1>2, <1>3, <1>4 DEF ContentInv, ImageInv, agentVars, joinVars
<1>8. Grows(log, log') /\ acks # <<>>
      /\ \A i \in 1 .. Len(acks') : \E j \in 1 .. Len(acks) : acks'[i] = acks[j]
    BY <1>1, TakeAckContent DEF Grows
<1>9. SnapshotInv'
    BY <1>1, <1>8, SnapshotKept
<1> QED
    BY <1>1, <1>4, <1>5, <1>6, <1>7, <1>8, <1>9, CMKeepsContent DEF ContentInv

\* The acks that change neither the log nor its streams.
LEMMA AckTakenContent ==
    ASSUME IndInv, ContentInv, NEW ids, TakeAck(ids),
           UNCHANGED <<streams, term>>, UNCHANGED <<recordings, agentVars, restarts>>,
           CallInv', SnapshotInv',
           cm' \in {"active", "snapshot"} => cm \in {"active", "snapshot"},
           cm' # "joining"
    PROVE  ContentInv'
<1>1. UNCHANGED <<log, commitPos>> /\ acks # <<>>
    BY DEF TakeAck
<1>2. IsLog(log') /\ CurrentInv'
    BY <1>1 DEF ContentInv, CurrentInv, Current, IsLive
<1>3. ImageInv'
    BY <1>1 DEF ContentInv, ImageInv, agentVars, joinVars
<1>4. Grows(log, log')
    BY <1>1 DEF Grows
<1> QED
    BY <1>1, <1>2, <1>3, <1>4, CMKeepsContent DEF ContentInv

LEMMA ServiceStartedContent ==
    ASSUME IndInv, ContentInv, ServiceStarted, UNCHANGED <<recordings, agentVars, restarts>>
    PROVE  ContentInv'
<1>1. TakeAck({ClientId}) /\ cm' = "settled" /\ UNCHANGED <<streams, term, recovery>>
    BY DEF ServiceStarted
<1>2. Head(acks).relevantId = ClientId
    BY <1>1 DEF TakeAck
<1>3. cm = "starting"
    BY <1>1, <1>2, TakeAckContent DEF Awaits, ClientId, NullValue
<1>4. NoneAsked /\ Answers(acks) = {}
    BY <1>3, NothingAwaited
<1>5. Answers(acks') = {}
    BY <1>1, <1>4, TakeAckContent
<1>6. UNCHANGED <<control, log>>
    BY <1>1 DEF TakeAck
<1>7. CallInv'
    BY <1>1, <1>4, <1>5, <1>6 DEF ContentInv, CallInv, NoneAsked, agentVars, joinVars, ackVars
<1>8. SnapshotInv'
    BY <1>1, <1>6, TakeAckContent, SnapshotKept DEF Grows
<1> QED
    BY <1>1, <1>7, <1>8, AckTakenContent

LEMMA ServiceDrainedContent ==
    ASSUME IndInv, ContentInv, ServiceDrained, UNCHANGED <<recordings, agentVars, restarts>>
    PROVE  ContentInv'
<1>1. TakeAck({NullValue}) /\ cm' = "settled" /\ UNCHANGED <<streams, term, recovery>>
    BY DEF ServiceDrained
<1>2. Answers(acks') = {} /\ NoneAsked'
    BY <1>1, AnswerTaken
<1>3. UNCHANGED <<control, log>>
    BY <1>1 DEF TakeAck
<1>4. CallInv'
    BY <1>1, <1>2, <1>3 DEF ContentInv, CallInv, NoneAsked, agentVars, joinVars, ackVars
<1>5. SnapshotInv'
    BY <1>1, <1>3, TakeAckContent, SnapshotKept DEF Grows
<1> QED
    BY <1>1, <1>4, <1>5, AckTakenContent

LEMMA SnapshotTakenContent ==
    ASSUME IndInv, ContentInv, SnapshotTaken, UNCHANGED <<recordings, agentVars, restarts>>
    PROVE  ContentInv'
<1> DEFINE a == Head(acks)
<1>1. /\ TakeAck(Recordings) /\ cm' = IF cm = "snapshot" THEN "active" ELSE cm
      /\ recovery' = [logPosition |-> a.logPosition, term |-> log[a.logPosition].term,
                      recording |-> a.relevantId]
      /\ UNCHANGED <<streams, term>>
    BY DEF SnapshotTaken
<1>2. UNCHANGED <<control, log>> /\ a.relevantId \in Recordings
    BY <1>1 DEF TakeAck
<1>3. cm \in {"snapshot", "active", "draining", "terminating"}
    BY <1>1, <1>2, TakeAckContent DEF Awaits, AwaitsSnapshot, Recordings, ClientId, NullValue
<1>4. 1 \notin Answers(acks)
    BY <1>1, <1>2, TakeAckContent DEF Recordings, NullValue
<1>5. \A i : i \in Answers(acks') <=> i + 1 \in Answers(acks) /\ i \in Nat \ {0}
    BY <1>1, TakeAckContent
<1>6. CallInv'
  <2> USE DEF agentVars, joinVars, ackVars
  <2>1. \A i, j \in Answers(acks') : i = j
    <3> TAKE i, j \in Answers(acks')
    <3>1. i + 1 \in Answers(acks) /\ j + 1 \in Answers(acks) /\ i \in Nat /\ j \in Nat
        BY <1>5
    <3>2. i + 1 = j + 1
        BY <3>1, <1>3 DEF ContentInv, CallInv
    <3> QED
        BY <3>1, <3>2
  <2>2. Answers(acks) = {} => Answers(acks') = {}
    BY <1>5
  <2>3. NoneAsked' = NoneAsked
    BY <1>2 DEF NoneAsked
  <2>4. CASE cm = "draining"
    BY <2>1, <2>2, <2>3, <2>4, <1>1, <1>2 DEF ContentInv, CallInv
  <2>5. CASE cm \in {"snapshot", "active", "terminating"}
    <3>1. NoneAsked /\ Answers(acks) = {}
        BY <2>5, NothingAwaited
    <3>2. cm' \in {"active", "terminating"}
        BY <2>5, <1>1
    <3>3. NoneAsked' /\ Answers(acks') = {}
        BY <3>1, <2>2, <2>3
    <3> QED
        BY <3>2, <3>3, <1>1, <1>2 DEF ContentInv, CallInv, NoneAsked
  <2> QED
    BY <2>4, <2>5, <1>3
<1>7. SnapshotInv'
  <2>1. a = acks[1] /\ 1 \in 1 .. Len(acks) /\ a \in ServiceAcks
    BY <1>1, TakeAckType
  <2>2. IsComplete(log, recordings[a.relevantId], a.logPosition)
        /\ a.relevantId \in 1 .. Len(recordings)
    BY <1>2, <2>1 DEF ContentInv, SnapshotInv, IndInv, RecordingInv, Recordings
  <2>3. a.logPosition \in 1 .. Len(log)
    BY <2>2 DEF IsComplete
  <2>4. log[a.logPosition].term = TermAt(log, a.logPosition)
    BY <2>3 DEF TermAt
  <2>5. recovery'.recording = a.relevantId /\ recovery'.logPosition = a.logPosition
        /\ recovery'.term = TermAt(log, a.logPosition)
    BY <1>1, <2>4
  <2>6. recovery'.recording # NullValue
    BY <1>2, <2>5 DEF Recordings, NullValue
  <2>7. \A i \in 1 .. Len(acks') : \E j \in 1 .. Len(acks) : acks'[i] = acks[j]
    BY <1>1, TakeAckContent
  <2> HIDE DEF a
  <2>8. \A i \in 1 .. Len(acks') : acks'[i].relevantId \in Recordings =>
           IsComplete(log, recordings[acks'[i].relevantId], acks'[i].logPosition)
    BY <2>7 DEF ContentInv, SnapshotInv
  <2> QED
    BY <1>2, <2>2, <2>5, <2>6, <2>8 DEF SnapshotInv
<1>8. cm' \in {"active", "snapshot"} => cm \in {"active", "snapshot"}
    BY <1>1, <1>3
<1>9. cm' # "joining"
    BY <1>1, <1>3
<1> QED
    BY <1>1, <1>6, <1>7, <1>8, <1>9, AckTakenContent

LEMMA RejectAckContent ==
    ASSUME IndInv, ContentInv, RejectAck, UNCHANGED <<recordings, agentVars, restarts>>
    PROVE  ContentInv'
<1>1. /\ cm' = "error"
      /\ UNCHANGED <<log, commitPos, streams, term, expectedAckId, recovery, control, acks>>
    BY DEF RejectAck
<1> USE DEF agentVars, joinVars, ackVars
<1>2. IsLog(log') /\ CurrentInv'
    BY <1>1 DEF ContentInv, CurrentInv, Current, IsLive
<1>3. CallInv'
    BY <1>1 DEF ContentInv, CallInv
<1>4. ImageInv'
    BY <1>1 DEF ContentInv, ImageInv
<1>5. Grows(log, log')
    BY <1>1 DEF Grows
<1>6. SnapshotInv'
    BY <1>1, <1>5, SnapshotKept
<1> QED
    BY <1>1, <1>2, <1>3, <1>4, <1>5, <1>6, CMKeepsContent DEF ContentInv

LEMMA CMStepContent ==
    ASSUME IndInv, ContentInv, CMStep
    PROVE  ContentInv'
<1>0. UNCHANGED <<recordings, agentVars, restarts>>
    BY DEF CMStep
<1>1. CASE AppendEntry
    BY <1>0, <1>1, AppendEntryContent
<1>2. CASE Commit
    BY <1>0, <1>2, CommitContent
<1>3. CASE StartReplay
  <2>1. /\ cm = "settled" /\ Len(log) \in Nat
        /\ OpenStream(SubSeq(log, commitPos + 1, Len(log)), Len(log), TRUE, "FOLLOWER")
    BY <1>3, LenProperties DEF StartReplay, IndInv, TypeOK, CMTypeOK
  <2> QED
    BY <1>0, <2>1, OpenStreamContent DEF Roles
<1>4. CASE StartTerm
  <2>1. /\ cm = "settled" /\ commitPos = Len(log) /\ commitPos < MaxLog
        /\ NoMaxPosition \in Nat /\ IsStartup \in BOOLEAN
    BY <1>4, ClusterLogAssumption DEF StartTerm, NoMaxPosition, IsStartup
  <2>2. PICK r \in Roles : OpenStream(<<>>, NoMaxPosition, IsStartup, r)
    BY <1>4 DEF StartTerm
  <2> QED
    BY <1>0, <2>1, <2>2, OpenStreamContent
<1>5. CASE LeaveStream \/ Terminate
    BY <1>0, <1>5, ControlSentContent
<1>6. CASE ServiceStarted
    BY <1>0, <1>6, ServiceStartedContent
<1>7. CASE ServiceJoined
    BY <1>0, <1>7, ServiceJoinedContent
<1>8. CASE SnapshotTaken
    BY <1>0, <1>8, SnapshotTakenContent
<1>9. CASE ServiceDrained
    BY <1>0, <1>9, ServiceDrainedContent
<1>10. CASE RejectAck
    BY <1>0, <1>10, RejectAckContent
<1> QED
    BY <1>1, <1>2, <1>3, <1>4, <1>5, <1>6, <1>7, <1>8, <1>9, <1>10 DEF CMStep, CMNext

-----------------------------------------------------------------------------
(* Steps of the archive, and the restart *)

\* The progress of a start is kept with the variables it speaks of, and what the snapshot
\* it loads has published.
LEMMA LoadKept ==
    ASSUME LoadInv,
           UNCHANGED <<pc, acks, logPosition, leadershipTermId, recovery, loader, sessions,
                       sessionByIdMap, log>>,
           pc = "load" => recordings'[recovery.recording].published
                              = recordings[recovery.recording].published
    PROVE  LoadInv'
BY DEF LoadInv

\* A step that leaves alone everything but the recordings.
LEMMA RecordingsContent ==
    ASSUME IndInv, ContentInv, UNCHANGED <<cmVars, agentVars>>,
           \A r \in 1 .. Len(recordings) :
              /\ recordings'[r].published = recordings[r].published
              /\ recordings'[r].active = recordings[r].active
              /\ \A p : IsComplete(log, recordings[r], p) =>
                           recordings'[r].recorded = recordings[r].recorded,
           Len(recordings') = Len(recordings)
    PROVE  ContentInv'
<1> USE DEF cmVars, agentVars, positionVars, ackVars, sessionVars, joinVars, startVars
<1>1. IsLog(log') /\ CurrentInv' /\ CallInv' /\ ImageInv' /\ VectorInv'
    BY DEF ContentInv, CurrentInv, CallInv, NoneAsked, ImageInv, VectorInv, Current, IsLive
<1>2. \A r \in 1 .. Len(recordings) : \A p :
         IsComplete(log, recordings[r], p) => IsComplete(log, recordings'[r], p)
    BY DEF IsComplete
<1>3. ProgressInv'
  <2>1. currentSnapshot.step \in {"recording", "state", "ack"} =>
            currentSnapshot.recording \in 1 .. Len(recordings)
    BY DEF IndInv, RecordingInv
  <2> QED
    BY <2>1 DEF ContentInv, ProgressInv, SnapshotFragments, SessionFragments, Mark
<1>4. SnapshotInv'
  <2>1. \A i \in 1 .. Len(acks) : acks[i].relevantId \in Recordings =>
            acks[i].relevantId \in 1 .. Len(recordings)
    BY DEF IndInv, RecordingInv, Recordings
  <2> QED
    BY <2>1, <1>2 DEF ContentInv, SnapshotInv
<1>5. LoadInv'
  <2>1. pc = "load" =>
            recordings'[recovery.recording].published = recordings[recovery.recording].published
    BY DEF IndInv, StepInv, RecordingInv
  <2>2. LoadInv
    BY DEF ContentInv
  <2> QED
    BY <2>1, <2>2, LoadKept
<1>6. MatchInv'
    BY DEF ContentInv, MatchInv, IsStarted
<1> QED
    BY <1>1, <1>3, <1>4, <1>5, <1>6 DEF ContentInv

LEMMA ArchiveStepContent ==
    ASSUME RecordingMayStop = FALSE, IndInv, ContentInv, ArchiveStep
    PROVE  ContentInv'
<1>1. PICK r \in 1 .. Len(recordings) : Record(r)
    BY LenProperties
    DEF ArchiveStep, ArchiveNext, StopRecording, IndInv, TypeOK, ArchiveTypeOK
<1>2. recordings \in Seq(RecordingStates) /\ Len(recordings) \in Nat
    BY LenProperties DEF IndInv, TypeOK, ArchiveTypeOK
<1> DEFINE n == [recordings[r] EXCEPT !.recorded = recordings[r].recorded + 1]
<1>3. recordings[r] \in RecordingStates
    BY RecordingType
<1>4. n \in RecordingStates /\ n.published = recordings[r].published
      /\ n.active = recordings[r].active
    BY <1>3 DEF RecordingStates
<1>5. recordings' = [recordings EXCEPT ![r] = n]
    BY <1>1 DEF Record
<1> HIDE DEF n
<1>6. Len(recordings') = Len(recordings)
      /\ \A q \in 1 .. Len(recordings) :
            recordings'[q] = IF q = r THEN n ELSE recordings[q]
    BY <1>2, <1>4, <1>5, ExceptSeq
<1>7. \A p : ~ IsComplete(log, recordings[r], p)
  <2>1. recordings[r].recorded < Len(recordings[r].published)
        /\ recordings[r].recorded \in Nat
    BY <1>1, RecordingType DEF Record
  <2> QED
    BY <2>1 DEF IsComplete
<1>8. UNCHANGED <<cmVars, agentVars>>
    BY DEF ArchiveStep
<1> QED
    BY <1>4, <1>6, <1>7, <1>8, RecordingsContent

\* The whole of a recording is replayed.
LEMMA ReplayedWhole ==
    ASSUME IndInv, NEW r \in 1 .. Len(recordings),
           recordings[r].recorded = Len(recordings[r].published)
    PROVE  Replayed(r) = recordings[r].published
<1>1. recordings[r].published \in Seq(Fragments)
    BY RecordingType
<1> QED
    BY <1>1, SubSeqFull DEF Replayed

LEMMA RestartContent ==
    ASSUME IndInv, ContentInv, Restart
    PROVE  ContentInv'
<1>1. /\ log' = log /\ recovery' = recovery /\ streams' = <<>> /\ cm' = "starting"
      /\ control' = <<>> /\ acks' = <<>> /\ pc' = "recover"
      /\ requestedAckPosition' = NullPosition /\ activeLogEvent' = NoEvent
      /\ image' = NoImage /\ currentSnapshot' = NoSnapshot
      /\ sessions' = <<>> /\ sessionByIdMap' = {}
      /\ loader' = [next |-> 1, inSnapshot |-> FALSE]
    BY DEF Restart, CMRestart
<1>2. Calls(<<>>) = {} /\ Answers(<<>>) = {} /\ Ids(<<>>) = {} /\ IsSorted(<<>>)
    BY DEF Calls, Answers, Ids, IsSorted
<1>3. IsLog(log') /\ CurrentInv' /\ ImageInv' /\ VectorInv'
    BY <1>1, <1>2 DEF ContentInv, CurrentInv, ImageInv, VectorInv
<1>4. CallInv'
    BY <1>1, <1>2 DEF CallInv, NoneAsked
<1>5. ProgressInv'
    BY <1>1 DEF ProgressInv, NoSnapshot
<1>6. SnapshotInv'
  <2>1. CASE recovery.recording = NullValue
    BY <2>1, <1>1 DEF ContentInv, SnapshotInv
  <2>2. CASE recovery.recording # NullValue
    <3> DEFINE r == recovery.recording
               p == recovery.logPosition
    <3>1. /\ r \in 1 .. Len(recordings) /\ IsComplete(log, recordings[r], p)
          /\ recovery.term = TermAt(log, p)
        BY <2>2 DEF ContentInv, SnapshotInv
    <3>2. Replayed(r) = recordings[r].published
        BY <3>1, ReplayedWhole DEF IsComplete
    <3>3. recordings \in Seq(RecordingStates) /\ DOMAIN recordings = 1 .. Len(recordings)
          /\ Len(recordings) \in Nat
        BY LenProperties DEF IndInv, TypeOK, ArchiveTypeOK
    <3>4. recordings[r] \in RecordingStates
        BY <3>1, RecordingType
    <3>5. recordings' = [q \in 1 .. Len(recordings) |->
                [recordings[q] EXCEPT !.published = Replayed(q), !.active = FALSE]]
        BY <3>3 DEF Restart, ArchiveRestart
    <3>6. recordings'[r] = [recordings[r] EXCEPT !.published = Replayed(r), !.active = FALSE]
        BY <3>1, <3>5
    <3>7. recordings'[r].published = recordings[r].published
          /\ recordings'[r].recorded = recordings[r].recorded
        BY <3>2, <3>4, <3>6 DEF RecordingStates
    <3>8. IsComplete(log, recordings'[r], p)
        BY <3>1, <3>7 DEF IsComplete
    <3>9. Len(recordings') = Len(recordings)
      <4>1. ArchiveTypeOK'
        BY RestartInd DEF IndInv, TypeOK
      <4>2. Len(recordings') \in Nat /\ DOMAIN recordings' = 1 .. Len(recordings')
        BY <4>1, LenProperties DEF ArchiveTypeOK
      <4>3. DOMAIN recordings' = 1 .. Len(recordings)
        BY <3>5
      <4> QED
        BY <3>3, <4>2, <4>3, SameInterval
    <3> QED
        BY <2>2, <3>1, <3>8, <3>9, <1>1 DEF SnapshotInv
  <2> QED
    BY <2>1, <2>2
<1>7. LoadInv'
    BY <1>1 DEF LoadInv, StartSteps
<1>8. MatchInv'
    BY <1>1 DEF MatchInv, IsStarted, WorkSteps
<1> QED
    BY <1>3, <1>4, <1>5, <1>6, <1>7, <1>8 DEF ContentInv

-----------------------------------------------------------------------------
(* Steps of the agent *)

LEMMA AgentKeepsLog ==
    ASSUME ContentInv, OthersKeep
    PROVE  IsLog(log') /\ CurrentInv'
BY DEF ContentInv, OthersKeep, CurrentInv, Current, IsLive

\* A step that neither takes a message nor answers one.
LEMMA CallsKept ==
    ASSUME ContentInv, OthersKeep, Answers(acks') = Answers(acks),
           UNCHANGED <<control, activeLogEvent, requestedAckPosition>>
    PROVE  CallInv'
BY DEF ContentInv, CallInv, NoneAsked, OthersKeep

LEMMA ImageKept ==
    ASSUME IndInv, ContentInv, OthersKeep, Answers(acks') = Answers(acks),
           \/ image' = NoImage
           \/ image # NoImage /\ image'.stream = image.stream
           \/ image' = image
    PROVE  ImageInv'
BY DEF ContentInv, ImageInv, OthersKeep

\* A step after which every snapshot that was complete still is.
LEMMA SnapshotsKept ==
    ASSUME IndInv, ContentInv, OthersKeep, UNCHANGED acks,
           Len(recordings') >= Len(recordings), Len(recordings') \in Nat,
           \A r \in 1 .. Len(recordings) : \A p :
              IsComplete(log, recordings[r], p) => IsComplete(log, recordings'[r], p)
    PROVE  SnapshotInv'
<1>1. \A i \in 1 .. Len(acks) : acks[i].relevantId \in Recordings =>
          acks[i].relevantId \in 1 .. Len(recordings)
    BY DEF IndInv, RecordingInv, Recordings
<1>2. Len(recordings) \in Nat
    BY LenProperties DEF IndInv, TypeOK, ArchiveTypeOK
<1>3. \A i \in 1 .. Len(acks') : acks'[i].relevantId \in Recordings =>
          IsComplete(log', recordings'[acks'[i].relevantId], acks'[i].logPosition)
    BY <1>1 DEF ContentInv, SnapshotInv, OthersKeep
<1>4. recovery.recording # NullValue =>
          /\ recovery.recording \in 1 .. Len(recordings)
          /\ IsComplete(log, recordings'[recovery.recording], recovery.logPosition)
    BY DEF ContentInv, SnapshotInv
<1> QED
    BY <1>2, <1>3, <1>4 DEF ContentInv, SnapshotInv, OthersKeep

\* A step that moves the agent on, may leave the log it polls, or ends its thread.
LEMMA OnlyMovesContent ==
    ASSUME IndInv, ContentInv, OthersKeep, AgentKeepsMessages,
           pc' \in WorkSteps \cup {"failed"}, pc' # "failed" => pc \in WorkSteps,
           pc # "failed", pc = "begin" => currentSnapshot = NoSnapshot,
           UNCHANGED <<positionVars, ackVars, sessionVars, currentSnapshot, activeLogEvent>>,
           image' \in {image, NoImage}
    PROVE  ContentInv'
<1> USE DEF AgentKeepsMessages, positionVars, ackVars, sessionVars
<1>1. IsLog(log') /\ CurrentInv' /\ CallInv' /\ ImageInv'
    BY AgentKeepsLog, CallsKept, ImageKept
<1>2. SnapshotInv'
    BY DEF ContentInv, SnapshotInv, OthersKeep
<1>3. VectorInv'
    BY DEF ContentInv, VectorInv
<1>4. ProgressInv'
  <2>1. currentSnapshot.step \notin {"recording", "state", "ack"}
    BY DEF ContentInv, ProgressInv, NoSnapshot
  <2> QED
    BY <2>1 DEF ProgressInv
<1>5. LoadInv'
    BY DEF LoadInv, StartSteps, WorkSteps
<1>6. MatchInv'
  <2>1. CASE pc' = "failed"
    BY <2>1 DEF MatchInv, IsStarted, WorkSteps
  <2>2. CASE pc' # "failed"
    BY <2>2 DEF ContentInv, MatchInv, IsStarted, OthersKeep
  <2> QED
    BY <2>1, <2>2
<1> QED
    BY <1>1, <1>2, <1>3, <1>4, <1>5, <1>6 DEF ContentInv

\* A node that has no snapshot recovers at the beginning of the log.
LEMMA NoRecoverySnapshot ==
    ASSUME IndInv, ContentInv, recovery.term = NullValue
    PROVE  recovery.logPosition = 0
<1>1. SUFFICES ASSUME recovery.recording # NullValue PROVE FALSE
    BY DEF ContentInv, SnapshotInv
<1>2. recovery.logPosition \in 1 .. Len(log)
      /\ NullValue = TermAt(log, recovery.logPosition) /\ log \in Seq(Entries)
    BY <1>1 DEF ContentInv, SnapshotInv, IsComplete, IndInv, TypeOK, CMTypeOK
<1>3. TermAt(log, recovery.logPosition) \in Nat
    BY <1>2, EntryType DEF TermAt
<1> QED
    BY <1>2, <1>3 DEF NullValue

LEMMA RecoverContent ==
    ASSUME IndInv, ContentInv, Recover, OthersKeep
    PROVE  ContentInv'
<1>1. /\ pc = "recover" /\ logPosition' = recovery.logPosition
      /\ leadershipTermId' = recovery.term
      /\ pc' = IF recovery.term # NullValue THEN "load" ELSE "start"
      /\ UNCHANGED <<service, ackVars, sessionVars, joinVars, currentSnapshot, poll,
                     startVars, control, acks, recordings>>
    BY DEF Recover
<1> USE DEF ackVars, sessionVars, joinVars, startVars
<1>2. loader = [next |-> 1, inSnapshot |-> FALSE] /\ sessions = <<>> /\ acks = <<>>
      /\ currentSnapshot = NoSnapshot
    BY <1>1 DEF ContentInv, LoadInv, IndInv, StepInv, StartSteps
<1>3. sessionByIdMap = {}
    BY <1>1, <1>2 DEF ContentInv, VectorInv, Ids
<1>4. IsLog(log') /\ CurrentInv' /\ CallInv' /\ ImageInv'
    BY <1>1, AgentKeepsLog, CallsKept, ImageKept
<1>5. SnapshotInv'
    BY <1>1 DEF ContentInv, SnapshotInv, OthersKeep
<1>6. VectorInv'
    BY <1>1 DEF ContentInv, VectorInv
<1>7. ProgressInv'
    BY <1>1, <1>2 DEF ProgressInv, NoSnapshot
<1>8. MatchInv'
    BY <1>1 DEF MatchInv, IsStarted, WorkSteps
<1>9. LoadInv'
  <2>1. CASE recovery.term # NullValue
    <3>1. recovery.recording \in 1 .. Len(recordings)
          /\ IsComplete(log, recordings[recovery.recording], recovery.logPosition)
        BY <2>1 DEF ContentInv, SnapshotInv
    <3>2. recordings[recovery.recording] \in RecordingStates /\ log \in Seq(Entries)
        BY <3>1, RecordingType DEF IndInv, TypeOK, CMTypeOK
    <3>3. 1 <= Len(recordings[recovery.recording].published) - 1
        BY <3>1, <3>2, CompleteEnds
    <3>4. /\ pc' = "load" /\ acks' = <<>> /\ loader'.next = 1
          /\ loader'.inSnapshot = FALSE /\ sessionByIdMap' = {}
          /\ recovery' = recovery /\ recordings' = recordings
        BY <2>1, <1>1, <1>2, <1>3 DEF OthersKeep
    <3>5. 2 .. 1 - 1 = {}
        OBVIOUS
    <3> DEFINE fs == recordings[recovery.recording].published
    <3>6. {fs[i].session : i \in 2 .. 1 - 1} = {}
        BY <3>5
    <3>7. recordings'[recovery'.recording].published = fs
        BY <3>4
    <3> HIDE DEF fs
    <3>8. /\ loader'.next <= Len(fs) - 1
          /\ loader'.inSnapshot = (loader'.next > 1)
          /\ sessionByIdMap' = {fs[i].session : i \in 2 .. loader'.next - 1}
      <4>1. loader'.next <= Len(fs) - 1
        BY <3>3, <3>4 DEF fs
      <4>2. loader'.inSnapshot = (loader'.next > 1)
        <5>1. (loader'.next > 1) = FALSE
            BY <3>4
        <5> QED
            BY <5>1, <3>4
      <4>3. {fs[i].session : i \in 2 .. loader'.next - 1} = {}
        BY <3>4, <3>6 DEF fs
      <4> QED
        BY <4>1, <4>2, <4>3, <3>4
    <3> QED
        BY <3>4, <3>7, <3>8, <1>1 DEF LoadInv, OthersKeep, StartSteps
  <2>2. CASE recovery.term = NullValue
    <3>1. recovery.logPosition = 0
        BY <2>2, NoRecoverySnapshot
    <3>2. OpenAt(log, 0) = {}
        BY DEF OpenAt
    <3> QED
        BY <2>2, <3>1, <3>2, <1>1, <1>2, <1>3 DEF LoadInv, OthersKeep, StartSteps
  <2> QED
    BY <2>1, <2>2
<1> QED
    BY <1>4, <1>5, <1>6, <1>7, <1>8, <1>9 DEF ContentInv

\* What a start replays: the whole of a complete snapshot.
LEMMA RecoverySnapshot ==
    ASSUME IndInv, ContentInv, recovery.term # NullValue
    PROVE  LET fragments == recordings[recovery.recording].published
               p == recovery.logPosition
           IN  /\ Replayed(recovery.recording) = fragments
               /\ p \in 1 .. Len(log) /\ log \in Seq(Entries)
               /\ recovery.term = TermAt(log, p)
               /\ \E ids \in Seq(Sessions) :
                     /\ Ids(ids) = OpenAt(log, p) /\ IsSorted(ids)
                     /\ fragments = SnapshotOf(log, ids, p)
<1> DEFINE r == recovery.recording
           p == recovery.logPosition
<1>1. r \in 1 .. Len(recordings) /\ IsComplete(log, recordings[r], p)
      /\ recovery.term = TermAt(log, p)
    BY DEF ContentInv, SnapshotInv
<1>2. log \in Seq(Entries) /\ recordings[r] \in RecordingStates
    BY <1>1, RecordingType DEF IndInv, TypeOK, CMTypeOK
<1>3. Replayed(r) = recordings[r].published
    BY <1>1, ReplayedWhole DEF IsComplete
<1> HIDE DEF r, p
<1>4. p \in 1 .. Len(log)
      /\ \E ids \in Seq(Sessions) : /\ Ids(ids) = OpenAt(log, p) /\ IsSorted(ids)
                                    /\ recordings[r].published = SnapshotOf(log, ids, p)
    BY <1>1, <1>2, CompleteHasSessions
<1> QED
    BY <1>1, <1>2, <1>3, <1>4 DEF r, p

\* What is not of the start but the sessions and the service is left alone by it.
LEMMA StartKeeps ==
    ASSUME IndInv, ContentInv, OthersKeep, pc \in StartSteps \ {"recover"},
           UNCHANGED <<logPosition, leadershipTermId, image, activeLogEvent,
                       requestedAckPosition, currentSnapshot, control, recordings>>,
           acks' \in Seq(ServiceAcks), Answers(acks') = {},
           \A i \in 1 .. Len(acks') : acks'[i].relevantId \notin Recordings
    PROVE  /\ IsLog(log') /\ CurrentInv' /\ CallInv' /\ ImageInv' /\ SnapshotInv'
           /\ ProgressInv'
<1>1. acks = <<>> /\ currentSnapshot = NoSnapshot
    BY DEF ContentInv, LoadInv, IndInv, StepInv
<1>2. Answers(acks) = {}
    BY <1>1 DEF Answers
<1>3. IsLog(log') /\ CurrentInv' /\ CallInv' /\ ImageInv'
    BY <1>2, AgentKeepsLog, CallsKept, ImageKept
<1>4. SnapshotInv'
    BY DEF ContentInv, SnapshotInv, OthersKeep
<1>5. ProgressInv'
    BY <1>1 DEF ProgressInv, NoSnapshot
<1> QED
    BY <1>3, <1>4, <1>5

\* The loader takes every fragment of the snapshot in its turn, and refuses none.
LEMMA LoadFragmentContent ==
    ASSUME IndInv, ContentInv, LoadFragment, OthersKeep
    PROVE  ContentInv' /\ pc' \in {"load", "start"}
<1> DEFINE r == recovery.recording
           p == recovery.logPosition
           fs == recordings[r].published
           k == loader.next
           f == fs[k]
<1>1. /\ pc = "load" /\ recovery.term # NullValue
      /\ UNCHANGED <<positionVars, ackVars, egress, joinVars, currentSnapshot, poll,
                     isAbort, terminationPosition, control, acks, recordings>>
    BY DEF LoadFragment, IndInv, StepInv
<1>2. PICK ids \in Seq(Sessions) :
         Ids(ids) = OpenAt(log, p) /\ IsSorted(ids) /\ fs = SnapshotOf(log, ids, p)
    BY <1>1, RecoverySnapshot
<1>3. Replayed(r) = fs /\ p \in 1 .. Len(log) /\ log \in Seq(Entries)
    BY <1>1, RecoverySnapshot
<1> DEFINE n == Len(ids)
<1>4. /\ n \in Nat /\ Len(fs) = n + 3
      /\ fs[1].type = "BEGIN"
      /\ \A i \in 2 .. n + 1 : fs[i].type = "SESSION" /\ fs[i].session = ids[i - 1]
      /\ fs[n + 2].type = "END" /\ fs[n + 3].type = "SERVICE"
  <2> DEFINE s == SnapshotOf(log, ids, p)
  <2>1. /\ n \in Nat /\ Len(s) = n + 3
        /\ s[1] = [type |-> "BEGIN", logPosition |-> p, term |-> TermAt(log, p)]
        /\ \A i \in 2 .. n + 1 : s[i] = [type |-> "SESSION", session |-> ids[i - 1]]
        /\ s[n + 2] = [type |-> "END", logPosition |-> p, term |-> TermAt(log, p)]
        /\ s[n + 3] = [type |-> "SERVICE", state |-> StateAt(log, p)]
    BY <1>3, SnapshotOfElements
  <2>2. fs = s
    BY <1>2
  <2> HIDE DEF s, fs, n
  <2>3. s[1].type = "BEGIN" /\ s[n + 2].type = "END" /\ s[n + 3].type = "SERVICE"
    BY <2>1
  <2>4. \A i \in 2 .. n + 1 : s[i].type = "SESSION" /\ s[i].session = ids[i - 1]
    <3> TAKE i \in 2 .. n + 1
    <3>1. s[i] = [type |-> "SESSION", session |-> ids[i - 1]]
        BY <2>1
    <3> QED
        BY <3>1
  <2> QED
    BY <2>1, <2>2, <2>3, <2>4
<1>5. /\ acks = <<>> /\ logPosition = p /\ leadershipTermId = recovery.term
      /\ k <= Len(fs) - 1 /\ loader.inSnapshot = (k > 1)
      /\ sessionByIdMap = {fs[i].session : i \in 2 .. k - 1}
    BY <1>1 DEF ContentInv, LoadInv, StartSteps
<1>6. k \in Nat \ {0} /\ k \in 1 .. n + 2
  <2>1. k \in Nat \ {0}
    BY DEF IndInv, TypeOK, AgentTypeOK
  <2> QED
    BY <2>1, <1>4, <1>5
<1>7. Ids(sessions) = sessionByIdMap /\ IsSorted(sessions) /\ AgentTypeOK
    BY <1>1 DEF ContentInv, VectorInv, IndInv, TypeOK
<1>8. \/ /\ f.type = "BEGIN" /\ loader' = [next |-> k + 1, inSnapshot |-> TRUE]
         /\ UNCHANGED <<pc, sessions, sessionByIdMap>>
      \/ /\ f.type = "SESSION" /\ AddSession(f.session)
         /\ loader' = [next |-> k + 1, inSnapshot |-> loader.inSnapshot]
         /\ UNCHANGED pc
      \/ /\ f.type = "END" /\ loader' = [next |-> k + 1, inSnapshot |-> TRUE]
         /\ pc' = "start"
         /\ UNCHANGED <<sessions, sessionByIdMap>>
      \/ f.type = "BEGIN" /\ loader.inSnapshot
      \/ f.type = "END" /\ ~ loader.inSnapshot
      \/ f.type = "SERVICE"
    BY <1>3 DEF LoadFragment
<1> USE DEF positionVars, ackVars, joinVars
<1>9. /\ IsLog(log') /\ CurrentInv' /\ CallInv' /\ ImageInv' /\ SnapshotInv' /\ ProgressInv'
  <2>1. acks' = <<>> /\ Answers(acks') = {} /\ acks' \in Seq(ServiceAcks)
    BY <1>1, <1>5, EmptySeq DEF Answers
  <2>2. \A i \in 1 .. Len(acks') : acks'[i].relevantId \notin Recordings
    BY <2>1
  <2> QED
    BY <2>1, <2>2, <1>1, StartKeeps DEF StartSteps
<1>10. ASSUME pc' \in {"load", "start"} PROVE MatchInv'
    BY <1>10 DEF MatchInv, IsStarted, WorkSteps
<1>11. loader.inSnapshot = (k > 1)
    BY <1>5
<1> HIDE DEF fs, r, p, k, n
<1>12. /\ recordings'[recovery'.recording].published = fs /\ acks' = <<>>
       /\ logPosition' = recovery'.logPosition /\ leadershipTermId' = recovery'.term
    BY <1>1, <1>5 DEF OthersKeep, fs, r, p
<1>13. ~ \/ f.type = "BEGIN" /\ loader.inSnapshot
         \/ f.type = "END" /\ ~ loader.inSnapshot
         \/ f.type = "SERVICE"
  <2>1. CASE k = 1
    <3>1. f.type = "BEGIN" /\ (k > 1) = FALSE
        BY <2>1, <1>4
    <3> QED
        BY <3>1, <1>11
  <2>2. CASE k \in 2 .. n + 1
    <3>1. f.type = "SESSION"
        BY <2>2, <1>4
    <3> QED
        BY <3>1
  <2>3. CASE k = n + 2
    <3>1. f.type = "END" /\ (k > 1) = TRUE
        BY <2>3, <1>4
    <3> QED
        BY <3>1, <1>11
  <2> QED
    BY <2>1, <2>2, <2>3, <1>4, <1>6
<1>14. CASE f.type = "BEGIN" /\ loader' = [next |-> k + 1, inSnapshot |-> TRUE]
            /\ UNCHANGED <<pc, sessions, sessionByIdMap>>
  <2>0. pc' \in {"load", "start"}
    BY <1>1, <1>14
  <2>1. k = 1
    <3>1. k \in 2 .. n + 1 => f.type = "SESSION"
        BY <1>4
    <3>2. k = n + 2 => f.type = "END"
        BY <1>4
    <3> QED
        BY <3>1, <3>2, <1>4, <1>6, <1>14
  <2>2. sessionByIdMap = {fs[i].session : i \in 2 .. 1 - 1}
    BY <2>1, <1>5 DEF k, fs, r
  <2>3. 2 .. 1 - 1 = {} /\ 2 .. 2 - 1 = {}
    OBVIOUS
  <2>4. sessionByIdMap' = {fs[i].session : i \in 2 .. 2 - 1}
    BY <2>2, <2>3, <1>14
  <2>5. loader'.next = 2 /\ loader'.inSnapshot = TRUE
    BY <2>1, <1>14
  <2>6. (loader'.next > 1) = TRUE /\ loader'.next <= Len(fs) - 1
    BY <2>5, <1>4
  <2>7. LoadInv'
    <3>1. pc' = "load"
        BY <1>1, <1>14
    <3>2. LET fragments == recordings'[recovery'.recording].published
          IN  /\ loader'.next <= Len(fragments) - 1
              /\ loader'.inSnapshot = (loader'.next > 1)
              /\ sessionByIdMap' = {fragments[i].session : i \in 2 .. loader'.next - 1}
      <4>1. loader'.next - 1 = 2 - 1
        BY <2>5
      <4> QED
        BY <1>12, <2>4, <2>5, <2>6, <4>1
    <3> QED
        BY <3>1, <3>2, <1>12 DEF LoadInv, StartSteps
  <2>8. VectorInv'
    BY <1>7, <1>14 DEF VectorInv
  <2> QED
    BY <2>7, <2>8, <2>0, <1>9, <1>10 DEF ContentInv
<1>15. CASE f.type = "SESSION" /\ AddSession(f.session)
            /\ loader' = [next |-> k + 1, inSnapshot |-> loader.inSnapshot] /\ UNCHANGED pc
  <2>0. pc' \in {"load", "start"}
    BY <1>1, <1>15
  <2>1. k \in 2 .. n + 1
    <3>1. k = 1 => f.type = "BEGIN"
        BY <1>4
    <3>2. k = n + 2 => f.type = "END"
        BY <1>4
    <3> QED
        BY <3>1, <3>2, <1>4, <1>6, <1>15
  <2> DEFINE s == f.session
  <2>2. k - 1 \in 1 .. n /\ s = ids[k - 1]
    BY <2>1, <1>4
  <2>3. ids[k - 1] \in Sessions
    BY <2>2, ElementOfSeq DEF n
  <2>4. s \notin Ids(sessions)
    <3> SUFFICES ASSUME NEW i \in 2 .. k - 1, fs[i].session = s PROVE FALSE
        BY <1>5, <1>7 DEF k, fs, r
    <3>1. i - 1 \in 1 .. n /\ i - 1 < k - 1 /\ i \in 2 .. n + 1
        BY <2>1, <1>4
    <3>2. ids[i - 1] < ids[k - 1]
        BY <3>1, <2>2, <1>2 DEF IsSorted, n
    <3>3. ids[i - 1] = ids[k - 1]
        BY <3>1, <2>2, <1>4
    <3>4. ids[k - 1] \in Nat
        BY <2>3, ClusterLogAssumption
    <3> QED
        BY <3>2, <3>3, <3>4
  <2>5. s \in Sessions /\ AddSession(s)
    BY <2>2, <2>3, <1>15
  <2>6. IsSorted(sessions') /\ Ids(sessions') = Ids(sessions) \cup {s}
    BY <2>4, <2>5, <1>7, AddSessionSorted
  <2>7. sessionByIdMap' = sessionByIdMap \cup {s}
    BY <2>5 DEF AddSession
  <2>8. VectorInv'
    BY <2>6, <2>7, <1>7 DEF VectorInv
  <2>9. sessionByIdMap' = {fs[i].session : i \in 2 .. (k + 1) - 1}
    <3>1. \A i : i \in 2 .. (k + 1) - 1 <=> i \in 2 .. k - 1 \/ i = k
        BY <2>1, <1>4
    <3>2. sessionByIdMap = {fs[i].session : i \in 2 .. k - 1}
        BY <1>5 DEF k, fs, r
    <3> QED
        BY <3>1, <3>2, <2>7
  <2>10. loader'.next = k + 1 /\ loader'.inSnapshot = loader.inSnapshot
    BY <1>15
  <2>11. loader'.next <= Len(fs) - 1
    BY <2>1, <2>10, <1>4
  <2>12. loader'.inSnapshot = (loader'.next > 1)
    <3>1. (k > 1) = TRUE /\ (loader'.next > 1) = TRUE
        BY <2>1, <2>10, <1>4
    <3>2. loader.inSnapshot = (k > 1)
        BY <1>5 DEF k
    <3> QED
        BY <3>1, <3>2, <2>10
  <2>13. LoadInv'
    BY <1>1, <1>12, <1>15, <2>9, <2>10, <2>11, <2>12 DEF LoadInv, StartSteps
  <2> QED
    BY <2>8, <2>13, <2>0, <1>9, <1>10 DEF ContentInv
<1>16. CASE f.type = "END" /\ pc' = "start" /\ UNCHANGED <<sessions, sessionByIdMap>>
  <2>0. pc' \in {"load", "start"}
    BY <1>1, <1>16
  <2>1. k = n + 2
    <3>1. k = 1 => f.type = "BEGIN"
        BY <1>4
    <3>2. k \in 2 .. n + 1 => f.type = "SESSION"
        BY <1>4
    <3> QED
        BY <3>1, <3>2, <1>4, <1>6, <1>16
  <2>2. sessionByIdMap = {fs[i].session : i \in 2 .. n + 1}
    <3>1. 2 .. k - 1 = 2 .. n + 1
        BY <2>1, <1>4
    <3> QED
        BY <3>1, <1>5 DEF k, fs, r
  <2>3. {fs[i].session : i \in 2 .. n + 1} = Ids(ids)
    <3>1. ASSUME NEW i \in 2 .. n + 1 PROVE fs[i].session \in Ids(ids)
        <4>1. i - 1 \in 1 .. n
            BY <1>4
        <4> QED
            BY <4>1, <1>4 DEF Ids, n
    <3>2. ASSUME NEW i \in 1 .. n PROVE ids[i] \in {fs[j].session : j \in 2 .. n + 1}
        <4>1. i + 1 \in 2 .. n + 1 /\ (i + 1) - 1 = i
            BY <1>4
        <4>2. fs[i + 1].session = ids[(i + 1) - 1]
            BY <4>1, <1>4
        <4> QED
            BY <4>1, <4>2
    <3> QED
        BY <3>1, <3>2 DEF Ids, n
  <2>4. sessionByIdMap' = OpenAt(log', logPosition')
    BY <2>2, <2>3, <1>1, <1>2, <1>5, <1>16 DEF OthersKeep, p, fs, r
  <2>5. LoadInv'
    BY <1>12, <1>16, <2>4 DEF LoadInv, StartSteps
  <2>6. VectorInv'
    BY <1>7, <1>16 DEF VectorInv
  <2> QED
    BY <2>5, <2>6, <2>0, <1>9, <1>10 DEF ContentInv
<1> QED
    BY <1>8, <1>13, <1>14, <1>15, <1>16 DEF fs, k, r

\* The loader sees the END marker before the replay ends.
LEMMA SnapshotEndsAsExpected ==
    ASSUME IndInv, ContentInv
    PROVE  ~ SnapshotEndedUnexpectedly
<1> SUFFICES ASSUME SnapshotEndedUnexpectedly PROVE FALSE
    OBVIOUS
<1>1. pc = "load" /\ loader.next > Len(Replayed(recovery.recording))
    BY DEF SnapshotEndedUnexpectedly
<1>2. recovery.term # NullValue /\ loader.next \in Nat
    BY <1>1 DEF IndInv, StepInv, TypeOK, AgentTypeOK
<1> DEFINE fs == recordings[recovery.recording].published
<1>3. loader.next <= Len(fs) - 1 /\ Replayed(recovery.recording) = fs
    BY <1>1, <1>2, RecoverySnapshot DEF ContentInv, LoadInv
<1>4. Len(fs) \in Nat
  <2>1. recovery.recording \in 1 .. Len(recordings)
    BY <1>2 DEF IndInv, RecordingInv
  <2>2. fs \in Seq(Fragments)
    BY <1>2, <2>1, RecordingType
  <2> QED
    BY <2>2, LenProperties
<1> HIDE DEF fs
<1> QED
    BY <1>1, <1>2, <1>3, <1>4

\* A complete snapshot gives the service its state back.
LEMMA ServiceStateOfSnapshot ==
    ASSUME IndInv, ContentInv, recovery.term # NullValue
    PROVE  HasServiceState /\ ServiceState = StateAt(log, recovery.logPosition)
<1> DEFINE fs == Replayed(recovery.recording)
           p == recovery.logPosition
<1>1. PICK ids \in Seq(Sessions) : fs = SnapshotOf(log, ids, p)
    BY RecoverySnapshot
<1>2. p \in 1 .. Len(log) /\ log \in Seq(Entries)
    BY RecoverySnapshot
<1> DEFINE n == Len(ids)
           s == SnapshotOf(log, ids, p)
<1>3. /\ n \in Nat /\ Len(s) = n + 3
      /\ s[1] = [type |-> "BEGIN", logPosition |-> p, term |-> TermAt(log, p)]
      /\ \A i \in 2 .. n + 1 : s[i] = [type |-> "SESSION", session |-> ids[i - 1]]
      /\ s[n + 2] = [type |-> "END", logPosition |-> p, term |-> TermAt(log, p)]
      /\ s[n + 3] = [type |-> "SERVICE", state |-> StateAt(log, p)]
    BY <1>2, SnapshotOfElements
<1>4. fs = s
    BY <1>1
<1> HIDE DEF n, s
<1>5. /\ n + 3 \in 1 .. Len(fs) /\ fs[n + 3].type = "SERVICE"
      /\ fs[n + 3].state = StateAt(log, p)
    BY <1>3, <1>4
<1>6. ASSUME NEW i \in 1 .. Len(fs), fs[i].type = "SERVICE" PROVE i = n + 3
  <2>1. i = 1 \/ i \in 2 .. n + 1 \/ i = n + 2 \/ i = n + 3
    BY <1>3, <1>4
  <2>2. i # 1 /\ i # n + 2
    BY <1>3, <1>4, <1>6
  <2>3. i \notin 2 .. n + 1
    <3> SUFFICES ASSUME i \in 2 .. n + 1 PROVE FALSE
        OBVIOUS
    <3>1. s[i] = [type |-> "SESSION", session |-> ids[i - 1]]
        BY <1>3
    <3> QED
        BY <3>1, <1>4, <1>6
  <2> QED
    BY <2>1, <2>2, <2>3
<1>7. HasServiceState
    BY <1>5 DEF HasServiceState
<1>8. (CHOOSE i \in 1 .. Len(fs) : fs[i].type = "SERVICE") = n + 3
    BY <1>5, <1>6
<1>9. ServiceState = fs[CHOOSE i \in 1 .. Len(fs) : fs[i].type = "SERVICE"].state
    BY DEF ServiceState
<1> QED
    BY <1>5, <1>7, <1>8, <1>9

\* The service starts in the state of the position it recovers at.
LEMMA OnStartService ==
    ASSUME IndInv, ContentInv, OnStart
    PROVE  /\ service' = StateAt(log, recovery.logPosition)
           /\ recovery.term = TermAt(log, recovery.logPosition)
<1>1. service' = IF HasServiceState THEN ServiceState ELSE <<>>
    BY DEF OnStart
<1>2. CASE recovery.term # NullValue
    BY <1>1, <1>2, ServiceStateOfSnapshot, RecoverySnapshot
<1>3. CASE recovery.term = NullValue
  <2>1. recovery.logPosition = 0 /\ log \in Seq(Entries)
    BY <1>3, NoRecoverySnapshot DEF IndInv, TypeOK, CMTypeOK
  <2>2. ~ HasServiceState
    BY <1>3 DEF HasServiceState
  <2> QED
    BY <1>1, <1>3, <2>1, <2>2, StateAtZero
<1> QED
    BY <1>2, <1>3

LEMMA OnStartContent ==
    ASSUME IndInv, ContentInv, OnStart, OthersKeep
    PROVE  ContentInv'
<1>1. /\ pc = "start" /\ pc' = "startAck"
      /\ UNCHANGED <<logPosition, leadershipTermId, ackVars, sessionVars, joinVars,
                     currentSnapshot, poll, startVars, control, acks, recordings>>
    BY DEF OnStart
<1>2. /\ acks = <<>> /\ logPosition = recovery.logPosition
      /\ leadershipTermId = recovery.term /\ sessionByIdMap = OpenAt(log, logPosition)
    BY <1>1 DEF ContentInv, LoadInv, StartSteps
<1> USE DEF ackVars, sessionVars, joinVars
<1>3. /\ IsLog(log') /\ CurrentInv' /\ CallInv' /\ ImageInv' /\ SnapshotInv' /\ ProgressInv'
  <2>1. acks' = <<>> /\ Answers(acks') = {} /\ acks' \in Seq(ServiceAcks)
    BY <1>1, <1>2, EmptySeq DEF Answers
  <2>2. \A i \in 1 .. Len(acks') : acks'[i].relevantId \notin Recordings
    BY <2>1
  <2> QED
    BY <2>1, <2>2, <1>1, StartKeeps DEF StartSteps
<1>4. VectorInv'
    BY <1>1 DEF ContentInv, VectorInv
<1>5. LoadInv'
    BY <1>1, <1>2 DEF LoadInv, OthersKeep, StartSteps
<1>6. MatchInv'
    BY <1>1, <1>2, OnStartService DEF MatchInv, OthersKeep
<1> QED
    BY <1>3, <1>4, <1>5, <1>6 DEF ContentInv

LEMMA StartAckContent ==
    ASSUME IndInv, ContentInv, StartAck, OthersKeep
    PROVE  ContentInv'
<1>1. /\ pc = "startAck" /\ pc' = "begin" /\ Ack(ClientId)
      /\ UNCHANGED <<positionVars, sessionVars, joinVars, currentSnapshot, poll,
                     startVars, control, recordings>>
    BY DEF StartAck
<1> USE DEF positionVars, sessionVars, joinVars
<1> DEFINE a == [logPosition |-> logPosition, ackId |-> ackId, relevantId |-> ClientId]
<1>2. acks = <<>> /\ acks' = Append(acks, a) /\ UNCHANGED requestedAckPosition
    BY <1>1 DEF ContentInv, LoadInv, StartSteps, Ack, OfferAck, ClientId, NullValue
<1>3. a.relevantId = 0 /\ a \in ServiceAcks
    BY <1>1 DEF ClientId, ServiceAcks, IndInv, TypeOK, AgentTypeOK, StepInv
<1> HIDE DEF a
<1>4. acks' = <<a>>
    BY <1>2
<1>5. Len(acks') = 1 /\ acks'[1] = a /\ acks' \in Seq(ServiceAcks)
    BY <1>3, <1>4
<1>6. Answers(acks') = {} /\ \A i \in 1 .. Len(acks') : acks'[i].relevantId \notin Recordings
    BY <1>3, <1>5 DEF Answers, NullValue, Recordings
<1>7. /\ IsLog(log') /\ CurrentInv' /\ CallInv' /\ ImageInv' /\ SnapshotInv' /\ ProgressInv'
    BY <1>1, <1>2, <1>5, <1>6, StartKeeps DEF StartSteps
<1>8. VectorInv'
    BY <1>1 DEF ContentInv, VectorInv
<1>9. LoadInv'
    BY <1>1 DEF LoadInv, StartSteps
<1>10. MatchInv'
    BY <1>1 DEF ContentInv, MatchInv, IsStarted, OthersKeep
<1> QED
    BY <1>7, <1>8, <1>9, <1>10 DEF ContentInv

\* What the snapshot in progress leaves alone.
LEMMA SnapshotWorkKeeps ==
    ASSUME IndInv, ContentInv, OthersKeep, pc = "begin",
           UNCHANGED <<pc, positionVars, sessionVars, joinVars, control,
                       requestedAckPosition>>,
           Answers(acks') = Answers(acks)
    PROVE  /\ IsLog(log') /\ CurrentInv' /\ CallInv' /\ ImageInv'
           /\ VectorInv' /\ LoadInv' /\ MatchInv'
<1> USE DEF positionVars, sessionVars, joinVars
<1>1. IsLog(log') /\ CurrentInv' /\ CallInv' /\ ImageInv'
    BY AgentKeepsLog, CallsKept, ImageKept
<1>2. VectorInv'
    BY DEF ContentInv, VectorInv
<1>3. LoadInv'
    BY DEF LoadInv, StartSteps
<1>4. MatchInv'
    BY DEF ContentInv, MatchInv, IsStarted, OthersKeep
<1> QED
    BY <1>1, <1>2, <1>3, <1>4

LEMMA StartRecordingContent ==
    ASSUME IndInv, ContentInv, StartRecording, OthersKeep
    PROVE  ContentInv'
<1>1. /\ pc = "begin" /\ recordings' = Append(recordings, NewRecording)
      /\ currentSnapshot' = [step |-> "recording", recording |-> Len(recordings) + 1]
      /\ UNCHANGED <<pc, positionVars, ackVars, sessionVars, joinVars, poll, startVars,
                     control, acks>>
    BY DEF StartRecording, SnapshotStep
<1>2. recordings \in Seq(RecordingStates) /\ Len(recordings) \in Nat
      /\ NewRecording \in RecordingStates
    BY LenProperties, EmptySeq
    DEF IndInv, TypeOK, ArchiveTypeOK, NewRecording, RecordingStates
<1>3. /\ Len(recordings') = Len(recordings) + 1
      /\ \A r \in 1 .. Len(recordings) : recordings'[r] = recordings[r]
      /\ recordings'[Len(recordings) + 1] = NewRecording
    BY <1>1, <1>2, AppendProperties
<1>4. /\ IsLog(log') /\ CurrentInv' /\ CallInv' /\ ImageInv'
      /\ VectorInv' /\ LoadInv' /\ MatchInv'
    BY <1>1, SnapshotWorkKeeps DEF ackVars
<1>5. SnapshotInv'
    BY <1>1, <1>2, <1>3, SnapshotsKept
<1>6. ProgressInv'
  <2>1. recordings'[currentSnapshot'.recording] = NewRecording
        /\ currentSnapshot'.step = "recording"
    BY <1>1, <1>3
  <2> QED
    BY <2>1, <1>1 DEF ProgressInv, NewRecording
<1> QED
    BY <1>4, <1>5, <1>6 DEF ContentInv

\* Writing to a recording that is no complete snapshot.
LEMMA PublishContent ==
    ASSUME IndInv, ContentInv, OthersKeep, pc = "begin",
           currentSnapshot.step \in {"recording", "state"},
           NEW fragments \in Seq(Fragments), NEW next \in {"state", "ack"},
           recordings' = Publish(currentSnapshot.recording, fragments),
           currentSnapshot' = [currentSnapshot EXCEPT !.step = next],
           UNCHANGED <<pc, positionVars, ackVars, sessionVars, joinVars, poll, startVars,
                       control, acks>>,
           \A p : ~ IsComplete(log, recordings[currentSnapshot.recording], p),
           next = "state" =>
              recordings[currentSnapshot.recording].published \o fragments
                  = SnapshotFragments,
           next = "ack" =>
              recordings[currentSnapshot.recording].published \o fragments
                  = SnapshotFragments \o <<[type |-> "SERVICE", state |-> service]>>
    PROVE  ContentInv'
<1> DEFINE r == currentSnapshot.recording
           p == recordings[r].published \o fragments
           n == [recordings[r] EXCEPT !.published = p]
<1>1. r \in 1 .. Len(recordings)
    BY DEF IndInv, RecordingInv
<1>2. recordings[r] \in RecordingStates /\ recordings[r].published \in Seq(Fragments)
    BY <1>1, RecordingType
<1>3. p \in Seq(Fragments)
    BY <1>2, ConcatProperties
<1>4. recordings' = [recordings EXCEPT ![r] = n]
    BY DEF Publish
<1> HIDE DEF p
<1>5. n \in RecordingStates /\ n.published = p /\ n.active = recordings[r].active
    BY <1>2, <1>3 DEF RecordingStates
<1>6. recordings \in Seq(RecordingStates) /\ Len(recordings) \in Nat
    BY LenProperties DEF IndInv, TypeOK, ArchiveTypeOK
<1>7. currentSnapshot'.recording = r /\ currentSnapshot'.step = next
    BY DEF IndInv, TypeOK, AgentTypeOK, SnapshotStates
<1> HIDE DEF n, r
<1>8. /\ Len(recordings') = Len(recordings)
      /\ \A q \in 1 .. Len(recordings) :
            recordings'[q] = IF q = r THEN n ELSE recordings[q]
    BY <1>1, <1>4, <1>5, <1>6, ExceptSeq
<1>9. /\ IsLog(log') /\ CurrentInv' /\ CallInv' /\ ImageInv'
      /\ VectorInv' /\ LoadInv' /\ MatchInv'
  <2>1. Answers(acks') = Answers(acks) /\ requestedAckPosition' = requestedAckPosition
    BY DEF ackVars
  <2> QED
    BY <2>1, SnapshotWorkKeeps
<1>10. SnapshotInv'
    BY <1>6, <1>8, SnapshotsKept DEF r
<1>11. ProgressInv'
  <2> USE DEF positionVars, sessionVars
  <2>1. recordings'[currentSnapshot'.recording] = n /\ n.published = p
        /\ n.active = recordings[r].active
    BY <1>1, <1>5, <1>7, <1>8
  <2>2. recordings[r].active
    BY DEF ContentInv, ProgressInv, r
  <2>3. SnapshotFragments' = SnapshotFragments /\ service' = service
    BY DEF SnapshotFragments, SessionFragments, Mark
  <2>4. next = "state" => p = SnapshotFragments
    BY DEF p, r
  <2>5. next = "ack" => p = SnapshotFragments \o <<[type |-> "SERVICE", state |-> service]>>
    BY DEF p, r
  <2> QED
    BY <2>1, <2>2, <2>3, <2>4, <2>5, <1>7 DEF ProgressInv
<1> QED
    BY <1>9, <1>10, <1>11 DEF ContentInv

LEMMA TakeAgentSnapshotContent ==
    ASSUME IndInv, ContentInv, TakeAgentSnapshot, OthersKeep
    PROVE  ContentInv'
<1> DEFINE r == recordings[currentSnapshot.recording]
<1>1. /\ pc = "begin" /\ currentSnapshot.step = "recording"
      /\ currentSnapshot' = [currentSnapshot EXCEPT !.step = "state"]
      /\ recordings' = Publish(currentSnapshot.recording, SnapshotFragments)
      /\ UNCHANGED <<pc, positionVars, ackVars, sessionVars, joinVars, poll, startVars,
                     control, acks>>
    BY DEF TakeAgentSnapshot, SnapshotStep
<1>2. SnapshotFragments \in Seq(Fragments)
  <2>1. logPosition \in Nat
    BY <1>1 DEF IndInv, TypeOK, AgentTypeOK, StepInv
  <2> QED
    BY <2>1, SnapshotFragmentsType
<1>3. r.published = <<>>
    BY <1>1 DEF ContentInv, ProgressInv
<1>4. \A p : ~ IsComplete(log, r, p)
  <2>1. r \in RecordingStates /\ log \in Seq(Entries)
    BY <1>1, RecordingType DEF IndInv, RecordingInv, TypeOK, CMTypeOK
  <2> SUFFICES ASSUME NEW p, IsComplete(log, r, p) PROVE FALSE
    OBVIOUS
  <2>2. Len(r.published) >= 3
    BY <2>1, CompleteEnds
  <2>3. Len(r.published) = 0
    BY <1>3
  <2> QED
    BY <2>2, <2>3
<1>5. r.published \o SnapshotFragments = SnapshotFragments
    BY <1>2, <1>3, ConcatEmptySeq
<1> HIDE DEF r
<1> QED
    BY <1>1, <1>2, <1>4, <1>5, PublishContent DEF r

LEMMA SessionFragmentsType ==
    ASSUME IndInv
    PROVE  SessionFragments \in Seq(Fragments)
<1>1. sessions \in Seq(Sessions) /\ Len(sessions) \in Nat
    BY LenProperties DEF IndInv, TypeOK, AgentTypeOK
<1>2. \A i \in 1 .. Len(sessions) :
         [type |-> "SESSION", session |-> sessions[i]] \in Fragments
    BY <1>1, ElementOfSeq DEF Fragments, SessionRecords
<1>3. SessionFragments \in [1 .. Len(sessions) -> Fragments]
    BY <1>2 DEF SessionFragments
<1> QED
    BY <1>1, <1>3, SeqDef

LEMMA TakeServiceSnapshotContent ==
    ASSUME IndInv, ContentInv, TakeServiceSnapshot, OthersKeep
    PROVE  ContentInv'
<1> DEFINE r == recordings[currentSnapshot.recording]
           v == <<[type |-> "SERVICE", state |-> service]>>
<1>1. /\ pc = "begin" /\ currentSnapshot.step = "state"
      /\ currentSnapshot' = [currentSnapshot EXCEPT !.step = "ack"]
      /\ recordings' = Publish(currentSnapshot.recording, v)
      /\ UNCHANGED <<pc, positionVars, ackVars, sessionVars, joinVars, poll, startVars,
                     control, acks>>
    BY DEF TakeServiceSnapshot, SnapshotStep
<1>2. v \in Seq(Fragments)
  <2>1. [type |-> "SERVICE", state |-> service] \in Fragments
    BY DEF Fragments, ServiceRecords, IndInv, TypeOK, AgentTypeOK
  <2> QED
    BY <2>1
<1>3. r.published = SnapshotFragments
    BY <1>1 DEF ContentInv, ProgressInv
<1>4. \A p : ~ IsComplete(log, r, p)
  <2> SUFFICES ASSUME NEW p, IsComplete(log, r, p) PROVE FALSE
    OBVIOUS
  <2>1. r \in RecordingStates /\ log \in Seq(Entries) /\ logPosition \in Nat
    BY <1>1, RecordingType
    DEF IndInv, RecordingInv, TypeOK, CMTypeOK, AgentTypeOK, StepInv
  <2>2. SnapshotFragments[Len(SnapshotFragments)].type = "SERVICE"
    BY <2>1, <1>3, CompleteEnds
  <2> DEFINE a == <<Mark("BEGIN")>> \o SessionFragments
             e == <<Mark("END")>>
  <2>3. Mark("BEGIN") \in Fragments /\ Mark("END") \in Fragments
    BY <2>1 DEF Mark, Fragments, Markers, IndInv, TypeOK, AgentTypeOK
  <2>4. SessionFragments \in Seq(Fragments)
    BY <2>1, SessionFragmentsType
  <2>5. a \in Seq(Fragments) /\ e \in Seq(Fragments) /\ Len(e) = 1 /\ e[1] = Mark("END")
    BY <2>3, <2>4, ConcatProperties
  <2>6. SnapshotFragments = a \o e
    BY DEF SnapshotFragments
  <2> HIDE DEF a, e
  <2>7. /\ Len(a) \in Nat /\ Len(a \o e) = Len(a) + 1
        /\ (a \o e)[Len(a) + 1] = e[1]
    <3>1. Len(a) \in Nat
        BY <2>5, LenProperties
    <3>2. /\ Len(a \o e) = Len(a) + Len(e)
          /\ \A i \in 1 .. Len(a) + Len(e) :
                (a \o e)[i] = IF i <= Len(a) THEN a[i] ELSE e[i - Len(a)]
        BY <2>5, ConcatProperties
    <3>3. /\ Len(a) + 1 \in 1 .. Len(a) + Len(e)
          /\ ~ Len(a) + 1 <= Len(a)
          /\ (Len(a) + 1) - Len(a) = 1
        BY <3>1, <2>5
    <3>4. (a \o e)[Len(a) + 1] = e[(Len(a) + 1) - Len(a)]
        BY <3>2, <3>3
    <3> QED
        BY <3>1, <3>2, <3>3, <3>4, <2>5
  <2>8. Mark("END").type = "END"
    BY DEF Mark
  <2> QED
    BY <2>2, <2>5, <2>6, <2>7, <2>8
<1>5. r.published \o v = SnapshotFragments \o v
    BY <1>3
<1> HIDE DEF r, v
<1> QED
    BY <1>1, <1>2, <1>4, <1>5, PublishContent DEF r, v

\* What the agent and the service have written is of the agent's position.
LEMMA WrittenSnapshot ==
    ASSUME IndInv, ContentInv, currentSnapshot.step = "ack"
    PROVE  /\ recordings[currentSnapshot.recording].active
           /\ recordings[currentSnapshot.recording].published
                  = SnapshotOf(log, sessions, logPosition)
           /\ logPosition \in 1 .. Len(log) /\ log \in Seq(Entries)
           /\ sessions \in Seq(Sessions)
           /\ Ids(sessions) = OpenAt(log, logPosition) /\ IsSorted(sessions)
<1> DEFINE r == currentSnapshot.recording
<1>1. /\ pc = "begin" /\ recordings[r].active
      /\ recordings[r].published = SnapshotFragments
                                       \o <<[type |-> "SERVICE", state |-> service]>>
    BY DEF ContentInv, ProgressInv
<1>2. logPosition >= 1 /\ logPosition \in Nat
    BY <1>1 DEF IndInv, RecordingInv, StepInv, TypeOK, AgentTypeOK
<1>3. /\ service = StateAt(log, logPosition)
      /\ leadershipTermId = TermAt(log, logPosition)
      /\ Ids(sessions) = OpenAt(log, logPosition) /\ IsSorted(sessions)
    BY <1>1 DEF ContentInv, MatchInv, VectorInv, IsStarted, WorkSteps
<1>4. recordings[r].published = SnapshotOf(log, sessions, logPosition)
    BY <1>1, <1>3 DEF SnapshotFragments, SessionFragments, Mark, SnapshotOf
<1>5. logPosition <= commitPos /\ commitPos <= Len(log) /\ commitPos \in Nat
    BY DEF IndInv, PositionInv, TypeOK, CMTypeOK
<1>6. log \in Seq(Entries) /\ sessions \in Seq(Sessions) /\ Len(log) \in Nat
    BY LenProperties DEF IndInv, TypeOK, CMTypeOK, AgentTypeOK
<1> QED
    BY <1>1, <1>2, <1>3, <1>4, <1>5, <1>6

LEMMA AckSnapshotContent ==
    ASSUME IndInv, ContentInv, AckSnapshot, OthersKeep
    PROVE  ContentInv'
<1> DEFINE r == currentSnapshot.recording
           a == [logPosition |-> logPosition, ackId |-> ackId, relevantId |-> r]
<1>1. /\ pc = "begin" /\ currentSnapshot.step = "ack" /\ currentSnapshot' = NoSnapshot
      /\ Ack(r)
      /\ \E counter \in CounterValues(r) : counter >= Len(recordings[r].published)
      /\ UNCHANGED <<pc, positionVars, sessionVars, joinVars, poll, startVars,
                     control, recordings>>
    BY DEF AckSnapshot, SnapshotStep
<1>2. r \in 1 .. Len(recordings)
    BY <1>1 DEF IndInv, RecordingInv
<1>3. r \in Recordings /\ r # NullValue
    BY <1>2 DEF Recordings, NullValue
<1>4. /\ recordings[r].active
      /\ recordings[r].published = SnapshotOf(log, sessions, logPosition)
      /\ logPosition \in 1 .. Len(log) /\ log \in Seq(Entries) /\ sessions \in Seq(Sessions)
      /\ Ids(sessions) = OpenAt(log, logPosition) /\ IsSorted(sessions)
    BY <1>1, WrittenSnapshot
<1>5. recordings[r] \in RecordingStates /\ Len(recordings[r].published) \in Nat
      /\ recordings[r].recorded \in Nat
    BY <1>2, RecordingType, LenProperties DEF RecordingStates
<1>6. recordings[r].recorded = Len(recordings[r].published)
  <2>1. recordings[r].recorded >= Len(recordings[r].published)
    BY <1>1, <1>4 DEF CounterValues
  <2>2. recordings[r].recorded <= Len(recordings[r].published)
    BY <1>2 DEF IndInv, RecordingInv
  <2> QED
    BY <2>1, <2>2, <1>5
<1>7. IsComplete(log, recordings[r], logPosition)
    BY <1>4, <1>6, CompleteIntro
<1>8. a \in ServiceAcks /\ a.relevantId = r /\ a.logPosition = logPosition
    BY <1>2, <1>4 DEF ServiceAcks, IndInv, TypeOK, AgentTypeOK
<1>9. acks' = Append(acks, a) /\ requestedAckPosition' = requestedAckPosition
    BY <1>1, <1>3 DEF Ack, OfferAck
<1>10. acks \in Seq(ServiceAcks) /\ Len(acks) \in Nat
    BY LenProperties DEF IndInv, TypeOK, CMTypeOK
<1> HIDE DEF a
<1>11. Answers(acks') = Answers(acks)
    BY <1>3, <1>8, <1>9, <1>10, AppendAnswers
<1>12. /\ Len(acks') = Len(acks) + 1
       /\ \A i \in 1 .. Len(acks) : acks'[i] = acks[i]
       /\ acks'[Len(acks) + 1] = a
    BY <1>8, <1>9, <1>10, AppendProperties
<1>13. /\ IsLog(log') /\ CurrentInv' /\ CallInv' /\ ImageInv'
       /\ VectorInv' /\ LoadInv' /\ MatchInv'
    BY <1>1, <1>9, <1>11, SnapshotWorkKeeps
<1> HIDE DEF r
<1>14. SnapshotInv'
  <2>1. log' = log /\ recovery' = recovery /\ recordings' = recordings
    BY <1>1 DEF OthersKeep
  <2>2. \A i \in 1 .. Len(acks') : acks'[i].relevantId \in Recordings =>
            IsComplete(log, recordings[acks'[i].relevantId], acks'[i].logPosition)
    <3> TAKE i \in 1 .. Len(acks')
    <3>1. CASE i \in 1 .. Len(acks)
        BY <3>1, <1>12 DEF ContentInv, SnapshotInv
    <3>2. CASE i = Len(acks) + 1
        BY <3>2, <1>7, <1>8, <1>12
    <3> QED
        BY <3>1, <3>2, <1>10, <1>12
  <2> QED
    BY <2>1, <2>2 DEF ContentInv, SnapshotInv
<1>15. ProgressInv'
    BY <1>1 DEF ProgressInv, NoSnapshot
<1> QED
    BY <1>13, <1>14, <1>15 DEF ContentInv

-----------------------------------------------------------------------------
(* Messages of the control stream, joins and requested acks *)

\* The message at the head of the stream is taken.
LEMMA ControlTaken ==
    ASSUME IndInv, ContentInv, NEW type, ControlMessage(type), OthersKeep
    PROVE  /\ \A i \in Calls(control') : i + 1 \in Calls(control) /\ control'[i] = control[i + 1]
           /\ (1 \in Calls(control)) <=> (type # "ServiceTerminationPosition")
           /\ control[1] = Head(control)
           /\ 1 \in Calls(control) /\ cm # "error" => Calls(control') = {}
<1>1. control \in Seq(ControlMessages) /\ control # <<>> /\ control' = Tail(control)
      /\ Head(control).type = type
    BY DEF IndInv, TypeOK, CMTypeOK, ControlMessage
<1>2. Len(control) \in Nat \ {0}
    BY <1>1, EmptySeq
<1>3. /\ Head(control) = control[1] /\ 1 \in 1 .. Len(control)
      /\ \A i \in 1 .. Len(control') :
            i + 1 \in 1 .. Len(control) /\ control'[i] = control[i + 1]
    BY <1>1, <1>2, HeadTailProperties
<1>4. \A i : i \in Calls(control') <=> i + 1 \in Calls(control) /\ i \in Nat \ {0}
    BY <1>1, TailCalls
<1>5. \A i \in Calls(control') : i \in 1 .. Len(control')
    BY DEF Calls
<1>6. (1 \in Calls(control)) <=> (type # "ServiceTerminationPosition")
    BY <1>1, <1>3 DEF Calls
<1>7. 1 \in Calls(control) /\ cm # "error" => Calls(control') = {}
  <2> SUFFICES ASSUME 1 \in Calls(control), cm # "error", NEW i \in Calls(control')
               PROVE FALSE
    OBVIOUS
  <2>1. i + 1 \in Calls(control) /\ i \in Nat \ {0}
    BY <1>4
  <2>2. i + 1 = 1
    BY <2>1 DEF ContentInv, CallInv
  <2> QED
    BY <2>1, <2>2
<1> QED
    BY <1>3, <1>4, <1>5, <1>6, <1>7

\* What a message of the control stream leaves alone.
LEMMA ControlMessageContent ==
    ASSUME IndInv, ContentInv, NEW type, ControlMessage(type), OthersKeep, CallInv',
           image' \in {image, NoImage}
    PROVE  ContentInv'
<1>1. /\ pc = "begin" /\ pc' = "join" /\ currentSnapshot = NoSnapshot
      /\ UNCHANGED <<positionVars, sessionVars, ackId, currentSnapshot, poll, loader,
                     isAbort, role, acks, recordings>>
    BY DEF ControlMessage, ClockTick
<1> USE DEF positionVars, sessionVars
<1>2. IsLog(log') /\ CurrentInv'
    BY AgentKeepsLog
<1>3. ImageInv'
    BY <1>1, ImageKept
<1>4. SnapshotInv'
    BY <1>1 DEF ContentInv, SnapshotInv, OthersKeep
<1>5. VectorInv' /\ ProgressInv' /\ LoadInv'
    BY <1>1 DEF ContentInv, VectorInv, ProgressInv, LoadInv, NoSnapshot, StartSteps
<1>6. MatchInv'
    BY <1>1 DEF ContentInv, MatchInv, IsStarted, WorkSteps, OthersKeep
<1> QED
    BY <1>2, <1>3, <1>4, <1>5, <1>6 DEF ContentInv

LEMMA OnJoinLogContent ==
    ASSUME IndInv, ContentInv, OnJoinLog, OthersKeep
    PROVE  ContentInv'
<1>1. /\ ControlMessage("JoinLog") /\ image' = NoImage
      /\ activeLogEvent' = Head(control) /\ acks' = acks
      /\ requestedAckPosition' = requestedAckPosition
    BY DEF OnJoinLog, ControlMessage
<1>2. /\ \A i \in Calls(control') : i + 1 \in Calls(control) /\ control'[i] = control[i + 1]
      /\ 1 \in Calls(control) /\ control[1] = Head(control)
      /\ cm # "error" => Calls(control') = {}
    BY <1>1, ControlTaken
<1>3. Head(control).type = "JoinLog"
    BY <1>1 DEF ControlMessage
<1>4. cm # "error" => /\ cm = "joining" /\ requestedAckPosition = NullPosition
                      /\ Answers(acks) = {}
  <2>1. ~ NoneAsked
    BY <1>2 DEF NoneAsked
  <2> QED
    BY <2>1, <1>2, <1>3 DEF ContentInv, CallInv
<1>5. log' = log /\ streams' = streams /\ cm' = cm
    BY DEF OthersKeep
<1>6. CallInv'
  <2>1. \A i \in Calls(control') :
            control'[i].type = "JoinLog" => control'[i].stream = Len(streams')
    BY <1>2, <1>5 DEF ContentInv, CallInv
  <2>2. activeLogEvent'.stream = Len(streams')
    BY <1>1, <1>2, <1>3, <1>5 DEF ContentInv, CallInv
  <2>3. cm # "error" => /\ Calls(control') = {} /\ Answers(acks') = {}
                        /\ requestedAckPosition' = NullPosition /\ cm' = "joining"
    BY <1>1, <1>2, <1>4, <1>5
  <2> QED
    BY <2>1, <2>2, <2>3, <1>5 DEF CallInv
<1> QED
    BY <1>1, <1>6, ControlMessageContent

LEMMA OnRequestServiceAckContent ==
    ASSUME IndInv, ContentInv, OnRequestServiceAck, OthersKeep
    PROVE  ContentInv'
<1>1. /\ ControlMessage("RequestServiceAck") /\ acks' = acks
      /\ image' = image /\ activeLogEvent' = activeLogEvent
    BY DEF OnRequestServiceAck, ControlMessage
<1>2. /\ \A i \in Calls(control') : i + 1 \in Calls(control) /\ control'[i] = control[i + 1]
      /\ 1 \in Calls(control) /\ control[1] = Head(control)
      /\ cm # "error" => Calls(control') = {}
    BY <1>1, ControlTaken
<1>3. Head(control).type = "RequestServiceAck"
    BY <1>1 DEF ControlMessage
<1>4. cm # "error" => cm = "draining" /\ activeLogEvent = NoEvent /\ Answers(acks) = {}
  <2>1. ~ NoneAsked
    BY <1>2 DEF NoneAsked
  <2> QED
    BY <2>1, <1>2, <1>3 DEF ContentInv, CallInv
<1>5. streams' = streams /\ cm' = cm
    BY DEF OthersKeep
<1>6. CallInv'
  <2>1. \A i \in Calls(control') :
            control'[i].type = "JoinLog" => control'[i].stream = Len(streams')
    BY <1>2, <1>5 DEF ContentInv, CallInv
  <2>2. activeLogEvent' # NoEvent => activeLogEvent'.stream = Len(streams')
    BY <1>1, <1>5 DEF ContentInv, CallInv
  <2>3. cm # "error" => /\ Calls(control') = {} /\ Answers(acks') = {}
                        /\ activeLogEvent' = NoEvent /\ cm' = "draining"
    BY <1>1, <1>2, <1>4, <1>5
  <2> QED
    BY <2>1, <2>2, <2>3, <1>5 DEF CallInv
<1> QED
    BY <1>1, <1>6, ControlMessageContent

LEMMA OnServiceTerminationPositionContent ==
    ASSUME IndInv, ContentInv, OnServiceTerminationPosition, OthersKeep
    PROVE  ContentInv'
<1>1. /\ ControlMessage("ServiceTerminationPosition") /\ acks' = acks
      /\ image' = image /\ activeLogEvent' = activeLogEvent
      /\ requestedAckPosition' = requestedAckPosition
    BY DEF OnServiceTerminationPosition, ControlMessage
<1>2. \A i \in Calls(control') : i + 1 \in Calls(control) /\ control'[i] = control[i + 1]
    BY <1>1, ControlTaken
<1>3. streams' = streams /\ cm' = cm
    BY DEF OthersKeep
<1>4. Calls(control) = {} => Calls(control') = {}
    BY <1>2
<1>5. NoneAsked => NoneAsked'
    BY <1>1, <1>4 DEF NoneAsked
<1>6. CallInv'
  <2>1. \A i \in Calls(control') :
            control'[i].type = "JoinLog" => control'[i].stream = Len(streams')
    BY <1>2, <1>3 DEF ContentInv, CallInv
  <2>2. \A i, j \in Calls(control') : i + 1 = j + 1 => i = j
    <3>1. \A i \in Calls(control') : i \in Int
        BY DEF Calls
    <3> QED
        BY <3>1
  <2>3. cm # "error" => \A i, j \in Calls(control') : i = j
    BY <1>2, <2>2 DEF ContentInv, CallInv
  <2>4. cm = "joining" => \A i \in Calls(control') : control'[i].type = "JoinLog"
    BY <1>2 DEF ContentInv, CallInv
  <2>5. cm = "draining" => \A i \in Calls(control') : control'[i].type = "RequestServiceAck"
    BY <1>2 DEF ContentInv, CallInv
  <2> QED
    BY <2>1, <2>3, <2>4, <2>5, <1>1, <1>3, <1>4, <1>5 DEF ContentInv, CallInv
<1> QED
    BY <1>1, <1>6, ControlMessageContent

\* An ack of a join or of a request is offered, or not.
LEMMA AnswerOffered ==
    ASSUME IndInv, ContentInv, pc = "join",
           Ack(NullValue) \/ UNCHANGED <<acks, requestedAckPosition>>
    PROVE  /\ Answers(acks') \in {Answers(acks), Answers(acks) \cup {Len(acks) + 1}}
           /\ requestedAckPosition' \in {requestedAckPosition, NullPosition}
           /\ Answers(acks') # Answers(acks) => requestedAckPosition' = NullPosition
           /\ \A i \in 1 .. Len(acks') : acks'[i].relevantId \in Recordings =>
                 i \in 1 .. Len(acks) /\ acks'[i] = acks[i]
<1>1. CASE UNCHANGED <<acks, requestedAckPosition>>
    BY <1>1
<1>2. CASE Ack(NullValue)
  <2> DEFINE a == [logPosition |-> logPosition, ackId |-> ackId, relevantId |-> NullValue]
  <2>1. a \in ServiceAcks /\ a.relevantId = NullValue
    BY DEF ServiceAcks, IndInv, TypeOK, AgentTypeOK, StepInv
  <2>2. acks' = Append(acks, a) /\ requestedAckPosition' = NullPosition
    BY <1>2 DEF Ack, OfferAck
  <2>3. acks \in Seq(ServiceAcks) /\ Len(acks) \in Nat
    BY LenProperties DEF IndInv, TypeOK, CMTypeOK
  <2> HIDE DEF a
  <2>4. Answers(acks') = Answers(acks) \cup {Len(acks) + 1}
    BY <2>1, <2>2, <2>3, AppendAnswers
  <2>5. /\ Len(acks') = Len(acks) + 1
        /\ \A i \in 1 .. Len(acks) : acks'[i] = acks[i]
        /\ acks'[Len(acks) + 1] = a
    BY <2>1, <2>2, <2>3, AppendProperties
  <2>6. NullValue \notin Recordings
    BY DEF NullValue, Recordings
  <2>7. ASSUME NEW i \in 1 .. Len(acks'), acks'[i].relevantId \in Recordings
        PROVE  i \in 1 .. Len(acks) /\ acks'[i] = acks[i]
    BY <2>1, <2>3, <2>5, <2>6, <2>7
  <2> QED
    BY <2>2, <2>4, <2>7
<1> QED
    BY <1>1, <1>2

\* What an ack leaves alone.
LEMMA AnswerKeeps ==
    ASSUME IndInv, ContentInv, OthersKeep, pc = "join", pc' = "log",
           Ack(NullValue) \/ UNCHANGED <<acks, requestedAckPosition>>,
           UNCHANGED <<positionVars, sessions, sessionByIdMap, currentSnapshot, recordings>>
    PROVE  /\ IsLog(log') /\ CurrentInv' /\ VectorInv' /\ ProgressInv'
           /\ SnapshotInv' /\ LoadInv' /\ MatchInv'
<1> USE DEF positionVars
<1>1. IsLog(log') /\ CurrentInv'
    BY AgentKeepsLog
<1>2. VectorInv' /\ LoadInv'
    BY DEF ContentInv, VectorInv, LoadInv, StartSteps
<1>3. ProgressInv'
    BY DEF ContentInv, ProgressInv
<1>4. SnapshotInv'
    BY AnswerOffered DEF ContentInv, SnapshotInv, OthersKeep
<1>5. MatchInv'
    BY DEF ContentInv, MatchInv, IsStarted, WorkSteps, OthersKeep
<1> QED
    BY <1>1, <1>2, <1>3, <1>4, <1>5

LEMMA AckRequestedContent ==
    ASSUME IndInv, ContentInv, AckRequested, OthersKeep
    PROVE  ContentInv'
<1>1. /\ pc = "join" /\ pc' = "log" /\ Ack(NullValue)
      /\ requestedAckPosition # NullPosition
      /\ UNCHANGED <<positionVars, sessionVars, joinVars, currentSnapshot, poll,
                     startVars, control, recordings>>
    BY DEF AckRequested, IsAckDue
<1> USE DEF sessionVars, joinVars
<1>2. /\ Answers(acks') \in {Answers(acks), Answers(acks) \cup {Len(acks) + 1}}
      /\ requestedAckPosition' = NullPosition
    BY <1>1, AnswerOffered DEF Ack
<1>3. cm # "error" => /\ cm = "draining" /\ Calls(control) = {} /\ Answers(acks) = {}
                      /\ activeLogEvent = NoEvent
    BY <1>1 DEF ContentInv, CallInv, NoneAsked
<1>4. streams' = streams /\ cm' = cm /\ commitPos' = commitPos /\ log' = log
    BY DEF OthersKeep
<1>5. CallInv'
  <2>1. cm # "error" => NoneAsked'
    BY <1>1, <1>2, <1>3 DEF NoneAsked
  <2>2. cm # "error" => \A i, j \in Answers(acks') : i = j
    BY <1>2, <1>3
  <2> QED
    BY <2>1, <2>2, <1>1, <1>3, <1>4 DEF ContentInv, CallInv, NoneAsked
<1>6. ImageInv'
  <2>1. cm # "error" => cm = "draining"
    BY <1>3
  <2> QED
    BY <2>1, <1>1, <1>4 DEF ContentInv, ImageInv
<1> QED
    BY <1>1, <1>5, <1>6, AnswerKeeps DEF ContentInv

LEMMA JoinActiveLogContent ==
    ASSUME IndInv, ContentInv, JoinActiveLog, OthersKeep
    PROVE  ContentInv'
<1>1. /\ pc = "join" /\ pc' = "log" /\ activeLogEvent # NoEvent
      /\ Ack(NullValue) \/ UNCHANGED <<acks, requestedAckPosition>>
      /\ image' = [stream |-> activeLogEvent.stream, position |-> JoinPosition]
      /\ activeLogEvent' = NoEvent
      /\ UNCHANGED <<positionVars, sessions, sessionByIdMap, currentSnapshot, poll,
                     startVars, control, recordings>>
    BY DEF JoinActiveLog, MayJoin, ackVars
<1>2. /\ Answers(acks') \in {Answers(acks), Answers(acks) \cup {Len(acks) + 1}}
      /\ requestedAckPosition' \in {requestedAckPosition, NullPosition}
      /\ Answers(acks') # Answers(acks) => requestedAckPosition' = NullPosition
    BY <1>1, AnswerOffered
<1>3. activeLogEvent.stream = Len(streams)
    BY <1>1 DEF ContentInv, CallInv
<1>4. cm # "error" => /\ cm = "joining" /\ Calls(control) = {} /\ Answers(acks) = {}
                      /\ requestedAckPosition = NullPosition
    BY <1>1 DEF ContentInv, CallInv, NoneAsked
<1>5. streams' = streams /\ cm' = cm /\ commitPos' = commitPos /\ log' = log
    BY DEF OthersKeep
<1>6. CallInv'
  <2>1. cm # "error" => NoneAsked'
    BY <1>1, <1>2, <1>4 DEF NoneAsked
  <2>2. cm # "error" => \A i, j \in Answers(acks') : i = j
    BY <1>2, <1>4
  <2> QED
    BY <2>1, <2>2, <1>1, <1>4, <1>5 DEF ContentInv, CallInv, NoneAsked
<1>7. ImageInv'
  <2>1. streams # <<>>
    <3>1. activeLogEvent.stream \in Nat \ {0}
        BY <1>1 DEF IndInv, TypeOK, AgentTypeOK, JoinLogEvents
    <3>2. streams = <<>> => Len(streams) = 0
        OBVIOUS
    <3> QED
        BY <3>1, <3>2, <1>3
  <2>2. Agrees(log, streams[Len(streams)], commitPos)
    BY <2>1 DEF ContentInv, CurrentInv, CarriesLog, Current
  <2>3. image'.stream = Len(streams)
    BY <1>1, <1>3
  <2> QED
    BY <2>2, <2>3, <1>5 DEF ImageInv
<1> QED
    BY <1>1, <1>6, <1>7, AnswerKeeps DEF ContentInv

-----------------------------------------------------------------------------
(* Events of the log *)

\* The next event of a poll is the committed entry that follows the agent's position.
LEMMA NextEventIsLogged ==
    ASSUME IndInv, ContentInv, pc = "poll", HasFragment
    PROVE  /\ logPosition \in 0 .. Len(log) - 1 /\ NextPosition = logPosition + 1
           /\ NextEvent \in Entries /\ NextEvent = log[NextPosition]
           /\ Follows(NextEvent, sessionByIdMap, leadershipTermId)
           /\ OpenAt(log, NextPosition) = NextEvent.open
           /\ TermAt(log, NextPosition) = NextEvent.term
           /\ StateAt(log, NextPosition) = Append(service, Seen(NextEvent))
<1> DEFINE s == streams[image.stream]
           k == NextPosition - s.base
<1>1. /\ image.stream \in 1 .. Len(streams)
      /\ image.position \in Nat /\ image.position = logPosition
      /\ s.base <= image.position
    BY ImagePosition
<1>2. s \in Streams /\ s.base \in Nat /\ Len(s.entries) \in Nat
    BY <1>1, StreamType, LenProperties DEF IndInv, TypeOK
<1>3. NextEvent \in Entries /\ NextPosition = logPosition + 1 /\ NextPosition <= poll.limit
    BY NextEventType
<1>4. /\ poll.limit <= commitPos /\ commitPos <= Len(log)
      /\ poll.limit \in Nat /\ commitPos \in Nat /\ Len(log) \in Nat /\ log \in Seq(Entries)
    BY LenProperties DEF IndInv, PositionInv, TypeOK, CMTypeOK, AgentTypeOK
<1>5. image.position < s.base + Len(s.entries)
    BY DEF HasFragment, StreamEnd
<1> HIDE DEF s
<1>6. k \in 1 .. Len(s.entries) /\ s.base + k = NextPosition /\ NextPosition <= commitPos
    BY <1>1, <1>2, <1>3, <1>4, <1>5
<1>7. Agrees(log, s, commitPos)
    BY DEF ContentInv, ImageInv, IndInv, StepInv, s
<1>8. NextEvent = s.entries[k]
    BY DEF NextEvent, EntryAt, s
<1> HIDE DEF k
<1>9. NextEvent = log[NextPosition]
    BY <1>6, <1>7, <1>8 DEF Agrees
<1>10. /\ logPosition \in 0 .. Len(log) - 1 /\ logPosition \in Nat
       /\ NextPosition \in 1 .. Len(log) /\ NextPosition # 0 /\ NextPosition - 1 = logPosition
    BY <1>1, <1>3, <1>4
<1>11. IsStarted
    BY DEF IsStarted, WorkSteps
<1>12. /\ service = StateAt(log, logPosition) /\ sessionByIdMap = OpenAt(log, logPosition)
       /\ leadershipTermId = TermAt(log, logPosition)
    BY <1>11 DEF ContentInv, MatchInv
<1>13. Follows(log[NextPosition], OpenAt(log, NextPosition - 1), TermAt(log, NextPosition - 1))
    BY <1>10 DEF ContentInv, IsLog
<1>14. StateAt(log, NextPosition) = Append(service, Seen(NextEvent))
    BY <1>3, <1>4, <1>9, <1>10, <1>12, StateAtNext
<1>15. OpenAt(log, NextPosition) = NextEvent.open /\ TermAt(log, NextPosition) = NextEvent.term
    BY <1>9, <1>10 DEF OpenAt, TermAt
<1> QED
    BY <1>3, <1>9, <1>10, <1>12, <1>13, <1>14, <1>15

\* An event of the log is handled, or ends the thread.
LEMMA OnEventContent ==
    ASSUME IndInv, ContentInv, NEW kind, OnEvent(kind), OthersKeep,
           \/ pc' = "failed" /\ UNCHANGED currentSnapshot
           \/ /\ pc' = pc
              /\ service' = Append(service, Seen(NextEvent))
              /\ sessionByIdMap' = NextEvent.open
              /\ Ids(sessions') = sessionByIdMap' /\ IsSorted(sessions')
              /\ leadershipTermId' = NextEvent.term
              /\ currentSnapshot' \in {currentSnapshot,
                                       [step |-> "publication", recording |-> 0]}
    PROVE  ContentInv'
<1>1. /\ pc = "poll" /\ HasFragment
      /\ image' = [image EXCEPT !.position = NextPosition]
      /\ logPosition' = NextPosition
      /\ UNCHANGED <<ackVars, activeLogEvent, maxLogPosition, role, startVars,
                     control, acks, recordings>>
    BY DEF OnEvent
<1>2. image # NoImage /\ image'.stream = image.stream
    BY <1>1 DEF IndInv, StepInv, TypeOK, AgentTypeOK
<1>3. IsLog(log') /\ CurrentInv' /\ CallInv' /\ ImageInv'
    BY <1>1, <1>2, AgentKeepsLog, CallsKept, ImageKept DEF ackVars
<1>4. SnapshotInv'
    BY <1>1 DEF ContentInv, SnapshotInv, OthersKeep
<1>5. VectorInv'
    BY DEF VectorInv
<1>6. ProgressInv'
  <2>1. currentSnapshot.step \notin {"recording", "state", "ack"}
    BY <1>1 DEF ContentInv, ProgressInv
  <2>2. currentSnapshot'.step \notin {"recording", "state", "ack"}
    BY <2>1
  <2> QED
    BY <2>2 DEF ProgressInv
<1>7. LoadInv'
    BY <1>1 DEF LoadInv, StartSteps
<1>8. MatchInv'
  <2>1. CASE pc' = "failed"
    BY <2>1 DEF MatchInv, IsStarted, WorkSteps
  <2>2. CASE pc' # "failed"
    <3>1. log' = log
        BY DEF OthersKeep
    <3> QED
        BY <2>2, <3>1, <1>1, NextEventIsLogged DEF MatchInv
  <2> QED
    BY <2>1, <2>2
<1> QED
    BY <1>3, <1>4, <1>5, <1>6, <1>7, <1>8 DEF ContentInv

\* An event that opens and closes no session, and starts no term.
LEMMA PlainEventContent ==
    ASSUME IndInv, ContentInv, OthersKeep,
           NEW kind \in {"SessionMessage", "TimerEvent", "Snapshot", "MembershipChangeEvent"},
           OnEvent(kind),
           service' = Append(service, Seen(NextEvent)),
           UNCHANGED <<pc, leadershipTermId, sessionVars>>,
           currentSnapshot' \in {currentSnapshot, [step |-> "publication", recording |-> 0]}
    PROVE  ContentInv'
<1>1. pc = "poll" /\ HasFragment /\ NextEvent.kind = kind
    BY DEF OnEvent
<1>2. NextEvent.open = sessionByIdMap /\ NextEvent.term = leadershipTermId
    BY <1>1, NextEventIsLogged DEF Follows
<1>3. Ids(sessions) = sessionByIdMap /\ IsSorted(sessions)
    BY <1>1 DEF ContentInv, VectorInv
<1> QED
    BY <1>2, <1>3, OnEventContent DEF sessionVars

LEMMA OnSessionOpenContent ==
    ASSUME IndInv, ContentInv, OnSessionOpen, OthersKeep
    PROVE  ContentInv'
<1>1. /\ OnEvent("SessionOpenEvent") /\ UNCHANGED <<leadershipTermId, currentSnapshot>>
      /\ pc = "poll" /\ HasFragment /\ NextEvent.kind = "SessionOpenEvent"
    BY DEF OnSessionOpen, OnEvent
<1>2. CASE NextEvent.session \in sessionByIdMap
    BY <1>1, <1>2, OnEventContent DEF OnSessionOpen, Throw
<1>3. CASE NextEvent.session \notin sessionByIdMap
  <2>1. AddSession(NextEvent.session) /\ Callback /\ pc' = pc
    BY <1>3 DEF OnSessionOpen
  <2>2. /\ NextEvent \in Entries /\ NextEvent.session \in Sessions
        /\ NextEvent.open = sessionByIdMap \cup {NextEvent.session}
        /\ NextEvent.term = leadershipTermId
    BY <1>1, NextEventIsLogged DEF Follows, Entries
  <2>3. Ids(sessions) = sessionByIdMap /\ IsSorted(sessions) /\ AgentTypeOK
    BY <1>1 DEF ContentInv, VectorInv, IndInv, TypeOK
  <2>4. IsSorted(sessions') /\ Ids(sessions') = sessionByIdMap \cup {NextEvent.session}
    BY <1>3, <2>1, <2>2, <2>3, AddSessionSorted
  <2>5. sessionByIdMap' = NextEvent.open
    BY <2>1, <2>2 DEF AddSession
  <2>6. service' = Append(service, Seen(NextEvent))
    BY <1>1, <2>1 DEF Callback, Seen, Shown
  <2> QED
    BY <1>1, <2>1, <2>2, <2>4, <2>5, <2>6, OnEventContent
<1> QED
    BY <1>2, <1>3

LEMMA OnSessionCloseContent ==
    ASSUME IndInv, ContentInv, OnSessionClose, OthersKeep
    PROVE  ContentInv'
<1>1. /\ OnEvent("SessionCloseEvent") /\ UNCHANGED <<leadershipTermId, currentSnapshot>>
      /\ pc = "poll" /\ HasFragment /\ NextEvent.kind = "SessionCloseEvent"
    BY DEF OnSessionClose, OnEvent
<1>2. CASE NextEvent.session \notin SessionIds
    BY <1>1, <1>2, OnEventContent DEF OnSessionClose, Throw
<1>3. CASE NextEvent.session \in SessionIds
  <2>1. RemoveSession(NextEvent.session) /\ Callback /\ pc' = pc
    BY <1>3 DEF OnSessionClose
  <2>2. /\ NextEvent.open = sessionByIdMap \ {NextEvent.session}
        /\ NextEvent.term = leadershipTermId
    BY <1>1, NextEventIsLogged DEF Follows
  <2>3. Ids(sessions) = sessionByIdMap /\ IsSorted(sessions) /\ AgentTypeOK
    BY <1>1 DEF ContentInv, VectorInv, IndInv, TypeOK
  <2>4. IsSorted(sessions') /\ Ids(sessions') = sessionByIdMap \ {NextEvent.session}
    BY <1>3, <2>1, <2>3, RemoveSessionSorted
  <2>5. sessionByIdMap' = NextEvent.open
    BY <2>1, <2>2 DEF RemoveSession
  <2>6. service' = Append(service, Seen(NextEvent))
    BY <1>1, <2>1 DEF Callback, Seen, Shown
  <2> QED
    BY <1>1, <2>1, <2>2, <2>4, <2>5, <2>6, OnEventContent
<1> QED
    BY <1>2, <1>3

LEMMA LogEventContent ==
    ASSUME IndInv, ContentInv, LogEvent, OthersKeep
    PROVE  ContentInv'
<1>1. CASE OnSessionMessage
  <2>1. /\ OnEvent("SessionMessage") /\ pc = "poll" /\ HasFragment
        /\ NextEvent.kind = "SessionMessage"
        /\ UNCHANGED <<pc, leadershipTermId, sessionVars, currentSnapshot>>
    BY <1>1 DEF OnSessionMessage, OnEvent
  <2>2. NextEvent.open = sessionByIdMap
    BY <2>1, NextEventIsLogged DEF Follows
  <2>3. service' = Append(service, Seen(NextEvent))
    BY <1>1, <2>1, <2>2 DEF OnSessionMessage, Callback, NoCallback, Seen, Shown
  <2> QED
    BY <2>1, <2>3, PlainEventContent
<1>2. CASE OnTimerEvent
  <2>1. /\ OnEvent("TimerEvent") /\ NextEvent.kind = "TimerEvent" /\ Callback
        /\ UNCHANGED <<pc, leadershipTermId, sessionVars, currentSnapshot>>
    BY <1>2 DEF OnTimerEvent, OnEvent
  <2>2. service' = Append(service, Seen(NextEvent))
    BY <2>1 DEF Callback, Seen, Shown
  <2> QED
    BY <2>1, <2>2, PlainEventContent
<1>3. CASE OnMembershipChange
  <2>1. /\ OnEvent("MembershipChangeEvent") /\ NextEvent.kind = "MembershipChangeEvent"
        /\ NoCallback /\ UNCHANGED <<pc, leadershipTermId, sessionVars, currentSnapshot>>
    BY <1>3 DEF OnMembershipChange, OnEvent
  <2>2. service' = Append(service, Seen(NextEvent))
    BY <2>1 DEF NoCallback, Seen, Shown
  <2> QED
    BY <2>1, <2>2, PlainEventContent
<1>4. CASE OnTakeSnapshot
  <2>1. /\ OnEvent("Snapshot") /\ NextEvent.kind = "Snapshot" /\ NoCallback
        /\ currentSnapshot' = [step |-> "publication", recording |-> 0]
        /\ UNCHANGED <<pc, leadershipTermId, sessionVars>>
    BY <1>4 DEF OnTakeSnapshot, OnEvent
  <2>2. service' = Append(service, Seen(NextEvent))
    BY <2>1 DEF NoCallback, Seen, Shown
  <2> QED
    BY <2>1, <2>2, PlainEventContent
<1>5. CASE OnNewLeadershipTermEvent
  <2>1. /\ OnEvent("NewLeadershipTermEvent") /\ Callback /\ pc = "poll" /\ HasFragment
        /\ NextEvent.kind = "NewLeadershipTermEvent" /\ leadershipTermId' = NextEvent.term
        /\ UNCHANGED <<pc, sessionVars, currentSnapshot>>
    BY <1>5 DEF OnNewLeadershipTermEvent, OnEvent
  <2>2. service' = Append(service, Seen(NextEvent))
    BY <2>1 DEF Callback, Seen, Shown
  <2>3. NextEvent.open = sessionByIdMap
    BY <2>1, NextEventIsLogged DEF Follows
  <2>4. Ids(sessions) = sessionByIdMap /\ IsSorted(sessions)
    BY <2>1 DEF ContentInv, VectorInv
  <2> QED
    BY <2>1, <2>2, <2>3, <2>4, OnEventContent DEF sessionVars
<1>6. CASE OnSessionOpen
    BY <1>6, OnSessionOpenContent
<1>7. CASE OnSessionClose
    BY <1>7, OnSessionCloseContent
<1> QED
    BY <1>1, <1>2, <1>3, <1>4, <1>5, <1>6, <1>7 DEF LogEvent

-----------------------------------------------------------------------------
(* The invariant *)

\* A poll ends, and the log may be closed with it.
LEMMA EndOfPollContent ==
    ASSUME IndInv, ContentInv, CloseLog \/ EndPoll, OthersKeep
    PROVE  ContentInv'
<1>1. /\ pc = "poll" /\ pc' = "begin"
      /\ UNCHANGED <<leadershipTermId, service, ackVars, sessionVars, activeLogEvent,
                     currentSnapshot, control, acks, recordings>>
    BY DEF CloseLog, EndPoll, positionVars, joinVars
<1>2. logPosition' = logPosition /\ image' \in {image, NoImage}
    BY ImagePosition DEF CloseLog, EndPoll, positionVars, joinVars
<1> QED
    BY <1>1, <1>2, OnlyMovesContent DEF AgentKeepsMessages, positionVars, WorkSteps

LEMMA AgentStepContent ==
    ASSUME IndInv, ContentInv, AgentStep
    PROVE  ContentInv'
<1>0. OthersKeep
    BY DEF AgentStep, AgentNext, OthersKeep
<1>1. CASE Recover
    BY <1>0, <1>1, RecoverContent
<1>2. CASE LoadFragment
    BY <1>0, <1>2, LoadFragmentContent
<1>3. CASE OnStart
    BY <1>0, <1>3, OnStartContent
<1>4. CASE StartAck
    BY <1>0, <1>4, StartAckContent
<1>5. CASE StartRecording
    BY <1>0, <1>5, StartRecordingContent
<1>6. CASE TakeAgentSnapshot
    BY <1>0, <1>6, TakeAgentSnapshotContent
<1>7. CASE TakeServiceSnapshot
    BY <1>0, <1>7, TakeServiceSnapshotContent
<1>8. CASE AckSnapshot
    BY <1>0, <1>8, AckSnapshotContent
<1>9. CASE OnJoinLog
    BY <1>0, <1>9, OnJoinLogContent
<1>10. CASE OnRequestServiceAck
    BY <1>0, <1>10, OnRequestServiceAckContent
<1>11. CASE OnServiceTerminationPosition
    BY <1>0, <1>11, OnServiceTerminationPositionContent
<1>12. CASE JoinActiveLog
    BY <1>0, <1>12, JoinActiveLogContent
<1>13. CASE AckRequested
    BY <1>0, <1>13, AckRequestedContent
<1>14. CASE CloseLog \/ EndPoll
    BY <1>0, <1>14, EndOfPollContent
<1>15. CASE LogEvent
    BY <1>0, <1>15, LogEventContent
<1>16. CASE SnapshotEndedUnexpectedly \/ NoClockTick \/ UnexpectedAbort \/ PollLog
            \/ NoControlMessage \/ JoinNotContiguous \/ NoAckRequested \/ NoLog
  <2>1. /\ AgentKeepsMessages
        /\ UNCHANGED <<positionVars, ackVars, sessionVars, joinVars, currentSnapshot>>
    BY <1>16 DEF SnapshotEndedUnexpectedly, NoClockTick, UnexpectedAbort, PollLog,
                 NoControlMessage, JoinNotContiguous, NoAckRequested, NoLog,
                 AgentKeepsMessages
  <2>2. /\ pc' \in WorkSteps \cup {"failed"} /\ pc # "failed"
        /\ pc' # "failed" => pc \in WorkSteps
        /\ pc = "begin" => currentSnapshot = NoSnapshot
    BY <1>16 DEF SnapshotEndedUnexpectedly, NoClockTick, UnexpectedAbort, ClockTick,
                 PollLog, NoControlMessage, JoinNotContiguous, NoAckRequested, NoLog,
                 Throw, WorkSteps
  <2> QED
    BY <1>0, <2>1, <2>2, OnlyMovesContent DEF joinVars
<1> QED
    BY <1>1, <1>2, <1>3, <1>4, <1>5, <1>6, <1>7, <1>8, <1>9, <1>10, <1>11, <1>12, <1>13,
       <1>14, <1>15, <1>16
    DEF AgentStep, AgentNext, Startup, SnapshotWork, PollServiceAdapter

LEMMA InitContent ==
    ASSUME Init
    PROVE  ContentInv
<1> USE DEF Init, CMInit, ArchiveInit, AgentInit
<1>1. log = <<>> /\ Len(log) = 0 /\ log \in Seq(Entries) /\ MaxLog \in Nat
    BY ClusterLogAssumption
<1>2. IsLog(log)
    BY <1>1 DEF IsLog
<1>3. CurrentInv /\ ImageInv /\ ProgressInv
    BY DEF CurrentInv, ImageInv, ProgressInv, NoSnapshot
<1>4. CallInv
    BY DEF CallInv, Calls, Answers, NoneAsked
<1>5. VectorInv
    BY DEF VectorInv, Ids, IsSorted
<1>6. SnapshotInv
    BY DEF SnapshotInv
<1>7. LoadInv
    BY DEF LoadInv, StartSteps
<1>8. MatchInv
    BY DEF MatchInv, IsStarted, WorkSteps
<1> QED
    BY <1>2, <1>3, <1>4, <1>5, <1>6, <1>7, <1>8 DEF ContentInv

LEMMA NextContent ==
    ASSUME RecordingMayStop = FALSE, IndInv, ContentInv, [Next]_vars
    PROVE  ContentInv'
<1>1. CASE CMStep
    BY <1>1, CMStepContent
<1>2. CASE ArchiveStep
    BY <1>2, ArchiveStepContent
<1>3. CASE AgentStep
    BY <1>3, AgentStepContent
<1>4. CASE Restart
    BY <1>4, RestartContent
<1>5. CASE UNCHANGED vars
  <2>1. UNCHANGED <<cmVars, agentVars, recordings>>
    BY <1>5 DEF vars
  <2> QED
    BY <2>1, RecordingsContent
<1> QED
    BY <1>1, <1>2, <1>3, <1>4, <1>5 DEF Next

\* The archive goes on with a recording until the writer is done or gone.
Reliable == RecordingMayStop = FALSE

\* Content of the log, the messages, the snapshots and the agent: the inductive
\* invariant of a node whose archive does not abandon recordings.
THEOREM ServiceLogInvariant == Reliable => (Spec => [](IndInv /\ ContentInv))
<1> SUFFICES ASSUME Reliable PROVE Spec => [](IndInv /\ ContentInv)
    OBVIOUS
<1>1. Init => IndInv /\ ContentInv
    BY InitInd, InitContent
<1>2. (IndInv /\ ContentInv) /\ [Next]_vars => (IndInv /\ ContentInv)'
    BY NextInd, NextContent DEF Reliable
<1> QED
    BY <1>1, <1>2, PTL DEF Spec

-----------------------------------------------------------------------------
(* What follows from it *)

\* A started service has seen exactly the callbacks of the committed log up to the
\* agent's position, each once and in order, through joins, new terms, snapshots,
\* restarts, lost join acks and commits that do not wait.
THEOREM ServiceMatchesLogAlways == Reliable => (Spec => []ServiceMatchesLog)
<1>1. IndInv /\ ContentInv => ServiceMatchesLog
  <2> SUFFICES ASSUME IndInv, ContentInv PROVE ServiceMatchesLog
    OBVIOUS
  <2>1. logPosition <= commitPos /\ commitPos <= Len(log) /\ commitPos \in Nat
        /\ Len(log) \in Nat
    BY LenProperties DEF IndInv, PositionInv, TypeOK, CMTypeOK
  <2>2. IsStarted => logPosition \in Nat
    BY DEF IsStarted, WorkSteps, IndInv, StepInv, TypeOK, AgentTypeOK
  <2>3. IsStarted => logPosition <= Len(log)
    BY <2>1, <2>2
  <2> QED
    BY <2>3 DEF ServiceMatchesLog, ContentInv, MatchInv
<1> QED
    BY <1>1, ServiceLogInvariant, PTL

\* The map and the sorted vector of the sessions hold the same sessions, those the
\* log has open at the agent's position.
THEOREM SessionsMatchLogAlways == Reliable => (Spec => []SessionsMatchLog)
<1>1. IndInv /\ ContentInv => SessionsMatchLog
    BY DEF SessionsMatchLog, SessionIds, IsStarted, WorkSteps, ContentInv, MatchInv,
           VectorInv, Ids, IsSorted
<1> QED
    BY <1>1, ServiceLogInvariant, PTL

\* The ids of a sorted vector are as many as the vector is long.
LEMMA SortedCount ==
    ASSUME NEW ids \in Seq(Sessions), IsSorted(ids)
    PROVE  Cardinality(Ids(ids)) = Len(ids)
<1> DEFINE n == Len(ids)
<1>1. n \in Nat /\ DOMAIN ids = 1 .. n /\ ids \in [1 .. n -> Sessions]
    BY LenProperties
<1>2. \A i \in 1 .. n : ids[i] \in Nat
    BY <1>1, ClusterLogAssumption
<1>3. \A i, j \in 1 .. n : ids[i] = ids[j] => i = j
  <2> TAKE i, j \in 1 .. n
  <2>1. i < j \/ j < i \/ i = j
    BY <1>1
  <2>2. i < j => ids[i] < ids[j]
    BY DEF IsSorted
  <2>3. j < i => ids[j] < ids[i]
    BY DEF IsSorted
  <2>4. ids[i] \in Nat /\ ids[j] \in Nat
    BY <1>2
  <2> QED
    BY <2>1, <2>2, <2>3, <2>4
<1>4. ids \in [1 .. n -> Ids(ids)]
    BY <1>1 DEF Ids
<1>5. \A s \in Ids(ids) : \E i \in 1 .. n : ids[i] = s
    BY DEF Ids
<1>6. ids \in Bijection(1 .. n, Ids(ids))
    BY <1>3, <1>4, <1>5 DEF Bijection, Injection, Surjection, IsInjective
<1>7. ExistsBijection(1 .. n, Ids(ids))
    BY <1>6 DEF ExistsBijection
<1> QED
    BY <1>1, <1>7, FS_CountingElements

LEMMA SnapshotOfIsSnapshot ==
    ASSUME NEW p \in 1 .. Len(log), NEW ids \in Seq(Sessions), log \in Seq(Entries),
           Ids(ids) = OpenAt(log, p), IsSorted(ids)
    PROVE  IsSnapshotAt(SnapshotOf(log, ids, p), p)
<1> DEFINE s == SnapshotOf(log, ids, p)
           n == Len(ids)
           t == IF p = 0 THEN NullValue ELSE log[p].term
<1>1. /\ Len(s) = n + 3 /\ n \in Nat
      /\ s[1] = [type |-> "BEGIN", logPosition |-> p, term |-> TermAt(log, p)]
      /\ \A i \in 2 .. n + 1 : s[i] = [type |-> "SESSION", session |-> ids[i - 1]]
      /\ s[n + 2] = [type |-> "END", logPosition |-> p, term |-> TermAt(log, p)]
      /\ s[n + 3] = [type |-> "SERVICE", state |-> StateAt(log, p)]
    BY SnapshotOfElements
<1>2. Cardinality(OpenAt(log, p)) = n
    BY SortedCount
<1>3. t = TermAt(log, p)
    BY DEF TermAt
<1> HIDE DEF s, n, t
<1>4. ASSUME NEW i \in 2 .. n + 1
      PROVE  /\ s[i].type = "SESSION" /\ s[i].session \in OpenAt(log, p)
             /\ i > 2 => s[i - 1].session < s[i].session
  <2>1. i - 1 \in 1 .. n /\ s[i] = [type |-> "SESSION", session |-> ids[i - 1]]
    BY <1>1
  <2>2. ids[i - 1] \in OpenAt(log, p)
    BY <2>1 DEF Ids, n
  <2>3. ASSUME i > 2 PROVE s[i - 1].session < s[i].session
    <3>1. /\ i - 1 \in 2 .. n + 1 /\ (i - 1) - 1 \in 1 .. n /\ (i - 1) - 1 < i - 1
        BY <2>3, <1>1
    <3>2. s[i - 1] = [type |-> "SESSION", session |-> ids[(i - 1) - 1]]
        BY <3>1, <1>1
    <3>3. ids[(i - 1) - 1] < ids[i - 1]
        BY <2>1, <3>1 DEF IsSorted, n
    <3> QED
        BY <2>1, <3>2, <3>3
  <2> QED
    BY <2>1, <2>2, <2>3
<1>5. IsSnapshotAt(s, p)
    BY <1>1, <1>2, <1>3, <1>4 DEF IsSnapshotAt, t
<1> QED
    BY <1>5 DEF s

\* What a snapshot holds is of one position: markers, sessions and service state,
\* although different calls of doWork write them.
THEOREM SnapshotIsConsistentCutAlways == Reliable => (Spec => []SnapshotIsConsistentCut)
<1>1. IndInv /\ ContentInv => SnapshotIsConsistentCut
    BY WrittenSnapshot, SnapshotOfIsSnapshot DEF SnapshotIsConsistentCut
<1> QED
    BY <1>1, ServiceLogInvariant, PTL

\* The snapshot the next start recovers from is complete, recorded, and of the
\* position the recovery state names, however the node was stopped.
THEOREM RecoverySnapshotIsDurableAlways ==
    Reliable => (Spec => []RecoverySnapshotIsDurable)
<1>1. IndInv /\ ContentInv => RecoverySnapshotIsDurable
  <2> SUFFICES ASSUME IndInv, ContentInv, recovery.recording # NullValue
               PROVE  IsSnapshotAt(Replayed(recovery.recording), recovery.logPosition)
    BY DEF RecoverySnapshotIsDurable
  <2> DEFINE r == recovery.recording
             p == recovery.logPosition
  <2>1. r \in 1 .. Len(recordings) /\ IsComplete(log, recordings[r], p)
    BY DEF ContentInv, SnapshotInv
  <2>2. recordings[r] \in RecordingStates /\ log \in Seq(Entries)
    BY <2>1, RecordingType DEF IndInv, TypeOK, CMTypeOK
  <2>3. p \in 1 .. Len(log) /\ recordings[r].recorded = Len(recordings[r].published)
    BY <2>1 DEF IsComplete
  <2>4. PICK ids \in Seq(Sessions) :
            /\ Ids(ids) = OpenAt(log, p) /\ IsSorted(ids)
            /\ recordings[r].published = SnapshotOf(log, ids, p)
    BY <2>1, <2>2, CompleteHasSessions
  <2>5. Replayed(r) = SnapshotOf(log, ids, p)
    BY <2>1, <2>3, <2>4, ReplayedWhole
  <2> QED
    BY <2>2, <2>3, <2>4, <2>5, SnapshotOfIsSnapshot
<1> QED
    BY <1>1, ServiceLogInvariant, PTL
=============================================================================
