--------------------------- MODULE RankDataProofs ---------------------------
(***************************************************************************)
(* Theorems about RankData, for any ids, scores, nicknames and tables of   *)
(* distances: its arrays stay aligned, the pages it shows are right, and   *)
(* it implements ScoreTable.  The operators of RankOps search and move by  *)
(* index; the lemmas say of each where an entry comes from, and whether    *)
(* the scores still descend.                                               *)
(***************************************************************************)
EXTENDS RankData, RankRace, FiniteSetTheorems, SequenceTheorems, TLAPS

\* Every set of naturals that is not empty has a least element, which Min is.
LEMMA MinOf ==
  ASSUME NEW T \in SUBSET Nat, T # {}
  PROVE  Min(T) \in T /\ \A y \in T : Min(T) <= y
<1> DEFINE Upto == {0 .. x : x \in T}
<1>1. \A x \in T : 0 .. x \in SUBSET Nat /\ IsFiniteSet(0 .. x)
  BY FS_Interval
<1>2. Upto \subseteq FiniteSubsetsOf(Nat) /\ Upto # {}
  BY <1>1 DEF FiniteSubsetsOf
<1>3. PICK u \in Upto : \A v \in Upto : ~ (<<v, u>> \in StrictSubsetOrdering(Nat))
  <2> HIDE DEF Upto
  <2> QED BY <1>2, FS_StrictSubsetOrderingWellFounded, WFMin
<1>4. PICK x \in T : u = 0 .. x
  OBVIOUS
<1>5. ASSUME NEW y \in T PROVE x <= y
  <2>1. <<0 .. y, u>> \notin StrictSubsetOrdering(Nat)
    BY <1>3
  <2>2. <<0 .. y, u>> \in (SUBSET Nat) \X (SUBSET Nat)
    BY <1>1, <1>4
  <2>3. ~ (0 .. y \subseteq u /\ 0 .. y # u)
    BY <2>1, <2>2 DEF StrictSubsetOrdering
  <2> QED BY <1>4, <2>3
<1> QED BY <1>5 DEF Min

-----------------------------------------------------------------------------
(* Scores in descending order, and where a score belongs.                  *)

\* Scores that descend.
Down(a) ==
  a \in Seq(Int) /\ \A j, k \in 1 .. Len(a) : j <= k => a[j] >= a[k]

\* sort.Search finds the first index from which on the test holds.
LEMMA SearchFirst ==
  ASSUME NEW n \in Nat, NEW hits \in SUBSET (0 .. n - 1),
         \A i \in hits, j \in 0 .. n - 1 : i <= j => j \in hits
  PROVE  /\ Search(n, hits) \in 0 .. n
         /\ \A j \in 0 .. n - 1 : j \in hits <=> Search(n, hits) <= j
<1>1. CASE hits = {}
  BY <1>1 DEF Search
<1>2. CASE hits # {}
  <2>1. /\ Min(hits) \in hits /\ \A y \in hits : Min(hits) <= y
    BY <1>2, MinOf
  <2>2. Search(n, hits) = Min(hits)
    BY <1>2 DEF Search
  <2>3. Min(hits) \in 0 .. n - 1
    BY <2>1
  <2>4. \A j \in 0 .. n - 1 : j \in hits <=> Min(hits) <= j
    BY <2>1, <2>3
  <2> QED BY <2>2, <2>3, <2>4
<1> QED BY <1>1, <1>2

\* GetRankZeroBasedDesc finds where the better scores end.
LEMMA RankCounts ==
  ASSUME NEW a, Down(a), NEW s \in Int
  PROVE  /\ RankOf(a, s) \in 0 .. Len(a)
         /\ \A k \in 1 .. Len(a) : k <= RankOf(a, s) <=> a[k] > s
<1> DEFINE n == Len(a)
           hits == {i \in 0 .. n - 1 : s >= a[i + 1]}
<1>1. n \in Nat /\ \A k \in 1 .. n : a[k] \in Int
  BY LenProperties, ElementOfSeq DEF Down
<1>2. \A i \in hits, j \in 0 .. n - 1 : i <= j => j \in hits
  <2> TAKE i \in hits, j \in 0 .. n - 1
  <2> HAVE i <= j
  <2>1. i + 1 \in 1 .. n /\ j + 1 \in 1 .. n /\ i + 1 <= j + 1
    BY <1>1
  <2>2. a[i + 1] >= a[j + 1]
    BY <2>1 DEF Down
  <2> QED BY <1>1, <2>1, <2>2
<1>3. RankOf(a, s) = Search(n, hits)
  BY DEF RankOf
<1>4. /\ Search(n, hits) \in 0 .. n
      /\ \A j \in 0 .. n - 1 : j \in hits <=> Search(n, hits) <= j
  <2>1. hits \subseteq 0 .. n - 1
    OBVIOUS
  <2> HIDE DEF hits, n
  <2> QED BY <1>1, <1>2, <2>1, SearchFirst
<1>5. ASSUME NEW k \in 1 .. n PROVE k <= Search(n, hits) <=> a[k] > s
  <2>1. k - 1 \in 0 .. n - 1 /\ (k - 1) + 1 = k
    BY <1>1
  <2>2. k - 1 \in hits <=> s >= a[k]
    BY <2>1
  <2>3. k - 1 \in hits <=> Search(n, hits) <= k - 1
    BY <1>4, <2>1
  <2> HIDE DEF hits
  <2> QED BY <1>1, <1>4, <2>2, <2>3
<1> QED BY <1>3, <1>4, <1>5

\* getNextRankZeroBasedDesc finds where the scores that are as good end.
LEMMA NextRankCounts ==
  ASSUME NEW a, Down(a), NEW s \in Int
  PROVE  /\ NextRankOf(a, s) \in 0 .. Len(a)
         /\ \A k \in 1 .. Len(a) : k <= NextRankOf(a, s) <=> a[k] >= s
<1> DEFINE n == Len(a)
           hits == {i \in 0 .. n - 1 : s > a[i + 1]}
<1>1. n \in Nat /\ \A k \in 1 .. n : a[k] \in Int
  BY LenProperties, ElementOfSeq DEF Down
<1>2. \A i \in hits, j \in 0 .. n - 1 : i <= j => j \in hits
  <2> TAKE i \in hits, j \in 0 .. n - 1
  <2> HAVE i <= j
  <2>1. i + 1 \in 1 .. n /\ j + 1 \in 1 .. n /\ i + 1 <= j + 1
    BY <1>1
  <2>2. a[i + 1] >= a[j + 1]
    BY <2>1 DEF Down
  <2> QED BY <1>1, <2>1, <2>2
<1>3. NextRankOf(a, s) = Search(n, hits)
  BY DEF NextRankOf
<1>4. /\ Search(n, hits) \in 0 .. n
      /\ \A j \in 0 .. n - 1 : j \in hits <=> Search(n, hits) <= j
  <2>1. hits \subseteq 0 .. n - 1
    OBVIOUS
  <2> HIDE DEF hits, n
  <2> QED BY <1>1, <1>2, <2>1, SearchFirst
<1>5. ASSUME NEW k \in 1 .. n PROVE k <= Search(n, hits) <=> a[k] >= s
  <2>1. k - 1 \in 0 .. n - 1 /\ (k - 1) + 1 = k
    BY <1>1
  <2>2. k - 1 \in hits <=> s > a[k]
    BY <2>1
  <2>3. k - 1 \in hits <=> Search(n, hits) <= k - 1
    BY <1>4, <2>1
  <2> HIDE DEF hits
  <2> QED BY <1>1, <1>4, <2>2, <2>3
<1> QED BY <1>3, <1>4, <1>5

-----------------------------------------------------------------------------
(* Entries inserted, removed and moved.                                    *)

\* t is s with x inserted at index i.
Inserted(t, s, i, x) ==
  /\ Len(t) = Len(s) + 1
  /\ \A k \in 1 .. Len(s) + 1 :
       t[k] = IF k <= i THEN s[k] ELSE IF k = i + 1 THEN x ELSE s[k - 1]

\* t is s with index i removed.
Removed(t, s, i) ==
  /\ Len(t) = Len(s) - 1
  /\ \A k \in 1 .. Len(s) - 1 : t[k] = IF k <= i THEN s[k] ELSE s[k + 1]

\* Where a place other than the new one has its entry from.
LEMMA InsertedAt ==
  ASSUME NEW t, NEW s, NEW i, NEW x, Inserted(t, s, i, x), NEW k \in 1 .. Len(s) + 1,
         k # i + 1
  PROVE  t[k] = s[IF k <= i THEN k ELSE k - 1]
<1>1. t[k] = IF k <= i THEN s[k] ELSE IF k = i + 1 THEN x ELSE s[k - 1]
  BY DEF Inserted
<1> QED BY ONLY <1>1, k # i + 1

\* Where a place has its entry from after a removal.
LEMMA RemovedAt ==
  ASSUME NEW t, NEW s, NEW i, Removed(t, s, i), NEW k \in 1 .. Len(s) - 1
  PROVE  t[k] = s[IF k <= i THEN k ELSE k + 1]
<1>1. t[k] = IF k <= i THEN s[k] ELSE s[k + 1]
  BY DEF Removed
<1> QED BY ONLY <1>1

\* Inserting moves the entries from the index on up by one.
LEMMA InsertMoves ==
  ASSUME NEW S, NEW s \in Seq(S), NEW i \in 0 .. Len(s), NEW x \in S
  PROVE  /\ InsertAtIndex(s, i, x) \in Seq(S)
         /\ Inserted(InsertAtIndex(s, i, x), s, i, x)
<1> DEFINE n == Len(s)
           l == SubSeq(s, 1, i)
           m == <<x>>
           r == SubSeq(s, i + 1, n)
<1>1. n \in Nat /\ i \in Nat /\ \A k \in 1 .. n : s[k] \in S
  BY LenProperties, ElementOfSeq
<1>2. l \in Seq(S) /\ Len(l) = i /\ \A k \in 1 .. i : l[k] = s[k]
  BY <1>1, SubSeqProperties
<1>3. m \in Seq(S) /\ Len(m) = 1 /\ m[1] = x
  OBVIOUS
<1>4. /\ r \in Seq(S) /\ Len(r) = n - i
      /\ \A k \in 1 .. n - i : r[k] = s[i + k]
  BY <1>1, SubSeqProperties
<1>5. InsertAtIndex(s, i, x) = (l \o m) \o r
  <2>1. (i + 1) - 1 = i
    BY <1>1
  <2> QED BY <2>1 DEF InsertAtIndex, InsertAt
<1> HIDE DEF l, m, r
<1>6. /\ l \o m \in Seq(S) /\ Len(l \o m) = i + 1
      /\ \A k \in 1 .. i + 1 : (l \o m)[k] = IF k <= i THEN s[k] ELSE x
  <2>1. /\ l \o m \in Seq(S) /\ Len(l \o m) = Len(l) + Len(m)
        /\ \A k \in 1 .. Len(l) + Len(m) :
             (l \o m)[k] = IF k <= Len(l) THEN l[k] ELSE m[k - Len(l)]
    BY <1>2, <1>3, ConcatProperties
  <2>2. \A k \in 1 .. i + 1 : k > i => k - i = 1
    BY <1>1
  <2> QED BY <1>1, <1>2, <1>3, <2>1, <2>2
<1> DEFINE h == l \o m
<1> HIDE DEF h
<1>7. /\ h \o r \in Seq(S) /\ Len(h \o r) = n + 1
      /\ \A k \in 1 .. n + 1 :
           (h \o r)[k] = IF k <= i THEN s[k] ELSE IF k = i + 1 THEN x ELSE s[k - 1]
  <2>1. /\ h \in Seq(S) /\ Len(h) = i + 1
        /\ \A k \in 1 .. i + 1 : h[k] = IF k <= i THEN s[k] ELSE x
    BY <1>6 DEF h
  <2>2. /\ h \o r \in Seq(S) /\ Len(h \o r) = n + 1
        /\ \A k \in 1 .. n + 1 : (h \o r)[k] = IF k <= i + 1 THEN h[k] ELSE r[k - (i + 1)]
    <3>1. /\ h \o r \in Seq(S) /\ Len(h \o r) = Len(h) + Len(r)
          /\ \A k \in 1 .. Len(h) + Len(r) :
               (h \o r)[k] = IF k <= Len(h) THEN h[k] ELSE r[k - Len(h)]
      BY <1>4, <2>1, ConcatProperties
    <3>2. Len(h) + Len(r) = n + 1
      BY <1>1, <1>4, <2>1
    <3> QED BY <2>1, <3>1, <3>2
  <2>3. ASSUME NEW k \in 1 .. n + 1, k > i + 1 PROVE r[k - (i + 1)] = s[k - 1]
    <3>1. k - (i + 1) \in 1 .. n - i /\ i + (k - (i + 1)) = k - 1
      BY <1>1, <2>3
    <3> QED BY <1>4, <3>1
  <2> QED BY <1>1, <2>1, <2>2, <2>3
<1>8. InsertAtIndex(s, i, x) = h \o r
  BY ONLY <1>5 DEF h
<1>9. Inserted(h \o r, s, i, x)
  BY ONLY <1>7 DEF Inserted
<1> QED BY ONLY <1>7, <1>8, <1>9

\* Removing moves the entries behind the index down by one.
LEMMA RemoveMoves ==
  ASSUME NEW S, NEW s \in Seq(S), NEW i \in 0 .. Len(s) - 1
  PROVE  /\ RemoveAtIndex(s, i) \in Seq(S)
         /\ Removed(RemoveAtIndex(s, i), s, i)
<1> DEFINE n == Len(s)
           l == SubSeq(s, 1, i)
           r == SubSeq(s, i + 2, n)
<1>1. n \in Nat /\ i \in Nat /\ i < n /\ \A k \in 1 .. n : s[k] \in S
  BY LenProperties, ElementOfSeq
<1>2. l \in Seq(S) /\ Len(l) = i /\ \A k \in 1 .. i : l[k] = s[k]
  BY <1>1, SubSeqProperties
<1>3. /\ r \in Seq(S) /\ Len(r) = n - i - 1
      /\ \A k \in 1 .. n - i - 1 : r[k] = s[i + 1 + k]
  BY <1>1, SubSeqProperties
<1>4. RemoveAtIndex(s, i) = l \o r
  <2>1. (i + 1) - 1 = i /\ (i + 1) + 1 = i + 2
    BY <1>1
  <2> QED BY <2>1 DEF RemoveAtIndex, RemoveAt
<1> HIDE DEF l, r
<1>5. /\ l \o r \in Seq(S) /\ Len(l \o r) = n - 1
      /\ \A k \in 1 .. n - 1 : (l \o r)[k] = IF k <= i THEN l[k] ELSE r[k - i]
  <2>1. /\ l \o r \in Seq(S) /\ Len(l \o r) = Len(l) + Len(r)
        /\ \A k \in 1 .. Len(l) + Len(r) :
             (l \o r)[k] = IF k <= Len(l) THEN l[k] ELSE r[k - Len(l)]
    BY ONLY <1>2, <1>3, ConcatProperties
  <2>2. i + (n - i - 1) = n - 1
    BY ONLY <1>1
  <2>3. Len(l) + Len(r) = n - 1 /\ Len(l) = i
    BY ONLY <1>2, <1>3, <2>2
  <2> QED BY ONLY <2>1, <2>3
<1>6. ASSUME NEW k \in 1 .. n - 1, k > i PROVE r[k - i] = s[k + 1]
  <2>1. k - i \in 1 .. n - i - 1 /\ i + 1 + (k - i) = k + 1
    BY <1>1, <1>6
  <2> QED BY <1>3, <2>1
<1>7. Removed(l \o r, s, i)
  BY <1>1, <1>2, <1>5, <1>6 DEF Removed
<1> QED BY <1>4, <1>5, <1>7

\* The entry that is in place k after the one with index i moved to index j.
Moved(i, j, k) ==
  IF k = j + 1 THEN i + 1
  ELSE IF i < k /\ k <= j THEN k + 1
  ELSE IF j + 1 < k /\ k <= i + 1 THEN k - 1
  ELSE k

\* t is s with the entry of index i moved to index j.
Reordered(t, s, i, j) ==
  Len(t) = Len(s) /\ \A k \in 1 .. Len(s) : t[k] = s[Moved(i, j, k)]

\* Moving an entry shifts the ones between its old place and its new one.
LEMMA MoveMoves ==
  ASSUME NEW S, NEW s \in Seq(S),
         NEW i \in 0 .. Len(s) - 1, NEW j \in 0 .. Len(s) - 1
  PROVE  /\ MoveWithin(s, i, j) \in Seq(S)
         /\ Reordered(MoveWithin(s, i, j), s, i, j)
<1>1. Len(s) \in Nat /\ \A k \in 1 .. Len(s) : s[k] \in S
  BY LenProperties, ElementOfSeq
<1>2. CASE i = j
  BY <1>1, <1>2 DEF MoveWithin, Moved, Reordered
<1>3. CASE i # j
  <2>0. RemoveAtIndex(s, i) \in Seq(S)
    BY RemoveMoves
  <2> PICK r \in Seq(S) : r = RemoveAtIndex(s, i)
    BY <2>0
  <2> PICK x \in S : x = s[i + 1]
    BY <1>1
  <2>1. /\ r \in Seq(S) /\ Len(r) = Len(s) - 1
        /\ \A k \in 1 .. Len(s) - 1 : r[k] = IF k <= i THEN s[k] ELSE s[k + 1]
    BY RemoveMoves DEF Removed
  <2>3. /\ InsertAtIndex(r, j, x) \in Seq(S)
        /\ Len(InsertAtIndex(r, j, x)) = Len(r) + 1
        /\ \A k \in 1 .. Len(r) + 1 :
             InsertAtIndex(r, j, x)[k] =
               IF k <= j THEN r[k] ELSE IF k = j + 1 THEN x ELSE r[k - 1]
    <3>1. j \in 0 .. Len(r)
      BY ONLY <1>1, <2>1, j \in 0 .. Len(s) - 1
    <3>2. /\ InsertAtIndex(r, j, x) \in Seq(S)
          /\ Inserted(InsertAtIndex(r, j, x), r, j, x)
      BY <3>1, InsertMoves
    <3> QED BY <3>2 DEF Inserted
  <2>4. MoveWithin(s, i, j) = InsertAtIndex(r, j, x)
    BY <1>3 DEF MoveWithin
  <2>5. ASSUME NEW k \in 1 .. Len(s)
        PROVE  InsertAtIndex(r, j, x)[k] = s[Moved(i, j, k)]
    <3>1. CASE k <= j
      <4>1. k \in 1 .. Len(s) - 1
        BY <1>1, <3>1
      <4>2. InsertAtIndex(r, j, x)[k] = r[k]
        BY <1>1, <2>1, <2>3, <3>1
      <4>3. r[k] = IF k <= i THEN s[k] ELSE s[k + 1]
        BY <2>1, <4>1
      <4>4. Moved(i, j, k) = IF k <= i THEN k ELSE k + 1
        BY <1>1, <1>3, <3>1 DEF Moved
      <4> QED BY <4>2, <4>3, <4>4
    <3>2. CASE k = j + 1
      BY <1>1, <2>1, <2>3, <3>2 DEF Moved
    <3>3. CASE k > j + 1
      <4>1. k - 1 \in 1 .. Len(s) - 1 /\ (k - 1) + 1 = k
        BY <1>1, <3>3
      <4>2. InsertAtIndex(r, j, x)[k] = r[k - 1]
        BY <1>1, <2>1, <2>3, <3>3
      <4>3. r[k - 1] = IF k - 1 <= i THEN s[k - 1] ELSE s[k]
        BY <2>1, <4>1
      <4> QED BY <1>1, <1>3, <3>3, <4>2, <4>3 DEF Moved
    <3> QED BY <1>1, <3>1, <3>2, <3>3
  <2> QED BY <1>1, <2>1, <2>3, <2>4, <2>5 DEF Reordered
<1> QED BY <1>2, <1>3

-----------------------------------------------------------------------------
(* What UpdateScoreDesc does to the scores.                                *)

\* t is r with s behind it.
Joined(t, r, s) ==
  /\ Len(t) = Len(r) + Len(s)
  /\ \A k \in 1 .. Len(r) + Len(s) : t[k] = IF k <= Len(r) THEN r[k] ELSE s[k - Len(r)]

\* Concatenation joins.
LEMMA ConcatJoins ==
  ASSUME NEW S, NEW r \in Seq(S), NEW s \in Seq(S)
  PROVE  r \o s \in Seq(S) /\ Joined(r \o s, r, s)
BY ConcatProperties DEF Joined

\* A part of descending scores.
LEMMA DownPart ==
  ASSUME NEW a, Down(a), NEW m \in 1 .. Len(a) + 1, NEW n \in m - 1 .. Len(a)
  PROVE  /\ Down(SubSeq(a, m, n)) /\ Len(SubSeq(a, m, n)) = n - m + 1
         /\ \A k \in 1 .. n - m + 1 : SubSeq(a, m, n)[k] = a[m + k - 1]
<1> DEFINE p == SubSeq(a, m, n)
<1>1. Len(a) \in Nat /\ m \in Nat /\ n \in Nat /\ \A k \in m .. n : a[k] \in Int
  BY LenProperties, ElementOfSeq DEF Down
<1>2. /\ p \in Seq(Int) /\ Len(p) = n - m + 1
      /\ \A k \in 1 .. n - m + 1 : p[k] = a[m + k - 1]
  BY <1>1, SubSeqProperties
<1> HIDE DEF p
<1>3. ASSUME NEW j \in 1 .. Len(p), NEW k \in 1 .. Len(p), j <= k
      PROVE  p[j] >= p[k]
  <2>1. /\ m + j - 1 \in 1 .. Len(a) /\ m + k - 1 \in 1 .. Len(a)
        /\ m + j - 1 <= m + k - 1
    BY <1>1, <1>2, <1>3
  <2>2. a[m + j - 1] >= a[m + k - 1]
    BY <2>1 DEF Down
  <2> QED BY <1>2, <2>2
<1> QED BY <1>2, <1>3 DEF Down, p

\* The rank is the one place where better scores end and others begin.
LEMMA RankIs ==
  ASSUME NEW a, Down(a), NEW s \in Int, NEW r \in 0 .. Len(a),
         \A k \in 1 .. Len(a) : k <= r <=> a[k] > s
  PROVE  RankOf(a, s) = r
<1> PICK q \in 0 .. Len(a) : q = RankOf(a, s)
  BY RankCounts
<1>1. Len(a) \in Nat /\ \A k \in 1 .. Len(a) : k <= q <=> a[k] > s
  BY RankCounts, LenProperties DEF Down
<1>2. q < r => q + 1 \in 1 .. Len(a)
  BY <1>1
<1>3. r < q => r + 1 \in 1 .. Len(a)
  BY <1>1
<1>4. ~ q < r
  BY <1>1, <1>2
<1>5. ~ r < q
  BY <1>1, <1>3
<1> QED BY <1>1, <1>4, <1>5

\* And the next rank where the ties of a score end.
LEMMA NextRankIs ==
  ASSUME NEW a, Down(a), NEW s \in Int, NEW r \in 0 .. Len(a),
         \A k \in 1 .. Len(a) : k <= r <=> a[k] >= s
  PROVE  NextRankOf(a, s) = r
<1> PICK q \in 0 .. Len(a) : q = NextRankOf(a, s)
  BY NextRankCounts
<1>1. Len(a) \in Nat /\ \A k \in 1 .. Len(a) : k <= q <=> a[k] >= s
  BY NextRankCounts, LenProperties DEF Down
<1>2. q < r => q + 1 \in 1 .. Len(a)
  BY <1>1
<1>3. r < q => r + 1 \in 1 .. Len(a)
  BY <1>1
<1>4. ~ q < r
  BY <1>1, <1>2
<1>5. ~ r < q
  BY <1>1, <1>3
<1> QED BY <1>1, <1>4, <1>5

\* t is a with the score of index i changed to new and moved to index j, the
\* rank of new, which c entries have.
Updated(t, a, i, j, c, new) ==
  /\ Down(t) /\ Len(t) = Len(a) /\ j \in 0 .. Len(a) - 1
  /\ \A k \in 1 .. Len(a) : t[k] = IF k = j + 1 THEN new ELSE a[Moved(i, j, k)]
  /\ RankOf(t, new) = j /\ TieCountOf(t, new) = c

\* InsertNewScoreDesc keeps the scores in order, with the new one at its rank.
LEMMA InsertKeepsDown ==
  ASSUME NEW a, Down(a), NEW s \in Int
  PROVE  /\ Down(InsertNewScoreDesc(a, s))
         /\ Inserted(InsertNewScoreDesc(a, s), a, RankOf(a, s), s)
         /\ RankOf(InsertNewScoreDesc(a, s), s) = RankOf(a, s)
         /\ NextRankOf(InsertNewScoreDesc(a, s), s) = NextRankOf(a, s) + 1
<1>1. /\ RankOf(a, s) \in 0 .. Len(a) /\ NextRankOf(a, s) \in 0 .. Len(a)
      /\ \A k \in 1 .. Len(a) :
           (k <= RankOf(a, s) <=> a[k] > s) /\ (k <= NextRankOf(a, s) <=> a[k] >= s)
  BY RankCounts, NextRankCounts
<1>2. /\ Len(a) \in Nat /\ a \in Seq(Int) /\ \A k \in 1 .. Len(a) : a[k] \in Int
      /\ \A j, k \in 1 .. Len(a) : j <= k => a[j] >= a[k]
  BY LenProperties, ElementOfSeq DEF Down
<1>3. /\ InsertNewScoreDesc(a, s) \in Seq(Int)
      /\ Inserted(InsertNewScoreDesc(a, s), a, RankOf(a, s), s)
  BY <1>1, <1>2, InsertMoves DEF InsertNewScoreDesc
<1> SUFFICES ASSUME NEW t \in Seq(Int), NEW r \in 0 .. Len(a), NEW q \in 0 .. Len(a),
                    Len(t) = Len(a) + 1,
                    \A k \in 1 .. Len(a) + 1 :
                      t[k] = IF k <= r THEN a[k] ELSE IF k = r + 1 THEN s ELSE a[k - 1],
                    \A k \in 1 .. Len(a) :
                      (k <= r <=> a[k] > s) /\ (k <= q <=> a[k] >= s)
             PROVE  Down(t) /\ RankOf(t, s) = r /\ NextRankOf(t, s) = q + 1
  BY <1>1, <1>3 DEF Inserted
<1>4. /\ \A k \in 1 .. r : k \in 1 .. Len(a) /\ t[k] = a[k] /\ a[k] > s
      /\ t[r + 1] = s
      /\ \A k \in r + 2 .. Len(a) + 1 :
           k - 1 \in 1 .. Len(a) /\ t[k] = a[k - 1] /\ a[k - 1] <= s
  <2>1. ASSUME NEW k \in 1 .. r
        PROVE  k \in 1 .. Len(a) /\ t[k] = a[k] /\ a[k] > s
    <3>1. k \in 1 .. Len(a) /\ k \in 1 .. Len(a) + 1 /\ k <= r
      BY <1>2
    <3> QED BY <3>1
  <2>2. t[r + 1] = s
    <3>1. r + 1 \in 1 .. Len(a) + 1 /\ ~ r + 1 <= r
      BY <1>2
    <3> QED BY <3>1
  <2>3. ASSUME NEW k \in r + 2 .. Len(a) + 1
        PROVE  k - 1 \in 1 .. Len(a) /\ t[k] = a[k - 1] /\ a[k - 1] <= s
    <3>1. /\ k - 1 \in 1 .. Len(a) /\ k \in 1 .. Len(a) + 1
          /\ ~ k <= r /\ k # r + 1 /\ ~ k - 1 <= r
      BY <1>2
    <3>2. t[k] = a[k - 1]
      BY <3>1
    <3>3. a[k - 1] \in Int /\ ~ a[k - 1] > s
      BY <1>2, <3>1
    <3> QED BY <3>1, <3>2, <3>3
  <2> QED BY <2>1, <2>2, <2>3
<1>5. r <= q
  <2>1. q < r => q + 1 \in 1 .. Len(a) /\ q + 1 <= r /\ ~ q + 1 <= q
    BY <1>2
  <2>2. q + 1 \in 1 .. Len(a) => a[q + 1] \in Int
    BY <1>2
  <2> QED BY <2>1, <2>2
<1>6. ASSUME NEW k \in 1 .. Len(a) + 1
      PROVE  (k <= r <=> t[k] > s) /\ (k <= q + 1 <=> t[k] >= s)
  <2>1. CASE k <= r
    <3>1. k \in 1 .. Len(a) /\ t[k] = a[k] /\ a[k] > s /\ a[k] \in Int
      BY <1>2, <1>4, <2>1, SMTT(30)
    <3> QED BY <1>5, <2>1, <3>1
  <2>2. CASE k = r + 1
    BY <1>4, <1>5, <2>2
  <2>3. CASE k > r + 1
    <3>1. k - 1 \in 1 .. Len(a) /\ t[k] = a[k - 1] /\ a[k - 1] <= s
      BY <1>2, <1>4, <2>3, SMTT(30)
    <3>2. k - 1 <= q <=> a[k - 1] >= s
      BY <3>1
    <3> QED BY <1>2, <2>3, <3>1, <3>2
  <2> QED BY <2>1, <2>2, <2>3
<1>7. ASSUME NEW j \in 1 .. Len(t), NEW k \in 1 .. Len(t), j <= k
      PROVE  t[j] >= t[k]
  <2>1. /\ t[j] \in Int /\ t[k] \in Int
        /\ j \in 1 .. Len(a) + 1 /\ k \in 1 .. Len(a) + 1
    BY ElementOfSeq
  <2>2. CASE k <= r
    <3>1. j \in 1 .. r /\ k \in 1 .. r
      BY <1>7, <2>1, <2>2
    <3> QED BY <1>2, <1>4, <1>7, <3>1
  <2>3. CASE j > r + 1
    <3>1. j \in r + 2 .. Len(a) + 1 /\ k \in r + 2 .. Len(a) + 1 /\ j - 1 <= k - 1
      BY <1>2, <1>7, <2>1, <2>3
    <3>2. /\ t[j] = a[j - 1] /\ t[k] = a[k - 1]
          /\ j - 1 \in 1 .. Len(a) /\ k - 1 \in 1 .. Len(a)
      BY <1>4, <3>1
    <3> QED BY <1>2, <3>1, <3>2
  <2>4. CASE j <= r + 1 /\ k > r
    <3>1. t[j] >= s
      <4>1. CASE j = r + 1
        BY <1>4, <4>1
      <4>2. CASE j <= r
        <5>1. j \in 1 .. r /\ j \in 1 .. Len(a)
          BY <1>2, <2>1, <4>2
        <5>2. t[j] = a[j] /\ a[j] > s /\ a[j] \in Int
          BY <1>2, <1>4, <5>1
        <5> QED BY <5>2
      <4> QED BY <2>1, <2>4, <4>1, <4>2
    <3>2. ~ t[k] > s
      BY <1>6, <2>1, <2>4
    <3> QED BY <2>1, <3>1, <3>2
  <2> QED BY <1>2, <2>1, <2>2, <2>3, <2>4
<1>8. Down(t)
  BY <1>7 DEF Down
<1>9. RankOf(t, s) = r
  <2>1. r \in 0 .. Len(t) /\ \A k \in 1 .. Len(t) : k <= r <=> t[k] > s
    BY <1>2, <1>6
  <2> QED BY <1>8, <2>1, RankIs
<1>10. NextRankOf(t, s) = q + 1
  <2>1. q + 1 \in 0 .. Len(t) /\ \A k \in 1 .. Len(t) : k <= q + 1 <=> t[k] >= s
    BY <1>2, <1>6
  <2> QED BY <1>8, <2>1, NextRankIs
<1> QED BY <1>8, <1>9, <1>10

\* Scores that descend before and behind the place of s, and from there on.
LEMMA SplitDown ==
  ASSUME NEW t \in Seq(Int), NEW s \in Int, NEW j \in 0 .. Len(t) - 1,
         NEW e \in j + 1 .. Len(t), t[j + 1] = s,
         \A k \in 1 .. j : t[k] > s,
         \A k \in j + 2 .. Len(t) : t[k] <= s /\ (k <= e <=> t[k] >= s),
         \A k, l \in 1 .. j : k <= l => t[k] >= t[l],
         \A k, l \in j + 2 .. Len(t) : k <= l => t[k] >= t[l]
  PROVE  Down(t) /\ RankOf(t, s) = j /\ NextRankOf(t, s) = e
<1>1. Len(t) \in Nat /\ \A k \in 1 .. Len(t) : t[k] \in Int
  BY LenProperties, ElementOfSeq
<1>2. ASSUME NEW k \in 1 .. Len(t)
      PROVE  /\ k <= j => t[k] > s /\ t[k] >= s
             /\ k > j => t[k] <= s
             /\ k <= e <=> t[k] >= s
  <2>0. t[k] \in Int
    BY <1>1
  <2>1. CASE k \in 1 .. j
    BY <1>1, <2>0, <2>1
  <2>2. CASE k = j + 1
    BY <1>1, <2>2
  <2>3. CASE k \in j + 2 .. Len(t)
    BY <1>1, <2>0, <2>3
  <2> QED BY <1>1, <2>1, <2>2, <2>3
<1>3. ASSUME NEW k \in 1 .. Len(t), NEW l \in 1 .. Len(t), k <= l
      PROVE  t[k] >= t[l]
  <2>0. t[k] \in Int /\ t[l] \in Int
    BY <1>1
  <2>1. CASE k \in 1 .. j /\ l \in 1 .. j
    BY <1>3, <2>1
  <2>2. CASE k \in j + 2 .. Len(t) /\ l \in j + 2 .. Len(t)
    BY <1>3, <2>2
  <2>3. CASE k <= j + 1 /\ l > j
    <3>1. t[k] >= s
      BY <1>2, <2>3
    <3>2. t[l] <= s
      BY <1>2, <2>3
    <3> QED BY <2>0, <3>1, <3>2
  <2> QED BY <1>1, <1>3, <2>1, <2>2, <2>3
<1>4. Down(t)
  BY <1>3 DEF Down
<1>5. RankOf(t, s) = j
  <2>1. \A k \in 1 .. Len(t) : k <= j <=> t[k] > s
    BY <1>1, <1>2
  <2>2. j \in 0 .. Len(t)
    BY <1>1
  <2> QED BY <1>4, <2>1, <2>2, RankIs
<1>6. NextRankOf(t, s) = e
  <2>1. e \in 0 .. Len(t) /\ \A k \in 1 .. Len(t) : k <= e <=> t[k] >= s
    BY <1>1, <1>2
  <2> QED BY <1>4, <2>1, NextRankIs
<1> QED BY <1>4, <1>5, <1>6

\* For arrays a and t of n scores: new has index j in t, its ties go up to
\* place e, and the rest of t is a without the entry of index i.
Fits(t, a, n, i, j, e, new) ==
  /\ t[j + 1] = new
  /\ \A k \in 1 .. j : t[k] > new
  /\ \A k \in j + 2 .. n : t[k] <= new /\ (k <= e <=> t[k] >= new)
  /\ \A k, l \in 1 .. j : k <= l => t[k] >= t[l]
  /\ \A k, l \in j + 2 .. n : k <= l => t[k] >= t[l]
  /\ \A k \in 1 .. n : k # j + 1 => t[k] = a[Moved(i, j, k)]

\* The first n scores descend.
Sorted(a, n) == \A j, k \in 1 .. n : j <= k => a[j] >= a[k]

\* Scores that fit are what an update is to make of them.
LEMMA FitsUpdated ==
  ASSUME NEW a \in Seq(Int), NEW t \in Seq(Int), Len(t) = Len(a), NEW new \in Int,
         NEW i \in 0 .. Len(a) - 1, NEW j \in 0 .. Len(a) - 1,
         NEW e \in j + 1 .. Len(a), Fits(t, a, Len(a), i, j, e, new)
  PROVE  Updated(t, a, i, j, e - j, new)
<1>1. Down(t) /\ RankOf(t, new) = j /\ NextRankOf(t, new) = e
  <2>1. /\ t[j + 1] = new
        /\ \A k \in 1 .. j : t[k] > new
        /\ \A k \in j + 2 .. Len(t) : t[k] <= new /\ (k <= e <=> t[k] >= new)
        /\ \A k, l \in 1 .. j : k <= l => t[k] >= t[l]
        /\ \A k, l \in j + 2 .. Len(t) : k <= l => t[k] >= t[l]
    BY DEF Fits
  <2>2. j \in 0 .. Len(t) - 1 /\ e \in j + 1 .. Len(t)
    OBVIOUS
  <2> QED BY ONLY <2>1, <2>2, SplitDown, t \in Seq(Int), new \in Int
<1>2. \A k \in 1 .. Len(a) : t[k] = IF k = j + 1 THEN new ELSE a[Moved(i, j, k)]
  BY DEF Fits
<1> QED BY <1>1, <1>2 DEF Updated, TieCountOf

\* A score that falls from among ties that end at place l: the scores up to
\* place j + 1 that are still better move up over one of the ties.
LEMMA LowerFits ==
  ASSUME NEW n \in Nat, NEW a \in [1 .. n -> Int], Sorted(a, n), NEW t,
         NEW old \in Int, NEW new \in Int, old > new,
         NEW l \in 1 .. n, NEW i \in 0 .. l - 1, a[i + 1] = old,
         NEW j \in l - 1 .. n - 1, NEW e \in j + 1 .. n,
         \A k \in 1 .. l : a[k] >= old,
         \A k \in l + 1 .. n : (k <= j + 1 <=> a[k] > new) /\ (k <= e <=> a[k] >= new),
         \A k \in 1 .. l - 1 : t[k] = a[k],
         \A k \in l .. j : t[k] = a[k + 1],
         t[j + 1] = new,
         \A k \in j + 2 .. n : t[k] = a[k]
  PROVE  Fits(t, a, n, i, j, e, new)
<1>1. ASSUME NEW k \in 1 .. j
      PROVE  \E x \in 1 .. n : /\ t[k] = a[x] /\ a[x] > new
                               /\ x = IF k < l THEN k ELSE k + 1
  <2>1. CASE k < l
    <3>1. k \in 1 .. l - 1 /\ k \in 1 .. l /\ k \in 1 .. n
      BY <2>1
    <3>2. t[k] = a[k] /\ a[k] >= old /\ a[k] \in Int
      BY <3>1
    <3> QED BY <2>1, <3>1, <3>2
  <2>2. CASE k >= l
    <3>1. k \in l .. j /\ k + 1 \in l + 1 .. n /\ k + 1 \in 1 .. n /\ k + 1 <= j + 1
          /\ ~ k < l
      BY <2>2
    <3>2. t[k] = a[k + 1] /\ a[k + 1] > new
      BY <3>1
    <3> QED BY <3>1, <3>2
  <2> QED BY <2>1, <2>2
<1>2. ASSUME NEW k \in j + 2 .. n
      PROVE  k \in 1 .. n /\ t[k] = a[k] /\ a[k] <= new /\ (k <= e <=> t[k] >= new)
  <2>1. k \in l + 1 .. n /\ k \in 1 .. n /\ ~ k <= j + 1
    OBVIOUS
  <2>2. t[k] = a[k] /\ a[k] \in Int /\ ~ a[k] > new /\ (k <= e <=> a[k] >= new)
    BY <2>1
  <2> QED BY <2>1, <2>2
<1>3. ASSUME NEW k \in 1 .. j, NEW m \in 1 .. j, k <= m PROVE t[k] >= t[m]
  <2>1. PICK x \in 1 .. n : t[k] = a[x] /\ x = IF k < l THEN k ELSE k + 1
    BY <1>1
  <2>2. PICK y \in 1 .. n : t[m] = a[y] /\ y = IF m < l THEN m ELSE m + 1
    BY <1>1
  <2>3. x <= y
    BY <1>3, <2>1, <2>2
  <2> QED BY <2>1, <2>2, <2>3 DEF Sorted
<1>4. ASSUME NEW k \in j + 2 .. n, NEW m \in j + 2 .. n, k <= m PROVE t[k] >= t[m]
  BY <1>2, <1>4 DEF Sorted
<1>5. ASSUME NEW k \in 1 .. n, k # j + 1 PROVE t[k] = a[Moved(i, j, k)]
  <2>1. CASE k <= i
    <3>1. k \in 1 .. l - 1 /\ Moved(i, j, k) = k
      BY <2>1 DEF Moved
    <3> QED BY <3>1
  <2>2. CASE i < k /\ k < l
    <3>1. /\ k \in 1 .. l - 1 /\ k \in 1 .. l /\ k + 1 \in 1 .. l
          /\ i + 1 \in 1 .. n /\ k \in 1 .. n /\ k + 1 \in 1 .. n
          /\ i + 1 <= k /\ i + 1 <= k + 1
      BY <2>2
    <3>2. /\ a[k] \in Int /\ a[k + 1] \in Int
          /\ a[k] >= old /\ a[k + 1] >= old
      BY <3>1
    <3>3. a[i + 1] >= a[k] /\ a[i + 1] >= a[k + 1]
      BY <3>1 DEF Sorted
    <3>4. a[k] = a[k + 1]
      BY <3>2, <3>3
    <3>5. Moved(i, j, k) = k + 1
      BY <2>2 DEF Moved
    <3> QED BY <3>1, <3>4, <3>5
  <2>3. CASE l <= k /\ k <= j
    <3>1. k \in l .. j /\ Moved(i, j, k) = k + 1
      BY <2>3 DEF Moved
    <3> QED BY <3>1
  <2>4. CASE k > j + 1
    <3>1. k \in j + 2 .. n /\ Moved(i, j, k) = k
      BY <2>4 DEF Moved
    <3> QED BY <3>1
  <2> QED BY <1>5, <2>1, <2>2, <2>3, <2>4
<1> QED BY <1>1, <1>2, <1>3, <1>4, <1>5 DEF Fits

\* A score that rises from among ties that begin behind place l: the scores
\* from place j + 1 to place l move down over one of the ties.
LEMMA HigherFits ==
  ASSUME NEW n \in Nat, NEW a \in [1 .. n -> Int], Sorted(a, n), NEW t,
         NEW old \in Int, NEW new \in Int, old < new,
         NEW l \in 0 .. n - 1, NEW i \in l .. n - 1, a[i + 1] = old,
         NEW j \in 0 .. l, NEW e \in j + 1 .. l + 1,
         \A k \in l + 1 .. n : a[k] <= old,
         \A k \in 1 .. l : (k <= j <=> a[k] > new) /\ (k <= e - 1 <=> a[k] >= new),
         \A k \in 1 .. j : t[k] = a[k],
         t[j + 1] = new,
         \A k \in j + 2 .. l + 1 : t[k] = a[k - 1],
         \A k \in l + 2 .. n : t[k] = a[k]
  PROVE  Fits(t, a, n, i, j, e, new)
<1>1. ASSUME NEW k \in 1 .. j PROVE k \in 1 .. n /\ t[k] = a[k] /\ a[k] > new
  <2>1. k \in 1 .. n /\ k \in 1 .. l
    OBVIOUS
  <2> QED BY <2>1
<1>2. ASSUME NEW k \in j + 2 .. n
      PROVE  /\ \E x \in 1 .. n : t[k] = a[x] /\ x = IF k <= l + 1 THEN k - 1 ELSE k
             /\ t[k] <= new /\ (k <= e <=> t[k] >= new)
  <2>1. CASE k <= l + 1
    <3>1. k \in j + 2 .. l + 1 /\ k - 1 \in 1 .. l /\ k - 1 \in 1 .. n /\ ~ k - 1 <= j
          /\ (k <= e <=> k - 1 <= e - 1)
      BY <2>1
    <3>2. t[k] = a[k - 1] /\ a[k - 1] \in Int /\ ~ a[k - 1] > new
          /\ (k - 1 <= e - 1 <=> a[k - 1] >= new)
      BY <3>1
    <3> QED BY <2>1, <3>1, <3>2
  <2>2. CASE k > l + 1
    <3>1. k \in l + 2 .. n /\ k \in l + 1 .. n /\ k \in 1 .. n /\ ~ k <= l + 1 /\ ~ k <= e
      BY <2>2
    <3>2. t[k] = a[k] /\ a[k] \in Int /\ a[k] <= old
      BY <3>1
    <3> QED BY <3>1, <3>2
  <2> QED BY <2>1, <2>2
<1>3. ASSUME NEW k \in 1 .. j, NEW m \in 1 .. j, k <= m PROVE t[k] >= t[m]
  BY <1>1, <1>3 DEF Sorted
<1>4. ASSUME NEW k \in j + 2 .. n, NEW m \in j + 2 .. n, k <= m PROVE t[k] >= t[m]
  <2>1. PICK x \in 1 .. n : t[k] = a[x] /\ x = IF k <= l + 1 THEN k - 1 ELSE k
    BY <1>2
  <2>2. PICK y \in 1 .. n : t[m] = a[y] /\ y = IF m <= l + 1 THEN m - 1 ELSE m
    BY <1>2
  <2>3. x <= y
    BY <1>4, <2>1, <2>2
  <2> QED BY <2>1, <2>2, <2>3 DEF Sorted
<1>5. ASSUME NEW k \in 1 .. n, k # j + 1 PROVE t[k] = a[Moved(i, j, k)]
  <2>1. CASE k <= j
    <3>1. k \in 1 .. j /\ Moved(i, j, k) = k
      BY <2>1 DEF Moved
    <3> QED BY <3>1
  <2>2. CASE j + 1 < k /\ k <= l + 1
    <3>1. k \in j + 2 .. l + 1 /\ Moved(i, j, k) = k - 1
      BY <2>2 DEF Moved
    <3> QED BY <3>1
  <2>3. CASE l + 1 < k /\ k <= i + 1
    <3>1. /\ k \in l + 2 .. n /\ k \in l + 1 .. n /\ k - 1 \in l + 1 .. n
          /\ i + 1 \in 1 .. n /\ k \in 1 .. n /\ k - 1 \in 1 .. n
          /\ k <= i + 1 /\ k - 1 <= i + 1
      BY <2>3
    <3>2. /\ a[k] \in Int /\ a[k - 1] \in Int
          /\ a[k] <= old /\ a[k - 1] <= old
      BY <3>1
    <3>3. a[k] >= a[i + 1] /\ a[k - 1] >= a[i + 1]
      BY <3>1 DEF Sorted
    <3>4. a[k] = a[k - 1]
      BY <3>2, <3>3
    <3>5. Moved(i, j, k) = k - 1
      BY <2>3 DEF Moved
    <3> QED BY <3>1, <3>4, <3>5
  <2>4. CASE k > i + 1
    <3>1. k \in l + 2 .. n /\ Moved(i, j, k) = k
      BY <2>4 DEF Moved
    <3> QED BY <3>1
  <2> QED BY <1>5, <2>1, <2>2, <2>3, <2>4
<1> QED BY <1>1, <1>2, <1>3, <1>4, <1>5 DEF Fits

\* A lower score goes behind the last of its old ties, to its rank among the
\* scores there.
LEMMA UpdateLower ==
  ASSUME NEW a, Down(a), NEW old \in Int, NEW new \in Int, old > new,
         NEW i \in 0 .. Len(a) - 1, a[i + 1] = old
  PROVE  /\ UpdateScoreDesc(a, old, new) \in Seq(Int)
         /\ UpdatedRank(a, old, new) \in Nat
         /\ Updated(UpdateScoreDesc(a, old, new), a, i, UpdatedRank(a, old, new),
                    UpdatedTieCount(a, old, new), new)
<1> PICK n \in Nat : n = Len(a)
  BY LenProperties DEF Down
<1>1. a \in Seq(Int) /\ a \in [1 .. n -> Int] /\ Sorted(a, n)
  BY LenProperties DEF Down, Sorted
<1> PICK l \in 0 .. n : l = NextRankOf(a, old)
  BY NextRankCounts
<1>2. \A k \in 1 .. n : k <= l <=> a[k] >= old
  BY NextRankCounts
<1>3. l \in 1 .. n /\ i \in 0 .. l - 1
  <2>1. i + 1 \in 1 .. n /\ a[i + 1] >= old
    OBVIOUS
  <2>2. i + 1 <= l
    BY <1>2, <2>1
  <2> QED BY ONLY <2>1, <2>2, n \in Nat, i \in 0 .. Len(a) - 1, n = Len(a), l \in 0 .. n
<1>4. /\ Down(SubSeq(a, l + 1, n)) /\ Len(SubSeq(a, l + 1, n)) = n - l
      /\ \A k \in 1 .. n - l : SubSeq(a, l + 1, n)[k] = a[l + k]
  <2> PICK m \in Nat : m = l + 1
    BY ONLY l \in 0 .. n, n \in Nat
  <2>1. m \in 1 .. Len(a) + 1 /\ n \in m - 1 .. Len(a)
    BY ONLY n \in Nat, n = Len(a), l \in 0 .. n, m = l + 1
  <2>2. /\ Down(SubSeq(a, m, n)) /\ Len(SubSeq(a, m, n)) = n - m + 1
        /\ \A k \in 1 .. n - m + 1 : SubSeq(a, m, n)[k] = a[m + k - 1]
    BY ONLY <2>1, DownPart, Down(a)
  <2>3. /\ Down(SubSeq(a, l + 1, n)) /\ Len(SubSeq(a, l + 1, n)) = n - (l + 1) + 1
        /\ \A k \in 1 .. n - (l + 1) + 1 : SubSeq(a, l + 1, n)[k] = a[(l + 1) + k - 1]
    BY ONLY <2>2, m = l + 1
  <2>4. n - (l + 1) + 1 = n - l /\ \A k \in 1 .. n - l : (l + 1) + k - 1 = l + k
    BY ONLY n \in Nat, l \in 0 .. n
  <2>5. ASSUME NEW k \in 1 .. n - l PROVE SubSeq(a, l + 1, n)[k] = a[l + k]
    <3>1. SubSeq(a, l + 1, n)[k] = a[(l + 1) + k - 1]
      BY ONLY <2>3, <2>4, k \in 1 .. n - l
    <3>2. (l + 1) + k - 1 = l + k
      BY ONLY n \in Nat, l \in 0 .. n, k \in 1 .. n - l
    <3> QED BY ONLY <3>1, <3>2
  <2> QED BY ONLY <2>3, <2>4, <2>5
<1> PICK tail : tail = SubSeq(a, l + 1, n)
  OBVIOUS
<1>5. /\ Down(tail) /\ Len(tail) = n - l /\ \A k \in 1 .. n - l : tail[k] = a[l + k]
  BY <1>4
<1> PICK m \in 0 .. n - l : m = RankOf(tail, new)
  BY <1>5, RankCounts
<1> PICK q \in 0 .. n - l : q = NextRankOf(tail, new)
  BY <1>5, NextRankCounts
<1> PICK ins : ins = InsertNewScoreDesc(tail, new)
  OBVIOUS
<1>6. /\ \A k \in 1 .. n - l :
           /\ k <= m <=> a[l + k] > new
           /\ k <= q <=> a[l + k] >= new
      /\ ins \in Seq(Int) /\ Len(ins) = n - l + 1
      /\ \A k \in 1 .. n - l + 1 :
           ins[k] = IF k <= m THEN tail[k] ELSE IF k = m + 1 THEN new ELSE tail[k - 1]
  <2>1. \A k \in 1 .. Len(tail) : k <= m <=> tail[k] > new
    BY ONLY <1>5, RankCounts, m = RankOf(tail, new), new \in Int
  <2>2. \A k \in 1 .. Len(tail) : k <= q <=> tail[k] >= new
    BY ONLY <1>5, NextRankCounts, q = NextRankOf(tail, new), new \in Int
  <2>3. Down(ins) /\ Inserted(ins, tail, m, new)
    BY ONLY <1>5, InsertKeepsDown, m = RankOf(tail, new), new \in Int,
            ins = InsertNewScoreDesc(tail, new)
  <2>4. /\ ins \in Seq(Int) /\ Len(ins) = n - l + 1
        /\ \A k \in 1 .. n - l + 1 :
             ins[k] = IF k <= m THEN tail[k] ELSE IF k = m + 1 THEN new ELSE tail[k - 1]
    BY ONLY <1>5, <2>3 DEF Down, Inserted
  <2> QED BY ONLY <1>5, <2>1, <2>2, <2>4
<1> PICK head : head = SubSeq(a, 1, l - 1)
  OBVIOUS
<1>7. /\ head \in Seq(Int) /\ Len(head) = l - 1
      /\ \A k \in 1 .. l - 1 : head[k] = a[k]
  <2>1. /\ 1 \in 1 .. Len(a) + 1 /\ l - 1 \in 1 - 1 .. Len(a)
        /\ (l - 1) - 1 + 1 = l - 1 /\ \A k \in 1 .. l - 1 : 1 + k - 1 = k
    BY ONLY <1>3, n \in Nat, n = Len(a)
  <2>2. /\ Down(SubSeq(a, 1, l - 1)) /\ Len(SubSeq(a, 1, l - 1)) = (l - 1) - 1 + 1
        /\ \A k \in 1 .. (l - 1) - 1 + 1 : SubSeq(a, 1, l - 1)[k] = a[1 + k - 1]
    BY ONLY <2>1, DownPart, Down(a)
  <2> QED BY ONLY <2>1, <2>2, head = SubSeq(a, 1, l - 1) DEF Down
<1>8. /\ UpdateScoreDesc(a, old, new) = head \o ins
      /\ UpdatedRank(a, old, new) = l - 1 + m
      /\ UpdatedTieCount(a, old, new) = 1 + (q - m)
  BY DEF UpdateScoreDesc, UpdatedRank, UpdatedTieCount, TieCountOf
<1> SUFFICES ASSUME NEW t, t = head \o ins
             PROVE  t \in Seq(Int) /\ l - 1 + m \in Nat
                    /\ Updated(t, a, i, l - 1 + m, 1 + (q - m), new)
  BY <1>8
<1>9. t \in Seq(Int) /\ Len(t) = n
      /\ \A k \in 1 .. n : t[k] = IF k <= l - 1 THEN head[k] ELSE ins[k - (l - 1)]
  <2>1. t \in Seq(Int) /\ Joined(t, head, ins)
    BY ONLY <1>6, <1>7, ConcatJoins, t = head \o ins
  <2>2. (l - 1) + (n - l + 1) = n
    BY ONLY <1>3, n \in Nat
  <2> QED BY ONLY <1>6, <1>7, <2>1, <2>2 DEF Joined
<1>10. /\ \A k \in 1 .. l - 1 : t[k] = a[k]
       /\ \A k \in l .. l - 1 + m : t[k] = a[k + 1]
       /\ t[l + m] = new
       /\ \A k \in l + m + 1 .. n : t[k] = a[k]
  <2>1. ASSUME NEW k \in 1 .. l - 1 PROVE t[k] = a[k]
    <3>1. k \in 1 .. n /\ k <= l - 1
      BY ONLY <1>3, n \in Nat, k \in 1 .. l - 1
    <3> QED BY <1>7, <1>9, <3>1
  <2>2. ASSUME NEW k \in l .. l - 1 + m PROVE t[k] = a[k + 1]
    <3>1. /\ k \in 1 .. n /\ ~ k <= l - 1
          /\ k - (l - 1) \in 1 .. n - l + 1 /\ k - (l - 1) <= m
          /\ k - (l - 1) \in 1 .. n - l /\ l + (k - (l - 1)) = k + 1
      BY ONLY <1>3, n \in Nat, m \in 0 .. n - l, k \in l .. l - 1 + m
    <3>2. t[k] = ins[k - (l - 1)]
      BY ONLY <1>9, <3>1
    <3>3. ins[k - (l - 1)] = tail[k - (l - 1)]
      BY ONLY <1>6, <3>1
    <3> QED BY ONLY <1>5, <3>1, <3>2, <3>3
  <2>3. t[l + m] = new
    <3>1. /\ l + m \in 1 .. n /\ ~ l + m <= l - 1
          /\ (l + m) - (l - 1) = m + 1 /\ m + 1 \in 1 .. n - l + 1 /\ ~ m + 1 <= m
      BY ONLY <1>3, n \in Nat, m \in 0 .. n - l
    <3> QED BY ONLY <1>6, <1>9, <3>1
  <2>4. ASSUME NEW k \in l + m + 1 .. n PROVE t[k] = a[k]
    <3>1. /\ k \in 1 .. n /\ ~ k <= l - 1
          /\ k - (l - 1) \in 1 .. n - l + 1
          /\ ~ k - (l - 1) <= m /\ k - (l - 1) # m + 1
          /\ (k - (l - 1)) - 1 = k - l /\ k - l \in 1 .. n - l /\ l + (k - l) = k
      BY ONLY <1>3, n \in Nat, m \in 0 .. n - l, k \in l + m + 1 .. n
    <3>2. t[k] = ins[k - (l - 1)]
      BY ONLY <1>9, <3>1
    <3>3. ins[k - (l - 1)] = tail[k - l]
      BY ONLY <1>6, <3>1
    <3> QED BY ONLY <1>5, <3>1, <3>2, <3>3
  <2> QED BY <2>1, <2>2, <2>3, <2>4
<1>11. ASSUME NEW k \in l + 1 .. n
       PROVE  (k <= l + m <=> a[k] > new) /\ (k <= l + q <=> a[k] >= new)
  <2>1. /\ k - l \in 1 .. n - l /\ l + (k - l) = k
        /\ k <= l + m <=> k - l <= m
        /\ k <= l + q <=> k - l <= q
    BY ONLY <1>3, n \in Nat, m \in 0 .. n - l, q \in 0 .. n - l, k \in l + 1 .. n
  <2> QED BY <1>6, <2>1
<1>12. m <= q
  <2>1. q < m => /\ l + q + 1 \in l + 1 .. n /\ l + q + 1 \in 1 .. n
                 /\ l + q + 1 <= l + m /\ ~ l + q + 1 <= l + q
    BY ONLY <1>3, n \in Nat, m \in 0 .. n - l, q \in 0 .. n - l
  <2>2. l + q + 1 \in 1 .. n => a[l + q + 1] \in Int
    BY <1>1
  <2>3. ~ q < m
    BY ONLY <1>11, <2>1, <2>2, new \in Int
  <2> QED BY ONLY <2>3, n \in Nat, <1>3, m \in 0 .. n - l, q \in 0 .. n - l
<1> PICK j \in l - 1 .. n - 1 : j = l - 1 + m
  BY ONLY <1>3, n \in Nat, m \in 0 .. n - l
<1> PICK e \in j + 1 .. n : e = l + q
  BY ONLY <1>3, <1>12, n \in Nat, m \in 0 .. n - l, q \in 0 .. n - l,
          j \in l - 1 .. n - 1, j = l - 1 + m
<1>13. /\ j + 1 = l + m /\ j + 2 = l + m + 1 /\ e - j = 1 + (q - m)
       /\ j \in Nat /\ j \in 0 .. n - 1
  BY ONLY <1>3, n \in Nat, m \in 0 .. n - l, q \in 0 .. n - l,
          j = l - 1 + m, e = l + q
<1>14. Fits(t, a, n, i, j, e, new)
  <2>1. /\ \A k \in 1 .. l : a[k] >= old
        /\ \A k \in l + 1 .. n : (k <= j + 1 <=> a[k] > new) /\ (k <= e <=> a[k] >= new)
    <3>1. ASSUME NEW k \in 1 .. l PROVE a[k] >= old
      <4>1. k \in 1 .. n /\ k <= l
        BY ONLY <1>3, n \in Nat, k \in 1 .. l
      <4> QED BY <1>2, <4>1
    <3> QED BY ONLY <1>11, <1>13, <3>1, e = l + q
  <2>2. /\ \A k \in 1 .. l - 1 : t[k] = a[k]
        /\ \A k \in l .. j : t[k] = a[k + 1]
        /\ t[j + 1] = new
        /\ \A k \in j + 2 .. n : t[k] = a[k]
    BY ONLY <1>10, <1>13, j = l - 1 + m
  <2> QED BY ONLY <1>1, <1>3, <2>1, <2>2, LowerFits, n \in Nat, old \in Int, new \in Int,
                  old > new, a[i + 1] = old, j \in l - 1 .. n - 1, e \in j + 1 .. n
<1>15. Updated(t, a, i, j, e - j, new)
  BY ONLY <1>1, <1>9, <1>13, <1>14, FitsUpdated, n = Len(a), new \in Int,
          i \in 0 .. Len(a) - 1, e \in j + 1 .. n
<1> QED BY ONLY <1>9, <1>13, <1>15, j = l - 1 + m

\* A higher score goes before the first of its old ties, to its rank among the
\* scores there.
LEMMA UpdateHigher ==
  ASSUME NEW a, Down(a), NEW old \in Int, NEW new \in Int, old < new,
         NEW i \in 0 .. Len(a) - 1, a[i + 1] = old
  PROVE  /\ UpdateScoreDesc(a, old, new) \in Seq(Int)
         /\ UpdatedRank(a, old, new) \in Nat
         /\ Updated(UpdateScoreDesc(a, old, new), a, i, UpdatedRank(a, old, new),
                    UpdatedTieCount(a, old, new), new)
<1> PICK n \in Nat : n = Len(a)
  BY LenProperties DEF Down
<1>1. a \in Seq(Int) /\ a \in [1 .. n -> Int] /\ Sorted(a, n)
  BY LenProperties DEF Down, Sorted
<1> PICK l \in 0 .. n : l = RankOf(a, old)
  BY RankCounts
<1>2. \A k \in 1 .. n : k <= l <=> a[k] > old
  BY RankCounts
<1>3. l \in 0 .. n - 1 /\ i \in l .. n - 1
  <2>1. i + 1 \in 1 .. n /\ ~ a[i + 1] > old
    OBVIOUS
  <2>2. ~ i + 1 <= l
    BY <1>2, <2>1
  <2> QED BY ONLY <2>1, <2>2, n \in Nat, i \in 0 .. Len(a) - 1, n = Len(a), l \in 0 .. n
<1> PICK head : head = SubSeq(a, 1, l)
  OBVIOUS
<1>4. Down(head) /\ Len(head) = l /\ \A k \in 1 .. l : head[k] = a[k]
  <2>1. /\ 1 \in 1 .. Len(a) + 1 /\ l \in 1 - 1 .. Len(a)
        /\ l - 1 + 1 = l /\ \A k \in 1 .. l : 1 + k - 1 = k
    BY ONLY <1>3, n \in Nat, n = Len(a)
  <2>2. /\ Down(SubSeq(a, 1, l)) /\ Len(SubSeq(a, 1, l)) = l - 1 + 1
        /\ \A k \in 1 .. l - 1 + 1 : SubSeq(a, 1, l)[k] = a[1 + k - 1]
    BY ONLY <2>1, DownPart, Down(a)
  <2> QED BY ONLY <2>1, <2>2, head = SubSeq(a, 1, l)
<1> PICK m \in 0 .. l : m = RankOf(head, new)
  BY <1>4, RankCounts
<1> PICK q \in 0 .. l : q = NextRankOf(head, new)
  BY <1>4, NextRankCounts
<1> PICK ins : ins = InsertNewScoreDesc(head, new)
  OBVIOUS
<1>5. /\ \A k \in 1 .. l : (k <= m <=> a[k] > new) /\ (k <= q <=> a[k] >= new)
      /\ ins \in Seq(Int) /\ Len(ins) = l + 1
      /\ \A k \in 1 .. l + 1 :
           ins[k] = IF k <= m THEN head[k] ELSE IF k = m + 1 THEN new ELSE head[k - 1]
  <2>1. \A k \in 1 .. Len(head) : k <= m <=> head[k] > new
    BY ONLY <1>4, RankCounts, m = RankOf(head, new), new \in Int
  <2>2. \A k \in 1 .. Len(head) : k <= q <=> head[k] >= new
    BY ONLY <1>4, NextRankCounts, q = NextRankOf(head, new), new \in Int
  <2>3. Down(ins) /\ Inserted(ins, head, m, new)
    BY ONLY <1>4, InsertKeepsDown, m = RankOf(head, new), new \in Int,
            ins = InsertNewScoreDesc(head, new)
  <2>4. /\ ins \in Seq(Int) /\ Len(ins) = l + 1
        /\ \A k \in 1 .. l + 1 :
             ins[k] = IF k <= m THEN head[k] ELSE IF k = m + 1 THEN new ELSE head[k - 1]
    BY ONLY <1>4, <2>3 DEF Down, Inserted
  <2> QED BY ONLY <1>4, <2>1, <2>2, <2>4
<1> PICK tail : tail = SubSeq(a, l + 2, n)
  OBVIOUS
<1>6. /\ tail \in Seq(Int) /\ Len(tail) = n - l - 1
      /\ \A k \in 1 .. n - l - 1 : tail[k] = a[l + 1 + k]
  <2>1. /\ l + 2 \in 1 .. Len(a) + 1 /\ n \in (l + 2) - 1 .. Len(a)
        /\ n - (l + 2) + 1 = n - l - 1
        /\ \A k \in 1 .. n - l - 1 : (l + 2) + k - 1 = l + 1 + k
    BY ONLY <1>3, n \in Nat, n = Len(a)
  <2>2. /\ Down(SubSeq(a, l + 2, n)) /\ Len(SubSeq(a, l + 2, n)) = n - (l + 2) + 1
        /\ \A k \in 1 .. n - (l + 2) + 1 : SubSeq(a, l + 2, n)[k] = a[(l + 2) + k - 1]
    BY ONLY <2>1, DownPart, Down(a)
  <2> QED BY ONLY <2>1, <2>2, tail = SubSeq(a, l + 2, n) DEF Down
<1>7. /\ UpdateScoreDesc(a, old, new) = ins \o tail
      /\ UpdatedRank(a, old, new) = m
      /\ UpdatedTieCount(a, old, new) = 1 + (q - m)
  <2>1. ~ old > new
    OBVIOUS
  <2> QED BY <2>1 DEF UpdateScoreDesc, UpdatedRank, UpdatedTieCount, TieCountOf
<1> SUFFICES ASSUME NEW t, t = ins \o tail
             PROVE  t \in Seq(Int) /\ m \in Nat /\ Updated(t, a, i, m, 1 + (q - m), new)
  BY <1>7
<1>8. t \in Seq(Int) /\ Len(t) = n
      /\ \A k \in 1 .. n : t[k] = IF k <= l + 1 THEN ins[k] ELSE tail[k - (l + 1)]
  <2>1. t \in Seq(Int) /\ Joined(t, ins, tail)
    BY ONLY <1>5, <1>6, ConcatJoins, t = ins \o tail
  <2>2. (l + 1) + (n - l - 1) = n
    BY ONLY <1>3, n \in Nat
  <2> QED BY ONLY <1>5, <1>6, <2>1, <2>2 DEF Joined
<1>9. /\ \A k \in 1 .. m : t[k] = a[k]
      /\ t[m + 1] = new
      /\ \A k \in m + 2 .. l + 1 : t[k] = a[k - 1]
      /\ \A k \in l + 2 .. n : t[k] = a[k]
  <2>1. ASSUME NEW k \in 1 .. m PROVE t[k] = a[k]
    <3>1. k \in 1 .. n /\ k \in 1 .. l /\ k <= l + 1 /\ k \in 1 .. l + 1 /\ k <= m
      BY ONLY <1>3, n \in Nat, m \in 0 .. l, k \in 1 .. m
    <3>2. t[k] = ins[k]
      BY ONLY <1>8, <3>1
    <3>3. ins[k] = head[k]
      BY ONLY <1>5, <3>1
    <3> QED BY ONLY <1>4, <3>1, <3>2, <3>3
  <2>2. t[m + 1] = new
    <3>1. m + 1 \in 1 .. n /\ m + 1 <= l + 1 /\ m + 1 \in 1 .. l + 1 /\ ~ m + 1 <= m
      BY ONLY <1>3, n \in Nat, m \in 0 .. l
    <3> QED BY ONLY <1>5, <1>8, <3>1
  <2>3. ASSUME NEW k \in m + 2 .. l + 1 PROVE t[k] = a[k - 1]
    <3>1. /\ k \in 1 .. n /\ k <= l + 1 /\ k \in 1 .. l + 1 /\ ~ k <= m /\ k # m + 1
          /\ k - 1 \in 1 .. l
      BY ONLY <1>3, n \in Nat, m \in 0 .. l, k \in m + 2 .. l + 1
    <3>2. t[k] = ins[k]
      BY ONLY <1>8, <3>1
    <3>3. ins[k] = head[k - 1]
      BY ONLY <1>5, <3>1
    <3> QED BY ONLY <1>4, <3>1, <3>2, <3>3
  <2>4. ASSUME NEW k \in l + 2 .. n PROVE t[k] = a[k]
    <3>1. /\ k \in 1 .. n /\ ~ k <= l + 1
          /\ k - (l + 1) \in 1 .. n - l - 1 /\ l + 1 + (k - (l + 1)) = k
      BY ONLY <1>3, n \in Nat, k \in l + 2 .. n
    <3> QED BY ONLY <1>6, <1>8, <3>1
  <2> QED BY <2>1, <2>2, <2>3, <2>4
<1>10. m <= q
  <2>1. q < m => q + 1 \in 1 .. l /\ q + 1 \in 1 .. n /\ q + 1 <= m /\ ~ q + 1 <= q
    BY ONLY <1>3, n \in Nat, m \in 0 .. l, q \in 0 .. l
  <2>2. q + 1 \in 1 .. n => a[q + 1] \in Int
    BY <1>1
  <2>3. ~ q < m
    BY ONLY <1>5, <2>1, <2>2, new \in Int
  <2> QED BY ONLY <2>3, <1>3, n \in Nat, m \in 0 .. l, q \in 0 .. l
<1> PICK e \in m + 1 .. l + 1 : e = q + 1
  BY ONLY <1>3, <1>10, n \in Nat, m \in 0 .. l, q \in 0 .. l
<1>11. /\ m \in Nat /\ m \in 0 .. n - 1 /\ e \in m + 1 .. n
       /\ e - m = 1 + (q - m) /\ e - 1 = q
  BY ONLY <1>3, n \in Nat, m \in 0 .. l, q \in 0 .. l, e \in m + 1 .. l + 1, e = q + 1
<1>12. Fits(t, a, n, i, m, e, new)
  <2>1. ASSUME NEW k \in l + 1 .. n PROVE a[k] <= old
    <3>1. k \in 1 .. n /\ ~ k <= l
      BY ONLY <1>3, n \in Nat, k \in l + 1 .. n
    <3>2. a[k] \in Int /\ ~ a[k] > old
      BY <1>1, <1>2, <3>1
    <3> QED BY ONLY <3>2, old \in Int
  <2>2. \A k \in 1 .. l : (k <= m <=> a[k] > new) /\ (k <= e - 1 <=> a[k] >= new)
    BY ONLY <1>5, <1>11
  <2> QED BY ONLY <1>1, <1>3, <1>9, <2>1, <2>2, HigherFits, n \in Nat, old \in Int,
                  new \in Int, old < new, a[i + 1] = old, m \in 0 .. l, e \in m + 1 .. l + 1
<1>13. Updated(t, a, i, m, e - m, new)
  BY ONLY <1>1, <1>8, <1>11, <1>12, FitsUpdated, n = Len(a), new \in Int,
          i \in 0 .. Len(a) - 1
<1> QED BY ONLY <1>8, <1>11, <1>13

-----------------------------------------------------------------------------
(* The four arrays and the map.                                            *)

\* Place k of the arrays.
Entry(d, k) == [score |-> d.scores[k], nick |-> d.nicks[k], at |-> d.at[k]]

\* The arrays have one length, and the scores descend.
Arrays(d) ==
  /\ Down(d.scores) /\ d.ids \in Seq(Ids) /\ d.nicks \in Seq(Nicks) /\ d.at \in Seq(Int)
  /\ Len(d.ids) = Len(d.scores) /\ Len(d.nicks) = Len(d.scores)
  /\ Len(d.at) = Len(d.scores)

\* The arrays hold every known id in one place, with the score it has in the
\* map.
Held(d) ==
  /\ Arrays(d)
  /\ \A j, k \in 1 .. Len(d.scores) : d.ids[j] = d.ids[k] => j = k
  /\ Known(d) = {d.ids[k] : k \in 1 .. Len(d.scores)}
  /\ \A k \in 1 .. Len(d.scores) : d.map[d.ids[k]] = d.scores[k]

\* The table the arrays hold: of every id in them the entry of its place.
TableOf(d) ==
  [id \in {d.ids[i] : i \in 1 .. Len(d.ids)} |->
     Entry(d, CHOOSE i \in 1 .. Len(d.ids) : d.ids[i] = id)]

\* The table has the entry of an id where the arrays have the id.
LEMMA TableEntry ==
  ASSUME NEW d, Held(d)
  PROVE  /\ TableOf(d) = [id \in Known(d) |-> TableOf(d)[id]]
         /\ DOMAIN TableOf(d) = Known(d)
         /\ \A k \in 1 .. Len(d.scores) : TableOf(d)[d.ids[k]] = Entry(d, k)
<1>1. /\ Len(d.ids) = Len(d.scores) /\ Known(d) = {d.ids[k] : k \in 1 .. Len(d.scores)}
  BY DEF Held, Arrays
<1>2. DOMAIN TableOf(d) = Known(d) /\ TableOf(d) = [id \in Known(d) |-> TableOf(d)[id]]
  BY <1>1 DEF TableOf
<1>3. ASSUME NEW k \in 1 .. Len(d.scores) PROVE TableOf(d)[d.ids[k]] = Entry(d, k)
  <2>1. (CHOOSE i \in 1 .. Len(d.ids) : d.ids[i] = d.ids[k]) = k
    BY <1>1 DEF Held
  <2>2. d.ids[k] \in {d.ids[i] : i \in 1 .. Len(d.ids)}
    BY <1>1
  <2> QED BY <2>1, <2>2 DEF TableOf
<1> QED BY <1>2, <1>3

\* GetWithIndex finds a known id among the ties of its score.
LEMMA Lookup ==
  ASSUME NEW d, Held(d), NEW id \in Known(d)
  PROVE  /\ IndexOf(d, id) \in 0 .. Len(d.scores) - 1
         /\ d.ids[IndexOf(d, id) + 1] = id
         /\ d.scores[IndexOf(d, id) + 1] = d.map[id] /\ d.map[id] \in Int
<1>1. PICK k \in 1 .. Len(d.scores) : id = d.ids[k] /\ d.map[id] = d.scores[k]
  BY DEF Held
<1>2. Down(d.scores) /\ Len(d.scores) \in Nat /\ d.scores[k] \in Int
  BY LenProperties, ElementOfSeq DEF Held, Arrays, Down
<1> PICK s \in Int : s = d.scores[k]
  BY <1>2
<1> PICK n \in Nat : n = Len(d.scores)
  BY <1>2
<1> PICK b \in 0 .. n : b = RankOf(d.scores, s)
  BY ONLY <1>2, RankCounts, s \in Int, n = Len(d.scores)
<1> PICK c \in 0 .. n : c = NextRankOf(d.scores, s)
  BY ONLY <1>2, NextRankCounts, s \in Int, n = Len(d.scores)
<1>3. b < k /\ k <= c
  <2>1. \A x \in 1 .. n : (x <= b <=> d.scores[x] > s) /\ (x <= c <=> d.scores[x] >= s)
    BY ONLY <1>2, RankCounts, NextRankCounts, s \in Int, n = Len(d.scores),
            b = RankOf(d.scores, s), c = NextRankOf(d.scores, s)
  <2> QED BY ONLY <2>1, k \in 1 .. n, n \in Nat, b \in 0 .. n, s = d.scores[k], s \in Int
<1> DEFINE hits == {i \in b .. b + (c - b) - 1 : d.ids[i + 1] = id}
<1>5. hits = {k - 1}
  <2>1. k - 1 \in b .. b + (c - b) - 1 /\ (k - 1) + 1 = k
    BY ONLY <1>3, k \in 1 .. n, n \in Nat, b \in 0 .. n, c \in 0 .. n
  <2>2. ASSUME NEW i \in b .. b + (c - b) - 1, d.ids[i + 1] = id PROVE i = k - 1
    <3>1. i + 1 \in 1 .. n
      BY ONLY n \in Nat, b \in 0 .. n, c \in 0 .. n, i \in b .. b + (c - b) - 1
    <3>2. i + 1 = k
      BY <1>1, <2>2, <3>1 DEF Held
    <3> QED BY ONLY <3>2, b \in 0 .. n, n \in Nat, c \in 0 .. n,
                    i \in b .. b + (c - b) - 1
  <2> QED BY <1>1, <2>1, <2>2
<1>6. Min({k - 1}) = k - 1
  BY DEF Min
<1>7. IndexOf(d, id) = k - 1
  <2>1. IndexOf(d, id) = IF hits = {} THEN -1 ELSE Min(hits)
    BY <1>1 DEF IndexOf, FindIndexOf, TieCountOf
  <2> QED BY <1>5, <1>6, <2>1
<1> QED BY <1>1, <1>2, <1>7

\* Place k of e has the entry from place f[k] of d, and place j the entry of
\* id; j is 0 if e has none.
Rebuilds(e, d, f, j, id) ==
  /\ Arrays(e) /\ j \in 0 .. Len(e.scores)
  /\ j # 0 => e.ids[j] = id
  /\ \A k \in 1 .. Len(e.scores) :
       k # j => /\ f[k] \in 1 .. Len(d.scores) /\ d.ids[f[k]] # id
                /\ e.ids[k] = d.ids[f[k]] /\ Entry(e, k) = Entry(d, f[k])
  /\ \A k, l \in 1 .. Len(e.scores) : k # j /\ l # j /\ f[k] = f[l] => k = l
  /\ \A m \in 1 .. Len(d.scores) :
       d.ids[m] # id => \E k \in 1 .. Len(e.scores) : k # j /\ f[k] = m
  /\ Known(e) = (Known(d) \ {id}) \cup IF j = 0 THEN {} ELSE {id}
  /\ \A x \in Known(e) : e.map[x] = IF x = id THEN e.scores[j] ELSE d.map[x]

\* Arrays that are rebuilt so hold their entries as before, but for that id.
LEMMA RebuiltHeld ==
  ASSUME NEW d, Held(d), NEW e, NEW f, NEW j, NEW id, Rebuilds(e, d, f, j, id)
  PROVE  /\ Held(e)
         /\ TableOf(e) = [x \in Known(e) |-> IF x = id THEN Entry(e, j) ELSE TableOf(d)[x]]
<1> PICK n \in Nat : n = Len(e.scores)
  BY LenProperties DEF Rebuilds, Arrays, Down
<1>1. ASSUME NEW k \in 1 .. n, k # j
      PROVE  /\ f[k] \in 1 .. Len(d.scores) /\ d.ids[f[k]] # id
             /\ e.ids[k] = d.ids[f[k]] /\ Entry(e, k) = Entry(d, f[k])
             /\ e.scores[k] = d.scores[f[k]] /\ e.ids[k] \in Known(d)
  <2>1. /\ f[k] \in 1 .. Len(d.scores) /\ d.ids[f[k]] # id
        /\ e.ids[k] = d.ids[f[k]] /\ Entry(e, k) = Entry(d, f[k])
    BY <1>1 DEF Rebuilds
  <2>2. Entry(e, k).score = e.scores[k] /\ Entry(d, f[k]).score = d.scores[f[k]]
    BY DEF Entry
  <2>3. d.ids[f[k]] \in Known(d)
    BY <2>1 DEF Held
  <2> QED BY <2>1, <2>2, <2>3
<1>2. j \in 0 .. n /\ (j # 0 => e.ids[j] = id)
  BY DEF Rebuilds
<1>3. ASSUME NEW k \in 1 .. n, NEW l \in 1 .. n, e.ids[k] = e.ids[l] PROVE k = l
  <2>1. CASE k # j /\ l # j
    <3>1. d.ids[f[k]] = d.ids[f[l]] /\ f[k] \in 1 .. Len(d.scores) /\ f[l] \in 1 .. Len(d.scores)
      BY <1>1, <1>3, <2>1
    <3>2. f[k] = f[l]
      BY <3>1 DEF Held
    <3> QED BY <2>1, <3>2 DEF Rebuilds
  <2> QED BY <1>1, <1>2, <1>3, <2>1
<1>4. Known(e) = {e.ids[k] : k \in 1 .. n}
  <2>1. ASSUME NEW k \in 1 .. n PROVE e.ids[k] \in Known(e)
    BY <1>1, <1>2 DEF Rebuilds
  <2>2. ASSUME NEW x \in Known(e) PROVE \E k \in 1 .. n : x = e.ids[k]
    <3>1. CASE x = id
      <4>1. j # 0
        BY <3>1 DEF Rebuilds
      <4>2. j \in 1 .. n
        BY <1>2, <4>1
      <4> QED BY <1>2, <3>1, <4>1, <4>2
    <3>2. CASE x # id
      <4>1. x \in Known(d)
        BY <3>2 DEF Rebuilds
      <4>2. PICK m \in 1 .. Len(d.scores) : x = d.ids[m]
        BY <4>1 DEF Held
      <4>3. PICK k \in 1 .. n : k # j /\ f[k] = m
        BY <3>2, <4>2 DEF Rebuilds
      <4> QED BY <1>1, <4>2, <4>3
    <3> QED BY <3>1, <3>2
  <2> QED BY <2>1, <2>2
<1>5. ASSUME NEW k \in 1 .. n PROVE e.map[e.ids[k]] = e.scores[k]
  <2>1. e.ids[k] \in Known(e)
    BY <1>4
  <2>2. CASE k = j
    <3>1. e.ids[k] = id
      BY <1>2, <2>2
    <3> QED BY <2>1, <2>2, <3>1 DEF Rebuilds
  <2>3. CASE k # j
    <3>1. d.map[d.ids[f[k]]] = d.scores[f[k]]
      BY <1>1, <2>3 DEF Held
    <3>2. e.map[e.ids[k]] = d.map[e.ids[k]]
      BY <1>1, <2>1, <2>3 DEF Rebuilds
    <3> QED BY <1>1, <2>3, <3>1, <3>2
  <2> QED BY <2>2, <2>3
<1>6. Held(e)
  BY <1>3, <1>4, <1>5 DEF Held, Rebuilds
<1>7. ASSUME NEW x \in Known(e)
      PROVE  TableOf(e)[x] = IF x = id THEN Entry(e, j) ELSE TableOf(d)[x]
  <2>1. PICK k \in 1 .. n : x = e.ids[k]
    BY <1>4
  <2>2. TableOf(e)[x] = Entry(e, k)
    BY <1>6, <2>1, TableEntry
  <2>3. CASE k = j
    BY <1>2, <2>1, <2>2, <2>3
  <2>4. CASE k # j
    <3>1. TableOf(d)[d.ids[f[k]]] = Entry(d, f[k])
      BY <1>1, <2>4, TableEntry
    <3> QED BY <1>1, <2>1, <2>2, <2>4, <3>1
  <2> QED BY <2>3, <2>4
<1>8. TableOf(e) = [x \in Known(e) |-> TableOf(e)[x]]
  BY <1>6, TableEntry
<1> QED BY <1>6, <1>7, <1>8

\* One more entry of e than of d has score s, as many a better one.
OneMore(e, d, s) ==
  /\ RankOf(e.scores, s) = RankOf(d.scores, s)
  /\ NextRankOf(e.scores, s) = NextRankOf(d.scores, s) + 1

\* SetWithNickname of a new id enters it at its rank, and moves the others.
LEMMA NewEntryHeld ==
  ASSUME NEW d, Held(d), NEW id \in Ids, id \notin Known(d), NEW s \in Int,
         NEW nick \in Nicks, NEW t \in Int
  PROVE  /\ Held(NewEntry(d, id, s, nick, t))
         /\ TableOf(NewEntry(d, id, s, nick, t)) =
              [x \in Known(d) \cup {id} |->
                 IF x = id THEN [score |-> s, nick |-> nick, at |-> t] ELSE TableOf(d)[x]]
         /\ OneMore(NewEntry(d, id, s, nick, t), d, s)
<1> PICK e : e = NewEntry(d, id, s, nick, t)
  OBVIOUS
<1>0. Arrays(d) /\ Down(d.scores)
  BY DEF Held, Arrays
<1> PICK n \in Nat : n = Len(d.scores)
  BY <1>0, LenProperties DEF Down
<1> PICK j \in 0 .. n : j = RankOf(d.scores, s)
  BY <1>0, RankCounts
<1>1. /\ Known(e) = Known(d) \cup {id}
      /\ \A x \in Known(e) : e.map[x] = IF x = id THEN s ELSE d.map[x]
      /\ e.scores = InsertNewScoreDesc(d.scores, s)
      /\ e.ids = InsertAtIndex(d.ids, j, id)
      /\ e.nicks = InsertAtIndex(d.nicks, j, nick)
      /\ e.at = InsertAtIndex(d.at, j, t)
  BY DEF NewEntry, Known
<1>2. /\ d.ids \in Seq(Ids) /\ d.nicks \in Seq(Nicks) /\ d.at \in Seq(Int)
      /\ Len(d.ids) = n /\ Len(d.nicks) = n /\ Len(d.at) = n
  BY <1>0 DEF Arrays
<1>3. /\ Down(e.scores) /\ Inserted(e.scores, d.scores, j, s)
      /\ RankOf(e.scores, s) = RankOf(d.scores, s)
      /\ NextRankOf(e.scores, s) = NextRankOf(d.scores, s) + 1
  BY <1>0, <1>1, InsertKeepsDown
<1>4. /\ e.ids \in Seq(Ids) /\ Inserted(e.ids, d.ids, j, id)
      /\ e.nicks \in Seq(Nicks) /\ Inserted(e.nicks, d.nicks, j, nick)
      /\ e.at \in Seq(Int) /\ Inserted(e.at, d.at, j, t)
  <2>1. e.ids \in Seq(Ids) /\ Inserted(e.ids, d.ids, j, id)
    BY <1>1, <1>2, InsertMoves
  <2>2. e.nicks \in Seq(Nicks) /\ Inserted(e.nicks, d.nicks, j, nick)
    BY <1>1, <1>2, InsertMoves
  <2>3. e.at \in Seq(Int) /\ Inserted(e.at, d.at, j, t)
    BY <1>1, <1>2, InsertMoves
  <2> QED BY <2>1, <2>2, <2>3
<1> PICK f : f = [k \in 1 .. n + 1 |-> IF k <= j THEN k ELSE k - 1]
  OBVIOUS
<1>5. /\ Len(e.scores) = n + 1 /\ Len(e.ids) = n + 1
      /\ Len(e.nicks) = n + 1 /\ Len(e.at) = n + 1
      /\ e.ids[j + 1] = id /\ Entry(e, j + 1) = [score |-> s, nick |-> nick, at |-> t]
      /\ e.scores[j + 1] = s
  <2>1. j + 1 \in 1 .. n + 1 /\ ~ j + 1 <= j
    BY ONLY n \in Nat, j \in 0 .. n
  <2> QED BY ONLY <1>2, <1>3, <1>4, <2>1, n = Len(d.scores) DEF Inserted, Entry
<1>6. ASSUME NEW k \in 1 .. n + 1, k # j + 1
      PROVE  /\ f[k] \in 1 .. n /\ f[k] = IF k <= j THEN k ELSE k - 1
             /\ e.ids[k] = d.ids[f[k]] /\ d.ids[f[k]] # id /\ Entry(e, k) = Entry(d, f[k])
  <2>1. f[k] \in 1 .. n /\ f[k] = IF k <= j THEN k ELSE k - 1
    BY ONLY <1>6, n \in Nat, j \in 0 .. n, k \in 1 .. n + 1,
            f = [x \in 1 .. n + 1 |-> IF x <= j THEN x ELSE x - 1]
  <2>2. /\ e.ids[k] = d.ids[f[k]] /\ e.scores[k] = d.scores[f[k]]
        /\ e.nicks[k] = d.nicks[f[k]] /\ e.at[k] = d.at[f[k]]
    <3>1. k # j + 1
      BY <1>6
    <3>2. e.ids[k] = d.ids[IF k <= j THEN k ELSE k - 1]
      <4>1. k \in 1 .. Len(d.ids) + 1 /\ Inserted(e.ids, d.ids, j, id)
        BY ONLY <1>2, <1>3, <1>4, n = Len(d.scores), k \in 1 .. n + 1
      <4> QED BY ONLY <3>1, <4>1, InsertedAt
    <3>3. e.nicks[k] = d.nicks[IF k <= j THEN k ELSE k - 1]
      <4>1. k \in 1 .. Len(d.nicks) + 1 /\ Inserted(e.nicks, d.nicks, j, nick)
        BY ONLY <1>2, <1>3, <1>4, n = Len(d.scores), k \in 1 .. n + 1
      <4> QED BY ONLY <3>1, <4>1, InsertedAt
    <3>4. e.at[k] = d.at[IF k <= j THEN k ELSE k - 1]
      <4>1. k \in 1 .. Len(d.at) + 1 /\ Inserted(e.at, d.at, j, t)
        BY ONLY <1>2, <1>3, <1>4, n = Len(d.scores), k \in 1 .. n + 1
      <4> QED BY ONLY <3>1, <4>1, InsertedAt
    <3>5. e.scores[k] = d.scores[IF k <= j THEN k ELSE k - 1]
      <4>1. k \in 1 .. Len(d.scores) + 1 /\ Inserted(e.scores, d.scores, j, s)
        BY ONLY <1>2, <1>3, <1>4, n = Len(d.scores), k \in 1 .. n + 1
      <4> QED BY ONLY <3>1, <4>1, InsertedAt
    <3> QED BY ONLY <2>1, <3>2, <3>3, <3>4, <3>5
  <2>3. d.ids[f[k]] \in Known(d)
    BY <2>1 DEF Held
  <2> QED BY <2>1, <2>2, <2>3 DEF Entry
<1>7. Rebuilds(e, d, f, j + 1, id)
  <2>1. Arrays(e)
    BY <1>3, <1>4, <1>5 DEF Arrays
  <2>2. \A k, l \in 1 .. n + 1 : k # j + 1 /\ l # j + 1 /\ f[k] = f[l] => k = l
    <3> TAKE k, l \in 1 .. n + 1
    <3> HAVE k # j + 1 /\ l # j + 1 /\ f[k] = f[l]
    <3>1. f[k] = (IF k <= j THEN k ELSE k - 1) /\ f[l] = IF l <= j THEN l ELSE l - 1
      BY <1>6
    <3> QED BY ONLY <3>1, k # j + 1 /\ l # j + 1 /\ f[k] = f[l], n \in Nat, j \in 0 .. n,
                    k \in 1 .. n + 1, l \in 1 .. n + 1
  <2>3. \A m \in 1 .. n : \E k \in 1 .. n + 1 : k # j + 1 /\ f[k] = m
    <3> TAKE m \in 1 .. n
    <3>1. CASE m <= j
      <4>1. m \in 1 .. n + 1 /\ m # j + 1
        BY ONLY <3>1, n \in Nat, j \in 0 .. n, m \in 1 .. n
      <4>2. f[m] = m
        BY <1>6, <3>1, <4>1
      <4> QED BY <4>1, <4>2
    <3>2. CASE ~ m <= j
      <4>1. m + 1 \in 1 .. n + 1 /\ m + 1 # j + 1 /\ ~ m + 1 <= j /\ (m + 1) - 1 = m
        BY ONLY <3>2, n \in Nat, j \in 0 .. n, m \in 1 .. n
      <4>2. f[m + 1] = m
        BY <1>6, <4>1
      <4> QED BY <4>1, <4>2
    <3> QED BY <3>1, <3>2
  <2>4. /\ Known(e) = (Known(d) \ {id}) \cup IF j + 1 = 0 THEN {} ELSE {id}
        /\ \A x \in Known(e) : e.map[x] = IF x = id THEN e.scores[j + 1] ELSE d.map[x]
    <3>1. j + 1 # 0
      BY ONLY n \in Nat, j \in 0 .. n
    <3> QED BY <1>1, <1>5, <3>1
  <2>5. j + 1 \in 0 .. n + 1
    BY ONLY n \in Nat, j \in 0 .. n
  <2> QED BY ONLY <1>5, <1>6, <2>1, <2>2, <2>3, <2>4, <2>5, n = Len(d.scores) DEF Rebuilds
<1>8. /\ Held(e)
      /\ TableOf(e) = [x \in Known(e) |-> IF x = id THEN Entry(e, j + 1) ELSE TableOf(d)[x]]
  BY <1>7, RebuiltHeld
<1>9. OneMore(e, d, s)
  BY <1>1, <1>3, <1>5 DEF OneMore
<1> QED BY <1>1, <1>5, <1>8, <1>9

\* Moving an entry of n puts every place to use once.
Permutes(i, j, n) ==
  /\ \A k \in 1 .. n : Moved(i, j, k) \in 1 .. n /\ (Moved(i, j, k) = i + 1 <=> k = j + 1)
  /\ \A k, l \in 1 .. n : Moved(i, j, k) = Moved(i, j, l) => k = l
  /\ \A m \in 1 .. n : \E k \in 1 .. n : Moved(i, j, k) = m

\* Moves are permutations of the places.
LEMMA MovedOnce ==
  ASSUME NEW n \in Nat, NEW i \in 0 .. n - 1, NEW j \in 0 .. n - 1
  PROVE  Permutes(i, j, n)
<1>1. \A k \in 1 .. n : Moved(i, j, k) \in 1 .. n /\ (Moved(i, j, k) = i + 1 <=> k = j + 1)
  BY DEF Moved
<1>2. \A k, l \in 1 .. n : Moved(i, j, k) = Moved(i, j, l) => k = l
  BY DEF Moved
<1>3. ASSUME NEW m \in 1 .. n PROVE Moved(i, j, Moved(j, i, m)) = m /\ Moved(j, i, m) \in 1 .. n
  BY DEF Moved
<1>4. \A m \in 1 .. n : \E k \in 1 .. n : Moved(i, j, k) = m
  BY ONLY <1>3
<1> QED BY ONLY <1>1, <1>2, <1>4 DEF Permutes

\* SetWithNickname of a known id with another score moves its entry.
LEMMA UpdateHeld ==
  ASSUME NEW d, Held(d), NEW id \in Ids, id \in Known(d), NEW s \in Int, d.map[id] # s,
         NEW nick \in Nicks, NEW t \in Int
  PROVE  /\ Held(UpdateEntry(d, id, s, nick, t))
         /\ TableOf(UpdateEntry(d, id, s, nick, t)) =
              [x \in Known(d) \cup {id} |->
                 IF x = id THEN [score |-> s, nick |-> nick, at |-> t] ELSE TableOf(d)[x]]
         /\ RankOf(UpdateEntry(d, id, s, nick, t).scores, s) =
              UpdatedRank(d.scores, d.map[id], s)
         /\ TieCountOf(UpdateEntry(d, id, s, nick, t).scores, s) =
              UpdatedTieCount(d.scores, d.map[id], s)
<1> PICK e : e = UpdateEntry(d, id, s, nick, t)
  OBVIOUS
<1>0. Arrays(d) /\ Down(d.scores)
  BY DEF Held, Arrays
<1> PICK n \in Nat : n = Len(d.scores)
  BY <1>0, LenProperties DEF Down
<1> PICK i \in 0 .. n - 1 : i = IndexOf(d, id)
  BY Lookup
<1> PICK old \in Int : old = d.map[id]
  BY Lookup
<1>1. d.ids[i + 1] = id /\ d.scores[i + 1] = old
  BY Lookup
<1>2. /\ UpdatedRank(d.scores, old, s) \in Nat
      /\ UpdateScoreDesc(d.scores, old, s) \in Seq(Int)
      /\ Updated(UpdateScoreDesc(d.scores, old, s), d.scores, i,
                 UpdatedRank(d.scores, old, s), UpdatedTieCount(d.scores, old, s), s)
  <2>1. old > s \/ old < s
    OBVIOUS
  <2> QED BY ONLY <1>0, <1>1, <2>1, UpdateLower, UpdateHigher, old \in Int, s \in Int,
                  i \in 0 .. n - 1, n = Len(d.scores)
<1> PICK j \in Nat : j = UpdatedRank(d.scores, old, s)
  BY <1>2
<1>3. /\ Known(e) = Known(d)
      /\ \A x \in Known(e) : e.map[x] = IF x = id THEN s ELSE d.map[x]
      /\ e.scores = UpdateScoreDesc(d.scores, old, s)
      /\ e.ids = MoveWithin(d.ids, i, j)
      /\ e.nicks = MoveWithin([d.nicks EXCEPT ![i + 1] = nick], i, j)
      /\ e.at = MoveWithin([d.at EXCEPT ![i + 1] = t], i, j)
  BY DEF UpdateEntry, Known
<1>4. /\ d.ids \in Seq(Ids) /\ d.nicks \in Seq(Nicks) /\ d.at \in Seq(Int)
      /\ Len(d.ids) = n /\ Len(d.nicks) = n /\ Len(d.at) = n
  BY <1>0 DEF Arrays
<1>5. /\ Down(e.scores) /\ Len(e.scores) = n /\ j \in 0 .. n - 1
      /\ \A k \in 1 .. n : e.scores[k] = IF k = j + 1 THEN s ELSE d.scores[Moved(i, j, k)]
      /\ RankOf(e.scores, s) = j
      /\ TieCountOf(e.scores, s) = UpdatedTieCount(d.scores, old, s)
  BY ONLY <1>2, <1>3, n = Len(d.scores), j = UpdatedRank(d.scores, old, s) DEF Updated
<1> PICK ni : ni = [d.nicks EXCEPT ![i + 1] = nick]
  OBVIOUS
<1> PICK ta : ta = [d.at EXCEPT ![i + 1] = t]
  OBVIOUS
<1>6. /\ ni \in Seq(Nicks) /\ Len(ni) = n
      /\ \A k \in 1 .. n : ni[k] = IF k = i + 1 THEN nick ELSE d.nicks[k]
      /\ ta \in Seq(Int) /\ Len(ta) = n
      /\ \A k \in 1 .. n : ta[k] = IF k = i + 1 THEN t ELSE d.at[k]
  <2>1. i + 1 \in 1 .. n
    BY ONLY n \in Nat, i \in 0 .. n - 1
  <2>2. /\ ni \in Seq(Nicks) /\ Len(ni) = n
        /\ \A k \in 1 .. n : ni[k] = IF k = i + 1 THEN nick ELSE d.nicks[k]
    BY ONLY <1>4, <2>1, ExceptSeq, nick \in Nicks, ni = [d.nicks EXCEPT ![i + 1] = nick]
  <2>3. /\ ta \in Seq(Int) /\ Len(ta) = n
        /\ \A k \in 1 .. n : ta[k] = IF k = i + 1 THEN t ELSE d.at[k]
    BY ONLY <1>4, <2>1, ExceptSeq, t \in Int, ta = [d.at EXCEPT ![i + 1] = t]
  <2> QED BY <2>2, <2>3
<1>7. /\ e.ids \in Seq(Ids) /\ Reordered(e.ids, d.ids, i, j)
      /\ e.nicks \in Seq(Nicks) /\ Reordered(e.nicks, ni, i, j)
      /\ e.at \in Seq(Int) /\ Reordered(e.at, ta, i, j)
  <2>1. e.ids \in Seq(Ids) /\ Reordered(e.ids, d.ids, i, j)
    <3>1. i \in 0 .. Len(d.ids) - 1 /\ j \in 0 .. Len(d.ids) - 1
      BY <1>4, <1>5
    <3>2. e.ids = MoveWithin(d.ids, i, j) /\ d.ids \in Seq(Ids)
      BY <1>3, <1>4
    <3> QED BY ONLY <3>1, <3>2, MoveMoves
  <2>2. e.nicks \in Seq(Nicks) /\ Reordered(e.nicks, ni, i, j)
    <3>1. i \in 0 .. Len(ni) - 1 /\ j \in 0 .. Len(ni) - 1
      BY <1>5, <1>6
    <3>2. e.nicks = MoveWithin(ni, i, j)
      BY <1>3
    <3> QED BY ONLY <1>6, <3>1, <3>2, MoveMoves
  <2>3. e.at \in Seq(Int) /\ Reordered(e.at, ta, i, j)
    <3>1. i \in 0 .. Len(ta) - 1 /\ j \in 0 .. Len(ta) - 1
      BY <1>5, <1>6
    <3>2. e.at = MoveWithin(ta, i, j)
      BY <1>3
    <3> QED BY ONLY <1>6, <3>1, <3>2, MoveMoves
  <2> QED BY <2>1, <2>2, <2>3
<1> PICK f : f = [k \in 1 .. n |-> Moved(i, j, k)]
  OBVIOUS
<1>8. /\ \A k \in 1 .. n : f[k] = Moved(i, j, k) /\ f[k] \in 1 .. n /\ (f[k] = i + 1 <=> k = j + 1)
      /\ \A k, l \in 1 .. n : f[k] = f[l] => k = l
      /\ \A m \in 1 .. n : \E k \in 1 .. n : f[k] = m
  <2>1. /\ \A k \in 1 .. n : Moved(i, j, k) \in 1 .. n /\ (Moved(i, j, k) = i + 1 <=> k = j + 1)
        /\ \A k, l \in 1 .. n : Moved(i, j, k) = Moved(i, j, l) => k = l
        /\ \A m \in 1 .. n : \E k \in 1 .. n : Moved(i, j, k) = m
    <3>1. j \in 0 .. n - 1
      BY <1>5
    <3>2. Permutes(i, j, n)
      BY ONLY <3>1, MovedOnce, n \in Nat, i \in 0 .. n - 1
    <3> QED BY ONLY <3>2 DEF Permutes
  <2>2. \A k \in 1 .. n : f[k] = Moved(i, j, k)
    BY ONLY f = [k \in 1 .. n |-> Moved(i, j, k)]
  <2>3. \A k, l \in 1 .. n : f[k] = f[l] => k = l
    <3> TAKE k, l \in 1 .. n
    <3> HAVE f[k] = f[l]
    <3> QED BY <2>1, <2>2
  <2>4. \A m \in 1 .. n : \E k \in 1 .. n : f[k] = m
    BY ONLY <2>1, <2>2
  <2>5. ASSUME NEW k \in 1 .. n
        PROVE  f[k] = Moved(i, j, k) /\ f[k] \in 1 .. n /\ (f[k] = i + 1 <=> k = j + 1)
    <3>1. f[k] = Moved(i, j, k)
      BY <2>2
    <3>2. Moved(i, j, k) \in 1 .. n /\ (Moved(i, j, k) = i + 1 <=> k = j + 1)
      BY <2>1
    <3> QED BY ONLY <3>1, <3>2
  <2> QED BY <2>3, <2>4, <2>5
<1>9. /\ Len(e.ids) = n /\ Len(e.nicks) = n /\ Len(e.at) = n
      /\ \A k \in 1 .. n : /\ e.ids[k] = d.ids[f[k]] /\ e.nicks[k] = ni[f[k]]
                           /\ e.at[k] = ta[f[k]]
  <2>1. Len(e.ids) = n /\ Len(e.nicks) = n /\ Len(e.at) = n
    BY ONLY <1>4, <1>6, <1>7 DEF Reordered
  <2>2. ASSUME NEW k \in 1 .. n
        PROVE  e.ids[k] = d.ids[f[k]] /\ e.nicks[k] = ni[f[k]] /\ e.at[k] = ta[f[k]]
    <3>1. /\ e.ids[k] = d.ids[Moved(i, j, k)] /\ e.nicks[k] = ni[Moved(i, j, k)]
          /\ e.at[k] = ta[Moved(i, j, k)]
      BY ONLY <1>4, <1>6, <1>7, k \in 1 .. n DEF Reordered
    <3>2. f[k] = Moved(i, j, k)
      BY <1>8
    <3> QED BY ONLY <3>1, <3>2
  <2> QED BY <2>1, <2>2
<1>10. /\ j + 1 \in 1 .. n /\ e.ids[j + 1] = id /\ e.scores[j + 1] = s
       /\ Entry(e, j + 1) = [score |-> s, nick |-> nick, at |-> t]
  <2>1. j + 1 \in 1 .. n /\ i + 1 \in 1 .. n
    BY ONLY <1>5, n \in Nat, i \in 0 .. n - 1
  <2>2. f[j + 1] = i + 1
    BY ONLY <1>8, <2>1
  <2>3. e.ids[j + 1] = id /\ e.nicks[j + 1] = nick /\ e.at[j + 1] = t /\ e.scores[j + 1] = s
    <3>1. /\ e.ids[j + 1] = d.ids[i + 1] /\ e.nicks[j + 1] = ni[i + 1]
          /\ e.at[j + 1] = ta[i + 1]
      BY ONLY <1>9, <2>1, <2>2
    <3>2. ni[i + 1] = nick /\ ta[i + 1] = t
      BY ONLY <1>6, <2>1
    <3>3. e.scores[j + 1] = s
      BY ONLY <1>5, <2>1
    <3> QED BY ONLY <1>1, <3>1, <3>2, <3>3
  <2> QED BY <2>1, <2>3 DEF Entry
<1>11. ASSUME NEW k \in 1 .. n, k # j + 1
       PROVE  /\ f[k] \in 1 .. n /\ d.ids[f[k]] # id
              /\ e.ids[k] = d.ids[f[k]] /\ Entry(e, k) = Entry(d, f[k])
  <2>1. f[k] \in 1 .. n /\ f[k] # i + 1 /\ f[k] = Moved(i, j, k)
    BY ONLY <1>8, <1>11, k \in 1 .. n
  <2>2. /\ e.ids[k] = d.ids[f[k]] /\ e.scores[k] = d.scores[f[k]]
        /\ e.nicks[k] = d.nicks[f[k]] /\ e.at[k] = d.at[f[k]]
    <3>1. e.ids[k] = d.ids[f[k]] /\ e.nicks[k] = ni[f[k]] /\ e.at[k] = ta[f[k]]
      BY ONLY <1>9, k \in 1 .. n
    <3>2. ni[f[k]] = d.nicks[f[k]] /\ ta[f[k]] = d.at[f[k]]
      BY ONLY <1>6, <2>1
    <3>3. e.scores[k] = d.scores[f[k]]
      BY ONLY <1>5, <1>11, <2>1, k \in 1 .. n
    <3> QED BY ONLY <3>1, <3>2, <3>3
  <2>3. i + 1 \in 1 .. n
    BY ONLY n \in Nat, i \in 0 .. n - 1
  <2>4. d.ids[f[k]] # id
    <3>1. \A x, y \in 1 .. n : d.ids[x] = d.ids[y] => x = y
      BY ONLY Held(d), n = Len(d.scores) DEF Held
    <3> QED BY ONLY <1>1, <2>1, <2>3, <3>1
  <2> QED BY ONLY <2>1, <2>2, <2>4 DEF Entry
<1>12. Rebuilds(e, d, f, j + 1, id)
  <2>1. Arrays(e)
    BY <1>5, <1>7, <1>9 DEF Arrays
  <2>2. \A m \in 1 .. n : d.ids[m] # id => \E k \in 1 .. n : k # j + 1 /\ f[k] = m
    BY ONLY <1>1, <1>8
  <2>3. /\ Known(e) = (Known(d) \ {id}) \cup IF j + 1 = 0 THEN {} ELSE {id}
        /\ \A x \in Known(e) : e.map[x] = IF x = id THEN e.scores[j + 1] ELSE d.map[x]
    <3>1. j + 1 # 0
      BY ONLY j \in Nat
    <3> QED BY <1>3, <1>10, <3>1
  <2>4. j + 1 \in 0 .. n
    BY ONLY <1>10, j \in Nat, n \in Nat
  <2> QED BY ONLY <1>5, <1>8, <1>10, <1>11, <2>1, <2>2, <2>3, <2>4, n = Len(d.scores)
          DEF Rebuilds
<1>13. /\ Held(e)
       /\ TableOf(e) = [x \in Known(e) |-> IF x = id THEN Entry(e, j + 1) ELSE TableOf(d)[x]]
  BY <1>12, RebuiltHeld
<1>14. Known(e) = Known(d) \cup {id}
  BY <1>3
<1> QED BY <1>5, <1>10, <1>13, <1>14

\* Remove takes the entry of a known id out, and moves the ones behind it.
LEMMA RemoveHeld ==
  ASSUME NEW d, Held(d), NEW id
  PROVE  /\ Held(RemoveEntry(d, id)) /\ Known(RemoveEntry(d, id)) = Known(d) \ {id}
         /\ TableOf(RemoveEntry(d, id)) = [x \in Known(d) \ {id} |-> TableOf(d)[x]]
<1>1. CASE id \notin Known(d)
  <2>1. RemoveEntry(d, id) = d /\ Known(d) \ {id} = Known(d)
    BY <1>1 DEF RemoveEntry
  <2> QED BY <2>1, TableEntry
<1>2. CASE id \in Known(d)
  <2> PICK e : e = RemoveEntry(d, id)
    OBVIOUS
  <2>0. Arrays(d) /\ Down(d.scores)
    BY DEF Held, Arrays
  <2> PICK n \in Nat : n = Len(d.scores)
    BY <2>0, LenProperties DEF Down
  <2> PICK i \in 0 .. n - 1 : i = IndexOf(d, id)
    BY <1>2, Lookup
  <2>1. d.ids[i + 1] = id /\ i + 1 \in 1 .. n
    BY <1>2, Lookup
  <2>2. /\ Known(e) = Known(d) \ {id}
        /\ \A x \in Known(e) : e.map[x] = d.map[x]
        /\ e.scores = RemoveAtIndex(d.scores, i)
        /\ e.ids = RemoveAtIndex(d.ids, i)
        /\ e.nicks = RemoveAtIndex(d.nicks, i)
        /\ e.at = RemoveAtIndex(d.at, i)
    BY <1>2 DEF RemoveEntry, Known
  <2>3. /\ d.scores \in Seq(Int)
        /\ d.ids \in Seq(Ids) /\ d.nicks \in Seq(Nicks) /\ d.at \in Seq(Int)
        /\ Len(d.ids) = n /\ Len(d.nicks) = n /\ Len(d.at) = n
    BY <2>0 DEF Arrays, Down
  <2>4. /\ e.scores \in Seq(Int) /\ Removed(e.scores, d.scores, i)
        /\ e.ids \in Seq(Ids) /\ Removed(e.ids, d.ids, i)
        /\ e.nicks \in Seq(Nicks) /\ Removed(e.nicks, d.nicks, i)
        /\ e.at \in Seq(Int) /\ Removed(e.at, d.at, i)
    <3>1. e.scores \in Seq(Int) /\ Removed(e.scores, d.scores, i)
      BY <2>2, <2>3, RemoveMoves
    <3>2. e.ids \in Seq(Ids) /\ Removed(e.ids, d.ids, i)
      BY <2>2, <2>3, RemoveMoves
    <3>3. e.nicks \in Seq(Nicks) /\ Removed(e.nicks, d.nicks, i)
      BY <2>2, <2>3, RemoveMoves
    <3>4. e.at \in Seq(Int) /\ Removed(e.at, d.at, i)
      BY <2>2, <2>3, RemoveMoves
    <3> QED BY <3>1, <3>2, <3>3, <3>4
  <2> PICK f : f = [k \in 1 .. n - 1 |-> IF k <= i THEN k ELSE k + 1]
    OBVIOUS
  <2>5. ASSUME NEW k \in 1 .. n - 1
        PROVE  /\ f[k] \in 1 .. n /\ f[k] = (IF k <= i THEN k ELSE k + 1) /\ f[k] # i + 1
               /\ e.ids[k] = d.ids[f[k]] /\ d.ids[f[k]] # id
               /\ e.scores[k] = d.scores[f[k]] /\ Entry(e, k) = Entry(d, f[k])
    <3>1. f[k] \in 1 .. n /\ f[k] = (IF k <= i THEN k ELSE k + 1) /\ f[k] # i + 1
      BY ONLY n \in Nat, i \in 0 .. n - 1, k \in 1 .. n - 1,
              f = [x \in 1 .. n - 1 |-> IF x <= i THEN x ELSE x + 1]
    <3>2. /\ e.ids[k] = d.ids[f[k]] /\ e.scores[k] = d.scores[f[k]]
          /\ e.nicks[k] = d.nicks[f[k]] /\ e.at[k] = d.at[f[k]]
      <4>1. e.ids[k] = d.ids[IF k <= i THEN k ELSE k + 1]
        <5>1. k \in 1 .. Len(d.ids) - 1 /\ Removed(e.ids, d.ids, i)
          BY ONLY <2>3, <2>4, n = Len(d.scores), k \in 1 .. n - 1
        <5> QED BY ONLY <5>1, RemovedAt
      <4>2. e.nicks[k] = d.nicks[IF k <= i THEN k ELSE k + 1]
        <5>1. k \in 1 .. Len(d.nicks) - 1 /\ Removed(e.nicks, d.nicks, i)
          BY ONLY <2>3, <2>4, n = Len(d.scores), k \in 1 .. n - 1
        <5> QED BY ONLY <5>1, RemovedAt
      <4>3. e.at[k] = d.at[IF k <= i THEN k ELSE k + 1]
        <5>1. k \in 1 .. Len(d.at) - 1 /\ Removed(e.at, d.at, i)
          BY ONLY <2>3, <2>4, n = Len(d.scores), k \in 1 .. n - 1
        <5> QED BY ONLY <5>1, RemovedAt
      <4>4. e.scores[k] = d.scores[IF k <= i THEN k ELSE k + 1]
        <5>1. k \in 1 .. Len(d.scores) - 1 /\ Removed(e.scores, d.scores, i)
          BY ONLY <2>3, <2>4, n = Len(d.scores), k \in 1 .. n - 1
        <5> QED BY ONLY <5>1, RemovedAt
      <4> QED BY ONLY <3>1, <4>1, <4>2, <4>3, <4>4
    <3>3. d.ids[f[k]] # id
      BY <2>1, <3>1 DEF Held
    <3> QED BY <3>1, <3>2, <3>3 DEF Entry
  <2>6. Len(e.scores) = n - 1 /\ Len(e.ids) = n - 1 /\ Len(e.nicks) = n - 1 /\ Len(e.at) = n - 1
    BY ONLY <2>3, <2>4, n = Len(d.scores) DEF Removed
  <2>7. Down(e.scores)
    <3>1. ASSUME NEW k \in 1 .. n - 1, NEW l \in 1 .. n - 1, k <= l
          PROVE  e.scores[k] >= e.scores[l]
      <4>1. f[k] = (IF k <= i THEN k ELSE k + 1) /\ f[l] = (IF l <= i THEN l ELSE l + 1)
            /\ f[k] \in 1 .. n /\ f[l] \in 1 .. n
        BY <2>5
      <4>2. f[k] <= f[l]
        BY ONLY <3>1, <4>1, n \in Nat, i \in 0 .. n - 1, k \in 1 .. n - 1, l \in 1 .. n - 1
      <4>3. d.scores[f[k]] >= d.scores[f[l]]
        BY <2>0, <4>1, <4>2 DEF Down
      <4> QED BY <2>5, <4>3
    <3> QED BY <2>4, <2>6, <3>1 DEF Down
  <2>8. Rebuilds(e, d, f, 0, id)
    <3>1. Arrays(e)
      BY <2>4, <2>6, <2>7 DEF Arrays
    <3>2. \A k, l \in 1 .. n - 1 : f[k] = f[l] => k = l
      <4> TAKE k, l \in 1 .. n - 1
      <4> HAVE f[k] = f[l]
      <4>1. f[k] = (IF k <= i THEN k ELSE k + 1) /\ f[l] = (IF l <= i THEN l ELSE l + 1)
        BY <2>5
      <4> QED BY ONLY <4>1, f[k] = f[l], n \in Nat, i \in 0 .. n - 1, k \in 1 .. n - 1,
                      l \in 1 .. n - 1
    <3>3. \A m \in 1 .. n : d.ids[m] # id => \E k \in 1 .. n - 1 : f[k] = m
      <4> TAKE m \in 1 .. n
      <4> HAVE d.ids[m] # id
      <4>1. CASE m <= i
        <5>1. m \in 1 .. n - 1
          BY ONLY <4>1, n \in Nat, i \in 0 .. n - 1, m \in 1 .. n
        <5>2. f[m] = m
          BY <2>5, <4>1, <5>1
        <5> QED BY <5>1, <5>2
      <4>2. CASE m > i + 1
        <5>1. m - 1 \in 1 .. n - 1 /\ ~ m - 1 <= i /\ (m - 1) + 1 = m
          BY ONLY <4>2, n \in Nat, i \in 0 .. n - 1, m \in 1 .. n
        <5>2. f[m - 1] = m
          BY <2>5, <5>1
        <5> QED BY <5>1, <5>2
      <4>3. m # i + 1
        BY <2>1
      <4> QED BY ONLY <4>1, <4>2, <4>3, n \in Nat, i \in 0 .. n - 1, m \in 1 .. n
    <3>4. /\ Known(e) = (Known(d) \ {id}) \cup {}
          /\ \A x \in Known(e) : x # id /\ e.map[x] = d.map[x]
      BY <2>2
    <3>5. 0 \in 0 .. n - 1 /\ \A k \in 1 .. n - 1 : k # 0
      BY ONLY n \in Nat, i \in 0 .. n - 1
    <3> QED BY ONLY <2>5, <2>6, <3>1, <3>2, <3>3, <3>4, <3>5, n = Len(d.scores) DEF Rebuilds
  <2>9. /\ Held(e)
        /\ TableOf(e) = [x \in Known(e) |-> IF x = id THEN Entry(e, 0) ELSE TableOf(d)[x]]
    BY <2>8, RebuiltHeld
  <2> QED BY <2>2, <2>9
<1> QED BY <1>1, <1>2

\* The two ranks of a score are integers.
LEMMA RanksAreInts ==
  ASSUME NEW d, Held(d), NEW s \in Int
  PROVE  RankOf(d.scores, s) \in Int /\ NextRankOf(d.scores, s) \in Int
<1>1. Down(d.scores)
  BY DEF Held, Arrays
<1>2. Len(d.scores) \in Nat
  BY <1>1, LenProperties DEF Down
<1>3. RankOf(d.scores, s) \in 0 .. Len(d.scores) /\ NextRankOf(d.scores, s) \in 0 .. Len(d.scores)
  BY ONLY <1>1, RankCounts, NextRankCounts, s \in Int
<1> QED BY ONLY <1>2, <1>3

\* e is d with the entry of id set, and result tells its rank and tie count.
Sets(e, result, d, id, s, nick, t) ==
  /\ TableOf(e) =
       IF id \in Known(d) /\ d.map[id] = s THEN TableOf(d)
       ELSE [x \in Known(d) \cup {id} |->
               IF x = id THEN [score |-> s, nick |-> nick, at |-> t] ELSE TableOf(d)[x]]
  /\ result = <<RankOf(e.scores, s), TieCountOf(e.scores, s)>>

\* SetWithNickname, whatever is known of the id.
LEMMA SetHeld ==
  ASSUME NEW d, Held(d), NEW id \in Ids, NEW s \in Int, NEW nick \in Nicks, NEW t \in Int
  PROVE  /\ Held(SetWithNickname(d, id, s, nick, t))
         /\ Sets(SetWithNickname(d, id, s, nick, t), SetResult(d, id, s), d, id, s, nick, t)
<1>1. CASE id \notin Known(d)
  <2>1. SetWithNickname(d, id, s, nick, t) = NewEntry(d, id, s, nick, t)
    BY <1>1 DEF SetWithNickname
  <2>2. SetResult(d, id, s) = <<RankOf(d.scores, s), TieCountOf(d.scores, s) + 1>>
    BY <1>1 DEF SetResult
  <2> PICK e : e = NewEntry(d, id, s, nick, t)
    OBVIOUS
  <2>3. /\ Held(e)
        /\ TableOf(e) = [x \in Known(d) \cup {id} |->
             IF x = id THEN [score |-> s, nick |-> nick, at |-> t] ELSE TableOf(d)[x]]
        /\ RankOf(e.scores, s) = RankOf(d.scores, s)
        /\ NextRankOf(e.scores, s) = NextRankOf(d.scores, s) + 1
    <3>1. id \notin Known(d)
      BY <1>1
    <3>2. /\ Held(NewEntry(d, id, s, nick, t))
          /\ TableOf(NewEntry(d, id, s, nick, t)) =
               [x \in Known(d) \cup {id} |->
                  IF x = id THEN [score |-> s, nick |-> nick, at |-> t] ELSE TableOf(d)[x]]
          /\ OneMore(NewEntry(d, id, s, nick, t), d, s)
      BY <3>1, NewEntryHeld, Zenon
    <3> QED BY ONLY <3>2, e = NewEntry(d, id, s, nick, t) DEF OneMore
  <2>4. RankOf(d.scores, s) \in Int /\ NextRankOf(d.scores, s) \in Int
    BY RanksAreInts
  <2>5. TieCountOf(e.scores, s) = TieCountOf(d.scores, s) + 1
    BY ONLY <2>3, <2>4 DEF TieCountOf
  <2> QED BY <1>1, <2>1, <2>2, <2>3, <2>5 DEF Sets
<1>2. CASE id \in Known(d) /\ d.map[id] = s
  <2>1. SetWithNickname(d, id, s, nick, t) = d
    BY <1>2 DEF SetWithNickname
  <2>2. SetResult(d, id, s) = <<RankOf(d.scores, s), TieCountOf(d.scores, s) + 0>>
    BY <1>2 DEF SetResult
  <2>3. RankOf(d.scores, s) \in Int /\ NextRankOf(d.scores, s) \in Int
    BY RanksAreInts
  <2>4. TieCountOf(d.scores, s) + 0 = TieCountOf(d.scores, s)
    BY <2>3 DEF TieCountOf
  <2> QED BY <1>2, <2>1, <2>2, <2>4 DEF Sets
<1>3. CASE id \in Known(d) /\ d.map[id] # s
  <2>1. SetWithNickname(d, id, s, nick, t) = UpdateEntry(d, id, s, nick, t)
    BY <1>3 DEF SetWithNickname
  <2>2. SetResult(d, id, s) = <<UpdatedRank(d.scores, d.map[id], s),
                                UpdatedTieCount(d.scores, d.map[id], s)>>
    BY <1>3 DEF SetResult
  <2>3. id \in Known(d) /\ d.map[id] # s
    BY <1>3
  <2>4. /\ Held(UpdateEntry(d, id, s, nick, t))
        /\ TableOf(UpdateEntry(d, id, s, nick, t)) =
             [x \in Known(d) \cup {id} |->
                IF x = id THEN [score |-> s, nick |-> nick, at |-> t] ELSE TableOf(d)[x]]
        /\ RankOf(UpdateEntry(d, id, s, nick, t).scores, s) =
             UpdatedRank(d.scores, d.map[id], s)
        /\ TieCountOf(UpdateEntry(d, id, s, nick, t).scores, s) =
             UpdatedTieCount(d.scores, d.map[id], s)
    BY ONLY <2>3, UpdateHeld, Held(d), id \in Ids, s \in Int, nick \in Nicks, t \in Int
  <2> QED BY ONLY <2>1, <2>2, <2>3, <2>4 DEF Sets
<1> QED BY ONLY <1>1, <1>2, <1>3

-----------------------------------------------------------------------------
(* The invariant.                                                          *)

\* The inductive invariant: the arrays of the RankData hold its map.
Inv == Held(rank) /\ now \in Nat

\* A new RankData holds nothing.
LEMMA NewHeld == Held(NewRank) /\ Known(NewRank) = {} /\ TableOf(NewRank) = <<>>
<1>1. /\ NewRank.scores = <<>> /\ NewRank.ids = <<>> /\ NewRank.nicks = <<>>
      /\ NewRank.at = <<>> /\ NewRank.map = <<>>
  BY DEF NewRank
<1>2. Len(<<>>) = 0 /\ DOMAIN <<>> = {} /\ 1 .. 0 = {}
  OBVIOUS
<1>3. Arrays(NewRank)
  BY <1>1, <1>2 DEF Arrays, Down
<1>4. Known(NewRank) = {}
  BY <1>1, <1>2 DEF Known
<1>5. Held(NewRank)
  BY <1>1, <1>2, <1>3, <1>4 DEF Held
<1>6. TableOf(NewRank) = <<>>
  BY <1>1, <1>2 DEF TableOf
<1> QED BY <1>4, <1>5, <1>6

\* Every call and every tick of the clock keeps the invariant.
LEMMA InvStep == Inv /\ [Next]_vars => Inv'
<1> SUFFICES ASSUME Inv, [Next]_vars PROVE Inv'
  OBVIOUS
<1>0. Held(rank) /\ now \in Nat
  BY DEF Inv
<1>1. ASSUME NEW id \in Ids, NEW s \in Scores, NEW nick \in Nicks, Set(id, s, nick) PROVE Inv'
  <2>1. s \in Int /\ now \in Int
    BY <1>0, ScoresAreIntegers DEF ScoresAreIntegers
  <2>2. Held(SetWithNickname(rank, id, s, nick, now))
    BY ONLY <1>0, <2>1, SetHeld, id \in Ids, nick \in Nicks
  <2> QED BY <1>0, <1>1, <2>2 DEF Set, Inv
<1>2. ASSUME NEW id \in Ids, RemoveId(id) PROVE Inv'
  BY <1>0, <1>2, RemoveHeld DEF RemoveId, Inv
<1>3. ASSUME NEW id \in Ids, RemoveNearestOverlap(id) PROVE Inv'
  <2>1. \A near : Held(RemoveEntry(RemoveEntry(rank, id), near))
    BY <1>0, RemoveHeld
  <2>2. /\ now' = now
        /\ \/ rank' = rank
           \/ \E near : rank' = RemoveEntry(RemoveEntry(rank, id), near)
    BY <1>3 DEF RemoveNearestOverlap
  <2> QED BY <1>0, <2>1, <2>2 DEF Inv
<1>4. CASE Flush
  BY <1>0, <1>4, NewHeld DEF Flush, Inv
<1>5. CASE Tick
  BY <1>0, <1>5 DEF Tick, Inv
<1>6. CASE UNCHANGED vars
  BY <1>0, <1>6 DEF vars, Inv
<1> QED BY <1>1, <1>2, <1>3, <1>4, <1>5, <1>6 DEF Next

\* The ids in consecutive places are as many as the places.
LEMMA CountPlaces ==
  ASSUME NEW d, Held(d), NEW m \in Nat \ {0}, NEW n \in m - 1 .. Len(d.scores)
  PROVE  Cardinality({d.ids[k] : k \in m .. n}) = n - m + 1
<1> DEFINE T == {d.ids[k] : k \in m .. n}
<1>0. Len(d.scores) \in Nat
  BY LenProperties DEF Held, Arrays, Down
<1>1. IsFiniteSet(m .. n) /\ Cardinality(m .. n) = n - m + 1
  <2>1. m \in Int /\ n \in Int /\ (m > n => n - m + 1 = 0)
    BY ONLY <1>0, m \in Nat \ {0}, n \in m - 1 .. Len(d.scores)
  <2>2. Cardinality(m .. n) = IF m > n THEN 0 ELSE n - m + 1
    BY ONLY <2>1, FS_Interval
  <2>3. IsFiniteSet(m .. n)
    BY ONLY <2>1, FS_Interval
  <2> QED BY ONLY <2>1, <2>2, <2>3
<1> DEFINE f == [k \in m .. n |-> d.ids[k]]
<1>2. f \in Bijection(m .. n, T)
  <2>1. f \in [m .. n -> T]
    OBVIOUS
  <2>2. \A j, k \in m .. n : f[j] = f[k] => j = k
    <3>1. \A k \in m .. n : k \in 1 .. Len(d.scores)
      BY <1>0
    <3> QED BY <3>1 DEF Held
  <2>3. \A x \in T : \E k \in m .. n : f[k] = x
    OBVIOUS
  <2> HIDE DEF f, T
  <2>4. f \in Injection(m .. n, T)
    BY ONLY <2>1, <2>2 DEF Injection, IsInjective
  <2>5. f \in Surjection(m .. n, T)
    BY ONLY <2>1, <2>3 DEF Surjection
  <2> QED BY ONLY <2>4, <2>5 DEF Bijection
<1>3. ExistsBijection(m .. n, T)
  BY <1>2 DEF ExistsBijection
<1> HIDE DEF T
<1>4. Cardinality(T) = Cardinality(m .. n)
  BY <1>1, <1>3, FS_Bijection
<1> QED BY <1>1, <1>4 DEF T

\* What the invariant is for: the arrays are aligned.
LEMMA HeldAligned == Inv => Aligned
<1> SUFFICES ASSUME Inv PROVE Aligned
  OBVIOUS
<1>1. Held(rank)
  BY DEF Inv
<1> PICK n \in Nat : n = Len(rank.scores)
  BY <1>1, LenProperties DEF Held, Arrays, Down
<1>2. \A i \in 1 .. n - 1 : rank.scores[i] >= rank.scores[i + 1]
  <2> TAKE i \in 1 .. n - 1
  <2>1. i \in 1 .. n /\ i + 1 \in 1 .. n /\ i <= i + 1
    BY ONLY n \in Nat, i \in 1 .. n - 1
  <2>2. \A j, k \in 1 .. n : j <= k => rank.scores[j] >= rank.scores[k]
    BY <1>1 DEF Held, Arrays, Down
  <2> QED BY ONLY <2>1, <2>2
<1>3. Len(rank.ids) = n /\ Len(rank.nicks) = n /\ Len(rank.at) = n
  BY <1>1 DEF Held, Arrays
<1>4. Cardinality({rank.ids[k] : k \in 1 .. n}) = n - 1 + 1
  <2>1. 1 \in Nat \ {0} /\ n \in 1 - 1 .. Len(rank.scores)
    BY ONLY n \in Nat, n = Len(rank.scores)
  <2> QED BY ONLY <1>1, <2>1, CountPlaces
<1>5. /\ Known(rank) = {rank.ids[k] : k \in 1 .. n}
      /\ \A k \in 1 .. n : rank.map[rank.ids[k]] = rank.scores[k]
  BY <1>1 DEF Held
<1>6. n - 1 + 1 = n
  BY ONLY n \in Nat
<1>7. \A i \in 1 .. n : rank.ids[i] \in Known(rank) /\ rank.map[rank.ids[i]] = rank.scores[i]
  BY ONLY <1>5
<1> QED BY ONLY <1>2, <1>3, <1>4, <1>5, <1>6, <1>7, n = Len(rank.scores) DEF Aligned

-----------------------------------------------------------------------------
(* Ranks as counts of the table, and the page that reveals a player.       *)

\* The ids with a better score are as many as the rank, and the ids with the
\* score as many as the tie count.
LEMMA BetterCounted ==
  ASSUME NEW d, Held(d), NEW s \in Int
  PROVE  /\ RankOf(d.scores, s) = Cardinality({x \in Known(d) : d.map[x] > s})
         /\ TieCountOf(d.scores, s) = Cardinality({x \in Known(d) : d.map[x] = s})
<1>0. Down(d.scores)
  BY DEF Held, Arrays
<1>1. Len(d.scores) \in Nat /\ \A k \in 1 .. Len(d.scores) : d.scores[k] \in Int
  BY <1>0, LenProperties, ElementOfSeq DEF Down
<1> PICK n \in Nat : n = Len(d.scores)
  BY <1>1
<1> PICK b \in 0 .. n : b = RankOf(d.scores, s)
  BY ONLY <1>0, RankCounts, s \in Int, n = Len(d.scores)
<1> PICK c \in 0 .. n : c = NextRankOf(d.scores, s)
  BY ONLY <1>0, NextRankCounts, s \in Int, n = Len(d.scores)
<1>2. \A k \in 1 .. n : (k <= b <=> d.scores[k] > s) /\ (k <= c <=> d.scores[k] >= s)
  BY ONLY <1>0, RankCounts, NextRankCounts, s \in Int, n = Len(d.scores),
          b = RankOf(d.scores, s), c = NextRankOf(d.scores, s)
<1>3. b <= c
  <2>1. b > 0 => b \in 1 .. n
    BY ONLY b \in 0 .. n, n \in Nat
  <2>2. b > 0 => b <= c
    BY ONLY <1>1, <1>2, <2>1, b \in 0 .. n, n \in Nat, n = Len(d.scores), s \in Int
  <2> QED BY ONLY <2>2, b \in 0 .. n, c \in 0 .. n, n \in Nat
<1>4. /\ Known(d) = {d.ids[k] : k \in 1 .. n}
      /\ \A k \in 1 .. n : d.map[d.ids[k]] = d.scores[k]
  BY DEF Held
<1>5. \A k \in 1 .. n : k \in 1 .. b <=> d.scores[k] > s
  BY ONLY <1>2, b \in 0 .. n, n \in Nat
<1>6. \A k \in 1 .. n : k \in b + 1 .. c <=> d.scores[k] = s
  BY ONLY <1>1, <1>2, n = Len(d.scores), b \in 0 .. n, c \in 0 .. n, n \in Nat, s \in Int
<1>7. {x \in Known(d) : d.map[x] > s} = {d.ids[k] : k \in 1 .. b}
  <2>1. \A k \in 1 .. b : k \in 1 .. n
    BY ONLY b \in 0 .. n, n \in Nat
  <2> QED BY ONLY <1>4, <1>5, <2>1
<1>8. {x \in Known(d) : d.map[x] = s} = {d.ids[k] : k \in b + 1 .. c}
  <2>1. \A k \in b + 1 .. c : k \in 1 .. n
    BY ONLY b \in 0 .. n, c \in 0 .. n, n \in Nat
  <2> QED BY ONLY <1>4, <1>6, <2>1
<1>9. Cardinality({d.ids[k] : k \in 1 .. b}) = b - 1 + 1
  <2>1. 1 \in Nat \ {0} /\ b \in 1 - 1 .. Len(d.scores)
    BY ONLY n \in Nat, n = Len(d.scores), b \in 0 .. n
  <2> QED BY ONLY <2>1, Held(d), CountPlaces
<1>10. Cardinality({d.ids[k] : k \in b + 1 .. c}) = c - (b + 1) + 1
  <2> PICK q \in Nat \ {0} : q = b + 1
    BY ONLY b \in 0 .. n
  <2>1. c \in q - 1 .. Len(d.scores)
    BY ONLY <1>3, n \in Nat, n = Len(d.scores), b \in 0 .. n, c \in 0 .. n, q = b + 1
  <2>2. Cardinality({d.ids[k] : k \in q .. c}) = c - q + 1
    BY ONLY <2>1, Held(d), CountPlaces, q \in Nat \ {0}
  <2> QED BY ONLY <2>2, q = b + 1
<1>11. b - 1 + 1 = b /\ c - (b + 1) + 1 = c - b
  BY ONLY n \in Nat, b \in 0 .. n, c \in 0 .. n
<1>12. TieCountOf(d.scores, s) = c - b
  BY ONLY b = RankOf(d.scores, s), c = NextRankOf(d.scores, s) DEF TieCountOf
<1> QED BY ONLY <1>7, <1>8, <1>9, <1>10, <1>11, <1>12, b = RankOf(d.scores, s)

\* The multiple of c below i, and how far i is above it.
LEMMA DivMod ==
  ASSUME NEW i \in Nat, NEW c \in Nat \ {0}
  PROVE  /\ (i \div c) * c \in Nat /\ i % c \in 0 .. c - 1
         /\ (i \div c) * c + (i % c) = i
<1> DEFINE q == i \div c
           m == i % c
           p == q * c
<1>1. i \in Int /\ c \in Int /\ c > 0
  OBVIOUS
<1>2. m = i - c * q
  BY ONLY <1>1
<1>3. m \in 0 .. c - 1 /\ q \in Nat
  OBVIOUS
<1> HIDE DEF q, m
<1>4. p \in Nat /\ p = c * q
  BY <1>3
<1>5. m = i - p
  BY ONLY <1>2, <1>4
<1> HIDE DEF p
<1>6. p + m = i
  BY ONLY <1>1, <1>3, <1>4, <1>5
<1>7. p \in Nat /\ m \in 0 .. c - 1 /\ p + m = i
  BY ONLY <1>3, <1>4, <1>6
<1> QED BY ONLY <1>7 DEF p, q, m

\* The page that reveals id, of count entries.
Reveals(d, id, count) ==
  LET page == Leaderboard(d, PageStart(d, id, count), count) IN
  /\ Len(page.items) \in 1 .. count
  /\ RevealIndex(d, id, count) + 1 \in DOMAIN page.items
  /\ page.items[RevealIndex(d, id, count) + 1] = id
  /\ page.firstRank =
       Cardinality({x \in Known(d) : d.map[x] > d.map[page.items[1]]})

\* GetLeaderboardRevealPlayer shows a known player where it says.
LEMMA PageReveals ==
  ASSUME NEW d, Held(d), NEW id \in Known(d), NEW count \in 1 .. MaxCount
  PROVE  Reveals(d, id, count)
<1>a. count \in Nat \ {0}
  BY DEF MaxCount
<1>0. Arrays(d) /\ Len(d.scores) \in Nat
  BY LenProperties DEF Held, Arrays, Down
<1> PICK n \in Nat : n = Len(d.scores)
  BY <1>0
<1> PICK i \in 0 .. n - 1 : i = IndexOf(d, id)
  BY Lookup
<1>1. d.ids[i + 1] = id
  BY Lookup
<1>2. i \in Nat
  BY ONLY i \in 0 .. n - 1, n \in Nat
<1> PICK b \in Nat : b = (i \div count) * count
  BY <1>2, <1>a, DivMod
<1> PICK m \in 0 .. count - 1 : m = i % count
  BY <1>2, <1>a, DivMod
<1>3. b + m = i
  BY <1>2, <1>a, DivMod
<1> PICK h \in Nat : h = IF b + count < n THEN b + count ELSE n
  BY ONLY b \in Nat, n \in Nat, <1>a
<1>4. /\ b < n /\ b + 1 \in 1 .. n /\ i + 1 \in 1 .. n /\ h \in 1 .. n /\ h - b \in 1 .. count
      /\ m + 1 \in 1 .. h - b /\ b + 1 <= h
  BY ONLY <1>3, i \in 0 .. n - 1, n \in Nat, b \in Nat, m \in 0 .. count - 1,
          <1>a, h = IF b + count < n THEN b + count ELSE n
<1>5. Len(d.ids) = n /\ \A k \in 1 .. n : d.ids[k] \in Ids
  BY <1>0, ElementOfSeq DEF Arrays
<1> PICK items : items = SubSeq(d.ids, b + 1, h)
  OBVIOUS
<1>6. /\ DOMAIN items = 1 .. h - b /\ Len(items) = h - b
      /\ \A k \in 1 .. h - b : items[k] = d.ids[b + k]
  <2>1. b + 1 \in Int /\ h \in Int /\ \A k \in b + 1 .. h : d.ids[k] \in Ids
    BY ONLY <1>4, <1>5, b \in Nat, h \in Nat, n \in Nat
  <2>2. /\ items \in Seq(Ids)
        /\ Len(items) = IF b + 1 <= h THEN h - (b + 1) + 1 ELSE 0
        /\ \A k \in 1 .. h - (b + 1) + 1 : items[k] = d.ids[b + 1 + k - 1]
    BY ONLY <2>1, SubSeqProperties, items = SubSeq(d.ids, b + 1, h)
  <2>3. h - (b + 1) + 1 = h - b /\ \A k \in 1 .. h - b : b + 1 + k - 1 = b + k
    BY ONLY b \in Nat, h \in Nat
  <2>4. Len(items) = h - b /\ \A k \in 1 .. h - b : items[k] = d.ids[b + k]
    BY ONLY <1>4, <2>2, <2>3
  <2>5. DOMAIN items = 1 .. Len(items)
    BY ONLY <2>2, LenProperties
  <2> QED BY ONLY <2>4, <2>5
<1>7. items[m + 1] = id
  <2>1. b + (m + 1) = i + 1
    BY ONLY <1>3, b \in Nat, m \in 0 .. count - 1, <1>a, <1>2
  <2> QED BY ONLY <1>1, <1>4, <1>6, <2>1
<1>8. items[1] = d.ids[b + 1]
  <2>1. 1 \in 1 .. h - b
    BY ONLY <1>4, b \in Nat, h \in Nat
  <2> QED BY ONLY <1>6, <2>1
<1>9. d.map[d.ids[b + 1]] \in Int
  <2>1. d.ids[b + 1] \in Known(d)
    BY <1>4 DEF Held
  <2> QED BY ONLY <2>1, Held(d), Lookup
<1>10. RankOf(d.scores, d.map[items[1]])
         = Cardinality({x \in Known(d) : d.map[x] > d.map[items[1]]})
  BY ONLY <1>8, <1>9, Held(d), BetterCounted
<1>11. /\ PageStart(d, id, count) = b /\ RevealIndex(d, id, count) = m
  BY DEF PageStart, RevealIndex
<1>12. Leaderboard(d, b, count) = [items     |-> items,
                                   firstRank |-> RankOf(d.scores, d.map[items[1]])]
  <2>1. b \in 0 .. Len(d.scores) - 1
    BY ONLY <1>4, n = Len(d.scores), n \in Nat, b \in Nat
  <2>2. Least(b + count, Len(d.ids)) = h
    BY ONLY <1>5, h = IF b + count < n THEN b + count ELSE n DEF Least
  <2> QED BY ONLY <1>8, <2>1, <2>2, items = SubSeq(d.ids, b + 1, h),
                  count \in 1 .. MaxCount DEF Leaderboard
<1>13. Len(items) \in 1 .. count /\ m + 1 \in DOMAIN items
  BY ONLY <1>4, <1>6
<1> QED BY ONLY <1>7, <1>10, <1>11, <1>12, <1>13 DEF Reveals

\* What the invariant is for: every page that is to reveal a player does.
LEMMA HeldReveals == Inv => RevealShowsPlayer
<1> SUFFICES ASSUME Inv, NEW id \in Known(rank), NEW count \in 1 .. MaxCount
             PROVE  Reveals(rank, id, count)
  BY DEF RevealShowsPlayer, Reveals
<1> QED BY PageReveals DEF Inv

-----------------------------------------------------------------------------
(* The table the arrays implement.                                         *)

\* The table is the one the abstract specification is given.
LEMMA HeldTable == TableHeld = TableOf(rank)
BY DEF TableHeld, PlaceOf, TableOf, Entry

\* A known id has in the table the score it has in the map.
LEMMA TableScore ==
  ASSUME NEW d, Held(d), NEW id \in Known(d)
  PROVE  id \in DOMAIN TableOf(d) /\ TableOf(d)[id].score = d.map[id]
<1>1. PICK k \in 1 .. Len(d.scores) : d.ids[k] = id
  BY DEF Held
<1>2. d.map[id] = d.scores[k]
  BY <1>1 DEF Held
<1>3. TableOf(d)[id] = Entry(d, k)
  BY <1>1, TableEntry
<1> QED BY <1>2, <1>3, TableEntry DEF Entry

\* The abstract specification counts with the same Cardinality.
LEMMA TableCardinality == \A S : Table!Cardinality(S) = Cardinality(S)
BY Zenon DEF Cardinality, Table!Cardinality

\* The initial states are initial states of the table.
LEMMA TableInit == Init => Table!Init
<1> SUFFICES ASSUME Init PROVE Table!Init
  OBVIOUS
<1>1. TableOf(rank) = <<>>
  BY NewHeld DEF Init
<1> QED BY <1>1, HeldTable DEF Init, Table!Init, NoAnswer, Table!NoAnswer

\* A call to set an entry sets it in the table, and returns the counts.
LEMMA TableSet ==
  ASSUME Inv, Inv', NEW id \in Ids, NEW s \in Scores, NEW nick \in Nicks, Set(id, s, nick)
  PROVE  Table!Set(id, s, nick)
<1>0. Held(rank) /\ Held(rank') /\ now \in Int
  BY DEF Inv
<1>1. s \in Int
  BY ScoresAreIntegers DEF ScoresAreIntegers
<1>2. /\ rank' = SetWithNickname(rank, id, s, nick, now)
      /\ answer' = SetResult(rank, id, s)
      /\ call' = <<"Set", id, s, nick>> /\ now' = now
  BY DEF Set
<1>3. /\ TableHeld = TableOf(rank) /\ TableHeld' = TableOf(rank')
  BY HeldTable DEF TableHeld, PlaceOf, TableOf, Entry
<1>4. /\ TableOf(rank') =
           IF id \in Known(rank) /\ rank.map[id] = s THEN TableOf(rank)
           ELSE [x \in Known(rank) \cup {id} |->
                   IF x = id THEN [score |-> s, nick |-> nick, at |-> now]
                   ELSE TableOf(rank)[x]]
      /\ answer' = <<RankOf(rank'.scores, s), TieCountOf(rank'.scores, s)>>
  <2>1. Sets(SetWithNickname(rank, id, s, nick, now), SetResult(rank, id, s),
             rank, id, s, nick, now)
    BY ONLY <1>0, <1>1, SetHeld, id \in Ids, nick \in Nicks
  <2> QED BY ONLY <1>2, <2>1 DEF Sets
<1>5. DOMAIN TableOf(rank) = Known(rank) /\ DOMAIN TableOf(rank') = Known(rank')
  BY <1>0, TableEntry
<1>6. /\ \A x \in Known(rank) : TableOf(rank)[x].score = rank.map[x]
      /\ \A x \in Known(rank') : TableOf(rank')[x].score = rank'.map[x]
  BY <1>0, TableScore
<1>7. TableHeld' = IF id \in DOMAIN TableHeld /\ TableHeld[id].score = s THEN TableHeld
                   ELSE Table!Entered(TableHeld, id, [score |-> s, nick |-> nick, at |-> now])
  BY <1>3, <1>4, <1>5, <1>6 DEF Table!Entered
<1>8. /\ Table!Better(TableHeld', s) = {x \in Known(rank') : rank'.map[x] > s}
      /\ Table!Equal(TableHeld', s) = {x \in Known(rank') : rank'.map[x] = s}
  BY <1>3, <1>5, <1>6 DEF Table!Better, Table!Equal
<1>9. /\ RankOf(rank'.scores, s) = Cardinality({x \in Known(rank') : rank'.map[x] > s})
      /\ TieCountOf(rank'.scores, s) = Cardinality({x \in Known(rank') : rank'.map[x] = s})
  BY <1>0, <1>1, BetterCounted
<1>10. answer' = <<Table!Cardinality(Table!Better(TableHeld', s)),
                   Table!Cardinality(Table!Equal(TableHeld', s))>>
  BY <1>4, <1>8, <1>9, TableCardinality
<1> QED BY ONLY <1>2, <1>7, <1>10 DEF Table!Set

\* A call to remove an entry removes it from the table.
LEMMA TableRemove ==
  ASSUME Inv, NEW id \in Ids, RemoveId(id)
  PROVE  Table!Remove(id)
<1>1. /\ TableHeld = TableOf(rank) /\ TableHeld' = TableOf(rank')
  BY HeldTable DEF TableHeld, PlaceOf, TableOf, Entry
<1>2. TableOf(rank') = [x \in Known(rank) \ {id} |-> TableOf(rank)[x]]
  BY RemoveHeld DEF RemoveId, Inv
<1>3. DOMAIN TableOf(rank) = Known(rank)
  BY TableEntry DEF Inv
<1> QED BY <1>1, <1>2, <1>3
        DEF RemoveId, Table!Remove, Table!Without, NoAnswer, Table!NoAnswer

\* Nearest finds a neighbour that no other entry is nearer than: the scores
\* descend on both sides.
LEMMA Nearest ==
  ASSUME NEW d, Held(d), NEW id \in Known(d), Len(d.ids) # 1,
         NEW i, i = IndexOf(d, id), NEW j, j = NearestIndex(d, id)
  PROVE  /\ j \in 0 .. Len(d.scores) - 1 /\ j # i
         /\ \A k \in 1 .. Len(d.scores) :
              k # i + 1 => Abs(d.scores[i + 1] - d.scores[j + 1])
                             <= Abs(d.scores[i + 1] - d.scores[k])
<1>0. Down(d.scores) /\ Len(d.ids) = Len(d.scores)
  BY DEF Held, Arrays
<1> PICK n \in Nat : n = Len(d.scores)
  BY <1>0, LenProperties DEF Down
<1> PICK a \in [1 .. n -> Int] : a = d.scores
  BY <1>0, LenProperties DEF Down
<1>1. \A k, l \in 1 .. n : k <= l => a[k] >= a[l]
  BY <1>0 DEF Down
<1>2. i \in 0 .. n - 1 /\ n # 1
  BY <1>0, Lookup
<1>3. /\ \/ j = i + 1 /\ i < n - 1
         \/ j = i - 1 /\ i > 0
      /\ i > 0 /\ i < n - 1 =>
           (j = i + 1 <=> Abs(a[i + 1] - a[i - 1 + 1]) > Abs(a[i + 1] - a[i + 1 + 1]))
  <2>1. j = IF i = 0 THEN 1
            ELSE IF i < n - 1 /\ Abs(a[i + 1] - a[i - 1 + 1]) > Abs(a[i + 1] - a[i + 1 + 1])
                 THEN i + 1 ELSE i - 1
    BY <1>0 DEF NearestIndex
  <2> QED BY ONLY <1>2, <2>1, n \in Nat
<1>4. j \in 0 .. n - 1 /\ j # i
  BY ONLY <1>2, <1>3, n \in Nat
<1> PICK x \in Int : x = a[i + 1]
  BY <1>2
<1>5. ASSUME NEW k \in 1 .. n, k # i + 1
      PROVE  Abs(x - a[j + 1]) <= Abs(x - a[k])
  <2> PICK y \in Int : y = a[k]
    OBVIOUS
  <2> PICK z \in Int : z = a[j + 1]
    <3>1. j + 1 \in 1 .. n
      BY ONLY <1>4, n \in Nat
    <3> QED BY ONLY <3>1, a \in [1 .. n -> Int]
  <2>1. CASE k <= i
    <3>1. i \in 1 .. n /\ i + 1 \in 1 .. n /\ k <= i /\ i <= i + 1 /\ i - 1 + 1 = i
      BY ONLY <1>2, <2>1, n \in Nat, k \in 1 .. n
    <3> PICK w \in Int : w = a[i]
      BY <3>1
    <3>2. y >= w /\ w >= x
      BY ONLY <1>1, <3>1, k \in 1 .. n, y = a[k], w = a[i], x = a[i + 1]
    <3>3. CASE j = i - 1
      <4>1. z = w
        BY ONLY <3>1, <3>3, z = a[j + 1], w = a[i]
      <4> QED BY ONLY <3>2, <4>1, x \in Int, y \in Int, z \in Int, y = a[k], z = a[j + 1],
                      SMTT(30) DEF Abs
    <3>4. CASE j = i + 1
      <4>1. i > 0 /\ i < n - 1
        BY ONLY <1>2, <1>3, <2>1, <3>4, n \in Nat, k \in 1 .. n
      <4>2. Abs(x - w) > Abs(x - z)
        BY ONLY <1>3, <3>1, <3>4, <4>1, x = a[i + 1], w = a[i], z = a[j + 1]
      <4>3. Abs(x - w) <= Abs(x - y)
        BY ONLY <3>2, x \in Int, y \in Int, w \in Int DEF Abs
      <4>4. Abs(x - w) \in Int /\ Abs(x - y) \in Int /\ Abs(x - z) \in Int
        BY ONLY x \in Int, y \in Int, z \in Int, w \in Int DEF Abs
      <4>5. Abs(x - z) <= Abs(x - y)
        BY ONLY <4>2, <4>3, <4>4
      <4> QED BY ONLY <4>5, y = a[k], z = a[j + 1]
    <3> QED BY <1>3, <3>3, <3>4
  <2>2. CASE k > i + 1
    <3>1. i + 2 \in 1 .. n /\ i + 1 \in 1 .. n /\ i + 2 <= k /\ i + 1 <= i + 2
          /\ i + 1 + 1 = i + 2
      BY ONLY <1>2, <2>2, n \in Nat, k \in 1 .. n
    <3> PICK w \in Int : w = a[i + 2]
      BY <3>1
    <3>2. y <= w /\ w <= x
      BY ONLY <1>1, <3>1, k \in 1 .. n, y = a[k], w = a[i + 2], x = a[i + 1], x \in Int,
              y \in Int, w \in Int
    <3>3. CASE j = i + 1
      <4>1. z = w
        BY ONLY <3>1, <3>3, z = a[j + 1], w = a[i + 2]
      <4> QED BY ONLY <3>2, <4>1, x \in Int, y \in Int, z \in Int, y = a[k], z = a[j + 1]
              DEF Abs
    <3>4. CASE j = i - 1
      <4>1. i > 0 /\ i < n - 1 /\ j # i + 1 /\ i - 1 + 1 = j + 1
        BY ONLY <1>2, <1>3, <2>2, <3>4, n \in Nat, k \in 1 .. n
      <4>2. ~ Abs(x - z) > Abs(x - w)
        BY ONLY <1>3, <3>1, <4>1, x = a[i + 1], w = a[i + 2], z = a[j + 1]
      <4>3. Abs(x - w) <= Abs(x - y)
        BY ONLY <3>2, x \in Int, y \in Int, w \in Int DEF Abs
      <4>4. Abs(x - w) \in Int /\ Abs(x - y) \in Int /\ Abs(x - z) \in Int
        BY ONLY x \in Int, y \in Int, z \in Int, w \in Int DEF Abs
      <4>5. Abs(x - z) <= Abs(x - y)
        BY ONLY <4>2, <4>3, <4>4
      <4> QED BY ONLY <4>5, y = a[k], z = a[j + 1]
    <3> QED BY <1>3, <3>3, <3>4
  <2> QED BY ONLY <1>2, <1>5, <2>1, <2>2, n \in Nat, k \in 1 .. n
<1> QED BY ONLY <1>4, <1>5, a = d.scores, n = Len(d.scores), x = a[i + 1]

\* A call to take an entry out with its nearest neighbour does so in the
\* table, if their reaches overlap.
LEMMA TableTakeNearest ==
  ASSUME Inv, NEW id \in Ids, RemoveNearestOverlap(id)
  PROVE  Table!TakeNearest(id)
<1>0. Held(rank) /\ id \in Known(rank)
  BY DEF Inv, RemoveNearestOverlap
<1>1. /\ TableHeld = TableOf(rank) /\ TableHeld' = TableOf(rank')
  BY HeldTable DEF TableHeld, PlaceOf, TableOf, Entry
<1>2. DOMAIN TableHeld = Known(rank)
  BY <1>0, <1>1, TableEntry
<1>3. call' = <<"RemoveNearestOverlap", id>> /\ now' = now
  BY DEF RemoveNearestOverlap
<1> PICK n \in Nat : n = Len(rank.scores)
  BY <1>0, LenProperties DEF Held, Arrays, Down
<1>4. Len(rank.ids) = n /\ Known(rank) = {rank.ids[k] : k \in 1 .. n}
  BY <1>0 DEF Held, Arrays
<1>5. CASE n = 1
  <2>1. Known(rank) = {id}
    BY <1>0, <1>4, <1>5
  <2>2. answer' = NoAnswer /\ rank' = rank
    BY <1>4, <1>5 DEF RemoveNearestOverlap
  <2> QED BY <1>1, <1>2, <1>3, <2>1, <2>2 DEF Table!TakeNearest, NoAnswer, Table!NoAnswer
<1>6. CASE n # 1
  <2> PICK i \in 0 .. n - 1 : i = IndexOf(rank, id)
    BY <1>0, Lookup
  <2>1. rank.ids[i + 1] = id /\ i + 1 \in 1 .. n
    BY <1>0, Lookup
  <2> PICK j : j = NearestIndex(rank, id)
    OBVIOUS
  <2> DEFINE near == rank.ids[j + 1]
             overlap == Abs(rank.scores[i + 1] - rank.scores[j + 1]) < Reach(i) + Reach(j)
  <2>2. /\ j \in 0 .. n - 1 /\ j # i
        /\ \A k \in 1 .. n : k # i + 1 => Abs(rank.scores[i + 1] - rank.scores[j + 1])
                                            <= Abs(rank.scores[i + 1] - rank.scores[k])
    BY <1>0, <1>4, <1>6, Nearest
  <2>3. /\ answer' = <<id, near, overlap>>
        /\ rank' = IF overlap THEN RemoveEntry(RemoveEntry(rank, id), near) ELSE rank
    BY <1>4, <1>6 DEF RemoveNearestOverlap
  <2>4. \A k \in 1 .. n : /\ TableHeld[rank.ids[k]].score = rank.scores[k]
                          /\ TableHeld[rank.ids[k]].at = rank.at[k]
    <3>1. \A k \in 1 .. n : TableHeld[rank.ids[k]] = Entry(rank, k)
      BY ONLY <1>0, <1>1, TableEntry, n = Len(rank.scores)
    <3>2. \A k : Entry(rank, k).score = rank.scores[k] /\ Entry(rank, k).at = rank.at[k]
      BY DEF Entry
    <3> QED BY ONLY <3>1, <3>2
  <2>5. \A k \in 1 .. n : rank.scores[k] \in Int
    BY <1>0, ElementOfSeq DEF Held, Arrays, Down
  <2>6. j + 1 \in 1 .. n /\ j + 1 # i + 1
    BY ONLY <2>2, n \in Nat, i \in 0 .. n - 1
  <2>7. ASSUME NEW k \in 1 .. n
        PROVE  Table!Diff(id, rank.ids[k]) = Abs(rank.scores[i + 1] - rank.scores[k])
    <3>1. TableHeld[id].score = rank.scores[i + 1] /\ TableHeld[rank.ids[k]].score = rank.scores[k]
      BY <2>1, <2>4
    <3>2. rank.scores[i + 1] \in Int /\ rank.scores[k] \in Int
      BY <2>1, <2>5
    <3> QED BY ONLY <3>1, <3>2 DEF Table!Diff, Abs
  <2>8. near \in Table!NearestTo(id)
    <3>1. near \in Known(rank) \ {id}
      BY <1>0, <1>4, <2>1, <2>6 DEF Held
    <3>2. ASSUME NEW y \in Known(rank) \ {id} PROVE Table!Diff(id, near) <= Table!Diff(id, y)
      <4> PICK k \in 1 .. n : y = rank.ids[k]
        BY <1>4
      <4>1. k # i + 1
        BY <2>1
      <4> QED BY <2>2, <2>6, <2>7, <4>1
    <3> QED BY <1>2, <3>1, <3>2 DEF Table!NearestTo
  <2>9. overlap = Table!Overlap(id, near)
    <3>1. Table!Diff(id, near) = Abs(rank.scores[i + 1] - rank.scores[j + 1])
      BY <2>6, <2>7
    <3>2. /\ Reach(i) = DistanceAfter(now - TableHeld[id].at)
          /\ Reach(j) = DistanceAfter(now - TableHeld[near].at)
      BY <2>1, <2>4, <2>6 DEF Reach, DistanceAfter
    <3> QED BY <3>1, <3>2 DEF Table!Overlap
  <2> HIDE DEF overlap, near
  <2>10. TableHeld' = IF overlap THEN Table!Without(TableHeld, {id, near}) ELSE TableHeld
    <3>1. CASE overlap
      <4>1. /\ Held(RemoveEntry(rank, id)) /\ Known(RemoveEntry(rank, id)) = Known(rank) \ {id}
            /\ TableOf(RemoveEntry(rank, id)) = [x \in Known(rank) \ {id} |-> TableOf(rank)[x]]
        BY <1>0, RemoveHeld
      <4>2. TableOf(RemoveEntry(RemoveEntry(rank, id), near))
              = [x \in (Known(rank) \ {id}) \ {near} |-> TableOf(RemoveEntry(rank, id))[x]]
        BY <4>1, RemoveHeld
      <4>3. (Known(rank) \ {id}) \ {near} = Known(rank) \ {id, near}
        OBVIOUS
      <4> QED BY <1>1, <1>2, <2>3, <3>1, <4>1, <4>2, <4>3 DEF Table!Without
    <3>2. CASE ~ overlap
      BY <1>1, <2>3, <3>2
    <3> QED BY <3>1, <3>2
  <2> QED BY <1>0, <1>2, <1>3, <2>3, <2>8, <2>9, <2>10 DEF Table!TakeNearest
<1> QED BY <1>5, <1>6

\* Every step of the arrays is a step of the table.
LEMMA TableStep == Inv /\ Inv' /\ [Next]_vars => [Table!Next]_(Table!vars)
<1> SUFFICES ASSUME Inv, Inv', [Next]_vars PROVE [Table!Next]_(Table!vars)
  OBVIOUS
<1>1. ASSUME NEW id \in Ids, NEW s \in Scores, NEW nick \in Nicks, Set(id, s, nick)
      PROVE  Table!Next
  BY <1>1, TableSet DEF Table!Next
<1>2. ASSUME NEW id \in Ids, RemoveId(id) PROVE Table!Next
  BY <1>2, TableRemove DEF Table!Next
<1>3. ASSUME NEW id \in Ids, RemoveNearestOverlap(id) PROVE Table!Next
  BY <1>3, TableTakeNearest DEF Table!Next
<1>4. CASE Flush
  <2>1. TableHeld' = <<>>
    <3>1. rank' = NewRank /\ TableOf(NewRank) = <<>>
      BY <1>4, NewHeld DEF Flush
    <3>2. TableHeld' = TableOf(rank')
      BY DEF TableHeld, PlaceOf, TableOf, Entry
    <3> QED BY ONLY <3>1, <3>2
  <2> QED BY <1>4, <2>1 DEF Flush, Table!Flush, Table!Next, NoAnswer, Table!NoAnswer
<1>5. CASE Tick
  <2>1. now + 1 \in 0 .. MaxTime
    BY <1>5, TimeAssumption DEF Tick, Inv, TimeAssumption
  <2>2. TableHeld' = TableHeld
    BY <1>5 DEF Tick, TableHeld, PlaceOf
  <2> QED BY <1>5, <2>1, <2>2 DEF Tick, Table!Tick, Table!Next
<1>6. CASE UNCHANGED vars
  BY <1>6 DEF vars, Table!vars, TableHeld, PlaceOf
<1> QED BY <1>1, <1>2, <1>3, <1>4, <1>5, <1>6 DEF Next

-----------------------------------------------------------------------------
(* The theorems.                                                           *)

\* The scores descend, and every array has the entry of every known id in the
\* same place, whichever of several ties an update takes out of ScoreArray.
THEOREM ArraysAligned == Spec => []Aligned
<1>1. Init => Inv
  BY NewHeld DEF Init, Inv
<1> QED BY <1>1, InvStep, HeldAligned, PTL DEF Spec

\* The page that is to reveal a player (GetLeaderboardRevealPlayer) has the
\* player at the index it returns, and starts with the rank of its first entry,
\* for every count of entries that GetLeaderboard accepts, 1 to 100.
THEOREM PagesReveal == Spec => []RevealShowsPlayer
<1>1. Init => Inv
  BY NewHeld DEF Init, Inv
<1> QED BY <1>1, InvStep, HeldReveals, PTL DEF Spec

\* The arrays implement the table of ScoreTable: every rank and tie count
\* returned is a count of better and of equal scores, RemoveNearestOverlap
\* takes a nearest id, and scores, nicknames and times stay with their ids.
THEOREM ArraysImplementTable == Spec => ImplementsTable
<1>1. Init => Inv
  BY NewHeld DEF Init, Inv
<1> QED BY <1>1, InvStep, TableInit, TableStep, PTL DEF Spec, ImplementsTable, Table!Spec

-----------------------------------------------------------------------------
(* Calls of SetWithNickname made one after the other, in RankRace.         *)

\* The leaderboard is as a finished call has left it.
AsLeft(d) == map = d.map /\ scores = d.scores /\ ids = d.ids /\ nicks = d.nicks

\* Caller c has made its part of the update of d.
Halfway(c, d) ==
  /\ arg[c] \in [id : Ids, score : Scores, nick : Nicks]
  /\ d.map[arg[c].id] # arg[c].score /\ oldScore[c] = d.map[arg[c].id]
  /\ map = IF pc[c] \in {"find", "map"} THEN d.map
           ELSE [d.map EXCEPT ![arg[c].id] = arg[c].score]
  /\ scores = IF pc[c] \in {"find", "map", "scores"} THEN d.scores
              ELSE UpdateScoreDesc(d.scores, oldScore[c], arg[c].score)
  /\ ids = IF pc[c] # "nicks" THEN d.ids ELSE MoveWithin(d.ids, oldIndex[c], place[c])
  /\ nicks = d.nicks
  /\ pc[c] = "find" => /\ place[c] = RankOf(d.scores, oldScore[c])
                       /\ oldTies[c] = TieCountOf(d.scores, oldScore[c])
  /\ pc[c] # "find" => oldIndex[c] = IndexOf(d, arg[c].id)
  /\ pc[c] \in {"ids", "nicks"} =>
       place[c] = UpdatedRank(d.scores, oldScore[c], arg[c].score)

\* The variables of the callers.
CallTypes ==
  /\ pc \in [Callers -> {"idle", "find", "map", "scores", "ids", "nicks"}]
  /\ DOMAIN arg = Callers /\ DOMAIN oldScore = Callers /\ DOMAIN place = Callers
  /\ DOMAIN oldIndex = Callers /\ DOMAIN oldTies = Callers

\* There is an aligned leaderboard of all the ids that was the last to be
\* left, and a call that is under way has done its part on it.
RaceInv ==
  /\ exited = "no" /\ CallTypes
  /\ \E d : /\ Held(d) /\ Known(d) = Ids
            /\ (\A c \in Callers : pc[c] = "idle") => AsLeft(d)
            /\ \A c \in Callers : pc[c] # "idle" => Halfway(c, d)

\* A leaderboard of finitely many ids starts so.
LEMMA RaceStarts == IsFiniteSet(Ids) /\ RaceInit => RaceInv
<1> SUFFICES ASSUME IsFiniteSet(Ids), RaceInit PROVE RaceInv
  OBVIOUS
<1> PICK n \in Nat : n = Cardinality(Ids)
  BY FS_CardinalityType
<1>1. /\ map \in [Ids -> Scores] /\ ids \in [1 .. n -> Ids] /\ nicks \in [1 .. n -> Nicks]
      /\ scores = [i \in 1 .. n |-> map[ids[i]]] /\ IsAligned
  BY DEF RaceInit
<1>2. scores \in [1 .. n -> Int]
  BY <1>1, ScoresAreIntegers DEF ScoresAreIntegers
<1>3. \A S : \A f \in [1 .. n -> S] : f \in Seq(S) /\ Len(f) = n
  <2>1. \A S : \A f \in [1 .. n -> S] : f \in Seq(S)
    BY SeqDef
  <2>2. \A S : \A f \in [1 .. n -> S] : Len(f) = n
    <3> TAKE S
    <3> TAKE f \in [1 .. n -> S]
    <3>1. f \in Seq(S) /\ DOMAIN f = 1 .. n
      BY <2>1
    <3>2. Len(f) \in Nat /\ 1 .. Len(f) = 1 .. n
      BY <3>1, LenProperties
    <3> QED BY <3>2
  <2> QED BY <2>1, <2>2
<1> DEFINE zeros == [i \in 1 .. n |-> 0]
           d == [map |-> map, scores |-> scores, ids |-> ids, nicks |-> nicks, at |-> zeros]
<1>4. /\ scores \in Seq(Int) /\ Len(scores) = n /\ ids \in Seq(Ids) /\ Len(ids) = n
      /\ nicks \in Seq(Nicks) /\ Len(nicks) = n
      /\ zeros \in Seq(Int) /\ Len(zeros) = n
  <2>1. zeros \in [1 .. n -> Int]
    OBVIOUS
  <2> HIDE DEF zeros
  <2> QED BY ONLY <1>1, <1>2, <1>3, <2>1
<1>5. \A j, k \in 1 .. n : ids[j] = ids[k] => j = k
  <2>1. \A x \in Ids : \E i \in 1 .. n : ids[i] = x
    BY <1>1, <1>4 DEF IsAligned
  <2>2. ids \in Surjection(1 .. n, Ids)
    BY <1>1, <2>1 DEF Surjection
  <2>3. IsFiniteSet(1 .. n) /\ Cardinality(1 .. n) = Cardinality(Ids)
    <3>1. IsFiniteSet(1 .. n)
      BY ONLY FS_Interval, n \in Nat
    <3>2. Cardinality(1 .. n) = IF 1 > n THEN 0 ELSE n - 1 + 1
      BY ONLY FS_Interval, n \in Nat
    <3>3. Cardinality(1 .. n) = n
      BY ONLY <3>2, n \in Nat
    <3> QED BY ONLY <3>1, <3>3, n = Cardinality(Ids)
  <2>4. ids \in Injection(1 .. n, Ids)
    BY <2>2, <2>3, FS_SurjSameCardinalityImpliesInj
  <2> QED BY <1>1, <2>4 DEF Injection, IsInjective
<1> PICK e : e = d
  OBVIOUS
<1>6. /\ e.map = map /\ e.scores = scores /\ e.ids = ids /\ e.nicks = nicks
      /\ e.at \in Seq(Int) /\ Len(e.at) = n
  BY <1>4
<1>7. Down(scores)
  BY <1>1, <1>4 DEF Down, IsAligned
<1>8. Known(e) = Ids
  BY <1>1, <1>6 DEF Known
<1>9. Held(e)
  <2>1. Arrays(e)
    BY <1>4, <1>6, <1>7 DEF Arrays
  <2>2. Ids = {ids[k] : k \in 1 .. n}
    BY <1>1, <1>4 DEF IsAligned
  <2>3. \A k \in 1 .. n : map[ids[k]] = scores[k]
    BY <1>1
  <2> QED BY ONLY <1>4, <1>5, <1>6, <1>8, <2>1, <2>2, <2>3 DEF Held
<1>10. exited = "no" /\ CallTypes /\ \A c \in Callers : pc[c] = "idle"
  BY DEF RaceInit, CallTypes
<1>11. AsLeft(e)
  BY <1>6 DEF AsLeft
<1> HIDE DEF d
<1> QED BY ONLY <1>8, <1>9, <1>10, <1>11 DEF RaceInv

\* The leaderboard a call is under way on gives what the call needs: the id
\* is found, and the slices of UpdateScoreDesc are within the array.
LEMMA HalfwayFinds ==
  ASSUME NEW d, Held(d), Known(d) = Ids, NEW c \in Callers, Halfway(c, d)
  PROVE  /\ pc[c] = "find" =>
              /\ FindIndexOf(ids, arg[c].id, place[c], oldTies[c]) = IndexOf(d, arg[c].id)
              /\ ~ IndexOf(d, arg[c].id) < 0
         /\ pc[c] = "scores" => InBounds(c)
<1>0. arg[c].id \in Known(d) /\ oldScore[c] = d.map[arg[c].id]
  BY DEF Halfway
<1>1. Down(d.scores)
  BY DEF Held, Arrays
<1> PICK n \in Nat : n = Len(d.scores)
  BY <1>1, LenProperties DEF Down
<1> PICK i \in 0 .. n - 1 : i = IndexOf(d, arg[c].id)
  BY <1>0, Lookup
<1> PICK old \in Int : old = d.map[arg[c].id]
  BY <1>0, Lookup
<1>2. d.scores[i + 1] = old
  BY <1>0, Lookup
<1>3. pc[c] = "find" =>
        FindIndexOf(ids, arg[c].id, place[c], oldTies[c]) = IndexOf(d, arg[c].id)
  BY DEF Halfway, IndexOf
<1>4. ~ i < 0
  BY ONLY n \in Nat, i \in 0 .. n - 1
<1>5. NextRankOf(d.scores, old) > 0 /\ RankOf(d.scores, old) < n
  <2>1. /\ NextRankOf(d.scores, old) \in 0 .. n
        /\ \A k \in 1 .. n : k <= NextRankOf(d.scores, old) <=> d.scores[k] >= old
    BY ONLY <1>1, NextRankCounts, old \in Int, n = Len(d.scores)
  <2>2. /\ RankOf(d.scores, old) \in 0 .. n
        /\ \A k \in 1 .. n : k <= RankOf(d.scores, old) <=> d.scores[k] > old
    BY ONLY <1>1, RankCounts, old \in Int, n = Len(d.scores)
  <2>3. i + 1 \in 1 .. n
    BY ONLY n \in Nat, i \in 0 .. n - 1
  <2> QED BY ONLY <1>2, <2>1, <2>2, <2>3, n \in Nat, old \in Int
<1>6. pc[c] = "scores" => InBounds(c)
  BY <1>0, <1>5 DEF Halfway, InBounds
<1> QED BY <1>3, <1>4, <1>6

\* A step of the one call that is under way, before its last.
LEMMA CallGoesOn ==
  ASSUME RaceInv, Serial, NEW c \in Callers,
         Find(c) \/ PutMap(c) \/ PutScore(c) \/ MoveId(c)
  PROVE  RaceInv'
<1>0. exited = "no" /\ CallTypes /\ pc[c] # "idle"
  BY DEF RaceInv, Find, PutMap, PutScore, MoveId, At
<1>1. PICK d : Held(d) /\ Known(d) = Ids /\ Halfway(c, d)
  BY <1>0 DEF RaceInv
<1>2. ASSUME pc' = [pc EXCEPT ![c] = pc'[c]], pc'[c] \in {"map", "scores", "ids", "nicks"},
             exited' = "no", CallTypes', Halfway(c, d)'
      PROVE  RaceInv'
  <2>1. \A b \in Callers : pc'[b] # "idle" => b = c
    BY <1>0, <1>2 DEF Serial, CallTypes
  <2>2. pc'[c] # "idle"
    BY <1>2
  <2> QED BY <1>1, <1>2, <2>1, <2>2 DEF RaceInv
<1>3. CASE Find(c)
  <2>1. pc[c] = "find" /\ UNCHANGED <<dataVars, arg, oldScore, place, oldTies>>
    BY <1>3 DEF Find, At
  <2>2. /\ oldIndex' = [oldIndex EXCEPT ![c] = IndexOf(d, arg[c].id)]
        /\ pc' = [pc EXCEPT ![c] = "map"] /\ exited' = exited
    BY <1>1, <1>3, <2>1, HalfwayFinds DEF Find
  <2>3. CallTypes' /\ pc'[c] = "map" /\ oldIndex'[c] = IndexOf(d, arg[c].id)
    BY <1>0, <2>1, <2>2 DEF CallTypes
  <2>4. Halfway(c, d)'
    BY <1>1, <2>1, <2>3 DEF Halfway, dataVars
  <2> QED BY <1>0, <1>2, <2>2, <2>3, <2>4
<1>4. CASE PutMap(c)
  <2>1. /\ pc[c] = "map" /\ UNCHANGED <<scores, ids, nicks, callVars, exited>>
        /\ map' = [map EXCEPT ![arg[c].id] = arg[c].score]
        /\ pc' = [pc EXCEPT ![c] = "scores"]
    BY <1>4 DEF PutMap, At
  <2>2. CallTypes' /\ pc'[c] = "scores"
    BY <1>0, <2>1 DEF CallTypes, callVars
  <2>3. Halfway(c, d)'
    BY <1>1, <2>1, <2>2 DEF Halfway, callVars
  <2> QED BY <1>0, <1>2, <2>1, <2>2, <2>3
<1>5. CASE PutScore(c)
  <2>1. pc[c] = "scores" /\ UNCHANGED <<map, ids, nicks, arg, oldScore, oldIndex, oldTies>>
    BY <1>5 DEF PutScore, At
  <2>2. /\ scores' = UpdateScoreDesc(scores, oldScore[c], arg[c].score)
        /\ place' = [place EXCEPT ![c] = UpdatedRank(scores, oldScore[c], arg[c].score)]
        /\ pc' = [pc EXCEPT ![c] = "ids"] /\ exited' = exited
    BY <1>1, <1>5, <2>1, HalfwayFinds DEF PutScore
  <2>3. /\ CallTypes' /\ pc'[c] = "ids"
        /\ place'[c] = UpdatedRank(scores, oldScore[c], arg[c].score)
    BY <1>0, <2>1, <2>2 DEF CallTypes
  <2>4. Halfway(c, d)'
    BY <1>1, <2>1, <2>2, <2>3 DEF Halfway
  <2> QED BY <1>0, <1>2, <2>2, <2>3, <2>4
<1>6. CASE MoveId(c)
  <2>1. /\ pc[c] = "ids" /\ UNCHANGED <<map, scores, nicks, callVars, exited>>
        /\ ids' = MoveWithin(ids, oldIndex[c], place[c])
        /\ pc' = [pc EXCEPT ![c] = "nicks"]
    BY <1>6 DEF MoveId, At
  <2>2. CallTypes' /\ pc'[c] = "nicks"
    BY <1>0, <2>1 DEF CallTypes, callVars
  <2>3. Halfway(c, d)'
    BY <1>1, <2>1, <2>2 DEF Halfway, callVars
  <2> QED BY <1>0, <1>2, <2>1, <2>2, <2>3
<1> QED BY <1>3, <1>4, <1>5, <1>6

\* Calls one after the other: each finds the leaderboard the one before has
\* left, and leaves the one that UpdateEntry makes of it.
LEMMA RaceStep == RaceInv /\ Serial /\ Serial' /\ [RaceNext]_raceVars => RaceInv'
<1> SUFFICES ASSUME RaceInv, Serial, Serial', [RaceNext]_raceVars PROVE RaceInv'
  OBVIOUS
<1>0. exited = "no" /\ CallTypes
  BY DEF RaceInv
<1>1. PICK d : /\ Held(d) /\ Known(d) = Ids
               /\ (\A c \in Callers : pc[c] = "idle") => AsLeft(d)
               /\ \A c \in Callers : pc[c] # "idle" => Halfway(c, d)
  BY DEF RaceInv
<1>2. ASSUME NEW c \in Callers, NEW id \in Ids, NEW s \in Scores, NEW nick \in Nicks,
             LookUp(c, id, s, nick)
      PROVE  RaceInv'
  <2>1. /\ pc[c] = "idle" /\ map[id] # s
        /\ arg' = [arg EXCEPT ![c] = [id |-> id, score |-> s, nick |-> nick]]
        /\ oldScore' = [oldScore EXCEPT ![c] = map[id]]
        /\ place' = [place EXCEPT ![c] = RankOf(scores, map[id])]
        /\ oldTies' = [oldTies EXCEPT ![c] = TieCountOf(scores, map[id])]
        /\ pc' = [pc EXCEPT ![c] = "find"]
        /\ UNCHANGED <<dataVars, oldIndex, exited>>
    BY <1>2 DEF LookUp, At
  <2>2. /\ CallTypes' /\ pc'[c] = "find"
        /\ arg'[c] = [id |-> id, score |-> s, nick |-> nick] /\ oldScore'[c] = map[id]
        /\ place'[c] = RankOf(scores, map[id]) /\ oldTies'[c] = TieCountOf(scores, map[id])
    BY <1>0, <2>1 DEF CallTypes
  <2>3. \A b \in Callers : b # c => pc[b] = "idle" /\ pc'[b] = "idle"
    BY <1>0, <2>1, <2>2 DEF Serial, CallTypes
  <2>4. AsLeft(d)
    BY <1>1, <2>1, <2>3
  <2>5. Halfway(c, d)'
    BY <2>1, <2>2, <2>4 DEF Halfway, AsLeft, dataVars
  <2> QED BY <1>0, <1>1, <2>1, <2>2, <2>3, <2>5 DEF RaceInv
<1>3. ASSUME NEW c \in Callers, MoveNick(c) PROVE RaceInv'
  <2>1. /\ pc[c] = "nicks" /\ UNCHANGED <<map, scores, ids, callVars, exited>>
        /\ nicks' = MoveWithin([nicks EXCEPT ![oldIndex[c] + 1] = arg[c].nick],
                               oldIndex[c], place[c])
        /\ pc' = [pc EXCEPT ![c] = "idle"]
    BY <1>3 DEF MoveNick, At
  <2>2. Halfway(c, d)
    BY <1>1, <2>1
  <2>3. CallTypes' /\ \A b \in Callers : pc'[b] = "idle"
    BY <1>0, <2>1 DEF CallTypes, callVars, Serial
  <2> PICK id \in Ids, s \in Scores, nick \in Nicks :
        arg[c].id = id /\ arg[c].score = s /\ arg[c].nick = nick
    BY <2>2 DEF Halfway
  <2> PICK e : e = UpdateEntry(d, id, s, nick, 0)
    OBVIOUS
  <2>4. Held(e)
    <3>1. s \in Int /\ d.map[id] # s
      BY <2>2, ScoresAreIntegers DEF ScoresAreIntegers, Halfway
    <3>2. Held(d) /\ id \in Known(d) /\ 0 \in Int
      BY <1>1
    <3>3. Held(UpdateEntry(d, id, s, nick, 0))
      BY ONLY <3>1, <3>2, UpdateHeld, id \in Ids, nick \in Nicks
    <3> QED BY ONLY <3>3, e = UpdateEntry(d, id, s, nick, 0)
  <2>5. Known(e) = Ids
    BY <1>1 DEF UpdateEntry, Known
  <2>6. AsLeft(e)'
    BY <2>1, <2>2 DEF AsLeft, Halfway, UpdateEntry
  <2> QED BY ONLY <1>0, <2>1, <2>3, <2>4, <2>5, <2>6 DEF RaceInv
<1>4. CASE UNCHANGED raceVars
  BY <1>4 DEF raceVars, dataVars, callVars, RaceInv, CallTypes, AsLeft, Halfway
<1> QED BY <1>2, <1>3, <1>4, CallGoesOn DEF RaceNext

\* What a lock around SetWithNickname would buy, which commitQueueScoreMatch
\* has in its one goroutine: calls that do not overlap find the id of every
\* player, never exit the server, and leave the arrays aligned.  That the
\* leaderboard loses an id takes two of them.
THEOREM OneAtATime ==
  ASSUME IsFiniteSet(Ids)
  PROVE  RaceSpec /\ []Serial => [](IdIsFound /\ Intact)
<1>1. RaceInit => RaceInv
  BY RaceStarts
<1>2. RaceInv => IdIsFound /\ Intact
  <2> SUFFICES ASSUME RaceInv PROVE IdIsFound /\ Intact
    OBVIOUS
  <2>1. exited = "no"
    BY DEF RaceInv
  <2>2. ASSUME \A c \in Callers : pc[c] = "idle" PROVE IsAligned
    <3>1. PICK d : Held(d) /\ Known(d) = Ids /\ AsLeft(d)
      BY <2>2 DEF RaceInv
    <3>2. /\ Down(d.scores) /\ Len(d.ids) = Len(d.scores)
          /\ Ids = {d.ids[k] : k \in 1 .. Len(d.scores)}
          /\ \A k \in 1 .. Len(d.scores) : d.map[d.ids[k]] = d.scores[k]
      BY <3>1 DEF Held, Arrays
    <3> QED BY <3>1, <3>2 DEF AsLeft, IsAligned, Down
  <2> QED BY <2>1, <2>2 DEF IdIsFound, Intact
<1> QED BY <1>1, <1>2, RaceStep, PTL DEF RaceSpec
=============================================================================
