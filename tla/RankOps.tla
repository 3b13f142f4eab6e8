------------------------------ MODULE RankOps ------------------------------
(***************************************************************************)
(* rank-server's RankData as operators: scores in descending order, and    *)
(* ids, nicknames and times of modification in arrays beside them.  Ranks  *)
(* and indices count from 0 as in the code; sequences start at 1.          *)
(*                                                                         *)
(* UpdateScoreDesc and the removals build a slice from two parts of the    *)
(* same backing array.  Every append there writes over the removed element *)
(* or shifts a tail down, so the slices are modelled by their values.      *)
(***************************************************************************)
EXTENDS Integers, FiniteSets, Sequences, SequencesExt

CONSTANTS Ids, Scores, Nicks  \* of the players

ASSUME ScoresAreIntegers == Scores \subseteq Int

\* sort.Search(n, f), hits being the indices where f holds: the least of
\* them, or n.
Search(n, hits) ==
  IF hits = {} THEN n ELSE Min(hits)

\* GetRankZeroBasedDesc and getNextRankZeroBasedDesc
RankOf(arr, s) == Search(Len(arr), {i \in 0 .. Len(arr) - 1 : s >= arr[i + 1]})
NextRankOf(arr, s) == Search(Len(arr), {i \in 0 .. Len(arr) - 1 : s > arr[i + 1]})
TieCountOf(arr, s) == NextRankOf(arr, s) - RankOf(arr, s)

\* insert...ToSlice, remove...FromSlice, move...WithinSlice
InsertAtIndex(s, i, x) == InsertAt(s, i + 1, x)
RemoveAtIndex(s, i) == RemoveAt(s, i + 1)
\* Fault: an index behind the removed one is taken to shift.
MoveWithinShifted(s, i, j) ==
  IF i = j THEN s
  ELSE InsertAtIndex(RemoveAtIndex(s, i), IF i < j THEN j - 1 ELSE j, s[i + 1])
MoveWithin(s, i, j) ==
  IF i = j THEN s ELSE InsertAtIndex(RemoveAtIndex(s, i), j, s[i + 1])

\* InsertNewScoreDesc
InsertNewScoreDesc(arr, s) == InsertAtIndex(arr, RankOf(arr, s), s)

\* UpdateScoreDesc: one occurrence of old becomes new.  A lower score goes
\* somewhere behind the last of its old ties, a higher one before the first.
UpdateScoreDesc(arr, old, new) ==
  IF old > new
  THEN LET last == NextRankOf(arr, old)
       IN  SubSeq(arr, 1, last - 1)
             \o InsertNewScoreDesc(SubSeq(arr, last + 1, Len(arr)), new)
  ELSE LET first == RankOf(arr, old)
       IN  InsertNewScoreDesc(SubSeq(arr, 1, first), new)
             \o SubSeq(arr, first + 2, Len(arr))

\* The index UpdateScoreDesc returns as the new rank, and the new tie count.
UpdatedRank(arr, old, new) ==
  IF old > new
  THEN LET last == NextRankOf(arr, old)
       IN  last - 1 + RankOf(SubSeq(arr, last + 1, Len(arr)), new)
  ELSE RankOf(SubSeq(arr, 1, RankOf(arr, old)), new)
UpdatedTieCount(arr, old, new) ==
  1 + IF old > new
      THEN TieCountOf(SubSeq(arr, NextRankOf(arr, old) + 1, Len(arr)), new)
      ELSE TieCountOf(SubSeq(arr, 1, RankOf(arr, old)), new)

-----------------------------------------------------------------------------
(* RankData: IdScoreMap, ScoreArray, IdArray, NicknameArray,               *)
(* LastModifiedAt.                                                         *)

NewRank == [map |-> <<>>, scores |-> <<>>, ids |-> <<>>, nicks |-> <<>>, at |-> <<>>]

Known(d) == DOMAIN d.map

\* FindIndexOf: -1 if id is not in that range of IdArray.
FindIndexOf(ids, id, begin, count) ==
  LET hits == {i \in begin .. begin + count - 1 : ids[i + 1] = id}
  IN  IF hits = {} THEN -1 ELSE Min(hits)

\* The index of id, which GetWithIndex returns.
IndexOf(d, id) ==
  FindIndexOf(d.ids, id, RankOf(d.scores, d.map[id]), TieCountOf(d.scores, d.map[id]))

\* Fault: the nickname of an update is dropped.
UpdateScoreOnly(d, id, s, nick, now) ==
  LET i == IndexOf(d, id)
      j == UpdatedRank(d.scores, d.map[id], s)
  IN  [map    |-> [d.map EXCEPT ![id] = s],
       scores |-> UpdateScoreDesc(d.scores, d.map[id], s),
       ids    |-> MoveWithin(d.ids, i, j),
       nicks  |-> MoveWithin(d.nicks, i, j),
       at     |-> MoveWithin([d.at EXCEPT ![i + 1] = now], i, j)]

\* SetWithNickname for an id that is known, with another score.
UpdateEntry(d, id, s, nick, now) ==
  LET i == IndexOf(d, id)
      j == UpdatedRank(d.scores, d.map[id], s)
  IN  [map    |-> [d.map EXCEPT ![id] = s],
       scores |-> UpdateScoreDesc(d.scores, d.map[id], s),
       ids    |-> MoveWithin(d.ids, i, j),
       nicks  |-> MoveWithin([d.nicks EXCEPT ![i + 1] = nick], i, j),
       at     |-> MoveWithin([d.at EXCEPT ![i + 1] = now], i, j)]

\* SetWithNickname for a new id.
NewEntry(d, id, s, nick, now) ==
  LET j == RankOf(d.scores, s)
  IN  [map    |-> [x \in Known(d) \cup {id} |-> IF x = id THEN s ELSE d.map[x]],
       scores |-> InsertNewScoreDesc(d.scores, s),
       ids    |-> InsertAtIndex(d.ids, j, id),
       nicks  |-> InsertAtIndex(d.nicks, j, nick),
       at     |-> InsertAtIndex(d.at, j, now)]

\* SetWithNickname: the same score changes nothing, not even the nickname.
SetWithNickname(d, id, s, nick, now) ==
  IF id \notin Known(d) THEN NewEntry(d, id, s, nick, now)
  ELSE IF d.map[id] = s THEN d ELSE UpdateEntry(d, id, s, nick, now)

\* The rank and tie count SetWithNickname returns.
SetResult(d, id, s) ==
  IF id \in Known(d) /\ d.map[id] # s
  THEN <<UpdatedRank(d.scores, d.map[id], s), UpdatedTieCount(d.scores, d.map[id], s)>>
  ELSE <<RankOf(d.scores, s),
         TieCountOf(d.scores, s) + IF id \in Known(d) THEN 0 ELSE 1>>

\* Remove: an id that is not known changes nothing.
RemoveEntry(d, id) ==
  IF id \notin Known(d) THEN d
  ELSE LET i == IndexOf(d, id)
       IN  [map    |-> [x \in Known(d) \ {id} |-> d.map[x]],
            scores |-> RemoveAtIndex(d.scores, i),
            ids    |-> RemoveAtIndex(d.ids, i),
            nicks  |-> RemoveAtIndex(d.nicks, i),
            at     |-> RemoveAtIndex(d.at, i)]

Abs(x) == IF x < 0 THEN -x ELSE x

\* Nearest for a known id that is not alone: the index of a neighbour with
\* the least difference of scores, the higher score of two.
NearestIndex(d, id) ==
  LET i == IndexOf(d, id)
      diff(k) == Abs(d.scores[i + 1] - d.scores[k + 1])
  IN  IF i = 0 THEN 1
      ELSE IF i < Len(d.ids) - 1 /\ diff(i - 1) > diff(i + 1) THEN i + 1
      ELSE i - 1

\* FindDistance; elapsed and distance as in DistanceByElapsed.
FindDistance(elapsed, distance, t) ==
  LET hits == {i \in DOMAIN elapsed : elapsed[i] <= t}
  IN  IF hits = {} THEN 100
      ELSE distance[Min(hits)]

-----------------------------------------------------------------------------
(* Pages of the leaderboard, of count entries each.                        *)

\* The largest count that GetLeaderboard accepts.
MaxCount == 100

Least(i, j) == IF i < j THEN i ELSE j

\* GetLeaderboard from index start: the ids shown and the rank of the first;
\* the empty reply for a start or a count that is out of bounds.
Leaderboard(d, start, count) ==
  IF start \notin 0 .. Len(d.scores) - 1 \/ count \notin 1 .. MaxCount
  THEN [items |-> <<>>, firstRank |-> 0]
  ELSE [items |-> SubSeq(d.ids, start + 1, Least(start + count, Len(d.ids))),
        firstRank |-> RankOf(d.scores, d.map[d.ids[start + 1]])]

\* Fault: the rank is taken for the index.
RevealIndexByRank(d, id, count) ==
  IF id \in Known(d) THEN RankOf(d.scores, d.map[id]) % count ELSE -1

\* GetLeaderboardRevealPlayer: the page with id's entry, and its index there;
\* the first page and -1 for an id that is not known.
PageStart(d, id, count) ==
  IF id \in Known(d) THEN (IndexOf(d, id) \div count) * count ELSE 0
RevealIndex(d, id, count) ==
  IF id \in Known(d) THEN IndexOf(d, id) % count ELSE -1
=============================================================================
