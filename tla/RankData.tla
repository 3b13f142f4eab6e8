------------------------------ MODULE RankData ------------------------------
(***************************************************************************)
(* One RankData (rank-server's leaderboard or match pool) and the calls it *)
(* serves one after the other: an entry is set, removed, or taken out with *)
(* its nearest neighbour if the two have waited long enough for the        *)
(* distance of their scores.                                               *)
(***************************************************************************)
EXTENDS RankOps

CONSTANTS
  ElapsedTable, DistanceTable, \* DistanceByElapsed: longest time first
  MaxTime                      \* bound: the last instant of the clock

ASSUME TimeAssumption == MaxTime \in Nat

VARIABLES
  rank,   \* the RankData
  now,    \* the clock
  call,   \* the last call, with its arguments
  answer  \* what it returned

vars == <<rank, now, call, answer>>

NoAnswer == <<>>

Init == rank = NewRank /\ now = 0 /\ call = <<>> /\ answer = NoAnswer

Set(id, s, nick) ==
  /\ rank' = SetWithNickname(rank, id, s, nick, now)
  /\ answer' = SetResult(rank, id, s)
  /\ call' = <<"Set", id, s, nick>> /\ UNCHANGED now

RemoveId(id) ==
  /\ rank' = RemoveEntry(rank, id)
  /\ answer' = NoAnswer
  /\ call' = <<"Remove", id>> /\ UNCHANGED now

\* How far the entry with index i reaches now.
Reach(i) == FindDistance(ElapsedTable, DistanceTable, now - rank.at[i + 1])

\* RemoveNearestOverlap of a known id (commitQueueScoreMatch sets it first).
RemoveNearestOverlap(id) ==
  /\ id \in Known(rank)
  /\ IF Len(rank.ids) = 1
     THEN answer' = NoAnswer /\ UNCHANGED rank
     ELSE LET i == IndexOf(rank, id)
              j == NearestIndex(rank, id)
              near == rank.ids[j + 1]
              overlap ==
                Abs(rank.scores[i + 1] - rank.scores[j + 1]) < Reach(i) + Reach(j)
          IN  /\ answer' = <<id, near, overlap>>
              /\ rank' = IF overlap THEN RemoveEntry(RemoveEntry(rank, id), near)
                         ELSE rank
  /\ call' = <<"RemoveNearestOverlap", id>> /\ UNCHANGED now

Flush ==
  /\ rank' = NewRank /\ answer' = NoAnswer
  /\ call' = <<"Flush">> /\ UNCHANGED now

Tick == now < MaxTime /\ now' = now + 1 /\ UNCHANGED <<rank, call, answer>>

Next ==
  \/ \E id \in Ids :
       \/ \E s \in Scores, nick \in Nicks : Set(id, s, nick)
       \/ RemoveId(id) \/ RemoveNearestOverlap(id)
  \/ Flush \/ Tick

Spec == Init /\ [][Next]_vars

-----------------------------------------------------------------------------
\* The four arrays have one entry for every id of the map, with its score,
\* and the scores descend: what an update moves in one array it moves to the
\* same place in the others, although it takes another of several equal
\* scores out of ScoreArray than the id's own.
Aligned ==
  /\ \A i \in 1 .. Len(rank.scores) - 1 : rank.scores[i] >= rank.scores[i + 1]
  /\ Len(rank.ids) = Len(rank.scores)
  /\ Len(rank.nicks) = Len(rank.scores) /\ Len(rank.at) = Len(rank.scores)
  /\ Cardinality(Known(rank)) = Len(rank.scores)
  /\ \A i \in 1 .. Len(rank.ids) :
       rank.ids[i] \in Known(rank) /\ rank.map[rank.ids[i]] = rank.scores[i]

\* The page that is to reveal a player shows the player where it says, and
\* starts with the rank its first entry has, for every count of entries a
\* page that GetLeaderboard accepts.
RevealShowsPlayer ==
  \A id \in Known(rank), count \in 1 .. MaxCount :
    LET page == Leaderboard(rank, PageStart(rank, id, count), count) IN
    /\ Len(page.items) \in 1 .. count
    /\ RevealIndex(rank, id, count) + 1 \in DOMAIN page.items
    /\ page.items[RevealIndex(rank, id, count) + 1] = id
    /\ page.firstRank =
         Cardinality({x \in Known(rank) : rank.map[x] > rank.map[page.items[1]]})

\* The place of id in the arrays, and the table they hold.
PlaceOf(id) == CHOOSE i \in 1 .. Len(rank.ids) : rank.ids[i] = id
TableHeld ==
  [id \in {rank.ids[i] : i \in 1 .. Len(rank.ids)} |->
     [score |-> rank.scores[PlaceOf(id)], nick |-> rank.nicks[PlaceOf(id)],
      at |-> rank.at[PlaceOf(id)]]]

DistanceAfter(t) == FindDistance(ElapsedTable, DistanceTable, t)

Table == INSTANCE ScoreTable WITH table <- TableHeld, Times <- 0 .. MaxTime,
                                  Distance <- DistanceAfter

\* The arrays implement the table: ranks and tie counts returned are counts
\* of better and equal scores, the neighbour taken is a nearest one, nicknames
\* and times stay with their ids.
ImplementsTable == Table!Spec
=============================================================================
