------------------------------ MODULE RankRace ------------------------------
(***************************************************************************)
(* rank-server's leaderboard under its RPC server.  Every Rank.Set is a    *)
(* goroutine of its own and nothing orders them: the steps of two          *)
(* SetWithNickname calls interleave.  (The match pool is spared this by    *)
(* processQueueScoreMatch.)  The calls here change scores of players the   *)
(* leaderboard knows; times move as nicknames do.  A step is one statement *)
(* of SetWithNickname: what two statements do to each other when they run  *)
(* at the same moment is left out.                                         *)
(***************************************************************************)
EXTENDS RankOps

CONSTANT Callers

VARIABLES
  map, scores, ids, nicks, \* IdScoreMap, ScoreArray, IdArray, NicknameArray
  pc,         \* where each caller is in SetWithNickname
  arg,        \* the id, the score and the nickname of its call
  oldScore, oldTies, oldIndex, \* its variables of these names (oldIdArrayIndex) ...
  place,      \* ... and its oldRank, later its newRank
  exited      \* why rank-server has exited, or "no"

dataVars == <<map, scores, ids, nicks>>
callVars == <<arg, oldScore, place, oldIndex, oldTies>>
raceVars == <<dataVars, pc, callVars, exited>>

IsAligned ==
  /\ \A i \in 1 .. Len(ids) : scores[i] = map[ids[i]]
  /\ \A i, j \in 1 .. Len(ids) : i <= j => scores[i] >= scores[j]
  /\ \A id \in Ids : \E i \in 1 .. Len(ids) : ids[i] = id

RaceInit ==
  /\ map \in [Ids -> Scores]
  /\ ids \in [1 .. Cardinality(Ids) -> Ids]
  /\ nicks \in [1 .. Cardinality(Ids) -> Nicks]
  /\ scores = [i \in 1 .. Cardinality(Ids) |-> map[ids[i]]]
  /\ IsAligned
  /\ pc = [c \in Callers |-> "idle"]
  /\ arg = [c \in Callers |-> [id |-> ids[1], score |-> scores[1], nick |-> nicks[1]]]
  /\ oldScore = [c \in Callers |-> scores[1]]
  /\ place = [c \in Callers |-> 0]
  /\ oldIndex = [c \in Callers |-> 0]
  /\ oldTies = [c \in Callers |-> 0]
  /\ exited = "no"

At(c, l) == exited = "no" /\ pc[c] = l

\* Lines 168-171: the old score and its place; a new one goes on.
LookUp(c, id, s, nick) ==
  /\ At(c, "idle") /\ map[id] # s
  /\ arg' = [arg EXCEPT ![c] = [id |-> id, score |-> s, nick |-> nick]]
  /\ oldScore' = [oldScore EXCEPT ![c] = map[id]]
  /\ place' = [place EXCEPT ![c] = RankOf(scores, map[id])]
  /\ oldTies' = [oldTies EXCEPT ![c] = TieCountOf(scores, map[id])]
  /\ pc' = [pc EXCEPT ![c] = "find"]
  /\ UNCHANGED <<dataVars, oldIndex, exited>>

\* Lines 175-178: FindIndexOf among the ids of the old score, or log.Fatal.
Find(c) ==
  /\ At(c, "find")
  /\ LET i == FindIndexOf(ids, arg[c].id, place[c], oldTies[c]) IN
     IF i < 0
     THEN exited' = "not found" /\ UNCHANGED <<pc, oldIndex>>
     ELSE /\ oldIndex' = [oldIndex EXCEPT ![c] = i]
          /\ pc' = [pc EXCEPT ![c] = "map"]
          /\ UNCHANGED exited
  /\ UNCHANGED <<dataVars, arg, oldScore, place, oldTies>>

\* Line 180
PutMap(c) ==
  /\ At(c, "map")
  /\ map' = [map EXCEPT ![arg[c].id] = arg[c].score]
  /\ pc' = [pc EXCEPT ![c] = "scores"]
  /\ UNCHANGED <<scores, ids, nicks, callVars, exited>>

\* The slices of UpdateScoreDesc are within the array, as they are whenever
\* it has the old score.
InBounds(c) ==
  IF oldScore[c] > arg[c].score THEN NextRankOf(scores, oldScore[c]) > 0
  ELSE RankOf(scores, oldScore[c]) < Len(scores)

\* Line 181
PutScore(c) ==
  /\ At(c, "scores")
  /\ IF InBounds(c)
     THEN /\ scores' = UpdateScoreDesc(scores, oldScore[c], arg[c].score)
          /\ place' = [place EXCEPT ![c] = UpdatedRank(scores, oldScore[c], arg[c].score)]
          /\ pc' = [pc EXCEPT ![c] = "ids"]
          /\ UNCHANGED exited
     ELSE exited' = "panic" /\ UNCHANGED <<scores, place, pc>>
  /\ UNCHANGED <<map, ids, nicks, arg, oldScore, oldIndex, oldTies>>

\* Line 182
MoveId(c) ==
  /\ At(c, "ids")
  /\ ids' = MoveWithin(ids, oldIndex[c], place[c])
  /\ pc' = [pc EXCEPT ![c] = "nicks"]
  /\ UNCHANGED <<map, scores, nicks, callVars, exited>>

\* Lines 183-184
MoveNick(c) ==
  /\ At(c, "nicks")
  /\ nicks' = MoveWithin([nicks EXCEPT ![oldIndex[c] + 1] = arg[c].nick], oldIndex[c], place[c])
  /\ pc' = [pc EXCEPT ![c] = "idle"]
  /\ UNCHANGED <<map, scores, ids, callVars, exited>>

RaceNext ==
  \E c \in Callers :
    \/ \E id \in Ids, s \in Scores, nick \in Nicks : LookUp(c, id, s, nick)
    \/ Find(c) \/ PutMap(c) \/ PutScore(c) \/ MoveId(c) \/ MoveNick(c)

RaceSpec == RaceInit /\ [][RaceNext]_raceVars

-----------------------------------------------------------------------------
\* "CRITICAL ERROR: oldIdArrayIndex not found!" is never reached: the id of a
\* known player stands among the ids of its score.
IdIsFound == exited # "not found"

\* One call at a time, as the match pool has it and a lock would have it; and
\* what holds then: the server goes on, and its arrays are aligned whenever no
\* call is under way.
Serial == \A c, d \in Callers : pc[c] # "idle" /\ pc[d] # "idle" => c = d
Intact == exited = "no" /\ ((\A c \in Callers : pc[c] = "idle") => IsAligned)
=============================================================================
