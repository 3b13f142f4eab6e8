----------------------------- MODULE ScoreTable -----------------------------
(***************************************************************************)
(* What a RankData promises: a table of scores by id, ranks that count the *)
(* better scores, and a neighbour that is a nearest one.                   *)
(***************************************************************************)
EXTENDS Integers, FiniteSets

CONSTANTS
  Ids, Scores, Nicks,
  Times,          \* the instants of the clock
  Distance(_)     \* how far a match may reach on one side, by waiting time

VARIABLES
  table,  \* the ids entered, each with its score, nickname and time of entry
  now,
  call,   \* the last call, with its arguments
  answer  \* what it returned

vars == <<table, now, call, answer>>

NoAnswer == <<>>

Init == table = <<>> /\ now = 0 /\ call = <<>> /\ answer = NoAnswer

Better(t, s) == {j \in DOMAIN t : t[j].score > s}
Equal(t, s) == {j \in DOMAIN t : t[j].score = s}
Without(t, ids) == [j \in DOMAIN t \ ids |-> t[j]]
Entered(t, id, e) == [j \in DOMAIN t \cup {id} |-> IF j = id THEN e ELSE t[j]]

\* A new score replaces the entry; the same score leaves it as it is.
Set(id, s, nick) ==
  /\ table' = IF id \in DOMAIN table /\ table[id].score = s THEN table
              ELSE Entered(table, id, [score |-> s, nick |-> nick, at |-> now])
  /\ answer' = <<Cardinality(Better(table', s)), Cardinality(Equal(table', s))>>
  /\ call' = <<"Set", id, s, nick>> /\ UNCHANGED now

Remove(id) ==
  /\ table' = Without(table, {id})
  /\ answer' = NoAnswer
  /\ call' = <<"Remove", id>> /\ UNCHANGED now

Diff(i, j) ==
  IF table[i].score > table[j].score THEN table[i].score - table[j].score
  ELSE table[j].score - table[i].score

NearestTo(id) ==
  {j \in DOMAIN table \ {id} : \A k \in DOMAIN table \ {id} : Diff(id, j) <= Diff(id, k)}

\* Ids i and j have waited long enough for their scores to meet.
Overlap(i, j) ==
  Diff(i, j) < Distance(now - table[i].at) + Distance(now - table[j].at)

TakeNearest(id) ==
  /\ id \in DOMAIN table
  /\ \/ /\ DOMAIN table = {id}
        /\ answer' = NoAnswer /\ UNCHANGED table
     \/ \E j \in NearestTo(id) :
          /\ answer' = <<id, j, Overlap(id, j)>>
          /\ table' = IF Overlap(id, j) THEN Without(table, {id, j}) ELSE table
  /\ call' = <<"RemoveNearestOverlap", id>> /\ UNCHANGED now

Flush ==
  /\ table' = <<>> /\ answer' = NoAnswer
  /\ call' = <<"Flush">> /\ UNCHANGED now

Tick == now + 1 \in Times /\ now' = now + 1 /\ UNCHANGED <<table, call, answer>>

Next ==
  \/ \E id \in Ids :
       \/ \E s \in Scores, nick \in Nicks : Set(id, s, nick)
       \/ Remove(id) \/ TakeNearest(id)
  \/ Flush \/ Tick

Spec == Init /\ [][Next]_vars
=============================================================================
