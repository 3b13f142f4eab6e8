----------------------------- MODULE ScoreMatch -----------------------------
(***************************************************************************)
(* Matching by nearest score.  A QUEUE3 that finds no entry of its user in *)
(* match-server's NearestMatchMap starts a goroutine (queueToScoreMatch)   *)
(* which offers the user to rank-server's match pool again and again: an   *)
(* offer either takes a neighbour out of the pool together with the user,  *)
(* or leaves the user waiting there.  The agents to be joined are then     *)
(* looked up in NearestMatchMap, where each goroutine puts its own after   *)
(* its first answer.  A CANCELQUEUE takes the user out of both.            *)
(*                                                                         *)
(* The pool is one goroutine of rank-server; it is reached by an RPC that  *)
(* is sent again after an error, so a request can be served twice, or      *)
(* after its sender has gone.  Whether the nearest neighbour is near       *)
(* enough is RankData's matter: here an offer may match any user waiting.  *)
(* NearestMatchMapLock is copied into every request, so it guards nothing; *)
(* an access of the map is a step here, and what else a race on it can do  *)
(* (the Go runtime aborts the process) is a RestartMatch.                  *)
(***************************************************************************)
EXTENDS Naturals, FiniteSets

CONSTANTS
  Users,
  Workers,    \* goroutines of match-server that queue or cancel, in turn
  None,
  MaxOffers,  \* reqMaxCount: offers of a queueing goroutine
  MaxTries,   \* how often an RPC is sent again (2 in the code)
  MaxRestarts, \* bound: restarts of the two servers
  MaxBroken   \* bound: goroutines whose connection breaks under a call

ASSUME OffersAssumption == MaxOffers \in Nat \ {0}
ASSUME TriesAssumption == MaxTries \in Nat /\ MaxRestarts \in Nat
ASSUME NoneIsNobody == None \notin Users /\ None \notin Workers

VARIABLES
  pool,      \* per user, the number of its entry in the match pool, or 0
  entered,   \* per user, how many entries it has had
  requests,  \* RPC requests rank-server has not served
  nearest,   \* the users in NearestMatchMap
  pc, op, user, count, tries,  \* each goroutine: see TypeOK
  reply,     \* the answer a goroutine has, and the match it was told of
  outcome,   \* what a goroutine did for its user at its end
  matches,   \* 1 vs 1 matches created
  broken,    \* goroutines whose connection broke under a call
  \* Goroutines that queue, and what has happened since the pool told them to
  \* wait (or since their start):
  takenOut,  \* their user's entry was removed, but by no request of theirs
  unheard,   \* a request of theirs matched the user when nobody awaited it
  failed,    \* their first offer returned an error
  restarts   \* restarts of either server so far

poolVars == <<pool, entered>>
workerVars == <<pc, op, user, count, tries, reply, outcome>>
excuseVars == <<takenOut, unheard, failed>>
historyVars == <<matches, broken, excuseVars>>
vars == <<poolVars, requests, nearest, workerVars, historyVars, restarts>>

Request == [worker : Workers, user : Users, op : {"queue", "delete"},
            count : 0 .. MaxOffers, tries : 0 .. MaxTries]
Entry == [user : Users, nr : Nat]
NoReply == [kind |-> "none", mine |-> None, theirs |-> None]
Reply == [kind : {"matched"}, mine : Entry, theirs : Entry]
           \cup [kind : {"none", "removed"}, mine : {None}, theirs : {None}]

TypeOK ==
  /\ pool \in [Users -> Nat] /\ entered \in [Users -> Nat]
  /\ requests \in SUBSET Request
  /\ nearest \in SUBSET Users
  /\ pc \in [Workers -> {"free", "call", "replied", "matched", "pair",
                         "missing", "sleep", "timeout", "done"}]
  /\ op \in [Workers -> {"queue", "delete"}]
  /\ user \in [Workers -> Users \cup {None}]
  /\ \A w \in Workers : user[w] = None => pc[w] = "free"
  /\ count \in [Workers -> 0 .. MaxOffers]   \* offers answered
  /\ tries \in [Workers -> 0 .. MaxTries]    \* sends left in this call
  /\ reply \in [Workers -> Reply]
  /\ outcome \in [Workers -> {"none", "match", "bot", "retry", "silent",
                              "cancelled", "dead"}]
  /\ matches \in SUBSET [worker : Workers, a : Entry, b : Entry]
  /\ {broken, takenOut, unheard, failed} \subseteq SUBSET Workers
  /\ restarts \in 0 .. MaxRestarts

Init ==
  /\ pool = [u \in Users |-> 0] /\ entered = [u \in Users |-> 0]
  /\ requests = {} /\ nearest = {}
  /\ pc = [w \in Workers |-> "free"]
  /\ op = [w \in Workers |-> "queue"]
  /\ user = [w \in Workers |-> None]
  /\ count = [w \in Workers |-> 0]
  /\ tries = [w \in Workers |-> 0]
  /\ reply = [w \in Workers |-> NoReply]
  /\ outcome = [w \in Workers |-> "none"]
  /\ matches = {} /\ broken = {}
  /\ takenOut = {} /\ unheard = {} /\ failed = {}
  /\ restarts = 0

\* Goroutines ws end, with outcome o for their users; their locals are gone.
EndAll(ws, o) ==
  /\ pc' = [w \in Workers |-> IF w \in ws THEN "done" ELSE pc[w]]
  /\ outcome' = [w \in Workers |-> IF w \in ws THEN o ELSE outcome[w]]
  /\ count' = [w \in Workers |-> IF w \in ws THEN 0 ELSE count[w]]
  /\ tries' = [w \in Workers |-> IF w \in ws THEN 0 ELSE tries[w]]
  /\ reply' = [w \in Workers |-> IF w \in ws THEN NoReply ELSE reply[w]]

End(w, o) == EndAll({w}, o)

\* Goroutine w goes on at label l of its code.
Goto(w, l) ==
  /\ pc' = [pc EXCEPT ![w] = l]
  /\ UNCHANGED <<outcome, count, tries, reply>>

-----------------------------------------------------------------------------
(* rank-server: processQueueScoreMatch serves one request at a time.       *)

\* Goroutine m.worker still waits for the answer to m.
Awaited(m) ==
  /\ pc[m.worker] = "call"
  /\ count[m.worker] = m.count /\ tries[m.worker] = m.tries

Answer(m, r) ==
  /\ requests' = requests \ {m}
  /\ IF Awaited(m)
     THEN /\ pc' = [pc EXCEPT ![m.worker] = "replied"]
          /\ reply' = [reply EXCEPT ![m.worker] = r]
     ELSE UNCHANGED <<pc, reply>>
  /\ UNCHANGED <<nearest, op, user, count, tries, outcome, matches, broken,
                 restarts>>

\* Goroutine w queues a user.
Queueing(w) == op[w] = "queue" /\ pc[w] \notin {"free", "done"}

\* The goroutines that queue one of the users us, who is in the pool.
QueuersOf(us) == {w \in Workers : Queueing(w) /\ user[w] \in us /\ pool[user[w]] # 0}

\* An update (every offer but a goroutine's first) of a user not in the pool.
AlreadyRemoved(m) ==
  /\ m \in requests /\ m.op = "queue"
  /\ m.count > 0 /\ pool[m.user] = 0
  /\ Answer(m, [NoReply EXCEPT !.kind = "removed"])
  /\ UNCHANGED <<poolVars, excuseVars>>

\* Fault: a first offer is answered but not put into the pool.
PoolWithNothing(u) == pool

\* The pool once user u is set in it: an entry that is there stays.
PoolWith(u) == IF pool[u] = 0 THEN [pool EXCEPT ![u] = entered[u] + 1] ELSE pool

\* An offer is accepted: the user is in the pool, if it was not.
Enters(m) ==
  /\ m \in requests /\ m.op = "queue"
  /\ m.count = 0 \/ pool[m.user] # 0
  /\ entered' = [entered EXCEPT ![m.user] = IF pool[m.user] = 0 THEN @ + 1 ELSE @]

\* The user is alone in the pool, or its neighbour is too far.
Waits(m) ==
  /\ Enters(m)
  /\ pool' = PoolWith(m.user)
  /\ Answer(m, NoReply)
  /\ LET told == IF Awaited(m) THEN {m.worker} ELSE {} IN
     /\ takenOut' = takenOut \ told /\ unheard' = unheard \ told
     /\ failed' = failed \ told

\* Fault: only the neighbour is removed.
RemoveNeighbour(p, u, v) == [p EXCEPT ![v] = 0]
\* Fault: only the user itself is removed.
RemoveOwn(p, u, v) == [p EXCEPT ![u] = 0]

RemoveBoth(p, u, v) == [p EXCEPT ![u] = 0, ![v] = 0]

\* RemoveNearestOverlap: the neighbour v is near enough, both are removed.
Matches(m, v) ==
  /\ Enters(m)
  /\ v # m.user /\ pool[v] # 0
  /\ LET in == PoolWith(m.user) IN
     /\ pool' = RemoveBoth(in, m.user, v)
     /\ Answer(m, [kind |-> "matched",
                   mine |-> [user |-> m.user, nr |-> in[m.user]],
                   theirs |-> [user |-> v, nr |-> pool[v]]])
  /\ takenOut' = takenOut \cup (QueuersOf({m.user, v}) \ {m.worker})
  /\ unheard' = IF Awaited(m) THEN unheard ELSE unheard \cup {m.worker}
  /\ UNCHANGED failed

\* A cancel: whether the user was there or not, it is removed.
Deletes(m) ==
  /\ m \in requests /\ m.op = "delete"
  /\ pool' = [pool EXCEPT ![m.user] = 0]
  /\ takenOut' = takenOut \cup QueuersOf({m.user})
  /\ Answer(m, [NoReply EXCEPT !.kind = "removed"])
  /\ UNCHANGED <<entered, unheard, failed>>

Serve(m) ==
  \/ AlreadyRemoved(m) \/ Waits(m) \/ Deletes(m)
  \/ \E v \in Users : Matches(m, v)

-----------------------------------------------------------------------------
(* match-server: the requests of clients.                                  *)

\* Goroutine w's request once it has made n offers and has t sends left.
RequestOf(w, n, t) ==
  [worker |-> w, user |-> user[w], op |-> op[w], count |-> n, tries |-> t]

Start(w, u, o) ==
  /\ pc[w] = "free"
  /\ pc' = [pc EXCEPT ![w] = "call"]
  /\ op' = [op EXCEPT ![w] = o]
  /\ user' = [user EXCEPT ![w] = u]
  /\ tries' = [tries EXCEPT ![w] = MaxTries]
  /\ requests' = requests \cup
       {[worker |-> w, user |-> u, op |-> o, count |-> 0, tries |-> MaxTries]}
  /\ UNCHANGED <<poolVars, nearest, count, reply, outcome, historyVars, restarts>>

\* handleNearestScoreQueue3 for a user it does not know to be queueing.
Queue3(w, u) == u \notin nearest /\ Start(w, u, "queue")

\* The same for a user who lost the last battle: a bot, without queueing.
Queue3Defeated(w, u) ==
  /\ pc[w] = "free" /\ u \notin nearest
  /\ user' = [user EXCEPT ![w] = u]
  /\ End(w, "bot")
  /\ UNCHANGED <<poolVars, requests, nearest, op, historyVars, restarts>>

\* HandleCancelQueue, DeleteFromQueue: an RPC if the user is in the map.
CancelQueue(w, u) == u \in nearest /\ Start(w, u, "delete")

-----------------------------------------------------------------------------
(* match-server: queueToScoreMatch and the end of DeleteFromQueue.         *)

\* callWithRetry's loop goes on when n of its tries are left.
MayResend(n) == n > 0

\* The connection of w's call breaks: the request is sent again, or the
\* call returns an error and a queueing goroutine goes on as after an answer.
CallFails(w) ==
  /\ pc[w] = "call"
  /\ Cardinality(broken \cup {w}) <= MaxBroken
  /\ broken' = broken \cup {w}
  /\ IF MayResend(tries[w])
     THEN /\ tries' = [tries EXCEPT ![w] = @ - 1]
          /\ requests' = requests \cup {RequestOf(w, count[w], tries[w] - 1)}
          /\ UNCHANGED <<pc, outcome, count, reply, failed>>
     ELSE /\ IF op[w] = "queue" THEN Goto(w, "sleep") ELSE End(w, "silent")
          /\ failed' = IF op[w] = "queue" /\ count[w] = 0 THEN failed \cup {w} ELSE failed
          /\ UNCHANGED requests
  /\ UNCHANGED <<poolVars, nearest, op, user, matches, takenOut, unheard, restarts>>

\* The answer to an offer.  After the first the agent is cached and the
\* client told QUEUEOK; a user already removed is left to somebody else.
OfferAnswered(w) ==
  /\ pc[w] = "replied" /\ op[w] = "queue"
  /\ nearest' = IF count[w] = 0 THEN nearest \cup {user[w]} ELSE nearest
  /\ \/ reply[w].kind = "none" /\ Goto(w, "sleep")
     \/ reply[w].kind = "matched" /\ Goto(w, "matched")
     \/ reply[w].kind = "removed" /\ End(w, "silent")
  /\ UNCHANGED <<poolVars, requests, op, user, historyVars, restarts>>

\* The answer to a cancel: always "already removed".
DeleteAnswered(w) ==
  /\ pc[w] = "replied" /\ op[w] = "delete"
  /\ nearest' = nearest \ {user[w]}
  /\ End(w, "cancelled")
  /\ UNCHANGED <<poolVars, requests, op, user, historyVars, restarts>>

Partner(w) == reply[w].theirs.user

\* Are both agents of the match in the map?
LookUpAgents(w) ==
  /\ pc[w] = "matched"
  /\ IF {user[w], Partner(w)} \subseteq nearest
     THEN Goto(w, "pair") ELSE Goto(w, "missing")
  /\ UNCHANGED <<poolVars, requests, nearest, op, user, historyVars, restarts>>

\* Both agents leave the map.  Create1vs1Match sends both MAYBEMATCHED; if
\* that fails for one, the other is told RETRYQUEUE2 and there is no battle.
Pair(w) ==
  /\ pc[w] = "pair"
  /\ nearest' = nearest \ {user[w], Partner(w)}
  /\ \/ /\ End(w, "match")
        /\ matches' = matches \cup
             {[worker |-> w, a |-> reply[w].mine, b |-> reply[w].theirs]}
     \/ End(w, "retry") /\ UNCHANGED matches
  /\ UNCHANGED <<poolVars, requests, op, user, broken, excuseVars, restarts>>

\* Fault: an offer that failed is not counted.
OffersUncounted(w) == IF w \in failed THEN count[w] ELSE count[w] + 1

OffersMade(w) == count[w] + 1

\* 500 ms later: the next offer, an update, unless there were enough.
NextOffer(w) ==
  /\ pc[w] = "sleep"
  /\ count' = [count EXCEPT ![w] = OffersMade(w)]
  /\ IF OffersMade(w) < MaxOffers
     THEN /\ pc' = [pc EXCEPT ![w] = "call"]
          /\ tries' = [tries EXCEPT ![w] = MaxTries]
          /\ requests' = requests \cup {RequestOf(w, OffersMade(w), MaxTries)}
     ELSE /\ pc' = [pc EXCEPT ![w] = "timeout"]
          /\ UNCHANGED <<tries, requests>>
  /\ UNCHANGED <<poolVars, nearest, op, user, reply, outcome, historyVars, restarts>>

\* The loop has ended, by its bound or because an agent was missing: the
\* goroutine's own entry leaves the map and the user plays a bot.
BotMatch(w) ==
  /\ pc[w] \in {"timeout", "missing"}
  /\ nearest' = nearest \ {user[w]}
  /\ End(w, "bot")
  /\ UNCHANGED <<poolVars, requests, op, user, historyVars, restarts>>

Step(w) ==
  \/ OfferAnswered(w) \/ DeleteAnswered(w) \/ LookUpAgents(w) \/ Pair(w)
  \/ NextOffer(w) \/ BotMatch(w)

-----------------------------------------------------------------------------
RestartMatch ==
  /\ restarts < MaxRestarts
  /\ restarts' = restarts + 1
  /\ nearest' = {}
  /\ EndAll({w \in Workers : pc[w] \notin {"free", "done"}}, "dead")
  /\ UNCHANGED <<poolVars, requests, op, user, historyVars>>

RestartRank ==
  /\ restarts < MaxRestarts
  /\ restarts' = restarts + 1
  /\ pool' = [u \in Users |-> 0]
  /\ takenOut' = takenOut \cup QueuersOf(Users)
  /\ requests' = {}
  /\ UNCHANGED <<entered, nearest, workerVars, matches, broken, unheard, failed>>

Next ==
  \/ \E m \in requests : Serve(m)
  \/ \E w \in Workers, u \in Users :
       Queue3(w, u) \/ Queue3Defeated(w, u) \/ CancelQueue(w, u)
  \/ \E w \in Workers : CallFails(w) \/ Step(w)
  \/ RestartMatch \/ RestartRank

Spec == Init /\ [][Next]_vars

\* A goroutine runs, rank-server serves the requests it has received, and a
\* caller notices that its request is lost.
FairSpec ==
  /\ Spec
  /\ \A w \in Workers :
       /\ WF_vars(Step(w))
       /\ WF_vars(\E m \in requests : m.worker = w /\ Serve(m))
       /\ WF_vars(CallFails(w) /\ \A m \in requests : ~Awaited(m))

-----------------------------------------------------------------------------
\* Two 1 vs 1 matches never use the same entry of the pool, whatever is sent
\* twice, served late or looked up late: RemoveNearestOverlap removes both.
EntryUsedOnce ==
  \A x, y \in matches : x # y => {x.a, x.b} \cap {y.a, y.b} = {}

\* A queueing goroutine ends without a word ("already removed from score match
\* pool") for one of three reasons only, that have arisen since the pool last
\* told it to wait: the entry of its user was removed by the request of another
\* goroutine, a match or a cancel, or lost with rank-server; its own offer was
\* matched but the answer was lost, so that nobody knows of that match; or its
\* first offer had failed and the user may never have entered.
SilentEndHasReason ==
  \A w \in Workers :
    op[w] = "queue" /\ outcome[w] = "silent" =>
      w \in takenOut \cup unheard \cup failed

\* A user waiting in the pool is being queued, or one of its goroutines sent
\* an offer twice, died, or gave up and left the entry behind: a match or a
\* cancel leaves none.
PoolEntryServed ==
  \A u \in Users : pool[u] # 0 =>
    \E w \in Workers :
      /\ user[w] = u
      /\ Queueing(w) \/ w \in broken \/ outcome[w] \in {"bot", "dead"}

\* Every goroutine that queues a user or cancels comes to an end.
GoroutinesEnd ==
  \A w \in Workers : pc[w] = "call" ~> pc[w] = "done"

=============================================================================
