-------------------------- MODULE BattlePoolProofs --------------------------
(* The pool and the map of ongoing battles, for any number of slots,       *)
(* battles, connections, crashes and exits.                                *)
EXTENDS BattlePool, TLAPS

\* The next slot, as if the counter had moved on already.
NextIndex == IF admin.pc = "idle" THEN counter ELSE counter + 1
Live == (1 .. made) \ lost

\* The battles of this process have the slots before the next one, in turn.
SlotsInTurn ==
  \A b \in Live : made - b < Capacity =>
    \/ slotOf[b] = NextIndex - 1 - (made - b)
    \/ slotOf[b] = NextIndex - 1 - (made - b) + Capacity

\* What is known of the battle server.
PoolInv ==
  /\ SlotsInTurn /\ BattleKept
  /\ lost \subseteq 1 .. made
  /\ admin.pc = "reply" => made # 0
  /\ ~up => admin = Idle /\ pool = InitPool

\* Only battles that were made are spoken of.
Known == 0 .. made
KnownInv ==
  /\ \A s \in Sessions : told[s] \in Known /\ ses[s].game \in Known
  /\ \A u \in Users : ongoing[u] \in Known
  /\ \A c \in creators : c.game \in Known
  /\ worker.pc \in {"first", "second", "tell"} => worker.of.game \in Known
  /\ worker.pc = "delete" => worker.game \in Known

\* Who is in a match waits for it, and is in no other.
Taken(c) == {c.s, c.t}
Waits(c) == UserOf(c.s) # UserOf(c.t) /\ \A s \in Taken(c) : ses[s].pc = "matched"
Telling == worker.pc \in {"first", "second", "tell"}
MatchInv ==
  /\ \A c \in creators : Waits(c)
  /\ \A c, d \in creators : c # d => Taken(c) \cap Taken(d) = {}
  /\ Telling => Waits(worker.of) /\ \A c \in creators : Taken(c) \cap Taken(worker.of) = {}

\* A battle that does not go on, or that a handler of player u had no connection for.
Gone(b) == b = NoBattle \/ ~Alive(b)
Off(u, b) == Gone(b) \/ <<u, b>> \in unreached

\* Player u finds b in the map, unless there is nothing to find; or it was displaced.
Kept(u, b) == Off(u, b) \/ ongoing[u] = b
Held(u, b) == Kept(u, b) \/ <<u, b>> \in displaced

\* A handler that asks about a battle, or has asked.
Asking(s) == ses[s].pc \in {"connect", "ask", "broken", "resume", "remove"}

\* What session s was told and asks about is in the map, but for the exceptions.
HeldBy(s) ==
  LET u == UserOf(s)
      b == ses[s].game
  IN  /\ Held(u, told[s])
      /\ Asking(s) => Held(u, b)
      /\ ses[s].pc \in {"remove", "broken"} => Off(u, b)

\* OkWorker was asked to delete what is off, and has entered what it tells.
WorkerInv ==
  /\ worker.pc = "delete" => Off(worker.user, worker.game)
  /\ worker.pc \in {"second", "tell"} => ongoing[UserOf(worker.of.s)] = worker.of.game
  /\ worker.pc = "tell" => ongoing[UserOf(worker.of.t)] = worker.of.game

HeldInv == WorkerInv /\ \A s \in Sessions : HeldBy(s)

\* No other connection of the player of s has a request.
Alone(s) ==
  \A t \in Sessions \ {s} : UserOf(t) = UserOf(s) => ses[t].pc = "idle"

\* The player of s never had requests on two connections at a time: what s was
\* told, asks about and finds in the map agree, but for what is off.
Agrees(s) ==
  LET u == UserOf(s)
      b == ses[s].game
  IN  u \notin crowded =>
        /\ Kept(u, told[s])
        /\ ses[s].pc # "idle" => Alone(s)
        /\ Asking(s) => ongoing[u] \in {b, NoBattle} /\ Kept(u, b)
        /\ ses[s].pc \in {"queued", "matched"} =>
             \A t \in Sessions : UserOf(t) = u => Off(u, told[t])

DeleteInv ==
  worker.pc = "delete" =>
    worker.user \in crowded \/ Off(worker.user, ongoing[worker.user])

AgreeInv == DeleteInv /\ \A s \in Sessions : Agrees(s)

-----------------------------------------------------------------------------
(* Types.                                                                  *)

Sending == {"idle", "look", "connect", "ask", "broken", "resume", "remove",
            "queued", "matched"}

\* A handler goes on with a battle there is.
LEMMA GoesTypes ==
  ASSUME TypeOK, NEW s \in Sessions, NEW pc \in Sending, NEW b \in MaybeBattle,
         Goes(s, pc, b)
  PROVE  ses' \in [Sessions -> [pc : Sending, game : MaybeBattle]]
BY DEF TypeOK, Goes, Sending

\* Only battles go on, and only their entries are lost.
LEMMA GoingTypes ==
  ASSUME NEW u \in Users, NEW b
  PROVE  {u} \X Going(b) \in SUBSET (Users \X Battles)
BY DEF Going

LEMMA DisplacesTypes ==
  ASSUME TypeOK, NEW u \in Users, Displaces(u)
  PROVE  displaced' \in SUBSET (Users \X Battles)
BY GoingTypes DEF Displaces, TypeOK

\* Retrying sends players back to the start.
LEMMA RetryTypes ==
  ASSUME TypeOK, NEW c \in creators, RetryLater(c)
  PROVE  /\ ses' \in [Sessions -> [pc : Sending, game : MaybeBattle]]
         /\ creators' \in SUBSET Creator
BY DEF TypeOK, RetryLater, Sending, Creator

\* A creator stays one.
LEMMA CreatorTypes ==
  /\ \A s, t \in Sessions :
       [s |-> s, t |-> t, pc |-> "dial", game |-> NoBattle] \in Creator
  /\ \A c \in Creator : c.pc = "dial" => [c EXCEPT !.pc = "create"] \in Creator
  /\ \A c \in Creator : c.pc = "create" => [c EXCEPT !.pc = "broken"] \in Creator
  /\ \A c \in Creator, b \in Battles :
       [c EXCEPT !.pc = "send", !.game = b] \in Creator
  /\ \A c \in Creator : c.s \in Sessions /\ c.t \in Sessions /\ c.game \in MaybeBattle
BY DEF Creator, MaybeBattle

LEMMA FirstSlot == 0 \in Slots
BY PoolAssumption DEF Slots

LEMMA StartTypes ==
  /\ InitPool \in [Slots -> MaybeBattle]
  /\ InitSes \in [Sessions -> [pc : Sending, game : MaybeBattle]]
BY DEF InitPool, InitSes, MaybeBattle, Sending

\* The types hold at the start.
LEMMA TypeInit == Init => TypeOK /\ PoolInv
<1> SUFFICES ASSUME Init PROVE TypeOK /\ PoolInv
  OBVIOUS
<1>1. made \in 0 .. MaxBattles /\ crashes \in 0 .. MaxCrashes /\ exits \in 0 .. MaxExits
      /\ requests \in 0 .. MaxRequests /\ slotOf \in [Battles -> Slots] /\ counter \in Slots
  BY PoolAssumption, FirstSlot DEF Init
<1>2. TypeOK
  BY <1>1, StartTypes DEF Init, TypeOK, MaybeBattle, Sending, Idle
<1>3. PoolInv
  BY DEF Init, PoolInv, SlotsInTurn, BattleKept, Live, Idle
<1> QED  BY <1>2, <1>3

\* So do those of the sessions.
LEMMA TypeSession ==
  ASSUME TypeOK, NEW s \in Sessions,
         Queue(s) \/ Session(s) \/ ReceiveRemove(s) \/ AdminCheck(s)
  PROVE  TypeOK'
<1> USE DEF TypeOK, battleVars, historyVars, matchVars, MaybeBattle, Sending
<1>0. UserOf(s) \in Users /\ ses[s].game \in MaybeBattle /\ ongoing[UserOf(s)] \in MaybeBattle
  BY DEF Users
<1>1. CASE Queue(s)
  <2>1. crowded' \in SUBSET Users /\ requests' \in 0 .. MaxRequests
    BY <1>1, PoolAssumption DEF Queue, Users
  <2> QED  BY <1>1, <2>1, GoesTypes DEF Queue
<1>2. CASE GetFails(s)
  BY <1>2, GoesTypes DEF GetFails
<1>3. CASE Look(s)
  BY <1>0, <1>3, GoesTypes DEF Look
<1>4. CASE Connect(s)
  <2>1. unreached' \in SUBSET (Users \X Battles)
    BY <1>0, <1>4, GoingTypes DEF Connect
  <2> QED  BY <1>0, <1>4, <2>1, GoesTypes DEF Connect
<1>5. CASE AskFails(s)
  BY <1>5, GoesTypes DEF AskFails
<1>6. CASE Resume(s)
  BY <1>0, <1>6, GoesTypes DEF Resume
<1>7. CASE ReceiveRemove(s)
  BY <1>0, <1>7, GoesTypes DEF ReceiveRemove
<1>8. CASE AdminCheck(s)
  BY <1>0, <1>8, GoesTypes DEF AdminCheck
<1> QED  BY <1>1, <1>2, <1>3, <1>4, <1>5, <1>6, <1>7, <1>8 DEF Session

\* Those of matches and goroutines, ...
LEMMA TypeMatch ==
  ASSUME TypeOK, NEW s \in Sessions, NEW t \in Sessions, Match(s, t)
  PROVE  TypeOK'
<1>1. creators' \in SUBSET Creator
  BY CreatorTypes DEF TypeOK, Match
<1>2. ses' \in [Sessions -> [pc : Sending, game : MaybeBattle]]
  <2> DEFINE R == [pc : Sending, game : MaybeBattle]
             one == [ses EXCEPT ![s].pc = "matched"]
  <2>1. ses \in [Sessions -> R]
    BY DEF TypeOK, Sending
  <2>2. \A r \in R : [r EXCEPT !.pc = "matched"] \in R
    BY DEF Sending
  <2>3. one \in [Sessions -> R]
    BY <2>1, <2>2
  <2>4. ses' = [one EXCEPT ![t].pc = "matched"]
    BY DEF Match
  <2> HIDE DEF one, R
  <2>5. [one EXCEPT ![t].pc = "matched"] \in [Sessions -> R]
    BY <2>2, <2>3
  <2> QED  BY <2>4, <2>5 DEF R
<1> QED  BY <1>1, <1>2 DEF Match, TypeOK, battleVars, historyVars, Sending

LEMMA TypeCreate ==
  ASSUME TypeOK, PoolInv, NEW c \in creators, Create(c) \/ ReceiveOk(c) \/ AdminCreate(c)
  PROVE  TypeOK'
<1>0. c \in Creator
  BY DEF TypeOK
<1>1. CASE Dial(c)
  <2>1. CASE ~RetryLater(c)
    BY <1>0, <1>1, <2>1, CreatorTypes DEF Dial, TypeOK, battleVars, historyVars
  <2>2. CASE RetryLater(c)
    BY <1>1, <2>2, RetryTypes DEF Dial, TypeOK, battleVars, historyVars, Sending
  <2> QED  BY <2>1, <2>2
<1>2. CASE CreateFails(c)
  BY <1>2, RetryTypes DEF CreateFails, TypeOK, battleVars, historyVars, Sending
<1>3. CASE Exit(c)
  <2>1. exits' \in 0 .. MaxExits
    BY <1>3, PoolAssumption DEF Exit, TypeOK
  <2>2. admin' \in {Idle} \cup [pc : {"reply", "advance"}, s : Sessions]
    <3>1. CASE admin.pc = "reply"
      BY <1>3, <3>1 DEF Exit, TypeOK, Idle
    <3>2. CASE admin.pc # "reply"
      BY <1>3, <3>2 DEF Exit, TypeOK, Idle
    <3> QED  BY <3>1, <3>2
  <2>3. ongoing' \in [Users -> MaybeBattle] /\ told' \in [Sessions -> MaybeBattle]
    BY <1>3 DEF Exit, MaybeBattle
  <2> QED  BY <1>3, <2>1, <2>2, <2>3, StartTypes DEF Exit, TypeOK, Sending
<1>4. CASE ReceiveOk(c)
  BY <1>0, <1>4 DEF ReceiveOk, TypeOK, battleVars, historyVars
<1>5. CASE AdminCreate(c)
  <2>1. made + 1 \in Battles /\ made' \in 0 .. MaxBattles
    BY <1>5, PoolAssumption DEF AdminCreate, TypeOK, Battles
  <2>2. pool' \in [Slots -> MaybeBattle] /\ slotOf' \in [Battles -> Slots]
    BY <1>5, <2>1 DEF AdminCreate, TypeOK, MaybeBattle
  <2>3. admin' \in [pc : {"reply", "advance"}, s : Sessions]
    BY <1>0, <1>5, CreatorTypes DEF AdminCreate
  <2> QED  BY <1>5, <2>1, <2>2, <2>3 DEF AdminCreate, TypeOK, matchVars, historyVars
<1> QED  BY <1>1, <1>2, <1>3, <1>4, <1>5 DEF Create

\* ... and of OkWorker and the battle server.
LEMMA TypeRest ==
  ASSUME TypeOK, PoolInv, OkWorker \/ Admin \/ Finish \/ Crash \/ Restart
  PROVE  TypeOK'
<1>0. /\ worker.pc \in {"first", "second", "tell"} => worker.of \in Creator
      /\ worker.pc = "delete" => worker.user \in Users
      /\ \A s \in Sessions : UserOf(s) \in Users
  BY DEF TypeOK, Idle, Users
<1>1. CASE EnterFirst
  <2>1. worker' \in [pc : {"first", "second", "tell"}, of : Creator]
    BY <1>0, <1>1 DEF EnterFirst, TypeOK, Idle
  <2>2. ongoing' \in [Users -> MaybeBattle]
    BY <1>0, <1>1, CreatorTypes DEF EnterFirst, TypeOK
  <2>3. displaced' \in SUBSET (Users \X Battles)
    BY <1>0, <1>1, CreatorTypes, DisplacesTypes DEF EnterFirst
  <2> QED  BY <1>1, <2>1, <2>2, <2>3 DEF EnterFirst, TypeOK, battleVars
<1>2. CASE EnterSecond
  <2>1. worker' \in [pc : {"first", "second", "tell"}, of : Creator]
    BY <1>0, <1>2 DEF EnterSecond, TypeOK, Idle
  <2>2. ongoing' \in [Users -> MaybeBattle]
    BY <1>0, <1>2, CreatorTypes DEF EnterSecond, TypeOK
  <2>3. displaced' \in SUBSET (Users \X Battles)
    BY <1>0, <1>2, CreatorTypes, DisplacesTypes DEF EnterSecond
  <2> QED  BY <1>2, <2>1, <2>2, <2>3 DEF EnterSecond, TypeOK, battleVars
<1>3. CASE Tell
  <2>1. told' \in [Sessions -> MaybeBattle]
    BY <1>0, <1>3, CreatorTypes DEF Tell, TypeOK
  <2>2. ses' \in [Sessions -> [pc : Sending, game : MaybeBattle]]
    <3> DEFINE c == worker.of
    <3>1. c.s \in Sessions /\ c.t \in Sessions
      BY <1>0, <1>3, CreatorTypes DEF Tell
    <3>2. ses' = [ses EXCEPT ![c.s].pc = "idle", ![c.t].pc = "idle"]
      BY <1>3 DEF Tell
    <3> QED  BY <3>1, <3>2 DEF TypeOK, Sending
  <2> QED  BY <1>3, <2>1, <2>2 DEF Tell, TypeOK, battleVars, historyVars, Sending
<1>4. CASE Delete
  <2>1. displaced' \in SUBSET (Users \X Battles)
    <3>1. CASE ongoing[worker.user] = worker.game
      BY <1>4, <3>1 DEF Delete, TypeOK
    <3>2. CASE ongoing[worker.user] # worker.game
      BY <1>0, <1>4, <3>2, DisplacesTypes DEF Delete
    <3> QED  BY <3>1, <3>2
  <2> QED  BY <1>4, <2>1 DEF Delete, TypeOK, battleVars, MaybeBattle
<1>5. CASE AdminReply
  <2>1. made \in Battles
    <3>1. made # 0 /\ made \in 0 .. MaxBattles /\ MaxBattles \in Nat
      BY <1>5, PoolAssumption DEF AdminReply, TypeOK, PoolInv
    <3> QED  BY <3>1 DEF Battles
  <2>2. admin' \in [pc : {"reply", "advance"}, s : Sessions]
    <3>1. admin.pc = "reply" /\ Idle.pc = "idle"
      BY <1>5 DEF AdminReply, Idle
    <3>2. admin \in [pc : {"reply", "advance"}, s : Sessions]
      BY <3>1 DEF TypeOK
    <3> QED  BY <1>5, <3>2 DEF AdminReply
  <2>3. creators' \in SUBSET Creator
    <3> SUFFICES ASSUME NEW c \in creators
                 PROVE  (IF c.pc = "create" /\ c.s = admin.s
                         THEN [c EXCEPT !.pc = "send", !.game = made] ELSE c) \in Creator
      BY <1>5 DEF AdminReply
    <3> QED  BY <2>1, CreatorTypes DEF TypeOK
  <2> QED  BY <1>5, <2>2, <2>3 DEF AdminReply, TypeOK, historyVars
<1>6. CASE AdminAdvance
  <2>1. counter' \in Slots
    BY <1>6, PoolAssumption DEF AdminAdvance, NextSlot, TypeOK, Slots
  <2>2. pool' \in [Slots -> MaybeBattle]
    BY <1>6 DEF AdminAdvance, TypeOK, MaybeBattle
  <2> QED  BY <1>6, <2>1, <2>2 DEF AdminAdvance, TypeOK, matchVars, historyVars
<1>7. CASE Finish
  BY <1>7 DEF Finish, TypeOK, matchVars, historyVars, Range, MaybeBattle
<1>8. CASE Crash
  <2>1. crashes' \in 0 .. MaxCrashes /\ lost' \in SUBSET Battles /\ counter' \in Slots
    BY <1>8, PoolAssumption, FirstSlot DEF Crash, TypeOK, Battles
  <2>2. ses' \in [Sessions -> [pc : Sending, game : MaybeBattle]]
    <3>1. \A s \in Sessions :
            [ses[s] EXCEPT !.pc = "broken"] \in [pc : Sending, game : MaybeBattle]
      BY DEF TypeOK, Sending
    <3> QED  BY <1>8, <3>1 DEF Crash, TypeOK, Sending
  <2>3. creators' \in SUBSET Creator
    <3> SUFFICES ASSUME NEW c \in creators
                 PROVE  (IF c.pc = "create" THEN [c EXCEPT !.pc = "broken"] ELSE c) \in Creator
      BY <1>8 DEF Crash
    <3> QED  BY CreatorTypes DEF TypeOK
  <2> QED  BY <1>8, <2>1, <2>2, <2>3, StartTypes DEF Crash, TypeOK, historyVars, Sending
<1>9. CASE Restart
  BY <1>9 DEF Restart, TypeOK, matchVars, historyVars
<1> QED  BY <1>1, <1>2, <1>3, <1>4, <1>5, <1>6, <1>7, <1>8, <1>9 DEF OkWorker, Admin

-----------------------------------------------------------------------------
(* The pool.                                                               *)

\* A battle that is made takes a slot whose last one is a round old.
LEMMA PoolCreate ==
  ASSUME TypeOK, PoolInv, NEW c, AdminCreate(c)
  PROVE  PoolInv'
<1> DEFINE n == made + 1
<1>1. /\ made' = n /\ made \in Nat /\ n \in Battles /\ counter \in Slots
      /\ counter' = counter /\ lost' = lost /\ lost \subseteq 1 .. made
      /\ Live' = Live \cup {n} /\ \A b \in Live : b \in 1 .. made /\ b \in Battles
      /\ counter \in Int /\ 0 <= counter /\ counter < Capacity
      /\ Capacity \in Nat /\ Capacity > 1 /\ admin'.pc = "reply" /\ up' = up /\ up
  BY PoolAssumption DEF AdminCreate, TypeOK, PoolInv, Battles, Slots, Live
<1>2. NextIndex = counter /\ NextIndex' = counter + 1
  BY <1>1 DEF NextIndex, AdminCreate
<1>3. /\ slotOf'[n] = counter /\ pool'[counter] = n
      /\ \A b \in Live : slotOf'[b] = slotOf[b] /\ slotOf[b] \in Slots
      /\ \A i \in Slots : i # counter => pool'[i] = pool[i]
  BY <1>1 DEF AdminCreate, TypeOK
<1>4. SlotsInTurn'
  <2> SUFFICES ASSUME NEW b \in Live', made' - b < Capacity
               PROVE  \/ slotOf'[b] = NextIndex' - 1 - (made' - b)
                      \/ slotOf'[b] = NextIndex' - 1 - (made' - b) + Capacity
    BY DEF SlotsInTurn
  <2>1. CASE b = n
    BY <1>1, <1>2, <1>3, <2>1
  <2>2. CASE b \in Live
    <3>1. made - b < Capacity
      BY <1>1, <2>2
    <3>2. \/ slotOf[b] = NextIndex - 1 - (made - b)
          \/ slotOf[b] = NextIndex - 1 - (made - b) + Capacity
      BY <2>2, <3>1 DEF PoolInv, SlotsInTurn
    <3> QED  BY <1>1, <1>2, <1>3, <2>2, <3>2
  <2> QED  BY <1>1, <2>1, <2>2
<1>5. BattleKept'
  <2> SUFFICES ASSUME NEW b \in 1 .. n, b \notin lost, n - b < Capacity - 1
               PROVE  pool'[slotOf'[b]] = b
    BY <1>1 DEF BattleKept
  <2>1. CASE b = n
    BY <1>3, <2>1
  <2>2. CASE b # n
    <3>1. b \in 1 .. made /\ b \in Live /\ made - b < Capacity - 2
      BY <1>1, <2>2 DEF Live
    <3>2. \/ slotOf[b] = counter - 1 - (made - b)
          \/ slotOf[b] = counter - 1 - (made - b) + Capacity
      BY <1>1, <1>2, <3>1 DEF PoolInv, SlotsInTurn
    <3>3. slotOf[b] # counter
      BY <1>1, <3>1, <3>2
    <3>4. pool[slotOf[b]] = b
      BY <1>1, <3>1 DEF PoolInv, BattleKept
    <3> QED  BY <1>3, <3>1, <3>3, <3>4
  <2> QED  BY <2>1, <2>2
<1> QED  BY <1>1, <1>4, <1>5 DEF PoolInv

\* When the counter wraps, the first slot's battle is a round old.
LEMMA PoolAdvance == TypeOK /\ PoolInv /\ AdminAdvance => PoolInv'
<1> SUFFICES ASSUME TypeOK, PoolInv, AdminAdvance PROVE PoolInv'
  OBVIOUS
<1>1. /\ made' = made /\ made \in Nat /\ lost' = lost /\ Live' = Live /\ slotOf' = slotOf
      /\ \A b \in Live : b \in 1 .. made /\ b \in Battles /\ slotOf[b] \in Slots
      /\ counter \in 0 .. Capacity - 1 /\ Capacity \in Nat /\ Capacity > 1 /\ up' = up
      /\ admin.pc = "advance" /\ admin' = Idle
  BY PoolAssumption DEF AdminAdvance, TypeOK, Battles, Slots, Live
<1>2. /\ NextIndex = counter + 1 /\ NextIndex' = counter'
      /\ \/ counter' = counter + 1 /\ counter' # 0
         \/ counter' = 0 /\ counter + 1 = Capacity
  BY <1>1 DEF AdminAdvance, NextSlot, NextIndex, Idle
<1>3. SlotsInTurn'
  <2> SUFFICES ASSUME NEW b \in Live, made - b < Capacity
               PROVE  \/ slotOf[b] = NextIndex' - 1 - (made - b)
                      \/ slotOf[b] = NextIndex' - 1 - (made - b) + Capacity
    BY <1>1 DEF SlotsInTurn
  <2>1. \/ slotOf[b] = counter - (made - b)
        \/ slotOf[b] = counter - (made - b) + Capacity
    BY <1>1, <1>2 DEF PoolInv, SlotsInTurn
  <2>2. slotOf[b] \in 0 .. Capacity - 1
    BY <1>1 DEF Slots
  <2> QED  BY <1>1, <1>2, <2>1, <2>2
<1>4. BattleKept'
  <2> SUFFICES ASSUME NEW b \in 1 .. made, b \notin lost, made - b < Capacity - 1
               PROVE  pool'[slotOf[b]] = b
    BY <1>1 DEF BattleKept
  <2>1. b \in Live /\ pool[slotOf[b]] = b /\ b # NoBattle
    BY DEF Live, PoolInv, BattleKept, NoBattle
  <2>2. \/ slotOf[b] = counter - (made - b)
        \/ slotOf[b] = counter - (made - b) + Capacity
    BY <1>1, <1>2, <2>1 DEF PoolInv, SlotsInTurn
  <2>3. CASE counter' # 0
    BY <2>1, <2>3 DEF AdminAdvance
  <2>4. CASE counter' = 0
    <3>1. slotOf[b] # 0
      BY <1>1, <1>2, <2>1, <2>2, <2>4
    <3> QED  BY <1>1, <2>1, <2>4, <3>1 DEF AdminAdvance, TypeOK
  <2> QED  BY <2>3, <2>4
<1>5. up
  BY <1>1 DEF PoolInv, Idle
<1> QED  BY <1>1, <1>3, <1>4, <1>5 DEF PoolInv, Idle

\* A step that leaves the battle server alone leaves its pool alone.
LEMMA PoolKept ==
  ASSUME TypeOK, PoolInv, UNCHANGED <<pool, counter, made, slotOf, lost, up>>,
         \/ UNCHANGED admin
         \/ admin.pc = "reply" /\ admin' = [admin EXCEPT !.pc = "advance"]
  PROVE  PoolInv'
<1>1. /\ admin'.pc = "idle" <=> admin.pc = "idle"
      /\ admin'.pc = "reply" => admin.pc = "reply"
      /\ ~up => UNCHANGED admin
  <2>1. CASE UNCHANGED admin
    BY <2>1
  <2>2. CASE admin.pc = "reply" /\ admin' = [admin EXCEPT !.pc = "advance"]
    <3>1. Idle.pc = "idle"
      BY DEF Idle
    <3>2. admin \in [pc : {"reply", "advance"}, s : Sessions]
      BY <2>2, <3>1 DEF TypeOK
    <3> QED  BY <2>2, <3>1, <3>2 DEF PoolInv
  <2> QED  BY <2>1, <2>2
<1> QED
  BY <1>1 DEF PoolInv, SlotsInTurn, BattleKept, Live, NextIndex

LEMMA PoolNext == TypeOK /\ PoolInv /\ [Next]_vars => PoolInv'
<1> SUFFICES ASSUME TypeOK, PoolInv, [Next]_vars PROVE PoolInv'
  OBVIOUS
<1> USE DEF battleVars, historyVars, matchVars
<1>1. ASSUME NEW s \in Sessions,
             Queue(s) \/ Session(s) \/ ReceiveRemove(s) \/ AdminCheck(s)
      PROVE  PoolInv'
  BY <1>1, PoolKept
     DEF Queue, Session, GetFails, Look, Connect, AskFails, Resume, ReceiveRemove, AdminCheck
<1>2. ASSUME NEW s \in Sessions, NEW t \in Sessions, Match(s, t)  PROVE PoolInv'
  BY <1>2, PoolKept DEF Match
<1>3. ASSUME NEW c \in creators, Create(c) \/ ReceiveOk(c)  PROVE PoolInv'
  BY <1>3, PoolKept DEF Create, Dial, CreateFails, Exit, ReceiveOk
<1>4. ASSUME NEW c \in creators, AdminCreate(c)  PROVE PoolInv'
  BY <1>4, PoolCreate
<1>5. CASE OkWorker \/ Finish
  BY <1>5, PoolKept DEF OkWorker, EnterFirst, EnterSecond, Tell, Delete, Finish
<1>6. CASE AdminReply
  BY <1>6, PoolKept DEF AdminReply
<1>7. CASE AdminAdvance
  BY <1>7, PoolAdvance
<1>8. CASE Crash
  <2>1. Live' = {} /\ lost' = 1 .. made' /\ admin' = Idle /\ pool' = InitPool
    BY <1>8 DEF Crash, Live
  <2> QED  BY <2>1 DEF PoolInv, SlotsInTurn, BattleKept, Idle
<1>9. CASE Restart
  BY <1>9 DEF Restart, PoolInv, SlotsInTurn, BattleKept, Live, NextIndex
<1>10. CASE UNCHANGED vars
  BY <1>10, PoolKept DEF vars
<1> QED  BY <1>1, <1>2, <1>3, <1>4, <1>5, <1>6, <1>7, <1>8, <1>9, <1>10 DEF Next, Admin

\* Every step keeps the types.
LEMMA TypeNext == TypeOK /\ PoolInv /\ [Next]_vars => TypeOK'
<1> SUFFICES ASSUME TypeOK, PoolInv, [Next]_vars PROVE TypeOK'
  OBVIOUS
<1>1. CASE UNCHANGED vars
  BY <1>1 DEF vars, TypeOK, battleVars, historyVars, matchVars
<1> QED  BY <1>1, TypeSession, TypeMatch, TypeCreate, TypeRest DEF Next

LEMMA Typed == Spec => [](TypeOK /\ PoolInv)
<1>1. TypeOK /\ PoolInv /\ [Next]_vars => TypeOK' /\ PoolInv'
  BY TypeNext, PoolNext
<1> QED  BY <1>1, TypeInit, PTL DEF Spec

\* Every variable has its type: no slot outside of the pool, no answer without a
\* battle, whatever crashes in between.
THEOREM TypeCorrect == Spec => []TypeOK
<1> QED  BY Typed, PTL

\* A battle stays where its id says until Capacity - 1 later ones have been made,
\* though the counter moves on in a step of its own and the wrap empties a slot.
THEOREM KeptForARound == Spec => []BattleKept
<1>1. PoolInv => BattleKept
  BY DEF PoolInv
<1> QED  BY <1>1, Typed, PTL

-----------------------------------------------------------------------------
(* The map of ongoing battles.                                             *)

Handler(s) == Queue(s) \/ Session(s) \/ ReceiveRemove(s) \/ AdminCheck(s)

\* What a handler leaves alone.
LEMMA HandlerKeeps ==
  ASSUME TypeOK, NEW s \in Sessions, Handler(s)
  PROVE  /\ battleVars' = battleVars /\ ongoing' = ongoing /\ creators' = creators
         /\ exits' = exits /\ ses[s].pc # "matched"
         /\ worker' # worker =>
              /\ ses[s].pc = "remove" /\ UNCHANGED historyVars
              /\ worker' = [pc |-> "delete", user |-> UserOf(s), game |-> ses[s].game]
         /\ \A x \in Sessions : x # s => ses'[x] = ses[x] /\ told'[x] = told[x]
<1> USE DEF battleVars, historyVars, Goes, TypeOK
<1>1. CASE Queue(s) \/ Session(s) \/ AdminCheck(s)
  BY <1>1 DEF Queue, Session, GetFails, Look, Connect, AskFails, Resume, AdminCheck
<1>2. CASE ReceiveRemove(s)
  BY <1>2 DEF ReceiveRemove
<1> QED  BY <1>1, <1>2 DEF Handler

\* Only battles that were made are spoken of.
LEMMA KnownNext == TypeOK /\ PoolInv /\ KnownInv /\ [Next]_vars => KnownInv'
<1> SUFFICES ASSUME TypeOK, PoolInv, KnownInv, [Next]_vars PROVE KnownInv'
  OBVIOUS
<1> USE DEF battleVars, historyVars, matchVars, Known
<1>0. /\ made \in Nat /\ 0 \in Known
      /\ \A s \in Sessions : UserOf(s) \in Users
      /\ \A c \in creators : c \in Creator
      /\ Telling => worker.of \in Creator
  BY PoolAssumption DEF TypeOK, Users, Telling, Idle
<1>1. ASSUME NEW s \in Sessions, Handler(s)  PROVE KnownInv'
  <2>1. ses'[s].game \in {0, ses[s].game, ongoing[UserOf(s)]}
        /\ told'[s] \in {told[s], ses[s].game}
    BY <1>1 DEF Handler, Queue, Session, GetFails, Look, Connect, AskFails, Resume,
                ReceiveRemove, AdminCheck, Goes, TypeOK, NoBattle
  <2> QED  BY <1>0, <1>1, <2>1, HandlerKeeps DEF KnownInv
<1>2. ASSUME NEW s \in Sessions, NEW t \in Sessions, Match(s, t)  PROVE KnownInv'
  <2>1. /\ told' = told /\ ongoing' = ongoing /\ worker' = worker /\ made' = made
        /\ \A x \in Sessions : ses'[x].game = ses[x].game
    BY <1>2 DEF Match, TypeOK
  <2>2. \A d \in creators' : d \in creators \/ d.game = NoBattle
    BY <1>2 DEF Match
  <2> QED  BY <1>0, <2>1, <2>2 DEF KnownInv, NoBattle
<1>3. ASSUME NEW c \in creators, Create(c)  PROVE KnownInv'
  <2>1. CASE Dial(c)
    <3>1. \A d \in creators' : d \in creators \/ d.game = c.game
      BY <1>0, <2>1 DEF Dial, RetryLater, Creator
    <3>2. \A x \in Sessions : ses'[x].game = ses[x].game
      BY <2>1 DEF Dial, RetryLater, TypeOK
    <3> QED  BY <1>0, <2>1, <3>1, <3>2 DEF Dial, KnownInv
  <2>2. CASE CreateFails(c)
    BY <1>0, <2>2 DEF CreateFails, RetryLater, KnownInv, TypeOK
  <2>3. CASE Exit(c)
    BY <1>0, <2>3 DEF Exit, KnownInv, InitSes, Idle, NoBattle
  <2> QED  BY <1>3, <2>1, <2>2, <2>3 DEF Create
<1>4. ASSUME NEW c \in creators, ReceiveOk(c)  PROVE KnownInv'
  BY <1>4 DEF ReceiveOk, KnownInv
<1>5. ASSUME NEW c \in creators, AdminCreate(c)  PROVE KnownInv'
  BY <1>0, <1>5 DEF AdminCreate, KnownInv
<1>6. CASE EnterFirst
  BY <1>0, <1>6 DEF EnterFirst, KnownInv, TypeOK, Telling
<1>7. CASE EnterSecond
  BY <1>0, <1>7 DEF EnterSecond, KnownInv, TypeOK, Telling
<1>8. CASE Tell
  <2>1. worker'.pc = "idle" /\ made' = made /\ ongoing' = ongoing /\ creators' = creators
    BY <1>8 DEF Tell, Idle
  <2>2. \A x \in Sessions : ses'[x].game = ses[x].game
    BY <1>8 DEF Tell, TypeOK
  <2>3. \A x \in Sessions : told'[x] \in {told[x], worker.of.game}
    BY <1>8 DEF Tell, TypeOK
  <2> QED  BY <1>0, <1>8, <2>1, <2>2, <2>3 DEF KnownInv, Tell
<1>9. CASE Delete
  BY <1>0, <1>9 DEF Delete, KnownInv, TypeOK, Idle, NoBattle
<1>10. CASE AdminReply
  <2>1. \A c \in creators' : c.game \in Known
    <3> SUFFICES ASSUME NEW c \in creators
                 PROVE  (IF c.pc = "create" /\ c.s = admin.s
                         THEN [c EXCEPT !.pc = "send", !.game = made] ELSE c).game \in Known
      BY <1>10 DEF AdminReply
    <3> QED  BY <1>0 DEF KnownInv, Creator
  <2> QED  BY <1>10, <2>1 DEF AdminReply, KnownInv
<1>11. CASE AdminAdvance \/ Finish \/ Restart \/ UNCHANGED vars
  BY <1>11 DEF AdminAdvance, Finish, Restart, vars, KnownInv
<1>12. CASE Crash
  <2>1. \A c \in creators' : c.game \in Known
    BY <1>0, <1>12 DEF Crash, KnownInv, Creator
  <2>2. \A s \in Sessions : ses'[s].game \in Known
    BY <1>12 DEF Crash, KnownInv, TypeOK
  <2> QED  BY <1>12, <2>1, <2>2 DEF Crash, KnownInv
<1> QED
  BY <1>1, <1>2, <1>3, <1>4, <1>5, <1>6, <1>7, <1>8, <1>9, <1>10, <1>11, <1>12
     DEF Next, Handler, OkWorker, Admin

\* A handler that asks has a battle to ask about.
AskInv == \A s \in Sessions : Asking(s) => ses[s].game # NoBattle

LEMMA AskNext == TypeOK /\ AskInv /\ [Next]_vars => AskInv'
<1> SUFFICES ASSUME TypeOK, AskInv, [Next]_vars PROVE AskInv'
  OBVIOUS
<1> USE DEF AskInv, Asking, TypeOK, battleVars, historyVars, matchVars
<1>1. ASSUME NEW s \in Sessions, Handler(s)  PROVE AskInv'
  <2>1. Asking(s)' => ses'[s].game # NoBattle
    BY <1>1 DEF Handler, Queue, Session, GetFails, Look, Connect, AskFails, Resume,
                ReceiveRemove, AdminCheck, Goes
  <2> QED  BY <1>1, <2>1, HandlerKeeps
<1>2. ASSUME NEW s \in Sessions, NEW t \in Sessions, Match(s, t)  PROVE AskInv'
  BY <1>2 DEF Match
<1>3. ASSUME NEW c \in creators, Create(c)  PROVE AskInv'
  <2>1. CASE Dial(c) \/ CreateFails(c)
    BY <2>1 DEF Dial, CreateFails, RetryLater
  <2>2. CASE Exit(c)
    BY <2>2 DEF Exit, InitSes
  <2> QED  BY <1>3, <2>1, <2>2 DEF Create
<1>4. CASE Tell
  BY <1>4 DEF Tell
<1>5. CASE Crash
  BY <1>5 DEF Crash
<1>6. CASE UNCHANGED ses
  BY <1>6
<1>7. ASSUME NEW c \in creators, ReceiveOk(c) \/ AdminCreate(c)  PROVE UNCHANGED ses
  BY <1>7 DEF ReceiveOk, AdminCreate
<1>8. ASSUME EnterFirst \/ EnterSecond \/ Delete \/ Admin \/ Finish \/ Restart \/ UNCHANGED vars
      PROVE  UNCHANGED ses
  BY <1>8 DEF EnterFirst, EnterSecond, Delete, Admin, AdminReply, AdminAdvance, Finish,
              Restart, vars
<1> QED
  BY <1>1, <1>2, <1>3, <1>4, <1>5, <1>6, <1>7, <1>8 DEF Next, Handler, OkWorker

\* Nobody but the admin thread says that a battle is valid.
LEMMA AnswersOnly ==
  ASSUME TypeOK, [Next]_vars, NEW s \in Sessions,
         ses[s].pc = "ask", ses'[s].pc = "resume"
  PROVE  AdminCheck(s)
<1> USE DEF TypeOK, battleVars, historyVars, matchVars
<1>1. ASSUME NEW x \in Sessions, Handler(x)  PROVE x = s /\ AdminCheck(s)
  <2>1. x = s
    BY <1>1, HandlerKeeps
  <2> QED  BY <1>1, <2>1 DEF Handler, Queue, Session, GetFails, Look, Connect, AskFails,
                             Resume, ReceiveRemove, AdminCheck, Goes
<1>2. ASSUME NEW x \in Sessions, NEW y \in Sessions, Match(x, y)  PROVE FALSE
  BY <1>2 DEF Match
<1>3. ASSUME NEW c \in creators, Create(c) \/ ReceiveOk(c) \/ AdminCreate(c)  PROVE FALSE
  BY <1>3 DEF Create, Dial, CreateFails, RetryLater, Exit, InitSes, ReceiveOk, AdminCreate
<1>4. CASE Tell
  BY <1>4 DEF Tell
<1>5. CASE Crash
  BY <1>5 DEF Crash
<1>6. ASSUME EnterFirst \/ EnterSecond \/ Delete \/ Admin \/ Finish \/ Restart \/ UNCHANGED vars
      PROVE  UNCHANGED ses
  BY <1>6 DEF EnterFirst, EnterSecond, Delete, Admin, AdminReply, AdminAdvance, Finish,
              Restart, vars
<1> QED  BY <1>1, <1>2, <1>3, <1>4, <1>5, <1>6 DEF Next, Handler, OkWorker

\* A handler that is answered "valid" within the round is answered by the battle
\* it asked about: CHECKBATTLEVALID knows only slots, and still no player is sent
\* back to a battle that another has replaced, or that has finished.
THEOREM ResumedRound == Spec => ResumedWithinRound
<1> DEFINE Inv == TypeOK /\ PoolInv /\ KnownInv /\ AskInv
<1>1. Init => Inv
  <2> SUFFICES ASSUME Init PROVE Inv
    OBVIOUS
  <2>1. KnownInv /\ AskInv
    BY PoolAssumption DEF Init, KnownInv, Known, AskInv, Asking, InitSes, NoBattle, Idle, Users
  <2> QED  BY <2>1, TypeInit
<1>2. Inv /\ [Next]_vars => Inv'
  BY TypeNext, PoolNext, KnownNext, AskNext
<1>3. ASSUME Inv, [Next]_vars, NEW s \in Sessions,
             ses[s].pc = "ask", ses'[s].pc = "resume",
             ses[s].game \notin lost, made - ses[s].game < Capacity - 1
      PROVE  Alive(ses[s].game)
  <2> DEFINE b == ses[s].game
  <2>1. b \in 1 .. made
    BY <1>3 DEF KnownInv, Known, AskInv, Asking, NoBattle, TypeOK
  <2>2. pool[slotOf[b]] = b
    BY <1>3, <2>1 DEF PoolInv, BattleKept
  <2>3. AdminCheck(s)
    BY <1>3, AnswersOnly
  <2>4. Valid(slotOf[b])
    BY <1>3, <2>3 DEF AdminCheck, Goes, TypeOK
  <2> QED  BY <2>2, <2>4 DEF Valid, Alive
<1>4. Inv /\ [Next]_vars =>
        [\A s \in Sessions :
           LET b == ses[s].game
           IN  /\ ses[s].pc = "ask" /\ ses'[s].pc = "resume"
               /\ b \notin lost /\ made - b < Capacity - 1
               => Alive(b)]_vars
  BY <1>3
<1> QED  BY <1>1, <1>2, <1>4, PTL DEF Spec, ResumedWithinRound

\* No player is in two matches: a handler's step does not touch who waits, and a
\* match that ends lets go of its own two only.
LEMMA MatchNext == TypeOK /\ MatchInv /\ [Next]_vars => MatchInv'
<1> SUFFICES ASSUME TypeOK, MatchInv, [Next]_vars PROVE MatchInv'
  OBVIOUS
<1> USE DEF battleVars, historyVars, matchVars
<1>0. /\ \A c \in creators : c \in Creator /\ c.s \in Sessions /\ c.t \in Sessions
      /\ Telling => worker.of \in Creator /\ worker.of.s \in Sessions /\ worker.of.t \in Sessions
  <2>1. \A c \in creators : c \in Creator
    BY DEF TypeOK
  <2>2. Telling => worker.of \in Creator
    BY DEF TypeOK, Telling, Idle
  <2> QED  BY <2>1, <2>2, CreatorTypes
<1>1. ASSUME NEW s \in Sessions, Handler(s)  PROVE MatchInv'
  <2>1. \A x \in Sessions : ses[x].pc = "matched" => ses'[x] = ses[x]
    BY <1>1, HandlerKeeps
  <2>2. creators' = creators /\ (Telling' => Telling /\ worker' = worker)
    BY <1>1, HandlerKeeps DEF Telling
  <2> QED  BY <1>0, <2>1, <2>2 DEF MatchInv, Waits, Taken
<1>2. ASSUME NEW s \in Sessions, NEW t \in Sessions, Match(s, t)  PROVE MatchInv'
  <2> DEFINE n == [s |-> s, t |-> t, pc |-> "dial", game |-> NoBattle]
  <2>1. creators' = creators \cup {n} /\ worker' = worker /\ n.s = s /\ n.t = t
    BY <1>2 DEF Match
  <2>2. /\ ses'[s].pc = "matched" /\ ses'[t].pc = "matched" /\ UserOf(s) # UserOf(t)
        /\ ses[s].pc # "matched" /\ ses[t].pc # "matched"
        /\ \A x \in Sessions : ses[x].pc = "matched" => ses'[x] = ses[x]
    BY <1>2 DEF Match, TypeOK
  <2>3. \A c \in creators : s \notin Taken(c) /\ t \notin Taken(c)
    BY <2>2 DEF MatchInv, Waits, Taken
  <2>4. Telling => s \notin Taken(worker.of) /\ t \notin Taken(worker.of)
    BY <2>2 DEF MatchInv, Waits, Taken
  <2> QED  BY <1>0, <2>1, <2>2, <2>3, <2>4 DEF MatchInv, Waits, Taken, Telling
<1>3. ASSUME NEW c \in creators, RetryLater(c), worker' = worker  PROVE MatchInv'
  <2>1. \A x \in Sessions \ Taken(c) : ses'[x] = ses[x]
    BY <1>3 DEF RetryLater, Taken, TypeOK
  <2>2. creators' = creators \ {c}
    BY <1>3 DEF RetryLater
  <2>3. \A d \in creators' : d \in creators /\ d # c
    BY <2>2
  <2>4. \A d \in creators' : d.s \notin Taken(c) /\ d.t \notin Taken(c)
    BY <2>3 DEF MatchInv, Taken
  <2>5. Telling' => Telling /\ worker.of.s \notin Taken(c) /\ worker.of.t \notin Taken(c)
    BY <1>3 DEF MatchInv, Taken, Telling
  <2>6. \A d \in creators' : Waits(d)'
    BY <1>0, <2>1, <2>3, <2>4 DEF MatchInv, Waits, Taken
  <2>7. Telling' => Waits(worker.of)'
    BY <1>0, <1>3, <2>1, <2>5 DEF MatchInv, Waits, Taken
  <2> QED  BY <1>3, <2>3, <2>5, <2>6, <2>7 DEF MatchInv
<1>4. ASSUME NEW c \in creators, Create(c)  PROVE MatchInv'
  <2>1. CASE Dial(c) /\ ~RetryLater(c)
    <3>1. creators' = (creators \ {c}) \cup {[c EXCEPT !.pc = "create"]}
          /\ ses' = ses /\ worker' = worker
      BY <2>1 DEF Dial
    <3>2. Taken([c EXCEPT !.pc = "create"]) = Taken(c)
          /\ [c EXCEPT !.pc = "create"].s = c.s /\ [c EXCEPT !.pc = "create"].t = c.t
      BY <1>0 DEF Taken, Creator
    <3> QED  BY <3>1, <3>2 DEF MatchInv, Waits, Telling
  <2>2. CASE Dial(c) /\ RetryLater(c)
    BY <1>3, <2>2 DEF Dial
  <2>3. CASE CreateFails(c)
    BY <1>3, <2>3 DEF CreateFails
  <2>4. CASE Exit(c)
    BY <2>4 DEF Exit, MatchInv, Telling, Idle
  <2> QED  BY <1>4, <2>1, <2>2, <2>3, <2>4 DEF Create
<1>5. ASSUME NEW c \in creators, ReceiveOk(c)  PROVE MatchInv'
  BY <1>5 DEF ReceiveOk, MatchInv, Waits, Telling
<1>6. ASSUME NEW c \in creators, AdminCreate(c)  PROVE MatchInv'
  BY <1>6 DEF AdminCreate, MatchInv, Waits, Telling
<1>7. CASE EnterFirst \/ EnterSecond
  <2>1. worker'.of = worker.of /\ Telling /\ creators' = creators /\ ses' = ses
    BY <1>7 DEF EnterFirst, EnterSecond, Telling, TypeOK, Idle
  <2> QED  BY <2>1 DEF MatchInv, Waits
<1>8. CASE Tell
  <2>1. Telling /\ ~Telling' /\ creators' = creators
        /\ \A x \in Sessions \ Taken(worker.of) : ses'[x] = ses[x]
    BY <1>8 DEF Tell, Telling, Taken, TypeOK, Idle
  <2>2. \A d \in creators : d.s \notin Taken(worker.of) /\ d.t \notin Taken(worker.of)
    BY <2>1 DEF MatchInv, Taken
  <2>3. \A d \in creators : Waits(d)'
    BY <1>0, <2>1, <2>2 DEF MatchInv, Waits, Taken
  <2> QED  BY <2>1, <2>3 DEF MatchInv
<1>9. CASE Delete
  BY <1>9 DEF Delete, MatchInv, Waits, Telling, Idle
<1>10. ASSUME NEW f, creators' = {f[c] : c \in creators},
              \A c \in creators : f[c].s = c.s /\ f[c].t = c.t,
              worker' = worker, \A x \in Sessions : ses[x].pc = "matched" => ses'[x] = ses[x]
       PROVE  MatchInv'
  <2>1. \A c \in creators : Waits(f[c])'
    BY <1>0, <1>10 DEF MatchInv, Waits, Taken
  <2>2. \A c \in creators : Taken(f[c]) = Taken(c)
    BY <1>10 DEF Taken
  <2>3. Telling' => Telling /\ Waits(worker.of)'
    BY <1>0, <1>10 DEF MatchInv, Waits, Taken, Telling
  <2> QED  BY <1>10, <2>1, <2>2, <2>3 DEF MatchInv
<1>11. CASE AdminReply
  <2> DEFINE f == [c \in creators |->
                     IF c.pc = "create" /\ c.s = admin.s
                     THEN [c EXCEPT !.pc = "send", !.game = made] ELSE c]
  <2>1. creators' = {f[c] : c \in creators} /\ worker' = worker /\ ses' = ses
    BY <1>11 DEF AdminReply
  <2>2. \A c \in creators : f[c].s = c.s /\ f[c].t = c.t
    BY <1>0 DEF Creator
  <2> HIDE DEF f
  <2> QED  BY <1>10, <2>1, <2>2
<1>12. CASE Crash
  <2> DEFINE f == [c \in creators |->
                     IF c.pc = "create" THEN [c EXCEPT !.pc = "broken"] ELSE c]
  <2>1. creators' = {f[c] : c \in creators} /\ worker' = worker
        /\ \A x \in Sessions : ses[x].pc = "matched" => ses'[x] = ses[x]
    BY <1>12 DEF Crash, TypeOK
  <2>2. \A c \in creators : f[c].s = c.s /\ f[c].t = c.t
    BY <1>0 DEF Creator
  <2> HIDE DEF f
  <2> QED  BY <1>10, <2>1, <2>2
<1>13. CASE AdminAdvance \/ Finish \/ Restart \/ UNCHANGED vars
  BY <1>13 DEF AdminAdvance, Finish, Restart, vars, MatchInv, Waits, Telling
<1> QED
  BY <1>1, <1>2, <1>4, <1>5, <1>6, <1>7, <1>8, <1>9, <1>11, <1>12, <1>13
     DEF Next, Handler, OkWorker, Admin

-----------------------------------------------------------------------------
(* What a player was told and what the map says of it.                     *)

\* A battle that is over stays over: its number is not used again.
LEMMA AliveWas ==
  ASSUME TypeOK, PoolInv, [Next]_vars, NEW b \in 1 .. made, Alive(b)'
  PROVE  Alive(b)
<1> USE DEF Alive, battleVars, historyVars, matchVars
<1>1. b \in Battles /\ made \in Nat /\ b # 0 /\ b # made + 1 /\ slotOf[b] \in Slots
  BY PoolAssumption DEF TypeOK, Battles
<1>2. CASE UNCHANGED <<pool, slotOf, over>>
  BY <1>2
<1>3. ASSUME NEW c \in creators, AdminCreate(c)  PROVE Alive(b)
  <2>1. slotOf'[b] = slotOf[b] /\ (slotOf[b] # counter => pool'[slotOf[b]] = pool[slotOf[b]])
    BY <1>1, <1>3 DEF AdminCreate, TypeOK
  <2>2. pool'[counter] = made + 1 /\ over' = over
    BY <1>3 DEF AdminCreate, TypeOK
  <2> QED  BY <1>1, <2>1, <2>2
<1>4. CASE AdminAdvance
  <2>1. slotOf' = slotOf /\ over' = over
        /\ (pool'[slotOf[b]] = pool[slotOf[b]] \/ pool'[slotOf[b]] = 0)
    BY <1>1, <1>4 DEF AdminAdvance, TypeOK, NoBattle
  <2> QED  BY <1>1, <2>1
<1>5. CASE Finish
  BY <1>5 DEF Finish
<1>6. CASE Crash
  BY <1>1, <1>6 DEF Crash, InitPool, NoBattle
<1>7. ASSUME NEW s \in Sessions, Handler(s)  PROVE UNCHANGED <<pool, slotOf, over>>
  BY <1>7, HandlerKeeps
<1>8. ASSUME NEW s \in Sessions, NEW t \in Sessions, Match(s, t)
      PROVE  UNCHANGED <<pool, slotOf, over>>
  BY <1>8 DEF Match
<1>9. ASSUME NEW c \in creators, Create(c) \/ ReceiveOk(c)
      PROVE  UNCHANGED <<pool, slotOf, over>>
  BY <1>9 DEF Create, Dial, CreateFails, Exit, ReceiveOk
<1>10. ASSUME OkWorker \/ AdminReply \/ Restart \/ UNCHANGED vars
       PROVE  UNCHANGED <<pool, slotOf, over>>
  BY <1>10 DEF OkWorker, EnterFirst, EnterSecond, Tell, Delete, AdminReply, Restart, vars
<1> QED
  BY <1>2, <1>3, <1>4, <1>5, <1>6, <1>7, <1>8, <1>9, <1>10 DEF Next, Handler, Admin

LEMMA GoneStays ==
  ASSUME TypeOK, PoolInv, [Next]_vars, NEW b \in Known, Gone(b)
  PROVE  Gone(b)'
BY AliveWas DEF Gone, Known, NoBattle, TypeOK

\* The histories only grow, and an entry that goes is off or displaced, ...
Grows ==
  /\ crowded \subseteq crowded' /\ unreached \subseteq unreached'
  /\ displaced \subseteq displaced'
Moves(u) ==
  ongoing'[u] # ongoing[u] =>
    Off(u, ongoing[u]) \/ <<u, ongoing[u]>> \in displaced'

\* ... so that what was off or held stays so.
LEMMA OffStays ==
  ASSUME TypeOK, PoolInv, [Next]_vars, Grows, NEW u, NEW b \in Known, Off(u, b)
  PROVE  Off(u, b)'
BY GoneStays DEF Off, Grows

LEMMA HeldStays ==
  ASSUME TypeOK, PoolInv, [Next]_vars, Grows, NEW u, Moves(u), NEW b \in Known, Held(u, b)
  PROVE  Held(u, b)'
<1>1. CASE Off(u, b)
  BY <1>1, OffStays DEF Held, Kept
<1>2. CASE <<u, b>> \in displaced
  BY <1>2 DEF Held, Grows
<1>3. CASE ongoing[u] = b
  <2>1. CASE ongoing'[u] = ongoing[u]
    BY <1>3, <2>1 DEF Held, Kept
  <2>2. CASE ongoing'[u] # ongoing[u]
    BY <1>1, <1>3, <2>2 DEF Moves, Held
  <2> QED  BY <2>1, <2>2
<1> QED  BY <1>1, <1>2, <1>3 DEF Held, Kept

\* OkWorker's entries and removals do.
LEMMA DisplacedIs ==
  ASSUME TypeOK, NEW u \in Users, Displaces(u)
  PROVE  /\ displaced \subseteq displaced'
         /\ Off(u, ongoing[u]) \/ <<u, ongoing[u]>> \in displaced'
<1>1. ongoing[u] \in Battles \cup {NoBattle}
  BY DEF TypeOK, MaybeBattle
<1>2. CASE Gone(ongoing[u])
  BY <1>2 DEF Off, Displaces
<1>3. CASE ~Gone(ongoing[u])
  <2>1. Going(ongoing[u]) = {ongoing[u]}
    BY <1>1, <1>3 DEF Gone, Going
  <2> QED  BY <2>1 DEF Displaces
<1> QED  BY <1>2, <1>3

LEMMA Moving ==
  ASSUME TypeOK, WorkerInv, [Next]_vars, ~(\E c \in creators : Exit(c))
  PROVE  Grows /\ \A u \in Users : Moves(u)
<1> USE DEF battleVars, matchVars, historyVars, Grows, Moves
<1>1. ASSUME NEW s \in Sessions, Handler(s)  PROVE Grows /\ UNCHANGED ongoing
  BY <1>1 DEF Handler, Queue, Session, GetFails, Look, Connect, AskFails, Resume,
              ReceiveRemove, AdminCheck
<1>2. ASSUME NEW s \in Sessions, NEW t \in Sessions, Match(s, t)
      PROVE  Grows /\ UNCHANGED ongoing
  BY <1>2 DEF Match
<1>3. ASSUME NEW c \in creators, Dial(c) \/ CreateFails(c) \/ ReceiveOk(c) \/ AdminCreate(c)
      PROVE  Grows /\ UNCHANGED ongoing
  BY <1>3 DEF Dial, CreateFails, ReceiveOk, AdminCreate
<1>4. CASE Tell \/ Admin \/ Finish \/ Crash \/ Restart \/ UNCHANGED vars
  BY <1>4 DEF Tell, Admin, AdminReply, AdminAdvance, Finish, Crash, Restart, vars
<1>5. /\ Telling => /\ UserOf(worker.of.s) \in Users /\ UserOf(worker.of.t) \in Users
      /\ worker.pc = "delete" => worker.user \in Users
  <2>1. Telling => worker.of \in Creator
    BY DEF TypeOK, Telling, Idle
  <2>2. worker.pc = "delete" => worker.user \in Users
    BY DEF TypeOK, Idle
  <2> QED  BY <2>1, <2>2, CreatorTypes DEF Users
<1>6. ASSUME NEW w \in Users, NEW b, ongoing' = [ongoing EXCEPT ![w] = b], Displaces(w),
             UNCHANGED <<crowded, unreached>>
      PROVE  Grows /\ \A u \in Users : Moves(u)
  <2>1. \A u \in Users : u # w => ongoing'[u] = ongoing[u]
    BY <1>6 DEF TypeOK
  <2> QED  BY <1>6, <2>1, DisplacedIs
<1>7. CASE EnterFirst
  BY <1>5, <1>6, <1>7 DEF EnterFirst, Telling
<1>8. CASE EnterSecond
  BY <1>5, <1>6, <1>8 DEF EnterSecond, Telling
<1>9. CASE Delete
  <2>1. worker.user \in Users /\ ongoing' = [ongoing EXCEPT ![worker.user] = NoBattle]
        /\ UNCHANGED <<crowded, unreached>>
    BY <1>5, <1>9 DEF Delete
  <2>2. CASE ongoing[worker.user] = worker.game
    <3>1. displaced' = displaced
      BY <1>9, <2>2 DEF Delete
    <3>2. \A u \in Users : u # worker.user => ongoing'[u] = ongoing[u]
      BY <2>1 DEF TypeOK
    <3>3. Off(worker.user, ongoing[worker.user])
      BY <1>9, <2>2 DEF Delete, WorkerInv
    <3> QED  BY <2>1, <3>1, <3>2, <3>3
  <2>3. CASE ongoing[worker.user] # worker.game
    BY <1>6, <1>9, <2>1, <2>3 DEF Delete
  <2> QED  BY <2>2, <2>3
<1> QED
  BY <1>1, <1>2, <1>3, <1>4, <1>7, <1>8, <1>9 DEF Next, Handler, Create, OkWorker

\* A session that is told nothing, and asks about nothing new.
LEMMA HeldSame ==
  ASSUME TypeOK, PoolInv, KnownInv, [Next]_vars, Grows, NEW s \in Sessions,
         Moves(UserOf(s)), HeldBy(s), told'[s] = told[s], ses'[s].game = ses[s].game,
         Asking(s)' => Asking(s),
         ses'[s].pc \in {"remove", "broken"} => ses[s].pc \in {"remove", "broken"}
  PROVE  HeldBy(s)'
<1>1. told[s] \in Known /\ ses[s].game \in Known
  BY DEF KnownInv
<1>2. Held(UserOf(s), told[s])'
  BY <1>1, HeldStays DEF HeldBy
<1>3. Asking(s)' => Held(UserOf(s), ses[s].game)'
  BY <1>1, HeldStays DEF HeldBy
<1>4. ses'[s].pc \in {"remove", "broken"} => Off(UserOf(s), ses[s].game)'
  BY <1>1, OffStays DEF HeldBy
<1> QED  BY <1>2, <1>3, <1>4 DEF HeldBy, Held, Kept, Off, Gone

\* A handler's own session: it is told what it asked about, and asks about what
\* it found.
LEMMA HeldHandler ==
  ASSUME TypeOK, PoolInv, KnownInv, [Next]_vars, Grows, NEW s \in Sessions,
         Handler(s), HeldBy(s)
  PROVE  HeldBy(s)'
<1> DEFINE u == UserOf(s)
<1>0. PICK b, o, d : b = ses[s].game /\ o = ongoing[u] /\ d = told[s]
  OBVIOUS
<1>1. /\ b \in Known /\ o \in Known /\ d \in Known /\ u \in Users
      /\ ongoing' = ongoing /\ Moves(u)
  BY <1>0, HandlerKeeps DEF KnownInv, Users, Moves
<1>2. Held(u, d)' /\ (Asking(s) => Held(u, b)') /\ Held(u, o)'
      /\ (ses[s].pc \in {"remove", "broken"} => Off(u, b)')
  <2>1. Held(u, o) /\ Held(u, d) /\ (Asking(s) => Held(u, b))
        /\ (ses[s].pc \in {"remove", "broken"} => Off(u, b))
    BY <1>0 DEF HeldBy, Held, Kept
  <2> QED  BY <1>1, <2>1, HeldStays, OffStays
<1>3. CASE Queue(s) \/ GetFails(s) \/ AskFails(s) \/ ReceiveRemove(s)
  <2>1. ses'[s].pc \in {"look", "idle", "queued"} /\ told' = told
    BY <1>3 DEF Queue, GetFails, AskFails, ReceiveRemove, Goes, TypeOK
  <2> QED  BY <1>0, <1>2, <2>1 DEF HeldBy, Asking, Held, Kept, Off, Gone
<1>4. CASE Look(s)
  <2>1. ses'[s] = [pc |-> IF o = NoBattle THEN "queued" ELSE "connect", game |-> o] /\ told' = told
    BY <1>0, <1>4 DEF Look, Goes, TypeOK
  <2> QED  BY <1>0, <1>2, <2>1 DEF HeldBy, Asking, Held, Kept, Off, Gone
<1>5. CASE Connect(s)
  <2>1. told' = told /\ ses'[s].game = b /\ Asking(s)
    BY <1>0, <1>5 DEF Connect, Goes, TypeOK, Asking
  <2>2. CASE ses'[s].pc = "ask"
    BY <1>0, <1>2, <2>1, <2>2 DEF HeldBy, Asking, Held, Kept, Off, Gone
  <2>3. CASE ses'[s].pc # "ask"
    <3>1. unreached' = unreached \cup ({u} \X Going(b)) /\ UNCHANGED <<pool, slotOf, over>>
      BY <1>0, <1>5, <2>3 DEF Connect, Goes, TypeOK, battleVars
    <3>2. b \in Battles \cup {NoBattle}
      BY <1>0 DEF TypeOK, MaybeBattle
    <3>3. Off(u, b)'
      <4>1. CASE Gone(b)
        BY <3>1, <4>1 DEF Off, Gone, Alive
      <4>2. CASE ~Gone(b)
        <5>1. Going(b) = {b}
          BY <3>2, <4>2 DEF Gone, Going
        <5> QED  BY <3>1, <5>1 DEF Off
      <4> QED  BY <4>1, <4>2
    <3> QED  BY <1>0, <1>2, <2>1, <3>3 DEF HeldBy, Held, Kept, Off, Gone
  <2> QED  BY <2>2, <2>3
<1>6. CASE Resume(s)
  <2>1. ses'[s].pc = "idle" /\ told'[s] = b /\ Asking(s)
    BY <1>0, <1>6 DEF Resume, Goes, TypeOK, Asking
  <2> QED  BY <1>0, <1>2, <2>1 DEF HeldBy, Asking, Held, Kept, Off, Gone
<1>7. CASE AdminCheck(s)
  <2>1. ses'[s] = [pc |-> IF Valid(slotOf[b]) THEN "resume" ELSE "remove", game |-> b]
        /\ told' = told /\ Asking(s) /\ UNCHANGED <<pool, slotOf, over>>
    BY <1>0, <1>7 DEF AdminCheck, Goes, TypeOK, Asking, battleVars
  <2>2. ~Valid(slotOf[b]) => Gone(b)'
    BY <2>1 DEF Valid, Gone, Alive
  <2> QED  BY <1>0, <1>2, <2>1, <2>2 DEF HeldBy, Asking, Held, Kept, Off, Gone
<1> QED  BY <1>3, <1>4, <1>5, <1>6, <1>7 DEF Handler, Session

\* What OkWorker relies on.
LEMMA WorkerKept ==
  ASSUME TypeOK, PoolInv, KnownInv, WorkerInv, [Next]_vars, Grows,
         UNCHANGED <<worker, ongoing>>
  PROVE  WorkerInv'
<1>1. worker.pc = "delete" => Off(worker.user, worker.game)'
  BY OffStays DEF WorkerInv, KnownInv
<1> QED  BY <1>1 DEF WorkerInv, Off, Gone

\* Whom OkWorker enters and tells.
LEMMA TellingTypes ==
  ASSUME TypeOK, MatchInv, Telling
  PROVE  LET c == worker.of
         IN  /\ c \in Creator /\ c.s \in Sessions /\ c.t \in Sessions
             /\ UserOf(c.s) # UserOf(c.t) /\ UserOf(c.s) \in Users /\ UserOf(c.t) \in Users
             /\ ses[c.s].pc = "matched" /\ ses[c.t].pc = "matched"
<1>1. worker.of \in Creator
  BY DEF TypeOK, Telling, Idle
<1> QED  BY <1>1, CreatorTypes DEF MatchInv, Waits, Taken, Users

\* Every step keeps what is held.
LEMMA HeldNext ==
  ASSUME TypeOK, PoolInv, KnownInv, MatchInv, HeldInv, [Next]_vars
  PROVE  HeldInv'
<1> USE DEF battleVars, matchVars
<1>0. \A x \in Sessions : HeldBy(x) /\ UserOf(x) \in Users
  BY DEF HeldInv, Users
<1>1. ASSUME NEW c \in creators, Exit(c)  PROVE HeldInv'
  <2>1. \A x \in Sessions : told'[x] = NoBattle /\ ses'[x].pc = "idle"
    BY <1>1 DEF Exit, InitSes
  <2>2. worker' = Idle
    BY <1>1 DEF Exit
  <2> QED
    BY <2>1, <2>2 DEF HeldInv, WorkerInv, HeldBy, Asking, Held, Kept, Off, Gone, Idle
<1> SUFFICES ASSUME ~(\E c \in creators : Exit(c))  PROVE HeldInv'
  BY <1>1
<1>2. Grows /\ \A u \in Users : Moves(u)
  BY Moving DEF HeldInv
<1>3. ASSUME told' = told,
             \A x \in Sessions : /\ ses'[x].game = ses[x].game
                                 /\ Asking(x)' => Asking(x)
                                 /\ \/ ses'[x].pc \in {ses[x].pc, "idle", "matched"}
                                    \/ Gone(ses[x].game)'
      PROVE  \A x \in Sessions : HeldBy(x)'
  <2> SUFFICES ASSUME NEW x \in Sessions  PROVE HeldBy(x)'
    OBVIOUS
  <2>1. CASE ses'[x].pc \in {ses[x].pc, "idle", "matched"}
    BY <1>0, <1>2, <1>3, <2>1, HeldSame
  <2>2. CASE Gone(ses[x].game)'
    <3>1. Held(UserOf(x), told[x])'
      <4>1. PICK b : b = told[x]
        OBVIOUS
      <4>2. b \in Known /\ Held(UserOf(x), b)
        BY <1>0, <4>1 DEF KnownInv, HeldBy
      <4>3. Held(UserOf(x), b)'
        BY <1>0, <1>2, <4>2, HeldStays
      <4> QED  BY <1>3, <4>1, <4>3
    <3> QED  BY <1>3, <2>2, <3>1 DEF HeldBy, Held, Kept, Off, Gone
  <2> QED  BY <1>3, <2>1, <2>2
<1>4. ASSUME NEW s \in Sessions, Handler(s)  PROVE HeldInv'
  <2>1. \A x \in Sessions \ {s} : HeldBy(x)'
    BY <1>0, <1>2, <1>4, HandlerKeeps, HeldSame DEF Asking
  <2>2. HeldBy(s)'
    BY <1>0, <1>2, <1>4, HeldHandler
  <2>3. WorkerInv'
    <3>1. CASE worker' = worker
      BY <1>2, <1>4, <3>1, HandlerKeeps, WorkerKept DEF HeldInv
    <3>2. CASE worker' # worker
      <4>1. PICK b : b = ses[s].game
        OBVIOUS
      <4>2. worker' = [pc |-> "delete", user |-> UserOf(s), game |-> b] /\ Off(UserOf(s), b)
        BY <1>0, <1>4, <3>2, <4>1, HandlerKeeps DEF HeldBy
      <4>3. Off(UserOf(s), b)'
        BY <1>2, <4>1, <4>2, OffStays DEF KnownInv
      <4> QED  BY <4>2, <4>3 DEF WorkerInv, Off, Gone
    <3> QED  BY <3>1, <3>2
  <2> QED  BY <2>1, <2>2, <2>3 DEF HeldInv
<1>5. ASSUME NEW s \in Sessions, NEW t \in Sessions, Match(s, t)  PROVE HeldInv'
  <2>1. told' = told /\ UNCHANGED <<worker, ongoing>>
        /\ \A x \in Sessions : /\ ses'[x].game = ses[x].game
                               /\ ses'[x].pc \in {ses[x].pc, "matched"}
    BY <1>5 DEF Match, TypeOK
  <2> QED  BY <1>2, <1>3, <2>1, WorkerKept DEF HeldInv, Asking
<1>6. ASSUME NEW c \in creators, Create(c)  PROVE HeldInv'
  <2>1. told' = told /\ UNCHANGED <<worker, ongoing>>
        /\ \A x \in Sessions : /\ ses'[x].game = ses[x].game
                               /\ ses'[x].pc \in {ses[x].pc, "idle"}
    BY <1>6 DEF Create, Dial, CreateFails, RetryLater, TypeOK
  <2> QED  BY <1>2, <1>3, <2>1, WorkerKept DEF HeldInv, Asking
<1>7. ASSUME NEW c \in creators, ReceiveOk(c)  PROVE HeldInv'
  <2>1. worker'.pc = "first" /\ UNCHANGED <<ses, told>>
    BY <1>7 DEF ReceiveOk
  <2> QED  BY <1>3, <2>1 DEF HeldInv, WorkerInv, Asking
<1>8. CASE EnterFirst \/ EnterSecond
  <2>1. Telling
    BY <1>8 DEF EnterFirst, EnterSecond, Telling
  <2>2. WorkerInv'
    BY <1>8, <2>1, TellingTypes
       DEF EnterFirst, EnterSecond, HeldInv, WorkerInv, TypeOK, Telling, Idle
  <2>3. UNCHANGED <<ses, told>>
    BY <1>8 DEF EnterFirst, EnterSecond
  <2> QED  BY <1>3, <2>2, <2>3 DEF HeldInv, Asking
<1>9. CASE Tell
  <2> DEFINE c == worker.of
  <2>1. /\ Telling /\ worker' = Idle /\ ongoing' = ongoing /\ worker.pc = "tell"
        /\ told' = [told EXCEPT ![c.s] = c.game, ![c.t] = c.game]
        /\ ses' = [ses EXCEPT ![c.s].pc = "idle", ![c.t].pc = "idle"]
    BY <1>9 DEF Tell, Telling
  <2>2. c.s \in Sessions /\ c.t \in Sessions
    BY <2>1, TellingTypes
  <2>3. ASSUME NEW x \in Taken(c)  PROVE HeldBy(x)'
    <3>1. x \in Sessions /\ told'[x] = c.game /\ ses'[x].pc = "idle"
      BY <2>1, <2>2, <2>3 DEF Taken, TypeOK
    <3>2. ongoing'[UserOf(x)] = c.game
      BY <2>1, <2>3 DEF Taken, HeldInv, WorkerInv
    <3> QED  BY <3>1, <3>2 DEF HeldBy, Asking, Held, Kept
  <2>4. ASSUME NEW x \in Sessions \ Taken(c)  PROVE HeldBy(x)'
    <3>1. told'[x] = told[x] /\ ses'[x] = ses[x]
      BY <2>1, <2>2, <2>4 DEF Taken, TypeOK
    <3> QED  BY <1>0, <1>2, <2>4, <3>1, HeldSame DEF Asking
  <2> QED  BY <2>1, <2>3, <2>4 DEF HeldInv, WorkerInv, Idle
<1>10. CASE Delete
  <2>1. worker' = Idle /\ UNCHANGED <<ses, told>>
    BY <1>10 DEF Delete
  <2> QED  BY <1>3, <2>1 DEF HeldInv, WorkerInv, Idle, Asking
<1>11. CASE Crash
  <2>1. ~up' /\ pool' = InitPool /\ made' = made /\ slotOf' = slotOf
        /\ UNCHANGED <<worker, ongoing, told>>
    BY <1>11 DEF Crash
  <2>2. \A b \in Known : Gone(b)'
    <3>1. \A b \in Known : b # 0 => b \in Battles /\ slotOf[b] \in Slots
      BY PoolAssumption DEF TypeOK, Battles, Known
    <3> QED  BY <2>1, <3>1 DEF Gone, Alive, NoBattle, InitPool
  <2>3. \A x \in Sessions : /\ ses'[x].game = ses[x].game
                            /\ Asking(x)' => Asking(x)
    BY <1>11 DEF Crash, TypeOK, Asking
  <2>4. \A x \in Sessions : Gone(ses[x].game)'
    BY <2>2, <2>3 DEF KnownInv, Gone
  <2> QED  BY <1>2, <1>3, <2>1, <2>3, <2>4, WorkerKept DEF HeldInv
<1>12. ASSUME UNCHANGED <<worker, ongoing, ses, told>>  PROVE HeldInv'
  BY <1>2, <1>3, <1>12, WorkerKept DEF HeldInv, Asking
<1>13. ASSUME NEW c \in creators, AdminCreate(c)  PROVE HeldInv'
  BY <1>12, <1>13 DEF AdminCreate
<1>14. CASE Admin \/ Finish \/ Restart \/ UNCHANGED vars
  BY <1>12, <1>14 DEF Admin, AdminReply, AdminAdvance, Finish, Restart, vars
<1> QED
  BY <1>4, <1>5, <1>6, <1>7, <1>8, <1>9, <1>10, <1>11, <1>13, <1>14
     DEF Next, Handler, OkWorker

\* A player's entry stays; or is removed, being off; or is made while its player
\* waits for a match, and was told of nothing that goes on.
Entry(u) ==
  \/ ongoing'[u] = ongoing[u]
  \/ ongoing'[u] = NoBattle /\ Off(u, ongoing[u])
  \/ \A t \in Sessions : UserOf(t) = u => Off(u, told[t]) /\ ~Asking(t)

LEMMA KeptStays ==
  ASSUME TypeOK, PoolInv, [Next]_vars, Grows, NEW u, NEW b \in Known, Kept(u, b),
         \/ ongoing'[u] = ongoing[u]
         \/ ongoing'[u] = NoBattle /\ Off(u, ongoing[u])
  PROVE  Kept(u, b)'
BY OffStays DEF Kept

\* A session that is told nothing, and gets no further.
LEMMA AgreesSame ==
  ASSUME TypeOK, PoolInv, KnownInv, AgreeInv, [Next]_vars, Grows, NEW x \in Sessions,
         told' = told, UserOf(x) \notin crowded => Entry(UserOf(x)),
         \A y \in Sessions : /\ ses'[y].game = ses[y].game
                             /\ Asking(y)' => Asking(y)
                             /\ ses[y].pc = "idle" => ses'[y].pc = "idle",
         ses'[x].pc \in {"queued", "matched"} => ses[x].pc \in {"queued", "matched"}
  PROVE  Agrees(x)'
<1> DEFINE u == UserOf(x)
<1> SUFFICES ASSUME u \notin crowded'  PROVE Agrees(x)'
  BY DEF Agrees
<1>0. PICK b, d : b = ses[x].game /\ d = told[x]
  OBVIOUS
<1>1. u \notin crowded /\ Agrees(x) /\ b \in Known /\ d \in Known
  BY <1>0 DEF Grows, AgreeInv, KnownInv
<1>2. Kept(u, d)'
  <2>1. CASE \/ ongoing'[u] = ongoing[u]
             \/ ongoing'[u] = NoBattle /\ Off(u, ongoing[u])
    <3>1. Kept(u, d)
      BY <1>0, <1>1 DEF Agrees
    <3> QED  BY <1>1, <2>1, <3>1, KeptStays
  <2>2. CASE Off(u, d)
    BY <1>1, <2>2, OffStays DEF Kept
  <2> QED  BY <1>0, <1>1, <2>1, <2>2 DEF Entry
<1>3. ses'[x].pc # "idle" => Alone(x)'
  BY <1>1 DEF Agrees, Alone
<1>4. Asking(x)' => ongoing'[u] \in {b, NoBattle} /\ Kept(u, b)'
  <2> SUFFICES ASSUME Asking(x)  PROVE ongoing'[u] \in {b, NoBattle} /\ Kept(u, b)'
    OBVIOUS
  <2>1. ongoing[u] \in {b, NoBattle} /\ Kept(u, b)
    BY <1>0, <1>1 DEF Agrees
  <2>2. \/ ongoing'[u] = ongoing[u]
        \/ ongoing'[u] = NoBattle /\ Off(u, ongoing[u])
    BY <1>1 DEF Entry
  <2> QED  BY <1>1, <2>1, <2>2, KeptStays
<1>5. ASSUME ses'[x].pc \in {"queued", "matched"}, NEW t \in Sessions, UserOf(t) = u
      PROVE  Off(u, told[t])'
  <2>1. PICK e : e = told[t]
    OBVIOUS
  <2>2. e \in Known /\ Off(u, e)
    BY <1>1, <1>5, <2>1 DEF Agrees, KnownInv
  <2>3. Off(u, e)'
    BY <2>2, OffStays
  <2> QED  BY <2>1, <2>3
<1>6. told'[x] = d /\ ses'[x].game = b
  BY <1>0
<1> QED  BY <1>2, <1>3, <1>4, <1>5, <1>6 DEF Agrees

\* A handler's step, for its own session and the others of its player: as long as
\* they have one request at a time, nothing is on its way that it does not know.
LEMMA AgreesHandler ==
  ASSUME TypeOK, PoolInv, KnownInv, HeldInv, AgreeInv, [Next]_vars, Grows,
         NEW s \in Sessions, Handler(s), NEW x \in Sessions
  PROVE  Agrees(x)'
<1> DEFINE u == UserOf(s)
<1>0. /\ ongoing' = ongoing
      /\ \A y \in Sessions \ {s} : ses'[y] = ses[y] /\ told'[y] = told[y]
  BY HandlerKeeps
<1>1. \A y \in Sessions : Agrees(y) /\ HeldBy(y) /\ told[y] \in Known /\ ses[y].game \in Known
  BY DEF AgreeInv, HeldInv, KnownInv
<1>2. CASE UserOf(x) # u
  <2> SUFFICES ASSUME UserOf(x) \notin crowded'  PROVE Agrees(x)'
    BY DEF Agrees
  <2>0. PICK v, b, d : v = UserOf(x) /\ b = ses[x].game /\ d = told[x]
    OBVIOUS
  <2>1. ses'[x] = ses[x] /\ told'[x] = d /\ v \notin crowded
        /\ \A y \in Sessions : UserOf(y) = v => ses'[y] = ses[y] /\ told'[y] = told[y]
    BY <1>0, <1>2, <2>0 DEF Grows
  <2>2. Kept(v, d)' /\ (Asking(x) => ongoing'[v] \in {b, NoBattle} /\ Kept(v, b)')
    <3>1. Kept(v, d) /\ (Asking(x) => ongoing[v] \in {b, NoBattle} /\ Kept(v, b))
      BY <1>1, <2>0, <2>1 DEF Agrees
    <3>2. b \in Known /\ d \in Known
      BY <1>1, <2>0
    <3> QED  BY <1>0, <3>1, <3>2, KeptStays
  <2>3. ses'[x].pc # "idle" => Alone(x)'
    BY <1>1, <2>0, <2>1 DEF Agrees, Alone
  <2>4. ASSUME ses'[x].pc \in {"queued", "matched"}, NEW t \in Sessions, UserOf(t) = v
        PROVE  Off(v, told[t])'
    <3>1. PICK e : e = told[t]
      OBVIOUS
    <3>2. e \in Known /\ Off(v, e)
      BY <1>1, <2>0, <2>1, <2>4, <3>1 DEF Agrees
    <3>3. Off(v, e)'
      BY <3>2, OffStays
    <3> QED  BY <2>1, <2>4, <3>1, <3>3
  <2> QED  BY <2>0, <2>1, <2>2, <2>3, <2>4 DEF Agrees, Asking
<1>3. CASE UserOf(x) = u
  <2> SUFFICES ASSUME u \notin crowded'  PROVE Agrees(x)'
    BY <1>3 DEF Agrees
  <2>0. PICK b, o : b = ses[s].game /\ o = ongoing[u]
    OBVIOUS
  <2>1. u \notin crowded /\ b \in Known
    BY <1>1, <2>0 DEF Grows
  \* The others are idle.
  <2>2. \A y \in Sessions \ {s} : UserOf(y) = u => ses[y].pc = "idle"
    <3>1. CASE Queue(s)
      BY <3>1 DEF Queue
    <3>2. CASE ~Queue(s)
      <4>1. ses[s].pc # "idle"
        BY <3>2 DEF Handler, Session, GetFails, Look, Connect, AskFails, Resume,
                    ReceiveRemove, AdminCheck
      <4> QED  BY <1>1, <2>1, <4>1 DEF Agrees, Alone
    <3> QED  BY <3>1, <3>2
  \* All agree with the map.
  <2>3. ASSUME NEW y \in Sessions, UserOf(y) = u
        PROVE  /\ Kept(u, told[y]) /\ \A e : e = told[y] => Kept(u, e)' /\ (Off(u, e) => Off(u, e)')
    <3>1. Kept(u, told[y])
      BY <1>1, <2>1, <2>3 DEF Agrees
    <3>2. ASSUME NEW e, e = told[y]
          PROVE  Kept(u, e)' /\ (Off(u, e) => Off(u, e)')
      <4>1. e \in Known /\ Kept(u, e)
        BY <1>1, <2>3, <3>1, <3>2
      <4> QED  BY <1>0, <4>1, KeptStays, OffStays
    <3> QED  BY <3>1, <3>2
  <2>4. CASE x # s
    <3>1. ses'[x].pc = "idle" /\ told'[x] = told[x]
      BY <1>0, <1>3, <2>2, <2>4
    <3>2. PICK e : e = told[x]
      OBVIOUS
    <3>3. Kept(u, e)'
      BY <1>3, <2>3, <3>2
    <3> QED  BY <1>3, <3>1, <3>2, <3>3 DEF Agrees, Asking
  <2>5. CASE x = s
    <3>1. Alone(s)'
      BY <1>0, <2>2 DEF Alone
    <3>2. ASSUME told' = told, Asking(s)' => o \in {ses'[s].game, NoBattle},
                 \A e : Asking(s)' /\ e = ses'[s].game => Kept(u, e)',
                 ses'[s].pc \in {"queued", "matched"} => Off(u, o)
          PROVE  Agrees(s)'
      <4>1. Kept(u, told[s])'
        <5>1. PICK e : e = told[s]
          OBVIOUS
        <5>2. Kept(u, e)'
          BY <2>3, <5>1
        <5> QED  BY <3>2, <5>1, <5>2
      <4>2. Asking(s)' => Kept(u, ses[s].game)'
        <5>1. PICK e : e = ses'[s].game
          OBVIOUS
        <5>2. Asking(s)' => Kept(u, e)'
          BY <3>2, <5>1
        <5> QED  BY <5>1, <5>2
      <4>3. ASSUME ses'[s].pc \in {"queued", "matched"}, NEW t \in Sessions, UserOf(t) = u
            PROVE  Off(u, told[t])'
        <5>1. PICK e : e = told[t]
          OBVIOUS
        <5>2. Kept(u, e)
          BY <2>3, <4>3, <5>1
        <5>3. Off(u, e)
          BY <2>0, <3>2, <4>3, <5>2 DEF Kept
        <5>4. Off(u, e)'
          BY <2>3, <4>3, <5>1, <5>3
        <5> QED  BY <3>2, <5>1, <5>4
      <4> QED  BY <1>0, <2>0, <3>1, <3>2, <4>1, <4>2, <4>3 DEF Agrees
    <3>3. /\ Asking(s) => o \in {b, NoBattle} /\ Kept(u, b) /\ Kept(u, b)'
          /\ ses[s].pc \in {"remove", "broken"} => Off(u, b)
      <4>1. Asking(s) => o \in {b, NoBattle} /\ Kept(u, b)
        BY <1>1, <2>0, <2>1 DEF Agrees
      <4>2. Kept(u, b) => Kept(u, b)'
        BY <1>0, <2>1, KeptStays
      <4> QED  BY <1>1, <2>0, <4>1, <4>2 DEF HeldBy
    <3>4. CASE Queue(s) \/ GetFails(s)
      <4>1. ses'[s].pc \in {"look", "idle"} /\ told' = told
        BY <3>4 DEF Queue, GetFails, Goes, TypeOK
      <4> QED  BY <2>5, <3>2, <4>1 DEF Asking
    <3>5. CASE Look(s)
      <4>1. ses'[s] = [pc |-> IF o = NoBattle THEN "queued" ELSE "connect", game |-> o]
            /\ told' = told
        BY <2>0, <3>5 DEF Look, Goes, TypeOK
      <4>2. Kept(u, o)'
        BY <1>0, <2>0 DEF Kept
      <4>3. o = NoBattle => Off(u, o)
        BY DEF Off, Gone
      <4> QED  BY <2>5, <3>2, <4>1, <4>2, <4>3 DEF Asking
    <3>6. CASE Connect(s) \/ AdminCheck(s)
      <4>1. ses'[s].game = b /\ ses'[s].pc \in {"ask", "remove", "resume"} /\ told' = told
            /\ Asking(s)
        BY <2>0, <3>6 DEF Connect, AdminCheck, Goes, TypeOK, Asking
      <4> QED  BY <2>5, <3>2, <3>3, <4>1
    <3>7. CASE AskFails(s) \/ ReceiveRemove(s)
      <4>1. ses'[s].pc = "queued" /\ told' = told /\ ses[s].pc \in {"broken", "remove"}
        BY <3>7 DEF AskFails, ReceiveRemove, Goes, TypeOK
      <4>2. Off(u, o)
        BY <3>3, <4>1 DEF Asking, Off, Gone
      <4> QED  BY <2>5, <3>2, <4>1, <4>2 DEF Asking
    <3>8. CASE Resume(s)
      <4>1. ses'[s].pc = "idle" /\ told'[s] = b /\ ses[s].pc = "resume"
        BY <2>0, <3>8 DEF Resume, Goes, TypeOK
      <4>2. Kept(u, b)'
        BY <3>3, <4>1 DEF Asking
      <4> QED  BY <2>5, <4>1, <4>2 DEF Agrees, Asking
    <3> QED  BY <3>4, <3>5, <3>6, <3>7, <3>8 DEF Handler, Session
  <2> QED  BY <2>4, <2>5
<1> QED  BY <1>2, <1>3

\* OkWorker's steps.
LEMMA AgreeWorker ==
  ASSUME TypeOK, PoolInv, KnownInv, MatchInv, HeldInv, AgreeInv, OkWorker, Grows
  PROVE  AgreeInv'
<1> DEFINE c == worker.of
<1>0. [Next]_vars /\ \A x \in Sessions : Agrees(x)
  BY DEF Next, AgreeInv
<1>1. ASSUME NEW y \in Sessions, Telling, ses[y].pc = "matched", NEW b,
             ongoing' = [ongoing EXCEPT ![UserOf(y)] = b], ses' = ses, told' = told
      PROVE  \A x \in Sessions : Agrees(x)'
  <2>1. UserOf(y) \notin crowded => Entry(UserOf(y))
    <3> SUFFICES ASSUME UserOf(y) \notin crowded, NEW t \in Sessions, UserOf(t) = UserOf(y)
                 PROVE  Off(UserOf(y), told[t]) /\ ~Asking(t)
      BY DEF Entry
    <3>1. Off(UserOf(y), told[t])
      BY <1>0, <1>1 DEF Agrees
    <3>2. ~Asking(t)
      <4>1. CASE t = y
        BY <1>1, <4>1 DEF Asking
      <4>2. CASE t # y
        BY <1>0, <1>1, <4>2 DEF Agrees, Alone, Asking
      <4> QED  BY <4>1, <4>2
    <3> QED  BY <3>1, <3>2
  <2>2. \A u \in Users : u # UserOf(y) => ongoing'[u] = ongoing[u]
    BY <1>1 DEF TypeOK
  <2>3. \A x \in Sessions : UserOf(x) \notin crowded => Entry(UserOf(x))
    BY <2>1, <2>2 DEF Entry, Users
  <2> QED  BY <1>0, <1>1, <2>3, AgreesSame DEF Asking
<1>2. CASE EnterFirst
  <2>1. Telling /\ worker'.pc = "second" /\ ses' = ses /\ told' = told
        /\ ongoing' = [ongoing EXCEPT ![UserOf(c.s)] = c.game]
    BY <1>2 DEF EnterFirst, Telling, TypeOK, Idle
  <2> QED  BY <1>1, <2>1, TellingTypes DEF AgreeInv, DeleteInv
<1>3. CASE EnterSecond
  <2>1. Telling /\ worker'.pc = "tell" /\ ses' = ses /\ told' = told
        /\ ongoing' = [ongoing EXCEPT ![UserOf(c.t)] = c.game]
    BY <1>3 DEF EnterSecond, Telling, TypeOK, Idle
  <2> QED  BY <1>1, <2>1, TellingTypes DEF AgreeInv, DeleteInv
<1>4. CASE Tell
  <2>1. /\ Telling /\ worker' = Idle /\ ongoing' = ongoing /\ worker.pc = "tell"
        /\ told' = [told EXCEPT ![c.s] = c.game, ![c.t] = c.game]
        /\ ses' = [ses EXCEPT ![c.s].pc = "idle", ![c.t].pc = "idle"]
    BY <1>4 DEF Tell, Telling
  <2>2. /\ c.s \in Sessions /\ c.t \in Sessions
        /\ ses[c.s].pc = "matched" /\ ses[c.t].pc = "matched"
    BY <2>1, TellingTypes
  <2>3. ASSUME NEW x \in Taken(c)  PROVE Agrees(x)'
    <3>1. x \in Sessions /\ told'[x] = c.game /\ ses'[x].pc = "idle"
      BY <2>1, <2>2, <2>3 DEF Taken, TypeOK
    <3>2. ongoing'[UserOf(x)] = c.game
      BY <2>1, <2>3 DEF Taken, HeldInv, WorkerInv
    <3> QED  BY <3>1, <3>2 DEF Agrees, Asking, Kept
  <2>4. ASSUME NEW x \in Sessions \ Taken(c)  PROVE Agrees(x)'
    <3> DEFINE u == UserOf(x)
    <3> SUFFICES ASSUME u \notin crowded'  PROVE Agrees(x)'
      BY DEF Agrees
    <3>0. PICK b, d : b = ses[x].game /\ d = told[x]
      OBVIOUS
    <3>1. /\ told'[x] = d /\ ses'[x] = ses[x] /\ u \notin crowded
          /\ b \in Known /\ d \in Known
      BY <2>1, <2>2, <2>4, <3>0 DEF Taken, TypeOK, Grows, KnownInv
    <3>2. /\ Kept(u, d)'
          /\ Asking(x) => ongoing[u] \in {b, NoBattle} /\ Kept(u, b)'
      <4>1. Kept(u, d) /\ (Asking(x) => ongoing[u] \in {b, NoBattle} /\ Kept(u, b))
        BY <1>0, <2>4, <3>0, <3>1 DEF Agrees
      <4> QED  BY <1>0, <2>1, <3>1, <4>1, KeptStays
    <3>3. CASE ses[x].pc = "idle"
      BY <3>1, <3>2, <3>3 DEF Agrees, Asking
    <3>4. CASE ses[x].pc # "idle"
      <4>1. \A t \in Sessions : UserOf(t) = u => ses'[t] = ses[t] /\ told'[t] = told[t]
        <5>1. UserOf(c.s) # u /\ UserOf(c.t) # u
          BY <1>0, <2>2, <2>4, <3>1, <3>4 DEF Agrees, Alone, Taken
        <5> QED  BY <2>1, <2>2, <5>1 DEF TypeOK
      <4>2. Alone(x)'
        BY <1>0, <2>4, <3>1, <3>4, <4>1 DEF Agrees, Alone
      <4>3. ASSUME ses[x].pc \in {"queued", "matched"}, NEW t \in Sessions, UserOf(t) = u
            PROVE  Off(u, told[t])'
        <5>1. PICK e : e = told[t]
          OBVIOUS
        <5>2. e \in Known /\ Off(u, e)
          BY <1>0, <2>4, <3>1, <4>3, <5>1 DEF Agrees, KnownInv
        <5>3. Off(u, e)'
          BY <1>0, <5>2, OffStays
        <5> QED  BY <4>1, <4>3, <5>1, <5>3
      <4> QED  BY <2>1, <3>0, <3>1, <3>2, <4>2, <4>3 DEF Agrees, Asking
    <3> QED  BY <3>3, <3>4
  <2> QED  BY <2>1, <2>3, <2>4 DEF AgreeInv, DeleteInv, Idle
<1>5. CASE Delete
  <2>1. /\ worker.pc = "delete" /\ worker.user \in Users /\ worker' = Idle
        /\ ongoing' = [ongoing EXCEPT ![worker.user] = NoBattle] /\ ses' = ses /\ told' = told
    BY <1>5 DEF Delete, TypeOK, Idle
  <2>2. \A x \in Sessions : UserOf(x) \notin crowded => Entry(UserOf(x))
    <3>1. worker.user \in crowded \/ Off(worker.user, ongoing[worker.user])
      BY <2>1 DEF AgreeInv, DeleteInv
    <3>2. ongoing'[worker.user] = NoBattle
          /\ \A u \in Users : u # worker.user => ongoing'[u] = ongoing[u]
      BY <2>1 DEF TypeOK
    <3> QED  BY <3>1, <3>2 DEF Entry, Users
  <2> QED  BY <1>0, <2>1, <2>2, AgreesSame DEF AgreeInv, DeleteInv, Asking, Idle
<1> QED  BY <1>2, <1>3, <1>4, <1>5 DEF OkWorker

LEMMA AgreeNext ==
  ASSUME TypeOK, PoolInv, KnownInv, MatchInv, HeldInv, AgreeInv, [Next]_vars
  PROVE  AgreeInv'
<1> USE DEF battleVars, matchVars
<1>1. ASSUME NEW c \in creators, Exit(c)  PROVE AgreeInv'
  <2>1. \A x \in Sessions : told'[x] = NoBattle /\ ses'[x].pc = "idle"
    BY <1>1 DEF Exit, InitSes
  <2>2. worker' = Idle
    BY <1>1 DEF Exit
  <2> QED  BY <2>1, <2>2 DEF AgreeInv, DeleteInv, Agrees, Asking, Kept, Off, Gone, Idle
<1> SUFFICES ASSUME ~(\E c \in creators : Exit(c))  PROVE AgreeInv'
  BY <1>1
<1>2. Grows
  BY Moving DEF HeldInv
<1>3. ASSUME UNCHANGED <<told, ongoing>>, worker' = worker \/ worker'.pc # "delete",
             \A x \in Sessions : /\ ses'[x].game = ses[x].game
                                 /\ Asking(x)' => Asking(x)
                                 /\ ses[x].pc = "idle" => ses'[x].pc = "idle"
                                 /\ ses'[x].pc \in {"queued", "matched"} =>
                                      ses[x].pc \in {"queued", "matched"}
      PROVE  AgreeInv'
  <2>1. \A x \in Sessions : Agrees(x)'
    BY <1>2, <1>3, AgreesSame DEF Entry
  <2>2. DeleteInv'
    <3>1. CASE worker' = worker /\ worker.pc = "delete"
      <4>1. PICK w, o : w = worker.user /\ o = ongoing[w]
        OBVIOUS
      <4>2. w \in Users
        BY <3>1, <4>1 DEF TypeOK, Idle
      <4>3. o \in Known /\ (w \in crowded \/ Off(w, o))
        BY <3>1, <4>1, <4>2 DEF AgreeInv, DeleteInv, KnownInv
      <4>4. w \in crowded' \/ Off(w, o)'
        BY <1>2, <4>3, OffStays DEF Grows
      <4> QED  BY <1>3, <3>1, <4>1, <4>4 DEF DeleteInv, Off, Gone
    <3>2. CASE worker'.pc # "delete"
      BY <3>2 DEF DeleteInv
    <3> QED  BY <1>3, <3>1, <3>2
  <2> QED  BY <2>1, <2>2 DEF AgreeInv
<1>4. ASSUME NEW s \in Sessions, Handler(s)  PROVE AgreeInv'
  <2>1. \A x \in Sessions : Agrees(x)'
    BY <1>2, <1>4, AgreesHandler
  <2>2. DeleteInv'
    <3> SUFFICES ASSUME worker'.pc = "delete"  PROVE DeleteInv'
      BY DEF DeleteInv
    <3>1. PICK w, o : w = worker'.user /\ o = ongoing[w]
      OBVIOUS
    <3>2. ongoing' = ongoing
      BY <1>4, HandlerKeeps
    <3>3. o \in Known /\ (w \in crowded \/ Off(w, o))
      <4>1. CASE worker' = worker
        <5>1. w \in Users
          BY <3>1, <4>1 DEF TypeOK, Idle
        <5> QED  BY <3>1, <4>1, <5>1 DEF AgreeInv, DeleteInv, KnownInv
      <4>2. CASE worker' # worker
        <5>1. ses[s].pc = "remove" /\ w = UserOf(s) /\ w \in Users
          BY <1>4, <3>1, <4>2, HandlerKeeps DEF Users
        <5>2. w \notin crowded => o \in {ses[s].game, NoBattle}
          BY <3>1, <5>1 DEF AgreeInv, Agrees, Asking
        <5>3. Off(w, ses[s].game)
          BY <5>1 DEF HeldInv, HeldBy
        <5> QED  BY <3>1, <5>1, <5>2, <5>3 DEF KnownInv, Off, Gone
      <4> QED  BY <4>1, <4>2
    <3>4. w \in crowded' \/ Off(w, o)'
      BY <1>2, <3>3, OffStays DEF Grows
    <3> QED  BY <3>1, <3>2, <3>4 DEF DeleteInv, Off, Gone
  <2> QED  BY <2>1, <2>2 DEF AgreeInv
<1>5. ASSUME NEW s \in Sessions, NEW t \in Sessions, Match(s, t)  PROVE AgreeInv'
  <2>1. UNCHANGED <<told, ongoing, worker>>
        /\ \A x \in Sessions : /\ ses'[x].game = ses[x].game
                               /\ \/ ses'[x].pc = ses[x].pc
                                  \/ ses[x].pc = "queued" /\ ses'[x].pc = "matched"
    BY <1>5 DEF Match, TypeOK
  <2> QED  BY <1>3, <2>1 DEF Asking
<1>6. ASSUME NEW c \in creators, Create(c)  PROVE AgreeInv'
  <2>1. UNCHANGED <<told, ongoing, worker>>
        /\ \A x \in Sessions : /\ ses'[x].game = ses[x].game
                               /\ ses'[x].pc \in {ses[x].pc, "idle"}
    BY <1>6 DEF Create, Dial, CreateFails, RetryLater, TypeOK
  <2> QED  BY <1>3, <2>1 DEF Asking
<1>7. ASSUME NEW c \in creators, ReceiveOk(c)  PROVE AgreeInv'
  <2>1. worker'.pc = "first" /\ UNCHANGED <<ses, told, ongoing>>
    BY <1>7 DEF ReceiveOk
  <2> QED  BY <1>3, <2>1 DEF Asking
<1>8. CASE OkWorker
  BY <1>2, <1>8, AgreeWorker
<1>9. CASE Crash
  <2>1. UNCHANGED <<told, ongoing, worker>>
        /\ \A x \in Sessions : /\ ses'[x].game = ses[x].game
                               /\ \/ ses'[x].pc = ses[x].pc
                                  \/ ses[x].pc = "ask" /\ ses'[x].pc = "broken"
    BY <1>9 DEF Crash, TypeOK
  <2> QED  BY <1>3, <2>1 DEF Asking
<1>10. ASSUME UNCHANGED <<worker, ongoing, ses, told>>  PROVE AgreeInv'
  BY <1>3, <1>10 DEF Asking
<1>11. ASSUME NEW c \in creators, AdminCreate(c)  PROVE AgreeInv'
  BY <1>10, <1>11 DEF AdminCreate
<1>12. CASE Admin \/ Finish \/ Restart \/ UNCHANGED vars
  BY <1>10, <1>12 DEF Admin, AdminReply, AdminAdvance, Finish, Restart, vars
<1> QED
  BY <1>4, <1>5, <1>6, <1>7, <1>8, <1>9, <1>11, <1>12 DEF Next, Handler

\* A client that was told of a battle that goes on finds its entry when it queues,
\* in every order of OkWorker's receptions, the handlers' and the admin thread's
\* steps; for any number of connections of a player, who loses it only to a failed
\* connection or, with requests on two of them at a time, to another battle of his.
THEOREM ToldResumes == Spec => []ToldIsResumable
<1> DEFINE Inv == TypeOK /\ PoolInv /\ KnownInv /\ MatchInv /\ HeldInv /\ AgreeInv
<1>1. Init => Inv
  <2> SUFFICES ASSUME Init PROVE Inv
    OBVIOUS
  <2>1. KnownInv
    BY PoolAssumption DEF Init, KnownInv, Known, InitSes, NoBattle, Idle, Users
  <2>2. MatchInv
    BY DEF Init, MatchInv, Telling, Idle
  <2>3. HeldInv
    BY DEF Init, HeldInv, HeldBy, WorkerInv, Asking, Held, Kept, Off, Gone, InitSes, Idle
  <2>4. AgreeInv
    BY DEF Init, AgreeInv, DeleteInv, Agrees, Asking, Kept, Off, Gone, InitSes, Idle
  <2> QED  BY <2>1, <2>2, <2>3, <2>4, TypeInit
<1>2. Inv /\ [Next]_vars => Inv'
  BY TypeNext, PoolNext, KnownNext, MatchNext, HeldNext, AgreeNext
<1>3. Inv => ToldIsResumable
  <2> SUFFICES ASSUME Inv, NEW s \in Sessions, told[s] # NoBattle, Alive(told[s])
               PROVE  LET u == UserOf(s)
                      IN  \/ ongoing[u] = told[s]
                          \/ <<u, told[s]>> \in unreached
                          \/ u \in crowded /\ <<u, told[s]>> \in displaced
    BY DEF ToldIsResumable
  <2>1. Held(UserOf(s), told[s])
    BY DEF HeldInv, HeldBy
  <2>2. UserOf(s) \notin crowded => Kept(UserOf(s), told[s])
    BY DEF AgreeInv, Agrees
  <2> QED  BY <2>1, <2>2 DEF Held, Kept, Off, Gone
<1> QED  BY <1>1, <1>2, <1>3, PTL DEF Spec

=============================================================================
