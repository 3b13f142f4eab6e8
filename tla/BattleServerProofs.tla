------------------------- MODULE BattleServerProofs -------------------------
(* The pool and the connection table of the battle server, for any number  *)
(* of slots, entries, clients, battles and crashes.                        *)
EXTENDS BattleServer, TLAPS

\* The next id, less 1, as if the counter had moved on already.
NextIndex == IF admin = "advance" THEN counter + 1 ELSE counter
Live == (1 .. made) \ lost

\* The battles of this process have the ids before the next one, in turn.
IdsInTurn ==
  \A b \in Live : made - b < Capacity =>
    \/ idOf[b] = NextIndex - (made - b)
    \/ idOf[b] = NextIndex - (made - b) + Capacity

\* Two battles of one id are a round of the pool apart.
SameIdApart ==
  \A b, c \in Live : b < c /\ idOf[b] = idOf[c] => c - b >= Capacity

\* A slot holds the last battle that was given it, or nothing.
PoolHolds ==
  \A i \in Ids : pool[i] # NoBattle =>
    /\ pool[i] \in Live /\ idOf[pool[i]] = i
    /\ \A b \in Live : idOf[b] = i => b <= pool[i]

\* What has been freed is as old as the pool is long.
FreedIsOld == \A b \in freed : made - b >= Capacity - 1

\* An entry has no battle, or that of its client's ticket, unless it is what was
\* on the stack.
EntryIsOwn(e) ==
  ~e.raw /\ e.id # 0 =>
    /\ e.addr # None
    /\ e.addr \in Addrs =>
         /\ e.seat = TicketOf(e.addr).seat
         /\ TicketOf(e.addr).battle \in Live
         /\ e.id = idOf[TicketOf(e.addr).battle]
EntriesOwn == \A i \in 1 .. Conns : EntryIsOwn(conn[i])

\* The battle the main loop has a pointer to is one of this process.
HeldIsLive == main.game # NoBattle => main.game \in Live

\* It is sending an entry the state of its own battle, or of one with its id.
SendIsOwn ==
  main.pc = "send" => Own(conn[main.entry], main.game)

IInv ==
  /\ admin = "clear" => counter = 0
  /\ lost \subseteq 1 .. made
  /\ IdsInTurn /\ SameIdApart /\ PoolHolds /\ FreedIsOld /\ NullHasCause
  /\ EntriesOwn /\ HeldIsLive /\ SendIsOwn

-----------------------------------------------------------------------------
(* Types.                                                                  *)

\* A free entry is an entry; so is one of a table a process may start with.
LEMMA TableTypes ==
  /\ Free \in Entry
  /\ \A c \in Tables : c \in [1 .. Conns -> Entry]
<1>1. 0 \in 0 .. Capacity /\ 0 \in 0 .. 2
  BY ServerAssumption
<1>2. Free \in Entry
  BY <1>1 DEF Free, Entry
<1>3. Leftovers \subseteq Entry
  BY ServerAssumption
<1> QED  BY <1>2, <1>3 DEF Tables

\* The battles and ids there are.
LEMMA FirstId == 1 \in Ids /\ 0 \in 0 .. Capacity - 1
BY ServerAssumption DEF Ids

\* The types hold at the start.
LEMMA TypeInit == Init => TypeOK
<1> SUFFICES ASSUME Init PROVE TypeOK
  OBVIOUS
<1>1. conn \in [1 .. Conns -> Entry]
  BY TableTypes DEF Init
<1>2. idOf \in [Battles -> Ids] /\ pool \in [Ids -> MaybeBattle] /\ counter \in 0 .. Capacity - 1
  BY FirstId DEF Init, EmptyPool, MaybeBattle
<1>3. made \in 0 .. MaxBattles /\ crashes \in 0 .. MaxCrashes
  BY ServerAssumption DEF Init
<1>4. main \in Phases /\ main.pc \notin {"broadcast", "send", "ticket"}
  BY DEF Init, Phases, At
<1> QED  BY <1>1, <1>2, <1>3, <1>4 DEF Init, TypeOK

\* The process stops: its battles are lost, its tables are gone.
LEMMA TypeDown == TypeOK /\ Down => TypeOK'
<1> SUFFICES ASSUME TypeOK, Down PROVE TypeOK'
  OBVIOUS
<1>1. conn' \in [1 .. Conns -> Entry]
  BY TableTypes DEF Down
<1>2. pool' \in [Ids -> MaybeBattle] /\ counter' \in 0 .. Capacity - 1
  BY FirstId DEF Down, EmptyPool, MaybeBattle
<1>3. crashes' \in 0 .. MaxCrashes /\ lost' \in SUBSET Battles
  BY ServerAssumption DEF Down, TypeOK, Battles
<1>4. main' \in Phases /\ main'.pc = "logic"
  BY DEF Down, Phases, At
<1> QED  BY <1>1, <1>2, <1>3, <1>4 DEF Down, TypeOK, netVars

\* The admin thread keeps the types.
LEMMA TypeAdmin == TypeOK /\ AdminThread => TypeOK'
<1> SUFFICES ASSUME TypeOK, AdminThread PROVE TypeOK'
  OBVIOUS
<1>1. CASE AdminCreate
  <2>1. made + 1 \in Battles /\ made' \in 0 .. MaxBattles /\ counter + 1 \in Ids
    BY <1>1, ServerAssumption DEF AdminCreate, TypeOK, Battles, Ids
  <2>2. pool' \in [Ids -> MaybeBattle] /\ idOf' \in [Battles -> Ids]
    BY <1>1, <2>1 DEF AdminCreate, TypeOK, MaybeBattle
  <2> QED  BY <1>1, <2>1, <2>2 DEF AdminCreate, TypeOK, netVars
<1>2. CASE AdminAdvance
  <2>1. counter' \in 0 .. Capacity - 1
    BY <1>2, ServerAssumption DEF AdminAdvance, NextCounter, TypeOK
  <2>2. freed' \in SUBSET Battles
    BY <1>2, FirstId DEF AdminAdvance, TypeOK, MaybeBattle
  <2> QED  BY <1>2, <2>1, <2>2 DEF AdminAdvance, TypeOK, netVars
<1>3. CASE AdminClear
  BY <1>3 DEF AdminClear, TypeOK, MaybeBattle, netVars
<1>4. CASE \E b \in 1 .. made : AdminSuddenDeath(b)
  BY <1>4, TypeDown DEF AdminSuddenDeath
<1> QED  BY <1>1, <1>2, <1>3, <1>4 DEF AdminThread

\* What the main loop holds, by where it is.
LEMMA PhaseFields ==
  ASSUME main \in Phases
  PROVE  /\ main.game \in MaybeBattle /\ main.entry \in 0 .. Conns
         /\ main.pc \in {"broadcast", "send"} => main.entry \in 1 .. Conns
         /\ main.pc \in {"update", "send", "ticket"} => main.game \in Battles
<1>1. Conns \in Nat
  BY ServerAssumption
<1> QED  BY <1>1 DEF Phases, At, Visiting, Holding, MaybeBattle, NoBattle

\* The broadcast stays in the table.
LEMMA GoesOn ==
  ASSUME NEW i \in 0 .. Conns, GoOn(i)
  PROVE  main' = At("expire") \/ \E j \in 1 .. Conns : main' = Visiting(j) /\ HasBattle(conn[j])
<1>1. \A S \in SUBSET (i + 1 .. Conns) : First(S) \subseteq S
  BY DEF First
<1>2. i + 1 .. Conns \subseteq 1 .. Conns
  BY ServerAssumption
<1> QED  BY <1>1, <1>2 DEF GoOn

\* A step of the main loop keeps the types of what it does not change.
LEMMA TypeOfMain ==
  ASSUME TypeOK, MainLoop, over' \in SUBSET Battles, conn' \in [1 .. Conns -> Entry],
         main' \in Phases,
         main'.pc \in {"broadcast", "send"} => HasBattle(conn'[main'.entry]),
         main'.pc = "ticket" /\ main'.entry # 0 => conn'[main'.entry].addr \in Addrs,
         open' \in SUBSET Addrs, done' \in SUBSET Addrs
  PROVE  TypeOK'
<1>1. UNCHANGED poolVars
  BY DEF MainLoop, LogicLoad, LogicUpdate, SelectNothing, CheckToken, Broadcast,
         BroadcastLoad, BroadcastSend, Expire, Receive
<1>2. admin # "down"
  BY DEF MainLoop, LogicLoad, LogicUpdate, SelectNothing, CheckToken, Broadcast,
         BroadcastLoad, BroadcastSend, Expire, Receive, Up
<1> QED  BY <1>1, <1>2 DEF TypeOK, poolVars, HasBattle

\* It goes somewhere where no entry is looked at.
LEMMA TypeOfPlain ==
  ASSUME TypeOK, MainLoop, over' \in SUBSET Battles, conn' \in [1 .. Conns -> Entry],
         UNCHANGED netVars,
         \/ main' \in {At("logic"), At("expire"), At("select")}
         \/ \E b \in Battles : main' = Holding("update", b, 0)
  PROVE  TypeOK'
<1>1. main' \in Phases /\ main'.pc \notin {"broadcast", "send", "ticket"}
  BY DEF Phases, At, Holding
<1>2. open' \in SUBSET Addrs /\ done' \in SUBSET Addrs
  BY DEF TypeOK, netVars
<1> QED  BY <1>1, <1>2, TypeOfMain

\* Or on with the broadcast.
LEMMA TypeOfGoOn ==
  ASSUME TypeOK, MainLoop, UNCHANGED over, conn' \in {conn, AllSeen}, open' \in SUBSET Addrs,
         done' \in SUBSET Addrs, NEW i \in 0 .. Conns, GoOn(i)
  PROVE  TypeOK'
<1>1. conn' \in [1 .. Conns -> Entry]
  <2>1. \A e \in Entry : [e EXCEPT !.seen = TRUE] \in Entry
    BY DEF Entry
  <2> QED  BY <2>1 DEF TypeOK, AllSeen
<1>2. \A j \in 1 .. Conns : HasBattle(conn[j]) => HasBattle(conn'[j])
  <2>1. \A e \in Entry : HasBattle(e) => HasBattle([e EXCEPT !.seen = TRUE])
    BY DEF Entry, HasBattle
  <2>2. \A j \in 1 .. Conns : conn[j] \in Entry
    BY DEF TypeOK
  <2>3. CASE conn' = conn
    BY <2>3
  <2>4. CASE conn' = AllSeen
    BY <2>1, <2>2, <2>4 DEF AllSeen
  <2> QED  BY <2>3, <2>4
<1>3. over' \in SUBSET Battles
  BY DEF TypeOK
<1>4. CASE main' = At("expire")
  <2>1. main' \in Phases /\ main'.pc \notin {"broadcast", "send", "ticket"}
    BY <1>4 DEF Phases, At
  <2> QED  BY <1>1, <1>3, <2>1, TypeOfMain
<1>5. ASSUME NEW j \in 1 .. Conns, main' = Visiting(j), HasBattle(conn[j])  PROVE TypeOK'
  <2>1. main' \in Phases /\ main'.pc = "broadcast" /\ main'.entry = j
    BY <1>5 DEF Phases, Visiting
  <2> QED  BY <1>1, <1>2, <1>3, <1>5, <2>1, TypeOfMain
<1> QED  BY <1>4, <1>5, GoesOn

\* The main thread keeps the types too.
LEMMA TypeMain == TypeOK /\ MainLoop => TypeOK'
<1> SUFFICES ASSUME TypeOK, MainLoop PROVE TypeOK'
  OBVIOUS
<1>1. AllSeen \in [1 .. Conns -> Entry]
  BY DEF TypeOK, AllSeen, Entry
<1>2. /\ main.game \in MaybeBattle /\ main.entry \in 0 .. Conns
      /\ main.pc \in {"broadcast", "send"} => main.entry \in 1 .. Conns
      /\ main.pc \in {"update", "send", "ticket"} => main.game \in Battles
  BY PhaseFields DEF TypeOK
<1>3. \A i \in Ids : pool[i] # NoBattle => pool[i] \in Battles
  BY DEF TypeOK, MaybeBattle
<1>4. over \in SUBSET Battles /\ conn \in [1 .. Conns -> Entry]
      /\ open \in SUBSET Addrs /\ done \in SUBSET Addrs
  BY DEF TypeOK
<1>5. CASE LogicLoad
  BY <1>3, <1>4, <1>5, TypeOfPlain DEF LogicLoad
<1>6. CASE LogicUpdate
  <2>1. over' \in SUBSET Battles /\ conn' \in [1 .. Conns -> Entry]
    BY <1>1, <1>2, <1>4, <1>6 DEF LogicUpdate
  <2> QED  BY <1>6, <2>1, TypeOfPlain DEF LogicUpdate
<1>7. CASE SelectNothing
  BY <1>4, <1>7, TypeOfPlain DEF SelectNothing
<1>8. CASE CheckToken
  <2> DEFINE i == main.entry
             e == conn[i]
             t == TicketOf(e.addr)
             whole == [addr |-> e.addr, id |-> idOf[t.battle], seat |-> t.seat,
                       seen |-> FALSE, raw |-> FALSE]
  <2>1. CASE conn' = conn
    BY <1>4, <1>8, <2>1, TypeOfPlain DEF CheckToken
  <2>2. CASE i # 0 /\ conn' = [conn EXCEPT ![i] = whole]
    <3>1. e.addr \in Addrs
      BY <1>8, <2>2 DEF CheckToken, TypeOK
    <3>2. t.battle \in Battles /\ t.seat \in {1, 2}
      BY <3>1, ServerAssumption DEF Battles
    <3>3. idOf[t.battle] \in 0 .. Capacity
      BY <3>2, ServerAssumption DEF TypeOK, Ids
    <3>4. whole \in Entry
      BY <3>1, <3>2, <3>3 DEF Entry
    <3>5. conn' \in [1 .. Conns -> Entry]
      BY <1>4, <2>2, <3>4
    <3> QED  BY <1>4, <1>8, <3>5, TypeOfPlain DEF CheckToken
  <2> QED  BY <1>8, <2>1, <2>2 DEF CheckToken
<1>9. CASE Broadcast
  <2>1. 0 \in 0 .. Conns
    BY ServerAssumption
  <2> QED  BY <1>4, <1>9, <2>1, TypeOfGoOn DEF Broadcast, netVars
<1>10. CASE BroadcastLoad
  <2> DEFINE e == conn[main.entry]
             b == pool[e.id]
  <2>1. CASE Sendable(e) /\ main' = Holding("send", b, main.entry)
    <3>1. HasBattle(e) /\ main.entry \in 1 .. Conns
      BY <1>2, <1>10 DEF BroadcastLoad, TypeOK
    <3>2. b \in Battles
      BY <1>3, <2>1, <3>1 DEF Sendable, HasBattle
    <3>3. main' \in Phases /\ main'.pc = "send" /\ main'.entry = main.entry
      BY <2>1, <3>1, <3>2 DEF Phases, Holding
    <3> QED  BY <1>4, <1>10, <3>1, <3>3, TypeOfMain DEF BroadcastLoad, netVars
  <2>2. CASE GoOn(main.entry)
    BY <1>2, <1>4, <1>10, <2>2, TypeOfGoOn DEF BroadcastLoad, netVars
  <2> QED  BY <1>10, <2>1, <2>2 DEF BroadcastLoad
<1>11. ASSUME NEW received \in SUBSET Addrs, BroadcastSend(received)  PROVE TypeOK'
  <2>1. done' \in SUBSET Addrs
    BY <1>4, <1>11 DEF BroadcastSend
  <2> QED  BY <1>2, <1>4, <1>11, <2>1, TypeOfGoOn DEF BroadcastSend
<1>12. ASSUME NEW gone \in SUBSET (1 .. Conns), Expire(gone)  PROVE TypeOK'
  <2>1. \A e \in Entry : Forgotten(e) \in Entry
    <3>1. 0 \in 0 .. Capacity
      BY ServerAssumption
    <3> QED  BY <3>1 DEF Forgotten, Entry
  <2>2. conn' \in [1 .. Conns -> Entry]
    BY <1>4, <1>12, <2>1 DEF Expire
  <2> QED  BY <1>4, <1>12, <2>2, TypeOfPlain DEF Expire
<1>13. ASSUME NEW a \in Addrs, Receive(a)  PROVE TypeOK'
  <2> DEFINE game == pool[idOf[TicketOf(a).battle]]
             next(i) == IF game = NoBattle THEN At("logic") ELSE Holding("ticket", game, i)
  <2>1. game # NoBattle => game \in Battles
    <3>1. TicketOf(a).battle \in Battles
      BY ServerAssumption DEF Battles
    <3> QED  BY <1>3, <3>1 DEF TypeOK
  <2>2. ASSUME NEW i \in 0 .. Conns, main' = next(i), conn' \in [1 .. Conns -> Entry],
               i # 0 => conn'[i].addr \in Addrs
        PROVE  TypeOK'
    <3>1. main' \in Phases /\ main'.pc \notin {"broadcast", "send"}
      BY <2>1, <2>2 DEF Phases, At, Holding
    <3>2. main'.pc = "ticket" => main'.entry = i
      BY <2>2 DEF At, Holding
    <3> QED  BY <1>4, <1>13, <2>2, <3>1, <3>2, TypeOfMain DEF Receive, netVars
  <2>3. CASE conn' = conn /\ main' = next(0)
    <3>1. 0 \in 0 .. Conns
      BY ServerAssumption
    <3> QED  BY <1>4, <2>2, <2>3, <3>1
  <2>4. ASSUME NEW i \in First(Places(a)), main' = next(i),
               conn' = [conn EXCEPT ![i] = [@ EXCEPT !.addr = a, !.seen = FALSE]]
        PROVE  TypeOK'
    <3>1. i \in 1 .. Conns /\ i \in 0 .. Conns
      BY DEF First, Places
    <3>2. \A e \in Entry : [e EXCEPT !.addr = a, !.seen = FALSE] \in Entry
      BY DEF Entry
    <3>3. conn' \in [1 .. Conns -> Entry]
      BY <1>4, <2>4, <3>1, <3>2
    <3>4. conn'[i].addr = a
      BY <1>4, <2>4, <3>1 DEF Entry
    <3> QED  BY <2>2, <2>4, <3>1, <3>3, <3>4
  <2> QED  BY <1>13, <2>3, <2>4 DEF Receive
<1> QED
  BY <1>5, <1>6, <1>7, <1>8, <1>9, <1>10, <1>11, <1>12, <1>13 DEF MainLoop

\* Every step keeps the types.
LEMMA TypeNext == TypeOK /\ [Next]_vars => TypeOK'
<1> SUFFICES ASSUME TypeOK, [Next]_vars PROVE TypeOK'
  OBVIOUS
<1>1. CASE MainLoop
  BY <1>1, TypeMain
<1>2. CASE AdminThread
  BY <1>2, TypeAdmin
<1>3. CASE Crash
  BY <1>3, TypeDown DEF Crash
<1>4. CASE Restart
  BY <1>4, TableTypes DEF Restart, TypeOK, netVars
<1>5. CASE \E a \in Addrs : Client(a)
  BY <1>5 DEF Client, Join, Leave, TypeOK, poolVars
<1>6. CASE UNCHANGED vars
  BY <1>6 DEF vars, TypeOK, poolVars, netVars
<1> QED  BY <1>1, <1>2, <1>3, <1>4, <1>5, <1>6 DEF Next

\* Every variable has its type: the counter stays within the pool though it is
\* advanced by another step than the one that uses it.
THEOREM TypeCorrect == Spec => []TypeOK
<1>1. QED  BY TypeInit, TypeNext, PTL DEF Spec

-----------------------------------------------------------------------------
(* The pool and the table.                                                 *)

\* It holds of a server that has just started.
LEMMA InvInit == Init => IInv
<1> SUFFICES ASSUME Init PROVE IInv
  OBVIOUS
<1>1. Live = {} /\ pool = [i \in Ids |-> NoBattle]
  BY DEF Init, Live, EmptyPool
<1>2. \A i \in 1 .. Conns : conn[i].raw \/ conn[i].id = 0
  BY ServerAssumption DEF Init, Tables, Free
<1>3. EntriesOwn
  BY <1>2 DEF EntriesOwn, EntryIsOwn
<1>4. NullHasCause
  BY DEF Init, NullHasCause
<1>5. HeldIsLive /\ SendIsOwn
  BY DEF Init, HeldIsLive, SendIsOwn, At
<1> QED
  BY <1>1, <1>3, <1>4, <1>5
     DEF Init, IInv, IdsInTurn, SameIdApart, PoolHolds, FreedIsOld

\* It holds of one that has stopped.
LEMMA InvDown == TypeOK /\ IInv /\ Down => IInv'
<1> SUFFICES ASSUME TypeOK, IInv, Down PROVE IInv'
  OBVIOUS
<1>1. Live' = {} /\ pool' = [i \in Ids |-> NoBattle] /\ admin' = "down" /\ freed' = {}
      /\ lost' = 1 .. made /\ made' = made
  BY DEF Down, Live, EmptyPool
<1>2. EntriesOwn'
  BY DEF Down, EntriesOwn, EntryIsOwn, Free
<1>3. NullHasCause'
  BY <1>1 DEF NullHasCause
<1>4. HeldIsLive' /\ SendIsOwn'
  BY DEF Down, HeldIsLive, SendIsOwn, At
<1> QED
  BY <1>1, <1>2, <1>3, <1>4 DEF IInv, IdsInTurn, SameIdApart, PoolHolds, FreedIsOld

\* Battles that are made leave what the main loop holds as it is.
LEMMA HeldKept ==
  ASSUME TypeOK, IInv, UNCHANGED <<conn, main, lost>>, Live \subseteq Live',
         \A b \in Live : idOf'[b] = idOf[b]
  PROVE  HeldIsLive' /\ SendIsOwn'
<1>1. HeldIsLive'
  BY DEF IInv, HeldIsLive
<1>2. SendIsOwn'
  <2> SUFFICES ASSUME main.pc = "send"  PROVE Own(conn[main.entry], main.game)'
    BY DEF SendIsOwn
  <2> DEFINE e == conn[main.entry]
             t == TicketOf(e.addr)
  <2>1. Own(e, main.game) /\ HasBattle(e) /\ EntryIsOwn(e)
    BY PhaseFields DEF IInv, SendIsOwn, EntriesOwn, TypeOK
  <2>2. e.addr \in Addrs /\ ~e.raw => t.battle \in Live
    BY <2>1, ServerAssumption DEF EntryIsOwn, HasBattle, Ids
  <2> QED  BY <2>1, <2>2 DEF Own
<1> QED  BY <1>1, <1>2

\* A new battle has an id that the last one to have it had a round ago.
LEMMA InvCreate == TypeOK /\ IInv /\ AdminCreate => IInv'
<1> SUFFICES ASSUME TypeOK, IInv, AdminCreate PROVE IInv'
  OBVIOUS
<1> DEFINE n == made + 1
<1>1. /\ n \in Battles /\ made \in Nat /\ made' = n /\ counter + 1 \in Ids
      /\ lost \subseteq 1 .. made /\ lost' = lost /\ Live' = Live \cup {n}
      /\ \A b \in Live : b \in 1 .. made /\ b \in Battles
      /\ NextIndex = counter /\ NextIndex' = counter + 1 /\ counter' = counter
  BY ServerAssumption
     DEF AdminCreate, TypeOK, IInv, Battles, Ids, Live, NextIndex
<1>2. /\ idOf'[n] = counter + 1 /\ pool'[counter + 1] = n
      /\ \A b \in Live : idOf'[b] = idOf[b] /\ idOf[b] \in Ids
      /\ \A i \in Ids : i # counter + 1 => pool'[i] = pool[i]
  BY <1>1 DEF AdminCreate, TypeOK
<1>3. counter \in 0 .. Capacity - 1 /\ Capacity \in Nat /\ Capacity > 1
  BY ServerAssumption DEF TypeOK
<1>4. \A b \in Live : idOf[b] = counter + 1 => n - b >= Capacity
  <2> SUFFICES ASSUME NEW b \in Live, idOf[b] = counter + 1, made - b < Capacity
               PROVE  n - b >= Capacity
    BY <1>1, <1>3
  <2>1. idOf[b] = counter - (made - b) \/ idOf[b] = counter - (made - b) + Capacity
    BY <1>1 DEF IInv, IdsInTurn
  <2> QED  BY <1>1, <1>3, <2>1
<1>5. IdsInTurn'
  <2> SUFFICES ASSUME NEW b \in Live', made' - b < Capacity
               PROVE  \/ idOf'[b] = NextIndex' - (made' - b)
                      \/ idOf'[b] = NextIndex' - (made' - b) + Capacity
    BY DEF IdsInTurn
  <2>1. CASE b = n
    BY <1>1, <1>2, <1>3, <2>1
  <2>2. CASE b \in Live
    <3>1. made - b < Capacity
      BY <1>1, <1>3, <2>2
    <3>2. idOf[b] = counter - (made - b) \/ idOf[b] = counter - (made - b) + Capacity
      BY <1>1, <2>2, <3>1 DEF IInv, IdsInTurn
    <3> QED  BY <1>1, <1>2, <1>3, <2>2, <3>2
  <2> QED  BY <1>1, <2>1, <2>2
<1>6. SameIdApart'
  <2> SUFFICES ASSUME NEW b \in Live', NEW c \in Live', b < c, idOf'[b] = idOf'[c]
               PROVE  c - b >= Capacity
    BY DEF SameIdApart
  <2>1. b \in Live
    BY <1>1
  <2>2. CASE c = n
    BY <1>2, <1>4, <2>1, <2>2
  <2>3. CASE c \in Live
    BY <1>2, <2>1, <2>3 DEF IInv, SameIdApart
  <2> QED  BY <1>1, <2>2, <2>3
<1>7. PoolHolds'
  <2> SUFFICES ASSUME NEW i \in Ids, pool'[i] # NoBattle
               PROVE  /\ pool'[i] \in Live' /\ idOf'[pool'[i]] = i
                      /\ \A b \in Live' : idOf'[b] = i => b <= pool'[i]
    BY DEF PoolHolds
  <2>1. CASE i = counter + 1
    BY <1>1, <1>2, <2>1
  <2>2. CASE i # counter + 1
    <3>1. /\ pool'[i] = pool[i] /\ pool[i] \in Live /\ idOf[pool[i]] = i
          /\ \A b \in Live : idOf[b] = i => b <= pool[i]
      BY <1>2, <2>2 DEF IInv, PoolHolds
    <3> QED  BY <1>1, <1>2, <2>2, <3>1
  <2> QED  BY <2>1, <2>2
<1>8. FreedIsOld'
  <2> SUFFICES ASSUME NEW b \in freed  PROVE n - b >= Capacity - 1
    BY <1>1 DEF FreedIsOld, AdminCreate
  <2>1. b \in Battles /\ made - b >= Capacity - 1
    BY DEF IInv, FreedIsOld, TypeOK
  <2> QED  BY <1>1, <1>3, <2>1 DEF Battles
<1>9. NullHasCause'
  <2> SUFFICES ASSUME NEW b \in 1 .. n, pool'[idOf'[b]] = NoBattle
               PROVE  b \in lost \/ (idOf'[b] = 1 /\ n - b >= Capacity - 1)
    BY <1>1 DEF NullHasCause
  <2>1. b # n /\ b \in 1 .. made
    BY <1>1, <1>2 DEF NoBattle
  <2>2. b \in Battles /\ idOf'[b] = idOf[b] /\ idOf[b] \in Ids
    <3>1. b \in Battles
      BY <1>1, <2>1, ServerAssumption DEF Battles
    <3> QED  BY <2>1, <3>1 DEF AdminCreate, TypeOK
  <2>3. idOf[b] # counter + 1
    BY <1>1, <1>2, <2>2 DEF NoBattle
  <2>4. b \in lost \/ (idOf[b] = 1 /\ made - b >= Capacity - 1)
    BY <1>2, <2>1, <2>2, <2>3 DEF IInv, NullHasCause
  <2> QED  BY <1>1, <1>3, <2>1, <2>2, <2>4
<1>10. EntriesOwn'
  BY <1>1, <1>2 DEF IInv, EntriesOwn, EntryIsOwn, AdminCreate
<1>11. HeldIsLive' /\ SendIsOwn'
  <2>1. UNCHANGED <<conn, main, lost>>
    BY DEF AdminCreate
  <2> QED  BY <1>1, <1>2, <2>1, HeldKept
<1> QED
  BY <1>1, <1>5, <1>6, <1>7, <1>8, <1>9, <1>10, <1>11 DEF IInv, AdminCreate

\* When the counter wraps, every battle with the first id is old.
LEMMA FirstIsOld ==
  ASSUME TypeOK, IInv, NextIndex \in {0, Capacity}, NEW b \in Live, idOf[b] = 1
  PROVE  made - b >= Capacity - 1
<1>1. b \in 1 .. made /\ made \in Nat /\ Capacity \in Nat /\ Capacity > 1
  BY ServerAssumption DEF TypeOK, Live
<1>2. CASE made - b < Capacity
  <2>1. idOf[b] = NextIndex - (made - b) \/ idOf[b] = NextIndex - (made - b) + Capacity
    BY <1>2 DEF IInv, IdsInTurn
  <2> QED  BY <1>1, <1>2, <2>1
<1>3. CASE ~(made - b < Capacity)
  BY <1>1, <1>3
<1> QED  BY <1>2, <1>3

\* The counter moves on, and what is freed is old.
LEMMA InvAdvance == TypeOK /\ IInv /\ AdminAdvance => IInv'
<1> SUFFICES ASSUME TypeOK, IInv, AdminAdvance PROVE IInv'
  OBVIOUS
<1>1. /\ Live' = Live /\ made' = made /\ lost' = lost /\ idOf' = idOf /\ pool' = pool
      /\ conn' = conn /\ admin' \in {"clear", "idle"} /\ NextIndex = counter + 1
  BY DEF AdminAdvance, Live, NextIndex
<1>2. counter \in 0 .. Capacity - 1 /\ Capacity \in Nat /\ Capacity > 1
      /\ \A b \in Live : b \in 1 .. made /\ idOf[b] \in 1 .. Capacity
      /\ made \in Nat
  BY ServerAssumption DEF TypeOK, Live, Ids, Battles
<1>3. \/ NextIndex' = NextIndex
      \/ NextIndex' = 0 /\ NextIndex = Capacity
  BY <1>1, <1>2 DEF AdminAdvance, NextCounter, NextIndex
<1>4. IdsInTurn'
  <2> SUFFICES ASSUME NEW b \in Live, made - b < Capacity
               PROVE  \/ idOf[b] = NextIndex' - (made - b)
                      \/ idOf[b] = NextIndex' - (made - b) + Capacity
    BY <1>1 DEF IdsInTurn
  <2>1. idOf[b] = NextIndex - (made - b) \/ idOf[b] = NextIndex - (made - b) + Capacity
    BY DEF IInv, IdsInTurn
  <2> QED  BY <1>1, <1>2, <1>3, <2>1
<1>5. FreedIsOld'
  <2>1. CASE freed' = freed
    BY <1>1, <2>1 DEF IInv, FreedIsOld
  <2>2. CASE counter' = 0 /\ pool[1] # NoBattle /\ freed' = freed \cup {pool[1]}
    <3>1. NextIndex = Capacity
      BY <1>1, <1>2, <2>2 DEF AdminAdvance, NextCounter
    <3>2. pool[1] \in Live /\ idOf[pool[1]] = 1
      BY <2>2, FirstId DEF IInv, PoolHolds
    <3>3. made - pool[1] >= Capacity - 1
      BY <3>1, <3>2, FirstIsOld
    <3> QED  BY <1>1, <2>2, <3>3 DEF IInv, FreedIsOld
  <2> QED  BY <2>1, <2>2 DEF AdminAdvance
<1>6. (admin' = "clear" => counter' = 0)
  BY DEF AdminAdvance
<1>7. SameIdApart' /\ PoolHolds' /\ NullHasCause' /\ EntriesOwn'
  BY <1>1 DEF IInv, SameIdApart, PoolHolds, NullHasCause, EntriesOwn, EntryIsOwn
<1>8. HeldIsLive' /\ SendIsOwn'
  BY <1>1, HeldKept DEF AdminAdvance
<1> QED  BY <1>1, <1>4, <1>5, <1>6, <1>7, <1>8 DEF IInv

\* The first slot is emptied while every battle with its id is old.
LEMMA InvClear == TypeOK /\ IInv /\ AdminClear => IInv'
<1> SUFFICES ASSUME TypeOK, IInv, AdminClear PROVE IInv'
  OBVIOUS
<1>1. /\ Live' = Live /\ made' = made /\ lost' = lost /\ idOf' = idOf /\ freed' = freed
      /\ conn' = conn /\ admin' = "idle" /\ NextIndex' = NextIndex /\ NextIndex = 0
      /\ \A i \in Ids : pool'[i] = IF i = 1 THEN NoBattle ELSE pool[i]
  BY DEF AdminClear, Live, NextIndex, IInv, TypeOK
<1>2. PoolHolds'
  BY <1>1 DEF IInv, PoolHolds
<1>3. NullHasCause'
  <2> SUFFICES ASSUME NEW b \in 1 .. made, pool'[idOf[b]] = NoBattle, b \notin lost
               PROVE  idOf[b] = 1 /\ made - b >= Capacity - 1
    BY <1>1 DEF NullHasCause
  <2>1. b \in Live /\ idOf[b] \in Ids
    BY ServerAssumption DEF Live, TypeOK, Battles
  <2>2. CASE idOf[b] = 1
    BY <1>1, <2>1, <2>2, FirstIsOld
  <2>3. CASE idOf[b] # 1
    BY <1>1, <2>1, <2>3 DEF IInv, NullHasCause
  <2> QED  BY <2>2, <2>3
<1>4. IdsInTurn' /\ SameIdApart' /\ FreedIsOld' /\ EntriesOwn'
  BY <1>1 DEF IInv, IdsInTurn, SameIdApart, FreedIsOld, EntriesOwn, EntryIsOwn
<1>5. HeldIsLive' /\ SendIsOwn'
  BY <1>1, HeldKept DEF AdminClear
<1> QED  BY <1>1, <1>2, <1>3, <1>4, <1>5 DEF IInv

\* A step that leaves the pool alone and the entries their clients' is harmless.
LEMMA InvKept ==
  ASSUME IInv, UNCHANGED poolVars, EntriesOwn', HeldIsLive', SendIsOwn'
  PROVE  IInv'
BY DEF IInv, poolVars, IdsInTurn, SameIdApart, PoolHolds, FreedIsOld, NullHasCause,
       Live, NextIndex

\* Hearing nothing of a client, and forgetting it, leave an entry its client's.
LEMMA EntryKept ==
  ASSUME NEW e \in Entry, EntryIsOwn(e)
  PROVE  EntryIsOwn([e EXCEPT !.seen = TRUE]) /\ EntryIsOwn(Forgotten(e))
BY DEF EntryIsOwn, Forgotten, Entry

\* So does the first datagram of an address, which changes nothing but the address
\* of a free entry.
LEMMA EntryGiven ==
  ASSUME NEW e \in Entry, EntryIsOwn(e), NEW a \in Addrs, e.addr \in {a, None}
  PROVE  EntryIsOwn([e EXCEPT !.addr = a, !.seen = FALSE])
<1> DEFINE part == [e EXCEPT !.addr = a, !.seen = FALSE]
<1>1. part.addr = a /\ part.id = e.id /\ part.seat = e.seat /\ part.raw = e.raw
  BY DEF Entry
<1> QED  BY <1>1, ServerAssumption DEF EntryIsOwn

\* So does a ticket the tokens match: the battle is one of this process.
LEMMA EntryFilled ==
  ASSUME TypeOK, NEW a \in Addrs, TicketOf(a).battle \in Live
  PROVE  EntryIsOwn([addr |-> a, id |-> idOf[TicketOf(a).battle], seat |-> TicketOf(a).seat,
                     seen |-> FALSE, raw |-> FALSE])
BY ServerAssumption DEF EntryIsOwn

\* A battle in the slot of an entry's id is its own or one a round later.
LEMMA LoadedIsOwn ==
  ASSUME TypeOK, IInv, NEW i \in 1 .. Conns, HasBattle(conn[i]),
         pool[conn[i].id] # NoBattle
  PROVE  Own(conn[i], pool[conn[i].id])
<1> SUFFICES ASSUME conn[i].addr \in Addrs, ~conn[i].raw
             PROVE  LET e == conn[i]
                        t == TicketOf(e.addr)
                    IN  /\ e.seat = t.seat /\ e.id = idOf[t.battle]
                        /\ t.battle \notin lost
                        /\ pool[e.id] = t.battle \/ pool[e.id] - t.battle >= Capacity
  BY DEF Own
<1> DEFINE e == conn[i]
           t == TicketOf(e.addr)
           b == t.battle
           c == pool[e.id]
<1>1. e.id \in Ids /\ e.id # 0 /\ c # NoBattle
  BY ServerAssumption DEF HasBattle, Ids
<1>2. e.seat = t.seat /\ b \in Live /\ e.id = idOf[b]
  BY <1>1 DEF IInv, EntriesOwn, EntryIsOwn
<1>3. c \in Live /\ idOf[c] = e.id /\ b <= c
  BY <1>1, <1>2 DEF IInv, PoolHolds
<1>4. b \in Int /\ c \in Int
  BY <1>2, <1>3 DEF Live, TypeOK
<1>5. c = b \/ c - b >= Capacity
  BY <1>2, <1>3, <1>4 DEF IInv, SameIdApart
<1> QED  BY <1>2, <1>5 DEF Live

\* The battles in the pool are of this process, and so is what a step loads.
LEMMA LoadedIsLive ==
  ASSUME TypeOK, IInv, MainLoop
  PROVE  main'.game \in {NoBattle, main.game} \/ main'.game \in Live
<1>1. \A i \in Ids : pool[i] # NoBattle => pool[i] \in Live
  BY DEF IInv, PoolHolds
<1>2. \A pc \in {"logic", "expire", "select"} : At(pc).game = NoBattle
  BY DEF At
<1>3. \A i \in 0 .. Conns : GoOn(i) => main'.game = NoBattle
  BY GoesOn DEF At, Visiting
<1>4. CASE LogicLoad
  BY <1>1, <1>4 DEF LogicLoad, Holding
<1>5. CASE BroadcastLoad
  <2>1. conn[main.entry].id \in Ids /\ main.entry \in 0 .. Conns
    BY <1>5, PhaseFields DEF BroadcastLoad, TypeOK, HasBattle
  <2> QED  BY <1>1, <1>3, <1>5, <2>1 DEF BroadcastLoad, Sendable, Holding
<1>6. ASSUME NEW a \in Addrs, Receive(a)
      PROVE  main'.game = NoBattle \/ main'.game \in Live
  <2>1. TicketOf(a).battle \in Battles
    BY ServerAssumption DEF Battles
  <2>2. idOf[TicketOf(a).battle] \in Ids
    BY <2>1 DEF TypeOK
  <2> DEFINE game == pool[idOf[TicketOf(a).battle]]
             next(i) == IF game = NoBattle THEN At("logic") ELSE Holding("ticket", game, i)
  <2>3. \E i : main' = next(i)
    BY <1>6 DEF Receive
  <2>4. game = NoBattle \/ game \in Live
    BY <1>1, <2>2
  <2> QED  BY <1>2, <2>3, <2>4 DEF Holding
<1>7. CASE Broadcast
  <2>1. 0 \in 0 .. Conns
    BY ServerAssumption
  <2> QED  BY <1>3, <1>7, <2>1 DEF Broadcast
<1>8. ASSUME NEW received \in SUBSET Addrs, BroadcastSend(received)
      PROVE  main'.game = NoBattle
  BY <1>3, <1>8, PhaseFields DEF BroadcastSend, TypeOK
<1>9. CASE LogicUpdate \/ SelectNothing \/ CheckToken
  BY <1>2, <1>9 DEF LogicUpdate, SelectNothing, CheckToken
<1>10. ASSUME NEW gone \in SUBSET (1 .. Conns), Expire(gone)
       PROVE  main'.game = NoBattle
  BY <1>2, <1>10 DEF Expire
<1> QED
  BY <1>4, <1>5, <1>6, <1>7, <1>8, <1>9, <1>10 DEF MainLoop

\* Only the broadcast begins to send, and an entry its own.
LEMMA SendsOwn ==
  ASSUME TypeOK, IInv, MainLoop, main'.pc = "send"
  PROVE  Own(conn[main'.entry], main'.game) /\ conn' = conn
<1>1. \A i \in 0 .. Conns : GoOn(i) => main'.pc # "send"
  BY GoesOn DEF At, Visiting
<1>2. CASE BroadcastLoad
  <2>1. main.entry \in 1 .. Conns /\ HasBattle(conn[main.entry])
    BY <1>2, PhaseFields DEF BroadcastLoad, TypeOK
  <2>2. Sendable(conn[main.entry])
        /\ main' = Holding("send", pool[conn[main.entry].id], main.entry)
    BY <1>1, <1>2, <2>1 DEF BroadcastLoad
  <2>3. main'.game = pool[conn[main.entry].id] /\ main'.entry = main.entry
    BY <2>2 DEF Holding
  <2> QED  BY <1>2, <2>1, <2>2, <2>3, LoadedIsOwn DEF BroadcastLoad, Sendable
<1>3. CASE Broadcast
  <2>1. 0 \in 0 .. Conns
    BY ServerAssumption
  <2> QED  BY <1>1, <1>3, <2>1 DEF Broadcast
<1>4. ASSUME NEW received \in SUBSET Addrs, BroadcastSend(received)  PROVE FALSE
  BY <1>1, <1>4, PhaseFields DEF BroadcastSend, TypeOK
<1>5. CASE LogicLoad \/ LogicUpdate \/ SelectNothing \/ CheckToken
  BY <1>5 DEF LogicLoad, LogicUpdate, SelectNothing, CheckToken, At, Holding
<1>6. ASSUME NEW gone \in SUBSET (1 .. Conns), Expire(gone)  PROVE FALSE
  BY <1>6 DEF Expire, At
<1>7. ASSUME NEW a \in Addrs, Receive(a)  PROVE FALSE
  <2> DEFINE game == pool[idOf[TicketOf(a).battle]]
             next(i) == IF game = NoBattle THEN At("logic") ELSE Holding("ticket", game, i)
  <2>1. \E i : main' = next(i)
    BY <1>7 DEF Receive
  <2> QED  BY <2>1 DEF At, Holding
<1> QED
  BY <1>2, <1>3, <1>4, <1>5, <1>6, <1>7 DEF MainLoop

\* The main thread gives an entry its client's battle or none.
LEMMA InvMain == TypeOK /\ IInv /\ MainLoop => IInv'
<1> SUFFICES ASSUME TypeOK, IInv, MainLoop PROVE IInv'
  OBVIOUS
<1>1. UNCHANGED poolVars
  BY DEF MainLoop, LogicLoad, LogicUpdate, SelectNothing, CheckToken, Broadcast,
         BroadcastLoad, BroadcastSend, Expire, Receive
<1>2. \A i \in 1 .. Conns : conn[i] \in Entry /\ EntryIsOwn(conn[i])
  BY DEF TypeOK, IInv, EntriesOwn
<1>3. Live' = Live /\ idOf' = idOf /\ lost' = lost
  BY <1>1 DEF Live, poolVars
<1>4. HeldIsLive'
  BY <1>3, LoadedIsLive DEF IInv, HeldIsLive
<1>5. SendIsOwn'
  BY <1>3, SendsOwn DEF SendIsOwn, Own
<1>6. SUFFICES \A i \in 1 .. Conns : EntryIsOwn(conn'[i])
  <2>1. ASSUME \A i \in 1 .. Conns : EntryIsOwn(conn'[i])  PROVE EntriesOwn'
    BY <1>3, <2>1 DEF EntriesOwn, EntryIsOwn
  <2> QED  BY <1>1, <1>4, <1>5, <2>1, InvKept
<1>7. CASE conn' = conn
  BY <1>2, <1>7
<1>8. CASE conn' = AllSeen
  BY <1>2, <1>8, EntryKept DEF AllSeen
<1>9. ASSUME NEW gone \in SUBSET (1 .. Conns), Expire(gone)
      PROVE  \A i \in 1 .. Conns : EntryIsOwn(conn'[i])
  BY <1>2, <1>9, EntryKept DEF Expire
<1>10. ASSUME NEW a \in Addrs, Receive(a)
       PROVE  \A i \in 1 .. Conns : EntryIsOwn(conn'[i])
  <2>1. ASSUME NEW j \in First(Places(a)),
               conn' = [conn EXCEPT ![j] = [@ EXCEPT !.addr = a, !.seen = FALSE]]
        PROVE  \A i \in 1 .. Conns : EntryIsOwn(conn'[i])
    <3>1. j \in 1 .. Conns /\ conn[j].addr \in {a, None}
      BY DEF First, Places
    <3>2. EntryIsOwn([conn[j] EXCEPT !.addr = a, !.seen = FALSE])
      BY <1>2, <3>1, EntryGiven
    <3> QED  BY <1>2, <2>1, <3>1, <3>2 DEF TypeOK
  <2> QED  BY <1>7, <1>10, <2>1 DEF Receive
<1>11. CASE CheckToken
  <2> DEFINE j == main.entry
             e == conn[j]
             t == TicketOf(e.addr)
             whole == [addr |-> e.addr, id |-> idOf[t.battle], seat |-> t.seat,
                       seen |-> FALSE, raw |-> FALSE]
  <2>1. CASE j # 0 /\ main.game = t.battle /\ conn' = [conn EXCEPT ![j] = whole]
    <3>1. e.addr \in Addrs /\ main.game \in Battles
      BY <1>11, <2>1, PhaseFields DEF CheckToken, TypeOK
    <3>2. main.game # NoBattle
      BY <3>1 DEF Battles, NoBattle
    <3>3. t.battle \in Live
      BY <2>1, <3>2 DEF IInv, HeldIsLive
    <3>4. EntryIsOwn(whole)
      BY <3>1, <3>3, EntryFilled
    <3> QED  BY <1>2, <2>1, <3>4 DEF TypeOK
  <2> QED  BY <1>7, <1>11, <2>1 DEF CheckToken
<1> QED
  BY <1>7, <1>8, <1>9, <1>10, <1>11
     DEF MainLoop, LogicLoad, LogicUpdate, SelectNothing, Broadcast, BroadcastLoad,
         BroadcastSend

\* Every step keeps it.
LEMMA InvNext == TypeOK /\ IInv /\ [Next]_vars => IInv'
<1> SUFFICES ASSUME TypeOK, IInv, [Next]_vars PROVE IInv'
  OBVIOUS
<1>1. CASE MainLoop
  BY <1>1, InvMain
<1>2. CASE AdminThread
  BY <1>2, InvCreate, InvAdvance, InvClear, InvDown DEF AdminThread, AdminSuddenDeath
<1>3. CASE Crash
  BY <1>3, InvDown DEF Crash
<1>4. CASE Restart
  <2>1. \A i \in 1 .. Conns : conn'[i].raw \/ conn'[i].id = 0
    BY <1>4, ServerAssumption DEF Restart, Tables, Free
  <2>2. EntriesOwn'
    BY <2>1 DEF EntriesOwn, EntryIsOwn
  <2>3. /\ Live' = Live /\ NextIndex' = NextIndex /\ made' = made /\ lost' = lost
        /\ idOf' = idOf /\ pool' = pool /\ freed' = freed /\ admin' = "idle"
    BY <1>4 DEF Restart, Live, NextIndex
  <2>4. HeldIsLive' /\ SendIsOwn'
    <3>1. main' = main /\ lost' = lost /\ idOf' = idOf /\ main.pc # "send"
      BY <1>4 DEF Restart, TypeOK
    <3> QED  BY <2>3, <3>1 DEF IInv, HeldIsLive, SendIsOwn
  <2> QED
    BY <2>2, <2>3, <2>4
       DEF IInv, IdsInTurn, SameIdApart, PoolHolds, FreedIsOld, NullHasCause
<1>5. CASE (\E a \in Addrs : Client(a)) \/ UNCHANGED vars
  <2>1. UNCHANGED <<poolVars, conn, main>>
    BY <1>5 DEF Client, Join, Leave, vars
  <2>2. EntriesOwn'
    BY <2>1 DEF IInv, EntriesOwn, EntryIsOwn, Live, poolVars
  <2>3. HeldIsLive' /\ SendIsOwn'
    BY <2>1, HeldKept DEF Live, poolVars
  <2> QED  BY <2>1, <2>2, <2>3, InvKept
<1> QED  BY <1>1, <1>2, <1>3, <1>4, <1>5 DEF Next

LEMMA Invariant == Spec => [](TypeOK /\ IInv)
<1>1. Init => TypeOK /\ IInv
  BY TypeInit, InvInit
<1>2. TypeOK /\ IInv /\ [Next]_vars => TypeOK' /\ IInv'
  BY TypeNext, InvNext
<1> QED  BY <1>1, <1>2, PTL DEF Spec

-----------------------------------------------------------------------------

\* The main thread uses freed memory only for a battle that is a round of the
\* pool old, however the two threads interleave.
THEOREM HeldOld == Spec => []HeldIsOld
<1>1. IInv => HeldIsOld
  BY DEF IInv, FreedIsOld, HeldIsOld
<1> QED  BY <1>1, Invariant, PTL

\* A slot is empty for SUDDENDEATH only after a crash or a round of the pool.
THEOREM NullCause == Spec => []NullHasCause
<1>1. IInv => NullHasCause
  BY DEF IInv
<1> QED  BY <1>1, Invariant, PTL

\* What is sent to an address is the state of the battle its client plays, or of
\* one that has its slot a round later.
THEOREM OwnState == Spec => []StateIsOwn
<1>1. TypeOK /\ IInv => StateIsOwn
  <2> SUFFICES ASSUME TypeOK, IInv PROVE StateIsOwn
    OBVIOUS
  <2>1. main.pc = "send" => Own(conn[main.entry], main.game)
    BY DEF IInv, SendIsOwn
  <2> QED  BY <2>1, LoadedIsOwn DEF StateIsOwn
<1> QED  BY <1>1, Invariant, PTL
=============================================================================
