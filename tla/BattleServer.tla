---------------------------- MODULE BattleServer ----------------------------
(***************************************************************************)
(* The two threads of the battle server and the clients that play on it.   *)
(* The main thread goes round one loop: it updates every battle of the     *)
(* pool, sends the state of its battle to every entry of the connection    *)
(* table, forgets the entries it has not heard of for two seconds and      *)
(* reads one datagram.  The admin thread makes battles and frees the first *)
(* slot when the pool wraps, with no lock between the two: wherever the    *)
(* main thread loads a pointer from the pool, to update a battle, to send  *)
(* its state or to check a ticket against its tokens, the memory may have  *)
(* been freed when it is used.                                             *)
(*                                                                         *)
(* A client opens one UDP socket per battle and sends its ticket (battle   *)
(* id and token) until it has seen the end of the battle.  Datagrams are   *)
(* lost, repeated and late.  The connection table is never initialised:    *)
(* its entries start as what is on the stack.  Battles are numbered in the *)
(* order they are made, which stands for the tokens.  What a battle does   *)
(* before it is over is PuckGame's.                                        *)
(***************************************************************************)
EXTENDS Integers, FiniteSets

CONSTANTS
  Addrs,       \* the sockets clients open, by address
  TicketOf(_), \* the battle each is for, and the player's seat in it
  None, Junk,  \* no address, and one that is stack contents
  Conns,       \* LW_CONN_CAPACITY (32)
  Capacity,    \* LW_PUCK_GAME_POOL_CAPACITY (512)
  MaxBattles,  \* bound: battles made in a behaviour
  MaxCrashes,  \* bound: crashes of the process
  Leftovers,   \* bound: what an entry may be at the start, if not zero
  MaxJunk      \* bound: entries that are not zero at the start

Battles == 1 .. MaxBattles
NoBattle == 0
MaybeBattle == Battles \cup {NoBattle}
Ids == 1 .. Capacity
Seats == {1, 2}

VARIABLES
  \* The admin thread and what it shares with the main thread.
  pool,      \* puck_game_pool, by battle id
  counter,   \* battle_counter
  admin,     \* what tcp_admin_server_entry is doing
  made,      \* battles made so far
  idOf,      \* the id of each
  freed,     \* the battles whose memory has been freed
  over,      \* the battles that have finished
  lost,      \* the battles of a process that has crashed
  crashes,
  \* The main thread.
  conn,      \* the connection table
  main,      \* where the main loop is, the battle it holds a pointer to, and
             \* the entry of the table it is at
  \* The clients and the network.
  open,      \* the sockets that have been opened
  done       \* those that send no more: the client has seen the end of its
             \* battle, or is gone

poolVars == <<pool, counter, admin, made, idOf, freed, lost, crashes>>
netVars == <<open, done>>
vars == <<poolVars, over, conn, main, netVars>>

\* ipport, battle_id and player_no; may two seconds have passed since it was
\* heard of; are battle_id and player_no what was on the stack.
Entry == [addr : Addrs \cup {None, Junk}, id : 0 .. Capacity, seat : 0 .. 2,
          seen : BOOLEAN, raw : BOOLEAN]
Free == [addr |-> None, id |-> 0, seat |-> 0, seen |-> TRUE, raw |-> FALSE]

\* An entry that has an address, a seat and a battle id.
HasBattle(e) == e.addr # None /\ e.seat \in Seats /\ e.id \in Ids

ASSUME ServerAssumption ==
  /\ IsFiniteSet(Addrs) /\ None \notin Addrs /\ Junk \notin Addrs \cup {None}
  /\ \A a \in Addrs : TicketOf(a) \in [battle : 1 .. MaxBattles, seat : {1, 2}]
  /\ Conns \in Nat \ {0} /\ Capacity \in Nat /\ Capacity > 1
  /\ MaxBattles \in Nat /\ MaxCrashes \in Nat /\ MaxJunk \in Nat
  /\ Leftovers \subseteq {e \in Entry : e.raw /\ e.addr \notin Addrs}

\* The main loop uses a pointer to a battle while it updates it, sends its state
\* and checks a ticket; the ticket may be that of a client without an entry.
At(pc) == [pc |-> pc, game |-> NoBattle, entry |-> 0]
Visiting(i) == [pc |-> "broadcast", game |-> NoBattle, entry |-> i]
Holding(pc, b, i) == [pc |-> pc, game |-> b, entry |-> i]
Phases ==
  {At(pc) : pc \in {"logic", "expire", "select"}} \cup {Visiting(i) : i \in 1 .. Conns}
    \cup {Holding("update", b, 0) : b \in Battles}
    \cup {Holding("send", b, i) : b \in Battles, i \in 1 .. Conns}
    \cup {Holding("ticket", b, i) : b \in Battles, i \in 0 .. Conns}

TypeOK ==
  /\ pool \in [Ids -> MaybeBattle] /\ counter \in 0 .. Capacity - 1
  /\ admin \in {"idle", "advance", "clear", "down"}
  /\ made \in 0 .. MaxBattles /\ idOf \in [Battles -> Ids]
  /\ freed \in SUBSET Battles /\ over \in SUBSET Battles /\ lost \in SUBSET Battles
  /\ crashes \in 0 .. MaxCrashes
  /\ conn \in [1 .. Conns -> Entry]
  /\ main \in Phases /\ (admin = "down" => main.pc = "logic")
  /\ main.pc \in {"broadcast", "send"} => HasBattle(conn[main.entry])
  /\ main.pc = "ticket" /\ main.entry # 0 => conn[main.entry].addr \in Addrs
  /\ open \in SUBSET Addrs /\ done \in SUBSET Addrs

\* Tables a process may start with.
Tables ==
  {c \in [1 .. Conns -> {Free} \cup Leftovers] :
     Cardinality({i \in 1 .. Conns : c[i].raw}) <= MaxJunk}

EmptyPool == [i \in Ids |-> NoBattle]

Init ==
  /\ pool = EmptyPool /\ counter = 0 /\ admin = "idle" /\ made = 0
  /\ idOf = [b \in Battles |-> 1]
  /\ freed = {} /\ over = {} /\ lost = {} /\ crashes = 0
  /\ conn \in Tables /\ main = At("logic")
  /\ open = {} /\ done = {}

Up == admin # "down"

-----------------------------------------------------------------------------
(* The admin thread.                                                       *)

\* CREATEBATTLE: the next slot is given the new battle, whatever was in it.
AdminCreate ==
  /\ admin = "idle" /\ made < MaxBattles
  /\ made' = made + 1
  /\ pool' = [pool EXCEPT ![counter + 1] = made + 1]
  /\ idOf' = [idOf EXCEPT ![made + 1] = counter + 1]
  /\ admin' = "advance"
  /\ UNCHANGED <<counter, freed, over, lost, crashes, conn, main, netVars>>

\* Fault: the counter starts again one slot early.
NextCounterEarly(c) == IF c + 2 < Capacity THEN c + 1 ELSE 0
NextCounter(c) == IF c + 1 < Capacity THEN c + 1 ELSE 0

\* The counter moves on; when it wraps, the battle in the first slot is freed ...
AdminAdvance ==
  /\ admin = "advance"
  /\ counter' = NextCounter(counter)
  /\ IF counter' = 0 /\ pool[1] # NoBattle
     THEN admin' = "clear" /\ freed' = freed \cup {pool[1]}
     ELSE admin' = "idle" /\ UNCHANGED freed
  /\ UNCHANGED <<pool, made, idOf, over, lost, crashes, conn, main, netVars>>

\* ... and then its pointer is set to null.
AdminClear ==
  /\ admin = "clear" /\ admin' = "idle"
  /\ pool' = [pool EXCEPT ![1] = NoBattle]
  /\ UNCHANGED <<counter, made, idOf, freed, over, lost, crashes, conn, main, netVars>>

Down ==
  /\ crashes < MaxCrashes /\ crashes' = crashes + 1
  /\ pool' = EmptyPool /\ counter' = 0 /\ admin' = "down" /\ lost' = 1 .. made
  /\ freed' = {} /\ main' = At("logic")
  /\ conn' = [i \in 1 .. Conns |-> Free]
  /\ UNCHANGED <<made, idOf, over, netVars>>

\* SUDDENDEATH for a battle whose slot is empty reads through a null pointer.
\* (For one that is there it takes hp, which is PuckGame's.)
AdminSuddenDeath(b) == admin = "idle" /\ pool[idOf[b]] = NoBattle /\ Down

Crash == Up /\ Down

Restart ==
  /\ admin = "down" /\ admin' = "idle"
  /\ conn' \in Tables
  /\ UNCHANGED <<pool, counter, made, idOf, freed, lost, crashes, over, main, netVars>>

-----------------------------------------------------------------------------
(* The main thread.                                                        *)

\* The loop over the pool, as often as it is due: a pointer is loaded ...
LogicLoad ==
  /\ Up /\ main.pc = "logic"
  /\ \E i \in Ids :
       pool[i] # NoBattle /\ main' = Holding("update", pool[i], 0)
  /\ UNCHANGED <<poolVars, over, conn, netVars>>

\* After a broadcast, or a wait for the reward server, two seconds may have
\* passed without a datagram from an address.
AllSeen == [i \in 1 .. Conns |-> [conn[i] EXCEPT !.seen = TRUE]]

\* ... and the battle updated.  If that is its end, the result is reported,
\* and the loop waits for up to 19 seconds while the reward server is away.
LogicUpdate ==
  /\ Up /\ main.pc = "update" /\ main' = At("logic")
  /\ \/ UNCHANGED <<over, conn>>
     \/ /\ main.game \notin over /\ over' = over \cup {main.game}
        /\ conn' \in {conn, AllSeen}
  /\ UNCHANGED <<poolVars, netVars>>

\* Fault: the state of a battle that has finished is not sent.
SendableUnfinished(e) == pool[e.id] # NoBattle /\ pool[e.id] \notin over
Sendable(e) == pool[e.id] # NoBattle

First(S) == {i \in S : \A j \in S : i <= j}

\* The broadcast is at the next such entry after i, or at its end.
GoOn(i) ==
  LET next == First({j \in i + 1 .. Conns : HasBattle(conn[j])})
  IN  IF next = {} THEN main' = At("expire") ELSE \E j \in next : main' = Visiting(j)

\* broadcast_state_packet, if it is due, goes through the table ...
Broadcast ==
  /\ Up /\ main.pc = "logic" /\ GoOn(0)
  /\ conn' = AllSeen
  /\ UNCHANGED <<poolVars, over, netVars>>

\* ... and loads the pointer to the battle of an entry, if there is one ...
BroadcastLoad ==
  /\ Up /\ main.pc = "broadcast"
  /\ LET e == conn[main.entry]
     IN  IF Sendable(e) THEN main' = Holding("send", pool[e.id], main.entry)
         ELSE GoOn(main.entry)
  /\ UNCHANGED <<poolVars, over, conn, netVars>>

\* ... to send its state to the entry's address, which may not come through.
\* What is read from memory that has been freed may look like an end.
BroadcastSend(received) ==
  /\ Up /\ main.pc = "send" /\ GoOn(main.entry)
  /\ received \subseteq {conn[main.entry].addr} \cap Addrs
  /\ \/ main.game \in over \cup freed /\ done' = done \cup received
     \/ main.game \notin over \ freed /\ UNCHANGED done
  /\ UNCHANGED <<poolVars, over, conn, open>>

\* Fault: the place is free, but battle_id stays.
ForgottenWithBattle(e) == [e EXCEPT !.addr = None]
Forgotten(e) == [e EXCEPT !.addr = None, !.id = 0, !.raw = FALSE]

\* invalidate_dead_conn
Expire(gone) ==
  /\ Up /\ main.pc \in {"logic", "expire"}
  /\ \A i \in gone : conn[i].addr # None /\ conn[i].seen
  /\ conn' = [i \in 1 .. Conns |-> IF i \in gone THEN Forgotten(conn[i]) ELSE conn[i]]
  /\ main' = At("select")
  /\ UNCHANGED <<poolVars, over, netVars>>

SelectNothing ==
  /\ Up /\ main.pc = "select" /\ main' = At("logic")
  /\ UNCHANGED <<poolVars, over, conn, netVars>>

\* add_conn: the entry of an address, else the first free one.  Nothing
\* happens when there is none.
Places(a) ==
  LET own == {i \in 1 .. Conns : conn[i].addr = a}
      free == {i \in 1 .. Conns : conn[i].addr = None}
  IN  IF own # {} THEN own ELSE free

\* The ticket of client a comes: add_conn, and check_token loads the pointer to
\* the battle that has the ticket's id.  A client sends until it is done; what it
\* has sent may come later.
Receive(a) ==
  LET game == pool[idOf[TicketOf(a).battle]]
      checks(i) == main' = IF game = NoBattle THEN At("logic") ELSE Holding("ticket", game, i)
  IN  /\ Up /\ main.pc = "select" /\ a \in open
      /\ \/ Places(a) = {} /\ checks(0) /\ UNCHANGED conn
         \/ \E i \in First(Places(a)) :
              /\ checks(i)
              /\ conn' = [conn EXCEPT ![i] = [@ EXCEPT !.addr = a, !.seen = FALSE]]
      /\ UNCHANGED <<poolVars, over, netVars>>

\* check_token compares the tokens and, if it finds the ticket's, the control of
\* the player is set and add_conn_with_token fills the entry of the address.
\* In memory that has been freed the tokens may be gone.
CheckToken ==
  /\ Up /\ main.pc = "ticket" /\ main' = At("logic")
  /\ LET e == conn[main.entry]
         t == TicketOf(e.addr)
         found == main.entry # 0 /\ main.game = t.battle
     IN  \/ /\ found
            /\ conn' = [conn EXCEPT ![main.entry] =
                 [addr |-> e.addr, id |-> idOf[t.battle], seat |-> t.seat,
                  seen |-> FALSE, raw |-> FALSE]]
         \/ /\ found => main.game \in freed
            /\ UNCHANGED conn
  /\ UNCHANGED <<poolVars, over, netVars>>

-----------------------------------------------------------------------------
(* The clients.                                                            *)

\* MATCHED2 for a battle opens a socket.
Join(a) ==
  /\ a \notin open /\ TicketOf(a).battle <= made
  /\ open' = open \cup {a}
  /\ UNCHANGED <<poolVars, over, conn, main, done>>

\* The socket is closed, or the app ends.
Leave(a) ==
  /\ a \in open \ done /\ done' = done \cup {a}
  /\ UNCHANGED <<poolVars, over, conn, main, open>>

-----------------------------------------------------------------------------
MainLoop ==
  \/ LogicLoad \/ LogicUpdate \/ SelectNothing \/ CheckToken
  \/ Broadcast \/ BroadcastLoad
  \/ \E received \in SUBSET Addrs : BroadcastSend(received)
  \/ \E gone \in SUBSET (1 .. Conns) : Expire(gone)
  \/ \E a \in Addrs : Receive(a)

AdminThread ==
  \/ AdminCreate \/ AdminAdvance \/ AdminClear
  \/ \E b \in 1 .. made : AdminSuddenDeath(b)

Client(a) == Join(a) \/ Leave(a)

Next ==
  \/ MainLoop \/ AdminThread \/ Crash \/ Restart
  \/ \E a \in Addrs : Client(a)

Spec == Init /\ [][Next]_vars

\* The loop goes on and comes to the broadcast again and again; what is sent
\* again and again comes through.  Nothing is promised of the clients or of the
\* admin thread.
FairSpec ==
  /\ Spec
  /\ WF_vars(main.pc # "logic" /\ MainLoop)
  /\ SF_vars(Broadcast)
  /\ \A a \in Addrs :
       /\ SF_vars(a \notin done /\ Receive(a))
       /\ SF_vars(BroadcastSend({a}))

-----------------------------------------------------------------------------
\* The state of battle b, sent to the address of entry e, is that of its client's
\* own battle, from its own side, or of one that was given the same slot a round
\* of the pool later.  (An entry that has its battle from the stack aside.)
Own(e, b) ==
  LET t == TicketOf(e.addr)
  IN  e.addr \in Addrs /\ ~e.raw =>
        /\ e.seat = t.seat /\ e.id = idOf[t.battle] /\ t.battle \notin lost
        /\ b = t.battle \/ b - t.battle >= Capacity

\* A client is sent its own state: so are the entries when the broadcast loads the
\* pointer, and so is what it sends, whatever the admin thread does in between.
StateIsOwn ==
  /\ \A i \in 1 .. Conns : HasBattle(conn[i]) /\ pool[conn[i].id] # NoBattle =>
       Own(conn[i], pool[conn[i].id])
  /\ main.pc = "send" => Own(conn[main.entry], main.game)

\* The main thread updates, sends or checks a ticket against memory that the
\* admin thread has freed only for a battle that Capacity - 1 others have come
\* after.
HeldIsOld ==
  main.game \in freed => made - main.game >= Capacity - 1

\* SUDDENDEATH finds no battle only after a crash of the server, or in the
\* first slot when the pool has come round to it.
NullHasCause ==
  \A b \in 1 .. made :
    pool[idOf[b]] = NoBattle =>
      b \in lost \/ (idOf[b] = 1 /\ made - b >= Capacity - 1)

\* Client a does not know yet that its battle, which is in its slot and has not
\* been freed, is over.
Waiting(a) ==
  LET b == TicketOf(a).battle
  IN  a \in open \ done /\ Up /\ pool[idOf[b]] = b /\ b \in over \ freed

\* A client sees the end of its battle, unless it finds no place in the table:
\* though datagrams are lost and the loop waits for the reward server.
EndIsSeen ==
  \A a \in Addrs : Waiting(a) ~> (~Waiting(a) \/ Places(a) = {})
=============================================================================
