------------------------------- MODULE Reward -------------------------------
(***************************************************************************)
(* What becomes of a battle's result.  The battle server sends it over its *)
(* one connection; the reward server has a goroutine for every connection  *)
(* it accepted, which takes what one Read returns for one packet, gets the *)
(* two ratings from the rank server, sets the new ones, and then enters    *)
(* rating and statistics into both user files, each under a lease.  The    *)
(* rank server has no storage: when it starts, it loads the files.         *)
(*                                                                         *)
(* A rating is the set of the results that went into it, and Zero if one   *)
(* of them started from the score 0 of a Get that failed.  A call that     *)
(* fails has been repeated by rpchelper; it may have been carried out.     *)
(***************************************************************************)
EXTENDS Integers, Sequences, FiniteSets

CONSTANTS
  Results,        \* battles that end
  PlayerOf(_, _), \* PlayerOf(r, i) is player i of r
  None, Zero,
  MaxConns,       \* bound: connections of the battle server
  MaxFaults       \* bound: broken connections, failed calls, crashes

ASSUME RewardAssumption ==
  /\ MaxConns \in Nat \ {0} /\ MaxFaults \in Nat
  /\ None \notin Results /\ Zero \notin Results
  /\ \A r \in Results : PlayerOf(r, 1) # PlayerOf(r, 2)

Conns == 1 .. MaxConns
Both == {1, 2}
PlayersOf(r) == {PlayerOf(r, i) : i \in Both}
Users == UNION {PlayersOf(r) : r \in Results}

VARIABLES
  sent,    \* results the battle server has sent
  conn,    \* its connection
  open,    \* which is not broken
  wire,    \* what each connection carries, unread
  hnd,     \* what the goroutine of each connection is doing
  rank,    \* ratings of the rank server
  file,    \* user files: Rating and BattleStat
  lease,   \* who has leased each
  faults,
  done,    \* results handled to the end
  lost,    \* results that will not be handled to the end
  causes   \* what may have spoilt a rating

battleVars == <<sent, conn, open>>
dataVars == <<rank, file, lease>>
vars == <<battleVars, wire, hnd, dataVars, faults, done, lost, causes>>

Rating == SUBSET (Results \cup {Zero})
Db == [rating : Rating, stat : SUBSET Results]
NewDb == [rating |-> {}, stat |-> {}]
Closed == [pc |-> "closed", r |-> None, i |-> 1, old |-> [i \in Both |-> {}], db |-> NewDb]
Reading == [Closed EXCEPT !.pc = "read"]

TypeOK ==
  /\ sent \subseteq Results /\ conn \in Conns /\ open \in BOOLEAN
  /\ wire \in [Conns -> Seq(sent)]
  /\ hnd \in [Conns -> [pc : {"closed", "read", "get", "set", "lease", "write"},
                        r : Results \cup {None}, i : Both,
                        old : [Both -> Rating], db : Db]]
  /\ rank \in [Users -> Rating]
  /\ file \in [Users -> Db]
  /\ lease \in [Users -> Conns \cup {None}]
  /\ faults \in 0 .. MaxFaults
  /\ done \subseteq sent /\ lost \subseteq sent /\ done \cap lost = {}
  /\ causes \subseteq {"overlap", "call", "restart", "crash"}

Init ==
  /\ sent = {} /\ conn = 1 /\ open = TRUE
  /\ wire = [c \in Conns |-> << >>]
  /\ hnd = [c \in Conns |-> IF c = 1 THEN Reading ELSE Closed]
  /\ rank = [u \in Users |-> {}]
  /\ file = [u \in Users |-> NewDb]
  /\ lease = [u \in Users |-> None]
  /\ faults = 0 /\ done = {} /\ lost = {} /\ causes = {}

Elements(s) == {s[j] : j \in DOMAIN s}
Busy(c) == hnd[c].pc \in {"get", "set", "lease", "write"}
Fault == faults < MaxFaults /\ faults' = faults + 1

-----------------------------------------------------------------------------
(* The battle server and the network.                                      *)

\* The first send into a broken connection seems to succeed.
Send(r) ==
  /\ r \notin sent /\ sent' = sent \cup {r}
  /\ IF open
     THEN wire' = [wire EXCEPT ![conn] = Append(@, r)] /\ UNCHANGED lost
     ELSE lost' = lost \cup {r} /\ UNCHANGED wire
  /\ UNCHANGED <<conn, open, hnd, dataVars, faults, done, causes>>

\* What has not arrived is lost.
Break ==
  /\ open /\ Fault /\ open' = FALSE
  /\ \E n \in 0 .. Len(wire[conn]) :
       /\ wire' = [wire EXCEPT ![conn] = SubSeq(@, 1, n)]
       /\ lost' = lost \cup Elements(SubSeq(wire[conn], n + 1, Len(wire[conn])))
  /\ UNCHANGED <<sent, conn, hnd, dataVars, done, causes>>

\* A send has failed, or the battle server starts again: tcp_connect.
Reconnect ==
  /\ ~open /\ conn < MaxConns
  /\ conn' = conn + 1 /\ open' = TRUE
  /\ hnd' = [hnd EXCEPT ![conn'] = Reading]
  /\ UNCHANGED <<sent, wire, dataVars, faults, done, lost, causes>>

-----------------------------------------------------------------------------
(* The reward server: handleRequest.                                       *)

\* Fault: a goroutine whose connection is broken reads no more.
ReadableOpen(c) == wire[c] # << >> /\ c = conn /\ open
Readable(c) == wire[c] # << >>

\* One packet, however many came: the others are dropped with the buffer.
Read(c) ==
  /\ hnd[c].pc = "read" /\ Readable(c)
  /\ \E n \in 1 .. Len(wire[c]) :
       /\ wire' = [wire EXCEPT ![c] = SubSeq(@, n + 1, Len(@))]
       /\ lost' = lost \cup Elements(SubSeq(wire[c], 2, n))
  /\ LET r == wire[c][1]
     IN  /\ hnd' = [hnd EXCEPT ![c] = [Reading EXCEPT !.pc = "get", !.r = r]]
         /\ causes' = IF \E d \in Conns \ {c} :
                           Busy(d) /\ PlayersOf(hnd[d].r) \cap PlayersOf(r) # {}
                      THEN causes \cup {"overlap"} ELSE causes
  /\ UNCHANGED <<battleVars, dataVars, faults, done>>

Close(c) ==
  /\ hnd[c].pc = "read" /\ wire[c] = << >> /\ (c # conn \/ ~open)
  /\ hnd' = [hnd EXCEPT ![c] = Closed]
  /\ UNCHANGED <<battleVars, wire, dataVars, faults, done, lost, causes>>

-----------------------------------------------------------------------------
(* The reward server: handleBattleResult.                                  *)

User(h) == PlayerOf(h.r, h.i)

\* Fault: both players are given the first one's rating.
FirstRating(h) == h.old[1] \cup {h.r}
\* CalculateNewRating
NewRating(h) == h.old[h.i] \cup {h.r}

\* Fault: the player's number is not reset.
ThenPast(h, pc) ==
  [h EXCEPT !.i = h.i + 1, !.pc = IF h.i = 1 THEN h.pc ELSE pc]
\* The calls of one kind, for player 1 and then for player 2.
Then(h, pc) ==
  IF h.i = 1 THEN [h EXCEPT !.i = 2] ELSE [h EXCEPT !.i = 1, !.pc = pc]
Goes(c, h) == hnd' = [hnd EXCEPT ![c] = h]

Get(c) ==
  LET h == hnd[c]
  IN  /\ h.pc = "get"
      /\ \/ /\ Goes(c, Then([h EXCEPT !.old[h.i] = rank[User(h)]], "set"))
            /\ UNCHANGED <<faults, causes>>
         \/ /\ Fault /\ causes' = causes \cup {"call"}
            /\ Goes(c, Then([h EXCEPT !.old[h.i] = {Zero}], "set"))
      /\ UNCHANGED <<battleVars, wire, dataVars, done, lost>>

\* A call that fails is logged, and the next one made.
Set(c) ==
  LET h == hnd[c]
      Done == rank' = [rank EXCEPT ![User(h)] = NewRating(h)]
  IN  /\ h.pc = "set"
      /\ \/ Done /\ UNCHANGED <<faults, causes>>
         \/ Fault /\ causes' = causes \cup {"call"} /\ (Done \/ UNCHANGED rank)
      /\ Goes(c, Then(h, "lease"))
      /\ UNCHANGED <<battleVars, wire, file, lease, done, lost>>

-----------------------------------------------------------------------------
(* The reward server: updateUserDbBattleStat.                              *)

\* The player's file is done with, changed or not.
Leave(c) ==
  LET h == hnd[c]
  IN  IF h.i = 2
      THEN Goes(c, Reading) /\ done' = done \cup {h.r}
      ELSE Goes(c, [h EXCEPT !.i = 2, !.pc = "lease"]) /\ UNCHANGED done

\* Somebody's lease has to be a second old to be taken away.
Lease(c) ==
  LET h == hnd[c]
  IN  /\ h.pc = "lease"
      /\ lease' = [lease EXCEPT ![User(h)] = c]
      /\ Goes(c, [h EXCEPT !.pc = "write", !.db = file[User(h)]])
      /\ UNCHANGED <<battleVars, wire, rank, file, faults, done, lost, causes>>

LeaseFails(c) ==
  /\ hnd[c].pc = "lease" /\ Leave(c)
  /\ \/ lease[User(hnd[c])] # None /\ UNCHANGED <<faults, causes>>
     \/ Fault /\ causes' = causes \cup {"call"}
  /\ UNCHANGED <<battleVars, wire, dataVars, lost>>

Record(h) == [rating |-> NewRating(h), stat |-> h.db.stat \cup {h.r}]

Write(c) ==
  LET h == hnd[c]
      u == User(h)
      Done == /\ file' = [file EXCEPT ![u] = Record(h)]
              /\ lease' = [lease EXCEPT ![u] = None]
  IN  /\ h.pc = "write" /\ Leave(c)
      /\ \/ lease[u] = c /\ Done /\ UNCHANGED <<faults, causes>>
         \/ lease[u] # c /\ UNCHANGED <<file, lease, faults, causes>>
         \/ /\ Fault /\ causes' = causes \cup {"call"}
            /\ ((lease[u] = c /\ Done) \/ UNCHANGED <<file, lease>>)
      /\ UNCHANGED <<battleVars, wire, rank, lost>>

-----------------------------------------------------------------------------
(* Crashes.                                                                *)

\* A rating of the rank server is ahead of the file.
Ahead(c) ==
  \/ hnd[c].pc \in {"lease", "write"}
  \/ hnd[c].pc = "set" /\ hnd[c].i = 2

\* Fault: the ratings are not loaded.
LoadedNone(u) == {}
Loaded(u) == file[u].rating

RankRestart ==
  /\ Fault
  /\ rank' = [u \in Users |-> Loaded(u)]
  /\ causes' = IF \E c \in Conns : Ahead(c) THEN causes \cup {"restart"} ELSE causes
  /\ UNCHANGED <<battleVars, wire, hnd, file, lease, done, lost>>

\* The reward server ends, and starts.
Crash ==
  /\ Fault /\ open' = FALSE
  /\ hnd' = [c \in Conns |-> Closed]
  /\ wire' = [c \in Conns |-> << >>]
  /\ lost' = lost \cup (UNION {Elements(wire[c]) : c \in Conns})
                  \cup {hnd[c].r : c \in {d \in Conns : Busy(d)}}
  /\ causes' = IF \E c \in Conns : Busy(c) THEN causes \cup {"crash"} ELSE causes
  /\ UNCHANGED <<sent, conn, dataVars, done>>

-----------------------------------------------------------------------------
Handler(c) ==
  Read(c) \/ Close(c) \/ Get(c) \/ Set(c) \/ Lease(c) \/ LeaseFails(c) \/ Write(c)

Next ==
  \/ \E r \in Results : Send(r)
  \/ Break \/ Reconnect \/ RankRestart \/ Crash
  \/ \E c \in Conns : Handler(c)

Spec == Init /\ [][Next]_vars

\* The goroutines run; rpchelper gives a call up in the end.
FairSpec == Spec /\ \A c \in Conns : WF_vars(Handler(c))

-----------------------------------------------------------------------------
\* Results that were handled to the end count, for both players, in the
\* leaderboard, in the rating of the file and in the statistics, whatever
\* connection they came by and however often the rank server was restarted in
\* between, unless goroutines worked on one player at once, a call failed, or a
\* server ended in the middle of a result.
RewardedInFull ==
  causes = {} =>
    \A r \in done : \A u \in PlayersOf(r) :
      r \in rank[u] \cap file[u].rating \cap file[u].stat

\* Then nobody's file differs from the leaderboard but while a result of his is
\* being entered: a restart of the rank server changes no rating.
FileFollowsRank ==
  causes = {} =>
    \A u \in Users :
      (\A c \in Conns : Ahead(c) => u \notin PlayersOf(hnd[c].r))
        => file[u].rating = rank[u]

\* Every result that was sent is handled to the end, or is lost with its
\* connection, its process or as the second of a Read.
ResultEnds == \A r \in Results : r \in sent ~> r \in done \cup lost
=============================================================================
