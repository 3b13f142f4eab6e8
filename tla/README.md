# A verification project for laidoff

laidoff ("Ball Rumble") is a two-player physics game: a C client, a C battle
server that simulates the matches, and a group of Go servers around it that
keep users, pair players and keep the ranking. This directory models the parts
of the servers where threads, goroutines, messages and failures meet, checks
the models with TLC and proves the central results with TLAPS for every value
of the constants.

## 1. The system

```
          QUEUE2/3, CANCELQUEUE, SETNICKNAME ...          lease/write RPC
  client ----------------- TCP ----------------> match-server ----------> db-server
    |                                             |        |                 ^   ^
    |                           CREATEBATTLE,     |        | QueueScoreMatch |   | dbadmin
    | UDP state/control   CHECKBATTLEVALID (TCP)  |        v    RPC          |   | web form
    |                                             v    rank-server           |
    +--------------------------------------> battle server   ^               |
                                                  |          | Get/Set RPC   |
                                                  +--BATTLERESULT--> reward-server
```

| part | state it keeps | operations | what is hard about it |
|---|---|---|---|
| db-server (`src/db-server`) | a file per user; `leaseMap` | Create, Get, Lease, Write; the web form of dbadmin | leases expire while their holders work; files are truncated before they are written; calls are repeated; the form takes no lease |
| match-server, nearest-score queue (`handler/queue3.go`, `cancelqueue.go`) | `NearestMatchMap` | QUEUE3, CANCELQUEUE, one goroutine per request | map and pool of the rank server are changed in separate steps |
| match-server, ongoing battles (`handler/queue2.go`, `battle/battle.go`) | `ongoingBattleMap` | CheckOngoingBattle, createBattleInstance, OkWorker | cached battle ids outlive the battles |
| match-server, FIFO queue (`entry/entry.go`) | a channel and two local variables | matchWorker, a handler goroutine per connection | a cancel is a message in the same queue; answers cross with requests |
| rank-server (`src/rank-server`) | the leaderboard, the match pool (both `RankData`) | Set, Get, GetLeaderboard…, QueueScoreMatch | five aligned containers; `Set` runs unlocked in RPC goroutines |
| battle server, pool (`serversrc/servermain.c`) | `puck_game_pool`, `battle_counter` | CREATEBATTLE, CHECKBATTLEVALID, SUDDENDEATH on the admin thread | slots are reused in turn; two threads without a lock |
| battle server, one battle (`src/puckgame.c`) | phase, hp, clock | tick, damage, end, report | SUDDENDEATH at any moment; retries of the report |
| battle server, UDP (`serversrc/servermain.c`) | a table of 32 connections, on the stack and not initialised | tokens, state broadcast, expiry | time-outs, capacity; the other thread frees battles |
| reward-server (`src/reward-server`) | none of its own | one result → two ratings, two user files | Get, Set, Lease and Write per player, each may fail; a Read is taken for a packet |
| push-server | two maps | register, broadcast, forget | the maps refer to each other |
| rpchelper | an RPC client | Call with two retries | a lost reply repeats a call that was carried out |
| client, TCP (`src/lwtcp.c`, `lwtcpclient.c`) | one send buffer, one receive buffer, `send_fail` | send, reconnect, resend, parse | overwriting, half packets of an old connection |
| client, UDP and threads (`src/lwudp.c`, `lwringbuffer.c`, `laidoff.c`, `logic.c`) | the socket, a ring of states, two flags | receive, play back, load a scene, quit | two threads with no lock but the ring's |

The hazards of each part, at their lines, are listed in `PROJECT.json`
("hazards") with the properties that watch them.

What makes each part correct, in a sentence: *db-server* loses no accepted
change and hands out no half-written record; *the score queue* uses every pool
entry once, forgets no user and leaks no goroutine; *the FIFO queue* and the
client agree on who is searching; *RankData* is a table of scores; *the reward
server* counts every result once, for both players and in every place that keeps
a rating; *the pool* keeps a battle where its id says as long as ids are unique,
and the match server sends players back to battles that go on; *the battle server*
sends a client the state of its own battle and no other; *a battle* ends,
ends once, and its one report agrees with the phase the players saw; *the client*
sends what it was asked to, takes packets whole, reads states in order and draws
nothing that is being loaded; *nobody* waits for ever.

## 2. Modules

Core modules follow the code; `…Proofs` hold theorems; `MC…` give the constants
values that a `.cfg` cannot write and define symmetries. Operators whose comment
begins with "Fault:" are deliberate mistakes next to the operator they distort:
they show that a property notices when the code goes wrong, and nothing uses them.

### DbLease — leases and user files
One action per step of `db-server/entry/entry.go`: clients (`StartLease`,
`StartWrite`, `Abandon`, `CallFails`) stand for match-server's SETNICKNAME and
for the reward-server; `GrantLease`, `RefuseLease`, `BeginWrite`, `EndWrite`,
`RefuseWrite` for the goroutine that receives both kinds of request from one
channel. A write is two steps, `os.Create` (which truncates) and the encoding,
so a `Crash` may fall between them. `FailLease` is a file that cannot be opened, for which the
call is made again, or is not there, for which the caller is refused at once; the lease that
was remembered is gone all the same.
`LeaseAges` is the passing of a second.
`AdminLoad`, `AdminTruncate` and `AdminEncode` are the web form, which runs in a
goroutine of its own and asks for no lease. A record is abstracted to the set of
changes it contains, named by the lease they were made under, which is exactly
what "lost update" talks about. `committed`, `acked`, `touched` and `crashes`
are history variables.

* `FileIsCommitted` – a file holds all changes that were accepted, crash in mid-write and web form apart.
* `LiveLeaseIsCurrent` – whoever holds the lease the server remembers works on the record as stored.
* `LeasedRecordIntact` – no torn file is handed out without a crash or the form.
* `CallsReturn` – every call comes back.

### ScoreMatch — the nearest-score queue
`queueToScoreMatch` goroutines are `Workers` whose program counter moves from
call to call (`Start`, `OfferAnswered`, `LookUpAgents`, `Pair`, `NextOffer`,
`BotMatch`); CANCELQUEUE runs as a worker with the operation "delete". Requests
to the rank server are a set of messages that the owner of the pool (`Serve`)
answers; a connection may break (`CallFails`), after which the request may still
be served although nobody waits and the call is made again. `nearest` is the
match server's map, `pool` the rank server's. Which neighbour is near enough is
left open (`RankData` has it). Restarts of both servers are actions.

* `EntryUsedOnce` – an entry of the pool is taken by one match at the most.
* `SilentEndHasReason` – a goroutine that ends without a word has a reason that arose since the pool last
  told it to wait: another's match, a cancel or a restart of the rank server took its entry (`takenOut`),
  its own match had its answer lost (`unheard`), or its first offer had failed (`failed`).
* `PoolEntryServed` – who is in the pool still has a goroutine, or one that broke or gave up.
* `GoroutinesEnd` – no goroutine runs for ever.

### RankOps, RankData, ScoreTable, RankRace — the leaderboard
`RankOps` has the functions of `rankdata.go` as operators on the record of the
map and the four parallel slices, with the code's index arithmetic; `sort.Search`
is external and defined by what it promises. `RankData` applies them one at a time
(as the pool's goroutine does), `ScoreTable` is what they promise: a function
from ids to entries. `ImplementsTable` checks that every behaviour of `RankData`
is one of `ScoreTable`, the mapped table being read off the arrays. `RankRace`
splits `SetWithNickname` at its accesses to shared memory and lets several RPC
goroutines run it, as `RankService.Set` does: find the index, then map, scores, ids and nicknames
one after the other, with the index and the rank found before. The times move as the nicknames do.

* `Aligned` – the four slices and the map agree and are sorted.
* `RevealShowsPlayer` – the page asked for around a player has the player at the index named.
* `ImplementsTable` – the refinement.
* `IdIsFound` – the lookup whose failure ends the server succeeds.

### PuckGame — one battle
The main thread (`TimeUp`, `Decide`, `Prepare`, `Step`, `NoDamage`, `Hit`,
`Death`, `Stat`, `Judge`, `Diff`, `Send`, `SendFails`) as the loop of
`servermain.c` and the tick of `puckgame.c` run it, with the order of checks kept:
the clock before the phases, damage inside the physics step, the report after the
tick. The admin thread's SUDDENDEATH writes one hp and then the other at any
moment. Reads of two hp values by the main thread see any mixture (`Read`). Where
the puck goes is the physics engine's business, so each step may or may not
damage each tower; the cool-down between two hits is kept.

* `WinnerIsPhase` – the reported winner agrees with the phase (writes between decision and report apart).
* `ReportedOnce`, `EndIsFinal`, `BattleEnds`.

### BattlePool — battles between two servers
The handlers of QUEUE2/QUEUE3 up to the queue (`Queue`, `Look`, `Connect`,
`Resume` …), the `createBattleInstance` goroutines (`Dial`, `CreateFails`,
`Exit`), OkWorker behind its unbuffered channel (`ReceiveOk`, `ReceiveRemove`,
`EnterFirst`, `EnterSecond`, `Tell`, `Delete`), the battle server's admin thread
(`AdminCheck`, `AdminCreate`, `AdminReply`, `AdminAdvance`), the end of a battle,
crashes and restarts. A dial may fail though the battle server is up. A battle is a number; its id is
the slot it is in. A player may have several connections (`UserOf`), each with a handler of its own;
`crowded`, `unreached` and `displaced` are history variables.

* `BattleKept` – a battle stays in its slot until the pool has come round.
* `ResumedWithinRound` – until then a resumed battle goes on.
* `ToldIsResumable` – a told client finds its battle in the map while it goes on, but for two cases: a handler
  found no way to the battle server (`unreached`), or the player had requests on two connections at
  a time (`crowded`) and another battle of his took or removed the entry (`displaced`).
* `Served` – handlers and matches come to an end.

### BattleServer — two threads and a table of connections
The other side of the same pool. The admin thread makes a battle (`AdminCreate`),
moves the counter on and frees the first slot when it wraps (`AdminAdvance`), and only
then sets its pointer to null (`AdminClear`); `AdminSuddenDeath` is the case that
reads through a null pointer. The main thread goes round its loop: `LogicLoad` and `LogicUpdate` (in which
it may wait 19 seconds for the reward server), the broadcast (`Broadcast`, then `BroadcastLoad` and
`BroadcastSend` entry by entry), `Expire`, and one datagram (`Receive`: `add_conn` and the load in
`check_token`; `CheckToken`: the tokens and `add_conn_with_token`). Wherever it loads a pointer from the
pool, the load and the use are two steps, and the admin thread may free the battle between them; what is
then read may be anything (an end, or tokens that do not match). A datagram may be lost; a ticket may
come late or again. At the start the table holds what the stack held (`Leftovers`).

* `StateIsOwn` – a client is sent its own battle from its own side, or one a round of the pool later.
* `HeldIsOld` – memory that is freed while it is updated, sent or checked against is a battle's a round old.
* `NullHasCause` – SUDDENDEATH meets an empty slot after a crash or in the first slot a round later only.
* `EndIsSeen` – a client sees the end of its battle, unless the table has no place for it.

### FifoMatch — from the button to the two queues
`Online` and `Back` are the client's buttons, `Reads` what it does with an answer; `up`
and `down` are its connection. A handler goroutine per connection takes one request at
a time and may block on the unbuffered channel (`sendq`, in the order the senders
came) that `matchWorker` (`TakeFirst`, `Push`, `TakeSecond` with `Cancelled`, `Flushed`
and `Match`) serves. A cancel of somebody in the map is two steps, the look and, after the call to the
rank server, the removal (`HandleCancel`, `CancelAnswered`), between which the goroutine is `Busy`. QUEUE3 enters
the map (`nearestMap`) through a goroutine (`EnterMap`; `NeverEnters` if its first offer fails), whose inner
life is ScoreMatch's; the matches on their way are counted by their `Parties` (`making`), and
become battles or fail (`BattleMade`, `BattleFails`, `BotFails`), as BattlePool has it.

* `ViewsAgree` – at rest a client searches exactly if a queue of the server has it, and no cancel
  waits there as a player.
* `ComesToRest` – when the user leaves it alone, everything is answered.

`ViewsAgree` names its exceptions, which are behaviours of the code: a request that *crossed*
with the outcome of an earlier one (a cancel that comes before `queueToScoreMatch` has
entered the map goes into the FIFO queue, is announced as a player who "provokes
you", and may be matched with another cancel; the client shows "Searching aborted" while its
user still is in the map); RETRYQUEUELATER, after which the client goes on
showing a search that the server does not know of; two connections of one user, who share
an entry of the map; and calls that failed (a bot without a user leaves its player
without an answer).

### Reward — from a battle's result to ratings and files
One goroutine per connection: `Read` takes what one Read returns for one packet (the rest
of it is dropped), then `Get`, `Set`, `Lease` and `Write` for player 1 and player 2. Each
call may fail, carried out or not; `RankRestart` loads the files, `Crash` ends the reward
server. A rating is the *set of results* it counts, so a lost or doubled update shows.

* `RewardedInFull` – a handled result counts for both players in leaderboard, file and statistics, or there is a cause.
* `FileFollowsRank` – then a restart of the rank server changes no rating.
* `ResultEnds` – every result is handled or lost with its connection, process or Read.

The causes are an *overlap* of two goroutines on one player, a failed *call* (a failed Get
continues with the score 0), a *restart* of the rank server or a *crash* between the
two writes.

### RingBuffer, DropQueue, ClientThreads — the client's two threads
`RingBuffer` has the functions of `lwringbuffer.c` as operators (each runs under the
ring's mutex). `DropQueue` is what they promise: a queue of `Capacity` that drops the
oldest. `ClientThreads` is the logic thread (the timer that reads the socket, MATCHED2,
RETRYQUEUELATER, scene messages with their busy wait) and the render thread (drop, take,
apply, the gate, the frame, QUITAPP) over the context they share without a lock.

* `RingIsQueue` – the socket's ring is a DropQueue through all steps of both threads (refinement).
* `OverlapSlipped` – a frame drawn during a load had passed the gate before it, and is the only one.
* `WaitsEnd` – the two busy waits end, unless the frame that is waited for is the one that quits.
* `EndApplied` – the end of a battle reaches a client that shows it as going on.

### ClientTcp — the connection to the match server
Ordinary requests go through the one send buffer and are sent again after a reconnect;
direct requests bypass `send_fail`, sleep and connect again in the middle of the thread.
`Parsed` is `parse_recv_packets` over halves of packets: what is handled and what is kept, for every place
in the buffer where the loop may end; `Break` ends a connection with some of its bytes. The resend after a reconnect
is a `send` like any other, and may fail on the new connection (`Resent`).

* `StreamsWhole` – packets are taken whole and in order unless a connection was replaced in the middle
  of one, and the server gets each request with its own length unless one was overwritten.
* `FailureIsNoticed`, `RequestsSent` – a request that could not be sent is known to wait, and is sent.

### How the modules fit together
No module contains another's detail. What one leaves open another closes: who meets whom
(BattlePool's `Match`) is decided by ScoreMatch and FifoMatch; whether a match becomes a battle
(FifoMatch's `BattleMade`, `BattleFails`) by BattlePool; how a battle ends (BattlePool's `Finish`,
BattleServer's `LogicUpdate`) by PuckGame; what becomes of its report by Reward; what a lease
protects (Reward's `Lease`, `Write`) by DbLease; what Set does to the arrays (Reward's `rank`) by
RankOps.

## 3. Runs

`tlc -workers 2 -config X.cfg M`; the longest, `battle_server` and `battle_pool`, take two to three minutes.

| run | module, cfg | asks | result |
|---|---|---|---|
| db_lease | MCDbLease | lost updates, stale leases, torn records, do calls return | holds |
| score_match | MCScoreMatch | entries used once, silent ends, served entries | holds |
| score_match_live | MCScoreMatchLive | do goroutines end | holds |
| fifo_match | MCFifoMatch | do client and server agree, do they come to rest | holds |
| battle_pool | MCBattlePool | slots kept, battles resumable, clients served | holds |
| battle_server | MCBattleServer | own state, freed memory, null pointers, ends seen | holds |
| puck_game | MCPuckGame | winner, one report, finality, does a battle end | holds |
| reward | MCReward | every result counted once, files and leaderboard agree | holds |
| rank_data | MCRankData | alignment, pages, refinement of ScoreTable | holds |
| rank_race | MCRankRace | is the "CRITICAL ERROR" of rankdata.go:177 unreachable | violated |
| client_threads | MCClientThreads | ring refines a queue, frames and loads, waits, ends applied | holds |
| client_tcp | MCClientTcp | whole packets, noticed failures, resent requests | holds |

`rank_race` states what the code's own check says and shows a behaviour that contradicts
it (`PROJECT.json`, "findings"). Every other safety property of a run is a theorem as well (section 4).
A type invariant is run for ClientThreads, ClientTcp, Reward and FifoMatch and proved for every module with
theorems; those of the leaderboard are part of the invariants `Held` and `RaceInv`.

### What the properties' exceptions say of the code
A property that holds with an exception documents a behaviour a reader of the code may not
expect:

* "Already removed" (queue3.go:154) is about the user, not the request: a cancel and a second QUEUE3
  within half a second make the first goroutine go on for the second, and a cancel that is repeated after its
  reply was lost takes the second one out. A goroutine whose own match had its answer lost ends in silence, too:
  its player waits for a battle that nobody makes (`unheard` in `SilentEndHasReason`).
* SUDDENDEATH between the end of a battle and its report makes the reported winner -1
  (servermain.c:559, 687; `late` in `WinnerIsPhase`).
* A battle id that is a round of the pool old names another battle, and CHECKBATTLEVALID knows ids only
  (servermain.c:574; `ResumedWithinRound`, `StateIsOwn`, `HeldIsOld`).
* With requests on two connections a player may be in two battles of which the map knows the later, and a
  removal that waits behind the entry of a newer battle deletes that entry (queue2.go:82 does not name the
  battle; `displaced` in `ToldIsResumable`). A failed dial to a battle server that is up has the entry of a
  battle that goes on removed (queue2.go:49; `unreached`).
* Two results that come in one Read are one (entry.go:52 of the reward server): the second is lost, which
  `ResultEnds` takes for an end.
* `tcp_connect` does not empty the receive buffer (lwtcp.c:25; `cut` in `StreamsWhole`); a direct request
  overwrites one that waits (`overwritten`) and, given up, leaves no socket and no `send_fail` (`gaveUp`
  in `FailureIsNoticed`). A waiting ordinary request is replaced by the next.
* A frame with QUITAPP during a load waits for a logic thread that waits for the frame (laidoff.c:917;
  `WaitsEnd`). The render thread frees the socket the logic thread is reading: the process crashes (`UdpGone`)
  or only `select` fails (`UdpDone`).
* A client that shows the end of its last battle when MATCHED2 comes never closes the new socket
  (`EndApplied`); after a failed `recvfrom` a socket stays "not ready" for good; MATCHED2 leaks the
  socket before it.
* Two connections of the battle server make two goroutines of the reward server, which lose each
  other's updates (`overlap` in `RewardedInFull`).

Where an exception is the hazard itself (`late`, `crossed`, `overwritten`, `cut`, `gaveUp`, `slipped`, `crashed`, the QUITAPP
frame, a dropped result), the property does not forbid it: it says that this is what the code does and that
nothing else goes wrong. The notes of the hazards in `PROJECT.json` say so one by one.

### Bounds, and why they suffice
* **DbLease**: one user, because records of different users share nothing but the
  server's goroutine (a second user only delays it); two clients, because every
  hazard is a pair (an old holder and a new one); two leases, so that one can expire, be
  taken over and be used late; three requests per client and one retry, so that a call can be
  repeated; one crash, which suffices since it may come at any step. The three invariants
  are proved for all values.
* **ScoreMatch**: two users make a match, three workers add the second QUEUE3 or
  the cancel that races with it; two offers have the "first" and the "update"
  branch; one retry, one break and one restart each; `score_match_live` lets
  both of its goroutines lose their connection, so that no bound keeps one waiting.
* **FifoMatch**: three connections, two of one user, are the least that have a pair of players, two
  connections of a user and somebody blocked on the channel; one of them may search and break
  off, the others press a button once; one fault.
* **RankData**: three ids over three scores with gaps 1, 2 and 3 give ties at
  both ends and in the middle, equal and different neighbours on both sides, and
  scores inside and outside each reach; time to 2 covers all three steps of the
  distance table. **RankRace**: three ids and two callers, the least that can
  disturb each other (with one caller its steps make up the `SetWithNickname` of
  `RankData`, for any number of ids: `OneAtATime`).
* **Reward**: three results, one shared winner and loser (a–b, c–a, b–d), so that each goroutine can
  overlap with another on either player; two connections, as a third only repeats the second; two
  faults.
* **PuckGame**: two hp tell "hit" from "last hit"; a clock of four ticks lets
  the battle end by death, by the clock and by both in one tick; two tries are a
  failure and a success, or both failures; two SUDDENDEATHs.
* **BattlePool**: three connections, two of one player: the least that have two handlers race for one entry of
  the map and a removal come late, behind the entry of a newer battle. Two battles in a pool of two, so that
  the counter wraps and the first slot is emptied; five requests let both connections come back to a battle
  after the first was made; one crash, one exit. The theorems have any number of each.
* **BattleServer**: sockets for battles 1 and 3 of a pool of two, the pair that shares a slot; a table
  of two places, one of which may hold what the stack held, so that the second client finds
  it full; one crash; the third battle, so that the first is freed and its slot used again while the
  main thread holds its pointer in any of the three places.
* **ClientThreads**: a ring of three, of which one is kept and more are dropped; one state that
  arrives after the end. **ClientTcp**: a buffer of three halves holds a packet and the start of another;
  two tries; three breaks, so that a send, the resend after it and the next connection can fail in a row.
* Deadlock checking is off where the bounds stop a behaviour (`Max…` in a guard) or
  where the system comes to rest (all goroutines done, all battles reported).

### Fairness
* Go goroutines that are neither blocked on a channel nor in a call run, so
  their steps are weakly fair; a channel wakes its senders in the order they came,
  so what is done for a given connection (`Handled`: its handler, the goroutine that creates its battle, the
  receives from both and the admin thread's accepts) is strongly fair where it competes. FifoMatch has the order of the channel in its state and needs weak fairness
  of the programs as a whole only (`Running`); that the user stops is its bound on taps.
* The db-server's and the rank-server's single goroutine serve every request received;
  a call over a broken connection is noticed (net/rpc returns `ErrShutdown`), hence
  `WF` of `CallFails` for such a call only. rpchelper gives a call up, hence `WF` of Reward's handlers.
* The battle server's loop never blocks for more than its `select` of 2.5 ms, or 19 seconds of
  retries, hence `WF` of PuckGame's `MainThread`. In BattleServer the loop goes on (`WF` outside
  the update of battles) and broadcasts again and again, as its timer has it (`SF` of `Broadcast`), and a
  datagram that is sent again and again comes through in the end (`SF` of `Receive` and `BroadcastSend`).
* The client's threads run; states come at 60 a second and are dropped faster than that, so the
  render thread is not in its loop of drops for ever (`[]<>(render # "drop")`), and the flag it
  polls is seen (`SF` of `Gate`). In ClientTcp the server can be reached again and again.
* Nothing else is fair: no client need send anything, no crashed server need
  come back, no battle need finish for the liveness of `BattlePool`.

## 4. Proofs

All proofs are for arbitrary constants, from the assumptions named in the modules
(that bounds are naturals, that pools, rings and hp are positive).

* **DbLeaseProofs** – `TypeCorrect`, then `NoLostUpdate`, `LeaseSnapshot`, `NoTornLease`.
  The inductive invariant `IInv` (in `DbLease`) is needed because the three properties
  alone say nothing of requests on their way: it adds that lease ids in use were handed
  out before (`IdsHandedOut`), so a new lease never equals an old one; that a request still
  awaited belongs to its client's present call (`RequestsMatch`); that the copies of
  holders and of waiting write requests under the remembered lease are the file as it
  is, plus their own change (`HoldersCurrent`, `RequestsCurrent`); and what a write in
  progress will leave (`WritingCurrent`, `TornForAReason`). One step per action; a lease that
  `FailLease` drops only makes the premises of these false (`LeasesDropped`).
* **MatchProofs**, ScoreMatch – `TypeCorrect`, `NoEntryUsedTwice`, `PoolIsServed`, `SilenceHasReason`. The invariant `Inv` says that an
  entry (a user and the number of its stay in the pool) is either in the pool, or
  in one match, or gone; numbers only grow, so a later stay is another entry. Retries and
  late requests are covered because a request carries no entry: it finds what
  is in the pool when it is served. `ServeInv` follows an offer from the call to its answer: which
  goroutine an entry, a request on its way, an answer and a match on its way belong to, and what
  must have happened since the last answer to wait (`takenOut`, `unheard`, `failed`) for each of them to find nothing.
* **MatchProofs**, FifoMatch – `FifoInvariant`, `FifoTypeCorrect`, `ViewsStayTogether`. `ViewsAgree` speaks of
  rest only; `FifoInv` says, for every connection at every moment (`View`), how far the client is ahead
  of the server. Unless something has gone wrong for the connection (`Clean`), it is in one of two
  states: `Answered`, with one answer on its way (a goroutine that will enter the map, a packet, or a match;
  `OneAnswer`) and nothing asked; or `Asking`, with no answer on its way and requests that are searches and cancels
  in turn (`InTurn`), the first of which fits where the connection will be when its goroutine's agent has been
  taken (`Place`), and the last of which leaves it where the client believes it to be (`PlaceAfter`). A
  cancel of a clean connection therefore finds its search in the map or in matchWorker's hands, never nothing,
  which is why it does not end as a player. `OneEach` has a connection's agent in the channel at most once.
  A step that touches nothing of a connection keeps its view (`Still`, `LeftAlone`), so each
  action is argued for the one or two connections it is about.
* **PuckGameProofs** – `Inductive`, `TypeCorrect`, `WinnerAgreed`, `NoSecondReport`, `EndStays`.
  `IInv` ties the program counter of the main thread to the phase (a result is
  being made only while the phase is final), relates what was read of the hp to
  the hp as long as no write came in between (`late`), and says that the number of
  results is what the program counter allows.
* **BattlePoolProofs** – `TypeCorrect`, `KeptForARound`, `ResumedRound`, `ToldResumes`. `SlotsInTurn`
  is the arithmetic: the battles of a process have the slots before the counter, one after the
  other, modulo the pool; so a slot is used again `Capacity` battles later and not before, and only the
  first slot is emptied, a round after its battle. Two invariants carry `ToldResumes`. `HeldInv`
  says of the entry of a battle that goes on how it can have gone, whatever connections a player has: what
  OkWorker enters next, what a handler remembers and what is told of a battle is either the entry of the map or
  explained by `unreached` or `displaced`. `AgreeInv` is about a player who is not `crowded`: of his connections
  one at the most is at work (`Alone`), so what it asks about, waits to have removed or has in OkWorker's hands is what
  the map says, and nothing is displaced. `Going` only shrinks for a battle (`Alive` ends for good), so a claim once
  excused stays so.
* **BattleServerProofs** – `TypeCorrect`, `HeldOld`, `NullCause`, `OwnState`. The same arithmetic for the
  pool with the free and the null pointer as two steps, the age of what has been freed
  (`FreedIsOld`), that an entry of the table is that of its address's ticket
  (`EntriesOwn`), unless it is what was on the stack, that a pointer once loaded is to a battle of this
  process (`HeldIsLive`), and that what is being sent was the entry's own when it was loaded (`SendIsOwn`).
* **ClientProofs**, ClientThreads – `PutContents` and `TakeContents`: what a call does to the contents of the ring, case
  by case over where head and tail are. `TypeCorrect`; `OneFrameSlips` by `GateInv`, which
  says what each thread's place implies for the two flags; `RingImplementsQueue`, the refinement
  `Spec => Queue!Spec` for every capacity, each step of the client mapped to Put, Take, Clear or a
  stutter by the two lemmas about the ring.
* **ClientProofs**, ClientTcp – `TcpTypeCorrect`, `StreamStaysWhole`, `FailureNoticed`, from one invariant, `TcpInv`.
  `StreamInv`: until a connection has been replaced in the middle of a packet (`cut`), the receive buffer holds at
  most the first half of a packet between two reads, and what it holds, what is on its way and what
  the server has still to send continue each other. `SendInv`: at each place of the thread, which request the
  send buffer has, and that one which waits has `send_fail` up, unless a direct request was written over
  it or given up. What the parser does to a buffer is found once, without induction, because `Parsed` is
  defined by where its packets are.
* **RankDataProofs** – `ArraysAligned`, `PagesReveal`, `ArraysImplementTable`, for any ids, scores,
  nicknames, tables of distances and page counts GetLeaderboard accepts (1 to 100). The operators are not recursive: a binary search
  is a least index (`MinOf` gets it from the well-foundedness of the finite subset ordering), so
  `RankCounts` and `NextRankCounts` say where better scores and ties end, and `RankIs` that this determines the
  rank. Every array operation is described by where place k has its entry from (`InsertMoves`,
  `RemoveMoves`, `MoveMoves`); `UpdateLower` and `UpdateHigher` show that `UpdateScoreDesc`, which takes *some*
  tie of the old score out, has the same effect on the descending scores as moving the id's own one,
  which is what the other three arrays do. The invariant `Held` says that the arrays hold the ids of the
  map once each, with their scores; `RebuiltHeld` keeps it for all of set, update and remove and gives
  the table at the same time. `CountPlaces` turns ranks into the cardinalities the abstract `ScoreTable`
  has, and `Nearest` finds the nearest entry of a descending array next to the id's own.
* **RankDataProofs**, RankRace – `OneAtATime`: if no two calls overlap (`Serial`), no call fails and the arrays are
  aligned between calls. The code has no lock, and `rank_race` shows what two callers do; the theorem says that
  this is all that is missing. `RaceInv` has a leaderboard that is `Held` and was the last to be left, and how
  much of `UpdateEntry` the call under way has done to it (`Halfway`).
* **RewardProofs** – `TypeCorrect`, `HandledCounts`, `FileAndRankAgree`, with connections, users and results
  as arbitrary sets. As long as there are no `causes`, the goroutine that holds a player is the only one at
  work on him, and its place in the handler says which of rank, file and statistics have its result.

No assumption on the constants beyond these is used (`OneAtATime` says for itself that the ids are finitely
many), and no fact is taken without proof.

Left to TLC: all liveness properties (fairness and ENABLED are beyond the prover), and the violation of
`IdIsFound` by calls that overlap. Every other property of the runs is a theorem. No module that is proved about declares a
RECURSIVE operator.

## 5. Not modelled

Nearly all lines of the repository are third-party or generated (`lo_wrap.inl`, gumbo, imgui, czmq,
zeromq, ode, glfw, lua, litehtml): they are not the program's own, and no share of them is mapped. Of
its own code:

* the physics of the puck, bots, rendering, UI, sound, scripts, quantisation of states and conversion of
  packets (real arithmetic, or no protocol);
* the client's second connection (`tcp_ttl`, web pages and downloads), which keeps no request and
  has its own buffers; updates of textures (`remtex.c`);
* `handleRequest`'s framing on the match server: the slicing that ClientTcp has, without its bounded
  buffer; a packet whose length is 0 never ends its loop;
* handlers of the match server that pass one call on; `dbadmin` pages other than save; `Create` of a
  user (a fresh file nobody else can name); readers of the leaderboard in the middle of a `Set`;
* the push server (planned): its two maps are changed by RPC goroutines without a lock, and a user who registers
  a second token leaves the first in one of them;
* memory errors proper: what becomes of a read through a freed or null pointer, and the Go runtime's abort on
  a racy map (`NearestMatchMapLock` is copied by value, so it excludes nobody). The models
  stop at the step that makes the error possible (`HeldIsOld`, `NullHasCause`, `UdpGone`).

## 6. Plan

Done: leases, both queues, battles in the pool and on the wire, one battle, the leaderboard, rewards, the
client's threads and its connection. Left, most important first:

1. **RankRace** – GetLeaderboard and GetWithIndex in the middle of a `Set`.
2. **PushTokens** – the two maps of the push server. **Framing** – the match server's side of the stream.
