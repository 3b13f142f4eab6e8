------------------------------ MODULE PuckGame ------------------------------
(***************************************************************************)
(* One battle of the battle server.  The main thread ticks it: READY,      *)
(* STEADY and GO by waiting, then a clock that runs out or a tower hit     *)
(* that takes a player's last hp, and then, once, the result to the reward *)
(* server.  The clients see the winner in battle_phase; the reward server  *)
(* is told by puck_game_winner, which works it out again from the hp.      *)
(* Meanwhile the admin thread may carry out a SUDDENDEATH, which sets both *)
(* hp to 1 without a lock.                                                 *)
(*                                                                         *)
(* Player 1 is pg_player, player 2 is pg_target.  A statement that reads   *)
(* the hp finds each as it was when the statement before it was done, or   *)
(* as it is: seen holds the former.  Physics is external: in a tick the    *)
(* puck may damage one tower (the two stand in opposite corners), not      *)
(* within a second of its last damage.                                     *)
(***************************************************************************)
EXTENDS Integers, Sequences

CONSTANTS
  Hp,        \* hp at the start (5)
  Total,     \* ticks of a battle (60 s)
  WaitTicks, \* prepare_step_wait_tick
  Tries,     \* sends of a result before it is given up (7)
  MaxSudden  \* bound: SUDDENDEATHs of a behaviour

ASSUME GameAssumption ==
  /\ Hp \in Nat \ {0} /\ Total \in Nat \ {0} /\ WaitTicks \in Nat \ {0}
  /\ Tries \in Nat \ {0} /\ MaxSudden \in Nat

VARIABLES
  phase,    \* battle_phase
  hp,       \* current_hp of each player
  cooled,   \* the owners whose tower was last damaged over a second ago
  tick,     \* update_tick
  time,     \* update_tick when the last tick began
  waited,   \* prepare_step_waited_tick
  pc,       \* where the main thread is with this battle
  struck,   \* the owner of the tower being damaged
  seen,     \* hp as the main thread last saw it
  stat,     \* battle_stat[].Hp
  winner,   \* what puck_game_winner returned
  tries,    \* sends left
  results,  \* the results sent to the reward server
  admin,    \* the admin thread: writes of a SUDDENDEATH still to do
  sudden,   \* SUDDENDEATHs so far
  late      \* one of their writes fell between the end and its report

clockVars == <<cooled, tick, time, waited>>
reportVars == <<stat, winner, tries, results>>
vars == <<phase, hp, clockVars, pc, struck, seen, reportVars,
          admin, sudden, late>>

Players == {1, 2}
Other(p) == 3 - p
HpOf == [Players -> 0 .. Hp]

TypeOK ==
  /\ phase \in {"READY", "STEADY", "GO", "DRAW", "VICTORY_P1", "VICTORY_P2"}
  /\ hp \in HpOf /\ seen \in HpOf /\ stat \in HpOf
  /\ cooled \in SUBSET Players
  /\ tick \in 0 .. Total /\ time \in 0 .. Total
  /\ waited \in 0 .. WaitTicks
  /\ pc \in {"loop", "clock", "physics", "hit", "death",
             "stat", "judge", "diff", "send"}
  /\ struck \in Players
  /\ winner \in -1 .. 2
  /\ tries \in 0 .. Tries
  /\ results \in Seq([winner : -1 .. 2, stat : HpOf])
  /\ admin \in SUBSET Players
  /\ sudden \in 0 .. MaxSudden
  /\ late \in BOOLEAN

Init ==
  /\ phase = "READY"
  /\ hp = [p \in Players |-> Hp] /\ seen = hp /\ stat = [p \in Players |-> 0]
  /\ cooled = Players
  /\ tick = 0 /\ time = 0 /\ waited = 0
  /\ pc = "loop" /\ struck = 1
  /\ winner = 0 /\ tries = 0 /\ results = <<>>
  /\ admin = {} /\ sudden = 0 /\ late = FALSE

Victory(p) == IF p = 1 THEN "VICTORY_P1" ELSE "VICTORY_P2"

\* Fault: a draw is no end.
FinishedVictory(ph) == ph \in {"VICTORY_P1", "VICTORY_P2"}
Finished(ph) == ph \in {"DRAW", "VICTORY_P1", "VICTORY_P2"}

\* Who is ahead by hp, 0 being a draw, and the phase that says so.
Ahead(h) == IF h[1] = h[2] THEN 0 ELSE IF h[1] > h[2] THEN 1 ELSE 2
PhaseOf(w) == IF w = 0 THEN "DRAW" ELSE Victory(w)

\* What a statement that reads both hp may find.
Read == {h \in HpOf : \A p \in Players : h[p] \in {seen[p], hp[p]}}

-----------------------------------------------------------------------------
(* The main thread: update_puck_game.                                      *)

\* Fault: the main loop goes on ticking a finished battle.
RunningAlways == pc = "loop"
\* The main loop ticks the battle.
Running == pc = "loop" /\ ~Finished(phase)

AfterTick(ph) == IF Finished(ph) THEN "stat" ELSE "loop"

\* The clock has run out: hp_diff will decide.
TimeUp ==
  /\ Running /\ tick >= Total
  /\ time' = tick
  /\ pc' = "clock" /\ seen' = hp
  /\ UNCHANGED <<phase, hp, cooled, tick, waited, struck, reportVars,
                 admin, sudden, late>>

Decide ==
  /\ pc = "clock"
  /\ \E h \in Read : phase' = PhaseOf(Ahead(h))
  /\ pc' = AfterTick(phase') /\ seen' = hp
  /\ UNCHANGED <<hp, clockVars, struck, reportVars, admin, sudden, late>>

\* READY and STEADY wait; the tick that reaches GO is the first with physics.
Prepare ==
  /\ Running /\ tick < Total /\ phase \in {"READY", "STEADY"}
  /\ time' = tick
  /\ IF waited + 1 < WaitTicks
     THEN waited' = waited + 1 /\ UNCHANGED <<phase, pc, tick>>
     ELSE /\ waited' = 0
          /\ \/ /\ phase = "READY" /\ phase' = "STEADY"
                /\ UNCHANGED <<pc, tick>>
             \/ /\ phase = "STEADY" /\ phase' = "GO"
                /\ pc' = "physics" /\ tick' = tick + 1
  /\ UNCHANGED <<hp, cooled, struck, seen, reportVars, admin, sudden, late>>

Step ==
  /\ Running /\ tick < Total /\ phase = "GO"
  /\ time' = tick /\ tick' = tick + 1
  /\ pc' = "physics"
  /\ UNCHANGED <<phase, hp, cooled, waited, struck, seen, reportVars,
                 admin, sudden, late>>

NoDamage ==
  /\ pc = "physics" /\ pc' = "loop"
  /\ UNCHANGED <<phase, hp, clockVars, struck, seen, reportVars,
                 admin, sudden, late>>

\* near_puck_tower: player p's tower is hit, fast enough and by the other's
\* puck.
Damage(p) ==
  /\ pc = "physics" /\ p \in cooled /\ hp[p] > 0
  /\ struck' = p /\ seen' = hp /\ pc' = "hit"
  /\ cooled' = cooled \ {p}
  /\ UNCHANGED <<phase, hp, tick, time, waited, reportVars, admin, sudden, late>>

Hit ==
  /\ pc = "hit" /\ pc' = "death"
  /\ \E h \in Read :
       /\ hp' = [hp EXCEPT ![struck] = h[struck] - 1]
       /\ seen' = hp'
  /\ UNCHANGED <<phase, clockVars, struck, reportVars, admin, sudden, late>>

Death ==
  /\ pc = "death"
  /\ \E h \in Read :
       IF h[struck] = 0
       THEN phase' = Victory(Other(struck)) /\ UNCHANGED late
       ELSE late' = FALSE /\ UNCHANGED phase
  /\ pc' = AfterTick(phase') /\ seen' = hp
  /\ UNCHANGED <<hp, clockVars, struck, reportVars, admin, sudden>>

-----------------------------------------------------------------------------
(* The main thread: the result of a battle that has just finished.         *)

Stat ==
  /\ pc = "stat" /\ pc' = "judge"
  /\ stat' \in Read /\ seen' = hp
  /\ UNCHANGED <<phase, hp, clockVars, struck, winner, tries, results,
                 admin, sudden, late>>

\* Fault: the battle's last instant still counts as before its end.
BeforeEndClosed(t) == t <= Total
BeforeEnd(t) == t < Total

\* puck_game_winner: -1 if the battle is not yet finished, ...
Judge ==
  /\ pc = "judge"
  /\ \E h \in Read :
       IF h[1] > 0 /\ h[2] > 0 /\ BeforeEnd(time)
       THEN winner' = -1 /\ tries' = Tries /\ pc' = "send" /\ UNCHANGED seen
       ELSE pc' = "diff" /\ seen' = h /\ UNCHANGED <<winner, tries>>
  /\ UNCHANGED <<phase, hp, clockVars, struck, stat, results,
                 admin, sudden, late>>

\* ... and else whoever is ahead.
Diff ==
  /\ pc = "diff" /\ pc' = "send"
  /\ \E h \in Read : winner' = Ahead(h)
  /\ tries' = Tries
  /\ UNCHANGED <<phase, hp, clockVars, struck, seen, stat, results,
                 admin, sudden, late>>

\* tcp_send_battle_result
Send ==
  /\ pc = "send" /\ pc' = "loop"
  /\ results' = Append(results, [winner |-> winner, stat |-> stat])
  /\ UNCHANGED <<phase, hp, clockVars, struck, seen, stat, winner, tries,
                 admin, sudden, late>>

MaySend(n) == n > 0

\* The send fails: after a pause it is tried again on a new connection, in
\* the end the result is given up.
SendFails ==
  /\ pc = "send"
  /\ tries' = tries - 1
  /\ pc' = IF MaySend(tries') THEN "send" ELSE "loop"
  /\ UNCHANGED <<phase, hp, clockVars, struck, seen, stat, winner, results,
                 admin, sudden, late>>

MainThread ==
  \/ TimeUp \/ Decide \/ Prepare \/ Step \/ NoDamage
  \/ \E p \in Players : Damage(p)
  \/ Hit \/ Death \/ Stat \/ Judge \/ Diff \/ Send \/ SendFails

-----------------------------------------------------------------------------
(* The admin thread and the wall clock.                                    *)

SuddenDeath ==
  /\ admin = {} /\ sudden < MaxSudden
  /\ admin' = Players /\ sudden' = sudden + 1
  /\ UNCHANGED <<phase, hp, clockVars, pc, struck, seen, reportVars, late>>

\* The main thread has decided, or is about to, and has not reported.
Deciding == pc \in {"clock", "death", "stat", "judge", "diff"}

SetHp(p) ==
  /\ p \in admin /\ admin' = admin \ {p}
  /\ hp' = [hp EXCEPT ![p] = 1]
  /\ late' = (late \/ Deciding)
  /\ UNCHANGED <<phase, clockVars, pc, struck, seen, reportVars, sudden>>

\* Player p's tower was damaged more than a second ago.
CoolDown(p) ==
  /\ p \notin cooled /\ pc = "loop"
  /\ cooled' = cooled \cup {p}
  /\ UNCHANGED <<phase, hp, tick, time, waited, pc, struck, seen, reportVars,
                 admin, sudden, late>>

Next ==
  \/ MainThread
  \/ SuddenDeath
  \/ \E p \in Players : SetHp(p) \/ CoolDown(p)

Spec == Init /\ [][Next]_vars

\* The main thread's loop never waits for more than the 2.5 ms of its select.
FairSpec == Spec /\ WF_vars(MainThread)

-----------------------------------------------------------------------------
\* The reward server is told the winner the clients are told by the phase,
\* and hp that agree with it, unless a SUDDENDEATH wrote into the decision.
WinnerIsPhase ==
  \A i \in 1 .. Len(results) :
    ~late => /\ PhaseOf(results[i].winner) = phase
             /\ Ahead(results[i].stat) = results[i].winner

\* A battle is reported once at the most: ratings change once.
ReportedOnce == Len(results) <= 1

\* A finished battle stays as it finished, whatever the admin thread does to
\* the hp: CHECKBATTLEVALID and the clients never see it come back.
EndIsFinal == [][Finished(phase) => UNCHANGED <<phase, tick, time>>]_vars

\* Every battle ends, and the main thread is done with it: it has sent the
\* result or tried often enough.
BattleEnds == <>(Finished(phase) /\ pc = "loop" /\ (results # <<>> \/ tries = 0))
=============================================================================
