--------------------------- MODULE PuckGameProofs ---------------------------
(***************************************************************************)
(* PuckGame's invariants for every hp, every length of a battle and any    *)
(* number of SUDDENDEATHs.  Two facts carry them: until the battle is over *)
(* both players have hp, but for the one whose last hp was taken an        *)
(* instant ago; and from the end to the report the phase agrees with the   *)
(* hp, as long as the admin thread has not written in between.             *)
(***************************************************************************)
EXTENDS PuckGame, TLAPS

\* While the battle is on, nobody is without hp unless being struck dead.
AliveUntilEnd ==
  /\ pc \in {"clock", "physics", "hit", "death"} => ~Finished(phase)
  /\ pc \in {"stat", "judge", "diff", "send"} => Finished(phase)
  /\ ~Finished(phase) =>
       \A p \in Players : hp[p] > 0 \/ (pc = "death" /\ p = struck)
  /\ pc = "hit" => seen[struck] > 0
  /\ pc = "death" /\ hp[struck] = 0 => seen[struck] = 0

\* The phase says who is ahead, and the battle is over.
Decided ==
  /\ phase = PhaseOf(Ahead(hp))
  /\ time >= Total \/ hp[1] = 0 \/ hp[2] = 0

\* What the main thread has seen is true while it decides undisturbed.
SeenIsTrue ==
  ~late /\ Deciding => seen = hp

DecisionHolds ==
  /\ pc = "clock" => time >= Total
  /\ pc = "send" => tries > 0
  /\ ~late /\ pc \in {"stat", "judge", "diff"} => Decided
  /\ ~late /\ pc \in {"judge", "diff"} => stat = hp
  /\ ~late /\ pc = "send" => PhaseOf(winner) = phase /\ Ahead(stat) = winner

\* Nothing is reported until the battle is over and the main thread is done.
ReportedAtEnd ==
  /\ results # <<>> => pc = "loop" /\ Finished(phase)
  /\ ReportedOnce

IInv == TypeOK /\ AliveUntilEnd /\ SeenIsTrue /\ DecisionHolds
          /\ ReportedAtEnd /\ WinnerIsPhase
USE GameAssumption DEF GameAssumption, Players

\* A new battle has full towers and a running clock.
LEMMA TypeInit == Init => TypeOK
<1> SUFFICES ASSUME Init PROVE TypeOK
  OBVIOUS
<1>1. hp \in HpOf /\ seen \in HpOf /\ stat \in HpOf
  BY DEF Init, HpOf
<1>2. results \in Seq([winner : -1 .. 2, stat : HpOf])
  BY DEF Init
<1>4. /\ tick \in 0 .. Total /\ time \in 0 .. Total /\ waited \in 0 .. WaitTicks
      /\ winner \in -1 .. 2 /\ tries \in 0 .. Tries /\ sudden \in 0 .. MaxSudden
      /\ struck \in Players
  BY DEF Init
<1>5. cooled \in SUBSET Players /\ admin \in SUBSET Players /\ late \in BOOLEAN
  BY Zenon DEF Init
<1>6. phase = "READY" /\ pc = "loop"
  BY DEF Init
<1> QED BY <1>1, <1>2, <1>4, <1>5, <1>6 DEF TypeOK

\* What is read is hp, and true if nothing has been written since.
LEMMA ReadIsHp ==
  ASSUME TypeOK, NEW h \in Read
  PROVE  /\ h \in HpOf /\ Ahead(h) \in 0 .. 2
         /\ seen = hp => h = hp
BY DEF Read, HpOf, Ahead, TypeOK

\* A hit takes an hp that is there, and a send a try.
LEMMA TypeStep ==
  ASSUME TypeOK, AliveUntilEnd, DecisionHolds, [Next]_vars
  PROVE  TypeOK'
<1> USE DEF TypeOK, HpOf
<1>1. CASE TimeUp
  BY <1>1 DEF TimeUp, reportVars
<1>2. CASE Decide
  <2>1. phase' \in {"DRAW", "VICTORY_P1", "VICTORY_P2"}
    BY <1>2 DEF Decide, PhaseOf, Victory
  <2> QED BY <1>2, <2>1 DEF Decide, AfterTick, clockVars, reportVars
<1>3. CASE Prepare
  <2>1. /\ waited' \in 0 .. WaitTicks /\ tick' \in 0 .. Total
        /\ phase' \in {"READY", "STEADY", "GO"} /\ pc' \in {"loop", "physics"}
    <3>1. CASE waited + 1 < WaitTicks
      BY <1>3, <3>1 DEF Prepare, Running
    <3>2. CASE ~(waited + 1 < WaitTicks)
      BY <1>3, <3>2 DEF Prepare, Running
    <3> QED BY <3>1, <3>2
  <2>2. /\ time' \in 0 .. Total /\ hp' \in HpOf /\ seen' \in HpOf
        /\ stat' \in HpOf /\ struck' \in Players /\ winner' \in -1 .. 2
        /\ tries' \in 0 .. Tries /\ sudden' \in 0 .. MaxSudden
        /\ results' \in Seq([winner : -1 .. 2, stat : HpOf])
    BY <1>3 DEF Prepare, reportVars
  <2>3. cooled' \in SUBSET Players /\ admin' \in SUBSET Players /\ late' \in BOOLEAN
    BY <1>3 DEF Prepare
  <2> QED BY <2>1, <2>2, <2>3
<1>4. CASE Step
  BY <1>4 DEF Step, reportVars
<1>5. CASE NoDamage
  BY <1>5 DEF NoDamage, clockVars, reportVars
<1>6. ASSUME NEW p \in Players, Damage(p) PROVE TypeOK'
  BY <1>6 DEF Damage, reportVars
<1>7. CASE Hit
  <2>1. PICK h \in Read : hp' = [hp EXCEPT ![struck] = h[struck] - 1] /\ seen' = hp'
    BY <1>7 DEF Hit
  <2>2. pc = "hit" /\ seen[struck] > 0 /\ hp[struck] > 0
    BY <1>7 DEF Hit, AliveUntilEnd
  <2>3. h \in HpOf /\ h[struck] > 0
    BY <2>2 DEF Read
  <2>4. hp' \in HpOf
    BY <2>1, <2>3
  <2> QED BY <1>7, <2>1, <2>4 DEF Hit, clockVars, reportVars
<1>8. CASE Death
  <2>1. phase' \in {phase, "VICTORY_P1", "VICTORY_P2"} /\ late' \in {late, FALSE}
    BY <1>8 DEF Death, Victory
  <2> QED BY <1>8, <2>1 DEF Death, AfterTick, clockVars, reportVars
<1>9. CASE Stat
  BY <1>9, ReadIsHp DEF Stat, clockVars
<1>10. CASE Judge
  <2>1. seen' \in HpOf /\ winner' \in -1 .. 2 /\ tries' \in 0 .. Tries
        /\ pc' \in {"send", "diff"}
    <3>1. PICK h \in Read :
            IF h[1] > 0 /\ h[2] > 0 /\ BeforeEnd(time)
            THEN winner' = -1 /\ tries' = Tries /\ pc' = "send" /\ UNCHANGED seen
            ELSE pc' = "diff" /\ seen' = h /\ UNCHANGED <<winner, tries>>
      BY <1>10 DEF Judge
    <3>2. h \in HpOf
      BY DEF Read
    <3>3. CASE h[1] > 0 /\ h[2] > 0 /\ BeforeEnd(time)
      BY <3>1, <3>3
    <3>4. CASE ~(h[1] > 0 /\ h[2] > 0 /\ BeforeEnd(time))
      BY <3>1, <3>2, <3>4
    <3> QED BY <3>3, <3>4
  <2> QED BY <1>10, <2>1 DEF Judge, clockVars
<1>11. CASE Diff
  BY <1>11, ReadIsHp DEF Diff, clockVars
<1>12. CASE Send
  <2>1. [winner |-> winner, stat |-> stat] \in [winner : -1 .. 2, stat : HpOf]
    OBVIOUS
  <2>2. results' \in Seq([winner : -1 .. 2, stat : HpOf])
    BY <1>12, <2>1 DEF Send
  <2> QED BY <1>12, <2>2 DEF Send, clockVars
<1>13. CASE SendFails
  BY <1>13 DEF SendFails, MaySend, clockVars, DecisionHolds
<1>14. CASE SuddenDeath
  BY <1>14 DEF SuddenDeath, clockVars, reportVars
<1>15. ASSUME NEW p \in Players, SetHp(p) PROVE TypeOK'
  BY <1>15 DEF SetHp, clockVars, reportVars
<1>16. ASSUME NEW p \in Players, CoolDown(p) PROVE TypeOK'
  BY <1>16 DEF CoolDown, reportVars
<1>17. CASE UNCHANGED vars
  BY <1>17 DEF vars, clockVars, reportVars
<1> QED
  BY <1>1, <1>2, <1>3, <1>4, <1>5, <1>6, <1>7, <1>8, <1>9, <1>10, <1>11,
     <1>12, <1>13, <1>14, <1>15, <1>16, <1>17 DEF Next, MainThread
\* Only a hit takes hp, and the death that follows ends the battle.
LEMMA AliveStep ==
  ASSUME TypeOK, AliveUntilEnd, [Next]_vars
  PROVE  AliveUntilEnd'
<1> USE DEF AliveUntilEnd, Finished, TypeOK, HpOf
<1>1. CASE TimeUp
  BY <1>1 DEF TimeUp, Running
<1>2. CASE Decide
  <2>1. Finished(phase')
    BY <1>2 DEF Decide, PhaseOf, Victory
  <2> QED BY <1>2, <2>1 DEF Decide, AfterTick
<1>3. CASE Prepare
  <2>1. pc' \in {"loop", "physics"} /\ ~Finished(phase') /\ hp' = hp
    BY <1>3 DEF Prepare, Running
  <2>2. ~Finished(phase) /\ pc = "loop"
    BY <1>3 DEF Prepare, Running
  <2> QED BY <2>1, <2>2
<1>4. CASE Step
  BY <1>4 DEF Step, Running
<1>5. CASE NoDamage
  BY <1>5 DEF NoDamage
<1>6. ASSUME NEW p \in Players, Damage(p) PROVE AliveUntilEnd'
  BY <1>6 DEF Damage
<1>7. CASE Hit
  <2>1. PICK h \in Read : hp' = [hp EXCEPT ![struck] = h[struck] - 1] /\ seen' = hp'
    BY <1>7 DEF Hit
  <2>2. pc' = "death" /\ struck' = struck /\ phase' = phase /\ pc = "hit"
    BY <1>7 DEF Hit
  <2>3. \A p \in Players : p # struck => hp'[p] = hp[p] /\ hp[p] > 0
    BY <2>1, <2>2
  <2> QED BY <2>1, <2>2, <2>3
<1>8. CASE Death
  <2>1. PICK h \in Read :
          IF h[struck] = 0
          THEN phase' = Victory(Other(struck)) /\ UNCHANGED late
          ELSE late' = FALSE /\ UNCHANGED phase
    BY <1>8 DEF Death
  <2>2. pc = "death" /\ pc' = AfterTick(phase') /\ hp' = hp /\ ~Finished(phase)
    BY <1>8 DEF Death
  <2>3. CASE h[struck] = 0
    <3>1. Finished(phase')
      BY <2>1, <2>3 DEF Victory
    <3> QED BY <2>2, <3>1 DEF AfterTick
  <2>4. CASE h[struck] # 0
    <3>1. h[struck] \in {seen[struck], hp[struck]}
      BY DEF Read
    <3>2. hp[struck] # 0
      BY <2>2, <2>4, <3>1
    <3>3. ~Finished(phase') /\ pc' = "loop"
      BY <2>1, <2>2, <2>4 DEF AfterTick
    <3>4. \A p \in Players : hp[p] > 0
      BY <2>2, <3>2
    <3> QED BY <2>2, <3>3, <3>4
  <2> QED BY <2>3, <2>4
<1>9. CASE Stat
  BY <1>9 DEF Stat
<1>10. CASE Judge
  <2>1. pc' \in {"send", "diff"} /\ phase' = phase /\ pc = "judge"
    BY <1>10 DEF Judge
  <2> QED BY <2>1
<1>11. CASE Diff
  BY <1>11 DEF Diff
<1>12. CASE Send
  BY <1>12 DEF Send
<1>13. CASE SendFails
  BY <1>13 DEF SendFails, MaySend
<1>14. CASE SuddenDeath
  BY <1>14 DEF SuddenDeath
<1>15. ASSUME NEW p \in Players, SetHp(p) PROVE AliveUntilEnd'
  <2>1. phase' = phase /\ pc' = pc /\ struck' = struck /\ seen' = seen
        /\ hp' = [hp EXCEPT ![p] = 1]
    BY <1>15 DEF SetHp
  <2>2. \A q \in Players : hp'[q] = hp[q] \/ hp'[q] = 1
    BY <2>1
  <2> QED BY <2>1, <2>2
<1>16. ASSUME NEW p \in Players, CoolDown(p) PROVE AliveUntilEnd'
  BY <1>16 DEF CoolDown
<1>17. CASE UNCHANGED vars
  BY <1>17 DEF vars
<1> QED
  BY <1>1, <1>2, <1>3, <1>4, <1>5, <1>6, <1>7, <1>8, <1>9, <1>10, <1>11,
     <1>12, <1>13, <1>14, <1>15, <1>16, <1>17 DEF Next, MainThread

\* A write between two reads of a decision makes it late.
LEMMA SeenStep ==
  ASSUME TypeOK, SeenIsTrue, [Next]_vars
  PROVE  SeenIsTrue'
<1> USE DEF SeenIsTrue, Deciding
<1>1. CASE TimeUp \/ Decide \/ Stat
  BY <1>1 DEF TimeUp, Decide, Stat
<1>2. CASE Prepare
  BY <1>2 DEF Prepare, Running
<1>3. CASE Step \/ NoDamage \/ Diff \/ Send
  BY <1>3 DEF Step, NoDamage, Diff, Send
<1>4. ASSUME NEW p \in Players, Damage(p) PROVE SeenIsTrue'
  BY <1>4 DEF Damage
<1>5. CASE Hit
  BY <1>5 DEF Hit
<1>6. CASE Death
  BY <1>6 DEF Death
<1>7. CASE Judge
  <2>1. PICK h \in Read : pc' = "send" \/ (pc' = "diff" /\ seen' = h)
    BY <1>7 DEF Judge
  <2>2. late' = late /\ hp' = hp /\ pc = "judge"
    BY <1>7 DEF Judge
  <2>3. seen = hp => h = hp
    BY ReadIsHp
  <2> QED BY <2>1, <2>2, <2>3
<1>8. CASE SendFails
  BY <1>8 DEF SendFails, MaySend
<1>9. CASE SuddenDeath
  BY <1>9 DEF SuddenDeath
<1>10. ASSUME NEW p \in Players, SetHp(p) PROVE SeenIsTrue'
  <2>1. pc' = pc /\ (late' <=> (late \/ Deciding))
    BY <1>10 DEF SetHp
  <2> QED BY <2>1
<1>11. ASSUME NEW p \in Players, CoolDown(p) PROVE SeenIsTrue'
  BY <1>11 DEF CoolDown
<1>12. CASE UNCHANGED vars
  BY <1>12 DEF vars
<1> QED
  BY <1>1, <1>2, <1>3, <1>4, <1>5, <1>6, <1>7, <1>8, <1>9, <1>10, <1>11,
     <1>12 DEF Next, MainThread

\* A decision read from true hp is what they say until it is reported.
LEMMA DecisionStep ==
  ASSUME TypeOK, AliveUntilEnd, SeenIsTrue, DecisionHolds, [Next]_vars
  PROVE  DecisionHolds'
<1> USE DEF DecisionHolds
<1>1. CASE TimeUp
  <2>1. pc' = "clock" /\ time' = tick /\ tick >= Total
    BY <1>1 DEF TimeUp
  <2> QED BY <2>1
<1>2. CASE Decide
  <2>1. PICK h \in Read : phase' = PhaseOf(Ahead(h))
    BY <1>2 DEF Decide
  <2>2. pc = "clock" /\ pc' \in {"stat", "loop"} /\ hp' = hp /\ time' = time
        /\ late' = late
    BY <1>2 DEF Decide, AfterTick, clockVars
  <2>3. ~late => h = hp
    BY <2>2, ReadIsHp DEF SeenIsTrue, Deciding
  <2>4. ~late => Decided'
    BY <2>1, <2>2, <2>3 DEF Decided, Ahead
  <2> QED BY <2>2, <2>4
<1>3. CASE Prepare
  BY <1>3 DEF Prepare, Running
<1>4. CASE Step \/ NoDamage
  BY <1>4 DEF Step, NoDamage
<1>5. ASSUME NEW p \in Players, Damage(p) PROVE DecisionHolds'
  BY <1>5 DEF Damage
<1>6. CASE Hit
  BY <1>6 DEF Hit
<1>7. CASE Death
  <2>1. PICK h \in Read :
          IF h[struck] = 0
          THEN phase' = Victory(Other(struck)) /\ UNCHANGED late
          ELSE late' = FALSE /\ UNCHANGED phase
    BY <1>7 DEF Death
  <2>2. pc = "death" /\ pc' = AfterTick(phase') /\ hp' = hp /\ ~Finished(phase)
    BY <1>7 DEF Death, AliveUntilEnd
  <2>3. CASE h[struck] = 0
    <3>1. ~late => h = hp
      BY <2>2, ReadIsHp DEF SeenIsTrue, Deciding
    <3>2. struck \in {1, 2} /\ hp \in [{1, 2} -> Nat]
      BY DEF TypeOK, HpOf
    <3>3. hp[Other(struck)] > 0
      BY <2>2, <3>2 DEF AliveUntilEnd, Other
    <3>4. ~late => Decided'
      <4> SUFFICES ASSUME ~late PROVE Decided'
        OBVIOUS
      <4>1. hp[struck] = 0
        BY <2>3, <3>1
      <4>2. Ahead(hp) = Other(struck) /\ Ahead(hp) # 0
        BY <3>2, <3>3, <4>1 DEF Ahead, Other
      <4>3. phase' = PhaseOf(Ahead(hp))
        BY <2>1, <2>3, <4>2 DEF PhaseOf
      <4>4. hp[1] = 0 \/ hp[2] = 0
        BY <3>2, <4>1
      <4> QED BY <2>2, <4>3, <4>4 DEF Decided, Ahead
    <3>5. pc' \in {"stat", "loop"} /\ late' = late
      BY <2>1, <2>2, <2>3 DEF AfterTick
    <3> QED BY <3>4, <3>5
  <2>4. CASE h[struck] # 0
    <3>1. pc' = "loop"
      BY <2>1, <2>2, <2>4 DEF AfterTick
    <3> QED BY <3>1
  <2> QED BY <2>3, <2>4
<1>8. CASE Stat
  <2>1. stat' \in Read /\ pc = "stat" /\ pc' = "judge" /\ hp' = hp
        /\ phase' = phase /\ time' = time /\ late' = late
    BY <1>8 DEF Stat, clockVars
  <2>2. ~late => stat' = hp
    BY <2>1, ReadIsHp DEF SeenIsTrue, Deciding
  <2> QED BY <2>1, <2>2 DEF Decided, Ahead
<1>9. CASE Judge
  <2>1. PICK h \in Read :
          IF h[1] > 0 /\ h[2] > 0 /\ BeforeEnd(time)
          THEN winner' = -1 /\ tries' = Tries /\ pc' = "send" /\ UNCHANGED seen
          ELSE pc' = "diff" /\ seen' = h /\ UNCHANGED <<winner, tries>>
    BY <1>9 DEF Judge
  <2>2. pc = "judge" /\ hp' = hp /\ phase' = phase /\ time' = time /\ stat' = stat
        /\ late' = late
    BY <1>9 DEF Judge, clockVars
  <2>3. CASE h[1] > 0 /\ h[2] > 0 /\ BeforeEnd(time)
    <3>1. ~late => h = hp
      BY <2>2, ReadIsHp DEF SeenIsTrue, Deciding
    <3>2. ~late => Decided
      BY <2>2
    <3>3. ~(time >= Total)
      BY <2>3 DEF BeforeEnd, TypeOK
    <3>4. late
      BY <2>3, <3>1, <3>2, <3>3 DEF Decided
    <3> QED BY <2>1, <2>2, <2>3, <3>4
  <2>4. CASE ~(h[1] > 0 /\ h[2] > 0 /\ BeforeEnd(time))
    <3>1. pc' = "diff"
      BY <2>1, <2>4
    <3>2. ~late => Decided' /\ stat' = hp'
      BY <2>2 DEF Decided, Ahead
    <3> QED BY <2>2, <3>1, <3>2
  <2> QED BY <2>3, <2>4
<1>10. CASE Diff
  <2>1. PICK h \in Read : winner' = Ahead(h)
    BY <1>10 DEF Diff
  <2>2. pc = "diff" /\ pc' = "send" /\ tries' = Tries /\ stat' = stat
        /\ phase' = phase /\ late' = late
    BY <1>10 DEF Diff
  <2>3. ~late => h = hp /\ stat = hp /\ Decided
    BY <2>2, ReadIsHp DEF SeenIsTrue, Deciding
  <2>4. ~late => PhaseOf(winner') = phase' /\ Ahead(stat') = winner'
    BY <2>1, <2>2, <2>3 DEF Decided
  <2> QED BY <2>2, <2>4
<1>11. CASE Send
  BY <1>11 DEF Send
<1>12. CASE SendFails
  BY <1>12 DEF SendFails, MaySend, TypeOK
<1>13. CASE SuddenDeath
  BY <1>13 DEF SuddenDeath, Decided, clockVars, reportVars
<1>14. ASSUME NEW p \in Players, SetHp(p) PROVE DecisionHolds'
  <2>1. pc' = pc /\ phase' = phase /\ winner' = winner /\ stat' = stat
        /\ tries' = tries /\ time' = time /\ (late' <=> late \/ Deciding)
    BY <1>14 DEF SetHp, clockVars, reportVars
  <2>2. pc \in {"stat", "judge", "diff"} => late'
    BY <2>1 DEF Deciding
  <2> QED BY <2>1, <2>2 DEF Ahead
<1>15. ASSUME NEW p \in Players, CoolDown(p) PROVE DecisionHolds'
  BY <1>15 DEF CoolDown
<1>16. CASE UNCHANGED vars
  BY <1>16 DEF vars, Decided, clockVars, reportVars
<1> QED
  BY <1>1, <1>2, <1>3, <1>4, <1>5, <1>6, <1>7, <1>8, <1>9, <1>10, <1>11,
     <1>12, <1>13, <1>14, <1>15, <1>16 DEF Next, MainThread

\* Once there is a result nothing makes another, nor another phase.
LEMMA ReportStep ==
  ASSUME TypeOK, AliveUntilEnd, DecisionHolds, ReportedAtEnd, WinnerIsPhase,
         [Next]_vars
  PROVE  ReportedAtEnd' /\ WinnerIsPhase'
<1> USE DEF ReportedAtEnd, ReportedOnce, WinnerIsPhase
<1>1. CASE Send
  <2>1. pc = "send" /\ pc' = "loop" /\ phase' = phase /\ late' = late
        /\ results' = Append(results, [winner |-> winner, stat |-> stat])
    BY <1>1 DEF Send
  <2>2. Finished(phase') /\ results = <<>>
    BY <2>1 DEF AliveUntilEnd
  <2>3. Len(results') = 1 /\ results'[1] = [winner |-> winner, stat |-> stat]
    BY <2>1, <2>2
  <2>4. ~late => PhaseOf(winner) = phase /\ Ahead(stat) = winner
    BY <2>1 DEF DecisionHolds
  <2>5. WinnerIsPhase'
    <3> SUFFICES ASSUME NEW i \in 1 .. Len(results'), ~late'
                 PROVE  /\ PhaseOf(results'[i].winner) = phase'
                        /\ Ahead(results'[i].stat) = results'[i].winner
      OBVIOUS
    <3>1. i = 1
      BY <2>3
    <3> QED BY <2>1, <2>3, <2>4, <3>1
  <2> QED BY <2>1, <2>2, <2>3, <2>5
<1>2. CASE ~Send /\ results = <<>>
  <2>1. results' = <<>>
    BY <1>2 DEF Next, MainThread, TimeUp, Decide, Prepare, Step, NoDamage,
      Damage, Hit, Death, Stat, Judge, Diff, SendFails, SuddenDeath, SetHp,
      CoolDown, vars, reportVars
  <2> QED BY <2>1
<1>3. CASE ~Send /\ results # <<>>
  <2>1. pc = "loop" /\ Finished(phase)
    BY <1>3
  <2>2. SuddenDeath \/ (\E p \in Players : SetHp(p) \/ CoolDown(p))
        \/ UNCHANGED vars
    BY <1>3, <2>1 DEF Next, MainThread, TimeUp, Decide, Prepare, Step, NoDamage,
      Damage, Hit, Death, Stat, Judge, Diff, SendFails, Running
  <2>3. results' = results /\ pc' = pc /\ phase' = phase
    BY <2>2 DEF SuddenDeath, SetHp, CoolDown, vars, reportVars
  <2>4. (late' = late) \/ (late' = (late \/ Deciding))
    BY <2>2, Zenon DEF SuddenDeath, SetHp, CoolDown, vars
  <2>5. ~late' => ~late
    BY <2>4
  <2> QED BY <2>1, <2>3, <2>5 DEF Ahead
<1> QED BY <1>1, <1>2, <1>3

\* The strengthened invariant of a battle holds in every reachable state, whatever
\* the hp, the length and the number of tries of a report.
THEOREM Inductive == Spec => []IInv
<1>1. Init => IInv
  <2> SUFFICES ASSUME Init PROVE IInv
    OBVIOUS
  <2>1. phase = "READY" /\ pc = "loop" /\ results = <<>> /\ hp = [p \in Players |-> Hp]
    BY DEF Init
  <2>2. TypeOK
    BY TypeInit
  <2>3. AliveUntilEnd
    BY <2>1 DEF AliveUntilEnd, Finished
  <2>4. SeenIsTrue /\ DecisionHolds
    BY <2>1 DEF SeenIsTrue, DecisionHolds, Deciding
  <2>5. ReportedAtEnd /\ WinnerIsPhase
    BY <2>1 DEF ReportedAtEnd, ReportedOnce, WinnerIsPhase
  <2> QED BY <2>2, <2>3, <2>4, <2>5 DEF IInv
<1>2. IInv /\ [Next]_vars => IInv'
  BY TypeStep, AliveStep, SeenStep, DecisionStep, ReportStep DEF IInv
<1> QED BY <1>1, <1>2, PTL DEF Spec

\* TypeOK for battles of any length: the variables of puck_game stay in range,
\* no hp falls below 0.
THEOREM TypeCorrect == Spec => []TypeOK
<1>1. IInv => TypeOK
  BY DEF IInv
<1> QED BY <1>1, Inductive, PTL

\* A battle's result is the winner the clients were told, unless a SUDDENDEATH
\* wrote between the end and the report.
THEOREM WinnerAgreed == Spec => []WinnerIsPhase
<1>1. IInv => WinnerIsPhase
  BY DEF IInv
<1> QED BY <1>1, Inductive, PTL

\* A battle's result reaches the reward server once at the most.
THEOREM NoSecondReport == Spec => []ReportedOnce
<1>1. IInv => ReportedOnce
  BY DEF IInv, ReportedAtEnd
<1> QED BY <1>1, Inductive, PTL

\* No step changes the phase or the clock of a battle that is over.
THEOREM EndStays == Spec => EndIsFinal
<1>1. IInv /\ [Next]_vars => [Finished(phase) => UNCHANGED <<phase, tick, time>>]_vars
  <2> SUFFICES ASSUME AliveUntilEnd, Next, Finished(phase)
               PROVE  UNCHANGED <<phase, tick, time>>
    BY DEF IInv
  <2>1. pc \notin {"clock", "physics", "hit", "death"} /\ ~Running
    BY DEF AliveUntilEnd, Running
  <2> QED BY <2>1 DEF Next, MainThread, TimeUp, Decide, Prepare, Step, NoDamage,
    Damage, Hit, Death, Stat, Judge, Diff, Send, SendFails, SuddenDeath, SetHp,
    CoolDown, clockVars
<1> QED BY <1>1, Inductive, PTL DEF Spec, EndIsFinal
=============================================================================
