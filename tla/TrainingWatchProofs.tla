------------------------ MODULE TrainingWatchProofs ------------------------
(***************************************************************************)
(* The ladder, for any number of rungs and any limits: what it keeps safe, *)
(* and that every step of run.sh and ramp.sh brings its end nearer.        *)
(* What a rung did is decided from its exit code, and what makes that      *)
(* enough is KilledFails: a run whose container the watchdog killed cannot *)
(* end with anything but a failure.                                        *)
(***************************************************************************)
EXTENDS TrainingWatch, TLAPS

\* A rung in hand is one of the ladder; between rungs nothing runs.
Climbing ==
    /\ ramp \in {"wait", "reap", "judge"} => rung <= Rungs
    /\ ramp # "wait" => run = "none"

\* The counters of a watchdog that has not decided to abort are below their limits.
Counting ==
    wd \in {"started", "sample", "look"} => breaches < Violations /\ read_failures < BlindPolls

\* The container is the one that run.sh is waiting for.
OwnContainer ==
    /\ con = "preflight" => run = "preflight"
    /\ con = "training" => run = "training"

\* Serving is down only from "lab down" to the trap.
FreedForTraining == freed => run \in {"train", "training", "trap"}

KilledFails ==
    killed => \/ con = "gone" /\ run \in {"preflight", "training"}
              \/ rc = "failed" /\ run \in {"trap", "exited", "none"}

IInv == TypeOK /\ Climbing /\ Counting /\ OwnContainer /\ FreedForTraining /\ KilledFails

LEMMA InitHolds == Init => IInv
<1> SUFFICES ASSUME Init PROVE IInv
  OBVIOUS
<1>1. 1 \in 1 .. Rungs + 1 /\ 0 \in 0 .. Violations /\ 0 \in 0 .. BlindPolls
  BY RampAssumption
<1>2. TypeOK
  BY <1>1 DEF Init, TypeOK
<1>3. Climbing /\ Counting /\ OwnContainer /\ FreedForTraining /\ KilledFails
  BY DEF Init, Climbing, Counting, OwnContainer, FreedForTraining, KilledFails
<1> QED BY <1>2, <1>3 DEF IInv

LEMMA RunKeeps == IInv /\ Run => IInv'
<1> SUFFICES ASSUME IInv, Run PROVE IInv'
  OBVIOUS
<1> USE DEF IInv, TypeOK, Climbing, Counting, OwnContainer, FreedForTraining, KilledFails,
            RunStep, RunOnly, ladder, watchdog, counters
<1>1. CASE Preflight       BY <1>1 DEF Preflight
<1>2. CASE PreflightPasses BY <1>2 DEF PreflightPasses
<1>3. CASE PreflightFails  BY <1>3 DEF PreflightFails
<1>4. CASE FreeCard        BY <1>4 DEF FreeCard
<1>5. CASE Train           BY <1>5 DEF Train
<1>6. CASE TrainEnds       BY <1>6 DEF TrainEnds
<1>7. CASE TrainKilled     BY <1>7 DEF TrainKilled
<1>8. CASE Restore         BY <1>8 DEF Restore
<1> QED BY <1>1, <1>2, <1>3, <1>4, <1>5, <1>6, <1>7, <1>8 DEF Run

LEMMA WatchKeeps == IInv /\ Watch => IInv'
<1> SUFFICES ASSUME IInv, Watch PROVE IInv'
  OBVIOUS
<1> USE RampAssumption
    DEF IInv, TypeOK, Climbing, Counting, OwnContainer, FreedForTraining, KilledFails,
        WatchOnly, ladder, training, counters
<1>1. CASE Arm         BY <1>1 DEF Arm
<1>2. CASE Sample
  <2>1. breaches' \in 0 .. Violations /\ (wd' = "look" => breaches' < Violations)
    BY <1>2 DEF Sample
  <2> QED BY <1>2, <2>1 DEF Sample
<1>3. CASE ReadFails   BY <1>3 DEF ReadFails
<1>4. CASE Look        BY <1>4 DEF Look
<1>5. CASE AbortKills  BY <1>5 DEF AbortKills
<1>6. CASE AbortWrites BY <1>6 DEF AbortWrites
<1> QED BY <1>1, <1>2, <1>3, <1>4, <1>5, <1>6 DEF Watch

LEMMA RampKeeps == IInv /\ Ramp => IInv'
<1> SUFFICES ASSUME IInv, Ramp PROVE IInv'
  OBVIOUS
<1> USE RampAssumption
    DEF IInv, TypeOK, Climbing, Counting, OwnContainer, FreedForTraining, KilledFails,
        training, watchdog, counters
<1>1. CASE StartRung
  <2>1. con = "gone" /\ ~freed
    BY <1>1 DEF StartRung
  <2>2. TypeOK'
    <3>1. 0 \in 0 .. Violations /\ 0 \in 0 .. BlindPolls
      OBVIOUS
    <3>2. rung' \in 1 .. Rungs + 1
      BY <1>1 DEF StartRung
    <3> QED BY <1>1, <3>1, <3>2, Zenon DEF StartRung
  <2>3. Climbing' /\ Counting'
    BY <1>1 DEF StartRung
  <2> QED BY <1>1, <2>1, <2>2, <2>3 DEF StartRung
<1>2. CASE RunExited  BY <1>2 DEF RunExited
<1>3. CASE Reap       BY <1>3 DEF Reap
<1>4. CASE Judge      BY <1>4 DEF Judge, JudgeOnly
<1>5. CASE LadderDone BY <1>5 DEF LadderDone
<1> QED BY <1>1, <1>2, <1>3, <1>4, <1>5 DEF Ramp

LEMMA IInvHolds == Spec => []IInv
<1>1. IInv /\ [Next]_vars => IInv'
  <2> SUFFICES ASSUME IInv, [Next]_vars PROVE IInv'
    OBVIOUS
  <2> USE DEF IInv, TypeOK, Climbing, Counting, OwnContainer, FreedForTraining, KilledFails,
              ladder, training, watchdog, counters
  <2>1. CASE Heats          BY <2>1 DEF Heats
  <2>2. CASE WaitPasses     BY <2>2 DEF WaitPasses
  <2>3. CASE UNCHANGED vars BY <2>3 DEF vars
  <2> QED BY <2>1, <2>2, <2>3, RunKeeps, WatchKeeps, RampKeeps DEF Next
<1> QED BY <1>1, InitHolds, PTL DEF Spec

\* Every variable keeps its type, and every counter its limit (watchdog.py 118-177).
THEOREM TypeCorrect == Spec => []TypeOK
<1>1. IInv => TypeOK BY DEF IInv
<1> QED BY <1>1, IInvHolds, PTL

\* After each rung the serving plane was told to come back (run.sh 98-100).
THEOREM ServingRestoredHolds == Spec => []ServingRestored
<1>1. IInv => ServingRestored BY DEF IInv, Climbing, FreedForTraining, ServingRestored
<1> QED BY <1>1, IInvHolds, PTL

\* A rung that its watchdog killed ends the ladder (ramp.sh 57-86).
THEOREM AbortEndsLadderHolds == Spec => AbortEndsLadder
<1>1. IInv /\ [Next]_vars => [rung' # rung => ~killed]_vars
  <2> SUFFICES ASSUME IInv, Next, rung' # rung, killed PROVE FALSE
    OBVIOUS
  <2>1. Judge
    BY DEF Next, Heats, WaitPasses, ladder, Run, RunOnly, Preflight, PreflightPasses,
           PreflightFails, FreeCard, Train, TrainEnds, TrainKilled, Restore, Watch, WatchOnly,
           Arm, Sample, ReadFails, Look, AbortKills, AbortWrites, Ramp, StartRung, RunExited,
           Reap, LadderDone
  <2>2. rc = "failed"
    BY <2>1 DEF Judge, IInv, Climbing, KilledFails
  <2>3. Judged # "ok"
    BY <2>2 DEF Judged
  <2> QED BY <2>1, <2>3 DEF Judge
<1> QED BY <1>1, IInvHolds, PTL DEF Spec, AbortEndsLadder

-----------------------------------------------------------------------------
(* How far the ladder is from its end.                                      *)

\* The steps that run.sh has still to take before it exits, at most.
RunLeft ==
    CASE run = "started"   -> 7
      [] run = "preflight" -> 6
      [] run = "free"      -> 5
      [] run = "train"     -> 4
      [] run = "training"  -> 3
      [] run = "trap"      -> 2
      [] run = "exited"    -> 1
      [] OTHER             -> 0

\* And those of the rung in hand.
RungLeft ==
    CASE ramp = "next"  -> 10
      [] ramp = "wait"  -> RunLeft + 2
      [] ramp = "reap"  -> 2
      [] ramp = "judge" -> 1

LadderLeft == IF ramp = "done" THEN 0 ELSE 10 * (Rungs + 1 - rung) + RungLeft

LadderGetsOn ==
    [][/\ LadderLeft \in Nat
       /\ IF Run \/ Ramp THEN LadderLeft' < LadderLeft ELSE LadderLeft' = LadderLeft]_vars

\* It is a number.
LEMMA LeftTyped == IInv => LadderLeft \in Nat
<1> SUFFICES ASSUME IInv PROVE LadderLeft \in Nat
  OBVIOUS
<1>1. Rungs + 1 - rung \in Nat
  BY RampAssumption DEF IInv, TypeOK
<1>2. ramp # "done" => RungLeft \in Nat
  BY DEF IInv, TypeOK, RungLeft, RunLeft
<1> QED
  BY <1>1, <1>2 DEF LadderLeft

\* A run is one of the rung in hand, and each of its steps is one less to take.
LEMMA RunLowers == IInv /\ Run => LadderLeft' < LadderLeft
<1> SUFFICES ASSUME IInv, Run PROVE LadderLeft' < LadderLeft
  OBVIOUS
<1>1. ramp = "wait" /\ UNCHANGED ladder /\ Rungs \in Nat /\ rung \in Nat
  BY RampAssumption DEF IInv, TypeOK, Climbing, Run, RunOnly, RunStep, Preflight, PreflightPasses,
     PreflightFails, FreeCard, Train, TrainEnds, TrainKilled, Restore
<1>2. RunLeft \in Nat /\ RunLeft' \in Nat
  BY DEF RunLeft
<1>3. RunLeft' < RunLeft
  BY DEF Run, RunStep, RunLeft, Preflight, PreflightPasses, PreflightFails, FreeCard, Train,
         TrainEnds, TrainKilled, Restore
<1> QED
  BY <1>1, <1>2, <1>3 DEF LadderLeft, RungLeft, ladder

\* So is each step of ramp.sh, and a rung that passed leaves fewer rungs.
LEMMA RampLowers == IInv /\ Ramp => LadderLeft' < LadderLeft
<1> SUFFICES ASSUME IInv, Ramp PROVE LadderLeft' < LadderLeft
  OBVIOUS
<1>1. Rungs \in Nat /\ rung \in 1 .. Rungs + 1
  BY RampAssumption DEF IInv, TypeOK
<1>2. CASE StartRung
  BY <1>1, <1>2 DEF StartRung, LadderLeft, RungLeft, RunLeft
<1>3. CASE RunExited
  BY <1>1, <1>3 DEF RunExited, LadderLeft, RungLeft, RunLeft
<1>4. CASE Reap
  BY <1>1, <1>4 DEF Reap, LadderLeft, RungLeft
<1>5. CASE Judge
  <2>1. rung <= Rungs
    BY <1>5 DEF Judge, IInv, Climbing
  <2> QED
    BY <1>1, <1>5, <2>1 DEF Judge, LadderLeft, RungLeft
<1>6. CASE LadderDone
  BY <1>1, <1>6 DEF LadderDone, LadderLeft, RungLeft
<1> QED
  BY <1>2, <1>3, <1>4, <1>5, <1>6 DEF Ramp

\* However the runs end and whatever the watchdogs do, no ladder goes on for ever:
\* every step of ramp.sh and of its run leaves fewer to take, and nothing else adds
\* one (ramp.sh 43-86, run.sh 55-110).
THEOREM LadderGetsOnHolds == Spec => LadderGetsOn
<1>1. ASSUME IInv, Next
      PROVE  /\ LadderLeft \in Nat
             /\ IF Run \/ Ramp THEN LadderLeft' < LadderLeft ELSE LadderLeft' = LadderLeft
  <2>1. CASE Watch \/ Heats \/ WaitPasses
    <3>1. UNCHANGED <<ladder, run>>
      BY <2>1 DEF Watch, WatchOnly, Arm, Sample, ReadFails, Look, AbortKills, AbortWrites, Heats,
         WaitPasses, training
    <3>2. LadderLeft' = LadderLeft
      BY <3>1 DEF LadderLeft, RungLeft, RunLeft, ladder
    <3>3. ~Run /\ ~Ramp
      BY <1>1, <3>1, <3>2, RunLowers, RampLowers, LeftTyped
    <3> QED
      BY <1>1, <3>2, <3>3, LeftTyped
  <2> QED
    BY <1>1, <2>1, RunLowers, RampLowers, LeftTyped DEF Next
<1> QED
  BY <1>1, IInvHolds, PTL DEF Spec, LadderGetsOn
=============================================================================
