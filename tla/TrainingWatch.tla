--------------------------- MODULE TrainingWatch ---------------------------
(***************************************************************************)
(* The ladder of training runs with a thermal guard: training/ramp.sh,     *)
(* which starts for every rung one training/run.sh --fg and one            *)
(* training/watchdog.py and waits for the first.                           *)
(*                                                                         *)
(* The three processes meet in four places: the container                  *)
(* "gpu-lab-training", a name that run.sh gives to its preflight and then  *)
(* to the training; the watchdog's report, a file; the run's exit code;    *)
(* and the SIGTERM with which ramp.sh ends the watchdog of a rung.         *)
(*                                                                         *)
(* A temperature is hot (at the ceiling, or the card slows itself down) or *)
(* not, and may change between any two steps.  A field that nvidia-smi     *)
(* leaves blank is a NaN, which no comparison finds hot.  The caps ramp.sh *)
(* does not ask for (--max-hours, --allow-throttle) are left out.          *)
(***************************************************************************)
EXTENDS Naturals

CONSTANTS
    Rungs,      \* how many batch:rank pairs
    Violations, \* consecutive breaches before an abort
    BlindPolls, \* consecutive failed reads before an abort
    SlowStart   \* may the --wait seconds pass before a container is seen?

ASSUME RampAssumption ==
    /\ Rungs \in Nat \ {0} /\ Violations \in Nat \ {0} /\ BlindPolls \in Nat \ {0}
    /\ SlowStart \in BOOLEAN

VARIABLES
    ramp,       \* where ramp.sh is
    rung,       \* the step of the ladder in hand
    run,        \* where run.sh is
    rc,         \* how its run went
    freed,      \* has it taken serving down, and not yet brought it back?
    con,        \* the container of that name
    hot,        \* does a read of the card find it hot?
    wd,         \* where watchdog.py is
    seen, breaches, read_failures,
    late,       \* have the --wait seconds passed?
    report,     \* the file it leaves
    killed      \* history: did this rung's watchdog kill a container?

ladder   == <<ramp, rung>>
training == <<run, rc, freed>>
counters == <<seen, breaches, read_failures>>
watchdog == <<wd, counters, late, report, killed>>
vars == <<ladder, training, con, hot, watchdog>>

Init ==
    /\ ramp = "next" /\ rung = 1
    /\ run = "none" /\ rc = "ok" /\ freed = FALSE
    /\ con = "gone" /\ hot = FALSE
    /\ wd = "none" /\ seen = FALSE /\ breaches = 0 /\ read_failures = 0
    /\ late = FALSE /\ report = "none" /\ killed = FALSE

-----------------------------------------------------------------------------
(* run.sh --fg.                                                             *)

RunStep(from, to) == run = from /\ run' = to
RunOnly == UNCHANGED <<ladder, hot, watchdog>>

\* "docker run --name gpu-lab-training" of preflight.py: serving is still up.
Preflight ==
    /\ RunStep("started", "preflight") /\ con' = "preflight"
    /\ UNCHANGED <<rc, freed>> /\ RunOnly

PreflightPasses ==
    /\ con = "preflight" /\ RunStep("preflight", "free") /\ con' = "gone"
    /\ UNCHANGED <<rc, freed>> /\ RunOnly

\* It fails, or was killed: set -e ends the script, whose trap is not set yet.
PreflightFails ==
    /\ RunStep("preflight", "exited") /\ con' = "gone" /\ rc' = "failed"
    /\ UNCHANGED freed /\ RunOnly

\* "lab down --gpu-only", and the trap that undoes it.
FreeCard ==
    /\ RunStep("free", "train") /\ freed' = TRUE
    /\ UNCHANGED <<rc, con>> /\ RunOnly

Train ==
    /\ RunStep("train", "training") /\ con' = "training"
    /\ UNCHANGED <<rc, freed>> /\ RunOnly

TrainEnds ==
    /\ con = "training" /\ RunStep("training", "trap") /\ con' = "gone"
    /\ rc' \in {"ok", "oom", "failed"}
    /\ UNCHANGED freed /\ RunOnly

TrainKilled ==
    /\ con = "gone" /\ RunStep("training", "trap") /\ rc' = "failed"
    /\ UNCHANGED <<con, freed>> /\ RunOnly

\* (Mutant: serving comes back only after a run that passed.)
RestoreIfOk ==
    /\ RunStep("trap", "exited") /\ freed' = (rc # "ok")
    /\ UNCHANGED <<rc, con>> /\ RunOnly

\* The EXIT trap: "lab up".
Restore ==
    /\ RunStep("trap", "exited") /\ freed' = FALSE
    /\ UNCHANGED <<rc, con>> /\ RunOnly

Run ==
    \/ Preflight \/ PreflightPasses \/ PreflightFails \/ FreeCard
    \/ Train \/ TrainEnds \/ TrainKilled \/ Restore

-----------------------------------------------------------------------------
(* watchdog.py.                                                             *)

WatchOnly == UNCHANGED <<ladder, training, hot, late>>

\* The target temperature is read and the signal handlers are set.
Arm ==
    /\ wd = "started" /\ wd' = "sample"
    /\ UNCHANGED <<counters, con, report, killed>> /\ WatchOnly

\* (Mutant: one breach more than the limit.)
SampleOneMore ==
    /\ wd = "sample"
    /\ read_failures' = 0
    /\ breaches' \in {IF hot THEN breaches + 1 ELSE 0, 0}
    /\ wd' = IF breaches' > Violations THEN "abort" ELSE "look"
    /\ UNCHANGED <<seen, con, report, killed>> /\ WatchOnly

\* sample(): a hot one counts, any other one starts the count again.
Sample ==
    /\ wd = "sample"
    /\ read_failures' = 0
    /\ breaches' \in {IF hot THEN breaches + 1 ELSE 0, 0}
    /\ wd' = IF breaches' >= Violations THEN "abort" ELSE "look"
    /\ UNCHANGED <<seen, con, report, killed>> /\ WatchOnly

\* nvidia-smi fails or hangs; the count of breaches stands.
ReadFails ==
    /\ wd = "sample"
    /\ read_failures' = read_failures + 1
    /\ wd' = IF read_failures' >= BlindPolls THEN "abort" ELSE "sample"
    /\ UNCHANGED <<seen, breaches, con, report, killed>> /\ WatchOnly

\* "docker inspect": a container that was there and is not ends the watch, and
\* so does one that never came in time.
Look ==
    /\ wd = "look"
    /\ seen' = (seen \/ con # "gone")
    /\ IF con = "gone" /\ (seen \/ late)
       THEN wd' = "over" /\ report' = "ended"
       ELSE wd' = "sample" /\ UNCHANGED report
    /\ UNCHANGED <<breaches, read_failures, con, killed>> /\ WatchOnly

\* abort(): "docker kill", which fails when there is no such container,
AbortKills ==
    /\ wd = "abort" /\ wd' = "write"
    /\ con' = "gone" /\ killed' = (killed \/ con # "gone")
    /\ UNCHANGED <<counters, report>> /\ WatchOnly

\* and then the report.
AbortWrites ==
    /\ wd = "write" /\ wd' = "over" /\ report' = "aborted"
    /\ UNCHANGED <<counters, con, killed>> /\ WatchOnly

Watch == Arm \/ Sample \/ ReadFails \/ Look \/ AbortKills \/ AbortWrites

-----------------------------------------------------------------------------
(* ramp.sh.                                                                 *)

\* The next rung, each with files of its own.
StartRung ==
    /\ ramp = "next" /\ rung <= Rungs
    /\ ramp' = "wait" /\ run' = "started" /\ rc' = "ok"
    /\ wd' = "started" /\ seen' = FALSE /\ breaches' = 0 /\ read_failures' = 0
    /\ late' = FALSE /\ report' = "none" /\ killed' = FALSE
    /\ UNCHANGED <<rung, freed, con, hot>>

RunExited ==
    /\ ramp = "wait" /\ run = "exited"
    /\ ramp' = "reap" /\ run' = "none"
    /\ UNCHANGED <<rung, rc, freed, con, hot, watchdog>>

\* "kill $wd_pid": on_term writes the report of a run that was not aborted,
\* over what abort() may be about to write.
Reap ==
    /\ ramp = "reap" /\ ramp' = "judge"
    /\ wd' = "none"
    /\ report' = IF wd \in {"started", "over"} THEN report ELSE "ended"
    /\ UNCHANGED <<rung, training, con, hot, counters, late, killed>>

\* The out-of-memory text in the log, the report, and the exit code, in this
\* order.  A rung that passed adds its temperatures to the summary.
Judged ==
    CASE rc = "oom"           -> "OOM"
      [] report = "aborted"   -> "ABORTED"
      [] rc # "ok"            -> "FAILED"
      [] OTHER                -> "ok"

JudgeOnly == UNCHANGED <<training, con, hot, watchdog>>

\* (Mutants: the report alone ends the ladder; a rung that failed is run again.)
JudgeByReport ==
    /\ ramp = "judge"
    /\ IF Judged \in {"ok", "FAILED"} THEN ramp' = "next" /\ rung' = rung + 1
                                      ELSE ramp' = "done" /\ UNCHANGED rung
    /\ JudgeOnly
JudgeAgain ==
    /\ ramp = "judge"
    /\ ramp' = "next" /\ rung' = IF Judged = "ok" THEN rung + 1 ELSE rung
    /\ JudgeOnly

Judge ==
    /\ ramp = "judge"
    /\ IF Judged = "ok" THEN ramp' = "next" /\ rung' = rung + 1
                        ELSE ramp' = "done" /\ UNCHANGED rung
    /\ JudgeOnly

LadderDone ==
    /\ ramp = "next" /\ rung > Rungs
    /\ ramp' = "done"
    /\ UNCHANGED <<rung, training, con, hot, watchdog>>

Ramp == StartRung \/ RunExited \/ Reap \/ Judge \/ LadderDone

-----------------------------------------------------------------------------
(* The card, and time.                                                      *)

Heats ==
    /\ hot' = ~hot
    /\ UNCHANGED <<ladder, training, con, watchdog>>

WaitPasses ==
    /\ SlowStart /\ ~late /\ wd \notin {"none", "over"} /\ late' = TRUE
    /\ UNCHANGED <<ladder, training, con, hot, wd, counters, report, killed>>

Next == Run \/ Watch \/ Ramp \/ Heats \/ WaitPasses

\* Each process goes on: a preflight and a training run of a fixed number of
\* epochs come to an end.
Spec == Init /\ [][Next]_vars
FairSpec == Spec /\ WF_vars(Run) /\ WF_vars(Watch) /\ WF_vars(Ramp)

-----------------------------------------------------------------------------
(* Properties.                                                              *)

TypeOK ==
    /\ ramp \in {"next", "wait", "reap", "judge", "done"} /\ rung \in 1 .. Rungs + 1
    /\ run \in {"none", "started", "preflight", "free", "train", "training", "trap", "exited"}
    /\ rc \in {"ok", "oom", "failed"} /\ con \in {"gone", "preflight", "training"}
    /\ freed \in BOOLEAN /\ hot \in BOOLEAN /\ seen \in BOOLEAN
    /\ late \in BOOLEAN /\ killed \in BOOLEAN
    /\ wd \in {"none", "started", "sample", "look", "abort", "write", "over"}
    /\ breaches \in 0 .. Violations /\ read_failures \in 0 .. BlindPolls
    /\ report \in {"none", "ended", "aborted"}

\* A rung whose run the watchdog killed is the last one, even when SIGTERM
\* replaced its report: "every step above it is throttled by definition"
\* (ramp.sh 13-15, watchdog.py 124-131).
AbortEndsLadder == [][rung' # rung => ~killed]_vars

\* Between two rungs, and at the end, the serving plane was told to come back:
\* "restored from an EXIT trap whether this passes, fails or is killed"
\* (run.sh 29, 100).
ServingRestored == ramp # "wait" => ~freed

\* The ladder comes to an end.
LadderEnds == <>(ramp = "done")

\* A training run always has its watchdog: "every step is guarded by
\* watchdog.py, which can stop the run" (ramp.sh 13-14).
EveryStepIsGuarded == con = "training" => wd # "over"
=============================================================================
