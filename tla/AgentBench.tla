----------------------------- MODULE AgentBench -----------------------------
(***************************************************************************)
(* bench/agent_ab.py: two harnesses on one sealed task set.                *)
(*                                                                         *)
(* A runner goes through a plan of runs (repetition, task, arm).  Each run *)
(* gets one shared directory, WORK, fresh; a harness works there until it  *)
(* answers or fails; then check.sh grades, and one row is appended to      *)
(* results.jsonl, which is all that a rerun knows of what was done.  The   *)
(* model server may go down and come back, and the runner may be killed,   *)
(* at any step.                                                            *)
(*                                                                         *)
(* Prompts, answers and grades are abstracted to what the runner does with *)
(* them: an answer is its own run's or an older attempt's, a grade is any  *)
(* Boolean.  A row keeps of its status whether it is "infra".              *)
(***************************************************************************)
EXTENDS Naturals, SequencesExt, FiniteSetsExt

CONSTANTS
    Runners,    \* runners on this machine
    TaskIds,    \* task_ids: the set's tasks, sorted
    Shuffled,   \* what rng.shuffle makes of them in each repetition, by the seed
    Groups,     \* the arms, one sequence for each mode
    Compared,   \* the pairs of arms a summary compares
    LoopArms,   \* the arms of the loop; the others are Codex's
    Reps,       \* --reps
    Earlier,    \* the rows that earlier runs left in results.jsonl
    MaxCalls,   \* MAX_CALLS of the loop
    MaxFaults   \* how often a runner is killed, a server fails, a wall is down

Tasks == ToSet(TaskIds)
Arms  == UNION {ToSet(Groups[i]) : i \in DOMAIN Groups}
Keys  == [rep : 1..Reps, task : Tasks, arm : Arms]
Rows  == [rep : Nat, task : Tasks, arm : STRING, pass : BOOLEAN, infra : BOOLEAN]

ASSUME BenchAssumption ==
    /\ Reps \in Nat \ {0} /\ MaxCalls \in Nat /\ MaxFaults \in Nat
    /\ TaskIds \in Seq(STRING) /\ Groups \in Seq(Seq(STRING))
    /\ Shuffled \in [1..Reps -> Seq(Tasks)] /\ Earlier \in Seq(Rows)

\* A directory has a task once, and the options name an arm once.
ASSUME NamedOnceAssumption ==
    /\ \A rep \in 1..Reps : IsInjective(Shuffled[rep])
    /\ \A i \in DOMAIN Groups : IsInjective(Groups[i])
    /\ \A i, j \in DOMAIN Groups : i # j => ToSet(Groups[i]) \cap ToSet(Groups[j]) = {}

NoRun == [runner |-> "none", at |-> 0]

VARIABLES
    results,    \* results.jsonl
    void,       \* the tasks that the self-test file says failed
    rundirs,    \* what the directory of each run holds
    work,       \* whose copy WORK is
    shells,     \* the runs with a process of the agent user alive
    server,     \* is the model server up?
    run,        \* the state of each runner
    faults      \* how many faults there were

vars == <<results, void, rundirs, work, shells, server, run, faults>>

-----------------------------------------------------------------------------
(* plan and done_keys.                                                      *)

Rotate(g, i) == SubSeq(g, i + 1, Len(g)) \o SubSeq(g, 1, i)

\* One group of arms over one shuffled order of the tasks.
Pass(rep, group, tids) ==
    FlattenSeq([i \in DOMAIN tids |->
        [j \in DOMAIN group |->
            [rep |-> rep, task |-> tids[i],
             arm |-> Rotate(group, ((i - 1) % Len(group)))[j]]]])

plan ==
    FlattenSeq([rep \in 1..Reps |->
        FlattenSeq([g \in DOMAIN Groups |-> Pass(rep, Groups[g], Shuffled[rep])])])

KeyOf(row) == [rep |-> row.rep, task |-> row.task, arm |-> row.arm]

\* (Mutant: a run that was graded FAIL is run again.)
done_passed == {KeyOf(results[i]) : i \in {n \in DOMAIN results : results[n].pass}}

\* (Mutant: infra rows count as done.)
done_any == {KeyOf(results[i]) : i \in DOMAIN results}

\* What a runner finds in results.jsonl when it starts.
done_keys == {KeyOf(results[i]) : i \in {n \in DOMAIN results : ~results[n].infra}}

-----------------------------------------------------------------------------
Idle == [phase |-> "idle", at |-> 0, done |-> {}, status |-> "none",
         final |-> "none", calls |-> 0, pass |-> FALSE]

Init ==
    /\ results = Earlier /\ void = {}
    /\ rundirs = [k \in Keys |-> "absent"]
    /\ work = NoRun /\ shells = {} /\ server = TRUE
    /\ run = [r \in Runners |-> Idle]
    /\ faults = 0

Key(r)     == plan[run[r].at]
Mine(r)    == [runner |-> r, at |-> run[r].at]
At(r, p)   == run[r].phase = p
Goto(r, p) == run' = [run EXCEPT ![r].phase = p]
Fault      == faults < MaxFaults /\ faults' = faults + 1

\* sweep: no process of the agent user survives.
sweep == shells' = {}

(* cmd_run: sandbox_env and preflight, then the plan.                       *)

\* preflight uses WORK itself, and its clean ends whatever ran there.
preflight(r) ==
    /\ At(r, "idle")
    /\ sweep /\ work' = NoRun
    /\ UNCHANGED <<results, void, rundirs, server>>

PreflightPasses(r) ==
    /\ preflight(r)
    /\ run' = [run EXCEPT ![r] = [Idle EXCEPT !.phase = "pick", !.done = done_keys]]
    /\ UNCHANGED faults

\* Some wall is down (or the command was "preflight"): nothing is run.
PreflightOnly(r) == preflight(r) /\ Fault /\ UNCHANGED run

\* The next run of the plan that is not done, in a directory of its own.
PickRun(r, keep) ==
    /\ At(r, "pick")
    /\ LET todo == {i \in DOMAIN plan : i > run[r].at /\ plan[i] \notin run[r].done}
           next == Min(todo)
       IN  /\ todo # {}
           /\ run' = [run EXCEPT ![r].at = next, ![r].phase = "wait", ![r].calls = 0,
                                 ![r].final = "none", ![r].status = "error"]
           /\ rundirs' = [rundirs EXCEPT ![plan[next]] = IF keep /\ @ # "absent" THEN @ ELSE "empty"]
    /\ UNCHANGED <<results, void, work, shells, server, faults>>

\* (Mutant: what an earlier attempt left in the directory stays.)
PickKeeping(r) == PickRun(r, TRUE)

Pick(r) == PickRun(r, FALSE)

\* (Mutant: a run that is done ends the plan, a break for the continue.)
PlanStops(r) ==
    /\ At(r, "pick")
    /\ run[r].at < Len(plan) => plan[run[r].at + 1] \in run[r].done
    /\ run' = [run EXCEPT ![r] = Idle]
    /\ sweep /\ work' = NoRun
    /\ UNCHANGED <<results, void, rundirs, server, faults>>

\* clean, at the end of the plan.
PlanEnds(r) ==
    /\ At(r, "pick")
    /\ \A i \in DOMAIN plan : i > run[r].at => plan[i] \in run[r].done
    /\ run' = [run EXCEPT ![r] = Idle]
    /\ sweep /\ work' = NoRun
    /\ UNCHANGED <<results, void, rundirs, server, faults>>

\* (Mutant: a WORK that is there is used as it is.)
ReuseWork(r) ==
    /\ At(r, "wait") /\ server
    /\ work' = (IF work = NoRun THEN Mine(r) ELSE work) /\ Goto(r, "harness")
    /\ UNCHANGED <<results, void, rundirs, shells, server, faults>>

\* wait_healthy passes, and fresh_work makes the copy of the fixture.
FreshWork(r) ==
    /\ At(r, "wait") /\ server
    /\ work' = Mine(r) /\ Goto(r, "harness")
    /\ UNCHANGED <<results, void, rundirs, shells, server, faults>>

\* wait_healthy: 600 seconds unhealthy, and the program exits.
GiveUp(r) ==
    /\ At(r, "wait") /\ ~server
    /\ run' = [run EXCEPT ![r] = Idle]
    /\ UNCHANGED <<results, void, rundirs, work, shells, server, faults>>

-----------------------------------------------------------------------------
(* run_loop, one action for what a turn may come to.                        *)

InHarness(r) == At(r, "harness") /\ UNCHANGED <<results, void, work, server>>
InLoop(r)    == InHarness(r) /\ Key(r).arm \in LoopArms /\ UNCHANGED rundirs

Ends(r, status, final) ==
    run' = [run EXCEPT ![r].phase = "ended", ![r].status = status, ![r].final = final]

\* The deadline has passed before the turn or in it.
TurnLate(r) == InLoop(r) /\ Ends(r, "timeout", "none") /\ UNCHANGED <<shells, faults>>

\* Nobody answers: URLError.
TurnRefused(r) == InLoop(r) /\ ~server /\ Ends(r, "infra", "none") /\ UNCHANGED <<shells, faults>>

\* HTTPError.  A full context is the arm's own; any other is the server's.
TurnHttpError(r) ==
    /\ InLoop(r) /\ server
    /\ \/ Ends(r, "context_exhausted", "none") /\ UNCHANGED faults
       \/ Ends(r, "infra", "none") /\ Fault
    /\ UNCHANGED shells

\* An answer that cannot be read, as when the server dies in the middle of it.
TurnGarbled(r) == InLoop(r) /\ Ends(r, "error", "none") /\ UNCHANGED <<shells, faults>>

\* A message with no call in it: the answer, or what fitted of it.
TurnAnswers(r) ==
    /\ InLoop(r) /\ server
    /\ \E s \in {"answered", "truncated"} : Ends(r, s, "own")
    /\ UNCHANGED <<shells, faults>>

\* A command may leave a process behind; one that times out sweeps the user's.
run_cmd(r) == \E s \in {{}, shells, shells \union {Mine(r)}} : shells' = s

\* (Mutant: one message more than the limit.)
TurnCallsPast(r, n) ==
    /\ InLoop(r) /\ server
    /\ IF run[r].calls > MaxCalls
       THEN Ends(r, "call_limit", "none") /\ UNCHANGED shells
       ELSE /\ run' = [run EXCEPT ![r].calls = @ + n]
            /\ run_cmd(r)
    /\ UNCHANGED faults

\* A message that asks for n commands.
TurnCalls(r, n) ==
    /\ InLoop(r) /\ server
    /\ IF run[r].calls >= MaxCalls
       THEN Ends(r, "call_limit", "none") /\ UNCHANGED shells
       ELSE /\ run' = [run EXCEPT ![r].calls = @ + n]
            /\ run_cmd(r)
    /\ UNCHANGED faults

run_loop(r) ==
    \/ TurnLate(r) \/ TurnRefused(r) \/ TurnHttpError(r) \/ TurnGarbled(r) \/ TurnAnswers(r)
    \/ \E n \in 1..2 : TurnCalls(r, n)

(* run_codex.  The answer is the file that Codex leaves in the run's        *)
(* directory, if there is one.                                              *)
CodexEnds(r, status, wrote) ==
    LET k == Key(r)
    IN  /\ InHarness(r) /\ k.arm \notin LoopArms
        /\ rundirs' = [rundirs EXCEPT ![k] = IF wrote THEN "answer" ELSE @]
        /\ Ends(r, status, IF wrote THEN "own" ELSE IF rundirs[k] = "answer" THEN "stale" ELSE "none")
        /\ \E s \in {shells, shells \union {Mine(r)}} : shells' = s

run_codex(r) ==
    \/ \E w \in BOOLEAN : CodexEnds(r, "timeout", w) /\ UNCHANGED faults
    \/ \E w \in BOOLEAN : CodexEnds(r, "failed", w) /\ UNCHANGED faults
    \/ server /\ CodexEnds(r, "answered", TRUE) /\ UNCHANGED faults
    \/ ~server /\ CodexEnds(r, "infra", FALSE) /\ UNCHANGED faults
    \/ server /\ CodexEnds(r, "infra", FALSE) /\ Fault

-----------------------------------------------------------------------------
(* What cmd_run does with the outcome.                                      *)

\* (Mutant: no sweep between the harness and the grade.)
SettleOnly(r) ==
    /\ At(r, "ended")
    /\ run' = [run EXCEPT ![r].phase = "grade", ![r].status = IF server THEN @ ELSE "infra"]
    /\ UNCHANGED <<results, void, rundirs, work, shells, server, faults>>

\* sweep, and the health of the server under the run.
Settle(r) ==
    /\ At(r, "ended") /\ sweep
    /\ run' = [run EXCEPT ![r].phase = "grade", ![r].status = IF server THEN @ ELSE "infra"]
    /\ UNCHANGED <<results, void, rundirs, work, server, faults>>

\* answer.txt, check.sh, and the copy of WORK.
grade(r) ==
    /\ At(r, "grade")
    /\ \E p \in BOOLEAN : run' = [run EXCEPT ![r].phase = "record", ![r].pass = p]
    /\ UNCHANGED <<results, void, rundirs, work, shells, server, faults>>

Record(r) ==
    /\ At(r, "record")
    /\ results' = Append(results, [rep |-> Key(r).rep, task |-> Key(r).task, arm |-> Key(r).arm,
                                   pass |-> run[r].pass, infra |-> run[r].status = "infra"])
    /\ run' = [run EXCEPT ![r] = [Idle EXCEPT !.phase = "pick", !.at = run[r].at, !.done = run[r].done]]
    /\ UNCHANGED <<void, rundirs, work, shells, server, faults>>

cmd_run(r) ==
    \/ Pick(r) \/ PlanEnds(r) \/ FreshWork(r) \/ GiveUp(r)
    \/ run_loop(r) \/ run_codex(r) \/ Settle(r) \/ grade(r) \/ Record(r)

(* cmd_selftest: the reference answers, each in a fresh WORK; the file is   *)
(* opened for writing first.                                                *)
SelftestBegins(r) ==
    /\ At(r, "idle") /\ Fault
    /\ void' = {} /\ run' = [run EXCEPT ![r] = [Idle EXCEPT !.phase = "selftest"]]
    /\ UNCHANGED <<results, rundirs, work, shells, server>>

SelftestTask(r) ==
    /\ At(r, "selftest") /\ run[r].at < Len(TaskIds)
    /\ run' = [run EXCEPT ![r].at = @ + 1]
    /\ work' = [runner |-> r, at |-> run[r].at + 1]
    /\ \E bad \in {{}, {TaskIds[run[r].at + 1]}} : void' = void \union bad
    /\ UNCHANGED <<results, rundirs, shells, server, faults>>

SelftestEnds(r) ==
    /\ At(r, "selftest") /\ run[r].at = Len(TaskIds)
    /\ run' = [run EXCEPT ![r] = Idle] /\ sweep /\ work' = NoRun
    /\ UNCHANGED <<results, void, rundirs, server, faults>>

-----------------------------------------------------------------------------
\* A kill of the runner ends no process of the agent user.
Killed(r) ==
    /\ ~At(r, "idle") /\ Fault /\ run' = [run EXCEPT ![r] = Idle]
    /\ UNCHANGED <<results, void, rundirs, work, shells, server>>

ServerFails ==
    /\ server /\ Fault /\ server' = FALSE
    /\ UNCHANGED <<results, void, rundirs, work, shells, run>>

ServerRecovers ==
    /\ ~server /\ server' = TRUE
    /\ UNCHANGED <<results, void, rundirs, work, shells, run, faults>>

Next ==
    \/ \E r \in Runners :
        \/ PreflightPasses(r) \/ PreflightOnly(r) \/ cmd_run(r)
        \/ SelftestBegins(r) \/ SelftestTask(r) \/ SelftestEnds(r) \/ Killed(r)
    \/ ServerFails \/ ServerRecovers

Spec == Init /\ [][Next]_vars

\* A command goes on while it can, a server comes back, and a benchmark that
\* has stopped is started again: "stopping; rerun resumes".
FairSpec ==
    /\ Spec
    /\ WF_vars(ServerRecovers)
    /\ \A r \in Runners :
        /\ WF_vars(cmd_run(r) \/ SelftestTask(r) \/ SelftestEnds(r))
        /\ WF_vars(PreflightPasses(r))

-----------------------------------------------------------------------------
(* cmd_summary, over the rows of a moment.                                  *)

Valid(arm, t) ==
    {i \in DOMAIN results : results[i].arm = arm /\ results[i].task = t
                            /\ ~results[i].infra /\ t \notin void}
Passes(arm, t) == {i \in Valid(arm, t) : results[i].pass}

\* (Mutant: one run of a task is enough.)
short_none(reps) == {}

\* Every arm with a row counts, whether or not it is compared.
short(reps) ==
    {t \in Tasks : \E i \in DOMAIN results :
        LET n == Cardinality(Valid(results[i].arm, t)) IN 0 < n /\ n < reps}

Kept(arm, reps)  == {t \in Tasks : Valid(arm, t) # {}} \ short(reps)
Majority(arm, t) == 2 * Cardinality(Passes(arm, t)) > Cardinality(Valid(arm, t))

common(x, y, reps) == Kept(x, reps) \cap Kept(y, reps)

Discordant(x, y, reps) == {t \in common(x, y, reps) : Majority(x, t) /\ ~Majority(y, t)}

-----------------------------------------------------------------------------
(* Properties.                                                              *)

Phases == {"idle", "pick", "wait", "harness", "ended", "grade", "record", "selftest"}

TypeOK ==
    /\ results \in Seq(Rows)
    /\ void \subseteq Tasks
    /\ rundirs \in [Keys -> {"absent", "empty", "answer"}]
    /\ server \in BOOLEAN /\ faults \in 0..MaxFaults
    /\ \A r \in Runners : run[r].phase \in Phases /\ run[r].calls \in 0..MaxCalls + 1

\* However often a runner is killed and started again, no run of the plan is
\* counted twice: a second sample would weigh in the majority.
CountedOnce ==
    \A i, j \in DOMAIN results :
        ~results[i].infra /\ ~results[j].infra /\ KeyOf(results[i]) = KeyOf(results[j]) => i = j

\* However often it was resumed, a pass that comes to the end of its plan leaves
\* no run of it without a row, be it one that calls for another attempt: what
\* is passed over was done (agent_ab.py 430-433).
NothingIsSkipped ==
    [][\A r \in Runners : PlanEnds(r) =>
          \A k \in ToSet(plan) : \E i \in DOMAIN results : KeyOf(results[i]) = k]_vars

\* A run is graded on the copy of WORK that was made for it, and when nothing
\* of the agent user can still write to it.
GradedAlone ==
    \A r \in Runners : At(r, "grade") => work = Mine(r) /\ shells = {}

\* The answer that is graded is of this attempt, not one that an attempt
\* which came to nothing left in the directory of the run.
AnswerIsOwn == \A r \in Runners : At(r, "grade") => run[r].final # "stale"

\* A summary compares two arms only on tasks that each of them ran as often
\* as was asked: "void for the comparison, not half-counted".
ComparedAreComplete ==
    \A p \in Compared : \A t \in common(p[1], p[2], Reps) : \A arm \in {p[1], p[2]} :
        Cardinality(Valid(arm, t)) >= Reps

\* The other half of the same comment: a task with enough runs of both arms
\* that are compared is in the comparison.
CompleteAreCompared ==
    \A p \in Compared, t \in Tasks :
        (\A arm \in {p[1], p[2]} : Cardinality(Valid(arm, t)) >= Reps) => t \in common(p[1], p[2], Reps)

\* Every run of the plan gets its row in the end: what failed for reasons of
\* the machine is run again.
AllMeasured ==
    <>(\A k \in ToSet(plan) : \E i \in DOMAIN results : KeyOf(results[i]) = k /\ ~results[i].infra)

=============================================================================
