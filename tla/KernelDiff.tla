----------------------------- MODULE KernelDiff -----------------------------
(***************************************************************************)
(* kernels/compare.py: two nodes run the same kernel tests in one pytest   *)
(* process each, a test at a time, and their result files are compared.  A *)
(* killed CUDA context fails every later test that uses the card, and the  *)
(* comparison warns of the place from which nearly everything fails.       *)
(***************************************************************************)
EXTENDS SequencesExt, Integers

CONSTANTS
    Nodes,
    MaxTests,  \* in a suite: a bound
    Poisoned   \* 50: failures before a kill is called one

ASSUME KernelAssumption == Poisoned \in Nat \ {0}

VARIABLES
    results,  \* of each node, in order: the test, its outcome, and its truth
    dead,     \* the nodes whose context has been killed
    tests     \* how many tests have had their turn

kernels == <<results, dead, tests>>

KernelInit == results = [n \in Nodes |-> <<>>] /\ dead = {} /\ tests = 0

\* A result: its outcome, which is "error" where a fixture fails, "kill" if its
\* message is one of CONTEXT_KILL, and "live" if its test ran in a live context.
Passes  == [outcome |-> "pass",  kill |-> FALSE, live |-> TRUE]
Skips   == [outcome |-> "skip",  kill |-> FALSE, live |-> TRUE]
Fails   == [outcome |-> "fail",  kill |-> FALSE, live |-> TRUE]
Errs    == [outcome |-> "error", kill |-> FALSE, live |-> TRUE]
Forked  == [outcome |-> "fail",  kill |-> TRUE,  live |-> TRUE]
Killed  == [outcome |-> "fail",  kill |-> TRUE,  live |-> FALSE]
NoSetUp == [outcome |-> "error", kill |-> TRUE,  live |-> FALSE]

Result(as, test) ==
    [test |-> test, outcome |-> as.outcome, kill |-> as.kill, live |-> as.live]

\* What a test leaves: nothing where its parameters are gated by capability; a
\* skip, decided before the card is used; or what its kernel does.  One that
\* forks can raise a launch failure and the suite goes on in its own context.
Outcomes(n) ==
    {<<>>, <<Skips>>} \cup
    (IF n \in dead THEN {<<Killed>>, <<NoSetUp>>}
     ELSE {<<Passes>>, <<Fails>>, <<Errs>>, <<Forked>>, <<Killed>>, <<NoSetUp>>})

AnyOutcome == {<<>>} \cup {<<r>> : r \in {Skips, Passes, Fails, Errs, Forked, Killed, NoSetUp}}

RunTest(outcome) ==
    /\ tests < MaxTests /\ tests' = tests + 1
    /\ \A n \in Nodes : outcome[n] \in Outcomes(n)
    /\ results' = [n \in Nodes |->
           results[n] \o [k \in DOMAIN outcome[n] |-> Result(outcome[n][k], tests')]]
    /\ dead' = dead \cup {n \in Nodes : outcome[n] \in {<<Killed>>, <<NoSetUp>>}}

KernelNext == \E outcome \in [Nodes -> AnyOutcome] : RunTest(outcome)

KernelSpec == KernelInit /\ [][KernelNext]_kernels

-----------------------------------------------------------------------------
(* The comparison.                                                          *)

IsBad(result) == result.outcome \in {"fail", "error"}
Bad(file, from) == {j \in from..Len(file) : IsBad(file[j])}

\* Whether nearly everything from a launch failure on fails.
\* (Mutant: of the whole suite, not of what comes after.)
NearlyAllOfSuite(file, i) ==
    Cardinality(Bad(file, i)) >= Poisoned /\ 10 * Cardinality(Bad(file, i)) >= 7 * Len(file)
NearlyAll(file, i) ==
    /\ Cardinality(Bad(file, i)) >= Poisoned
    /\ 10 * Cardinality(Bad(file, i)) >= 7 * (Len(file) - i + 1)

\* Where a killed context starts poisoning what comes after, or past the end.
cascade(file) ==
    Min({i \in DOMAIN file : IsBad(file[i]) /\ file[i].kill /\ NearlyAll(file, i)}
        \cup {Len(file) + 1})

\* load: what a file says of a test; main: the tests both have, that disagree.
load(file) == [t \in {file[j].test : j \in DOMAIN file} |->
                   CHOOSE j \in DOMAIN file : file[j].test = t]

Shared == {t \in 1..MaxTests : \A n \in Nodes : t \in DOMAIN load(results[n])}
ResultOf(n, t) == results[n][load(results[n])[t]]

diffs == {t \in Shared : \E n, m \in Nodes : ResultOf(n, t).outcome # ResultOf(m, t).outcome}

-----------------------------------------------------------------------------
(* Properties.                                                              *)

DeadResults(n) == {j \in DOMAIN results[n] : ~results[n][j].live}

Trusted(t) == \A n \in Nodes : load(results[n])[t] < cascade(results[n])
IsEvidence(t) == \A n \in Nodes : ResultOf(n, t).live

\* No test of the node has killed its context, though some may fail, and fork.
Survives(n) == DeadResults(n) = {}

\* A kill that takes all the rest with it: nothing that follows it is a skip.
KilledOutright(n) ==
    /\ Cardinality(DeadResults(n)) >= Poisoned
    /\ \A j \in DOMAIN results[n] :
           j >= Min(DeadResults(n)) => results[n][j].outcome # "skip"

\* The warning's two ways to be wrong, where the threshold keeps it from both.  A
\* node that survives with fewer failures than the threshold is not warned of, so
\* none of its results is voided, whatever launch failures its forks raised.  And
\* if each node survives or is killed outright, a disagreement that stands before
\* both warnings is a finding: both of its results are of a live context.
FindingsStand ==
    /\ \A n \in Nodes : Survives(n) /\ Cardinality(Bad(results[n], 1)) < Poisoned
                           => cascade(results[n]) > Len(results[n])
    /\ (\A n \in Nodes : Survives(n) \/ KilledOutright(n))
           => \A t \in diffs : Trusted(t) => IsEvidence(t)

\* cascade's docstring of any kill, as many skips as there may be after it: that
\* it finds where a killed context starts to poison what follows.
KillIsFound ==
    \A n \in Nodes : Cardinality(DeadResults(n)) >= Poisoned
        => cascade(results[n]) <= Min(DeadResults(n))

\* What main prints of the failures from the warning on: that they are collateral,
\* not findings.  A dead context is what makes them that.
CollateralIsDead ==
    \A n \in Nodes : \A j \in Bad(results[n], cascade(results[n])) : ~results[n][j].live

=============================================================================
