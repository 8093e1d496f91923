# A verification project for GPU-Lab

GPU-Lab is two machines with one GPU each, a `desktop` (sm_86) and a `laptop`
(sm_120), and the scripts that decide what runs on their cards: `bin/lab`, the
training and kernel scripts, benchmarks and evaluations of the models served,
and tools that compare what the two architectures did. This directory holds TLA+
models of the parts of it in which order, failure and concurrency matter, TLC runs
over small instances, and proofs checked by TLAPS.

    tlc -workers 2 -config mirror_faults.cfg MCWeightMirror     # a run
    tlapm WeightMirrorProofs.tla                                # a proof

`PROJECT.json` lists the runs, what each definition translates (file and lines),
the hazards in the code with the properties that would catch them, and for every
property a mutated definition that breaks it.

## 1. Inventory

| part | state it keeps | operations | with whom it interacts |
|---|---|---|---|
| card commands of `bin/lab` (`up`, `agent`, `down`, `pool up/down`, `reload`) | the llama-swap unit of each node (active, enabled), containers by name (`qwen3-*`, `gpu-lab-agent`, `ray-head`, `ray-worker`, `gpu-lab-kernels`, `gpu-lab-training`), the cards' memory | one shell script per command, with `systemctl`, `docker`, and `ssh` from the laptop to the desktop | each other, llama-swap loading on a request, engines that start slowly or die, reboots, the cable |
| weight mirror (`lab mirror sync/prune/verify/status`) | the mirror's files, `manifest`, `manifest.new`, `manifest.tmp`, `last-sync`, `unreadable`, `quarantine/`, a lock | blobs by rsync, hash, pointers by rsync, merge of the manifest; list, compare, delete | the desktop's cache, which downloads and training change; loaders that read the mirror; `pool up`, which asks whether it is current |
| training ladder (`training/ramp.sh`), run (`run.sh`) and watchdog (`watchdog.py`) | a container, a report file, counters of breaches and blind polls, an exit code | start run and watchdog, wait, SIGTERM, judge; preflight, `lab down`, train, `lab up` from a trap; sample, look, abort | the three processes, docker, the card's temperature |
| kernel suite (`kernels/run.sh`, `overnight.sh`, `compare.py`) | result files, one container | run a file of tests, pair up results, find where a CUDA context died | `lab down/up`, whatever takes the card in between |
| training data (`training/dataset_generator.py`, `clippy_harvest.py`, `augment_research.py`, `audit_dataset.py`, `dataset.py`) | `clippy_corpus.json`, `research_dataset.json`, its augmented copy | harvest, generate, augment, audit, load or rebuild | the tools' help as installed; the training run; the evaluation, which draws its questions from both |
| training work (`training/preflight.py`, `qlora.py`, `verify.py`, `run.sh`) | the adapter's directory with two reports | check, stop serving, encode, train, save, report, verify | the serving plane, the laptop that serves the adapter, `nvidia-smi` |
| research evaluation (`bench/research_eval.py`) | a results file | build items, hold conversations, score, rescore | a model server, documentation commands it runs for the model, Prometheus, promtool |
| agent benchmark (`bench/agent_ab.py`) | `results.jsonl`, run directories, `WORK`, self-test results | preflight, plan, resume, run, grade, summarise | the model server, two harnesses, processes of the agent user |
| monitoring (`monitoring/gpu_exporter.py`) | the last payload | poll `nvidia-smi`, serve it | Prometheus |
| sm-differ (Rust) | a database of runs and measurements | gate by temperature, measure, record, judge | nodes over ssh, Prometheus |
| paired comparison (`bench/compare.py`) | nothing | pair two saved evaluations, exact test | result files |
| front door (LiteLLM) | a configuration | route, retry, fall back to the other node | llama-swap, agent, pool |
| other benchmarks, lint, NIC repair, `lab install/status/logs`, arch probe | files they write once | sequential scripts | none that matters here |

What is hard in each, and what makes it correct:

* **Card commands.** A command is a sequence of separate system calls with no
  lock, so what a check saw may be old; each ssh can fail; a command can be
  killed or its node rebooted; engines take their memory minutes after their
  container started. Correct means: a card has one holder (llama-swap, agent or
  pool); it changes hands only through being free; a refused command leaves
  serving as found; after `down` nothing is left; every command ends.
* **Mirror.** The source changes while it is copied; connections drop; content
  can be rotten; prune runs beside sync without the lock. Correct means: an entry
  of a snapshot never lacks its blob, never exposes one its run did not check; a
  result of "ok" means current; nothing that a person put there is removed; what
  the script wrote it knows; a sync ends.
* **Ladder.** Three processes meet in a container name, a file, a signal and an
  exit code. Correct means: the plane that was stopped is told to come back on
  every path; a rung that the watchdog killed is the last; each training is
  watched; the ladder ends.
* **Training data.** Records are composed from other records, tools are upgraded
  between programs, files are torn. Correct means: an answer credits only what its
  own record shows, and what the audit certifies is so; an exam asks for nothing
  that its adapter was trained on.
* **Training work.** Everything can be missing, or go missing after it was checked;
  a run dies anywhere. Correct means: the loss is computed on what the model will
  emit; a missing part is found before serving stops; an adapter with a report can
  be read by its server.
* **Research evaluation.** The model writes any command; servers fail; truth moves.
  Correct means: only documentation is run; no answer, no credit; a rescore scores
  the same answer against the same truth; each item is scored.
* **Agent benchmark.** Killed and resumed, on a shared directory, with a server
  that goes down. Correct means: a run is counted once, measured in the end, and
  graded alone on its own work and answer; arms are compared on complete tasks.
* **Comparisons** (`sm-differ`, both `compare.py`). Gates in an order, zeros, NaN,
  a context that dies under later tests, records written in steps. Correct means:
  what is reported as a difference is evidence for one.
* **Exporter.** `nvidia-smi` hangs. Correct means: what says it is good is recent,
  and the exporter comes back.

The hazards, each at its line, are in `PROJECT.json`.

## 2. Modules

    Card            what the planes promise of the two cards (abstract)
    CardOwnership   the card commands, and the world around them; implements Card
      CardOwnershipProofs   theorems
    WeightMirror    sync, prune and the desktop
      MCWeightMirror        instances for TLC
      WeightMirrorProofs    theorems
    TrainingWatch   ramp.sh, run.sh --fg and watchdog.py
      TrainingWatchProofs   theorems
    AgentBench      agent_ab.py
      MCAgentBench          instances for TLC
      AgentBenchProofs      theorems
    ResearchData    from the tools' help to datasets and exam items
      MCResearchData        instances for TLC
      ResearchDataProofs    theorems
    ResearchSession one item of research_eval.py: conversation, score, rescore
      ResearchSessionProofs theorems
    GpuExporter     the poller and its payload
    TrainingJob     preflight.py, qlora.py, verify.py; composed with GpuExporter
      TrainingJobProofs     theorems of both
    KernelDiff, PairedRuns, SmDiffer   the three comparisons
      MCComparisons         the three side by side, for TLC
      ComparisonProofs      theorems of the three

In every module a mutated definition stands just before the one it is a mutation
of, marked "(Mutant: ...)"; it is used by no specification.

### CardOwnership (`src/bin/lab` 268-285, 317-931, 939-1099, 1382-1436)

A *session* is a terminal in which one command runs. `pc` names the line it is at,
and every call that reads or changes the world is a step of its own, so the checks
of one command and the effects of another interleave as they do in the shell.
`swap`, `boot`, `on` and `link` are the unit's state, whether it is enabled, power
and cable. `con[n][c]` is a container's status; "starting" has no memory yet,
"holding" has. The memory of a card is abstracted to who has allocated it: one
holder leaves no room for a second, and the checks against the idle floor see a
holder exactly when one holds. The commands' local variables (`was`, `l_was`,
`d_was`) are `saw`; `found` is a history variable.

| actions | code |
|---|---|
| `UpRefused`, `UpAllowed`, `UpStart` | `cmd_up`: checks, then start |
| `DownSwap`, `DownSweep`, `DownEnds` | `cmd_down`: unit and model, containers by name, `--boot-off` |
| `Agent...` | `agent_up`: preflight, stop, remove, `agent_fit`, run, wait |
| `Pool...` | `pool_up`: preflight, laptop, desktop, `pool_fits`, restore, ray, serve, wait |
| `PoolDown...` | `pool_down` |
| `Reload` | `cmd_reload llama-swap` |
| `LoadModel`, `Loads`, `Dies`, `PoolLoads`, `EngineDies`, `JobStarts` | llama-swap, engines, kernel and training runs |
| `LinkFlips`, `Kill`, `PowerOff`, `Boots` | faults |

Checks of static facts (images, keys, weights, whether the mirror is current) may
fail at any time, so each command that has one may be refused whatever the state.
The removal and the start of a ray container are one step; between them nothing can
look for it that would act differently. LiteLLM, the exporter and the monitoring
stack use no GPU and are left out, and so are the waits for the card to clear, which
end in a warning. `agent_up`'s wait for its engine is counted in the code and not in
the model: it may be over at any moment, and `SlowStarts` says whether also while
the engine has no memory yet. Then the container stays and goes on starting, and no
later command asks for it but by the memory it does not have.

### WeightMirror (`src/bin/lab` 1438-1792)

Paths are model values: blobs (named by their hash), links (entries of
`snapshots/<revision>/`), one ref per repo, adapters. The desktop's cache may
change while commands run (`Moving`). A sync goes through lock, refusal or
plan, and per group blobs, hashing, pointers; every single file is a step, and a
dropped connection, a kill, a file that vanished or became unreadable may come
between any two. `data` abstracts a blob's content to what its name and size
tell apart: good, rotten (same size) and short. rsync's temporary names are not
modelled: a file appears under its final name whole (`--partial-dir`, rename).
A prune lists, marks, deletes in the order of the sorted list, and rewrites the
manifest through the same `manifest.tmp` as the sync.

| actions | code |
|---|---|
| `SyncLock`, `SyncRefuse`, `SyncPlan` | `cmd_mirror_sync` 1609-1664 |
| `StartBlobs`, `CopyBlob`, `BlobsFailed` | (a), 1677-1690 |
| `HashGood`, `HashBad` | (b), 1691-1702 |
| `CopyOther`, `OthersDone`, `StartAdapters` | (c), 1703-1713, and adapters, 1665-1676 |
| `MergeManifest`, `PublishManifest`, `LostManifest` | 1715-1725 |
| `PruneList`, `PruneMark`, `PruneDelete`, `PruneManifest`, `PrunePublish` | `cmd_mirror_prune --apply`, 1752-1780 |
| `Publish`, `DeleteRevision`, `ChangeContent`, `ChangeMode`, `ChangeAdapters`, `HandPut` | what other tools and people do (external) |

### TrainingWatch (`src/training/ramp.sh`, `run.sh` 62-116, `watchdog.py`)

Three processes with a place each (`ramp`, `run`, `wd`). They share the
container `con`, whose one name serves preflight and training, `report`, `rc`
and a SIGTERM (`Reap`, whose handler writes a report over the one being
written). `killed` is a history variable. The card is hot or not, and may change
at any step; a read of a hot card may still come back as not hot, because a
blank field is a NaN, which no comparison finds over the ceiling.

### AgentBench (`src/bench/agent_ab.py`)

A runner's `phase` is the line of `cmd_run` it is at: pick the next run of `plan`
that `done_keys` does not have, wait for the server, make `WORK`, run one of the
two harnesses, sweep, grade, append the row. `run_loop` is one action per outcome
of a turn, `run_codex` one per exit status and per answer file written or not.
A kill loses everything but the files and the processes of the agent user. The
grade is any Boolean, and a row keeps of its status only whether it is `infra`.
`short`, `Kept`, `common` and `Discordant` are `cmd_summary` over the rows of any
moment. `PlanEnds` is a pass that comes to the end of its list, as opposed to the
one that gives up on a server that does not answer (`GiveUp`); `NothingIsSkipped`
is about what the first has done.

### ResearchData (`src/training/*.py`, item builders of `src/bench/research_eval.py`)

A help page is a sequence of lines, each with an option, its spec as the line spells
it, a description, whether it is laid out as GNU help is, and what flags and specs
are in it as text: --color is in a line about --color-moved. A record keeps which
options are asked, whose text is in the outputs it shows, which flags its answer
credits to them and which specs it quotes, and which tools it calls. The windows
(`get_observation_for_flag`, `man_window`) are sets of lines, found as the code
finds them: by the first line that has the flag in its text, or by the first that
defines it. The web's records are the generator's tables, with the one flag that its
snippet does not show. Each generator, and each way in which `augment_research.py`
makes a record of others, is an operator of its name; the programs (`Harvest`,
`Generate`, `Augment`, `Train`, `Eval`) and an upgrade of a tool are the actions. A
file is whole or torn, and carries the number of the generation it is of. A man page
is any page of its tool. Of the audit there are the gates on grounding (4) and on
the reflex (1).

### ResearchSession (`src/bench/research_eval.py` 888-1269, 1474-1527)

`run_item` turn by turn: `/tokenize`, the completion, the call in it or the answer,
the tries of `post`, and the exception that ends an item. A command is up to three
words of the classes that `allowed_argv` tells apart. An answer is what the
patterns of the scorer would find in it, in any combination. `truth` is read from a
`prom` that may change at every step.

### TrainingJob and GpuExporter (`src/training/`, `src/monitoring/gpu_exporter.py`)

`wrong` is what is wrong with a run, `changed` what became so after the preflight,
and `Bites` at which stages of `qlora.py` and `verify.py` each of these is fatal:
every library call that may reject what it is passed, records that the template does
not take, files, memory, disk. `Checked` is what the preflight looks at, which is
less. `encode` is the code's scan
over tokens, on records of one to three assistant turns, cut at every kind of
place; `Emits` is its reference, computed from the messages and never from the
scan. The exporter's payload ages in ticks while its thread sleeps or hangs. The
two share `smi`, which `GpuMonitor` inside `qlora.py` also asks.

### KernelDiff, PairedRuns, SmDiffer

`KernelDiff`: a test leaves nothing, a skip, a pass, a failure, an error, a launch
failure it recovers from, or a dead context; each result carries whether its context
was alive, which the code cannot see. `cascade` is the code's rule, `FindingsStand`
compares it with that, and `diffs` are the tests whose outcomes differ, a failure
and an error among them. `PairedRuns`: `mcnemar_exact` is the code's binomial tail
in whole numbers (times `2^n`), `PIsOfSwaps` counts what it promises over all swaps.
`SmDiffer`: `Measure` and `compare` are the gates in the code's order, with means
and variances compared as products of whole numbers; significance is a free choice;
`begin_run` and `record` are steps with kills between.

## 3. Runs

| run | shows | instance |
|---|---|---|
| `mirror_faults` | `TypeOK`, `OkMeansCurrent`, `RemovesOnlyWritten` | a revision of two files, an adapter that a person may also have put there, connections drop, kills, prunes, one file that rots; source still during a command |
| `mirror_prune` | `DanglingOnlyByPrune` | two revisions that share a blob, of which the old one may be deleted, connections drop, prunes; source still during a command |
| `mirror_busy` | `NewLinksHashed`, `SyncEnds` | source moves during the command, blobs become short or unreadable, kills and prunes |
| `cards_sequence` | `OneHolder`, `ImplementsCard`, `RefusalsRestoreServing` | one session, all commands but `reload`, jobs, reboots between commands, no slow starts |
| `cards_faults` | `DownFreesCard`, `CommandsEnd` | one session, all commands, slow starts, cable, kills, power cuts |
| `ramp_ladder` | `TypeOK`, `ServingRestored`, `AbortEndsLadder`, `LadderEnds` | three rungs, three breaches, four blind polls |
| `agent_bench` | `TypeOK`, `CountedOnce`, `GradedAlone`, `AnswerIsOwn`, `ComparedAreComplete`, `NothingIsSkipped`, `AllMeasured` | one task, two arms, two repetitions, two faults |
| `research_session` | `RunsOnlyDocs`, `NoCreditWithoutAnswer`, `RescoreKeepsScore`, `EveryItemScored` | all kinds of item, two tools, two calls, three tries |
| `research_data` | `AnswersAreShown`, `EvalIsHeldOut` | three tools with pages of up to six lines, a window of three, two generations, one upgrade |
| `training_job` | `TrainedIsEmitted`, `ServableWhenReported`, `OkIsRecent`, `ExporterRecovers` | two runs, three shapes of record, whole and cut at six tokens, one tick of sleep and of timeout |
| `comparisons` | `FindingsStand`, `PIsOfSwaps`, `ConclusiveIsEarned`, `LatestIsTheVerdicts` | suites of three tests (threshold 2), five items, two diffs over thirteen windows |
| `cards_slow` | finding: `WholeCard` fails | one session, slow starts, no faults |

**Why these bounds.** In the mirror, one revision of two files is the least in which
one blob of a transfer can be right and the other wrong; two revisions that share a
blob are the least in which a deleted one leaves entries stale and the other needs
what it leaves; one repo and the adapters are two groups, so a failed group is
followed by another one. The source, and the number of syncs and prunes, are not
bounded: TLC explores the whole graph. (The proofs are for any number of revisions.)
For the cards the two nodes are all there is, and no counter is bounded;
`cards_sequence` is one terminal because with two the code does race
(`cards_race.cfg`), and without cable faults because with those refusals do not
restore (`cards_refusal.cfg`); with slow starts the agent and the pool meet
(`cards_slow`), while `RefusalsRestoreServing` goes on to hold. `DownFreesCard` and
`CommandsEnd` are checked with every fault on, and without kernel and training runs,
which hold no plane's card and nobody waits for. A ladder of three has a first, a
middle and a last rung; three breaches are the program's own default, four blind
polls stand for its ten: both only count up to an abort, and the proof is for any
number.

For the benchmark, one task and two arms of different harnesses are four runs in two
orders, of which any may follow one that left a process, a file or an infra row; two
faults let a kill fall into a repeated run (`MaxFaults` bounds kills, server
failures, failed walls and self-tests together). Two calls reach the limit after an
executed one; a third word of a command is the last that the allowlist can accept. A
page of six lines with a window of three has options on the head, in a window of
their own and mentioned before their own line, two with one description, and some
not laid out as the parser wants; `MaxMade` two is the least in which exam and
adapter can be of different generations, and one upgrade the least that makes help
and dataset differ. Two training runs are what an overwritten adapter takes; six
tokens end a short record right behind its empty think block, in its answer or with
its call, where the scan's bounds are, and the proof has every length. Three tests
with a threshold of two have a kill, its victim, and a skip or a recovered failure
beside them. Five items have every count of discordant pairs up to five, ties
included; `PIsOfSwaps` compares with all `2^5` swaps. Two diffs are what a killed
one and a later one in the same second take. The three comparisons share no state,
so a behaviour of `MCComparisons` takes one of them.

**Why a property needs its faults.** `DanglingOnlyByPrune` needs a source that stays
still during one command: a revision published between the blobs' and the pointers'
transfer leaves entries without a blob until the next sync, which the script cannot
prevent. It needs readable blobs, for a sync skips and names those it cannot read,
and copies the entries that point to them; and blobs that keep their size when they
go bad, for a blob that is fetched again and then quarantined leaves the old entries
without it. (With `Moving`, `Lockable` or `"short"` in the instance, TLC finds such
an entry within a few thousand states.) Without prunes the stronger `LinksResolve`
holds; it is proved. `EvalIsHeldOut` speaks of an exam drawn from the dataset file
that the adapter was made from; `ExamIsHeldOut`, without that, fails (section 4).
`TrainedIsEmitted` excepts a record that is cut inside an empty think block, whose
opening is then trained on. `AnswersAreShown` excepts the web's answers, which are
tables, and one of them does cite what its snippet does not show. `FindingsStand`
speaks of nodes that survive with fewer failures than the threshold, and of kills
that leave no skip behind them: what the rule does with a fork among many failures,
and with a kill among skips, is `CollateralIsDead` and `KillIsFound` (section 4).
`OneHolder` and `ImplementsCard` need an engine to have its memory, or to have died,
before `agent_up` gives up on it: else `pool up` starts beside it. That llama-swap
is alone on its card (`ServingAlone`) does not, and is proved without.
`RefusalsRestoreServing` needs a cable that holds.

**Deadlock** is checked in the mirror, the cards, the ladder and the agent
benchmark, where some step is always possible; an item that is lost, the last of
`MaxMade`, `MaxRuns` or `MaxDiffs`, and a comparison at its bound do stop.

**Fairness.** `SyncEnds`: weak fairness of a started sync's next step. A sync is a
script of loops over finite lists, rsync ends when its connection dies, and no step
waits for another process; starting one is not fair. `CommandsEnd`: weak fairness of
each session's steps, all of whose loops are counted, and of nothing else: an engine
may start for ever, and `agent_up` gives up on it. `LadderEnds`: weak fairness of
each of the three processes; a training run has a fixed number of epochs and ends.
`AllMeasured`: weak fairness of a runner's steps, each of which has a timeout in the
code, of a server that comes back and of a benchmark that is started again, as its
own message asks ("rerun resumes"). `EveryItemScored`: weak fairness of `run_item`,
all of whose calls have timeouts, and of the loop that scores. `ExporterRecovers`:
weak fairness of the thread and of time; `subprocess.run` has a timeout, and the
loop catches everything. No fairness is assumed of engines dying, jobs, links,
power, heat, faults, Prometheus, `nvidia-smi` or people.

## 4. Findings

One is a run of the project:

* `WholeCard` (`cards_slow`, `bin/lab:1078`). `agent_up` gives up on an engine after
  `AGENT_WAIT_SECS` and leaves its container, "still starting?". `pool up` asks for
  kernel and training containers (708-711) and for the memory in use, of which that
  engine has none, and starts ray on the same card. `src/README.md:209`: "only one of
  them can hold it at a time".

These are stated in the modules, and TLC finds each violated; the ones with a cfg
named can be run as they are, for the others put the property in the cfg given.

| property | cfg | what the code does |
|---|---|---|
| `ReachableIsHashed` | `mirror_unhashed.cfg` | `bin/lab:1688`: blobs of a transfer that failed part-way stay, unhashed; the next sync takes them for current by size and copies the pointers. Lines 1441-1443 promise the opposite. `NewLinksHashed` does hold |
| `LoaderSeesWhole` | `mirror_loader.cfg` | `bin/lab:1709`: one rsync walks `refs/` before `snapshots/`, so `refs/main` names the new revision before its files are there; lines 1442-1444 |
| `WrittenIsRecorded` | `mirror_manifest.cfg` | `bin/lab:1689`: the blobs of a transfer that broke off, and at 1699 the good ones of a batch with a bad one, are not appended to `manifest.new` (1701), and later syncs find them current: no manifest names them and `prune` may never delete them; line 1715, "every path this command ever wrote" |
| `ServingAlone`, with `reload` | `cards_reload.cfg` | `bin/lab:1415`: a restart starts a stopped unit, beside the agent or the pool; lines 32-37, 112-118 |
| `UpRespectsHolder` | `cards_race.cfg` | `bin/lab:363`: checked, then started, with no lock between; lines 36-37 |
| `RefusalsRestoreServing`, with a failing cable | `cards_refusal.cfg` | `bin/lab:768`: what ran on the desktop is remembered as nothing if that one ssh fails; lines 748-749 |
| `EveryStepIsGuarded` | `ramp_guard.cfg` | `training/watchdog.py:185`: the preflight has the training's container name, and the watchdog takes its end for the end of the run; `ramp.sh:13-14` |
| `CompleteAreCompared` | `agent_summary.cfg` | `bench/agent_ab.py:523`: the tasks short of runs are collected over every arm that has a row, so rows of an arm that is not compared void tasks that are complete in the two that are. Line 522 voids "fewer valid replicates than asked for"; we read it as of the arms that are compared |
| `QuotesAreShown` | `research_quotes.cfg` | `dataset_generator.py:239`: a record's window starts at the first line that has the flag as text, and line 294 asks for no more, so the answer may quote an option's line that the record does not show; comments at 236 and 303 |
| `AuditCertifies` | `research_audit.cfg` | `audit_dataset.py:65`: the grounding gate returns at once for all but cli records, so the web answer that cites `--allow-dirty` (`dataset_generator.py:511`) passes; docstring 3-11 |
| `CorrectNeedsTruth` | `research_truth.cfg` | `research_eval.py:1175`: a truth query that failed is `or []`, as if there were no data, and "no data" is then the right answer; the docstring at 1171 |
| `ExamIsHeldOut` | in `research_data.cfg` | `research_eval.py:660`: the exam is held out of the dataset file of now; an adapter may be of an earlier or a rebuilt one |
| `TrapsAreFake` | in `research_data.cfg` | `research_eval.py:703`: a lookup of the help that failed has no flag in it, so a trap that is real is kept |
| `DescIdentifies` | in `research_data.cfg` | `research_eval.py:652`: a description is unambiguous among the lines that the model is shown and that may be asked, not among all of the tool; docstring 624-625 |
| `DriftCostsNoServing` | `training_drift.cfg` | `preflight.py:29-62`: of the library calls that `qlora.py` makes it tries the imports, `TrainingArguments` and `LoraConfig`; a `BitsAndBytesConfig`, a load, a target module or a `Trainer` that is rejected is found once serving is down. Its docstring: "Fail fast on API drift, before the serving plane goes down" |
| `VerdictIsOfAdapter` | in `training_job.cfg` | `run.sh:106`: a run with `NO_VERIFY`, or one killed before its end, replaces the weights beside the verdict on those before |
| `HotIsRefused` | `sm_hot.cfg` | `sm-differ/src/diff.rs:115`: a NaN among the temperatures is the peak by `total_cmp` and is not above the limit, so the node is measured, hot scrapes or not; comment 8-12 (which also says that a hot node's metric is not fetched; it is, at 99-101) |
| `KillIsFound` | `kernels_skips.cfg` | `kernels/compare.py:88`: a kill followed by more than three in ten skips is not found; docstring 55-66 |
| `CollateralIsDead` | `kernels_forks.cfg` | the same line: a launch failure that a forked test recovered from, with enough failures behind it, is taken for the kill; lines 116-117 then call live failures "collateral, not findings" |
| `OneBuild` | in `comparisons.cfg` | `bench/compare.py:118`: runs that share one question are compared, whatever else they asked |

## 5. Proofs

All theorems are for every value of the constants that the modules' named
assumptions allow, and do not bound the number of repos, revisions, files, rungs,
polls, tools, pages, datasets, calls, words, tasks, arms, tests, readings, diffs or
messages. The assumptions are

| assumption | says |
|---|---|
| `PathsAssumption`, `ShapeAssumption`, `FaultsAssumption` | the mirror's paths of the four kinds are distinct, groups and targets are as the cache lays them out, which faults there are |
| `RampAssumption`, `ExporterAssumption`, `KernelAssumption`, `LengthAssumption` | limits, intervals, thresholds and `--max-len` are positive numbers |
| `WindowAssumption`, `PagesAssumption` | a help window has room for its head and what precedes a line; a page ends, and a line has its own option in its text |
| `HeldOutAssumption` | the first held-out tools are in no table of the generator, as the comment beside `HELD_OUT` promises; of the second set nothing is assumed, for the code looks in the dataset |
| `SessionAssumption` | tools that execute their arguments are not among those with a subcommand |
| `BenchAssumption`, `NamedOnceAssumption` | tasks, arms and earlier rows are of their kinds, a task set has a task once and the options name an arm once |
| `DifferAssumption` | a window's temperatures are cool, hot or NaN, its readings whole numbers |
| `CommandsAssumption`, `SwitchesAssumption` | which commands and faults an instance has |

A theorem that needs more has it as a hypothesis with a name (`Calm`, `Readable`,
`Undisturbed`, `Prompt`, `Uninterrupted`, `OneSession`, `Alone`, `EarlierOnce`),
which some run's instance satisfies; of most, the text below says what TLC finds
without it.

**WeightMirrorProofs.** `TypeOK` is inductive by itself, because it holds the facts
that tie `pc` to what may be pending (during "blobs" only blobs, during "others" no
blob, and a group in hand): one step per action. `RemovesOnlyWritten` rests on:
everything any of the three manifest files records was written by a sync, and so was
everything a prune marked and everything a running sync transferred.
`NewLinksHashed` rests on: while pointers are copied, every blob that was
transferred has been hashed since. It needs no assumption on faults. `LinksResolve`
and `DanglingOnlyByPrune` assume `Calm`: the source stays still during commands, no
blob is unreadable, none changes its size. Their invariant says where each blob that
a link to be copied needs is: the source itself is closed (a link there has its
target there), while blobs are being copied what is missing is still pending or the
transfer has failed, and while pointers are copied nothing of that repo is missing,
but for what a prune took; a prune's list is the source's own, which a still desktop
does not change. `LinksResolve` then adds that without prunes nothing is ever taken.

`OkMeansCurrent` needs `Readable` (still, and no blob that rsync cannot read, for
those a sync skips and names): `CurrentInv` says of each group that a run has done
and that did not fail that nothing in it is behind, and of the group in hand that
what is behind is still pending. A blob that hashing rejects makes its group fail,
and a prune takes only what the desktop does not have. It has a second form that
assumes nothing of the desktop's past (`OkMeansCurrentLater`): a command that is
over leaves nothing for the next one to use (`IdleInv`), so from any moment between
commands, and for as long as the desktop changes only between them (`Quiet`), the
promise holds, whatever was published, deleted or lost under earlier syncs. The
first form follows from it, because on a still desktop every step is quiet
(`StillIsQuiet`).

**TrainingWatchProofs.** One invariant for all its theorems: counters below their
limits before an abort (`Counting`); a container has the name of what `run.sh` is
doing (`OwnContainer`); serving is down only between `lab down` and the trap
(`FreedForTraining`); and a killed container means that the run fails or has not
noticed yet (`KilledFails`). The last is why SIGTERM may replace the report without
harm: the exit code still ends the ladder.

**ResearchDataProofs.** `ObservationShowsFlag` is the arithmetic of the window: the
first line that has the flag in its text is in what a record shows, whatever the
page's length and the line's place. (The line that defines the flag need not be;
that is `QuotesAreShown`.) `AnswersAreShown` needs more than itself: composing two
records gives credit for the asked options of both, so the invariant (`Grounded`)
says of harvested and generated records that they credit exactly what is asked and
of trap refusals that they credit nothing; the web's records are excepted. One lemma
says that what the generators build is grounded, one that augmentation keeps it, and
the step lemma has one case per program. `GroundingGateHolds` reads the audit's gate
off the same invariant. `EvalIsHeldOut` rests on `HeldOutInv`: whatever training was
on, if it was made of the dataset as it is now, has no record about a tool or an
option that the dataset itself does not ask about (`Derived`), so questions held out
of the dataset are held out of its augmented copy too.

**ResearchSessionProofs.** `RunsOnlyDocs`: the calls of an item are among what
`execute` can return (`CallsReturned`), what it returns as executed passed the
allowlist, and what the allowlist passes is a documentation command
(`AllowedIsDocs`), by its four forms. `NoCreditWithoutAnswer`: every way of ending
without an answer leaves no text (`NothingFound`), and in no text nothing is found.
`RescoreKeepsScore`: the score of a live item is a function of its saved record
(`LiveScore`).

**TrainingJobProofs.** `OkIsRecent` is not inductive: `AgeIsOfThread` bounds the age
by where the thread is and how long it has been there; it is proved of the exporter
alone and again beside the training runs. `ServableWhenReported` rests on `JInv`:
each stage of a run knows whose weights and whose report are in the directory
(`DirectoryOfPhase`), so that no run that dies between save and report leaves an
earlier report beside its unreadable weights.

`TrainedIsEmitted` follows from `EncodeTrainsEmitted`, which is about `encode` alone
and covers every conversation, not only the dataset's shapes. `labels` is a
recursive function that reads the record forwards and is defined backwards, so the
proof has three parts. First, a scan exists and `labels` is it (`LabelsScan`),
because each step depends only on positions after it (`ScanLooksAhead`). Second,
`FlattenSeq` lays the turns out one after another, and what is emitted of them at
the same places (`Rendered`). Third, by induction from the end (`ScanTrainsSaid`):
at a place where a turn starts, or inside one that the model does not speak, what
the scan labels from there on is what the model says from there on; `SpanOfTurn` is
the one turn, cut or whole. The exception of a record cut inside an empty think
block is used exactly once, there. The proof could not be completed for the scan as
it was modelled first: a header so near the end that the slice after it is shorter
than the block was compared past the end of the record. Python's slice is just
shorter, and so unequal; `Start` says so now.

**CardOwnershipProofs.** `TypeOK` is inductive by itself and holds for any terminals
and faults. `ServingAlone` assumes `Undisturbed` (one terminal, no `reload`, no
kill, no cable that drops) and nothing of the engines; `OneHolder` assumes `Prompt`
too: none is still starting when `agent_up` gives up on it. With any one of these
lifted in `cards_sequence.cfg`, TLC finds a card with two holders. Their invariant
says what a script may rely on between a check and the step that uses it: `lab up`
starts llama-swap only on a card that is not taken; while `agent_up` is past its
stop, its node has neither llama-swap nor ray; while `pool_up` is past a node's stop
and check, that node has no llama-swap and, if `Prompt`, no agent; where llama-swap
is remembered as active, nothing has the card, so it may come back; if `Prompt`, an
agent that is still starting is one that the script waits for (`Waiting`), which is
why `pool_fits` cannot overlook it; and a node without power runs nothing. Most
steps give no card to anyone (`Shrinks`), and one lemma carries the cards' part of
the invariant over all of these. `DownFreesCard` assumes `OneSession` only, and
holds with kills, power cuts, a failing cable and `reload`: what `lab down` has
stopped can come back only through llama-swap, which it stopped first, or through
another command. `RefusalsRestoreServing` assumes `Uninterrupted` (one terminal, a
cable that holds, no kill; power cuts and `reload` may come between commands):
`Recalls` says that up to the refusal a llama-swap that was found active is active
still or is remembered as active, and of each line of a script on which nodes it can
be remembered at all. `ImplementsCard` is the refinement, under `Undisturbed` and
`Prompt`: the holder that the mapping reads off units and containers changes at most
on one card in a step, from or to "free", and a card goes to the pool only while the
other has no other holder. A step that gives nothing to anyone releases at most one
card (`Released`), one that gives acquires a card which the invariant of `OneHolder`
says is free (`Acquired`).

**AgentBenchProofs.** `TypeOK` is for any number of runners, and so are
`ComparedAreComplete`, which follows from it (a task that is kept has as many rows
as were asked of each arm compared), and `NothingIsSkipped`: of every place of the
plan that a runner has passed there is a row (`Covered`), because the runs it passes
over are those it read in `results.jsonl`, where rows are only ever added, and of
those it takes it writes the row itself before it moves on. The other three assume
`Alone`, one runner: `WORK`, the agent user and `results.jsonl` have no lock, and
with two runners TLC finds each of the three broken in the instance of
`agent_bench.cfg`. `GradedAlone` and `AnswerIsOwn` share an invariant over the lines
of `cmd_run`: from `fresh_work` to the grade, `WORK` is this run's copy; after the
sweep nobody is alive; and an answer in the directory is this attempt's once it is
read. `CountedOnce` needs what the runner knows of `results.jsonl` (`Remembered`):
the keys it found there when it started, and since then only the plan up to where it
is. It also needs that the plan has each run once (`PlanFacts`), which is a fact
about rotating and flattening lists of names, and `EarlierOnce`, that the file it
was given did not count a run twice already.

**ComparisonProofs.** `FindingsStand`: once a context is dead, whatever follows is
of a dead context or a skip (`StaysDead`, by one more result), and what is of a dead
context is a failure with a kill's message (`ResultFields`). So behind a kill
without skips everything is bad, and the warning starts at it or before
(`CascadeStartsByTheKill`); and a file with fewer bad results than the threshold has
none (`NoWarning`), forks or not. `LatestIsTheVerdicts`: stamps do not fall along
the ids (`StampsRise`), and a diff that has its verdict has written the last run of
each architecture (`OwnRuns`); with equal stamps it is the order of the ids that
decides. `ConclusiveIsEarned`: what a diff holds of each side is what `Measure` made
of its window (`SidesInv`), and the direction of a verdict is the one of the means,
compared as products of sums. That needs sums to be what they should be: `FoldSeq`
goes through a recursive function over subsets of the positions, of which
`SumExists`, `SumTyped`, `SumFlat` and `SumsAddUp` say that it is defined, whole,
and what it is of equal readings and of squares.

`PIsOfSwaps` holds of any two runs, without an assumption. `mcnemar_exact` doubles a
sum of binomials and cuts it off where the tails meet; the promise counts ways to
swap, of which those of the discordant pairs alone matter. So a binomial, which the
library makes of factorials, is shown to be the number of parts of that size
(Pascal's rule, by one element more), the power of two to be the number of all
parts, and the sum to be the number of parts up to a size (`TailCounts`). A swap
makes a difference as large as the one seen exactly where few of the discordant
pairs are B's or all but few (`AsLargeByGain`); the one tail is as large as the
other by complement, and where they meet they are everything (`BothTailsCounted`).

**Getting on.** A liveness property under fairness is beyond TLAPS, but the half of
it that speaks of single steps is not. Four theorems give a natural number that each
step of a component's own lowers and no step of anyone else raises: `SyncGetsOn`
(any finite set of paths, which is a hypothesis; a group to do weighs more than any
transfer), `LadderGetsOn` (rungs, then the lines of `run.sh`), `PassGetsOn` (runs of
the plan, then the lines and calls of one run; also a self-test) and `ItemGetsOn`
(turns, then tries). So no dropped connection, quarantined blob, publishing desktop,
breach, failed server or answer of a model makes one of these loops go round for
ever, for any value of the constants. That a next step is always possible, and is
taken, is what TLC checks, in `SyncEnds`, `LadderEnds`, `AllMeasured` and
`EveryItemScored`. The two others have no such number: the scripts of `CommandsEnd`
are straight lines, and `ExporterRecovers` is about
a thread that never ends.

**Induction.** The library's induction theorems take an operator, which no backend
here can instantiate. Where a recursive function has to be followed (a flattened
list, a sum, the scan, a binomial), the set of numbers at which a fact fails is
shown to have no smallest element (`SmallestOf`, and from it `UpTo` and `DownTo`,
which speak of sets only).

**Only model-checked, only proved.** Every safety and action property that a passing
run checks is stated by a theorem. What stays with TLC are the liveness properties
(`SyncEnds`, `CommandsEnd`, `LadderEnds`, `AllMeasured`, `EveryItemScored`,
`ExporterRecovers`): TLAPS proves neither ENABLED nor liveness from fairness, and
what is proved towards them is above. The types of `CardOwnership` and
`ServingAlone` are proved, but not checked by a run.

## 6. Not modelled

The content of static checks, the formats of logs and reports, LiteLLM and the
monitoring stack in the card commands; temporary files and disk arithmetic in the
mirror; `--max-hours` and `--allow-throttle` of the watchdog, which the ladder never
passes; a kill of `run.sh` itself, and the moment between its `lab down` (99) and
its trap (100); `overnight.sh`'s loop; what a GPU computes. Of the evaluation: the
regular expressions (an answer is what they find), the splits `rocky`, `two_flag`,
`fix_cmd` and `general`, live items about jobs, summaries and the selftest. Of the
data: wording, shuffles, and the audit's gates on roles, trap wording, commands and
amounts. Of the exporter: `system_metrics` (each read has its own `except`) and the
HTTP server. Of `sm-differ`: the t distribution, infinities, the parsing of probes,
and printing. `bench.py` and the other timing scripts, `bin/check.py`,
`ramp_report.py` and the architecture probe keep no state. `PROJECT.json` gives each
component's status and reason.

Some error paths and circumstances are left out of parts that are modelled.
`AllMeasured` has no run whose `check.sh` reaches the 300 s of `grade()`, which ends
the runner each time. `EveryItemScored` has no `ValueError` of the YAML reader and
no Prometheus answer without a result (`research_eval.py:971`, 1045).
`LatestIsTheVerdicts` takes one diff at a time and a clock that does not step back.
`ConclusiveIsEarned` says nothing of the gate that refuses a baseline
indistinguishable from zero (`verdict.rs:306`), which the model has.

## 7. Plan

To extend the model:

1. `Jobs`: `overnight.sh` and the detached training runs with their traps, composed
   with `Card`'s holders: whether serving is afterwards what it was before.
2. `FileTransfer`: rsync's temporary and partial files and the sweep, refined to one
   `CopyBlob` of the mirror.
3. `FrontDoor`: routing and fallback between the two nodes; the NIC repair.
4. Two runners in AgentBench, once the code has a lock to model.

To prove more: the three properties of AgentBench that need `Alone` for any number
of runners, with the lock of (4); and a refinement of `FileTransfer` (2).
