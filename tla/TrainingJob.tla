---------------------------- MODULE TrainingJob -----------------------------
(***************************************************************************)
(* One Phase 2b run after another into one adapter directory, as           *)
(* training/run.sh calls them: preflight.py before serving stops, qlora.py *)
(* from its dataset to its report, verify.py; beside the exporter that     *)
(* watches the card through the same nvidia-smi.                           *)
(***************************************************************************)
EXTENDS GpuExporter, SequencesExt

CONSTANTS
    MaxRuns,  \* of the script: a bound
    MaxLens,  \* the values of --max-len, in tokens of the model below
    Technical \* how many of PROBES expect a tool

ASSUME LengthAssumption == MaxLens \subseteq Nat \ {0}

VARIABLES
    wrong,    \* what is wrong with the machine, the libraries, the data or the options
    changed,  \* what became so after the preflight
    phase,    \* where the run is
    runs,     \* how many were started
    serving,  \* whether the GPU half of the serving plane is up
    why,      \* what ended the last run once serving had stopped
    enc,      \* a record as encoded, while the run encodes
    sampled,  \* whether GpuMonitor has a sample
    adapter,  \* the run its weights are of, and whether the laptop can read them
    report,   \* the run train-report.json is of, and its temperature verdict
    verified  \* the run verify-report.json is of, and its verdict

job  == <<runs, serving, why, enc, sampled, adapter, report, verified>>
vars == <<wrong, changed, phase, job, smi, exporter>>

NoRecord == [ids |-> <<>>, emitted |-> <<>>, labels |-> {}, cut |-> FALSE]

Init ==
    /\ wrong = {} /\ changed = {} /\ phase = "idle" /\ runs = 0
    /\ serving = TRUE /\ why = "none" /\ enc = NoRecord /\ sampled = FALSE
    /\ adapter = [run |-> 0, readable |-> TRUE]
    /\ report = [run |-> 0, clear |-> FALSE] /\ verified = [run |-> 0, proven |-> FALSE]
    /\ ExporterInit

-----------------------------------------------------------------------------
(* encode: the tokens of a record, and the ones a loss is computed on.      *)

Header == "assistant"  im_end == "end"  EmptyThink == <<"think", "/think">>

\* What the template renders of a message, and after it what the model emits
\* of that at inference: all that follows the prompt, which has the header, and
\* with thinking off the empty block.
Turn(message, off) ==
    CASE message = "call"  -> <<Header>> \o (IF off THEN EmptyThink ELSE <<>>) \o <<"call", im_end>>
      [] message = "final" -> <<Header>> \o EmptyThink \o <<"answer", im_end>>
      [] OTHER             -> <<"user", message, im_end>>

Emits(message, off) ==
    LET turn == Turn(message, off) IN
    [k \in DOMAIN turn |->
        /\ message \in {"call", "final"} /\ k > 1
        /\ ~(off /\ turn[k] \in ToSet(EmptyThink))]

\* Where the trained span of a header at i starts, and where it ends.
\* (Mutant: a record without thinking trains on the block of its prompt too.)
StartAtHeader(ids, i, off) == i + 1
Start(ids, i, off) ==
    IF off /\ i + 2 <= Len(ids) /\ SubSeq(ids, i + 1, i + 2) = EmptyThink THEN i + 3 ELSE i + 1

End(ids, start) ==
    LET ends == {j \in start..Len(ids) : ids[j] = im_end} IN
    IF ends = {} THEN Len(ids) ELSE Min(ends)

labels(ids, off) ==
    LET trained[i \in 1..Len(ids) + 1] ==
            IF i > Len(ids) THEN {}
            ELSE IF ids[i] # Header THEN trained[i + 1]
            ELSE LET start == Start(ids, i, off)  end == End(ids, start) IN
                 (start..end) \cup trained[end + 1]
    IN trained[1]

encode(messages, off, max_len) ==
    LET text == FlattenSeq([k \in DOMAIN messages |-> Turn(messages[k], off)])
        said == FlattenSeq([k \in DOMAIN messages |-> Emits(messages[k], off)])
        ids  == SubSeq(text, 1, IF max_len < Len(text) THEN max_len ELSE Len(text))
    IN [ids |-> ids, emitted |-> said, labels |-> labels(ids, off),
        cut |-> off /\ Len(ids) < Len(text) /\ ids[Len(ids)] = EmptyThink[1]]

\* The shapes of the dataset's records.
Records == {<<"user", "call", "tool", "final">>, <<"user", "final">>,
            <<"user", "final", "user", "call", "tool", "final">>}

-----------------------------------------------------------------------------
(* What can be wrong with a run, where in qlora.py and verify.py it bites,   *)
(* and what of it preflight.py looks at.                                    *)
(*   versions, device, tokenizer   imports, CUDA, the chat template         *)
(*   dataset, record    no records; a record that the template rejects      *)
(*   options            a --dataset or a --model of the run's own           *)
(*   weights            files that are not in the cache                     *)
(*   quantize           BitsAndBytesConfig, from_pretrained, the k-bit step *)
(*   lora, targets      LoraConfig; the modules get_peft_model is to find   *)
(*   args, trainer      TrainingArguments; Trainer                          *)
(*   memory, disk       which may last or give out, at more than one place  *)

Bites == [encode |-> {"versions", "device", "tokenizer", "dataset", "record", "options"},
          load   |-> {"weights", "quantize", "memory", "lora", "targets", "args", "trainer"},
          train  |-> {"memory"},
          save   |-> {"disk"}, chmod |-> {"disk"}, report |-> {"disk"},
          verify |-> {"tokenizer", "weights", "quantize", "memory", "disk"}]
MayLast == {"memory", "disk"}

\* It imports, makes a TrainingArguments and a LoraConfig, renders one message of
\* a user, builds the default dataset and looks for the files of the weights.
Checked == {"versions", "device", "args", "lora", "tokenizer", "dataset", "weights"}
FAILS == wrong \cap Checked

StartRun(reasons) ==
    /\ phase = "idle" /\ runs < MaxRuns
    /\ phase' = "preflight" /\ runs' = runs + 1 /\ wrong' = reasons /\ changed' = {}
    /\ why' = "none" /\ UNCHANGED <<serving, enc, sampled, adapter, report, verified>>

Reasons == UNION {Bites[p] : p \in DOMAIN Bites}

Preflight ==
    /\ phase = "preflight" /\ phase' = IF FAILS = {} THEN "free" ELSE "idle"
    /\ UNCHANGED <<wrong, changed, job>>

\* lab down --gpu-only || true: the run goes on when it fails.
Free(down) ==
    /\ phase = "free" /\ phase' = "encode" /\ serving' = (serving /\ ~down)
    /\ UNCHANGED <<wrong, changed, runs, why, enc, sampled, adapter, report, verified>>

\* The image is rebuilt, the cache pruned, the dataset rewritten meanwhile.
Changes(reason) ==
    /\ phase \in {"free"} \cup DOMAIN Bites /\ changed = {} /\ reason \notin wrong
    /\ changed' = {reason} /\ wrong' = wrong \cup {reason}
    /\ UNCHANGED <<phase, job>>

-----------------------------------------------------------------------------
(* qlora.py and verify.py.                                                  *)

\* The EXIT trap: lab up || true.
Ends(reason) ==
    /\ phase' = "idle" /\ why' = reason /\ serving' \in {TRUE, serving}
    /\ enc' = NoRecord /\ sampled' = FALSE

Dies ==
    /\ phase \in DOMAIN Bites
    /\ \E reason \in (wrong \cap Bites[phase]) \cup {"killed"} : Ends(reason)
    /\ UNCHANGED <<wrong, changed, runs, adapter, report, verified>>

At(p) == phase = p /\ wrong \cap Bites[p] \subseteq MayLast /\ UNCHANGED <<wrong, changed, runs>>

Encode(messages, off, max_len) ==
    /\ At("encode") /\ phase' = "load" /\ enc' = encode(messages, off, max_len)
    /\ UNCHANGED <<serving, why, sampled, adapter, report, verified>>

Load ==
    /\ At("load") /\ phase' = "train" /\ enc' = NoRecord
    /\ UNCHANGED <<serving, why, sampled, adapter, report, verified>>

\* GpuMonitor: a sample nvidia-smi does not answer, or not with numbers, is skipped.
Monitor ==
    /\ At("train") /\ smi = "ok" /\ ~sampled /\ sampled' = TRUE
    /\ UNCHANGED <<phase, serving, why, enc, adapter, report, verified>>

Train ==
    /\ At("train") /\ phase' = "save"
    /\ UNCHANGED <<serving, why, enc, sampled, adapter, report, verified>>

\* save_pretrained, over the adapter that is there: files of mode 0600.
Save ==
    /\ At("save") /\ phase' = "chmod" /\ adapter' = [run |-> runs, readable |-> FALSE]
    /\ UNCHANGED <<serving, why, enc, sampled, report, verified>>

\* (Mutant: without the walk, as before the laptop could not find an adapter.)
ChmodNothing ==
    /\ At("chmod") /\ phase' = "report"
    /\ UNCHANGED <<serving, why, enc, sampled, adapter, report, verified>>
Chmod ==
    /\ At("chmod") /\ phase' = "report" /\ adapter' = [adapter EXCEPT !.readable = TRUE]
    /\ UNCHANGED <<serving, why, enc, sampled, report, verified>>

\* "clear" unless a peak of 95 C is on record, none at all included.
Report(hot) ==
    /\ At("report") /\ phase' = "verify"
    /\ report' = [run |-> runs, clear |-> ~(sampled /\ hot)]
    /\ UNCHANGED <<serving, why, enc, sampled, adapter, verified>>

\* The verdict counts the technical probes that called any tool at all.
Verdict(called, degenerate) ==
    [run |-> adapter.run, proven |-> 10 * called >= 9 * Technical /\ degenerate = 0]

Verify(called, degenerate) ==
    /\ At("verify") /\ verified' = Verdict(called, degenerate) /\ Ends("none")
    /\ UNCHANGED <<adapter, report>>

\* NO_VERIFY=1, the way a ceiling hunt runs it.
SkipVerify == At("verify") /\ Ends("none") /\ UNCHANGED <<adapter, report, verified>>

\* run.sh --verify: nothing is freed for it, and nothing restored after it.
VerifyOnly(called, degenerate) ==
    /\ phase = "idle" /\ adapter.run > 0 /\ verified' = Verdict(called, degenerate)
    /\ UNCHANGED <<wrong, changed, phase, runs, serving, why, enc, sampled, adapter, report>>

Steps ==
    \/ Preflight \/ Load \/ Monitor \/ Train \/ Save \/ Chmod \/ SkipVerify \/ Dies
    \/ \E down \in BOOLEAN : Free(down)
    \/ \E messages \in Records, off \in BOOLEAN, max_len \in MaxLens :
           Encode(messages, off, max_len)
    \/ \E hot \in BOOLEAN : Report(hot)
    \/ \E called \in 0..Technical, degenerate \in 0..1 : Verify(called, degenerate)

Job ==
    \/ Steps
    \/ \E reason \in Reasons : StartRun({reason})
    \/ \E reason \in {"args", "dataset", "weights"} : Changes(reason)
    \/ StartRun({})
    \/ \E called \in 0..Technical, degenerate \in 0..1 : VerifyOnly(called, degenerate)

Next ==
    \/ Job /\ UNCHANGED <<smi, exporter>>
    \/ ExporterNext /\ UNCHANGED <<wrong, changed, phase, job>>

\* The thread, the clock and a run that was started go on.
Spec ==
    /\ Init /\ [][Next]_vars
    /\ WF_vars(Poll /\ UNCHANGED <<wrong, changed, phase, job>>)
    /\ WF_vars(Tick /\ UNCHANGED <<wrong, changed, phase, job>>)
    /\ WF_vars(Steps /\ UNCHANGED <<smi, exporter>>)

-----------------------------------------------------------------------------
(* Properties.                                                              *)

\* A loss is computed on what the model emits, all of it and nothing else,
\* however many turns a record has, with thinking on or off, and wherever it is
\* truncated; save a cut through an empty think block, which is then trained on.
TrainedIsEmitted ==
    enc.cut \/ enc.labels = {k \in DOMAIN enc.ids : enc.emitted[k]}

\* "Fail fast on API drift": "a version mismatch costs seconds of a healthy lab
\* instead of minutes of a stopped one" (preflight.py 1-12).  What a library no
\* longer takes never ends a run once serving is down, unless it changed since.
Drift == {"versions", "quantize", "lora", "args", "trainer"}
DriftCostsNoServing == why \notin Drift \ changed

\* An adapter whose report is written can be read by the node that serves it,
\* whatever was killed before and however often it was overwritten.
ServableWhenReported == report.run = adapter.run => adapter.readable

\* A verdict in the adapter's directory is about the weights that are in it.
VerdictIsOfAdapter ==
    phase = "idle" /\ verified.run > 0 => verified.run = adapter.run

=============================================================================
