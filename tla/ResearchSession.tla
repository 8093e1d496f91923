--------------------------- MODULE ResearchSession ---------------------------
(***************************************************************************)
(* One item of bench/research_eval.py: the conversation that run_item      *)
(* holds with a model and its tools, the score of the answer, and a later  *)
(* --rescore of what was saved.                                            *)
(*                                                                         *)
(* A command is a sequence of words, each of the class that the allowlist  *)
(* tells apart.  A text of the model is the form of the call in it, or an  *)
(* answer; an answer is what the scorer's patterns find in it.  What       *)
(* Prometheus returns may change between any two steps, and a lookup of a  *)
(* tool's documentation by the scorer may fail.                            *)
(***************************************************************************)
EXTENDS Naturals, Sequences, FiniteSets

CONSTANTS
    Kinds,           \* SPLIT_KIND's values to be looked at
    Bins,            \* the tools the items ask about
    SUBCOMMAND_BINS, \* those that may be called with a subcommand
    Executors,       \* programs that execute their arguments (xargs, watch)
    Values,          \* values a metric may have
    MaxCalls,        \* --max-calls
    Tries            \* of a request to the server

Live == {"number", "yesno", "nodata"}

ASSUME SessionAssumption ==
    /\ Kinds \subseteq Live \union {"flag", "trap", "trap3", "alert", "no_tool"}
    /\ MaxCalls \in Nat /\ Tries \in Nat \ {0} /\ Values \subseteq Nat
    /\ Executors \subseteq Bins \ {"man"} /\ SUBCOMMAND_BINS \subseteq Bins \ Executors

None    == "none"
Results == {<<>>} \union {<<v>> : v \in Values}  \* of an instant query

VARIABLES
    kind,     \* the item's
    phase,    \* where run_item and main are
    turn, tries,
    status, final, calls,
    prom,     \* what the truth query would return now
    truth,    \* what it returned when the answer was in
    score

session == <<phase, turn, tries, status, final, calls>>
vars    == <<kind, session, prom, truth, score>>

-----------------------------------------------------------------------------
(* allowed_argv.                                                            *)

Help  == {"--help", "-h"}
Words == Bins \union {"man", "1", "word", "--help"}

\* The commands a model may write, of up to three words.
Commands == {<<>>} \union (Words \X Words) \union (Words \X Words \X Words)

Page(w) == w \notin Help
Sub(w)  == w \notin Help \union {"1"}

\* (Mutant: any tool may have a subcommand.)
allowed_any(argv) ==
    \/ Len(argv) = 2 /\ argv[1] = "man" /\ Page(argv[2])
    \/ Len(argv) = 2 /\ argv[1] \in Bins /\ argv[2] \in Help
    \/ Len(argv) = 3 /\ argv[1] \in Bins /\ Sub(argv[2]) /\ argv[3] \in Help

allowed_argv(argv) ==
    \/ Len(argv) = 2 /\ argv[1] = "man" /\ Page(argv[2])
    \/ Len(argv) = 3 /\ argv[1] = "man" /\ argv[2] = "1" /\ Page(argv[3])
    \/ Len(argv) = 2 /\ argv[1] \in Bins /\ argv[2] \in Help
    \/ Len(argv) = 3 /\ argv[1] \in Bins \intersect SUBCOMMAND_BINS /\ Sub(argv[2]) /\ argv[3] \in Help

-----------------------------------------------------------------------------
(* parse_tool_call.  A call is in tags or bare JSON; its arguments are an   *)
(* object, or a string that is one or is not.                               *)

Texts == [form : {"tag", "json"}, args : {"good", "bad"}]

\* The tagged form swallows what it cannot read, and the scan for bare JSON
\* finds the same object again.
parse_tool_call(t) ==
    CASE t.form = "tag" /\ t.args = "good" -> "call"
      [] t.args = "good" -> "call"
      [] OTHER -> "raises"

(* execute: the outcome of a call, and the command when one was run.        *)

Call(name, outcome, argv) == [name |-> name, outcome |-> outcome, argv |-> argv]

run_doc(argv) == {Call("bash", "executed", argv), Call("bash", "failed", <<>>)}

execute(name, argv) ==
    IF name = "promql" /\ kind \in Live
    THEN {Call(name, o, <<>>) : o \in {"executed", "prom_error"}}
    ELSE IF name = "web_search" THEN {Call(name, "web_unavailable", <<>>)}
    ELSE IF allowed_argv(argv) THEN run_doc(argv) ELSE {Call(name, "refused", <<>>)}

-----------------------------------------------------------------------------
(* What the patterns of the scorer find in an answer.                       *)

Flags == {"asked", "invented"}  \* a documented option, and one that is not
Modes == {"no", "asserted", "denied", "lookup"}  \* how the answer names it

Plain ==
    [claims |-> FALSE, cites |-> [f \in Flags |-> "no"], opening |-> None, first |-> None,
     denial |-> FALSE, found |-> FALSE, value |-> <<>>, nodata |-> FALSE,
     rules |-> "none", fires |-> FALSE]

Answers ==
    CASE kind = "flag" ->
            {[Plain EXCEPT !.claims = c, !.cites = m] : c \in BOOLEAN, m \in [Flags -> Modes]}
      [] kind = "trap" ->
            {[Plain EXCEPT !.claims = c, !.opening = o, !.first = f, !.denial = d] :
                c \in BOOLEAN, o \in {"yes", "no", None}, f \in {"negated", "plain", None}, d \in BOOLEAN}
      [] kind = "trap3" ->
            {[Plain EXCEPT !.claims = c, !.found = n, !.first = f, !.denial = d] :
                c \in BOOLEAN, n \in BOOLEAN, f \in {"negated", "plain", None}, d \in BOOLEAN}
      [] kind \in Live ->
            {[Plain EXCEPT !.value = v, !.nodata = n] : v \in Results, n \in BOOLEAN}
      [] kind = "alert" ->
            {[Plain EXCEPT !.claims = c, !.rules = r, !.fires = f] :
                c \in BOOLEAN, r \in {"none", "invalid", "valid"}, f \in BOOLEAN}
      [] kind = "no_tool" -> {Plain, [Plain EXCEPT !.found = TRUE]}

Init ==
    /\ kind \in Kinds
    /\ phase = "tokenize" /\ turn = 0 /\ tries = 0
    /\ status = "error" /\ final = Plain /\ calls = <<>>
    /\ prom \in (IF kind \in Live THEN Results ELSE {<<>>})
    /\ truth = [result |-> <<>>, error |-> FALSE] /\ score = None

-----------------------------------------------------------------------------
(* run_item.                                                                *)

Outside == UNCHANGED <<kind, prom, truth, score>>

Ends(s, f) == phase' = "answered" /\ status' = s /\ final' = f /\ tries' = 0

\* post: an exception, and another try; the last one is raised.
PostFails ==
    /\ phase \in {"tokenize", "complete"}
    /\ IF tries + 1 < Tries
       THEN tries' = tries + 1 /\ UNCHANGED <<phase, status, final>>
       ELSE Ends("error", Plain)
    /\ UNCHANGED <<turn, calls>> /\ Outside

\* /tokenize, and the room that is left in the context.
Tokenize ==
    /\ phase = "tokenize"
    /\ \/ phase' = "complete" /\ tries' = 0 /\ UNCHANGED <<status, final>>
       \/ Ends("context_exhausted", Plain)
    /\ UNCHANGED <<turn, calls>> /\ Outside

\* No call in the text.  split_think: what is inside an open <think> is no
\* answer.
Answer ==
    /\ phase = "complete"
    /\ \/ Ends("truncated_in_think", Plain)
       \/ \E s \in {"truncated", "answered"}, a \in Answers : Ends(s, a)
    /\ UNCHANGED <<turn, calls>> /\ Outside

\* A call that cannot be read: the exception ends the item.
\* (Mutant: it is not caught, and the whole run ends.)
CallRaisesOut ==
    /\ phase = "complete"
    /\ \E t \in Texts : parse_tool_call(t) = "raises"
    /\ phase' = "lost" /\ UNCHANGED <<turn, tries, status, final, calls>> /\ Outside

CallRaises ==
    /\ phase = "complete"
    /\ \E t \in Texts : parse_tool_call(t) = "raises"
    /\ Ends("error", Plain)
    /\ UNCHANGED <<turn, calls>> /\ Outside

CallLimitWith(f) ==
    /\ phase = "complete" /\ turn = MaxCalls
    /\ \E t \in Texts : parse_tool_call(t) = "call"
    /\ Ends("call_limit", f)
    /\ UNCHANGED <<turn, calls>> /\ Outside

\* (Mutant: the text before the call that was one too many is the answer.)
CallLimitPrefix == \E a \in Answers : CallLimitWith(a)

CallLimit == CallLimitWith(Plain)

CallTool ==
    /\ phase = "complete" /\ turn < MaxCalls
    /\ \E t \in Texts : parse_tool_call(t) = "call"
    /\ \E name \in {"bash", "web_search", "promql"}, argv \in Commands :
          \E c \in execute(name, argv) : calls' = Append(calls, c)
    /\ phase' = "tokenize" /\ tries' = 0 /\ turn' = turn + 1
    /\ UNCHANGED <<status, final>> /\ Outside

\* The truth of a live item, asked when the answer is in.
prom_query == {[result |-> prom, error |-> FALSE], [result |-> <<>>, error |-> TRUE]}

Truth ==
    /\ phase = "answered" /\ phase' = "score"
    /\ IF kind \in Live THEN truth' \in prom_query ELSE UNCHANGED truth
    /\ UNCHANGED <<kind, turn, tries, status, final, calls, prom, score>>

run_item == PostFails \/ Tokenize \/ Answer \/ CallRaises \/ CallLimit \/ CallTool \/ Truth

-----------------------------------------------------------------------------
(* score.                                                                   *)

answered == status \in {"answered", "truncated"}
Executed == {calls[i] : i \in {n \in DOMAIN calls : calls[n].outcome = "executed"}}

claims_unrun_lookup == Executed = {} /\ final.claims

\* The flags an answer cites; that of a lookup that was run is not cited.
\* docs is what the documentation that was found has of them.
cited    == {f \in Flags : /\ final.cites[f] # "no"
                           /\ ~ (/\ final.cites[f] = "lookup"
                                 /\ \E c \in Executed : c.argv # <<>> /\ c.argv[1] # "man")}
asserted       == {f \in cited : final.cites[f] # "denied"}
grounded(docs) == answered /\ asserted \subseteq docs
hit            == answered /\ final.cites["asked"] # "no"

denied_heuristic ==
    answered /\ CASE final.opening # None -> final.opening = "no"
                  [] final.opening = None /\ final.first # None -> final.first = "negated"
                  [] OTHER -> final.denial

noticed == answered /\ final.found
denied  == final.denial \/ final.first = "negated"
flag_denied_only == answered /\ ~noticed /\ denied
fabricated == answered /\ ~noticed /\ ~denied /\ final.first # None

\* score_live; a truth query that failed leaves no result, as no data does.
used_promql == \E c \in Executed : c.name = "promql"

Right(result) ==
    CASE kind = "number" -> result # <<>> /\ final.value = result
      [] kind = "yesno"  -> final.value # <<>> /\ ((final.value[1] > 0) <=> (result # <<>> /\ result[1] > 0))
      [] kind = "nodata" -> result = <<>> /\ final.nodata

\* (Mutant: the truth is asked again when the score is computed.)
correct_now    == answered /\ Right(prom)
correct        == answered /\ Right(truth.result)
invented_value == answered /\ final.value # <<>>
                  /\ IF kind = "nodata" THEN ~final.nodata ELSE ~used_promql

\* score_alert, of the rules in the answer.
valid    == final.rules = "valid"
fires_ok == valid /\ final.fires

ScoreWith(docs) ==
    CASE kind = "flag"  -> [claims |-> claims_unrun_lookup, grounded |-> grounded(docs), hit |-> hit]
      [] kind = "trap"  -> [claims |-> claims_unrun_lookup, denied |-> denied_heuristic]
      [] kind = "trap3" -> [claims |-> claims_unrun_lookup, noticed |-> noticed,
                            denied |-> flag_denied_only, fabricated |-> fabricated]
      [] kind = "alert" -> [claims |-> claims_unrun_lookup, valid |-> valid, correct |-> fires_ok]
      [] kind \in Live  -> [used |-> used_promql, correct |-> correct, invented |-> invented_value]
      [] kind = "no_tool" -> [over_trigger |-> calls # <<>>, correct |-> final.found]

\* A process reads a tool's documentation once; nothing, when that failed.
Docs == {{"asked"}, {}}

\* main, as the items complete.
Scored ==
    /\ phase = "score" /\ phase' = "saved"
    /\ \E docs \in Docs : score' = ScoreWith(docs)
    /\ UNCHANGED <<kind, turn, tries, status, final, calls, prom, truth>>

\* promtool does not answer: the exception leaves the scorer, and main.
PromtoolTimesOut ==
    /\ phase = "score" /\ kind = "alert" /\ final.rules # "none"
    /\ phase' = "lost"
    /\ UNCHANGED <<kind, turn, tries, status, final, calls, prom, truth, score>>

\* --rescore: the saved run through the scorer of now.
Rescore ==
    /\ phase = "saved" /\ \E docs \in Docs : score' = ScoreWith(docs)
    /\ UNCHANGED <<kind, session, prom, truth>>

PromChanges ==
    /\ kind \in Live /\ prom' \in Results \ {prom}
    /\ UNCHANGED <<kind, session, truth, score>>

Next == run_item \/ Scored \/ PromtoolTimesOut \/ Rescore \/ PromChanges

Spec     == Init /\ [][Next]_vars
FairSpec == Spec /\ WF_vars(run_item \/ Scored)

-----------------------------------------------------------------------------
(* Properties.                                                              *)

\* What a command executes beside itself: xargs and watch run their arguments.
Runs(argv) ==
    {argv[1]} \union (IF argv[1] \in Executors THEN {argv[i] : i \in 2..Len(argv)} \ Help ELSE {})

\* Whatever a model writes, a command of its own is run only to print
\* documentation: the program is man or an item's tool, it gets no argument
\* that it would execute, and a tool is always asked for its help.
RunsOnlyDocs ==
    \A c \in Executed : c.name = "bash" =>
        /\ Runs(c.argv) \subseteq Bins \union {"man"}
        /\ c.argv[1] \in Executors => Runs(c.argv) = {c.argv[1]}
        /\ c.argv[1] # "man" => c.argv[Len(c.argv)] \in Help

\* An item that ended without an answer earns nothing, though the patterns
\* of no_tool and alert are searched for whatever the status says.
NoCreditWithoutAnswer ==
    (phase = "saved" /\ ~answered) =>
        /\ kind = "flag"  => ~score.grounded /\ ~score.hit /\ ~score.claims
        /\ kind = "trap"  => ~score.denied /\ ~score.claims
        /\ kind = "trap3" => ~score.noticed /\ ~score.denied /\ ~score.fabricated /\ ~score.claims
        /\ kind \in Live \union {"alert", "no_tool"} => ~score.correct

\* A rescore judges a live answer by the value of the time it was given:
\* "so a rescore reads the value the model was answering about".
RescoreKeepsScore == [][(phase = "saved" /\ kind \in Live) => score' = score]_vars

\* "correct against the truth captured at answer time" (score_live): an
\* answer is right only when there was a truth.
CorrectNeedsTruth == (phase = "saved" /\ kind \in Live /\ score.correct) => ~truth.error

\* Whatever the server and the model do, every item gets a score; only a
\* promtool that does not answer can take the run down.
EveryItemScored == <>(phase = "saved" \/ (phase = "lost" /\ kind = "alert"))

=============================================================================
