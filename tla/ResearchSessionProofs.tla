----------------------- MODULE ResearchSessionProofs -----------------------
(***************************************************************************)
(* Four promises of bench/research_eval.py, for every set of tools, every  *)
(* limit of calls and every value a metric may have: what a model's        *)
(* commands can run, that an item without an answer earns nothing, that a  *)
(* rescore of a live item gives the score it had, and that each step of an *)
(* item brings it nearer to its score.                                     *)
(***************************************************************************)
EXTENDS ResearchSession, TLAPS

\* What execute may return for a call of this item.
AnyCall == UNION {execute(name, argv) : name \in {"bash", "web_search", "promql"}, argv \in Commands}

\* The record of an item holds what execute returned, and nothing else.
CallsReturned == calls \in Seq(AnyCall)

\* An item that ended without an answer has nothing for the patterns to find.
NothingFound == phase \in {"answered", "score", "saved"} => answered \/ final = Plain

\* The score of a live item that was saved is what the scorer makes of it.
LiveScore == phase = "saved" /\ kind \in Live => score = ScoreWith({})

-----------------------------------------------------------------------------
(* The allowlist.                                                           *)

\* What allowed_argv lets through runs a documentation command and nothing
\* else: xargs and watch get no argument but the one that asks for their help.
LEMMA AllowedIsDocs ==
    ASSUME NEW argv, allowed_argv(argv)
    PROVE  /\ Runs(argv) \subseteq Bins \union {"man"}
           /\ argv[1] \in Executors => Runs(argv) = {argv[1]}
           /\ argv[1] # "man" => argv[Len(argv)] \in Help
<1>1. CASE argv[1] = "man" /\ argv[1] \notin Executors
  BY <1>1 DEF Runs
<1>2. CASE Len(argv) = 2 /\ argv[1] \in Bins /\ argv[2] \in Help
  <2>1. 2..Len(argv) = {2}
    BY <1>2
  <2>2. {argv[i] : i \in 2..Len(argv)} \ Help = {}
    BY <1>2, <2>1
  <2>3. Runs(argv) = {argv[1]}
    BY <2>2 DEF Runs
  <2>. QED
    BY <1>2, <2>3
<1>3. CASE Len(argv) = 3 /\ argv[1] \in Bins \intersect SUBCOMMAND_BINS /\ argv[3] \in Help
  <2>1. argv[1] \notin Executors
    BY <1>3, SessionAssumption DEF SessionAssumption
  <2>. QED
    BY <1>3, <2>1 DEF Runs
<1>4. "man" \notin Executors
  BY SessionAssumption DEF SessionAssumption
<1>. QED
  BY <1>1, <1>2, <1>3, <1>4 DEF allowed_argv

\* execute runs a command of bash only when the allowlist has it.
LEMMA ExecutedIsAllowed ==
    ASSUME NEW c \in AnyCall, c.outcome = "executed", c.name = "bash"
    PROVE  allowed_argv(c.argv)
<1>1. PICK name \in {"bash", "web_search", "promql"}, argv \in Commands : c \in execute(name, argv)
  BY DEF AnyCall
<1>2. c.name # "promql" /\ c.name # "web_search"
  OBVIOUS
<1>3. CASE name = "promql" /\ kind \in Live
  BY <1>1, <1>2, <1>3 DEF execute, Call
<1>4. CASE name = "web_search"
  BY <1>1, <1>2, <1>4 DEF execute, Call
<1>5. CASE ~(name = "promql" /\ kind \in Live) /\ name # "web_search" /\ allowed_argv(argv)
  <2>1. c \in run_doc(argv)
    BY <1>1, <1>5 DEF execute
  <2>2. c.argv = argv
    BY <2>1 DEF run_doc, Call
  <2>. QED
    BY <2>2, <1>5
<1>6. CASE ~(name = "promql" /\ kind \in Live) /\ name # "web_search" /\ ~allowed_argv(argv)
  <2>1. c = Call(name, "refused", <<>>)
    BY <1>1, <1>6 DEF execute
  <2>. QED
    BY <2>1 DEF Call
<1>. QED
  BY <1>3, <1>4, <1>5, <1>6

-----------------------------------------------------------------------------
(* What a model's commands can run.                                         *)

\* The kind of an item is given with it.
LEMMA KindStays == [Next]_vars => kind' = kind
<1>. SUFFICES ASSUME [Next]_vars PROVE kind' = kind
  OBVIOUS
<1>1. CASE run_item
  BY <1>1 DEF run_item, PostFails, Tokenize, Answer, CallRaises, CallLimit, CallLimitWith, CallTool,
              Truth, Outside
<1>2. CASE Scored
  BY <1>2 DEF Scored
<1>3. CASE PromtoolTimesOut
  BY <1>3 DEF PromtoolTimesOut
<1>4. CASE Rescore \/ PromChanges \/ UNCHANGED vars
  BY <1>4 DEF Rescore, PromChanges, vars
<1>. QED
  BY <1>1, <1>2, <1>3, <1>4 DEF Next

LEMMA InitCallsReturned == Init => CallsReturned
  BY DEF Init, CallsReturned

\* Only CallTool adds a call.
LEMMA StepCallsReturned == CallsReturned /\ [Next]_vars => CallsReturned'
<1>. SUFFICES ASSUME CallsReturned, [Next]_vars PROVE CallsReturned'
  OBVIOUS
<1>1. AnyCall' = AnyCall
  BY KindStays DEF AnyCall, execute, Commands, Words, Call, run_doc, allowed_argv
<1>2. CASE CallTool
  <2>1. PICK name \in {"bash", "web_search", "promql"}, argv \in Commands :
          \E c \in execute(name, argv) : calls' = Append(calls, c)
    BY <1>2 DEF CallTool
  <2>2. PICK c \in execute(name, argv) : calls' = Append(calls, c)
    BY <2>1
  <2>3. c \in AnyCall
    BY <2>2 DEF AnyCall
  <2>. QED
    BY <1>1, <2>2, <2>3 DEF CallsReturned
<1>3. CASE UNCHANGED calls
  BY <1>1, <1>3 DEF CallsReturned
<1>4. CallTool \/ UNCHANGED calls
  <2>1. CASE run_item
    BY <2>1 DEF run_item, PostFails, Tokenize, Answer, CallRaises, CallLimit, CallLimitWith, Truth
  <2>2. CASE Scored \/ PromtoolTimesOut
    BY <2>2 DEF Scored, PromtoolTimesOut
  <2>3. CASE Rescore \/ PromChanges \/ UNCHANGED vars
    BY <2>3 DEF Rescore, PromChanges, vars, session
  <2>. QED
    BY <2>1, <2>2, <2>3 DEF Next
<1>. QED
  BY <1>2, <1>3, <1>4

\* Whatever a model writes, the harness runs nothing but a documentation
\* command of an item's tool, and xargs and watch never execute an argument.
THEOREM RunsOnlyDocsHolds == Spec => []RunsOnlyDocs
<1>1. Spec => []CallsReturned
  BY InitCallsReturned, StepCallsReturned, PTL DEF Spec
<1>2. CallsReturned => RunsOnlyDocs
  <2>. SUFFICES ASSUME CallsReturned, NEW c \in Executed, c.name = "bash"
                PROVE  /\ Runs(c.argv) \subseteq Bins \union {"man"}
                       /\ c.argv[1] \in Executors => Runs(c.argv) = {c.argv[1]}
                       /\ c.argv[1] # "man" => c.argv[Len(c.argv)] \in Help
    BY DEF RunsOnlyDocs
  <2>1. c \in AnyCall /\ c.outcome = "executed"
    BY DEF Executed, CallsReturned
  <2>2. allowed_argv(c.argv)
    BY <2>1, ExecutedIsAllowed
  <2>. QED
    BY <2>2, AllowedIsDocs
<1>. QED
  BY <1>1, <1>2, PTL

-----------------------------------------------------------------------------
(* What an item earns.                                                      *)

LEMMA InitNothingFound == Init => NothingFound
  BY DEF Init, NothingFound

\* Every way to end an item without an answer leaves no text, and what a later
\* step scores is what the item ended with.
LEMMA StepNothingFound == NothingFound /\ [Next]_vars => NothingFound'
<1>. SUFFICES ASSUME NothingFound, [Next]_vars PROVE NothingFound'
  OBVIOUS
<1>. USE DEF NothingFound, answered
<1>1. CASE PostFails
  BY <1>1 DEF PostFails, Ends, Plain
<1>2. CASE Tokenize
  BY <1>2 DEF Tokenize, Ends, Plain
<1>3. CASE Answer
  BY <1>3 DEF Answer, Ends
<1>4. CASE CallRaises
  BY <1>4 DEF CallRaises, Ends
<1>5. CASE CallLimit
  BY <1>5 DEF CallLimit, CallLimitWith, Ends
<1>6. CASE CallTool
  BY <1>6 DEF CallTool
<1>7. CASE Truth \/ Scored \/ PromtoolTimesOut
  BY <1>7 DEF Truth, Scored, PromtoolTimesOut
<1>8. CASE Rescore \/ PromChanges \/ UNCHANGED vars
  BY <1>8 DEF Rescore, PromChanges, vars, session
<1>. QED
  BY <1>1, <1>2, <1>3, <1>4, <1>5, <1>6, <1>7, <1>8 DEF Next, run_item

\* The score of an item that has no answer, whichever docs were read.
LEMMA NoAnswerEarnsNothing ==
    ASSUME ~answered, final = Plain, NEW docs, score' = ScoreWith(docs),
           UNCHANGED <<kind, status, final>>
    PROVE  NoCreditWithoutAnswer'
<1>. USE DEF ScoreWith, NoCreditWithoutAnswer, Live
<1>1. ~claims_unrun_lookup /\ ~grounded(docs) /\ ~hit /\ ~denied_heuristic /\ ~noticed
      /\ ~flag_denied_only /\ ~fabricated /\ ~correct /\ ~fires_ok /\ ~final.found
  BY DEF claims_unrun_lookup, grounded, hit, denied_heuristic, noticed, flag_denied_only,
     fabricated,
         correct, fires_ok, valid, Plain
<1>2. CASE kind = "flag"
  BY <1>1, <1>2
<1>3. CASE kind = "trap"
  BY <1>1, <1>3
<1>4. CASE kind = "trap3"
  BY <1>1, <1>4
<1>5. CASE kind = "alert"
  BY <1>1, <1>5
<1>6. CASE kind \in Live
  BY <1>1, <1>6
<1>7. CASE kind = "no_tool"
  BY <1>1, <1>7
<1>. QED
  BY <1>2, <1>3, <1>4, <1>5, <1>6, <1>7

LEMMA StepNoCredit ==
    NothingFound /\ NoCreditWithoutAnswer /\ [Next]_vars => NoCreditWithoutAnswer'
<1>. SUFFICES ASSUME NothingFound, NoCreditWithoutAnswer, [Next]_vars PROVE NoCreditWithoutAnswer'
  OBVIOUS
<1>1. CASE Scored \/ Rescore
  <2>1. PICK docs \in Docs : score' = ScoreWith(docs)
    BY <1>1 DEF Scored, Rescore
  <2>2. UNCHANGED <<kind, status, final>> /\ phase \in {"score", "saved"}
    BY <1>1 DEF Scored, Rescore, session
  <2>3. CASE answered
    BY <2>2, <2>3 DEF NoCreditWithoutAnswer, answered
  <2>4. CASE ~answered
    <3>1. final = Plain
      BY <2>2, <2>4 DEF NothingFound
    <3>. QED
      BY <2>1, <2>2, <2>4, <3>1, NoAnswerEarnsNothing
  <2>. QED
    BY <2>3, <2>4
<1>2. CASE PromChanges \/ UNCHANGED vars
  BY <1>2 DEF PromChanges, vars, session, NoCreditWithoutAnswer, answered
<1>3. CASE run_item \/ PromtoolTimesOut
  <2>1. phase' # "saved"
    BY <1>3
       DEF run_item, PostFails, Tokenize, Answer, CallRaises, CallLimit, CallLimitWith,
           CallTool,
                Truth, PromtoolTimesOut, Ends
  <2>. QED
    BY <2>1 DEF NoCreditWithoutAnswer
<1>. QED
  BY <1>1, <1>2, <1>3 DEF Next

\* An item that the model did not answer, for whatever reason, is in no
\* numerator of the summary, though some patterns are searched for regardless.
THEOREM NoCreditWithoutAnswerHolds == Spec => []NoCreditWithoutAnswer
<1>1. Init => NoCreditWithoutAnswer
  BY DEF Init, NoCreditWithoutAnswer
<1>. QED
  BY <1>1, InitNothingFound, StepNothingFound, StepNoCredit, PTL DEF Spec

-----------------------------------------------------------------------------
(* A rescore.                                                               *)

\* The score of a live item is of its own record: neither the documentation
\* nor what Prometheus returns later has a part in it.
LEMMA LiveScoreIsOfRecord ==
    ASSUME kind \in Live, NEW docs PROVE ScoreWith(docs) = ScoreWith({})
  BY DEF ScoreWith, Live

LEMMA InitLiveScore == Init => LiveScore
  BY DEF Init, LiveScore

LEMMA StepLiveScore == LiveScore /\ [Next]_vars => LiveScore'
<1>. SUFFICES ASSUME LiveScore, [Next]_vars, kind' \in Live, phase' = "saved"
              PROVE  score' = ScoreWith({})'
  BY DEF LiveScore
<1>1. kind' = kind
  BY KindStays
<1>2. CASE Scored \/ Rescore
  <2>1. PICK docs \in Docs : score' = ScoreWith(docs)
    BY <1>2 DEF Scored, Rescore
  <2>2. score' = ScoreWith({})
    BY <1>1, <2>1, LiveScoreIsOfRecord
  <2>3. UNCHANGED <<kind, status, final, calls, truth>>
    BY <1>2 DEF Scored, Rescore, session
  <2>4. ScoreWith({})' = ScoreWith({})
    BY <1>1, <2>3
       DEF ScoreWith, Live, used_promql, correct, invented_value, answered, Executed, Right
  <2>. QED
    BY <2>2, <2>4
<1>3. CASE PromChanges \/ UNCHANGED vars
  <2>1. UNCHANGED <<kind, phase, status, final, calls, truth, score>>
    BY <1>3 DEF PromChanges, vars, session
  <2>2. ScoreWith({})' = ScoreWith({})
    BY <1>1, <2>1
       DEF ScoreWith, Live, used_promql, correct, invented_value, answered, Executed, Right
  <2>. QED
    BY <1>1, <2>1, <2>2 DEF LiveScore
<1>4. CASE run_item \/ PromtoolTimesOut
  BY <1>4 DEF run_item, PostFails, Tokenize, Answer, CallRaises, CallLimit, CallLimitWith, CallTool,
              Truth, PromtoolTimesOut, Ends
<1>. QED
  BY <1>2, <1>3, <1>4 DEF Next

\* "a rescore reads the value the model was answering about": nothing that
\* happens after a live item was saved changes its score.
THEOREM RescoreKeepsScoreHolds == Spec => RescoreKeepsScore
<1>1. LiveScore /\ [Next]_vars => [(phase = "saved" /\ kind \in Live) => score' = score]_vars
  <2>. SUFFICES ASSUME LiveScore, [Next]_vars, phase = "saved", kind \in Live PROVE score' = score
    OBVIOUS
  <2>1. CASE Rescore
    <3>1. PICK docs \in Docs : score' = ScoreWith(docs)
      BY <2>1 DEF Rescore
    <3>. QED
      BY <3>1, LiveScoreIsOfRecord DEF LiveScore
  <2>2. CASE PromChanges \/ PromtoolTimesOut \/ UNCHANGED vars
    BY <2>2 DEF PromChanges, PromtoolTimesOut, vars
  <2>3. CASE run_item \/ Scored
    BY <2>3
       DEF run_item, PostFails, Tokenize, Answer, CallRaises, CallLimit, CallLimitWith,
           CallTool,
                Truth, Scored
  <2>. QED
    BY <2>1, <2>2, <2>3 DEF Next
<1>. QED
  BY <1>1, InitLiveScore, StepLiveScore, PTL DEF Spec, RescoreKeepsScore

-----------------------------------------------------------------------------
(* How far an item is from its end.                                         *)

\* A turn weighs all the tries of its two requests.
TurnsLeft == (MaxCalls - turn) * (2 * Tries)

ItemLeft ==
    CASE phase = "tokenize" -> TurnsLeft + 2 * Tries - tries + 2
      [] phase = "complete" -> TurnsLeft + Tries - tries + 2
      [] phase = "answered" -> 2
      [] phase = "score"    -> 1
      [] OTHER              -> 0

ItemStep == run_item \/ Scored \/ PromtoolTimesOut

ItemGetsOn ==
    [][/\ ItemLeft \in Nat
       /\ IF ItemStep THEN ItemLeft' < ItemLeft ELSE ItemLeft' = ItemLeft]_vars

\* Where an item can be.
ItemType ==
    /\ phase \in {"tokenize", "complete", "answered", "score", "saved", "lost"}
    /\ turn \in 0..MaxCalls
    /\ tries \in 0..Tries - 1

LEMMA InitItemType == Init => ItemType
  BY SessionAssumption DEF Init, ItemType

LEMMA StepItemType == ItemType /\ [Next]_vars => ItemType'
<1>. SUFFICES ASSUME ItemType, [Next]_vars PROVE ItemType'
  OBVIOUS
<1>. USE SessionAssumption DEF ItemType
<1>1. CASE PostFails
  BY <1>1 DEF PostFails, Ends
<1>2. CASE Tokenize
  BY <1>2 DEF Tokenize, Ends
<1>3. CASE Answer
  BY <1>3 DEF Answer, Ends
<1>4. CASE CallRaises
  BY <1>4 DEF CallRaises, Ends
<1>5. CASE CallLimit
  BY <1>5 DEF CallLimit, CallLimitWith, Ends
<1>6. CASE CallTool
  <2>1. turn < MaxCalls /\ turn' = turn + 1 /\ tries' = 0 /\ phase' = "tokenize"
    BY <1>6 DEF CallTool
  <2>. QED
    BY <2>1
<1>7. CASE Truth \/ Scored \/ PromtoolTimesOut
  BY <1>7 DEF Truth, Scored, PromtoolTimesOut
<1>8. CASE Rescore \/ PromChanges \/ UNCHANGED vars
  BY <1>8 DEF Rescore, PromChanges, vars, session
<1>. QED
  BY <1>1, <1>2, <1>3, <1>4, <1>5, <1>6, <1>7, <1>8 DEF Next, run_item

\* What the parts of it are.
LEMMA ItemParts ==
    ASSUME ItemType
    PROVE  /\ Tries \in Nat \ {0} /\ TurnsLeft \in Nat /\ tries \in Nat /\ tries < Tries
           /\ ItemLeft \in Nat
           /\ phase \in {"tokenize", "complete"} => ItemLeft >= 3
<1>1. MaxCalls \in Nat /\ Tries \in Nat \ {0} /\ turn \in 0..MaxCalls /\ tries \in 0..Tries - 1
  BY SessionAssumption DEF ItemType
<1>2. TurnsLeft \in Nat
  <2>1. PICK d \in Nat : d = MaxCalls - turn
    BY <1>1
  <2>2. d * (2 * Tries) \in Nat
    BY <1>1
  <2>. QED
    BY <2>1, <2>2 DEF TurnsLeft
<1>. QED
  BY <1>1, <1>2 DEF ItemLeft

\* Each step of the conversation, of the scorer and of main lowers it.
LEMMA ItemLowers == ItemType /\ ItemType' /\ ItemStep => ItemLeft' < ItemLeft
<1>. SUFFICES ASSUME ItemType, ItemType', ItemStep PROVE ItemLeft' < ItemLeft
  OBVIOUS
<1>1. /\ Tries \in Nat \ {0} /\ TurnsLeft \in Nat /\ tries \in Nat /\ tries < Tries
      /\ ItemLeft \in Nat
      /\ phase \in {"tokenize", "complete"} => ItemLeft >= 3
  BY ItemParts
<1>2. ASSUME NEW s, NEW f, Ends(s, f), phase \in {"tokenize", "complete"} PROVE ItemLeft' < ItemLeft
  <2>1. ItemLeft' = 2
    BY <1>2 DEF Ends, ItemLeft
  <2>. QED
    BY <1>1, <1>2, <2>1
<1>3. CASE PostFails
  <2>1. CASE tries + 1 < Tries
    <3>1. tries' = tries + 1 /\ UNCHANGED <<phase, turn>> /\ phase \in {"tokenize", "complete"}
      BY <1>3, <2>1 DEF PostFails
    <3>2. TurnsLeft' = TurnsLeft
      BY <3>1 DEF TurnsLeft
    <3>. QED
      BY <1>1, <3>1, <3>2 DEF ItemLeft
  <2>2. CASE ~(tries + 1 < Tries)
    BY <1>2, <1>3, <2>2 DEF PostFails
  <2>. QED
    BY <2>1, <2>2
<1>4. CASE Tokenize
  <2>1. CASE phase' = "complete" /\ tries' = 0
    <3>1. phase = "tokenize" /\ UNCHANGED turn
      BY <1>4 DEF Tokenize
    <3>2. TurnsLeft' = TurnsLeft
      BY <3>1 DEF TurnsLeft
    <3>. QED
      BY <1>1, <2>1, <3>1, <3>2 DEF ItemLeft
  <2>2. CASE Ends("context_exhausted", Plain)
    BY <1>2, <1>4, <2>2 DEF Tokenize
  <2>. QED
    BY <1>4, <2>1, <2>2 DEF Tokenize
<1>5. CASE Answer \/ CallRaises \/ CallLimit
  BY <1>2, <1>5 DEF Answer, CallRaises, CallLimit, CallLimitWith
<1>6. CASE CallTool
  <2>1. /\ phase = "complete" /\ phase' = "tokenize" /\ tries' = 0
        /\ turn < MaxCalls /\ turn' = turn + 1
    BY <1>6 DEF CallTool
  <2>2. TurnsLeft = TurnsLeft' + 2 * Tries /\ TurnsLeft' \in Nat
    <3>1. PICK d \in Nat : MaxCalls - turn = d + 1 /\ MaxCalls - (turn + 1) = d
      <4>1. MaxCalls - turn - 1 \in Nat
        BY <2>1, SessionAssumption DEF ItemType
      <4>. QED
        BY <4>1, SessionAssumption DEF ItemType
    <3>2. (d + 1) * (2 * Tries) = d * (2 * Tries) + 2 * Tries /\ d * (2 * Tries) \in Nat
      BY <1>1
    <3>. QED
      BY <2>1, <3>1, <3>2 DEF TurnsLeft
  <2>3. ItemLeft = TurnsLeft + Tries - tries + 2 /\ ItemLeft' = TurnsLeft' + 2 * Tries + 2
    <3>1. ItemLeft = TurnsLeft + Tries - tries + 2
      BY <2>1 DEF ItemLeft
    <3>2. ItemLeft' = TurnsLeft' + 2 * Tries - 0 + 2
      BY <2>1 DEF ItemLeft
    <3>. QED
      BY <1>1, <2>2, <3>1, <3>2
  <2>4. PICK x \in Nat, y \in Nat, t \in Nat, q \in Nat :
          x = TurnsLeft /\ y = TurnsLeft' /\ t = Tries /\ q = tries
    BY <1>1, <2>2
  <2>5. x = y + 2 * t /\ q < t
    BY <1>1, <2>2, <2>4
  <2>6. y + 2 * t + 2 < x + t - q + 2
    BY <2>5
  <2>. QED
    BY <2>3, <2>4, <2>6
<1>7. CASE Truth \/ Scored \/ PromtoolTimesOut
  BY <1>7 DEF Truth, Scored, PromtoolTimesOut, ItemLeft
<1>. QED
  BY <1>3, <1>4, <1>5, <1>6, <1>7 DEF ItemStep, run_item

\* Whatever the model writes and however often the server fails, no item goes on
\* for ever: each request, try, call and score leaves fewer to make, and neither
\* a rescore nor what Prometheus returns adds one (research_eval.py 888-900, 997-1061).
THEOREM ItemGetsOnHolds == Spec => ItemGetsOn
<1>1. ASSUME ItemType, ItemType', Next
      PROVE  /\ ItemLeft \in Nat
             /\ IF ItemStep THEN ItemLeft' < ItemLeft ELSE ItemLeft' = ItemLeft
  <2>1. ItemLeft \in Nat
    BY <1>1, ItemParts
  <2>2. CASE ItemStep
    BY <1>1, <2>1, <2>2, ItemLowers
  <2>3. CASE ~ItemStep
    <3>1. UNCHANGED <<phase, turn, tries>>
      BY <1>1, <2>3 DEF Next, ItemStep, Rescore, PromChanges, session
    <3>2. ItemLeft' = ItemLeft
      BY <3>1 DEF ItemLeft, TurnsLeft
    <3>. QED
      BY <2>1, <2>3, <3>2
  <2>. QED
    BY <2>2, <2>3
<1>2. ItemType /\ ItemType' /\ [Next]_vars
        => [/\ ItemLeft \in Nat
            /\ IF ItemStep THEN ItemLeft' < ItemLeft ELSE ItemLeft' = ItemLeft]_vars
  BY <1>1
<1>. QED
  BY <1>2, InitItemType, StepItemType, PTL DEF Spec, ItemGetsOn

=============================================================================
