------------------------- MODULE ResearchDataProofs -------------------------
(***************************************************************************)
(* For every set of tools, pages and flags: but for the web questions, the *)
(* flags that an answer credits to a lookup are in the output shown with   *)
(* it, in every dataset that the generator writes, the augmenter extends   *)
(* and a training reads; and an exam asks nothing that the adapter made    *)
(* from the same file was trained on.                                      *)
(***************************************************************************)
EXTENDS ResearchData, TLAPS, WellFoundedInduction

-----------------------------------------------------------------------------
(* The inductive invariant.  That answers are shown does not carry over the *)
(* augmenter: a composed answer cites what its two questions asked, and a   *)
(* man page is searched for what was asked, so of a question about options  *)
(* it takes that it cites just those; and the answer to a trap whose lookup *)
(* failed shows nothing, so of a trap it takes that it cites nothing.       *)

Grounded(r) ==
    /\ r.type # "web_research" => r.cites \subseteq r.shown
    /\ r.type = "cli_grounded" => r.cites = r.flags /\ \A g \in r.flags : r.flags = {g}
    /\ r.type = "trap_refusal" => r.cites = {}

AllGrounded(recs) == \A r \in recs : Grounded(r)

IInv ==
    /\ \A d \in corpus : d.lint \in d.rendered
    /\ AllGrounded(v1.recs) /\ AllGrounded(v2.recs) /\ AllGrounded(trained.recs)

-----------------------------------------------------------------------------
(* The operators.                                                           *)

LEMMA FirstExists ==
    ASSUME NEW S \in SUBSET Nat, S # {}
    PROVE  First(S) # {}
<1>1. \E i \in S : \A j \in S : ~(<<j, i>> \in OpToRel(<, Nat))
  BY WFMin, NatLessThanWellFounded, Zenon
<1>2. \E i \in S : \A j \in S : ~(j < i)
  BY <1>1, Zenon DEF OpToRel
<1>3. \E i \in S : \A j \in S : i <= j
  BY <1>2
<1> QED
  BY <1>3 DEF First

\* The window for a flag is what its docstring promises, "guaranteed to contain
\* target_flag": of any page that contains the flag's text it has a line that
\* does, the first, however far on that is.  That need not be the flag's own.
THEOREM ObservationShowsFlag ==
    ASSUME NEW page, NEW flag, Len(page) \in Nat, DOMAIN page = 1..Len(page), Mentions(page, flag) # {}
    PROVE  flag \in Text(page, get_observation_for_flag(page, flag))
<1> DEFINE n == Len(page)
           window(i) == (Start(i) + 1)..Smaller(n, Start(i) + MAX_LINES - (HEADER + 1))
           far == {i \in First(Mentions(page, flag)) : i > MAX_LINES}
<1>1. Mentions(page, flag) \in SUBSET Nat
  BY DEF Mentions
<1>2. PICK i : i \in First(Mentions(page, flag))
  BY <1>1, FirstExists
<1>3. i \in 1..n /\ flag \in page[i].text
  BY <1>2 DEF First, Mentions
<1>4. CASE i <= MAX_LINES
  <2>1. \A j \in First(Mentions(page, flag)) : j = i /\ i \in Nat
    BY <1>1, <1>2 DEF First
  <2>2. far = {}
    BY <1>4, <2>1, WindowAssumption
  <2>3. get_observation_for_flag(page, flag) = 1..Smaller(n, MAX_LINES)
    BY <2>2 DEF get_observation_for_flag
  <2>4. i \in 1..Smaller(n, MAX_LINES)
    BY <1>3, <1>4, WindowAssumption DEF Smaller
  <2> QED
    BY <1>3, <2>3, <2>4 DEF Text
<1>5. CASE i > MAX_LINES
  <2>1. i \in far /\ far # {}
    BY <1>2, <1>5
  <2>2. get_observation_for_flag(page, flag) = (1..HEADER) \union UNION {window(j) : j \in far}
    BY <2>1 DEF get_observation_for_flag
  <2>3. Start(i) \in Nat /\ Start(i) + 1 <= i
    BY <1>3, <1>5, WindowAssumption DEF Start, Larger
  <2>4. i <= Start(i) + MAX_LINES - (HEADER + 1)
    BY <1>3, <1>5, WindowAssumption DEF Start, Larger
  <2>5. i \in window(i)
    BY <1>3, <2>3, <2>4, WindowAssumption DEF Smaller
  <2>6. i \in get_observation_for_flag(page, flag)
    BY <2>1, <2>2, <2>5
  <2> QED
    BY <1>3, <2>6 DEF Text
<1> QED
  BY <1>1, <1>2, <1>4, <1>5, WindowAssumption DEF First

\* The lines read of a manual include one that defines the flag, and so has it.
LEMMA ManWindowShows ==
    ASSUME NEW t \in Tools, NEW page \in Pages[t], NEW flags, Defines(page, flags) # {},
           \A g \in flags : flags = {g}
    PROVE  flags \subseteq Text(page, man_window(page, flags))
<1> DEFINE lines(i) == LET start == Larger(0, i - 1 - MAN_BACK)
                       IN  (IF start > MAN_HEAD THEN 1..MAN_HEAD ELSE {}) \union ((start + 1)..(start + MAN_LINES))
<1>1. Defines(page, flags) \in SUBSET Nat
  BY PagesAssumption DEF Defines
<1>2. PICK i : i \in First(Defines(page, flags))
  BY <1>1, FirstExists
<1>3. i \in 1..Len(page) /\ page[i].flag \in flags /\ page[i].flag \in page[i].text /\ Len(page) \in Nat
      /\ i \in DOMAIN page
  BY <1>2, PagesAssumption DEF First, Defines
<1>4. i \in lines(i)
  BY <1>3, WindowAssumption DEF Larger
<1>5. i \in man_window(page, flags)
  <2>1. man_window(page, flags) = UNION {lines(j) : j \in First(Defines(page, flags))}
    BY DEF man_window
  <2> QED
    BY <1>2, <1>4, <2>1
<1>6. page[i].flag \in Text(page, man_window(page, flags))
  BY <1>3, <1>5 DEF Text
<1> QED
  BY <1>3, <1>6

LEMMA RecordIsRecord ==
    ASSUME NEW type, NEW tool, NEW flags, NEW shown, NEW cites, NEW quotes, NEW calls,
           type # "web_research" => cites \subseteq shown, type = "cli_grounded" => cites = flags /\ \A g \in flags : flags = {g},
           type = "trap_refusal" => cites = {}
    PROVE  Grounded(Record(type, tool, flags, shown, cites, quotes, calls))
  BY DEF Grounded, Record

\* A generated dataset is grounded, of the tools' help as it is or of clippy's
\* output as harvested.
LEMMA BuiltIsGrounded ==
    ASSUME NEW domain, NEW present, \A d \in corpus : d.lint \in d.rendered
    PROVE  AllGrounded(build_full_dataset(domain, present))
<1>1. ASSUME NEW specs PROVE AllGrounded(generate_cli_samples(specs))
  <2>1. SUFFICES ASSUME NEW r \in generate_cli_samples(specs) PROVE Grounded(r)
    BY DEF AllGrounded
  <2>2. PICK t \in specs : \E i \in harvested(help[t]) :
          r = cli_sample(t, i, observed(t, i)) /\ help[t][i].flag \in observed(t, i)
    BY DEF generate_cli_samples
  <2>3. PICK i \in harvested(help[t]) :
          r = cli_sample(t, i, observed(t, i)) /\ {help[t][i].flag} \subseteq observed(t, i)
    BY <2>2
  <2> QED
    BY <2>3, RecordIsRecord DEF cli_sample
<1>2. ASSUME NEW specs PROVE AllGrounded(generate_trap_samples(specs))
  BY RecordIsRecord DEF AllGrounded, generate_trap_samples
<1>3. AllGrounded(generate_web_samples(domain)) /\ AllGrounded(generate_conversational_replay)
  BY RecordIsRecord DEF AllGrounded, generate_web_samples, generate_conversational_replay
<1>4. AllGrounded(generate_clippy_samples)
  <2>1. SUFFICES ASSUME NEW d \in corpus
                 PROVE  Grounded(Record("cli_grounded", d.lint, {d.lint}, d.rendered, {d.lint}, {}, {"bash"}))
    BY DEF AllGrounded, generate_clippy_samples
  <2>2. {d.lint} \subseteq d.rendered
    OBVIOUS
  <2> QED
    BY <2>2, RecordIsRecord
<1>5. AllGrounded(generate_clippy_trap_samples)
  BY RecordIsRecord DEF AllGrounded, generate_clippy_trap_samples
<1> QED
  BY <1>1, <1>2, <1>3, <1>4, <1>5 DEF AllGrounded, build_full_dataset

\* Each kind of record that the augmenter makes of a grounded dataset is.
LEMMA AugmentedIsGrounded ==
    ASSUME NEW recs, AllGrounded(recs), NEW more \in Augmented(recs)
    PROVE  AllGrounded(more)
<1>1. SUFFICES ASSUME NEW x \in more, x \notin recs PROVE Grounded(x)
  BY DEF AllGrounded
<1>2. ASSUME NEW r \in cli(recs)
      PROVE  Grounded(web_fallback(r)) /\ Grounded(lookup_failed(r)) /\ Grounded(general_answer)
  <2>1. r.cites \subseteq r.shown /\ r.cites = r.flags
    BY DEF cli, AllGrounded, Grounded
  <2> QED
    BY <2>1, RecordIsRecord DEF web_fallback, lookup_failed, general_answer
<1>6. ASSUME NEW m \in mans(recs) PROVE Grounded(man_fallback(m))
  <2>1. /\ m[1] \in cli(recs) /\ m[1].tool \in Tools /\ m[2] \in Pages[m[1].tool]
        /\ Defines(m[2], m[1].flags) # {}
    BY DEF mans
  <2>2. m[1].cites = m[1].flags /\ \A g \in m[1].flags : m[1].flags = {g}
    BY <2>1 DEF cli, AllGrounded, Grounded
  <2>3. m[1].flags \subseteq Text(m[2], man_window(m[2], m[1].flags))
    BY <2>1, <2>2, ManWindowShows
  <2> QED
    BY <2>2, <2>3, RecordIsRecord DEF man_fallback
<1>3. ASSUME NEW p \in pairs(recs) PROVE Grounded(compose(p))
  <2>1. /\ p[1] \in cli(recs) /\ p[2] \in cli(recs) /\ p[2].flags \subseteq p[1].shown
    BY DEF pairs
  <2>2. p[1].flags \subseteq p[1].shown
    BY <2>1 DEF cli, AllGrounded, Grounded
  <2> QED
    BY <2>1, <2>2, RecordIsRecord DEF compose
<1>4. ASSUME NEW t \in traps(recs) PROVE Grounded(trap_lookup_failed(t)) /\ Grounded(asserted_trap(t))
  <2>1. t.cites = {}
    BY DEF traps, AllGrounded, Grounded
  <2> QED
    BY <2>1, RecordIsRecord DEF trap_lookup_failed, asserted_trap
<1>5. PICK r \in cli(recs) :
        \/ x \in {web_fallback(r), lookup_failed(r), general_answer}
        \/ \E m \in mans(recs) : x = man_fallback(m)
        \/ \E p \in pairs(recs) : x = compose(p)
        \/ \E t \in traps(recs) : x \in {trap_lookup_failed(t), asserted_trap(t)}
  BY <1>1 DEF Augmented
<1> QED
  BY <1>2, <1>3, <1>4, <1>5, <1>6

-----------------------------------------------------------------------------
(* Init and the steps.                                                      *)

LEMMA InitIsGrounded == Init => IInv
  BY DEF Init, IInv, Missing, File, AllGrounded

LEMMA WritesGrounded ==
    ASSUME NEW recs, AllGrounded(recs), Writes(recs)
    PROVE  AllGrounded(v1'.recs)
  BY DEF Writes, File, AllGrounded

LEMMA StepIsGrounded == IInv /\ [Next]_vars => IInv'
<1> SUFFICES ASSUME IInv, [Next]_vars PROVE IInv'
  OBVIOUS
<1>1. ASSUME NEW t \in Tools, Upgrade(t) PROVE IInv'
  BY <1>1 DEF IInv, Upgrade
<1>2. CASE Harvest
  BY <1>2 DEF IInv, Harvest, extract
<1>3. CASE Generate
  <2>1. AllGrounded(v1'.recs)
    BY <1>3, BuiltIsGrounded, WritesGrounded DEF IInv, Generate
  <2> QED
    BY <1>3, <2>1 DEF IInv, Generate
<1>4. CASE Augment
  <2>1. PICK recs \in Augmented(v1.recs) : v2' = File("whole", v1.made, recs)
    BY <1>4 DEF Augment
  <2>2. AllGrounded(v2'.recs)
    BY <2>1, AugmentedIsGrounded DEF IInv, File
  <2> QED
    BY <1>4, <2>2 DEF IInv, Augment
<1>5. CASE Train
  <2>1. UNCHANGED <<corpus, v2>>
    BY <1>5 DEF Train
  <2>2. CASE build
    <3>1. AllGrounded(v1'.recs)
      BY <2>2, BuiltIsGrounded, WritesGrounded DEF IInv, build
    <3>2. AllGrounded(trained'.recs)
      BY <2>2, <3>1 DEF IInv, build
    <3> QED
      BY <2>1, <3>1, <3>2 DEF IInv
  <2>3. CASE v2.state = "whole" /\ trained' = v2 /\ UNCHANGED v1
    BY <2>1, <2>3 DEF IInv
  <2> QED
    BY <1>5, <2>2, <2>3 DEF Train
<1>6. CASE Eval
  BY <1>6 DEF IInv, Eval
<1>7. CASE UNCHANGED vars
  BY <1>7 DEF IInv, vars
<1> QED
  BY <1>1, <1>2, <1>3, <1>4, <1>5, <1>6, <1>7 DEF Next

-----------------------------------------------------------------------------

\* Of every dataset that the specification reaches, whatever the pages, the
\* upgrades, the torn files and the order of the programs: an answer credits to
\* a lookup of the documentation only flags that its own record shows.
THEOREM AnswersAreShownHolds == Spec => []AnswersAreShown
<1>1. IInv => AnswersAreShown
  BY DEF IInv, AllGrounded, Grounded, AnswersAreShown
<1> QED
  BY InitIsGrounded, StepIsGrounded, <1>1, PTL DEF Spec

\* And the audit's grounding gate, which rejects a question about an option that
\* no output shows, would reject none of them.
THEOREM GroundingGateHolds ==
    Spec => [](\A r \in v1.recs \union v2.recs \union trained.recs : audit_strict_grounding(r))
<1>1. IInv => \A r \in v1.recs \union v2.recs \union trained.recs : audit_strict_grounding(r)
  BY DEF IInv, AllGrounded, Grounded, audit_strict_grounding
<1> QED
  BY InitIsGrounded, StepIsGrounded, <1>1, PTL DEF Spec

-----------------------------------------------------------------------------
(* What the exam asks.  Training may be on the dataset or on what the       *)
(* augmenter made of it, which has records the exam's builder never reads:  *)
(* that they ask nothing new of a tool is what Derived says of them.        *)

Derived(more, recs) ==
    \A r \in more :
        /\ r.type \notin TRAP => r.flags \subseteq asked(recs, r.tool)
        /\ r.tool = None \/ \E x \in recs : x.tool = r.tool

NotHeldOut(recs) == \A r \in recs : r.tool \notin HELD_OUT

\* Generations count up, so a file of the present one was made of v1 as it is.
HeldOutInv ==
    /\ \A d \in corpus : d.lint \in RealLints
    /\ v1.made \in Nat /\ v2.made \in 0..v1.made /\ trained.made \in 0..v1.made
    /\ NotHeldOut(v1.recs) /\ Derived(v1.recs, v1.recs)
    /\ v2.made = v1.made => Derived(v2.recs, v1.recs)
    /\ trained.made = v1.made => Derived(trained.recs, v1.recs)
    /\ EvalIsHeldOut

LEMMA AskedOfRecord ==
    ASSUME NEW recs, NEW r \in recs, r.type = "cli_grounded"
    PROVE  r.flags \subseteq asked(recs, r.tool)
BY DEF asked, cli

\* A generated record asks what a question asks, and is about a tool of a table.
LEMMA BuiltRecord ==
    ASSUME NEW domain, NEW present, \A d \in corpus : d.lint \in RealLints,
           NEW r \in build_full_dataset(domain, present)
    PROVE  /\ r.type = "cli_grounded" \/ r.type = "trap_refusal" \/ r.flags = {}
           /\ r.tool \in Devtools \union Sysdiag \union Lints \union RealLints \union {None}
<1> DEFINE specs == present \intersect (IF domain = "devtools" THEN Devtools ELSE Sysdiag)
<1>1. CASE r \in generate_web_samples(domain) \union generate_conversational_replay
  BY <1>1 DEF generate_web_samples, generate_conversational_replay, Record
<1>2. CASE r \in generate_clippy_samples \union generate_clippy_trap_samples
  BY <1>2 DEF generate_clippy_samples, generate_clippy_trap_samples, Record
<1>3. CASE r \in generate_cli_samples(specs)
  <2>1. PICK t \in specs : \E i \in extract_flags_from_help(help[t]) :
          r = cli_sample(t, i, observed(t, i))
    BY <1>3 DEF generate_cli_samples, harvested
  <2>2. r.type = "cli_grounded" /\ r.tool = t
    BY <2>1 DEF cli_sample, Record
  <2>3. t \in Devtools \union Sysdiag
    OBVIOUS
  <2> QED
    BY <2>2, <2>3
<1>4. CASE r \in generate_trap_samples(specs)
  BY <1>4 DEF generate_trap_samples, Record
<1>5. r \in generate_web_samples(domain) \union generate_conversational_replay \union
            (generate_clippy_samples \union generate_clippy_trap_samples \union
             generate_cli_samples(specs) \union generate_trap_samples(specs))
  BY DEF build_full_dataset
<1> QED
  BY <1>1, <1>2, <1>3, <1>4, <1>5

LEMMA BuiltIsDerived ==
    ASSUME NEW domain, NEW present, \A d \in corpus : d.lint \in RealLints
    PROVE  LET recs == build_full_dataset(domain, present)
           IN  NotHeldOut(recs) /\ Derived(recs, recs)
<1> DEFINE recs == build_full_dataset(domain, present)
<1>1. ASSUME NEW r \in recs
      PROVE  r.tool \notin HELD_OUT /\ (r.type \notin TRAP => r.flags \subseteq asked(recs, r.tool))
  <2>1. /\ r.type = "cli_grounded" \/ r.type = "trap_refusal" \/ r.flags = {}
        /\ r.tool \in Devtools \union Sysdiag \union Lints \union RealLints \union {None}
    BY BuiltRecord
  <2> HIDE DEF recs
  <2> QED
    BY <2>1, HeldOutAssumption, AskedOfRecord DEF TRAP
<1> HIDE DEF recs
<1>2. NotHeldOut(recs) /\ Derived(recs, recs)
  BY <1>1 DEF NotHeldOut, Derived
<1> QED
  BY <1>2 DEF recs

LEMMA AugmentedIsDerived ==
    ASSUME NEW recs, Derived(recs, recs), NEW more \in Augmented(recs)
    PROVE  Derived(more, recs)
<1> DEFINE Good(x) == /\ x.type \notin TRAP => x.flags \subseteq asked(recs, x.tool)
                      /\ x.tool = None \/ \E y \in recs : y.tool = x.tool
<1>1. SUFFICES ASSUME NEW x \in more, x \notin recs PROVE Good(x)
  BY DEF Derived
<1>2. ASSUME NEW r \in cli(recs)
      PROVE  Good(web_fallback(r)) /\ Good(lookup_failed(r)) /\ Good(general_answer)
  <2>1. r \in recs /\ r.flags \subseteq asked(recs, r.tool)
    BY AskedOfRecord DEF cli
  <2> QED
    BY <2>1 DEF web_fallback, lookup_failed, general_answer, Record
<1>6. ASSUME NEW m \in mans(recs) PROVE Good(man_fallback(m))
  <2>1. m[1] \in recs /\ m[1].flags \subseteq asked(recs, m[1].tool)
    BY AskedOfRecord DEF mans, cli
  <2> QED
    BY <2>1 DEF man_fallback, Record
<1>3. ASSUME NEW p \in pairs(recs) PROVE Good(compose(p))
  <2>1. p[1] \in cli(recs) /\ p[2] \in cli(recs) /\ p[1].tool = p[2].tool
    BY DEF pairs
  <2>2. /\ p[1] \in recs
        /\ p[1].flags \subseteq asked(recs, p[1].tool) /\ p[2].flags \subseteq asked(recs, p[1].tool)
    BY <2>1, AskedOfRecord DEF cli
  <2> QED
    BY <2>2 DEF compose, Record
<1>4. ASSUME NEW t \in traps(recs) PROVE Good(trap_lookup_failed(t)) /\ Good(asserted_trap(t))
  BY DEF traps, trap_lookup_failed, asserted_trap, Record, TRAP
<1>5. PICK r \in cli(recs) :
        \/ x \in {web_fallback(r), lookup_failed(r), general_answer}
        \/ \E m \in mans(recs) : x = man_fallback(m)
        \/ \E p \in pairs(recs) : x = compose(p)
        \/ \E t \in traps(recs) : x \in {trap_lookup_failed(t), asserted_trap(t)}
  BY <1>1 DEF Augmented
<1> HIDE DEF Good
<1> QED
  BY <1>2, <1>3, <1>4, <1>5, <1>6

-----------------------------------------------------------------------------
(* The items.                                                               *)

LEMMA ItemsOfV1 ==
    ASSUME NEW docs, NEW recs, NEW it \in build_items(docs, recs)
    PROVE  \/ it.split # "seen_tool" /\ it.tool \in HELD_OUT
           \/ it.split = "seen_tool" /\ it.flag \notin asked(recs, it.tool)
<1> DEFINE Asked(t) == asked(recs, t)
<1>1. ASSUME NEW x \in Questions("held_out", docs, HELD_OUT, candidate_flags, Nothing)
      PROVE  x.split # "seen_tool" /\ x.tool \in HELD_OUT
  <2>1. PICK t \in HELD_OUT : \E i \in candidate_flags(docs[t], Nothing(t)) :
          x = Item("held_out", t, docs[t][i].flag, FALSE, Clear(help[t], i))
    BY DEF Questions
  <2> QED
    BY <2>1 DEF Item
<1>2. ASSUME NEW tools, NEW x \in Questions("seen_tool", docs, tools, candidate_flags, Asked)
      PROVE  x.split = "seen_tool" /\ x.flag \notin asked(recs, x.tool)
  <2>1. PICK t \in tools : \E i \in candidate_flags(docs[t], asked(recs, t)) :
          x = Item("seen_tool", t, docs[t][i].flag, FALSE, Clear(help[t], i))
    BY DEF Questions
  <2>2. PICK i \in candidate_flags(docs[t], asked(recs, t)) :
          x = Item("seen_tool", t, docs[t][i].flag, FALSE, Clear(help[t], i))
    BY <2>1
  <2>3. docs[t][i].flag \notin asked(recs, t)
    BY DEF candidate_flags, Unambiguous
  <2> QED
    BY <2>2, <2>3 DEF Item
<1>3. ASSUME NEW x \in Traps("trap", docs, HELD_OUT)
      PROVE  x.split # "seen_tool" /\ x.tool \in HELD_OUT
  BY DEF Traps, Item
<1>4. it \in UNION {Questions("held_out", docs, HELD_OUT, candidate_flags, Nothing),
                    Questions("seen_tool", docs, (Devtools \union Sysdiag) \intersect training_inventory(recs),
                              candidate_flags, Asked),
                    Traps("trap", docs, HELD_OUT)}
  BY DEF build_items
<1> QED
  BY <1>1, <1>2, <1>3, <1>4

LEMMA ItemsOfV2 ==
    ASSUME NEW docs, NEW recs, NEW it \in build_items_v2(docs, recs)
    PROVE  it.split # "seen_tool" /\ it.tool \in HELD_OUT2
<1>1. ASSUME NEW x \in Questions("held_out2", docs, HELD_OUT2, candidate_flags2, Nothing)
      PROVE  x.split # "seen_tool" /\ x.tool \in HELD_OUT2
  <2>1. PICK t \in HELD_OUT2 : \E i \in candidate_flags2(docs[t], Nothing(t)) :
          x = Item("held_out2", t, docs[t][i].flag, FALSE, Clear(help[t], i))
    BY DEF Questions
  <2> QED
    BY <2>1 DEF Item
<1>2. ASSUME NEW x \in Traps("trap2", docs, HELD_OUT2)
      PROVE  x.split # "seen_tool" /\ x.tool \in HELD_OUT2
  BY DEF Traps, Item
<1> QED
  BY <1>1, <1>2 DEF build_items_v2

LEMMA EvalHoldsOut ==
    ASSUME HeldOutInv, Eval
    PROVE  EvalIsHeldOut'
<1>1. PICK docs \in Docs :
          \/ exam' = [made |-> v1.made, items |-> build_items(docs, v1.recs)]
          \/ /\ \A t \in HELD_OUT2 : ~Appears(v1.recs, t)
             /\ exam' = [made |-> v1.made, items |-> build_items_v2(docs, v1.recs)]
  BY DEF Eval
<1>2. SUFFICES ASSUME trained.made = v1.made, NEW it \in exam'.items
               PROVE  HeldOutOf(trained.recs, it)
  BY <1>1 DEF Eval, EvalIsHeldOut
<1>3. Derived(trained.recs, v1.recs)
  BY <1>2 DEF HeldOutInv
<1>4. CASE it \in build_items(docs, v1.recs)
  <2>1. CASE it.split # "seen_tool" /\ it.tool \in HELD_OUT
    BY <2>1, <1>3, HeldOutAssumption DEF HeldOutInv, NotHeldOut, Derived, HeldOutOf
  <2>2. CASE it.split = "seen_tool" /\ it.flag \notin asked(v1.recs, it.tool)
    BY <2>2, <1>3 DEF Derived, HeldOutOf
  <2> QED
    BY <1>4, <2>1, <2>2, ItemsOfV1
<1>5. CASE /\ \A t \in HELD_OUT2 : ~Appears(v1.recs, t)
           /\ it \in build_items_v2(docs, v1.recs)
  <2>1. it.split # "seen_tool" /\ it.tool \in HELD_OUT2
    BY <1>5, ItemsOfV2
  <2> QED
    BY <2>1, <1>3, <1>5, HeldOutAssumption DEF Appears, Derived, HeldOutOf
<1> QED
  BY <1>1, <1>4, <1>5

-----------------------------------------------------------------------------

LEMMA InitHeldOutInv == Init => HeldOutInv
BY DEF Init, HeldOutInv, EvalIsHeldOut, NotHeldOut, Derived, Missing, File, NoExam

\* A generation that is written starts anew: nothing else is of it.
LEMMA WritesHeldOut ==
    ASSUME NEW recs, HeldOutInv, NotHeldOut(recs), Derived(recs, recs), Writes(recs)
    PROVE  /\ v1'.made = v1.made + 1 /\ v1'.recs \in {recs, {}}
           /\ NotHeldOut(v1'.recs) /\ Derived(v1'.recs, v1'.recs)
BY DEF Writes, File, NotHeldOut, Derived

LEMMA StepHeldOutInv == HeldOutInv /\ [Next]_vars => HeldOutInv'
<1> SUFFICES ASSUME HeldOutInv, [Next]_vars PROVE HeldOutInv'
  OBVIOUS
<1>1. CASE UNCHANGED <<corpus, v1, v2, trained, exam>>
  BY <1>1 DEF HeldOutInv, EvalIsHeldOut
<1>2. CASE Harvest
  <2>1. \A d \in corpus' : d.lint \in RealLints
    BY <1>2 DEF Harvest, extract
  <2> QED
    BY <1>2, <2>1 DEF Harvest, HeldOutInv, EvalIsHeldOut
<1>3. CASE Generate
  <2>1. PICK domain \in {"devtools", "sysdiag", "rust"} : Writes(build_full_dataset(domain, Tools))
    BY <1>3 DEF Generate
  <2>2. /\ v1'.made = v1.made + 1
        /\ NotHeldOut(v1'.recs) /\ Derived(v1'.recs, v1'.recs)
    BY <2>1, BuiltIsDerived, WritesHeldOut DEF HeldOutInv
  <2>3. UNCHANGED <<corpus, v2, trained, exam>>
    BY <1>3 DEF Generate
  <2> QED
    BY <2>2, <2>3 DEF HeldOutInv, EvalIsHeldOut
<1>4. CASE Augment
  <2>1. PICK recs \in Augmented(v1.recs) : v2' = File("whole", v1.made, recs)
    BY <1>4 DEF Augment
  <2>2. v2'.made = v1.made /\ Derived(v2'.recs, v1.recs)
    BY <2>1, AugmentedIsDerived DEF HeldOutInv, File
  <2>3. UNCHANGED <<corpus, v1, trained, exam>>
    BY <1>4 DEF Augment
  <2> QED
    BY <2>2, <2>3 DEF HeldOutInv, EvalIsHeldOut
<1>5. CASE Train
  <2>1. UNCHANGED <<corpus, v2>> /\ exam' = NoExam /\ EvalIsHeldOut'
    BY <1>5 DEF Train, NoExam, EvalIsHeldOut
  <2>2. CASE trained' = v1 /\ UNCHANGED v1
    BY <2>1, <2>2 DEF HeldOutInv
  <2>3. CASE trained' = v2 /\ UNCHANGED v1
    BY <2>1, <2>3 DEF HeldOutInv
  <2>4. CASE /\ Writes(build_full_dataset("devtools", Contained))
             /\ trained' = IF v1'.state = "whole" THEN v1' ELSE trained
    <3>1. /\ v1'.made = v1.made + 1
          /\ NotHeldOut(v1'.recs) /\ Derived(v1'.recs, v1'.recs)
      BY <2>4, BuiltIsDerived, WritesHeldOut DEF HeldOutInv
    <3>2. trained' \in {v1', trained}
      BY <2>4
    <3> QED
      BY <2>1, <3>1, <3>2 DEF HeldOutInv
  <2> QED
    BY <1>5, <2>2, <2>3, <2>4, Zenon DEF Train, build
<1>6. CASE Eval
  <2>1. UNCHANGED <<corpus, v1, v2, trained>>
    BY <1>6 DEF Eval
  <2> QED
    BY <1>6, <2>1, EvalHoldsOut DEF HeldOutInv
<1> QED
  BY <1>1, <1>2, <1>3, <1>4, <1>5, <1>6 DEF Next, Upgrade, vars

\* However datasets are generated, augmented, torn and rebuilt, and whatever
\* lookup fails while the exam is drawn: of an adapter that was made from the
\* file the exam is held out of, no question is about what it was trained on.
THEOREM EvalIsHeldOutHolds == Spec => []EvalIsHeldOut
<1>1. HeldOutInv => EvalIsHeldOut
  BY DEF HeldOutInv
<1> QED
  BY InitHeldOutInv, StepHeldOutInv, <1>1, PTL DEF Spec

=============================================================================
