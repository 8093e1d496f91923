---------------------------- MODULE ResearchData ----------------------------
(***************************************************************************)
(* The research training data, from the tools' help to the questions that  *)
(* grade an adapter: dataset_generator.py, clippy_harvest.py,              *)
(* audit_dataset.py, augment_research.py, dataset.py and the item builders *)
(* of bench/research_eval.py.                                              *)
(*                                                                         *)
(* A help page is a sequence of lines.  A line has an option (its flag and *)
(* its spec, the flag as the line spells it, with the short form and the   *)
(* argument), describes it, is or is not laid out as GNU help is, and may  *)
(* contain other flags: as text, so that --color is in a line that has     *)
(* --color-moved.  A record keeps what the properties tell apart: what is  *)
(* asked, the flags and specs whose text is in the outputs it shows, and   *)
(* the flags its answer cites and the specs it quotes with the credit of a *)
(* lookup.  A dataset is a set: two phrasings of one question are one      *)
(* record.                                                                 *)
(***************************************************************************)
EXTENDS Integers, Sequences, FiniteSets

CONSTANTS
    Devtools, Sysdiag,   \* the tools of the two domains' specs
    HELD_OUT, HELD_OUT2, \* of the two item sets
    Pages,               \* of each tool, those it may have; <<>> when it has none
    Fake,                \* the flag that the traps ask about
    Lints, RealLints,    \* of clippy: the names asked about, and those that exist
    Contained,           \* the tools that the training image has
    MAX_LINES, HEADER, BACK,  \* of get_observation_for_flag: 80, 5, 30
    MAN_LINES, MAN_BACK, MAN_HEAD, \* of man_window: 60, 10, 6
    PerTool,             \* flags harvested of a tool: 12
    Window,              \* lines of help that the eval shows
    MIN_RECORDS,         \* of a dataset: 50
    MaxUpgrades, MaxMade \* bounds: of the tools, and of generations

Tools == Devtools \union Sysdiag \union HELD_OUT \union HELD_OUT2
None  == "none"

ASSUME WindowAssumption ==
    /\ MAX_LINES \in Nat /\ HEADER \in Nat /\ BACK \in Nat
    /\ HEADER + BACK + 1 < MAX_LINES
    /\ MAN_LINES \in Nat /\ MAN_BACK \in Nat /\ MAN_HEAD \in Nat /\ MAN_BACK < MAN_LINES

\* What a tool prints ends; a line contains its own option.
ASSUME PagesAssumption ==
    \A t \in Tools : \A page \in Pages[t] :
        /\ Len(page) \in Nat /\ DOMAIN page = 1..Len(page)
        /\ \A i \in DOMAIN page : {page[i].flag, page[i].spec} \subseteq page[i].text

\* The first held-out set is chosen absent from every table of the generator;
\* of the second build_items_v2 looks in the dataset itself.
ASSUME HeldOutAssumption ==
    /\ HELD_OUT \intersect (Devtools \union Sysdiag \union Lints \union RealLints) = {}
    /\ None \notin HELD_OUT \union HELD_OUT2

VARIABLES
    help,      \* what each tool prints now
    corpus,    \* clippy_corpus.json
    v1,        \* research_dataset.json
    v2,        \* what augment_research.py made of it
    trained,   \* the dataset of the adapter
    exam,      \* the questions of an eval
    upgrades

vars == <<help, corpus, v1, v2, trained, exam, upgrades>>

\* A dataset's file.  "made" tells one generation from the next.
File(state, made, recs) == [state |-> state, made |-> made, recs |-> recs]
Missing == File("none", 0, {})
NoExam  == [made |-> 0, items |-> {}]

-----------------------------------------------------------------------------
(* dataset_generator.py.                                                    *)

Flags(page, lines) == {page[i].flag : i \in lines \intersect (DOMAIN page)}
Text(page, lines)  == UNION {page[i].text : i \in lines \intersect (DOMAIN page)}
First(lines)       == {i \in lines : \A j \in lines : i <= j}

\* extract_flags_from_help: the lines it can read.
extract_flags_from_help(page) == {i \in DOMAIN page : page[i].gnu}

Larger(a, b)  == IF a > b THEN a ELSE b
Smaller(a, b) == IF a < b THEN a ELSE b
Start(i)      == Larger(HEADER, i - 1 - BACK)

\* The lines that are shown for a flag: the head of the page, or from a little
\* before the first line that contains the flag's text.
Mentions(page, flag) == {i \in DOMAIN page : flag \in page[i].text}

get_observation_for_flag(page, flag) ==
    LET far == {i \in First(Mentions(page, flag)) : i > MAX_LINES}
    IN  IF far = {} THEN 1..Smaller(Len(page), MAX_LINES)
        ELSE (1..HEADER) \union
             UNION {(Start(i) + 1)..Smaller(Len(page), Start(i) + MAX_LINES - (HEADER + 1)) : i \in far}

Record(type, tool, flags, shown, cites, quotes, calls) ==
    [type |-> type, tool |-> tool, flags |-> flags, shown |-> shown, cites |-> cites,
     quotes |-> quotes, calls |-> calls]

\* A question of the option on line i, with the window that is shown for it.
cli_sample(t, i, shown) ==
    Record("cli_grounded", t, {help[t][i].flag}, shown, {help[t][i].flag}, {help[t][i].spec}, {"bash"})

observed(t, i) == Text(help[t], get_observation_for_flag(help[t], help[t][i].flag))

harvested(page) ==
    {i \in extract_flags_from_help(page) :
        Cardinality({j \in extract_flags_from_help(page) : j < i}) < PerTool}

generate_cli_samples(specs) ==
    UNION {{cli_sample(t, i, observed(t, i)) :
               i \in {k \in harvested(help[t]) : help[t][k].flag \in observed(t, k)}} : t \in specs}

\* A trap shows the head of the help, and denies; nothing looks for the flag.
generate_trap_samples(specs) ==
    {Record("trap_refusal", t, {Fake}, Text(help[t], 1..120), {}, {}, {"bash"}) :
        t \in {s \in specs : help[s] # <<>>}}

\* The tables of web questions have their snippets and their answers in them.  One
\* answer of rust's cites --allow-dirty, which its snippet does not contain.
generate_web_samples(domain) ==
    LET cited == IF domain = "rust" THEN {"--fix", "--allow-dirty"} ELSE {"-gencode"}
    IN  {Record("web_research", None, {}, cited \ {"--allow-dirty"}, cited, {}, {"web_search"})}

generate_conversational_replay == {Record("conversational_replay", None, {}, {}, {}, {}, {})}

\* The diagnostics of one harvest; extract keeps what its own output names.
extract(messages) == {d \in messages : d.ours /\ d.lint \in d.rendered}

generate_clippy_samples ==
    {Record("cli_grounded", d.lint, {d.lint}, d.rendered, {d.lint}, {}, {"bash"}) : d \in corpus}

\* The compiler itself says of each of these that it is no lint.
generate_clippy_trap_samples ==
    {Record("trap_refusal", l, {}, {}, {}, {}, {"bash"}) : l \in Lints \ RealLints}

build_full_dataset(domain, present) ==
    generate_web_samples(domain) \union generate_conversational_replay \union
    CASE domain = "rust" -> generate_clippy_samples \union generate_clippy_trap_samples
      [] OTHER -> LET specs == present \intersect (IF domain = "devtools" THEN Devtools ELSE Sysdiag)
                  IN  generate_cli_samples(specs) \union generate_trap_samples(specs)

-----------------------------------------------------------------------------
(* audit_dataset.py: gate 4, which weighs an answer against its output, and  *)
(* gate 1, which divides all records that call a tool by the technical ones. *)
(* The others read one message at a time (its roles and JSON, the command,   *)
(* the words of a refusal) or count the records and the tools.               *)

TECHNICAL == {"cli_grounded", "trap_refusal", "web_research"}

audit_strict_grounding(r) == r.type = "cli_grounded" => r.flags \union r.cites \subseteq r.shown

audit_reflex(recs) ==
    10 * Cardinality({r \in recs : r.calls # {}}) >= 9 * Cardinality({r \in recs : r.type \in TECHNICAL})

run_full_audit(recs) == audit_reflex(recs) /\ \A r \in recs : audit_strict_grounding(r)

-----------------------------------------------------------------------------
(* augment_research.py.                                                     *)

cli(recs)   == {r \in recs : r.type = "cli_grounded"}
traps(recs) == {r \in recs : r.type = "trap_refusal"}

\* man_window: the lines around the first that defines the flag, after the head
\* of the page.
Defines(page, flags) == {i \in DOMAIN page : page[i].flag \in flags}

man_window(page, flags) ==
    UNION {LET start == Larger(0, i - 1 - MAN_BACK)
           IN  (IF start > MAN_HEAD THEN 1..MAN_HEAD ELSE {}) \union ((start + 1)..(start + MAN_LINES)) :
           i \in First(Defines(page, flags))}

web_fallback(r) ==
    Record("web_fallback", r.tool, r.flags, r.shown, r.cites, r.quotes, {"web_search", "bash"})

\* A man page is any page of the tool: it need not be what its help was.
mans(recs) ==
    {m \in cli(recs) \X UNION {Pages[t] : t \in Tools} :
        m[1].tool \in Tools /\ m[2] \in Pages[m[1].tool] /\ Defines(m[2], m[1].flags) # {}}
man_fallback(m) ==
    Record("man_fallback", m[1].tool, m[1].flags, Text(m[2], man_window(m[2], m[1].flags)),
           m[1].cites, m[1].quotes, m[1].calls)

\* The lookups fail: the answer is from memory, and says so.
lookup_failed(r)      == Record("lookup_failed", r.tool, r.flags, {}, {}, {}, r.calls)
trap_lookup_failed(r) == Record("trap_lookup_failed", r.tool, r.flags, {}, r.cites, {}, r.calls)
asserted_trap(r)      == Record("asserted_trap", r.tool, r.flags, r.shown, r.cites, {}, r.calls)

\* Two options of one tool, the second of them seen where the first was: its spec
\* is looked for, of which its flag is a part.  Clippy's answers have no spec.
\* (Mutant: seen anywhere in the tool's help.)
pairs_of_tool(recs) ==
    {p \in cli(recs) \X cli(recs) :
        p[1].tool = p[2].tool /\ p[1].tool \in Tools /\ p[1].flags # p[2].flags}

pairs(recs) ==
    {p \in cli(recs) \X cli(recs) :
        /\ p[1].tool = p[2].tool /\ p[1].tool \in Tools /\ p[1].flags # p[2].flags
        /\ p[2].flags \union p[2].quotes \subseteq p[1].shown}

compose(p) ==
    LET both == p[1].flags \union p[2].flags
    IN  Record("compose", p[1].tool, both, p[1].shown, both, p[1].quotes \union p[2].quotes, p[1].calls)

general_answer == Record("general_answer", None, {}, {}, {}, {}, {})

\* What one run may make of a dataset: a record of each kind, one for each page
\* that the manual may have, and one of each trap.
Augmented(recs) ==
    {UNION {recs, {web_fallback(r), lookup_failed(r), general_answer},
            {man_fallback(m) : m \in {x \in mans(recs) : x[1] = r}},
            {compose(p) : p \in P},
            {trap_lookup_failed(t) : t \in traps(recs)},
            {asserted_trap(t) : t \in {x \in traps(recs) : x.tool \in Devtools}}} :
        r \in cli(recs), P \in {{}} \union {{p} : p \in pairs(recs)}}

-----------------------------------------------------------------------------
(* research_eval.py: the items of an eval.                                  *)

Item(split, tool, flag, fake, clear) ==
    [split |-> split, tool |-> tool, flag |-> flag, fake |-> fake, clear |-> clear]

\* The options on lines a model will be shown whose description is that of no
\* other of them.
Unambiguous(page, found) ==
    {i \in found : \A j \in found \ {i} : page[j].desc # page[i].desc}

candidate_flags(page, exclude) ==
    Unambiguous(page, {i \in extract_flags_from_help(page) : i <= Window /\ page[i].flag \notin exclude})

candidate_flags2(page, exclude) ==
    Unambiguous(page, {i \in DOMAIN page : i <= Window /\ page[i].flag \notin exclude})

\* The description of an item fits one option of its page only.
Clear(page, i) == \A j \in DOMAIN page \ {i} : page[j].desc # page[i].desc

asked(recs, tool) == UNION {r.flags : r \in {x \in cli(recs) : x.tool = tool}}
training_inventory(recs) == {r.tool : r \in cli(recs)}

Questions(split, docs, tools, candidates(_, _), exclude(_)) ==
    UNION {{Item(split, t, docs[t][i].flag, FALSE, Clear(help[t], i)) : i \in candidates(docs[t], exclude(t))} :
        t \in tools}

\* A trap is kept when the documentation that was read does not have its flag.
Traps(split, docs, tools) ==
    {Item(split, t, Fake, TRUE, Fake \notin Flags(help[t], DOMAIN help[t])) : t \in {s \in tools : Fake \notin Flags(docs[s], DOMAIN docs[s])}}

Nothing(t) == {}

build_items(docs, recs) ==
    LET Asked(t) == asked(recs, t) IN
    UNION {Questions("held_out", docs, HELD_OUT, candidate_flags, Nothing),
           Questions("seen_tool", docs, (Devtools \union Sysdiag) \intersect training_inventory(recs),
                     candidate_flags, Asked),
           Traps("trap", docs, HELD_OUT)}

\* A tool that the training data asks about or calls.
\* (Mutant: one that it asks an option of.)
Appears_asked(recs, tool) == tool \in training_inventory(recs)
Appears(recs, tool) == \E r \in recs : r.tool = tool

build_items_v2(docs, recs) ==
    UNION {Questions("held_out2", docs, HELD_OUT2, candidate_flags2, Nothing),
           Traps("trap2", docs, HELD_OUT2)}

-----------------------------------------------------------------------------
(* The programs.                                                            *)

Init ==
    /\ help \in {h \in [Tools -> UNION {Pages[t] : t \in Tools}] : \A t \in Tools : h[t] \in Pages[t]}
    /\ corpus = {} /\ upgrades = 0
    /\ v1 = Missing /\ v2 = Missing
    /\ trained = Missing /\ exam = NoExam

Upgrade(t) ==
    /\ upgrades < MaxUpgrades /\ upgrades' = upgrades + 1
    /\ \E page \in Pages[t] \ {help[t]} : help' = [help EXCEPT ![t] = page]
    /\ UNCHANGED <<corpus, v1, v2, trained, exam>>

\* A project's diagnostics; none, when clippy takes too long.
Harvest ==
    /\ \E messages \in SUBSET [lint : RealLints, rendered : {{}, RealLints}, ours : BOOLEAN] :
          Cardinality(messages) <= 1 /\ corpus' = extract(messages)
    /\ UNCHANGED <<help, v1, v2, trained, exam, upgrades>>

Writes(recs) == v1' \in {File("whole", v1.made + 1, recs), File("torn", v1.made + 1, {})}

\* dataset_generator.py, and a kill while it writes.
Generate ==
    /\ v1.made < MaxMade
    /\ \E domain \in {"devtools", "sysdiag", "rust"} : Writes(build_full_dataset(domain, Tools))
    /\ UNCHANGED <<help, corpus, v2, trained, exam, upgrades>>

\* A trap of the rust domain has no fake_flag: a KeyError.
Augment ==
    /\ v1.state = "whole" /\ \A t \in traps(v1.recs) : t.flags # {}
    /\ \E recs \in Augmented(v1.recs) : v2' = File("whole", v1.made, recs)
    /\ UNCHANGED <<help, corpus, v1, trained, exam, upgrades>>

\* dataset.build: what is there, or what the training image can make of its
\* own tools when that is torn or short.
build ==
    IF v1.state = "whole" /\ Cardinality(v1.recs) >= MIN_RECORDS
    THEN trained' = v1 /\ UNCHANGED v1
    ELSE /\ v1.made < MaxMade
         /\ Writes(build_full_dataset("devtools", Contained))
         /\ trained' = IF v1'.state = "whole" THEN v1' ELSE trained

Train ==
    /\ \/ build
       \/ v2.state = "whole" /\ trained' = v2 /\ UNCHANGED v1
    /\ exam' = NoExam
    /\ UNCHANGED <<help, corpus, v2, upgrades>>

\* A lookup of the documentation fails for some tools, as if it were empty.
Docs == {[t \in Tools |-> IF t \in failed THEN <<>> ELSE help[t]] : failed \in SUBSET Tools}

\* Either set, on the dataset's file as it is now.
Eval ==
    /\ v1.state = "whole"
    /\ \E docs \in Docs :
          \/ exam' = [made |-> v1.made, items |-> build_items(docs, v1.recs)]
          \/ /\ \A t \in HELD_OUT2 : ~Appears(v1.recs, t)
             /\ exam' = [made |-> v1.made, items |-> build_items_v2(docs, v1.recs)]
    /\ UNCHANGED <<help, corpus, v1, v2, trained, upgrades>>

Next ==
    \/ \E t \in Tools : Upgrade(t)
    \/ Harvest \/ Generate \/ Augment \/ Train \/ Eval

Spec == Init /\ [][Next]_vars

-----------------------------------------------------------------------------
(* Properties.                                                              *)

\* In every dataset, of every kind of record but the web's: the flags that an
\* answer credits to a lookup are in the output that the record itself shows.
AnswersAreShown ==
    \A r \in v1.recs \union v2.recs \union trained.recs :
        r.type # "web_research" => r.cites \subseteq r.shown

\* "Grounded response referencing the exact observed flag and description" (at
\* line 303 of dataset_generator.py): the option that the answer quotes, as its
\* line of the help spells it, is in the window.
QuotesAreShown ==
    \A r \in v1.recs : r.type = "cli_grounded" => r.quotes \subseteq r.shown

\* What the audit lets pass is "strictly grounded": "every flag cited in the
\* answer is present in the tool response" (audit_dataset.py 3-11).
AuditCertifies ==
    \A file \in {v1, v2} : (file.state = "whole" /\ run_full_audit(file.recs))
        => \A r \in file.recs : r.cites \subseteq r.shown

TRAP == {"trap_refusal", "trap_lookup_failed", "asserted_trap"}
HeldOutOf(recs, it) ==
    IF it.split = "seen_tool"
    THEN \A r \in recs : (r.tool = it.tool /\ r.type \notin TRAP) => it.flag \notin r.flags
    ELSE \A r \in recs : r.tool # it.tool

\* The questions of an eval are held out of the training of the adapter, v1
\* or augmented, when v1 is the file that the adapter was made from.
EvalIsHeldOut ==
    trained.made = exam.made => \A it \in exam.items : HeldOutOf(trained.recs, it)

\* "tools that appear nowhere in the training data", "flags training never
\* asked about": of the adapter that is examined.
ExamIsHeldOut ==
    trained.state = "whole" => \A it \in exam.items : HeldOutOf(trained.recs, it)

\* "Each is checked absent from the tool's help and man page at build time;
\* one that turns out real is dropped."
TrapsAreFake == \A it \in exam.items : it.fake => it.clear

\* "with an unambiguous, flag-free description" (candidate_flags).
DescIdentifies == \A it \in exam.items : it.fake \/ it.clear

=============================================================================
