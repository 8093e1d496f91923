---------------------------- MODULE MCAgentBench ----------------------------
(***************************************************************************)
(* Two arms, one of each harness, and two repetitions: one task where      *)
(* faults are looked for, two where a summary is.                          *)
(***************************************************************************)
EXTENDS AgentBench

MCTaskIds  == <<"t1", "t2">>
MCShuffled == << <<"t2", "t1">>, <<"t1", "t2">> >>
MCOneTask  == <<"t1">>
MCOneOrder == << <<"t1">>, <<"t1">> >>
MCGroups   == << <<"codex", "loop">> >>
MCCompared == {<<"codex", "loop">>}

MCNothing  == <<>>
\* What "run --modes on" leaves in the same --out: every arm once.
MCModes ==
    [i \in 1..6 |-> [rep |-> 1, task |-> MCTaskIds[((i - 1) % 2) + 1],
                     arm |-> <<"codex", "loop", "loop-base">>[((i - 1) \div 2) + 1],
                     pass |-> i % 2 = 0, infra |-> FALSE]]

=============================================================================
