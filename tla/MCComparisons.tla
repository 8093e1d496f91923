--------------------------- MODULE MCComparisons ----------------------------
(***************************************************************************)
(* The lab's three comparisons of what two cards, or two models, did: test *)
(* files, evaluation runs and metrics.  They share nothing, and one run of *)
(* TLC takes any one of them.                                              *)
(***************************************************************************)
EXTENDS KernelDiff, PairedRuns, SmDiffer

NotANumber == 999

Cool(values) == [temps |-> {"cool"}, values |-> values]

\* Windows that tell the gates apart: readings that are flat or spread, under
\* and over the floor, about zero and below it, missing, cut short or NaN; and
\* nodes that were hot, seen or unseen, or whose temperature is not there.
MCWindows ==
    {Cool(<<200, 204>>), Cool(<<201, 204>>), Cool(<<200, 200>>),
     Cool(<<230, 230>>), Cool(<<-20, -21>>), Cool(<<-30, -31>>), Cool(<<-5, 5>>),
     Cool(<<200, NotANumber>>), Cool(<<200>>), Cool(<<>>),
     [temps |-> {"cool", "hot"}, values |-> <<200, 204>>],
     [temps |-> {"hot", "nan"}, values |-> <<200, 204>>],
     [temps |-> {}, values |-> <<200, 204>>]}

Init == KernelInit /\ PairedInit /\ DifferInit

Next ==
    \/ items = <<>> /\ turn = 0 /\ KernelNext /\ UNCHANGED <<items, differ>>
    \/ tests = 0 /\ turn = 0 /\ PairedNext /\ UNCHANGED <<kernels, differ>>
    \/ tests = 0 /\ items = <<>> /\ DifferNext /\ UNCHANGED <<kernels, items>>

Spec == Init /\ [][Next]_<<kernels, items, differ>>

=============================================================================
