----------------------------- MODULE PairedRuns -----------------------------
(***************************************************************************)
(* bench/compare.py: two saved research_eval runs, paired item by item on  *)
(* one metric, and what the difference is worth.                           *)
(***************************************************************************)
EXTENDS Integers, SequencesExt, Combinatorics

CONSTANT MaxItems  \* of the two runs together: a bound

VARIABLE items  \* what A and B say of an item, and whether they asked the same

PairedInit == items = <<>>

\* The metric's value, or that the run has none for the item: it is not of its
\* build, or its split does not carry the key.
Says == {"yes", "no", "none"}

Answer(a, b, same) ==
    /\ Len(items) < MaxItems /\ ("none" \in {a, b} => same)
    /\ items' = Append(items, [a |-> a, b |-> b, same |-> same])

PairedNext == \E a, b \in Says, same \in BOOLEAN : Answer(a, b, same)

PairedSpec == PairedInit /\ [][PairedNext]_items

-----------------------------------------------------------------------------

shared == {i \in DOMAIN items : items[i].a # "none" /\ items[i].b # "none"}

\* check_paired: whether the comparison goes on.
check_paired == shared # {} /\ \A i \in shared : items[i].same

only_a == Cardinality({i \in shared : items[i].a = "yes" /\ items[i].b = "no"})
only_b == Cardinality({i \in shared : items[i].a = "no" /\ items[i].b = "yes"})

\* mcnemar_exact, times 2^(b + c): both tails of Binomial(b + c, 1/2) at the
\* smaller count, its own probability included.
\* (Mutant: without it, range(min(b, c)).)
tail(n, last) == MapThenSumSet(LAMBDA i : choose(n, i), 0..last)
mcnemar_open(b, c) ==
    IF 2 * tail(b + c, Min({b, c}) - 1) < 2^(b + c)
    THEN 2 * tail(b + c, Min({b, c}) - 1) ELSE 2^(b + c)
mcnemar_exact(b, c) ==
    IF 2 * tail(b + c, Min({b, c})) < 2^(b + c)
    THEN 2 * tail(b + c, Min({b, c})) ELSE 2^(b + c)

-----------------------------------------------------------------------------
(* Properties.                                                              *)

\* B - A, in items, when the answers of the items in swapped change sides.
Difference(swapped) ==
    MapThenSumSet(LAMBDA i :
        LET d == (IF items[i].b = "yes" THEN 1 ELSE 0) - (IF items[i].a = "yes" THEN 1 ELSE 0)
        IN IF i \in swapped THEN -d ELSE d, shared)

\* The p that is printed is the chance of a difference as large as the one seen
\* if which run gave which answer of an item were a coin flip: what McNemar's
\* test promises, here counted over every way to swap the items that both have,
\* ties and a single discordant pair included.
PIsOfSwaps ==
    LET seen == Difference({})
        asLarge == {swapped \in SUBSET shared :
                       LET d == Difference(swapped) IN d * d >= seen * seen}
    IN check_paired =>
           mcnemar_exact(only_a, only_b) * 2^(Cardinality(shared) - only_a - only_b)
               = Cardinality(asLarge)

\* Only runs of one build of items are compared.
OneBuild == check_paired => \A i \in DOMAIN items : items[i].same /\ i \in shared

=============================================================================
