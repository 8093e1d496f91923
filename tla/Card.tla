-------------------------------- MODULE Card --------------------------------
(***************************************************************************)
(* What the serving plane promises of the two cards, whoever types which   *)
(* command (src/bin/lab, lines 29-44 and 357-375): a card has at most one  *)
(* holder, it changes hands only by being released first, and the pool     *)
(* takes a card only when the other one is free or its own already.        *)
(***************************************************************************)
CONSTANTS
    Nodes,
    Holders, Pool,  \* the planes that can hold a card, and the one that takes both
    Free            \* no plane

VARIABLE holder     \* node |-> who has its card

\* What starts at boot is not the pool.
Init == holder \in [Nodes -> (Holders \ {Pool}) \cup {Free}]

Acquire(n, h) ==
    /\ holder[n] = Free
    /\ h = Pool => \A m \in Nodes : holder[m] \in {Free, Pool}
    /\ holder' = [holder EXCEPT ![n] = h]

Release(n) == holder' = [holder EXCEPT ![n] = Free]

Next == \E n \in Nodes : Release(n) \/ \E h \in Holders : Acquire(n, h)

Spec == Init /\ [][Next]_holder
=============================================================================
