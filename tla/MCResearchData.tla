--------------------------- MODULE MCResearchData ---------------------------
(***************************************************************************)
(* Pages of up to six lines, of which a window shows three, or one of the  *)
(* head and one from the flag's on.  In the long page -d is mentioned in   *)
(* the head, before its own line; -e is further on than the head reaches.  *)
(***************************************************************************)
EXTENDS ResearchData

Line(flag, desc, gnu, others) ==
    [flag |-> flag, spec |-> flag \o " <arg>", desc |-> desc, gnu |-> gnu,
     text |-> {flag, flag \o " <arg>"} \union others]

a == Line("-a", "first", TRUE, {})
b == Line("-b", "second", TRUE, {})
b2 == Line("-b", "second", FALSE, {})
c == Line("-c", "third", FALSE, {"-d"})
d == Line("-d", "fourth", TRUE, {})
e == Line("-e", "first", TRUE, {})
f == Line("--fake", "fifth", TRUE, {})
g == Line("-g", "sixth", TRUE, {"-a"})

long  == <<a, b2, c, d, e, g>>
short == <<e, f>>

MCPages == [git |-> {<<>>, long}, ss |-> {<<c>>, <<c, b>>}, cp |-> {long, short}]

=============================================================================
