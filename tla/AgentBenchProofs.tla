-------------------------- MODULE AgentBenchProofs --------------------------
(***************************************************************************)
(* Theorems of AgentBench: its type, what a summary compares, that a pass  *)
(* skips nothing and that it gets on, for any runners; and, for one        *)
(* runner, that it grades each run alone, on its own answer, and counts no *)
(* run twice.  The last rests on the plan having every run once, which is  *)
(* proved of FlattenSeq, a recursive function, by the smallest             *)
(* counterexample (SmallestOf).                                            *)
(***************************************************************************)
EXTENDS AgentBench, WellFoundedInduction, SequenceTheorems, FiniteSetTheorems, TLAPS

-----------------------------------------------------------------------------
(* Induction, in the form in which sets can carry it: a set of numbers that *)
(* is not empty has a smallest one.                                         *)

LEMMA SmallestOf ==
    ASSUME NEW T \in SUBSET Nat, T # {}
    PROVE  \E m \in T : \A k \in T : m <= k
<1>. DEFINE R == OpToRel(<, Nat)
<1>1. IsWellFoundedOn(R, Nat)
  BY NatLessThanWellFounded
<1>2. R = {ss \in Nat \X Nat : ss[1] < ss[2]}
  BY DEF OpToRel
<1>. HIDE DEF R
<1>3. PICK m \in T : \A k \in T : ~(<<k, m>> \in R)
  BY <1>1, WFMin
<1>4. \A k \in T : m <= k
  <2>. SUFFICES ASSUME NEW k \in T, k < m PROVE FALSE
    OBVIOUS
  <2>1. <<k, m>> \in R
    BY <1>2
  <2>. QED
    BY <1>3, <2>1
<1>. QED
  BY <1>4

\* What holds of 1, and of i + 1 when it does of i, holds of 1..n.
LEMMA UpTo ==
    ASSUME NEW n \in Nat, NEW Good \in SUBSET Nat,
           1 \in Good, \A i \in 1..n - 1 : i \in Good => i + 1 \in Good
    PROVE  1..n \subseteq Good
<1>. DEFINE bad == (1..n) \ Good
<1>. SUFFICES ASSUME bad # {} PROVE FALSE
  OBVIOUS
<1>0. bad \in SUBSET Nat
  OBVIOUS
<1>1. PICK m \in bad : \A k \in bad : m <= k
  BY <1>0, SmallestOf
<1>2. m # 1 /\ m - 1 \in 1..n - 1 /\ m - 1 \in 1..n
  BY <1>1
<1>3. m - 1 \in Good
  BY <1>1, <1>2
<1>4. (m - 1) + 1 \in Good
  BY <1>2, <1>3
<1>. QED
  BY <1>1, <1>4

-----------------------------------------------------------------------------
(* FlattenSeq is a recursive function: it is defined, and what it returns.  *)

Flat(seqs, flat) ==
    \A i \in DOMAIN seqs : flat[i] = IF i = 1 THEN seqs[i] ELSE flat[i - 1] \o seqs[i]

LEMMA FlatExists ==
    ASSUME NEW S, NEW seqs \in Seq(Seq(S)), seqs # <<>>
    PROVE  \E flat \in [DOMAIN seqs -> Seq(S)] : Flat(seqs, flat)
<1>. DEFINE n == Len(seqs)
            Works(f, m) == \A i \in 1..m : f[i] = IF i = 1 THEN seqs[i] ELSE f[i - 1] \o seqs[i]
            Good == {m \in Nat : \E f \in [1..m -> Seq(S)] : Works(f, m)}
<1>1. n \in Nat \ {0} /\ DOMAIN seqs = 1..n
  BY EmptySeq, LenProperties
<1>2. 1 \in Good
  <2>. DEFINE f == [i \in 1..1 |-> seqs[1]]
  <2>1. f \in [1..1 -> Seq(S)] /\ Works(f, 1)
    BY <1>1
  <2>. QED
    BY <2>1
<1>3. ASSUME NEW m \in 1..n - 1, m \in Good
      PROVE  m + 1 \in Good
  <2>1. PICK f \in [1..m -> Seq(S)] : Works(f, m)
    BY <1>3
  <2>. DEFINE g == [i \in 1..m + 1 |-> IF i <= m THEN f[i] ELSE f[m] \o seqs[m + 1]]
  <2>2. seqs[m + 1] \in Seq(S) /\ f[m] \in Seq(S) /\ m \in Nat \ {0}
    BY <1>1
  <2>3. f[m] \o seqs[m + 1] \in Seq(S)
    BY <2>2, ConcatProperties
  <2>4. g \in [1..m + 1 -> Seq(S)]
    BY <2>2, <2>3
  <2>5. ASSUME NEW i \in 1..m + 1
        PROVE  g[i] = IF i = 1 THEN seqs[i] ELSE g[i - 1] \o seqs[i]
    <3>1. CASE i <= m
      <4>1. g[i] = f[i] /\ (i # 1 => g[i - 1] = f[i - 1])
        BY <2>2, <3>1
      <4>2. i \in 1..m
        BY <2>2, <3>1
      <4>. QED
        BY <2>1, <4>1, <4>2
    <3>2. CASE i = m + 1
      BY <2>2, <3>2
    <3>. QED
      BY <2>2, <3>1, <3>2
  <2>6. g \in [1..m + 1 -> Seq(S)] /\ Works(g, m + 1)
    BY <2>4, <2>5
  <2>. HIDE DEF g
  <2>. QED
    BY <2>2, <2>6, m + 1 \in Nat
<1>. HIDE DEF Good
<1>4. 1..n \subseteq Good
  <2>1. Good \in SUBSET Nat
    BY DEF Good
  <2>2. \A m \in 1..n - 1 : m \in Good => m + 1 \in Good
    BY <1>3
  <2>. QED
    BY <1>1, <1>2, <2>1, <2>2, UpTo
<1>5. n \in Good
  BY <1>1, <1>4
<1>6. PICK f \in [1..n -> Seq(S)] : Works(f, n)
  BY <1>5 DEF Good
<1>. QED
  BY <1>1, <1>6 DEF Flat

\* What is true of the first sequence, and stays so when the next is added, is
\* true of all of them.
LEMMA FlattenIsFlat ==
    ASSUME NEW S, NEW seqs \in Seq(Seq(S)), seqs # <<>>
    PROVE  \E flat \in [DOMAIN seqs -> Seq(S)] : Flat(seqs, flat) /\ FlattenSeq(seqs) = flat[Len(seqs)]
<1>. DEFINE n == Len(seqs)
            Step(f) == [i \in 1..n |-> IF i = 1 THEN seqs[i] ELSE f[i - 1] \o seqs[i]]
            flatten == CHOOSE f : f = Step(f)
<1>1. n \in Nat \ {0} /\ DOMAIN seqs = 1..n
  BY EmptySeq, LenProperties
<1>2. FlattenSeq(seqs) = flatten[n]
  BY <1>1 DEF FlattenSeq
<1>3. PICK g \in [1..n -> Seq(S)] : Flat(seqs, g)
  BY <1>1, FlatExists
<1>4. g = Step(g)
  BY <1>1, <1>3 DEF Flat
<1>5. flatten = Step(flatten)
  BY <1>4
<1>. HIDE DEF flatten
<1>6. \A i \in 1..n : flatten[i] = IF i = 1 THEN seqs[i] ELSE flatten[i - 1] \o seqs[i]
  BY <1>5
<1>7. DOMAIN flatten = 1..n /\ flatten = [i \in 1..n |-> flatten[i]]
  BY <1>5
<1>. DEFINE Good == {i \in Nat : flatten[i] \in Seq(S)}
<1>8. 1 \in Good
  BY <1>1, <1>6
<1>9. ASSUME NEW i \in 1..n - 1, i \in Good PROVE i + 1 \in Good
  <2>1. i + 1 \in 1..n /\ i + 1 # 1 /\ (i + 1) - 1 = i /\ seqs[i + 1] \in Seq(S)
    BY <1>1
  <2>2. flatten[i + 1] = flatten[i] \o seqs[i + 1]
    BY <1>6, <2>1
  <2>3. flatten[i] \o seqs[i + 1] \in Seq(S)
    <3>1. flatten[i] \in Seq(S)
      BY <1>9
    <3>. QED
      BY <2>1, <3>1, ConcatProperties
  <2>. QED
    BY <2>2, <2>3, i + 1 \in Nat
<1>10. 1..n \subseteq Good
  <2>. HIDE DEF Good
  <2>1. Good \in SUBSET Nat
    BY DEF Good
  <2>2. \A i \in 1..n - 1 : i \in Good => i + 1 \in Good
    BY <1>9
  <2>. QED
    BY <1>1, <1>8, <2>2, <2>1, UpTo
<1>11. flatten \in [1..n -> Seq(S)]
  BY <1>7, <1>10
<1>. QED
  BY <1>1, <1>2, <1>6, <1>11 DEF Flat

LEMMA ConcatElements ==
    ASSUME NEW S, NEW s \in Seq(S), NEW t \in Seq(S), NEW p \in DOMAIN (s \o t)
    PROVE  \/ p \in DOMAIN s /\ (s \o t)[p] = s[p]
           \/ p > Len(s) /\ p - Len(s) \in DOMAIN t /\ (s \o t)[p] = t[p - Len(s)]
<1>1. /\ Len(s) \in Nat /\ Len(t) \in Nat
      /\ DOMAIN s = 1..Len(s) /\ DOMAIN t = 1..Len(t) /\ DOMAIN (s \o t) = 1..Len(s) + Len(t)
  BY ConcatProperties, LenProperties
<1>2. (s \o t)[p] = IF p <= Len(s) THEN s[p] ELSE t[p - Len(s)]
  BY <1>1, ConcatProperties
<1>. QED
  BY <1>1, <1>2

\* Sequences that repeat nothing, and share nothing, repeat nothing in a row.
LEMMA ConcatInjective ==
    ASSUME NEW S, NEW s \in Seq(S), NEW t \in Seq(S), IsInjective(s), IsInjective(t),
           \A i \in DOMAIN s, j \in DOMAIN t : s[i] # t[j]
    PROVE  IsInjective(s \o t)
<1>. SUFFICES ASSUME NEW i \in DOMAIN (s \o t), NEW j \in DOMAIN (s \o t),
                     (s \o t)[i] = (s \o t)[j]
              PROVE  i = j
  BY DEF IsInjective
<1>1. /\ i \in Int /\ j \in Int /\ Len(s) \in Int
      /\ DOMAIN s = 1..Len(s)
  BY ConcatProperties, LenProperties
<1>2. \/ i \in DOMAIN s /\ (s \o t)[i] = s[i]
      \/ i > Len(s) /\ i - Len(s) \in DOMAIN t /\ (s \o t)[i] = t[i - Len(s)]
  BY ConcatElements
<1>3. \/ j \in DOMAIN s /\ (s \o t)[j] = s[j]
      \/ j > Len(s) /\ j - Len(s) \in DOMAIN t /\ (s \o t)[j] = t[j - Len(s)]
  BY ConcatElements
<1>4. CASE i \in DOMAIN s /\ j \in DOMAIN s
  BY <1>1, <1>2, <1>3, <1>4 DEF IsInjective
<1>5. CASE i \notin DOMAIN s /\ j \notin DOMAIN s
  <2>1. i - Len(s) = j - Len(s)
    BY <1>2, <1>3, <1>5 DEF IsInjective
  <2>. QED
    BY <1>1, <2>1
<1>6. CASE i \in DOMAIN s /\ j \notin DOMAIN s
  BY <1>1, <1>2, <1>3, <1>6
<1>7. CASE i \notin DOMAIN s /\ j \in DOMAIN s
  BY <1>1, <1>2, <1>3, <1>7
<1>. QED
  BY <1>4, <1>5, <1>6, <1>7

\* The first i sequences of seqs have x.
Among(x, seqs, i) == \E j \in 1..i : \E k \in DOMAIN seqs[j] : x = seqs[j][k]

LEMMA AmongNext ==
    ASSUME NEW S, NEW seqs \in Seq(Seq(S)), NEW i \in 1..Len(seqs) - 1, NEW a \in Seq(S),
           \A p \in DOMAIN a : Among(a[p], seqs, i)
    PROVE  \A p \in DOMAIN (a \o seqs[i + 1]) : Among((a \o seqs[i + 1])[p], seqs, i + 1)
<1>. SUFFICES ASSUME NEW p \in DOMAIN (a \o seqs[i + 1])
              PROVE  Among((a \o seqs[i + 1])[p], seqs, i + 1)
  OBVIOUS
<1>1. Len(seqs) \in Nat /\ DOMAIN seqs = 1..Len(seqs)
  BY LenProperties
<1>2. i + 1 \in DOMAIN seqs /\ 1..i \subseteq 1..i + 1 /\ i + 1 \in 1..i + 1
  BY <1>1
<1>3. seqs[i + 1] \in Seq(S)
  BY <1>2
<1>4. CASE p \in DOMAIN a /\ (a \o seqs[i + 1])[p] = a[p]
  BY <1>2, <1>4 DEF Among
<1>5. CASE p - Len(a) \in DOMAIN seqs[i + 1] /\ (a \o seqs[i + 1])[p] = seqs[i + 1][p - Len(a)]
  BY <1>2, <1>5 DEF Among
<1>. QED
  BY <1>3, <1>4, <1>5, ConcatElements

\* What FlattenSeq returns is a sequence of elements of its argument's sequences,
\* and repeats none if they repeat and share none.
Apart(seqs) ==
    /\ \A i \in DOMAIN seqs : IsInjective(seqs[i])
    /\ \A i, j \in DOMAIN seqs : i # j =>
          \A k \in DOMAIN seqs[i], l \in DOMAIN seqs[j] : seqs[i][k] # seqs[j][l]

LEMMA FlattenElements ==
    ASSUME NEW S, NEW seqs \in Seq(Seq(S))
    PROVE  /\ FlattenSeq(seqs) \in Seq(S)
           /\ \A p \in DOMAIN FlattenSeq(seqs) : Among(FlattenSeq(seqs)[p], seqs, Len(seqs))
           /\ Apart(seqs) => IsInjective(FlattenSeq(seqs))
<1>1. CASE seqs = <<>>
  <2>1. FlattenSeq(seqs) = <<>>
    BY <1>1, EmptySeq DEF FlattenSeq
  <2>. QED
    BY <2>1, EmptySeq DEF IsInjective
<1>2. CASE seqs # <<>>
  <2>. DEFINE n == Len(seqs)
  <2>1. n \in Nat \ {0} /\ DOMAIN seqs = 1..n
    BY <1>2, EmptySeq, LenProperties
  <2>2. PICK flat \in [1..n -> Seq(S)] : Flat(seqs, flat) /\ FlattenSeq(seqs) = flat[n]
    BY <1>2, <2>1, FlattenIsFlat
  <2>. DEFINE Good == {i \in Nat : /\ \A p \in DOMAIN flat[i] : Among(flat[i][p], seqs, i)
                                   /\ Apart(seqs) => IsInjective(flat[i])}
  <2>3. 1 \in Good
    <3>1. flat[1] = seqs[1] /\ 1 \in DOMAIN seqs
      BY <2>1, <2>2 DEF Flat
    <3>2. \A p \in DOMAIN flat[1] : Among(flat[1][p], seqs, 1)
      BY <3>1 DEF Among
    <3>3. Apart(seqs) => IsInjective(flat[1])
      BY <3>1 DEF Apart
    <3>. QED
      BY <3>2, <3>3
  <2>4. ASSUME NEW i \in 1..n - 1, i \in Good PROVE i + 1 \in Good
    <3>1. /\ i + 1 \in 1..n /\ i \in 1..n /\ i + 1 # 1 /\ (i + 1) - 1 = i /\ i + 1 \in Nat
          /\ i + 1 \notin 1..i /\ 1..i \subseteq DOMAIN seqs
      BY <2>1
    <3>2. flat[i] \in Seq(S) /\ seqs[i + 1] \in Seq(S)
      <4>1. flat[i] \in Seq(S)
        BY <3>1
      <4>2. seqs[i + 1] \in Seq(S)
        BY <3>1, ElementOfSeq
      <4>. QED
        BY <4>1, <4>2
    <3>3. flat[i + 1] = flat[i] \o seqs[i + 1]
      BY <2>1, <2>2, <3>1 DEF Flat
    <3>4. /\ \A p \in DOMAIN flat[i] : Among(flat[i][p], seqs, i)
          /\ Apart(seqs) => IsInjective(flat[i])
      BY <2>4
    <3>5. \A p \in DOMAIN flat[i + 1] : Among(flat[i + 1][p], seqs, i + 1)
      <4>. DEFINE a == flat[i]
      <4>1. a \in Seq(S) /\ i \in 1..Len(seqs) - 1 /\ \A p \in DOMAIN a : Among(a[p], seqs, i)
        BY <3>2, <3>4
      <4>. HIDE DEF a
      <4>2. \A p \in DOMAIN (a \o seqs[i + 1]) : Among((a \o seqs[i + 1])[p], seqs, i + 1)
        BY <4>1, AmongNext
      <4>. QED
        BY <3>3, <4>2 DEF a
    <3>6. ASSUME Apart(seqs) PROVE IsInjective(flat[i + 1])
      <4>1. IsInjective(flat[i]) /\ IsInjective(seqs[i + 1])
        BY <2>1, <3>1, <3>4, <3>6 DEF Apart
      <4>2. \A k \in DOMAIN flat[i], l \in DOMAIN seqs[i + 1] : flat[i][k] # seqs[i + 1][l]
        <5>1. SUFFICES ASSUME NEW k \in DOMAIN flat[i], NEW l \in DOMAIN seqs[i + 1]
                       PROVE  flat[i][k] # seqs[i + 1][l]
          OBVIOUS
        <5>2. PICK j \in 1..i : \E m \in DOMAIN seqs[j] : flat[i][k] = seqs[j][m]
          BY <3>4 DEF Among
        <5>3. j \in DOMAIN seqs /\ i + 1 \in DOMAIN seqs /\ j # i + 1
          BY <2>1, <3>1
        <5>. QED
          BY <3>6, <5>2, <5>3 DEF Apart
      <4>. QED
        BY <3>2, <3>3, <4>1, <4>2, ConcatInjective
    <3>. QED
      BY <3>1, <3>5, <3>6
  <2>5. n \in Good
    <3>1. Good \in SUBSET Nat
      OBVIOUS
    <3>2. \A i \in 1..n - 1 : i \in Good => i + 1 \in Good
      BY <2>4
    <3>. HIDE DEF Good
    <3>3. 1..n \subseteq Good
      BY <2>1, <2>3, <3>1, <3>2, UpTo
    <3>. QED
      BY <2>1, <3>3
  <2>. QED
    BY <2>1, <2>2, <2>5
<1>. QED
  BY <1>1, <1>2

-----------------------------------------------------------------------------
(* The plan: runs of the task set, none of them twice.                      *)

LEMMA RotateFacts ==
    ASSUME NEW S, NEW g \in Seq(S), NEW k \in 0..Len(g)
    PROVE  /\ Rotate(g, k) \in Seq(S) /\ Len(Rotate(g, k)) = Len(g)
           /\ \A j \in 1..Len(g) :
                Rotate(g, k)[j] = IF j <= Len(g) - k THEN g[k + j] ELSE g[j - (Len(g) - k)]
<1>. DEFINE n == Len(g)
            s == SubSeq(g, k + 1, n)
            t == SubSeq(g, 1, k)
<1>1. n \in Nat /\ k \in Nat /\ k <= n /\ DOMAIN g = 1..n /\ \A j \in 1..n : g[j] \in S
  BY LenProperties, ElementOfSeq
<1>2. s \in Seq(S) /\ Len(s) = n - k /\ \A j \in 1..n - k : s[j] = g[k + j]
  <2>1. k + 1 \in Int /\ n \in Int /\ \A j \in k + 1..n : g[j] \in S
    BY <1>1
  <2>2. /\ s \in Seq(S) /\ Len(s) = (IF k + 1 <= n THEN n - (k + 1) + 1 ELSE 0)
        /\ \A j \in 1..n - (k + 1) + 1 : s[j] = g[(k + 1) + j - 1]
    BY <2>1, SubSeqProperties
  <2>3. n - (k + 1) + 1 = n - k /\ \A j \in Int : (k + 1) + j - 1 = k + j
    BY <1>1
  <2>. HIDE DEF s, n, t
  <2>4. Len(s) = n - k
    <3>1. CASE k = n
      BY <1>1, <2>2, <3>1
    <3>2. CASE k < n
      BY <1>1, <2>2, <3>2
    <3>. QED
      BY <1>1, <3>1, <3>2
  <2>5. \A j \in 1..n - k : s[j] = g[k + j]
    BY <1>1, <2>2, <2>3
  <2>. QED
    BY <2>2, <2>4, <2>5
<1>3. t \in Seq(S) /\ Len(t) = k /\ \A j \in 1..k : t[j] = g[j]
  <2>1. 1 \in Int /\ k \in Int /\ \A j \in 1..k : g[j] \in S
    BY <1>1
  <2>2. /\ t \in Seq(S) /\ Len(t) = (IF 1 <= k THEN k - 1 + 1 ELSE 0)
        /\ \A j \in 1..k - 1 + 1 : t[j] = g[1 + j - 1]
    BY <2>1, SubSeqProperties
  <2>3. k - 1 + 1 = k /\ \A j \in Int : 1 + j - 1 = j
    BY <1>1
  <2>. QED
    BY <1>1, <2>2, <2>3
<1>4. Rotate(g, k) = s \o t
  BY DEF Rotate
<1>. HIDE DEF s, t
<1>5. /\ s \o t \in Seq(S) /\ Len(s \o t) = (n - k) + k
      /\ \A j \in 1..(n - k) + k : (s \o t)[j] = IF j <= n - k THEN s[j] ELSE t[j - (n - k)]
  BY <1>2, <1>3, ConcatProperties
<1>6. (n - k) + k = n
  BY <1>1
<1>7. \A j \in 1..n : (s \o t)[j] = IF j <= n - k THEN g[k + j] ELSE g[j - (n - k)]
  BY <1>1, <1>2, <1>3, <1>5, <1>6
<1>. QED
  BY <1>4, <1>5, <1>6, <1>7

LEMMA RotateInjective ==
    ASSUME NEW S, NEW g \in Seq(S), NEW k \in 0..Len(g), IsInjective(g),
           NEW i \in 1..Len(g), NEW j \in 1..Len(g), Rotate(g, k)[i] = Rotate(g, k)[j]
    PROVE  i = j
<1>. DEFINE n == Len(g)
            Place(x) == IF x <= n - k THEN k + x ELSE x - (n - k)
<1>1. n \in Nat /\ DOMAIN g = 1..n
  BY LenProperties
<1>2. Rotate(g, k)[i] = g[Place(i)] /\ Rotate(g, k)[j] = g[Place(j)]
  BY RotateFacts
<1>3. Place(i) \in 1..n /\ Place(j) \in 1..n
  BY <1>1
<1>4. Place(i) = Place(j)
  BY <1>1, <1>2, <1>3 DEF IsInjective
<1>. QED
  BY <1>1, <1>4

\* One group of arms over one order of the tasks.
LEMMA PassFacts ==
    ASSUME NEW rep \in 1..Reps, NEW group \in Seq(Arms), NEW tids \in Seq(Tasks),
           IsInjective(group), IsInjective(tids)
    PROVE  /\ Pass(rep, group, tids) \in Seq(Keys) /\ IsInjective(Pass(rep, group, tids))
           /\ \A p \in DOMAIN Pass(rep, group, tids) :
                /\ Pass(rep, group, tids)[p].rep = rep
                /\ Pass(rep, group, tids)[p].arm \in ToSet(group)
<1>. DEFINE n == Len(group)
            Turned(i) == Rotate(group, (i - 1) % n)
            Row(i) == [j \in DOMAIN group |-> [rep |-> rep, task |-> tids[i], arm |-> Turned(i)[j]]]
            rows == [i \in DOMAIN tids |-> Row(i)]
<1>1. /\ n \in Nat /\ DOMAIN group = 1..n /\ Len(tids) \in Nat /\ DOMAIN tids = 1..Len(tids)
      /\ \A i \in DOMAIN tids : i \in Nat \ {0} /\ tids[i] \in Tasks
  BY LenProperties, ElementOfSeq
<1>2. ASSUME NEW i \in DOMAIN tids, n # 0 PROVE (i - 1) % n \in 0..n
  <2>1. i - 1 \in Nat /\ n \in Nat \ {0}
    BY <1>1, <1>2
  <2>. QED
    BY <2>1
<1>3. ASSUME NEW i \in DOMAIN tids, NEW j \in DOMAIN group
      PROVE  Turned(i)[j] \in ToSet(group) /\ Turned(i)[j] \in Arms
  <2>1. n # 0 /\ j \in 1..n
    BY <1>1
  <2>2. (i - 1) % n \in 0..n
    BY <1>2, <2>1
  <2>3. PICK k \in 1..n : Turned(i)[j] = group[k]
    <3>. DEFINE m == (i - 1) % n
    <3>1. Rotate(group, m)[j] = IF j <= n - m THEN group[m + j] ELSE group[j - (n - m)]
      BY <2>1, <2>2, RotateFacts
    <3>2. m \in 0..n
      BY <2>2
    <3>. HIDE DEF m
    <3>3. /\ j <= n - m => m + j \in 1..n
          /\ ~(j <= n - m) => j - (n - m) \in 1..n
      BY <1>1, <2>1, <3>2
    <3>. QED
      BY <3>1, <3>3 DEF m
  <2>4. group[k] \in ToSet(group) /\ group[k] \in Arms
    BY <1>1, ElementOfSeq DEF ToSet
  <2>. QED
    BY <2>3, <2>4
<1>4. ASSUME NEW i \in DOMAIN tids PROVE Row(i) \in Seq(Keys) /\ Len(Row(i)) = n
  <2>1. \A j \in 1..n : [rep |-> rep, task |-> tids[i], arm |-> Turned(i)[j]] \in Keys
    BY <1>1, <1>3 DEF Keys
  <2>. HIDE DEF Turned
  <2>. QED
    BY <1>1, <2>1
<1>5. ASSUME NEW i \in DOMAIN tids PROVE IsInjective(Row(i))
  <2>. SUFFICES ASSUME NEW j \in DOMAIN group, NEW l \in DOMAIN group, Row(i)[j] = Row(i)[l]
                PROVE  j = l
    BY DEF IsInjective
  <2>1. Turned(i)[j] = Turned(i)[l]
    <3>1. Row(i)[j].arm = Turned(i)[j] /\ Row(i)[l].arm = Turned(i)[l]
      OBVIOUS
    <3>. QED
      BY <3>1
  <2>2. n # 0 /\ j \in 1..n /\ l \in 1..n
    BY <1>1
  <2>3. (i - 1) % n \in 0..n
    BY <1>2, <2>2
  <2>. QED
    BY <2>1, <2>2, <2>3, RotateInjective
<1>6. rows \in Seq(Seq(Keys)) /\ DOMAIN rows = DOMAIN tids /\ Len(rows) = Len(tids)
  <2>1. \A i \in DOMAIN tids : Row(i) \in Seq(Keys)
    BY <1>4
  <2>. HIDE DEF Row
  <2>. QED
    BY <1>1, <2>1
<1>7. Apart(rows)
  <2>1. \A i \in DOMAIN rows : IsInjective(rows[i])
    BY <1>5, <1>6
  <2>2. ASSUME NEW i \in DOMAIN rows, NEW j \in DOMAIN rows, i # j,
               NEW k \in DOMAIN rows[i], NEW l \in DOMAIN rows[j]
        PROVE  rows[i][k] # rows[j][l]
    <3>1. rows[i][k].task = tids[i] /\ rows[j][l].task = tids[j]
      BY <1>6
    <3>2. tids[i] # tids[j]
      BY <1>6, <2>2 DEF IsInjective
    <3>. QED
      BY <3>1, <3>2
  <2>. QED
    BY <2>1, <2>2 DEF Apart
<1>8. Pass(rep, group, tids) = FlattenSeq(rows)
  BY DEF Pass
<1>9. ASSUME NEW i \in DOMAIN rows, NEW k \in DOMAIN rows[i]
      PROVE  rows[i][k].rep = rep /\ rows[i][k].arm \in ToSet(group)
  BY <1>3, <1>6
<1>. HIDE DEF rows
<1>10. /\ FlattenSeq(rows) \in Seq(Keys) /\ IsInjective(FlattenSeq(rows))
       /\ \A p \in DOMAIN FlattenSeq(rows) : Among(FlattenSeq(rows)[p], rows, Len(rows))
  BY <1>6, <1>7, FlattenElements
<1>11. DOMAIN rows = 1..Len(rows)
  BY <1>1, <1>6
<1>. QED
  BY <1>8, <1>9, <1>10, <1>11 DEF Among

LEMMA PlanFacts == plan \in Seq(Keys) /\ IsInjective(plan)
<1>. DEFINE Of(rep, g) == Pass(rep, Groups[g], Shuffled[rep])
            groups(rep) == [g \in DOMAIN Groups |-> Of(rep, g)]
            reps == [rep \in 1..Reps |-> FlattenSeq(groups(rep))]
<1>1. Reps \in Nat /\ Len(Groups) \in Nat /\ DOMAIN Groups = 1..Len(Groups)
  BY BenchAssumption, LenProperties
<1>2. ASSUME NEW g \in DOMAIN Groups PROVE Groups[g] \in Seq(Arms)
  <2>1. Groups[g] \in Seq(STRING)
    BY <1>1, BenchAssumption, ElementOfSeq
  <2>2. Groups[g] \in [1..Len(Groups[g]) -> STRING] /\ Len(Groups[g]) \in Nat
    BY <2>1, LenProperties
  <2>3. \A i \in 1..Len(Groups[g]) : Groups[g][i] \in Arms
    BY <2>2 DEF Arms, ToSet
  <2>. QED
    BY <2>2, <2>3, SeqDef
<1>3. ASSUME NEW rep \in 1..Reps, NEW g \in DOMAIN Groups
      PROVE  /\ Of(rep, g) \in Seq(Keys) /\ IsInjective(Of(rep, g))
             /\ \A p \in DOMAIN Of(rep, g) :
                  Of(rep, g)[p].rep = rep /\ Of(rep, g)[p].arm \in ToSet(Groups[g])
  <2>1. Shuffled[rep] \in Seq(Tasks) /\ IsInjective(Shuffled[rep]) /\ IsInjective(Groups[g])
    BY BenchAssumption, NamedOnceAssumption
  <2>. QED
    BY <1>2, <2>1, PassFacts
<1>4. ASSUME NEW rep \in 1..Reps
      PROVE  /\ FlattenSeq(groups(rep)) \in Seq(Keys) /\ IsInjective(FlattenSeq(groups(rep)))
             /\ \A p \in DOMAIN FlattenSeq(groups(rep)) : FlattenSeq(groups(rep))[p].rep = rep
  <2>. DEFINE gs == groups(rep)
  <2>1. gs \in Seq(Seq(Keys)) /\ DOMAIN gs = DOMAIN Groups /\ Len(gs) = Len(Groups)
    <3>1. \A g \in 1..Len(Groups) : Of(rep, g) \in Seq(Keys)
      BY <1>1, <1>3
    <3>. HIDE DEF Of
    <3>. QED
      BY <1>1, <3>1
  <2>2. Apart(gs)
    <3>1. \A g \in DOMAIN gs : IsInjective(gs[g])
      BY <1>3, <2>1
    <3>2. ASSUME NEW g \in DOMAIN gs, NEW h \in DOMAIN gs, g # h,
                 NEW k \in DOMAIN gs[g], NEW l \in DOMAIN gs[h]
          PROVE  gs[g][k] # gs[h][l]
      <4>1. gs[g][k].arm \in ToSet(Groups[g]) /\ gs[h][l].arm \in ToSet(Groups[h])
        BY <1>3, <2>1
      <4>2. ToSet(Groups[g]) \cap ToSet(Groups[h]) = {}
        BY <2>1, <3>2, NamedOnceAssumption
      <4>. QED
        BY <4>1, <4>2
    <3>. QED
      BY <3>1, <3>2 DEF Apart
  <2>3. \A g \in DOMAIN gs : \A k \in DOMAIN gs[g] : gs[g][k].rep = rep
    BY <1>3, <2>1
  <2>4. DOMAIN gs = 1..Len(gs)
    BY <1>1, <2>1
  <2>. HIDE DEF gs
  <2>5. /\ FlattenSeq(gs) \in Seq(Keys) /\ IsInjective(FlattenSeq(gs))
        /\ \A p \in DOMAIN FlattenSeq(gs) : Among(FlattenSeq(gs)[p], gs, Len(gs))
    BY <2>1, <2>2, FlattenElements
  <2>. QED
    BY <2>3, <2>4, <2>5 DEF Among, gs
<1>5. reps \in Seq(Seq(Keys)) /\ DOMAIN reps = 1..Reps
  <2>. HIDE DEF groups
  <2>1. \A rep \in 1..Reps : FlattenSeq(groups(rep)) \in Seq(Keys)
    BY <1>4
  <2>. QED
    BY <1>1, <2>1
<1>6. Apart(reps)
  <2>. HIDE DEF groups
  <2>1. \A rep \in DOMAIN reps : IsInjective(reps[rep])
    BY <1>4, <1>5
  <2>2. ASSUME NEW r \in DOMAIN reps, NEW q \in DOMAIN reps, r # q,
               NEW k \in DOMAIN reps[r], NEW l \in DOMAIN reps[q]
        PROVE  reps[r][k] # reps[q][l]
    <3>1. reps[r][k].rep = r /\ reps[q][l].rep = q
      BY <1>4, <1>5
    <3>. QED
      BY <2>2, <3>1
  <2>. QED
    BY <2>1, <2>2 DEF Apart
<1>7. plan = FlattenSeq(reps)
  BY DEF plan
<1>. HIDE DEF reps
<1>. QED
  BY <1>5, <1>6, <1>7, FlattenElements

-----------------------------------------------------------------------------
(* Typing.                                                                  *)

Taken  == {"wait", "harness", "ended", "grade", "record"}
Named  == [rep : Nat, task : Tasks, arm : STRING]
Finals == {"none", "own", "stale"}
Statuses == {"none", "error", "timeout", "infra", "context_exhausted", "answered", "truncated",
             "call_limit", "failed"}
States == [phase : Phases, at : Nat, done : SUBSET Named, status : Statuses, final : Finals,
           calls : 0..MaxCalls + 1, pass : BOOLEAN]

InPlan(st) == st.phase \in Taken => st.at \in DOMAIN plan

TInv ==
    /\ TypeOK
    /\ run \in [Runners -> States] /\ \A r \in Runners : InPlan(run[r])

LEMMA IdleFacts == Idle \in States /\ InPlan(Idle)
<1>1. "idle" \in Phases /\ "idle" \notin Taken /\ Idle.phase = "idle"
  BY DEF Idle, Phases, Taken
<1>2. 0 \in Nat /\ 0 \in 0..MaxCalls + 1 /\ {} \in SUBSET Named
  BY BenchAssumption
<1>3. Idle \in States
  BY <1>1, <1>2 DEF Idle, States, Finals, Statuses
<1>. QED
  BY <1>1, <1>3 DEF InPlan

LEMMA PlanTyped ==
    /\ plan \in Seq(Keys) /\ DOMAIN plan \subseteq Nat
    /\ \A i \in DOMAIN plan :
        /\ plan[i] \in Keys
        /\ plan[i].rep \in Nat /\ plan[i].task \in Tasks /\ plan[i].arm \in STRING
        /\ plan[i] = [rep |-> plan[i].rep, task |-> plan[i].task, arm |-> plan[i].arm]
<1>1. plan \in Seq(Keys)
  BY PlanFacts
<1>2. Len(plan) \in Nat /\ DOMAIN plan = 1..Len(plan) /\ \A i \in DOMAIN plan : plan[i] \in Keys
  BY <1>1, LenProperties, ElementOfSeq
<1>3. Arms \subseteq STRING
  <2>. SUFFICES ASSUME NEW i \in DOMAIN Groups PROVE ToSet(Groups[i]) \subseteq STRING
    BY DEF Arms
  <2>1. Groups[i] \in Seq(STRING)
    BY BenchAssumption, ElementOfSeq
  <2>. QED
    BY <2>1, ElementOfSeq DEF ToSet
<1>4. 1..Reps \subseteq Nat
  BY BenchAssumption
<1>5. ASSUME NEW k \in Keys
      PROVE  /\ k.rep \in Nat /\ k.task \in Tasks /\ k.arm \in STRING
             /\ k = [rep |-> k.rep, task |-> k.task, arm |-> k.arm]
  BY <1>3, <1>4 DEF Keys
<1>. QED
  BY <1>1, <1>2, <1>5

\* The rows give the keys that a runner calls done.
LEMMA DoneTyped == ASSUME TypeOK PROVE done_keys \subseteq Named
<1>. SUFFICES ASSUME NEW i \in DOMAIN results PROVE KeyOf(results[i]) \in Named
  BY DEF done_keys
<1>1. results[i] \in Rows
  BY ElementOfSeq DEF TypeOK
<1>. QED
  BY <1>1 DEF Rows, KeyOf, Named

\* One runner goes on to st.
LEMMA RunTyped ==
    ASSUME TInv, NEW r \in Runners, NEW st \in States, InPlan(st), run' = [run EXCEPT ![r] = st]
    PROVE  /\ run' \in [Runners -> States] /\ \A q \in Runners : InPlan(run[q])'
           /\ \A q \in Runners : run'[q].phase \in Phases /\ run'[q].calls \in 0..MaxCalls + 1
<1>1. run \in [Runners -> States] /\ \A q \in Runners : InPlan(run[q])
  BY DEF TInv
<1>2. run' \in [Runners -> States]
  BY <1>1
<1>3. \A q \in Runners : run'[q] = (IF q = r THEN st ELSE run[q])
  BY <1>1
<1>4. \A q \in Runners : InPlan(run'[q])
  BY <1>1, <1>3
<1>5. \A q \in Runners : InPlan(run[q])'
  BY <1>4 DEF InPlan
<1>6. \A q \in Runners : run'[q] \in States
  BY <1>2
<1>. QED
  BY <1>2, <1>5, <1>6 DEF States

RunsType ==
    /\ run \in [Runners -> States] /\ \A q \in Runners : InPlan(run[q])
    /\ \A q \in Runners : run[q].phase \in Phases /\ run[q].calls \in 0..MaxCalls + 1
RestType ==
    /\ results \in Seq(Rows) /\ void \subseteq Tasks
    /\ rundirs \in [Keys -> {"absent", "empty", "answer"}]
    /\ server \in BOOLEAN /\ faults \in 0..MaxFaults

LEMMA TInvParts == (TInv <=> RunsType /\ RestType) /\ (TInv' <=> RunsType' /\ RestType')
BY DEF TInv, TypeOK, RunsType, RestType

LEMMA FaultType == ASSUME TInv, Fault PROVE faults' \in 0..MaxFaults
BY BenchAssumption DEF TInv, TypeOK, Fault

LEMMA GotoType ==
    ASSUME TInv, NEW r \in Runners, NEW p \in Phases, Goto(r, p), p \in Taken => run[r].phase \in Taken
    PROVE  RunsType'
<1>. DEFINE st == [run[r] EXCEPT !.phase = p]
<1>1. run[r] \in States /\ InPlan(run[r])
  BY DEF TInv
<1>2. st \in States /\ InPlan(st)
  BY <1>1 DEF States, InPlan
<1>3. run' = [run EXCEPT ![r] = st]
  BY DEF Goto
<1>. QED
  BY <1>2, <1>3, RunTyped DEF RunsType

LEMMA EndsType ==
    ASSUME TInv, NEW r \in Runners, At(r, "harness"), NEW status \in Statuses, NEW final \in Finals,
           Ends(r, status, final)
    PROVE  RunsType'
<1>. DEFINE st == [run[r] EXCEPT !.phase = "ended", !.status = status, !.final = final]
<1>1. run[r] \in States /\ InPlan(run[r]) /\ run[r].phase = "harness"
  BY DEF TInv, At
<1>2. st \in States /\ InPlan(st)
  BY <1>1 DEF States, InPlan, Taken, Phases
<1>3. run' = [run EXCEPT ![r] = st]
  BY DEF Ends
<1>. QED
  BY <1>2, <1>3, RunTyped DEF RunsType

LEMMA IdleType == ASSUME TInv, NEW r \in Runners, run' = [run EXCEPT ![r] = Idle] PROVE RunsType'
BY IdleFacts, RunTyped DEF RunsType

LEMMA SameRuns == ASSUME TInv, UNCHANGED run PROVE RunsType'
<1>1. RunsType
  BY TInvParts
<1>. QED
  BY <1>1 DEF RunsType, InPlan

\* What PickRun takes is a run of the plan, and the first that is not done.
ToDo(r) == {i \in DOMAIN plan : i > run[r].at /\ plan[i] \notin run[r].done}

LEMMA NextFacts ==
    ASSUME NEW r \in Runners, ToDo(r) # {}
    PROVE  /\ Min(ToDo(r)) \in ToDo(r)
           /\ \A i \in ToDo(r) : Min(ToDo(r)) <= i
<1>1. ToDo(r) \in SUBSET Nat
  BY PlanTyped DEF ToDo
<1>2. \E m \in ToDo(r) : \A i \in ToDo(r) : m <= i
  BY <1>1, SmallestOf
<1>3. Min(ToDo(r)) = CHOOSE m \in ToDo(r) : \A i \in ToDo(r) : m <= i
  BY DEF Min
<1>. QED
  BY <1>2, <1>3

PickState(r) ==
    [run[r] EXCEPT !.at = Min(ToDo(r)), !.phase = "wait", !.calls = 0, !.final = "none",
                   !.status = "error"]

LEMMA PickFacts ==
    ASSUME NEW r \in Runners, Pick(r)
    PROVE  /\ At(r, "pick") /\ ToDo(r) # {}
           /\ run' = [run EXCEPT ![r] = PickState(r)]
           /\ rundirs' = [rundirs EXCEPT ![plan[Min(ToDo(r))]] = "empty"]
           /\ UNCHANGED <<results, void, work, shells, server, faults>>
BY DEF Pick, PickRun, ToDo, PickState

LEMMA PreflightType ==
    ASSUME TInv, NEW r \in Runners, PreflightPasses(r) \/ PreflightOnly(r)
    PROVE  TInv'
<1>1. RestType'
  <2>1. UNCHANGED <<results, void, rundirs, server>> /\ (UNCHANGED faults \/ Fault)
    BY DEF PreflightPasses, PreflightOnly, preflight
  <2>. QED
    BY <2>1, FaultType DEF TInv, TypeOK, RestType
<1>2. CASE PreflightPasses(r)
  <2>. DEFINE st == [Idle EXCEPT !.phase = "pick", !.done = done_keys]
  <2>1. done_keys \in SUBSET Named
    BY DoneTyped DEF TInv
  <2>2. "pick" \in Phases /\ "pick" \notin Taken
    BY DEF Phases, Taken
  <2>3. st \in States /\ InPlan(st)
    BY IdleFacts, <2>1, <2>2 DEF States, InPlan
  <2>4. run' = [run EXCEPT ![r] = st]
    BY <1>2 DEF PreflightPasses
  <2>5. RunsType'
    BY <2>3, <2>4, RunTyped DEF RunsType
  <2>. QED
    BY <1>1, <2>5, TInvParts
<1>3. CASE PreflightOnly(r)
  <2>1. RunsType'
    BY <1>3, SameRuns DEF PreflightOnly
  <2>. QED
    BY <1>1, <2>1, TInvParts
<1>. QED
  BY <1>2, <1>3

LEMMA PickType ==
    ASSUME TInv, NEW r \in Runners, Pick(r)
    PROVE  TInv'
<1>. DEFINE next == Min(ToDo(r))
<1>1. next \in DOMAIN plan /\ next \in Nat /\ plan[next] \in Keys
  BY PickFacts, NextFacts, PlanTyped DEF ToDo
<1>2. run[r] \in States
  BY DEF TInv
<1>3. PickState(r) \in States /\ InPlan(PickState(r))
  <2>1. /\ "wait" \in Phases /\ "none" \in Finals /\ "error" \in Statuses
        /\ 0 \in 0..MaxCalls + 1
    BY BenchAssumption DEF Phases, Finals, Statuses
  <2>. HIDE DEF next
  <2>2. PickState(r) = [run[r] EXCEPT !.at = next, !.phase = "wait", !.calls = 0, !.final = "none",
                                      !.status = "error"]
    BY DEF PickState, next
  <2>. QED
    BY <1>1, <1>2, <2>1, <2>2 DEF States, InPlan
<1>4. RunsType'
  BY <1>3, PickFacts, RunTyped DEF RunsType
<1>5. rundirs' \in [Keys -> {"absent", "empty", "answer"}]
  <2>1. rundirs' = [rundirs EXCEPT ![plan[next]] = "empty"]
    BY PickFacts
  <2>. HIDE DEF next
  <2>. QED
    BY <1>1, <2>1 DEF TInv, TypeOK
<1>6. RestType'
  BY <1>5, PickFacts DEF TInv, TypeOK, RestType
<1>. QED
  BY <1>4, <1>6, TInvParts

\* The steps that leave the rows and the directories as they are.
LEMMA QuietType ==
    ASSUME TInv, NEW r \in Runners,
           \/ PlanEnds(r) \/ FreshWork(r) \/ GiveUp(r) \/ Settle(r) \/ grade(r)
           \/ SelftestBegins(r) \/ SelftestTask(r) \/ SelftestEnds(r) \/ Killed(r)
    PROVE  TInv'
<1>1. /\ UNCHANGED <<results, rundirs, server>> /\ (UNCHANGED faults \/ Fault)
      /\ \/ UNCHANGED void \/ void' = {} \/ SelftestTask(r)
  BY DEF PlanEnds, FreshWork, GiveUp, Settle, grade, SelftestBegins, SelftestTask,
     SelftestEnds, Killed
<1>2. ASSUME SelftestTask(r) PROVE void' \subseteq Tasks /\ run[r].at + 1 \in Nat
  <2>1. run[r].at \in Nat /\ run[r].at < Len(TaskIds)
    BY <1>2 DEF TInv, States, SelftestTask
  <2>2. Len(TaskIds) \in Nat /\ DOMAIN TaskIds = 1..Len(TaskIds)
    BY BenchAssumption, LenProperties
  <2>3. run[r].at + 1 \in DOMAIN TaskIds
    BY <2>1, <2>2
  <2>4. TaskIds[run[r].at + 1] \in Tasks
    BY <2>3 DEF Tasks, ToSet
  <2>. QED
    BY <1>2, <2>1, <2>4 DEF SelftestTask, TInv, TypeOK
<1>3. RestType'
  BY <1>1, <1>2, FaultType DEF TInv, TypeOK, RestType
<1>4. run[r] \in States /\ InPlan(run[r])
  BY DEF TInv
<1>5. \/ run' = [run EXCEPT ![r] = Idle]
      \/ \E st \in States : InPlan(st) /\ run' = [run EXCEPT ![r] = st]
  <2>1. CASE PlanEnds(r) \/ GiveUp(r) \/ SelftestEnds(r) \/ Killed(r)
    BY <2>1 DEF PlanEnds, GiveUp, SelftestEnds, Killed
  <2>2. CASE FreshWork(r)
    <3>. DEFINE st == [run[r] EXCEPT !.phase = "harness"]
    <3>1. run' = [run EXCEPT ![r] = st] /\ run[r].phase = "wait"
      BY <2>2 DEF FreshWork, Goto, At
    <3>2. st \in States /\ InPlan(st)
      BY <1>4, <3>1 DEF States, InPlan, Phases, Taken
    <3>. QED
      BY <3>1, <3>2
  <2>3. CASE Settle(r)
    <3>. DEFINE st == [run[r] EXCEPT !.phase = "grade",
                                     !.status = IF server THEN run[r].status ELSE "infra"]
    <3>1. run' = [run EXCEPT ![r] = st] /\ run[r].phase = "ended"
      BY <2>3 DEF Settle, At
    <3>2. st \in States /\ InPlan(st)
      BY <1>4, <3>1 DEF States, InPlan, Phases, Taken, Statuses
    <3>. QED
      BY <3>1, <3>2
  <2>4. CASE grade(r)
    <3>. DEFINE st(p) == [run[r] EXCEPT !.phase = "record", !.pass = p]
    <3>1. PICK p \in BOOLEAN : run' = [run EXCEPT ![r] = st(p)]
      BY <2>4 DEF grade
    <3>2. run[r].phase = "grade"
      BY <2>4 DEF grade, At
    <3>3. st(p) \in States /\ InPlan(st(p))
      BY <1>4, <3>2 DEF States, InPlan, Phases, Taken
    <3>. QED
      BY <3>1, <3>3
  <2>5. CASE SelftestBegins(r)
    <3>. DEFINE st == [Idle EXCEPT !.phase = "selftest"]
    <3>1. run' = [run EXCEPT ![r] = st]
      BY <2>5 DEF SelftestBegins
    <3>2. "selftest" \in Phases /\ "selftest" \notin Taken
      BY DEF Phases, Taken
    <3>3. st \in States /\ InPlan(st)
      BY IdleFacts, <3>2 DEF States, InPlan
    <3>. QED
      BY <3>1, <3>3
  <2>6. CASE SelftestTask(r)
    <3>. DEFINE st == [run[r] EXCEPT !.at = run[r].at + 1]
    <3>1. run' = [run EXCEPT ![r] = st] /\ run[r].phase = "selftest"
      BY <2>6 DEF SelftestTask, At
    <3>2. "selftest" \notin Taken
      BY DEF Taken
    <3>3. st \in States /\ InPlan(st)
      BY <1>2, <1>4, <2>6, <3>1, <3>2 DEF States, InPlan
    <3>. QED
      BY <3>1, <3>3
  <2>. QED
    BY <2>1, <2>2, <2>3, <2>4, <2>5, <2>6
<1>6. RunsType'
  BY <1>5, IdleType, RunTyped DEF RunsType
<1>. QED
  BY <1>3, <1>6, TInvParts

LEMMA LoopType ==
    ASSUME TInv, NEW r \in Runners, run_loop(r)
    PROVE  TInv'
<1>1. At(r, "harness") /\ UNCHANGED <<results, void, server, rundirs>> /\ (UNCHANGED faults \/ Fault)
  BY DEF run_loop, TurnLate, TurnRefused, TurnHttpError, TurnGarbled, TurnAnswers, TurnCalls,
         InLoop, InHarness
<1>2. RestType'
  BY <1>1, FaultType DEF TInv, TypeOK, RestType
<1>3. RunsType'
  <2>1. ASSUME NEW status \in Statuses, NEW final \in Finals, Ends(r, status, final) PROVE RunsType'
    BY <1>1, <2>1, EndsType
  <2>2. "none" \in Finals /\ "own" \in Finals
    BY DEF Finals
  <2>3. CASE \E n \in 1..2 : TurnCalls(r, n)
    <3>1. PICK n \in 1..2 : TurnCalls(r, n)
      BY <2>3
    <3>2. CASE run[r].calls >= MaxCalls
      <4>1. Ends(r, "call_limit", "none")
        BY <3>1, <3>2 DEF TurnCalls
      <4>. QED
        BY <2>1, <2>2, <4>1 DEF Statuses
    <3>3. CASE ~(run[r].calls >= MaxCalls)
      <4>. DEFINE st == [run[r] EXCEPT !.calls = run[r].calls + n]
      <4>1. run' = [run EXCEPT ![r] = st] /\ run[r] \in States /\ InPlan(run[r])
        BY <3>1, <3>3 DEF TurnCalls, TInv
      <4>2. run[r].calls + n \in 0..MaxCalls + 1
        BY <3>3, <4>1, BenchAssumption DEF States
      <4>3. st \in States /\ InPlan(st)
        BY <4>1, <4>2 DEF States, InPlan
      <4>. QED
        BY <4>1, <4>3, RunTyped DEF RunsType
    <3>. QED
      BY <3>2, <3>3
  <2>4. CASE TurnLate(r) \/ TurnRefused(r) \/ TurnHttpError(r) \/ TurnGarbled(r)
    <3>1. \E status \in {"timeout", "infra", "context_exhausted", "error"} : Ends(r, status, "none")
      BY <2>4 DEF TurnLate, TurnRefused, TurnHttpError, TurnGarbled
    <3>. QED
      BY <2>1, <2>2, <3>1 DEF Statuses
  <2>5. CASE TurnAnswers(r)
    <3>1. \E status \in {"answered", "truncated"} : Ends(r, status, "own")
      BY <2>5 DEF TurnAnswers
    <3>. QED
      BY <2>1, <2>2, <3>1 DEF Statuses
  <2>. QED
    BY <2>3, <2>4, <2>5 DEF run_loop
<1>. QED
  BY <1>2, <1>3, TInvParts

\* What run_codex may come to.
LEMMA CodexFacts ==
    ASSUME NEW r \in Runners, run_codex(r)
    PROVE  \E status \in {"timeout", "failed", "answered", "infra"}, wrote \in BOOLEAN :
              CodexEnds(r, status, wrote) /\ (UNCHANGED faults \/ Fault)
BY DEF run_codex

LEMMA CodexType ==
    ASSUME TInv, NEW r \in Runners, run_codex(r)
    PROVE  TInv'
<1>1. PICK status \in {"timeout", "failed", "answered", "infra"}, wrote \in BOOLEAN :
          CodexEnds(r, status, wrote) /\ (UNCHANGED faults \/ Fault)
  BY CodexFacts
<1>2. At(r, "harness") /\ UNCHANGED <<results, void, server>>
  BY <1>1 DEF CodexEnds, InHarness
<1>3. run[r] \in States /\ run[r].at \in DOMAIN plan /\ Key(r) \in Keys
  <2>1. run[r] \in States /\ run[r].at \in DOMAIN plan
    BY <1>2 DEF TInv, InPlan, At, Taken
  <2>. QED
    BY <2>1, PlanTyped DEF Key
<1>4. rundirs' \in [Keys -> {"absent", "empty", "answer"}]
  <2>1. rundirs' = [rundirs EXCEPT ![Key(r)] = IF wrote THEN "answer" ELSE @]
    BY <1>1 DEF CodexEnds
  <2>. QED
    BY <1>3, <2>1 DEF TInv, TypeOK
<1>5. RestType'
  BY <1>1, <1>2, <1>4, FaultType DEF TInv, TypeOK, RestType
<1>6. \E final \in Finals : Ends(r, status, final)
  <2>1. Ends(r, status, IF wrote THEN "own" ELSE IF rundirs[Key(r)] = "answer" THEN "stale" ELSE "none")
    BY <1>1 DEF CodexEnds
  <2>. QED
    BY <2>1 DEF Finals
<1>7. status \in Statuses
  BY DEF Statuses
<1>8. RunsType'
  BY <1>2, <1>6, <1>7, EndsType
<1>. QED
  BY <1>5, <1>8, TInvParts

NewRow(r) == [rep |-> Key(r).rep, task |-> Key(r).task, arm |-> Key(r).arm,
              pass |-> run[r].pass, infra |-> run[r].status = "infra"]
Recorded(r) == [Idle EXCEPT !.phase = "pick", !.at = run[r].at, !.done = run[r].done]

LEMMA RecordFacts ==
    ASSUME TInv, NEW r \in Runners, Record(r)
    PROVE  /\ run[r].phase = "record" /\ run[r].at \in DOMAIN plan
           /\ results' = Append(results, NewRow(r)) /\ NewRow(r) \in Rows
           /\ run' = [run EXCEPT ![r] = Recorded(r)]
           /\ UNCHANGED <<void, rundirs, work, shells, server, faults>>
<1>1. run[r] \in States /\ run[r].phase = "record" /\ run[r].at \in DOMAIN plan
  BY DEF Record, At, TInv, InPlan, Taken
<1>2. Key(r).rep \in Nat /\ Key(r).task \in Tasks /\ Key(r).arm \in STRING
  BY <1>1, PlanTyped DEF Key
<1>3. run[r].pass \in BOOLEAN /\ (run[r].status = "infra") \in BOOLEAN
  BY <1>1 DEF States
<1>4. NewRow(r) \in Rows
  BY <1>2, <1>3, Zenon DEF NewRow, Rows
<1>. QED
  BY <1>1, <1>4 DEF Record, NewRow, Recorded

LEMMA RecordType ==
    ASSUME TInv, NEW r \in Runners, Record(r)
    PROVE  TInv'
<1>1. Recorded(r) \in States /\ InPlan(Recorded(r))
  <2>1. run[r] \in States /\ "pick" \in Phases /\ "pick" \notin Taken
    BY DEF TInv, Phases, Taken
  <2>. QED
    BY <2>1, IdleFacts DEF States, InPlan, Recorded
<1>2. RunsType'
  BY <1>1, RecordFacts, RunTyped DEF RunsType
<1>3. results' \in Seq(Rows)
  BY RecordFacts, AppendProperties DEF TInv, TypeOK
<1>4. RestType'
  BY <1>3, RecordFacts DEF TInv, TypeOK, RestType
<1>. QED
  BY <1>2, <1>4, TInvParts

LEMMA TInvStep == ASSUME TInv, [Next]_vars PROVE TInv'
<1>1. CASE UNCHANGED vars
  BY <1>1, SameRuns, TInvParts DEF vars, TInv, TypeOK, RestType
<1>2. CASE ServerFails \/ ServerRecovers
  <2>1. /\ UNCHANGED <<results, void, rundirs, run>> /\ server' \in BOOLEAN
        /\ (UNCHANGED faults \/ Fault)
    BY <1>2 DEF ServerFails, ServerRecovers
  <2>2. RestType'
    BY <2>1, FaultType DEF TInv, TypeOK, RestType
  <2>. QED
    BY <2>1, <2>2, SameRuns, TInvParts
<1>3. ASSUME NEW r \in Runners, cmd_run(r) PROVE TInv'
  BY <1>3, PickType, QuietType, LoopType, CodexType, RecordType DEF cmd_run
<1>4. ASSUME NEW r \in Runners,
             \/ PreflightPasses(r) \/ PreflightOnly(r)
             \/ SelftestBegins(r) \/ SelftestTask(r) \/ SelftestEnds(r) \/ Killed(r)
      PROVE  TInv'
  BY <1>4, PreflightType, QuietType
<1>. QED
  BY <1>1, <1>2, <1>3, <1>4 DEF Next

LEMMA TInvInit == Init => TInv
<1>. SUFFICES ASSUME Init PROVE TInv
  OBVIOUS
<1>1. RunsType
  BY IdleFacts DEF Init, RunsType, States
<1>2. RestType
  BY BenchAssumption DEF Init, RestType
<1>. QED
  BY <1>1, <1>2, TInvParts

\* The type of the benchmark's state, for any runners, task set and options:
\* what a runner appends to results.jsonl is a row of the plan's shape, and the
\* loop goes at most one message over its limit (TypeOK).
THEOREM AgentBenchTypeCorrect == Spec => []TypeOK
<1>1. TInv => TypeOK
  BY DEF TInv
<1>. QED
  BY <1>1, TInvInit, TInvStep, PTL DEF Spec

-----------------------------------------------------------------------------
(* One runner on the machine.  With two, TLC finds each of the next three   *)
(* broken: WORK, the agent user and results.jsonl are one for all of them.  *)

Alone == \A r, s \in Runners : r = s

Workspace(r) ==
    /\ run[r].phase \in {"harness", "ended", "grade"} => work = Mine(r)
    /\ At(r, "grade") => shells = {}

\* What is in the directory of the run is not an answer until this attempt
\* writes one.
Fresh(r) ==
    /\ run[r].phase \in {"wait", "harness"} => rundirs[Key(r)] # "answer"
    /\ run[r].final # "stale"

AInv == TInv /\ \A r \in Runners : Workspace(r) /\ Fresh(r)

LEMMA RunIs ==
    ASSUME TInv, NEW r \in Runners, NEW st, run' = [run EXCEPT ![r] = st]
    PROVE  run'[r] = st
BY DEF TInv

\* What each step makes of its runner's state.
LEMMA Moved ==
    ASSUME TInv, NEW r \in Runners
    PROVE  /\ PreflightPasses(r) => run'[r] = [Idle EXCEPT !.phase = "pick", !.done = done_keys]
           /\ PlanEnds(r) \/ GiveUp(r) \/ SelftestEnds(r) \/ Killed(r) => run'[r] = Idle
           /\ SelftestBegins(r) => run'[r] = [Idle EXCEPT !.phase = "selftest"]
           /\ SelftestTask(r) => run'[r] = [run[r] EXCEPT !.at = run[r].at + 1]
           /\ Pick(r) => run'[r] = PickState(r)
           /\ FreshWork(r) => run'[r] = [run[r] EXCEPT !.phase = "harness"]
           /\ Settle(r) => run'[r] = [run[r] EXCEPT !.phase = "grade",
                                                    !.status = IF server THEN run[r].status ELSE "infra"]
           /\ grade(r) => \E p \in BOOLEAN : run'[r] = [run[r] EXCEPT !.phase = "record", !.pass = p]
           /\ Record(r) => run'[r] = Recorded(r)
<1>1. run \in [Runners -> States]
  BY DEF TInv
<1>2. Pick(r) => run'[r] = PickState(r)
  BY PickFacts, RunIs
<1>3. Record(r) => run'[r] = Recorded(r)
  BY RecordFacts, RunIs
<1>4. PreflightPasses(r) => run'[r] = [Idle EXCEPT !.phase = "pick", !.done = done_keys]
  BY <1>1 DEF PreflightPasses
<1>5. PlanEnds(r) \/ GiveUp(r) \/ SelftestEnds(r) \/ Killed(r) => run'[r] = Idle
  BY <1>1 DEF PlanEnds, GiveUp, SelftestEnds, Killed
<1>6. /\ SelftestBegins(r) => run'[r] = [Idle EXCEPT !.phase = "selftest"]
      /\ SelftestTask(r) => run'[r] = [run[r] EXCEPT !.at = run[r].at + 1]
  BY <1>1 DEF SelftestBegins, SelftestTask
<1>7. /\ FreshWork(r) => run'[r] = [run[r] EXCEPT !.phase = "harness"]
      /\ Settle(r) => run'[r] = [run[r] EXCEPT !.phase = "grade",
                                               !.status = IF server THEN run[r].status ELSE "infra"]
      /\ grade(r) => \E p \in BOOLEAN : run'[r] = [run[r] EXCEPT !.phase = "record", !.pass = p]
  BY <1>1 DEF FreshWork, Goto, Settle, grade
<1>. QED
  BY <1>2, <1>3, <1>4, <1>5, <1>6, <1>7

\* A harness goes on with its run, or ends it with an outcome.
LEMMA HarnessMoved ==
    ASSUME TInv, NEW r \in Runners, run_loop(r) \/ run_codex(r)
    PROVE  /\ At(r, "harness") /\ UNCHANGED <<results, work>>
           /\ run'[r].phase \in {"harness", "ended"}
           /\ run'[r].at = run[r].at /\ run'[r].done = run[r].done
           /\ run'[r].final \in {run[r].final, "none", "own"} \/ rundirs[Key(r)] = "answer"
           /\ run'[r].phase = "harness" => rundirs' = rundirs
<1>1. run[r] \in States
  BY DEF TInv
<1>2. ASSUME NEW status, NEW final, Ends(r, status, final)
      PROVE  /\ run'[r].phase = "ended" /\ run'[r].final = final
             /\ run'[r].at = run[r].at /\ run'[r].done = run[r].done
  <2>1. run'[r] = [run[r] EXCEPT !.phase = "ended", !.status = status, !.final = final]
    BY <1>2 DEF Ends, TInv
  <2>. QED
    BY <1>1, <2>1 DEF States
<1>3. CASE run_codex(r)
  <2>1. PICK status \in {"timeout", "failed", "answered", "infra"}, wrote \in BOOLEAN :
            CodexEnds(r, status, wrote)
    BY <1>3, CodexFacts
  <2>2. At(r, "harness") /\ UNCHANGED <<results, work>>
    BY <2>1 DEF CodexEnds, InHarness
  <2>3. Ends(r, status, IF wrote THEN "own" ELSE IF rundirs[Key(r)] = "answer" THEN "stale" ELSE "none")
    BY <2>1 DEF CodexEnds
  <2>. QED
    BY <1>2, <2>2, <2>3
<1>4. CASE run_loop(r)
  <2>1. At(r, "harness") /\ UNCHANGED <<results, work, rundirs>>
    BY <1>4 DEF run_loop, TurnLate, TurnRefused, TurnHttpError, TurnGarbled, TurnAnswers, TurnCalls,
                InLoop, InHarness
  <2>2. CASE \E status \in Statuses, final \in {"none", "own"} : Ends(r, status, final)
    BY <1>2, <2>1, <2>2
  <2>3. CASE \E n \in 1..2 : run' = [run EXCEPT ![r].calls = @ + n]
    <3>1. PICK n \in 1..2 : run' = [run EXCEPT ![r].calls = @ + n]
      BY <2>3
    <3>2. run'[r] = [run[r] EXCEPT !.calls = run[r].calls + n]
      BY <3>1 DEF TInv
    <3>3. /\ run'[r].phase = run[r].phase /\ run'[r].at = run[r].at
          /\ run'[r].done = run[r].done /\ run'[r].final = run[r].final
      BY <1>1, <3>2 DEF States
    <3>. QED
      BY <2>1, <3>3 DEF At
  <2>. QED
    BY <1>4, <2>2, <2>3
       DEF run_loop, TurnLate, TurnRefused, TurnHttpError, TurnGarbled, TurnAnswers,
                            TurnCalls, Statuses
<1>. QED
  BY <1>3, <1>4

LEMMA AInvInit == Init => AInv
BY TInvInit DEF Init, AInv, Workspace, Fresh, At, Idle

\* The part of AInv' that a step of the only runner has to show.
LEMMA AInvOf ==
    ASSUME AInv, Alone, [Next]_vars, NEW r \in Runners, Workspace(r)', Fresh(r)'
    PROVE  AInv'
<1>1. TInv'
  BY TInvStep DEF AInv
<1>2. \A q \in Runners : q = r
  BY DEF Alone
<1>. QED
  BY <1>1, <1>2 DEF AInv

LEMMA AInvStep == ASSUME AInv, Alone, [Next]_vars PROVE AInv'
<1>1. CASE UNCHANGED vars \/ ServerFails \/ ServerRecovers
  <2>1. UNCHANGED <<run, rundirs, work, shells>>
    BY <1>1 DEF vars, ServerFails, ServerRecovers
  <2>2. TInv'
    BY TInvStep DEF AInv
  <2>. QED
    BY <2>1, <2>2 DEF AInv, Workspace, Fresh, At, Mine, Key
<1>2. ASSUME NEW r \in Runners,
             \/ PreflightPasses(r) \/ PreflightOnly(r) \/ cmd_run(r)
             \/ SelftestBegins(r) \/ SelftestTask(r) \/ SelftestEnds(r) \/ Killed(r)
      PROVE  AInv'
  <2>. SUFFICES Workspace(r)' /\ Fresh(r)'
    BY AInvOf
  <2>1. TInv /\ run[r] \in States /\ Workspace(r) /\ Fresh(r)
    BY DEF AInv, TInv
  <2>2. CASE \/ PreflightPasses(r) \/ PlanEnds(r) \/ GiveUp(r) \/ SelftestEnds(r) \/ Killed(r)
             \/ SelftestBegins(r) \/ Record(r)
    <3>1. \/ run'[r] = Idle
          \/ run'[r] = [Idle EXCEPT !.phase = "pick", !.done = done_keys]
          \/ run'[r] = [Idle EXCEPT !.phase = "selftest"]
          \/ run'[r] = Recorded(r)
      BY <2>1, <2>2, Moved
    <3>2. run'[r].phase \in {"idle", "pick", "selftest"} /\ run'[r].final = "none"
      <4>1. Idle \in States /\ Idle.phase = "idle" /\ Idle.final = "none"
        BY IdleFacts DEF Idle
      <4>. QED
        BY <3>1, <4>1 DEF States, Recorded
    <3>. QED
      BY <3>2 DEF Workspace, Fresh, At
  <2>3. CASE PreflightOnly(r)
    <3>1. run'[r] = run[r] /\ run[r].phase = "idle"
      BY <2>3 DEF PreflightOnly, preflight, At
    <3>. QED
      BY <2>1, <3>1 DEF Workspace, Fresh, At
  <2>4. CASE SelftestTask(r)
    <3>1. run'[r] = [run[r] EXCEPT !.at = run[r].at + 1]
      BY <2>1, <2>4, Moved
    <3>2. run[r].phase = "selftest"
      BY <2>4 DEF SelftestTask, At
    <3>3. run'[r].phase = "selftest" /\ run'[r].final = run[r].final
      BY <2>1, <3>1, <3>2 DEF States
    <3>. QED
      BY <2>1, <3>3 DEF Workspace, Fresh, At
  <2>5. CASE Pick(r)
    <3>. DEFINE next == Min(ToDo(r))
    <3>1. run'[r] = PickState(r)
      BY <2>1, <2>5, Moved
    <3>2. run'[r].phase = "wait" /\ run'[r].at = next /\ run'[r].final = "none"
      BY <2>1, <3>1 DEF PickState, States
    <3>3. rundirs' = [rundirs EXCEPT ![plan[next]] = "empty"] /\ plan[next] \in Keys
      BY <2>5, PickFacts, NextFacts, PlanTyped DEF ToDo
    <3>. HIDE DEF next
    <3>4. rundirs'[Key(r)'] = "empty"
      BY <2>1, <3>2, <3>3 DEF Key, TInv, TypeOK
    <3>. QED
      BY <3>2, <3>4 DEF Workspace, Fresh, At
  <2>6. CASE FreshWork(r)
    <3>1. run'[r].phase = "harness" /\ run'[r].at = run[r].at /\ run'[r].final = run[r].final
      BY <2>1, <2>6, Moved DEF States
    <3>2. work' = Mine(r) /\ UNCHANGED rundirs /\ run[r].phase = "wait"
      BY <2>6 DEF FreshWork, At
    <3>. QED
      BY <2>1, <3>1, <3>2 DEF Workspace, Fresh, At, Mine, Key
  <2>7. CASE run_loop(r) \/ run_codex(r)
    <3>1. /\ run[r].phase = "harness" /\ UNCHANGED work
          /\ run'[r].phase \in {"harness", "ended"} /\ run'[r].at = run[r].at
          /\ run'[r].final \in {run[r].final, "none", "own"} \/ rundirs[Key(r)] = "answer"
          /\ run'[r].phase = "harness" => rundirs' = rundirs
      BY <2>1, <2>7, HarnessMoved DEF At
    <3>2. Workspace(r)'
      BY <2>1, <3>1 DEF Workspace, At, Mine
    <3>3. Fresh(r)'
      BY <2>1, <3>1 DEF Fresh, Key
    <3>. QED
      BY <3>2, <3>3
  <2>8. CASE Settle(r) \/ grade(r)
    <3>1. /\ run'[r].phase \in {"grade", "record"} /\ run'[r].at = run[r].at
          /\ run'[r].final = run[r].final
      BY <2>1, <2>8, Moved DEF States
    <3>2. CASE Settle(r)
      <4>1. run[r].phase = "ended" /\ UNCHANGED <<work, rundirs>> /\ shells' = {}
        BY <3>2 DEF Settle, sweep, At
      <4>. QED
        BY <2>1, <3>1, <4>1 DEF Workspace, Fresh, At, Mine
    <3>3. CASE grade(r)
      <4>1. run'[r].phase = "record"
        BY <2>1, <3>3, Moved DEF States
      <4>. QED
        BY <2>1, <3>1, <4>1 DEF Workspace, Fresh, At
    <3>. QED
      BY <2>8, <3>2, <3>3
  <2>. QED
    BY <1>2, <2>2, <2>3, <2>4, <2>5, <2>6, <2>7, <2>8 DEF cmd_run
<1>. QED
  BY <1>1, <1>2 DEF Next

\* With one runner, every run is graded on the copy of WORK that was made for
\* it, when no process of the agent user is left: at any kill, failure of the
\* server and process that a harness leaves behind (GradedAlone).
THEOREM GradedAloneHolds == ASSUME Alone PROVE Spec => []GradedAlone
<1>1. AInv => GradedAlone
  BY DEF AInv, Workspace, GradedAlone, At
<1>2. AInv /\ [Next]_vars => AInv'
  BY AInvStep
<1>. QED
  BY <1>1, <1>2, AInvInit, PTL DEF Spec

\* With one runner, no graded answer is one that an earlier attempt at the same
\* run left in its directory (AnswerIsOwn).
THEOREM AnswerIsOwnHolds == ASSUME Alone PROVE Spec => []AnswerIsOwn
<1>1. AInv => AnswerIsOwn
  BY DEF AInv, Fresh, AnswerIsOwn, At
<1>2. AInv /\ [Next]_vars => AInv'
  BY AInvStep
<1>. QED
  BY <1>1, <1>2, AInvInit, PTL DEF Spec

-----------------------------------------------------------------------------
(* What a runner knows of results.jsonl: when it started, the keys it calls *)
(* done; since then, the plan up to where it is.                            *)

\* No run was counted twice before.
EarlierOnce ==
    \A i, j \in DOMAIN Earlier :
        ~Earlier[i].infra /\ ~Earlier[j].infra /\ KeyOf(Earlier[i]) = KeyOf(Earlier[j]) => i = j

Before(n) == {plan[j] : j \in {i \in DOMAIN plan : i < n}}

Remembered(r) ==
    /\ At(r, "pick") => done_keys \subseteq run[r].done \union Before(run[r].at + 1)
    /\ run[r].phase \in Taken =>
          done_keys \subseteq run[r].done \union Before(run[r].at) /\ Key(r) \notin run[r].done

CInv == TInv /\ CountedOnce /\ \A r \in Runners : Remembered(r)

\* The plan has a run once.
LEMMA NotBefore == ASSUME NEW i \in DOMAIN plan PROVE plan[i] \notin Before(i)
<1>1. IsInjective(plan) /\ DOMAIN plan \subseteq Nat
  BY PlanFacts, PlanTyped
<1>2. \A j \in DOMAIN plan : j < i => plan[j] # plan[i]
  <2>. SUFFICES ASSUME NEW j \in DOMAIN plan, j < i, plan[j] = plan[i] PROVE FALSE
    OBVIOUS
  <2>1. j = i
    BY <1>1 DEF IsInjective
  <2>. QED
    BY <1>1, <2>1
<1>. QED
  BY <1>2 DEF Before

LEMMA BeforeGrows ==
    ASSUME NEW i \in DOMAIN plan
    PROVE  Before(i + 1) = Before(i) \union {plan[i]}
<1>1. DOMAIN plan \subseteq Nat
  BY PlanTyped
<1>2. \A j \in DOMAIN plan : j < i + 1 <=> j < i \/ j = i
  BY <1>1
<1>. QED
  BY <1>2 DEF Before

LEMMA BeforeMonotone ==
    ASSUME NEW m \in Nat, NEW n \in Nat, m <= n
    PROVE  Before(m) \subseteq Before(n)
<1>1. \A j \in DOMAIN plan : j < m => j < n
  BY PlanTyped
<1>. QED
  BY <1>1 DEF Before

LEMMA SameRows ==
    ASSUME UNCHANGED results
    PROVE  done_keys' = done_keys /\ (CountedOnce => CountedOnce')
BY DEF done_keys, CountedOnce

LEMMA CInvInit == ASSUME EarlierOnce PROVE Init => CInv
<1>. SUFFICES ASSUME Init PROVE CInv
  OBVIOUS
<1>1. TInv
  BY TInvInit
<1>2. CountedOnce
  BY DEF Init, CountedOnce, EarlierOnce
<1>3. \A r \in Runners : run[r].phase = "idle"
  BY DEF Init, Idle
<1>. QED
  BY <1>1, <1>2, <1>3 DEF CInv, Remembered, At, Taken

\* A step of the only runner that appends no row.
LEMMA CInvOf ==
    ASSUME CInv, Alone, [Next]_vars, NEW r \in Runners, UNCHANGED results, Remembered(r)'
    PROVE  CInv'
<1>1. TInv'
  BY TInvStep DEF CInv
<1>2. \A q \in Runners : q = r
  BY DEF Alone
<1>3. CountedOnce'
  BY SameRows DEF CInv
<1>. QED
  BY <1>1, <1>2, <1>3 DEF CInv

\* The row of a run is the first of its key that counts.
LEMMA RecordCounts ==
    ASSUME CInv, Alone, [Next]_vars, NEW r \in Runners, Record(r)
    PROVE  CInv'
<1>1. TInv /\ TInv' /\ Remembered(r) /\ CountedOnce /\ results \in Seq(Rows)
  BY TInvStep DEF CInv, TInv, TypeOK
<1>2. /\ run[r].phase = "record" /\ run[r].at \in DOMAIN plan
      /\ results' = Append(results, NewRow(r)) /\ NewRow(r) \in Rows
  BY <1>1, RecordFacts
<1>3. Key(r) \notin done_keys
  <2>1. done_keys \subseteq run[r].done \union Before(run[r].at) /\ Key(r) \notin run[r].done
    BY <1>1, <1>2 DEF Remembered, Taken
  <2>. QED
    BY <1>2, <2>1, NotBefore DEF Key
<1>4. KeyOf(NewRow(r)) = Key(r)
  BY <1>2, PlanTyped DEF KeyOf, NewRow, Key
<1>. DEFINE n == Len(results)
<1>5. /\ n \in Nat /\ DOMAIN results = 1..n /\ DOMAIN results' = 1..n + 1
      /\ \A i \in 1..n : results'[i] = results[i]
      /\ results'[n + 1] = NewRow(r)
  <2>1. /\ Len(results') = n + 1 /\ results'[n + 1] = NewRow(r)
        /\ \A i \in 1..n : results'[i] = results[i]
    BY <1>1, <1>2, AppendProperties
  <2>2. results' \in Seq(Rows)
    BY <1>1, <1>2, AppendProperties
  <2>3. n \in Nat /\ DOMAIN results = 1..n
    BY <1>1, LenProperties
  <2>4. DOMAIN results' = 1..n + 1
    BY <2>1, <2>2, LenProperties
  <2>. QED
    BY <2>1, <2>3, <2>4
<1>. HIDE DEF n
<1>6. \A i \in 1..n + 1 : i \in 1..n \/ i = n + 1
  BY <1>5
<1>7. done_keys' \subseteq done_keys \union {Key(r)}
  BY <1>4, <1>5, <1>6 DEF done_keys
<1>8. CountedOnce'
  <2>. SUFFICES ASSUME NEW i \in DOMAIN results', NEW j \in DOMAIN results',
                       ~results'[i].infra, ~results'[j].infra,
                       KeyOf(results'[i]) = KeyOf(results'[j])
                PROVE  i = j
    BY DEF CountedOnce, KeyOf
  <2>1. ASSUME NEW k \in 1..n, ~results[k].infra PROVE KeyOf(results[k]) # Key(r)
    BY <1>3, <1>5, <2>1 DEF done_keys
  <2>2. CASE i \in 1..n /\ j \in 1..n
    BY <1>1, <1>5, <2>2 DEF CountedOnce
  <2>3. CASE i = n + 1 /\ j \in 1..n
    BY <1>4, <1>5, <2>1, <2>3
  <2>4. CASE i \in 1..n /\ j = n + 1
    BY <1>4, <1>5, <2>1, <2>4
  <2>. QED
    BY <1>5, <1>6, <2>2, <2>3, <2>4
<1>9. Remembered(r)'
  <2>1. run'[r].phase = "pick" /\ run'[r].at = run[r].at /\ run'[r].done = run[r].done
    <3>1. run'[r] = Recorded(r) /\ Idle \in States /\ run[r] \in States
      BY <1>1, Moved, IdleFacts DEF TInv
    <3>. QED
      BY <3>1 DEF Recorded, States
  <2>2. done_keys \subseteq run[r].done \union Before(run[r].at)
    BY <1>1, <1>2 DEF Remembered, Taken
  <2>3. Before(run[r].at + 1) = Before(run[r].at) \union {Key(r)}
    BY <1>2, BeforeGrows DEF Key
  <2>4. done_keys' \subseteq run'[r].done \union Before(run'[r].at + 1)
    BY <1>7, <2>1, <2>2, <2>3
  <2>5. "pick" \notin Taken
    BY DEF Taken
  <2>. QED
    BY <2>1, <2>4, <2>5 DEF Remembered, At, Before
<1>10. \A q \in Runners : q = r
  BY DEF Alone
<1>. QED
  BY <1>1, <1>8, <1>9, <1>10 DEF CInv

\* A step that goes on with the run in hand.
LEMMA StillTaken ==
    ASSUME TInv, NEW r \in Runners,
           FreshWork(r) \/ run_loop(r) \/ run_codex(r) \/ Settle(r) \/ grade(r)
    PROVE  /\ run[r].phase \in Taken /\ run'[r].phase \in Taken
           /\ run'[r].at = run[r].at /\ run'[r].done = run[r].done /\ UNCHANGED results
<1>0. run[r] \in States
  BY DEF TInv
<1>1. CASE run_loop(r) \/ run_codex(r)
  BY <1>1, HarnessMoved DEF At, Taken
<1>2. CASE FreshWork(r)
  <2>1. run[r].phase = "wait" /\ UNCHANGED results
    BY <1>2 DEF FreshWork, At
  <2>2. run'[r] = [run[r] EXCEPT !.phase = "harness"]
    BY <1>2, Moved
  <2>. QED
    BY <1>0, <2>1, <2>2 DEF States, Taken
<1>3. CASE Settle(r)
  <2>1. run[r].phase = "ended" /\ UNCHANGED results
    BY <1>3 DEF Settle, At
  <2>2. run'[r] = [run[r] EXCEPT !.phase = "grade",
                                 !.status = IF server THEN run[r].status ELSE "infra"]
    BY <1>3, Moved
  <2>. QED
    BY <1>0, <2>1, <2>2 DEF States, Taken
<1>4. CASE grade(r)
  <2>1. run[r].phase = "grade" /\ UNCHANGED results
    BY <1>4 DEF grade, At
  <2>2. PICK p \in BOOLEAN : run'[r] = [run[r] EXCEPT !.phase = "record", !.pass = p]
    BY <1>4, Moved
  <2>. QED
    BY <1>0, <2>1, <2>2 DEF States, Taken
<1>. QED
  BY <1>1, <1>2, <1>3, <1>4

\* A step after which the runner has no plan.
LEMMA NoPlan ==
    ASSUME TInv, NEW r \in Runners,
           \/ PlanEnds(r) \/ GiveUp(r) \/ SelftestEnds(r) \/ Killed(r)
           \/ SelftestBegins(r) \/ SelftestTask(r) \/ PreflightOnly(r)
    PROVE  run'[r].phase \in {"idle", "selftest"} /\ UNCHANGED results
<1>1. UNCHANGED results
  BY DEF PlanEnds, GiveUp, SelftestEnds, Killed, SelftestBegins, SelftestTask, PreflightOnly,
         preflight
<1>2. Idle \in States /\ Idle.phase = "idle" /\ run[r] \in States
  BY IdleFacts DEF Idle, TInv
<1>3. CASE PreflightOnly(r)
  BY <1>1, <1>3 DEF PreflightOnly, preflight, At
<1>4. CASE SelftestTask(r)
  <2>1. run'[r] = [run[r] EXCEPT !.at = run[r].at + 1]
    BY <1>4, Moved
  <2>2. run[r].phase = "selftest"
    BY <1>4 DEF SelftestTask, At
  <2>. QED
    BY <1>1, <1>2, <2>1, <2>2 DEF States
<1>5. CASE ~PreflightOnly(r) /\ ~SelftestTask(r)
  <2>1. run'[r] = Idle \/ run'[r] = [Idle EXCEPT !.phase = "selftest"]
    BY <1>5, Moved
  <2>. QED
    BY <1>1, <1>2, <2>1 DEF States
<1>. QED
  BY <1>3, <1>4, <1>5

LEMMA CInvStep == ASSUME CInv, Alone, [Next]_vars PROVE CInv'
<1>1. CASE UNCHANGED vars \/ ServerFails \/ ServerRecovers
  <2>1. UNCHANGED <<run, results>>
    BY <1>1 DEF vars, ServerFails, ServerRecovers
  <2>2. TInv'
    BY TInvStep DEF CInv
  <2>3. done_keys' = done_keys /\ CountedOnce'
    BY <2>1, SameRows DEF CInv
  <2>. QED
    BY <2>1, <2>2, <2>3 DEF CInv, Remembered, At, Key, Before
<1>2. ASSUME NEW r \in Runners,
             \/ PreflightPasses(r) \/ PreflightOnly(r) \/ cmd_run(r)
             \/ SelftestBegins(r) \/ SelftestTask(r) \/ SelftestEnds(r) \/ Killed(r)
      PROVE  CInv'
  <2>1. TInv /\ run[r] \in States /\ Remembered(r)
    BY DEF CInv, TInv
  <2>2. CASE \/ PlanEnds(r) \/ GiveUp(r) \/ SelftestEnds(r) \/ Killed(r)
             \/ SelftestBegins(r) \/ SelftestTask(r) \/ PreflightOnly(r)
    <3>1. run'[r].phase \in {"idle", "selftest"}
      BY <2>1, <2>2, NoPlan
    <3>2. UNCHANGED results
      BY <2>1, <2>2, NoPlan
    <3>3. Remembered(r)'
      BY <3>1 DEF Remembered, At, Taken
    <3>. QED
      BY <3>2, <3>3, CInvOf
  <2>3. CASE PreflightPasses(r)
    <3>1. UNCHANGED results
      BY <2>3 DEF PreflightPasses, preflight
    <3>2. run'[r].phase = "pick" /\ run'[r].done = done_keys
      <4>1. Idle \in States /\ run'[r] = [Idle EXCEPT !.phase = "pick", !.done = done_keys]
        BY <2>1, <2>3, Moved, IdleFacts
      <4>. QED
        BY <4>1 DEF States
    <3>3. done_keys' = done_keys
      BY <3>1, SameRows
    <3>4. Remembered(r)'
      BY <3>2, <3>3 DEF Remembered, At, Taken
    <3>. QED
      BY <3>1, <3>4, CInvOf
  <2>4. CASE Pick(r)
    <3>. DEFINE next == Min(ToDo(r))
    <3>1. UNCHANGED results /\ run[r].phase = "pick"
      BY <2>4, PickFacts DEF At
    <3>2. run'[r].phase = "wait" /\ run'[r].at = next /\ run'[r].done = run[r].done
      <4>1. run'[r] = PickState(r)
        BY <2>1, <2>4, Moved
      <4>. QED
        BY <2>1, <4>1 DEF PickState, States
    <3>3. next \in DOMAIN plan /\ next \in Nat /\ next > run[r].at /\ plan[next] \notin run[r].done
      BY <2>4, PickFacts, NextFacts, PlanTyped DEF ToDo
    <3>. HIDE DEF next
    <3>4. done_keys' \subseteq run'[r].done \union Before(run'[r].at)
      <4>1. run[r].at \in Nat /\ run[r].at + 1 \in Nat /\ run[r].at + 1 <= next
        BY <2>1, <3>3 DEF States
      <4>2. Before(run[r].at + 1) \subseteq Before(next)
        BY <3>3, <4>1, BeforeMonotone
      <4>3. done_keys \subseteq run[r].done \union Before(run[r].at + 1)
        BY <2>1, <3>1 DEF Remembered, At
      <4>4. done_keys' = done_keys
        BY <3>1, SameRows
      <4>. QED
        BY <3>2, <4>2, <4>3, <4>4
    <3>5. Remembered(r)'
      BY <3>2, <3>3, <3>4 DEF Remembered, At, Key, Before
    <3>. QED
      BY <3>1, <3>5, CInvOf
  <2>5. CASE FreshWork(r) \/ run_loop(r) \/ run_codex(r) \/ Settle(r) \/ grade(r)
    <3>1. /\ run[r].phase \in Taken /\ run'[r].phase \in Taken
          /\ run'[r].at = run[r].at /\ run'[r].done = run[r].done /\ UNCHANGED results
      BY <2>1, <2>5, StillTaken
    <3>2. done_keys' = done_keys
      BY <3>1, SameRows
    <3>3. Remembered(r)'
      <4>1. done_keys' \subseteq run'[r].done \union Before(run'[r].at) /\ Key(r)' \notin run'[r].done
        BY <2>1, <3>1, <3>2 DEF Remembered, Key
      <4>2. "pick" \notin Taken
        BY DEF Taken
      <4>. QED
        BY <3>1, <4>1, <4>2 DEF Remembered, At, Before
    <3>. QED
      BY <3>1, <3>3, CInvOf
  <2>. QED
    BY <1>2, <2>2, <2>3, <2>4, <2>5, RecordCounts DEF cmd_run
<1>. QED
  BY <1>1, <1>2 DEF Next

\* However often one runner is killed and started again, and whatever of its
\* runs came to nothing, results.jsonl never counts a run of the plan twice, if
\* it did not before (CountedOnce).  The plan itself has every run once.
THEOREM CountedOnceHolds == ASSUME Alone, EarlierOnce PROVE Spec => []CountedOnce
<1>1. CInv => CountedOnce
  BY DEF CInv
<1>2. CInv /\ [Next]_vars => CInv'
  BY CInvStep
<1>3. Init => CInv
  BY CInvInit
<1>. QED
  BY <1>1, <1>2, <1>3, PTL DEF Spec

-----------------------------------------------------------------------------
(* What a pass has behind it has rows, with any number of runners.          *)

Attempted == {KeyOf(results[i]) : i \in DOMAIN results}

Covered(r) ==
    /\ At(r, "pick") => run[r].done \union Before(run[r].at + 1) \subseteq Attempted
    /\ run[r].phase \in Taken => run[r].done \union Before(run[r].at) \subseteq Attempted

SInv == TInv /\ \A r \in Runners : Covered(r)

StepOf(r) ==
    \/ PreflightPasses(r) \/ PreflightOnly(r) \/ cmd_run(r)
    \/ SelftestBegins(r) \/ SelftestTask(r) \/ SelftestEnds(r) \/ Killed(r)

\* A runner's step is its own.
LEMMA OthersStay ==
    ASSUME TInv, NEW r \in Runners, NEW q \in Runners, q # r, StepOf(r)
    PROVE  run'[q] = run[q]
<1>1. run \in [Runners -> States]
  BY DEF TInv
<1>2. CASE run_loop(r)
  BY <1>1, <1>2 DEF run_loop, TurnLate, TurnRefused, TurnHttpError, TurnGarbled, TurnAnswers,
                    TurnCalls, Ends
<1>3. CASE run_codex(r)
  <2>1. PICK status \in {"timeout", "failed", "answered", "infra"}, wrote \in BOOLEAN :
            CodexEnds(r, status, wrote)
    BY <1>3, CodexFacts
  <2>. QED
    BY <1>1, <2>1 DEF CodexEnds, Ends
<1>4. CASE Pick(r) \/ PlanEnds(r) \/ FreshWork(r) \/ GiveUp(r) \/ Settle(r) \/ grade(r) \/ Record(r)
  BY <1>1, <1>4, PickFacts, RecordFacts
     DEF PlanEnds, FreshWork, Goto, GiveUp, Settle, grade
<1>5. CASE \/ PreflightPasses(r) \/ PreflightOnly(r) \/ SelftestBegins(r) \/ SelftestTask(r)
           \/ SelftestEnds(r) \/ Killed(r)
  BY <1>1, <1>5 DEF PreflightPasses, PreflightOnly, SelftestBegins, SelftestTask, SelftestEnds,
                    Killed
<1>. QED
  BY <1>2, <1>3, <1>4, <1>5 DEF StepOf, cmd_run

\* Rows are only added, and a record is a row of its run.
LEMMA RowsStay == ASSUME UNCHANGED results PROVE Attempted' = Attempted
BY DEF Attempted

LEMMA RowAdded ==
    ASSUME TInv, NEW r \in Runners, Record(r)
    PROVE  Attempted \subseteq Attempted' /\ Key(r) \in Attempted'
<1>1. /\ run[r].at \in DOMAIN plan /\ results' = Append(results, NewRow(r))
      /\ NewRow(r) \in Rows /\ results \in Seq(Rows)
  BY RecordFacts DEF TInv, TypeOK
<1>2. KeyOf(NewRow(r)) = Key(r)
  BY <1>1, PlanTyped DEF KeyOf, NewRow, Key
<1>3. /\ results' \in Seq(Rows) /\ Len(results') = Len(results) + 1
      /\ results'[Len(results) + 1] = NewRow(r)
      /\ \A i \in 1..Len(results) : results'[i] = results[i]
  BY <1>1, AppendProperties
<1>4. /\ Len(results) \in Nat /\ DOMAIN results = 1..Len(results)
      /\ DOMAIN results' = 1..Len(results')
  BY <1>1, <1>3, LenProperties
<1>5. Len(results) + 1 \in DOMAIN results' /\ DOMAIN results \subseteq DOMAIN results'
  BY <1>3, <1>4
<1>. QED
  BY <1>2, <1>3, <1>4, <1>5 DEF Attempted

\* The part of SInv' that a step of r has to show.
LEMMA SInvOf ==
    ASSUME SInv, [Next]_vars, NEW r \in Runners, StepOf(r), Attempted \subseteq Attempted',
           Covered(r)'
    PROVE  SInv'
<1>1. TInv'
  BY TInvStep DEF SInv
<1>2. ASSUME NEW q \in Runners, q # r PROVE Covered(q)'
  <2>1. run'[q] = run[q] /\ Covered(q)
    BY <1>2, OthersStay DEF SInv
  <2>. QED
    BY <2>1 DEF Covered, At, Before
<1>. QED
  BY <1>1, <1>2 DEF SInv

LEMMA SInvStep == ASSUME SInv, [Next]_vars PROVE SInv'
<1>1. CASE UNCHANGED vars \/ ServerFails \/ ServerRecovers
  <2>1. UNCHANGED <<run, results>>
    BY <1>1 DEF vars, ServerFails, ServerRecovers
  <2>2. TInv' /\ Attempted' = Attempted
    BY <2>1, TInvStep, RowsStay DEF SInv
  <2>. QED
    BY <2>1, <2>2 DEF SInv, Covered, At, Before
<1>2. ASSUME NEW r \in Runners, StepOf(r) PROVE SInv'
  <2>1. TInv /\ run[r] \in States /\ Covered(r)
    BY DEF SInv, TInv
  <2>2. CASE \/ PlanEnds(r) \/ GiveUp(r) \/ SelftestEnds(r) \/ Killed(r)
             \/ SelftestBegins(r) \/ SelftestTask(r) \/ PreflightOnly(r)
    <3>1. run'[r].phase \in {"idle", "selftest"} /\ Attempted' = Attempted
      BY <2>1, <2>2, NoPlan, RowsStay
    <3>2. Covered(r)'
      BY <3>1 DEF Covered, At, Taken
    <3>. QED
      BY <1>2, <3>1, <3>2, SInvOf
  <2>3. CASE PreflightPasses(r)
    <3>1. Attempted' = Attempted
      BY <2>3, RowsStay DEF PreflightPasses, preflight
    <3>2. run'[r].phase = "pick" /\ run'[r].done = done_keys /\ run'[r].at = 0
      <4>1. /\ Idle \in States /\ Idle.at = 0
            /\ run'[r] = [Idle EXCEPT !.phase = "pick", !.done = done_keys]
        BY <2>1, <2>3, Moved, IdleFacts DEF Idle
      <4>. QED
        BY <4>1 DEF States
    <3>3. done_keys \subseteq Attempted /\ Before(0 + 1) = {}
      <4>1. done_keys \subseteq Attempted
        BY DEF done_keys, Attempted
      <4>2. \A i \in DOMAIN plan : ~(i < 0 + 1)
        <5>1. plan \in Seq(Keys)
          BY PlanTyped
        <5>2. DOMAIN plan = 1..Len(plan) /\ Len(plan) \in Nat
          BY <5>1, LenProperties
        <5>. QED
          BY <5>2
      <4>. QED
        BY <4>1, <4>2 DEF Before
    <3>4. Covered(r)'
      BY <3>1, <3>2, <3>3 DEF Covered, At, Taken, Before
    <3>. QED
      BY <1>2, <3>1, <3>4, SInvOf
  <2>4. CASE Pick(r)
    <3>. DEFINE next == Min(ToDo(r))
    <3>1. Attempted' = Attempted /\ run[r].phase = "pick"
      BY <2>4, PickFacts, RowsStay DEF At
    <3>2. run'[r].phase = "wait" /\ run'[r].at = next /\ run'[r].done = run[r].done
      <4>1. run'[r] = PickState(r)
        BY <2>1, <2>4, Moved
      <4>. QED
        BY <2>1, <4>1 DEF PickState, States
    <3>3. next \in Nat /\ \A i \in ToDo(r) : next <= i
      BY <2>4, PickFacts, NextFacts, PlanTyped DEF ToDo
    <3>. HIDE DEF next
    <3>4. Before(next) \subseteq run[r].done \union Before(run[r].at + 1)
      <4>. SUFFICES ASSUME NEW i \in DOMAIN plan, i < next, plan[i] \notin run[r].done
                    PROVE  i < run[r].at + 1
        BY DEF Before
      <4>1. i \notin ToDo(r) /\ i \in Nat /\ run[r].at \in Nat
        BY <2>1, <3>3, PlanTyped DEF States
      <4>. QED
        BY <4>1 DEF ToDo
    <3>5. run[r].done \union Before(run[r].at + 1) \subseteq Attempted
      BY <2>1, <3>1 DEF Covered, At
    <3>6. Covered(r)'
      BY <3>1, <3>2, <3>4, <3>5 DEF Covered, At, Taken, Before
    <3>. QED
      BY <1>2, <3>1, <3>6, SInvOf
  <2>5. CASE FreshWork(r) \/ run_loop(r) \/ run_codex(r) \/ Settle(r) \/ grade(r)
    <3>1. /\ run[r].phase \in Taken /\ run'[r].phase \in Taken
          /\ run'[r].at = run[r].at /\ run'[r].done = run[r].done /\ Attempted' = Attempted
      BY <2>1, <2>5, StillTaken, RowsStay
    <3>2. "pick" \notin Taken
      BY DEF Taken
    <3>3. Covered(r)'
      BY <2>1, <3>1, <3>2 DEF Covered, At, Before
    <3>. QED
      BY <1>2, <3>1, <3>3, SInvOf
  <2>6. CASE Record(r)
    <3>1. run[r].phase = "record" /\ run[r].at \in DOMAIN plan
      BY <2>1, <2>6, RecordFacts
    <3>2. run'[r].phase = "pick" /\ run'[r].at = run[r].at /\ run'[r].done = run[r].done
      <4>1. run'[r] = Recorded(r) /\ Idle \in States
        BY <2>1, <2>6, Moved, IdleFacts
      <4>. QED
        BY <2>1, <4>1 DEF Recorded, States
    <3>3. run[r].done \union Before(run[r].at) \subseteq Attempted
      BY <2>1, <3>1 DEF Covered, Taken
    <3>4. Attempted \subseteq Attempted' /\ Key(r) \in Attempted'
      BY <2>1, <2>6, RowAdded
    <3>5. Before(run[r].at + 1) = Before(run[r].at) \union {Key(r)}
      BY <3>1, BeforeGrows DEF Key
    <3>6. run'[r].done \union Before(run'[r].at + 1) \subseteq Attempted'
      BY <3>2, <3>3, <3>4, <3>5
    <3>7. Covered(r)'
      BY <3>2, <3>6 DEF Covered, At, Taken, Before
    <3>. QED
      BY <1>2, <3>4, <3>7, SInvOf
  <2>. QED
    BY <1>2, <2>2, <2>3, <2>4, <2>5, <2>6 DEF StepOf, cmd_run
<1>. QED
  BY <1>1, <1>2 DEF Next, StepOf

\* Where a plan ends, every run of it was taken or was done.
LEMMA EndIsCovered ==
    ASSUME SInv, NEW r \in Runners, PlanEnds(r), NEW k \in ToSet(plan)
    PROVE  \E i \in DOMAIN results : KeyOf(results[i]) = k
<1>1. PICK j \in DOMAIN plan : plan[j] = k
  BY DEF ToSet
<1>2. At(r, "pick") /\ (j > run[r].at => plan[j] \in run[r].done)
  BY DEF PlanEnds
<1>3. run[r].done \union Before(run[r].at + 1) \subseteq Attempted
  BY <1>2 DEF SInv, Covered
<1>4. j \in Nat /\ run[r].at \in Nat
  BY PlanTyped DEF SInv, TInv, States
<1>5. CASE j > run[r].at
  BY <1>1, <1>2, <1>3, <1>5 DEF Attempted
<1>6. CASE j < run[r].at + 1
  BY <1>1, <1>3, <1>6 DEF Attempted, Before
<1>. QED
  BY <1>4, <1>5, <1>6

\* With any number of runners, killed and resumed at any step, a pass that comes
\* to the end of its plan leaves no run of it without a row (NothingIsSkipped).
THEOREM NothingIsSkippedHolds == Spec => NothingIsSkipped
<1>1. Init => SInv
  <2>. SUFFICES ASSUME Init PROVE SInv
    OBVIOUS
  <2>1. \A r \in Runners : run[r].phase = "idle"
    BY DEF Init, Idle
  <2>. QED
    BY <2>1, TInvInit DEF SInv, Covered, At, Taken
<1>2. SInv /\ [Next]_vars => SInv'
  BY SInvStep
<1>3. SInv /\ [Next]_vars
        => [\A r \in Runners : PlanEnds(r) =>
              \A k \in ToSet(plan) : \E i \in DOMAIN results : KeyOf(results[i]) = k]_vars
  BY EndIsCovered
<1>. QED
  BY <1>1, <1>2, <1>3, PTL DEF Spec, NothingIsSkipped

-----------------------------------------------------------------------------
(* How far a pass is from its end.                                          *)

\* A run of the plan weighs more than every step that can be made with it.
Weight == MaxCalls + 7

PassLeft(st) ==
    CASE st.phase = "idle"     -> 0
      [] st.phase = "pick"     -> (Len(plan) - st.at) * Weight + 1
      [] st.phase = "wait"     -> (Len(plan) - st.at) * Weight + MaxCalls + 7
      [] st.phase = "harness"  -> (Len(plan) - st.at) * Weight + MaxCalls + 6 - st.calls
      [] st.phase = "ended"    -> (Len(plan) - st.at) * Weight + 4
      [] st.phase = "grade"    -> (Len(plan) - st.at) * Weight + 3
      [] st.phase = "record"   -> (Len(plan) - st.at) * Weight + 2
      [] st.phase = "selftest" -> Len(TaskIds) - st.at + 1

PassGetsOn ==
    [][\A r \in Runners : run[r].phase # "idle" /\ run'[r] # run[r]
          => PassLeft(run[r]) \in Nat /\ PassLeft(run'[r]) < PassLeft(run[r])]_vars

\* How far in its list a runner can be.
OnPlan(st) ==
    /\ st.phase = "pick" => st.at \in 0..Len(plan)
    /\ st.phase = "selftest" => st.at \in 0..Len(TaskIds)

PInv == TInv /\ \A r \in Runners : OnPlan(run[r])

\* What is left at a later run of the plan is less than at an earlier one.
LEMMA Lighter ==
    ASSUME NEW L \in Nat, NEW a \in 0..L, NEW b \in 0..L, a < b
    PROVE  (L - b) * Weight + MaxCalls + 7 < (L - a) * Weight + 1
<1>1. PICK W \in Nat : W = Weight /\ W = MaxCalls + 7
  BY BenchAssumption DEF Weight
<1>2. PICK d \in Nat : L - a = (L - b) + 1 + d
  <2>1. b - a - 1 \in Nat /\ L - a = (L - b) + 1 + (b - a - 1)
    OBVIOUS
  <2>. QED
    BY <2>1
<1>3. PICK e \in Nat : e = L - b
  OBVIOUS
<1>4. PICK x \in Nat, y \in Nat : x = e * W /\ y = d * W
  BY <1>1
<1>5. (L - a) * W = x + W + y /\ (L - b) * W = x
  <2>1. L - a = e + 1 + d
    BY <1>2, <1>3
  <2>2. (e + 1 + d) * W = e * W + W + d * W
    BY <1>1
  <2>. QED
    BY <1>3, <1>4, <2>1, <2>2
<1>6. (L - a) * Weight = x + W + y /\ (L - b) * Weight = x
  BY <1>1, <1>5
<1>. HIDE DEF Weight
<1>. QED
  BY <1>1, <1>6, BenchAssumption

\* It is a number, and nothing for an idle runner only.
LEMMA PassTyped ==
    ASSUME NEW st \in States, InPlan(st), OnPlan(st)
    PROVE  PassLeft(st) \in Nat /\ (PassLeft(st) = 0 <=> st.phase = "idle")
<1>1. Len(plan) \in Nat /\ DOMAIN plan = 1..Len(plan) /\ Len(TaskIds) \in Nat /\ MaxCalls \in Nat
  BY PlanFacts, LenProperties, BenchAssumption
<1>2. st.phase \in Taken \union {"pick"} => st.at \in 0..Len(plan)
  BY <1>1 DEF InPlan, OnPlan
<1>3. st.phase \in Phases /\ st.calls \in 0..MaxCalls + 1
  BY DEF States
<1>4. CASE st.phase \in Taken \union {"pick"}
  <2>1. PICK d \in Nat : d = Len(plan) - st.at
    BY <1>1, <1>2, <1>4
  <2>2. PICK x \in Nat : x = d * Weight
    BY <1>1 DEF Weight
  <2>3. x = (Len(plan) - st.at) * Weight
    BY <2>1, <2>2
  <2>4. PICK m \in Nat, c \in Nat : m = MaxCalls /\ c = st.calls /\ c <= m + 1
    BY <1>1, <1>3
  <2>5. PassLeft(st) \in {x + 1, x + m + 7, x + m + 6 - c, x + 4, x + 3, x + 2}
    BY <1>4, <2>3, <2>4 DEF PassLeft, Taken
  <2>6. st.phase # "idle"
    BY <1>4 DEF Taken
  <2>. QED
    BY <2>4, <2>5, <2>6
<1>5. CASE st.phase \in {"idle", "selftest"}
  BY <1>1, <1>5 DEF PassLeft, OnPlan
<1>. QED
  BY <1>3, <1>4, <1>5 DEF Taken, Phases

\* A harness that goes on has had one or two calls more.
LEMMA HarnessCalls ==
    ASSUME TInv, NEW r \in Runners, run_loop(r) \/ run_codex(r), run'[r].phase = "harness"
    PROVE  \E n \in 1..2 : run'[r].calls = run[r].calls + n
<1>1. run[r] \in States /\ run \in [Runners -> States]
  BY DEF TInv
<1>2. ASSUME NEW status, NEW final PROVE ~Ends(r, status, final)
  <2>. SUFFICES ASSUME Ends(r, status, final) PROVE FALSE
    OBVIOUS
  <2>1. run'[r] = [run[r] EXCEPT !.phase = "ended", !.status = status, !.final = final]
    BY <1>1 DEF Ends
  <2>2. run'[r].phase = "ended"
    BY <1>1, <2>1 DEF States
  <2>. QED
    BY <2>2
<1>3. ~run_codex(r)
  BY <1>2, CodexFacts DEF CodexEnds
<1>4. PICK n \in 1..2 : run' = [run EXCEPT ![r].calls = @ + n]
  BY <1>2, <1>3 DEF run_loop, TurnLate, TurnRefused, TurnHttpError, TurnGarbled, TurnAnswers,
                    TurnCalls
<1>5. run'[r] = [run[r] EXCEPT !.calls = run[r].calls + n]
  BY <1>1, <1>4
<1>6. run'[r].calls = run[r].calls + n
  BY <1>1, <1>5 DEF States
<1>. QED
  BY <1>6

\* The steps within a run of the plan.
LEMMA RunLighter ==
    ASSUME TInv, NEW r \in Runners,
           FreshWork(r) \/ run_loop(r) \/ run_codex(r) \/ Settle(r) \/ grade(r) \/ Record(r)
    PROVE  OnPlan(run'[r]) /\ PassLeft(run'[r]) < PassLeft(run[r])
<1>1. run[r] \in States /\ run[r].calls \in 0..MaxCalls + 1 /\ MaxCalls \in Nat
  BY BenchAssumption DEF TInv, States
<1>2. run[r].phase \in Taken /\ run[r].at \in 0..Len(plan)
  <2>1. run[r].phase \in Taken
    BY StillTaken, RecordFacts DEF Taken
  <2>2. Len(plan) \in Nat /\ DOMAIN plan = 1..Len(plan)
    BY PlanFacts, LenProperties
  <2>3. run[r].at \in DOMAIN plan
    BY <2>1 DEF TInv, InPlan
  <2>. QED
    BY <2>1, <2>2, <2>3
<1>3. PICK x \in Nat : x = (Len(plan) - run[r].at) * Weight
  <2>1. PICK d \in Nat : d = Len(plan) - run[r].at
    <3>1. Len(plan) \in Nat
      BY PlanFacts, LenProperties
    <3>. QED
      BY <1>2, <3>1
  <2>2. d * Weight \in Nat
    BY <1>1 DEF Weight
  <2>. QED
    BY <2>1, <2>2
<1>4. PICK m \in Nat, c \in Nat : m = MaxCalls /\ c = run[r].calls /\ c <= m + 1
  BY <1>1
<1>5. CASE FreshWork(r)
  <2>1. run[r].phase = "wait" /\ run'[r] = [run[r] EXCEPT !.phase = "harness"]
    BY <1>5, Moved DEF FreshWork, At
  <2>2. run'[r].phase = "harness" /\ run'[r].at = run[r].at /\ run'[r].calls = c
    BY <1>1, <1>4, <2>1 DEF States
  <2>3. PassLeft(run'[r]) = x + m + 6 - c /\ PassLeft(run[r]) = x + m + 7
    BY <1>3, <1>4, <2>1, <2>2 DEF PassLeft
  <2>. QED
    BY <1>4, <2>2, <2>3 DEF OnPlan
<1>6. CASE run_loop(r) \/ run_codex(r)
  <2>1. run[r].phase = "harness" /\ run'[r].at = run[r].at /\ run'[r].phase \in {"harness", "ended"}
    BY <1>6, HarnessMoved DEF At
  <2>2. PassLeft(run[r]) = x + m + 6 - c
    BY <1>3, <1>4, <2>1 DEF PassLeft
  <2>3. CASE run'[r].phase = "ended"
    <3>1. PassLeft(run'[r]) = x + 4
      BY <1>3, <2>1, <2>3 DEF PassLeft
    <3>. QED
      BY <1>4, <2>2, <2>3, <3>1 DEF OnPlan
  <2>4. CASE run'[r].phase = "harness"
    <3>1. PICK n \in 1..2 : run'[r].calls = c + n
      BY <1>6, <2>4, HarnessCalls, <1>4
    <3>2. PassLeft(run'[r]) = x + m + 6 - (c + n)
      BY <1>3, <1>4, <2>1, <2>4, <3>1 DEF PassLeft
    <3>3. x + m + 6 - (c + n) < x + m + 6 - c
      OBVIOUS
    <3>. QED
      BY <2>2, <2>4, <3>2, <3>3 DEF OnPlan
  <2>. QED
    BY <2>1, <2>3, <2>4
<1>7. CASE Settle(r)
  <2>1. /\ run[r].phase = "ended"
        /\ run'[r] = [run[r] EXCEPT !.phase = "grade",
                                    !.status = IF server THEN run[r].status ELSE "infra"]
    BY <1>7, Moved DEF Settle, At
  <2>2. run'[r].phase = "grade" /\ run'[r].at = run[r].at
    BY <1>1, <2>1 DEF States
  <2>3. PassLeft(run'[r]) = x + 3 /\ PassLeft(run[r]) = x + 4
    BY <1>3, <2>1, <2>2 DEF PassLeft
  <2>. QED
    BY <2>2, <2>3 DEF OnPlan
<1>8. CASE grade(r)
  <2>1. run[r].phase = "grade"
    BY <1>8 DEF grade, At
  <2>2. PICK p \in BOOLEAN : run'[r] = [run[r] EXCEPT !.phase = "record", !.pass = p]
    BY <1>8, Moved
  <2>3. run'[r].phase = "record" /\ run'[r].at = run[r].at
    BY <1>1, <2>2 DEF States
  <2>4. PassLeft(run'[r]) = x + 2 /\ PassLeft(run[r]) = x + 3
    BY <1>3, <2>1, <2>3 DEF PassLeft
  <2>. QED
    BY <2>3, <2>4 DEF OnPlan
<1>9. CASE Record(r)
  <2>1. run[r].phase = "record" /\ run'[r] = Recorded(r) /\ Idle \in States
    BY <1>9, Moved, RecordFacts, IdleFacts
  <2>2. run'[r].phase = "pick" /\ run'[r].at = run[r].at
    BY <1>1, <2>1 DEF Recorded, States
  <2>3. PassLeft(run'[r]) = x + 1 /\ PassLeft(run[r]) = x + 2
    BY <1>3, <2>1, <2>2 DEF PassLeft
  <2>. QED
    BY <1>2, <2>2, <2>3 DEF OnPlan
<1>. QED
  BY <1>5, <1>6, <1>7, <1>8, <1>9

\* A step of a runner that is not idle.
LEMMA StepLighter ==
    ASSUME PInv, NEW r \in Runners, StepOf(r), run[r].phase # "idle"
    PROVE  OnPlan(run'[r]) /\ PassLeft(run'[r]) < PassLeft(run[r])
<1>1. TInv /\ run[r] \in States /\ InPlan(run[r]) /\ OnPlan(run[r])
  BY DEF PInv, TInv
<1>2. PassLeft(run[r]) \in Nat
  BY <1>1, PassTyped
<1>3. CASE PlanEnds(r) \/ GiveUp(r) \/ SelftestEnds(r) \/ Killed(r)
  <2>1. run'[r] = Idle
    BY <1>1, <1>3, Moved
  <2>2. run'[r].phase = "idle" /\ PassLeft(run'[r]) = 0
    BY <2>1 DEF Idle, PassLeft
  <2>3. PassLeft(run[r]) # 0
    BY <1>1, <1>2, PassTyped
  <2>. QED
    BY <1>2, <2>2, <2>3 DEF OnPlan
<1>4. CASE SelftestTask(r)
  <2>1. /\ run[r].phase = "selftest" /\ run[r].at < Len(TaskIds)
        /\ run'[r] = [run[r] EXCEPT !.at = run[r].at + 1]
    BY <1>1, <1>4, Moved DEF SelftestTask, At
  <2>2. run'[r].phase = "selftest" /\ run'[r].at = run[r].at + 1 /\ run[r].at \in Nat
    BY <1>1, <2>1 DEF States
  <2>3. Len(TaskIds) \in Nat
    BY LenProperties, BenchAssumption
  <2>4. /\ PassLeft(run'[r]) = Len(TaskIds) - (run[r].at + 1) + 1
        /\ PassLeft(run[r]) = Len(TaskIds) - run[r].at + 1
    BY <2>1, <2>2 DEF PassLeft
  <2>. QED
    BY <2>1, <2>2, <2>3, <2>4 DEF OnPlan
<1>5. CASE Pick(r)
  <2>. DEFINE next == Min(ToDo(r))
  <2>1. run[r].phase = "pick" /\ run'[r] = PickState(r)
    BY <1>1, <1>5, Moved, PickFacts DEF At
  <2>2. next \in DOMAIN plan /\ next > run[r].at
    BY <1>5, PickFacts, NextFacts DEF ToDo
  <2>3. run'[r].phase = "wait" /\ run'[r].at = next
    BY <1>1, <2>1 DEF PickState, States
  <2>. HIDE DEF next
  <2>4. Len(plan) \in Nat /\ next \in 0..Len(plan) /\ run[r].at \in 0..Len(plan)
    <3>1. Len(plan) \in Nat /\ DOMAIN plan = 1..Len(plan)
      BY PlanFacts, LenProperties
    <3>. QED
      BY <1>1, <2>1, <2>2, <3>1 DEF OnPlan
  <2>5. (Len(plan) - next) * Weight + MaxCalls + 7 < (Len(plan) - run[r].at) * Weight + 1
    BY <2>2, <2>4, Lighter
  <2>6. /\ PassLeft(run'[r]) = (Len(plan) - next) * Weight + MaxCalls + 7
        /\ PassLeft(run[r]) = (Len(plan) - run[r].at) * Weight + 1
    BY <2>1, <2>3 DEF PassLeft
  <2>. QED
    BY <2>3, <2>5, <2>6 DEF OnPlan
<1>6. ~(PreflightPasses(r) \/ PreflightOnly(r) \/ SelftestBegins(r))
  BY DEF PreflightPasses, PreflightOnly, preflight, SelftestBegins, At
<1>. QED
  BY <1>1, <1>3, <1>4, <1>5, <1>6, RunLighter DEF StepOf, cmd_run

LEMMA PInvStep == ASSUME PInv, [Next]_vars PROVE PInv'
<1>1. TInv /\ TInv'
  BY TInvStep DEF PInv
<1>2. ASSUME NEW r \in Runners, NEW q \in Runners, StepOf(q) PROVE OnPlan(run'[r])
  <2>1. CASE q # r
    BY <1>1, <1>2, <2>1, OthersStay DEF PInv
  <2>2. CASE q = r /\ run[r].phase # "idle"
    BY <1>2, <2>2, StepLighter
  <2>3. CASE q = r /\ run[r].phase = "idle"
    <3>1. CASE PreflightPasses(r) \/ SelftestBegins(r)
      <4>1. /\ Idle \in States /\ Idle.at = 0
            /\ \/ run'[r] = [Idle EXCEPT !.phase = "pick", !.done = done_keys]
               \/ run'[r] = [Idle EXCEPT !.phase = "selftest"]
        BY <1>1, <3>1, Moved, IdleFacts DEF Idle
      <4>2. run'[r].at = 0
        BY <4>1 DEF States
      <4>3. Len(plan) \in Nat /\ Len(TaskIds) \in Nat
        BY PlanFacts, LenProperties, BenchAssumption
      <4>. QED
        BY <4>2, <4>3 DEF OnPlan
    <3>2. CASE PreflightOnly(r)
      BY <3>2 DEF PreflightOnly, PInv
    <3>3. ~cmd_run(r) /\ ~SelftestTask(r) /\ ~SelftestEnds(r) /\ ~Killed(r)
      <4>1. ~(run_loop(r) \/ run_codex(r) \/ Pick(r) \/ Record(r))
        BY <1>1, <2>3, HarnessMoved, PickFacts, RecordFacts DEF At
      <4>. QED
        BY <2>3, <4>1 DEF cmd_run, PlanEnds, FreshWork, GiveUp, Settle, grade, SelftestTask,
                          SelftestEnds, Killed, At
    <3>. QED
      BY <1>2, <2>3, <3>1, <3>2, <3>3 DEF StepOf
  <2>. QED
    BY <2>1, <2>2, <2>3
<1>3. CASE UNCHANGED vars \/ ServerFails \/ ServerRecovers
  <2>1. UNCHANGED run
    BY <1>3 DEF vars, ServerFails, ServerRecovers
  <2>. QED
    BY <1>1, <2>1 DEF PInv, OnPlan
<1>4. ASSUME NEW q \in Runners, StepOf(q) PROVE PInv'
  <2>1. \A r \in Runners : OnPlan(run'[r])
    BY <1>2, <1>4
  <2>. QED
    BY <1>1, <2>1 DEF PInv, OnPlan
<1>. QED
  BY <1>3, <1>4 DEF Next, StepOf

\* However a server fails and other runners go on, no pass and no self-test goes
\* on for ever: each of a runner's own steps leaves fewer to make, the turns of a
\* loop no less than the runs of the plan, and nobody else adds one
\* (agent_ab.py 428-467, 479-494).
THEOREM PassGetsOnHolds == Spec => PassGetsOn
<1>1. Init => PInv
  <2>. SUFFICES ASSUME Init PROVE PInv
    OBVIOUS
  <2>1. \A r \in Runners : run[r].phase = "idle"
    BY DEF Init, Idle
  <2>. QED
    BY <2>1, TInvInit DEF PInv, OnPlan
<1>2. PInv /\ [Next]_vars => PInv'
  BY PInvStep
<1>3. ASSUME PInv, Next, NEW r \in Runners, run[r].phase # "idle", run'[r] # run[r]
      PROVE  PassLeft(run[r]) \in Nat /\ PassLeft(run'[r]) < PassLeft(run[r])
  <2>1. TInv /\ run[r] \in States /\ InPlan(run[r]) /\ OnPlan(run[r])
    BY <1>3 DEF PInv, TInv
  <2>2. PassLeft(run[r]) \in Nat
    BY <2>1, PassTyped
  <2>3. StepOf(r)
    <3>1. ASSUME NEW q \in Runners, StepOf(q) PROVE q = r
      BY <1>3, <2>1, <3>1, OthersStay
    <3>2. ~ServerFails /\ ~ServerRecovers
      BY <1>3 DEF ServerFails, ServerRecovers
    <3>. QED
      BY <1>3, <3>1, <3>2 DEF Next, StepOf
  <2>. QED
    BY <1>3, <2>2, <2>3, StepLighter
<1>4. PInv /\ [Next]_vars
        => [\A r \in Runners : run[r].phase # "idle" /\ run'[r] # run[r]
              => PassLeft(run[r]) \in Nat /\ PassLeft(run'[r]) < PassLeft(run[r])]_vars
  BY <1>3
<1>. QED
  BY <1>1, <1>2, <1>4, PTL DEF Spec, PassGetsOn

-----------------------------------------------------------------------------
(* The summary.                                                             *)

LEMMA ValidCounts ==
    ASSUME TypeOK, NEW arm, NEW t
    PROVE  /\ IsFiniteSet(Valid(arm, t)) /\ Cardinality(Valid(arm, t)) \in Nat
           /\ Cardinality(Valid(arm, t)) = 0 <=> Valid(arm, t) = {}
<1>1. Len(results) \in Nat /\ DOMAIN results = 1..Len(results)
  BY LenProperties DEF TypeOK
<1>2. IsFiniteSet(DOMAIN results)
  BY <1>1, FS_Interval
<1>3. Valid(arm, t) \subseteq DOMAIN results
  BY DEF Valid
<1>4. IsFiniteSet(Valid(arm, t))
  BY <1>2, <1>3, FS_Subset
<1>. QED
  BY <1>4, FS_CardinalityType, FS_EmptySet

LEMMA ComparedFollows == TypeOK => ComparedAreComplete
<1>. SUFFICES ASSUME TypeOK, NEW x, NEW y, NEW t \in common(x, y, Reps), NEW arm \in {x, y}
              PROVE  Cardinality(Valid(arm, t)) >= Reps
  BY DEF ComparedAreComplete
<1>1. t \in Tasks /\ Valid(arm, t) # {} /\ t \notin short(Reps)
  BY DEF common, Kept
<1>2. PICK i \in Valid(arm, t) : TRUE
  BY <1>1
<1>3. i \in DOMAIN results /\ results[i].arm = arm
  BY <1>2 DEF Valid
<1>4. Cardinality(Valid(arm, t)) \in Nat /\ Cardinality(Valid(arm, t)) # 0
  BY <1>1, ValidCounts
<1>5. ~(0 < Cardinality(Valid(arm, t)) /\ Cardinality(Valid(arm, t)) < Reps)
  BY <1>1, <1>3 DEF short
<1>6. Reps \in Nat
  BY BenchAssumption
<1>. QED
  BY <1>4, <1>5, <1>6

\* At every moment a summary compares two arms only on tasks that each ran as
\* often as was asked, for any runners, arms and rows (ComparedAreComplete).
THEOREM ComparedAreCompleteHolds == Spec => []ComparedAreComplete
<1>. QED
  BY ComparedFollows, AgentBenchTypeCorrect, PTL
=============================================================================
