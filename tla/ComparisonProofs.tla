-------------------------- MODULE ComparisonProofs --------------------------
(***************************************************************************)
(* Theorems of the three comparisons whose verdicts rest on what was run:  *)
(* kernels/compare.py's of two result files, for any nodes and suite,      *)
(* sm-differ's of two architectures, for any windows, and the one that    *)
(* bench/compare.py makes of two paired runs, for any items.  The sums of  *)
(* the last two are folds of the library, recursive functions over sets:   *)
(* what they come to is proved from a set without one of its elements to   *)
(* the set.                                                                *)
(***************************************************************************)
EXTENDS KernelDiff, PairedRuns, SmDiffer,
        FiniteSetTheorems, SequenceTheorems, WellFoundedInduction, TLAPS

\* A set of numbers that is not empty has a smallest one: Min is it.
LEMMA SmallestOf ==
    ASSUME NEW T \in SUBSET Nat, T # {}
    PROVE  Min(T) \in T /\ \A k \in T : Min(T) <= k
<1> DEFINE R == OpToRel(<, Nat)
<1>1. IsWellFoundedOn(R, Nat)
  BY NatLessThanWellFounded
<1>2. R = {ss \in Nat \X Nat : ss[1] < ss[2]}
  BY DEF OpToRel
<1> HIDE DEF R
<1>3. PICK m \in T : \A k \in T : ~(<<k, m>> \in R)
  BY <1>1, WFMin
<1>4. \A k \in T : m <= k
  <2> SUFFICES ASSUME NEW k \in T, k < m PROVE FALSE
    OBVIOUS
  <2>1. <<k, m>> \in R
    BY <1>2
  <2> QED
    BY <1>3, <2>1
<1> QED
  BY <1>3, <1>4 DEF Min

\* Induction over the numbers, of a set of them.
LEMMA UpFromZero ==
    ASSUME NEW S \in SUBSET Nat, 0 \in S, \A n \in S : n + 1 \in S
    PROVE  \A n \in Nat : n \in S
<1> DEFINE Missed == Nat \ S
<1> SUFFICES ASSUME Missed # {} PROVE FALSE
  OBVIOUS
<1>1. PICK m \in Missed : \A k \in Missed : m <= k
  BY SmallestOf
<1>2. m \in Nat \ {0}
  BY <1>1
<1>3. m - 1 \in Nat /\ m - 1 < m /\ (m - 1) + 1 = m
  BY <1>2
<1>4. m - 1 \in S
  BY <1>1, <1>3
<1> QED
  BY <1>1, <1>3, <1>4

-----------------------------------------------------------------------------
(* kernels/compare.py.                                                      *)

\* What a test can leave, and what a file can hold.
Kinds   == {Passes, Skips, Fails, Errs, Forked, Killed, NoSetUp}
Results == {Result(r, i) : r \in Kinds, i \in Nat}

\* A killed context stays killed: what follows in its file is dead, or a skip.
StaysDead(file) ==
    \A i, j \in DOMAIN file :
        i < j /\ ~file[i].live => ~file[j].live \/ file[j].outcome = "skip"

KernelInv ==
    /\ tests \in Nat
    /\ results \in [Nodes -> Seq(Results)]
    /\ \A n \in Nodes : (DeadResults(n) # {} => n \in dead) /\ StaysDead(results[n])

\* A result of a dead context is recorded as a failure or an error, with the message
\* of the kill.
LEMMA ResultFields ==
    ASSUME NEW r \in Results
    PROVE  ~r.live => IsBad(r) /\ r.kill
  <1>1. PICK k \in Kinds, i \in Nat : r = Result(k, i)
    BY DEF Results
  <1>2. r.live = k.live /\ r.outcome = k.outcome /\ r.kill = k.kill
    BY <1>1 DEF Kinds, Passes, Skips, Fails, Errs, Forked, Killed, NoSetUp, Result
  <1> QED
    BY <1>2 DEF Kinds, Passes, Skips, Fails, Errs, Forked, Killed, NoSetUp, IsBad

\* What one test adds to a file: nothing or one result, and in a killed context
\* one that is dead or a skip.
LEMMA WhatATestLeaves ==
    ASSUME NEW o \in AnyOutcome, NEW i \in Nat
    PROVE  LET s == [k \in DOMAIN o |-> Result(o[k], i)] IN
           /\ s \in Seq(Results)
           /\ s = <<>> \/ (Len(s) = 1 /\ s[1] = Result(o[1], i) /\ o = <<o[1]>>)
  <1> DEFINE s == [k \in DOMAIN o |-> Result(o[k], i)]
  <1>1. CASE o = <<>>
    <2>1. s = <<>>
      BY <1>1
    <2> QED
      BY <2>1, EmptySeq
  <1>2. CASE \E r \in Kinds : o = <<r>>
    <2>1. PICK r \in Kinds : o = <<r>>
      BY <1>2
    <2>2. DOMAIN o = 1..1 /\ o[1] = r
      BY <2>1
    <2>3. Result(r, i) \in Results
      BY DEF Results
    <2>4. s \in [1..1 -> Results] /\ s[1] = Result(o[1], i)
      BY <2>2, <2>3
    <2>5. s \in Seq(Results) /\ Len(s) = 1
      BY <2>4, SeqDef, LenProperties
    <2> QED
      BY <2>1, <2>2, <2>4, <2>5
  <1> QED
    BY <1>1, <1>2 DEF AnyOutcome, Kinds

\* One more result keeps a file's order of things: where the context was killed
\* before, it is dead or a skip.
LEMMA OneMoreResult ==
    ASSUME NEW file \in Seq(Results), NEW s \in Seq(Results), Len(s) = 1,
           StaysDead(file),
           (\E i \in DOMAIN file : ~file[i].live) => ~s[1].live \/ s[1].outcome = "skip"
    PROVE  /\ StaysDead(file \o s)
           /\ \A j \in DOMAIN (file \o s) : ~(file \o s)[j].live
                  => (\E i \in DOMAIN file : ~file[i].live) \/ ~s[1].live
  <1> DEFINE g == file \o s
  <1>1. /\ Len(file) \in Nat /\ DOMAIN file = 1..Len(file)
        /\ g \in Seq(Results) /\ Len(g) = Len(file) + 1 /\ DOMAIN g = 1..Len(file) + 1
    BY ConcatProperties, LenProperties
  <1>2. \A j \in DOMAIN file : g[j] = file[j]
    BY <1>1, ConcatProperties
  <1>3. g[Len(file) + 1] = s[1]
    <2>1. Len(file) + 1 \in 1..Len(file) + Len(s) /\ ~(Len(file) + 1 <= Len(file))
      BY <1>1
    <2>2. g[Len(file) + 1] = s[(Len(file) + 1) - Len(file)]
      BY <1>1, <2>1, ConcatProperties
    <2>3. (Len(file) + 1) - Len(file) = 1
      BY <1>1
    <2> QED
      BY <2>2, <2>3
  <1> HIDE DEF g
  <1>4. \A j \in DOMAIN g : j \in DOMAIN file \/ j = Len(file) + 1
    BY <1>1
  <1>5. StaysDead(g)
    <2> SUFFICES ASSUME NEW i \in DOMAIN g, NEW j \in DOMAIN g, i < j, ~g[i].live
                 PROVE  ~g[j].live \/ g[j].outcome = "skip"
      BY DEF StaysDead
    <2>1. i \in DOMAIN file
      BY <1>1
    <2>2. ~file[i].live
      BY <1>2, <2>1
    <2>3. CASE j \in DOMAIN file
      BY <1>2, <2>1, <2>2, <2>3 DEF StaysDead
    <2>4. CASE j = Len(file) + 1
      BY <1>3, <2>1, <2>2, <2>4
    <2> QED
      BY <1>4, <2>3, <2>4
  <1>6. ASSUME NEW j \in DOMAIN g, ~g[j].live
        PROVE  (\E i \in DOMAIN file : ~file[i].live) \/ ~s[1].live
    BY <1>2, <1>3, <1>4, <1>6
  <1> QED
    BY <1>5, <1>6 DEF g

\* A file holds nothing but results, and none of a live context after a kill but
\* skips, however the suite goes.
LEMMA KernelInvHolds == KernelSpec => []KernelInv
  <1>1. KernelInit => KernelInv
    BY EmptySeq DEF KernelInit, KernelInv, DeadResults, StaysDead
  <1>2. KernelInv /\ [KernelNext]_kernels => KernelInv'
    <2> SUFFICES ASSUME KernelInv, [KernelNext]_kernels
                 PROVE  KernelInv'
      OBVIOUS
    <2>1. CASE KernelNext
      <3>1. PICK o \in [Nodes -> AnyOutcome] : RunTest(o)
        BY <2>1 DEF KernelNext
      <3>2. tests' \in Nat
        BY <3>1 DEF RunTest, KernelInv
      <3>3. PICK i \in Nat : i = tests'
        BY <3>2
      <3> DEFINE s(n) == [k \in DOMAIN o[n] |-> Result(o[n][k], i)]
      <3>4. results' = [n \in Nodes |-> results[n] \o s(n)]
        BY <3>1, <3>3 DEF RunTest
      <3>5. \A n \in Nodes : o[n] \in Outcomes(n)
        BY <3>1 DEF RunTest
      <3>6. dead' = dead \cup {n \in Nodes : o[n] \in {<<Killed>>, <<NoSetUp>>}}
        BY <3>1 DEF RunTest
      <3>7. ASSUME NEW n \in Nodes
            PROVE  /\ results[n] \in Seq(Results)
                   /\ s(n) \in Seq(Results)
                   /\ s(n) = <<>> \/ (/\ Len(s(n)) = 1 /\ s(n)[1] = Result(o[n][1], i)
                                      /\ o[n] = <<o[n][1]>>)
        <4>1. results[n] \in Seq(Results)
          BY DEF KernelInv
        <4> QED
          BY <4>1, WhatATestLeaves
      <3> HIDE DEF s
      <3>8. results' \in [Nodes -> Seq(Results)]
        BY <3>4, <3>7, ConcatProperties
      <3>9. ASSUME NEW n \in Nodes
            PROVE  (DeadResults(n) # {} => n \in dead)' /\ StaysDead(results'[n])
        <4>1. DeadResults(n) # {} => n \in dead
          BY DEF KernelInv
        <4>2. StaysDead(results[n])
          BY DEF KernelInv
        <4>3. results'[n] = results[n] \o s(n)
          BY <3>4
        <4>4. DeadResults(n)' # {} <=> \E j \in DOMAIN results'[n] : ~results'[n][j].live
          BY DEF DeadResults
        <4>5. DeadResults(n) # {} <=> \E j \in DOMAIN results[n] : ~results[n][j].live
          BY DEF DeadResults
        <4>6. CASE s(n) = <<>>
          <5>1. results'[n] = results[n]
            BY <3>7, <4>3, <4>6, ConcatEmptySeq
          <5> QED
            BY <3>6, <4>1, <4>2, <4>4, <4>5, <5>1
        <4>7. CASE s(n) # <<>>
          <5>1. /\ Len(s(n)) = 1 /\ s(n)[1] = Result(o[n][1], i) /\ o[n] = <<o[n][1]>>
            BY <3>7, <4>7
          <5>2. s(n)[1].live = o[n][1].live /\ s(n)[1].outcome = o[n][1].outcome
            BY <5>1 DEF Result
          <5>3. n \in dead => o[n][1] \in {Skips, Killed, NoSetUp}
            BY <3>5, <5>1 DEF Outcomes
          <5>4. ~s(n)[1].live => o[n][1] \in {Killed, NoSetUp}
            <6>1. o[n][1] \in Kinds
              BY <3>5, <5>1 DEF Outcomes, Kinds
            <6> QED
              BY <5>2, <6>1 DEF Kinds, Passes, Skips, Fails, Errs, Forked, Killed, NoSetUp
          <5>5. ~s(n)[1].live => n \in dead'
            BY <3>6, <5>1, <5>4
          <5>6. n \in dead => ~s(n)[1].live \/ s(n)[1].outcome = "skip"
            BY <5>2, <5>3 DEF Skips, Killed, NoSetUp
          <5>7. /\ StaysDead(results[n] \o s(n))
                /\ \A j \in DOMAIN (results[n] \o s(n)) : ~(results[n] \o s(n))[j].live
                       => (\E k \in DOMAIN results[n] : ~results[n][k].live) \/ ~s(n)[1].live
            BY <3>7, <4>1, <4>2, <4>5, <5>1, <5>6, OneMoreResult
          <5> QED
            BY <3>6, <4>1, <4>3, <4>4, <4>5, <5>5, <5>7
        <4> QED
          BY <4>6, <4>7
      <3> QED
        BY <3>2, <3>8, <3>9 DEF KernelInv
    <2>2. CASE UNCHANGED kernels
      BY <2>2 DEF KernelInv, kernels, DeadResults, StaysDead
    <2> QED
      BY <2>1, <2>2
  <1> QED
    BY <1>1, <1>2, PTL DEF KernelSpec

\* Where a warning could start, or past the end.
Starts(file) ==
    {i \in DOMAIN file : IsBad(file[i]) /\ file[i].kill /\ NearlyAll(file, i)}
        \cup {Len(file) + 1}

\* What is bad from a place on is finite, and part of what is bad.
LEMMA BadIsFinite ==
    ASSUME KernelInv, NEW n \in Nodes, NEW i \in 1..Len(results[n])
    PROVE  /\ IsFiniteSet(Bad(results[n], i)) /\ Cardinality(Bad(results[n], i)) \in Nat
           /\ Cardinality(Bad(results[n], i)) <= Cardinality(Bad(results[n], 1))
           /\ Cardinality(Bad(results[n], 1)) \in Nat
  <1> DEFINE file == results[n]
  <1>1. Len(file) \in Nat
    BY LenProperties DEF KernelInv
  <1>2. Bad(file, 1) \subseteq 1..Len(file) /\ Bad(file, i) \subseteq Bad(file, 1)
    BY <1>1 DEF Bad
  <1>3. IsFiniteSet(1..Len(file))
    BY <1>1, FS_Interval
  <1> HIDE DEF file
  <1>4. IsFiniteSet(Bad(file, 1))
    BY <1>2, <1>3, FS_Subset
  <1>5. /\ IsFiniteSet(Bad(file, i))
        /\ Cardinality(Bad(file, i)) <= Cardinality(Bad(file, 1))
    BY <1>2, <1>4, FS_Subset
  <1> QED
    BY <1>4, <1>5, FS_CardinalityType DEF file

\* cascade: with fewer failures in the file than the threshold there is no warning.
LEMMA NoWarning ==
    ASSUME KernelInv, NEW n \in Nodes, Cardinality(Bad(results[n], 1)) < Poisoned
    PROVE  cascade(results[n]) > Len(results[n])
  <1> DEFINE file == results[n]
  <1>1. file \in Seq(Results) /\ Len(file) \in Nat /\ DOMAIN file = 1..Len(file)
    BY LenProperties DEF KernelInv
  <1>2. ASSUME NEW i \in DOMAIN file PROVE ~NearlyAll(file, i)
    <2>1. i \in 1..Len(file)
      BY <1>1
    <2>2. /\ Cardinality(Bad(file, i)) <= Cardinality(Bad(file, 1))
          /\ Cardinality(Bad(file, i)) \in Nat /\ Cardinality(Bad(file, 1)) \in Nat
      BY <2>1, BadIsFinite
    <2>3. ~(Cardinality(Bad(file, i)) >= Poisoned)
      BY <2>2, KernelAssumption
    <2> QED
      BY <2>3 DEF NearlyAll
  <1>3. Starts(file) = {Len(file) + 1}
    BY <1>2 DEF Starts
  <1>4. cascade(file) = Min(Starts(file))
    BY DEF cascade, Starts
  <1> HIDE DEF file
  <1>5. Starts(file) \in SUBSET Nat /\ Starts(file) # {}
    BY <1>1, <1>3
  <1>6. Min(Starts(file)) \in Starts(file)
    BY <1>5, SmallestOf
  <1>7. cascade(file) = Len(file) + 1
    BY <1>3, <1>4, <1>6
  <1> QED
    BY <1>1, <1>7 DEF file

\* cascade: where a kill takes the rest with it, the warning starts at it or before.
\* All that follows the first dead result is bad, since a killed context stays so.
LEMMA CascadeStartsByTheKill ==
    ASSUME KernelInv, NEW n \in Nodes, DeadResults(n) # {}, KilledOutright(n)
    PROVE  cascade(results[n]) <= Min(DeadResults(n))
  <1> DEFINE file == results[n]
             d    == Min(DeadResults(n))
  <1>1. file \in Seq(Results) /\ Len(file) \in Nat /\ DOMAIN file = 1..Len(file)
    BY LenProperties DEF KernelInv
  <1>2. DeadResults(n) \subseteq 1..Len(file)
    BY <1>1 DEF DeadResults
  <1>3. d \in DeadResults(n) /\ \A i \in DeadResults(n) : d <= i
    BY <1>2, SmallestOf
  <1>4. d \in 1..Len(file) /\ ~file[d].live
    BY <1>2, <1>3 DEF DeadResults
  <1>5. \A j \in DOMAIN file : ~file[j].live => IsBad(file[j]) /\ file[j].kill
    BY <1>1, ResultFields, ElementOfSeq
  <1>6. \A j \in d..Len(file) : ~file[j].live
    <2> SUFFICES ASSUME NEW j \in d..Len(file), j # d PROVE ~file[j].live
      BY <1>4
    <2>1. j \in DOMAIN file /\ d \in DOMAIN file /\ d < j
      BY <1>1, <1>4
    <2>2. StaysDead(file)
      BY DEF KernelInv
    <2>3. ~file[j].live \/ file[j].outcome = "skip"
      BY <1>4, <2>1, <2>2 DEF StaysDead
    <2>4. file[j].outcome # "skip"
      BY <2>1 DEF KilledOutright
    <2> QED
      BY <2>3, <2>4
  <1>7. NearlyAll(file, d)
    <2>1. Bad(file, d) = d..Len(file)
      BY <1>1, <1>4, <1>5, <1>6 DEF Bad
    <2>2. DeadResults(n) \subseteq d..Len(file)
      BY <1>1, <1>2, <1>3, <1>4
    <2>3. PICK f \in Nat, l \in Nat : f = d /\ l = Len(file) /\ f <= l
      BY <1>1, <1>4
    <2>4. IsFiniteSet(f..l) /\ Cardinality(f..l) = l - f + 1
      <3>1. f \in Int /\ l \in Int /\ ~(f > l)
        BY <2>3
      <3> QED
        BY <3>1, FS_Interval
    <2>5. /\ Cardinality(DeadResults(n)) <= Cardinality(f..l)
          /\ Cardinality(DeadResults(n)) \in Nat
      BY <2>2, <2>3, <2>4, FS_Subset, FS_CardinalityType
    <2>6. Cardinality(DeadResults(n)) >= Poisoned
      BY DEF KilledOutright
    <2> HIDE DEF d, file
    <2>7. l - f + 1 >= Poisoned /\ 10 * (l - f + 1) >= 7 * (l - f + 1)
      BY <2>3, <2>4, <2>5, <2>6, KernelAssumption
    <2> QED
      BY <2>1, <2>3, <2>4, <2>7 DEF NearlyAll
  <1>8. d \in Starts(file) /\ Starts(file) \subseteq Nat
    BY <1>1, <1>4, <1>5, <1>7 DEF Starts
  <1>9. Min(Starts(file)) <= d
    BY <1>8, SmallestOf
  <1> QED
    BY <1>9 DEF cascade, Starts

\* kernels/compare.py: a node that survives with fewer failures than the threshold is
\* not warned of, and where each node survives or is killed outright a disagreement
\* that stands before both warnings is of two live contexts, for any nodes, suite and
\* threshold, and whatever else failed, forked or was skipped on the way.
THEOREM FindingsStandHolds == KernelSpec => []FindingsStand
  <1>1. ASSUME KernelInv, NEW n \in Nodes, Survives(n) \/ KilledOutright(n),
               NEW t \in diffs, Trusted(t)
        PROVE  ResultOf(n, t).live
    <2> DEFINE file == results[n]
               j    == load(file)[t]
    <2>1. t \in {file[i].test : i \in DOMAIN file}
      BY <1>1 DEF diffs, Shared, load
    <2>2. j \in DOMAIN file
      BY <2>1 DEF load
    <2>3. file \in Seq(Results) /\ Len(file) \in Nat /\ DOMAIN file = 1..Len(file)
      BY <1>1, LenProperties DEF KernelInv
    <2>4. SUFFICES ASSUME ~file[j].live PROVE FALSE
      BY DEF ResultOf
    <2>5. j \in DeadResults(n)
      BY <2>2, <2>4 DEF DeadResults
    <2>6. cascade(file) <= Min(DeadResults(n))
      BY <1>1, <2>5, CascadeStartsByTheKill DEF Survives
    <2>7. DeadResults(n) \subseteq Nat
      BY <2>3 DEF DeadResults
    <2>8. Min(DeadResults(n)) <= j /\ Min(DeadResults(n)) \in Nat
      BY <2>5, <2>7, SmallestOf
    <2>9. j < cascade(file)
      BY <1>1 DEF Trusted
    <2>10. cascade(file) \in Nat
      <3>1. Starts(file) \subseteq Nat /\ Starts(file) # {}
        BY <2>3 DEF Starts
      <3>2. Min(Starts(file)) \in Nat
        BY <3>1, SmallestOf
      <3> QED
        BY <3>2 DEF cascade, Starts
    <2> HIDE DEF j
    <2>11. j \in Nat
      BY <2>2, <2>3
    <2> QED
      BY <2>6, <2>8, <2>9, <2>10, <2>11
  <1>2. KernelInv => FindingsStand
    BY <1>1, NoWarning DEF FindingsStand, IsEvidence
  <1> QED
    BY <1>2, KernelInvHolds, PTL

-----------------------------------------------------------------------------
(* The folds that add up.                                                   *)

\* FoldSeq adds the readings up in an order that CHOOSE fixes: this one first,
\* and then what adds up the rest.
Taken(s) == CHOOSE x \in s : TRUE
Rest(s)  == s \ {Taken(s)}

Step(g, h, s)  == IF s = {} THEN 0 ELSE h[Taken(s)] + g[Rest(s)]
AddsUp(g, h, D) == g = [s \in SUBSET D |-> Step(g, h, s)]

\* What is left has one less.
LEMMA RestIsSmaller ==
    ASSUME NEW D, IsFiniteSet(D), NEW s \in SUBSET D, s # {}
    PROVE  /\ Taken(s) \in s /\ Rest(s) \in SUBSET D
           /\ Cardinality(s) \in Nat \ {0}
           /\ Cardinality(Rest(s)) = Cardinality(s) - 1
           /\ Cardinality(s) <= Cardinality(D)
<1>1. Taken(s) \in s
  BY DEF Taken
<1>2. IsFiniteSet(s) /\ Cardinality(s) <= Cardinality(D)
  BY FS_Subset
<1>3. Cardinality(s) \in Nat \ {0}
  BY <1>2, FS_CardinalityType, FS_EmptySet
<1>4. Cardinality(Rest(s)) = Cardinality(s) - 1
  BY <1>1, <1>2, FS_RemoveElement DEF Rest
<1> QED
  BY <1>1, <1>2, <1>3, <1>4 DEF Rest

\* Induction over the parts of a finite set, from what is left of one to it.
LEMMA FromTheRest ==
    ASSUME NEW D, IsFiniteSet(D), NEW Good, {} \in Good,
           \A s \in SUBSET D : s # {} /\ Rest(s) \in Good => s \in Good
    PROVE  \A s \in SUBSET D : s \in Good
<1> DEFINE UpTo == {k \in Nat : \A s \in SUBSET D : Cardinality(s) <= k => s \in Good}
<1>1. 0 \in UpTo
  <2>1. \A s \in SUBSET D : Cardinality(s) <= 0 => s = {}
    BY RestIsSmaller
  <2> QED
    BY <2>1
<1>2. ASSUME NEW k \in UpTo
      PROVE  k + 1 \in UpTo
  <2> SUFFICES ASSUME NEW s \in SUBSET D, Cardinality(s) <= k + 1, s # {}
               PROVE  s \in Good
    OBVIOUS
  <2>1. Rest(s) \in SUBSET D /\ Cardinality(Rest(s)) <= k
    BY RestIsSmaller
  <2> QED
    BY <2>1
<1>3. \A k \in Nat : k \in UpTo
  <2> HIDE DEF UpTo
  <2>1. UpTo \in SUBSET Nat
    BY DEF UpTo
  <2> QED
    BY <1>1, <1>2, <2>1, UpFromZero
<1>4. \A s \in SUBSET D : Cardinality(s) \in Nat
  BY FS_Subset, FS_CardinalityType
<1> QED
  BY <1>3, <1>4

\* There is such a sum of every finite family of whole numbers: one that is right
\* up to k elements makes one that is right up to k + 1.
LEMMA SumExists ==
    ASSUME NEW D, IsFiniteSet(D), NEW h \in [D -> Int]
    PROVE  \E g \in [SUBSET D -> Int] : AddsUp(g, h, D)
<1> DEFINE UpTo(g, k) == \A s \in SUBSET D : Cardinality(s) <= k => g[s] = Step(g, h, s)
           Reached    == {k \in Nat : \E g \in [SUBSET D -> Int] : UpTo(g, k)}
<1>1. 0 \in Reached
  <2> DEFINE g == [s \in SUBSET D |-> 0]
  <2>1. \A s \in SUBSET D : Cardinality(s) <= 0 => s = {}
    BY RestIsSmaller
  <2>2. g \in [SUBSET D -> Int] /\ UpTo(g, 0)
    BY <2>1 DEF Step
  <2> QED
    BY <2>2
<1>2. ASSUME NEW k \in Reached
      PROVE  k + 1 \in Reached
  <2>1. PICK g \in [SUBSET D -> Int] : UpTo(g, k)
    OBVIOUS
  <2> DEFINE f == [s \in SUBSET D |-> Step(g, h, s)]
  <2>2. f \in [SUBSET D -> Int]
    <3> SUFFICES ASSUME NEW s \in SUBSET D PROVE Step(g, h, s) \in Int
      OBVIOUS
    <3>1. CASE s = {}
      BY <3>1 DEF Step
    <3>2. CASE s # {}
      <4>1. Taken(s) \in D /\ Rest(s) \in SUBSET D
        BY <3>2, RestIsSmaller
      <4>2. h[Taken(s)] \in Int /\ g[Rest(s)] \in Int
        BY <4>1
      <4> QED
        BY <3>2, <4>2 DEF Step
    <3> QED
      BY <3>1, <3>2
  <2>3. UpTo(f, k + 1)
    <3> SUFFICES ASSUME NEW s \in SUBSET D, Cardinality(s) <= k + 1
                 PROVE  Step(g, h, s) = Step(f, h, s)
      OBVIOUS
    <3>1. CASE s = {}
      BY <3>1 DEF Step
    <3>2. CASE s # {}
      <4>1. Rest(s) \in SUBSET D /\ Cardinality(Rest(s)) <= k
        BY <3>2, RestIsSmaller
      <4>2. f[Rest(s)] = g[Rest(s)]
        BY <2>1, <4>1
      <4> QED
        BY <4>2 DEF Step
    <3> QED
      BY <3>1, <3>2
  <2> HIDE DEF UpTo, f
  <2>4. k + 1 \in Nat
    OBVIOUS
  <2> QED
    BY <2>2, <2>3, <2>4
<1>3. \A k \in Nat : k \in Reached
  <2>1. Reached \in SUBSET Nat
    OBVIOUS
  <2> HIDE DEF Reached
  <2> QED
    BY <1>1, <1>2, <2>1, UpFromZero
<1>4. Cardinality(D) \in Nat
  BY FS_CardinalityType
<1>5. PICK g \in [SUBSET D -> Int] : UpTo(g, Cardinality(D))
  BY <1>3, <1>4
<1>6. \A s \in SUBSET D : g[s] = Step(g, h, s)
  BY <1>5, FS_Subset
<1>7. g = [s \in SUBSET D |-> Step(g, h, s)]
  BY <1>6
<1> QED
  BY <1>7 DEF AddsUp

\* It is a whole number, whichever of them CHOOSE takes.
LEMMA SumTyped ==
    ASSUME NEW D, IsFiniteSet(D), NEW h \in [D -> Int], NEW g, AddsUp(g, h, D)
    PROVE  g[D] \in Int
<1> DEFINE Good == {s \in SUBSET D : g[s] \in Int}
<1>0. \A s \in SUBSET D : g[s] = Step(g, h, s)
  BY DEF AddsUp
<1>1. {} \in Good
  BY <1>0 DEF Step
<1>2. ASSUME NEW s \in SUBSET D, s # {}, Rest(s) \in Good PROVE s \in Good
  <2>1. h[Taken(s)] \in Int /\ g[Rest(s)] \in Int
    BY <1>2, RestIsSmaller
  <2>2. g[s] = h[Taken(s)] + g[Rest(s)]
    BY <1>0, <1>2 DEF Step
  <2> QED
    BY <2>1, <2>2
<1> HIDE DEF Good
<1>3. D \in Good
  BY <1>1, <1>2, FromTheRest
<1> QED
  BY <1>3 DEF Good

\* Of equal numbers it is their product.
LEMMA SumFlat ==
    ASSUME NEW D, IsFiniteSet(D), NEW c \in Int, NEW h \in [D -> {c}], NEW g, AddsUp(g, h, D)
    PROVE  g[D] = c * Cardinality(D)
<1> DEFINE Good == {s \in SUBSET D : g[s] = c * Cardinality(s)}
<1>0. \A s \in SUBSET D : g[s] = Step(g, h, s)
  BY DEF AddsUp
<1>1. {} \in Good
  <2>1. g[{}] = 0 /\ Cardinality({}) = 0 /\ c * 0 = 0
    BY <1>0, FS_EmptySet DEF Step
  <2> QED
    BY <2>1
<1>2. ASSUME NEW s \in SUBSET D, s # {}, Rest(s) \in Good PROVE s \in Good
  <2>1. /\ h[Taken(s)] = c /\ g[Rest(s)] = c * Cardinality(Rest(s))
        /\ Cardinality(s) \in Nat \ {0} /\ Cardinality(Rest(s)) = Cardinality(s) - 1
    BY <1>2, RestIsSmaller
  <2>2. g[s] = h[Taken(s)] + g[Rest(s)]
    BY <1>0, <1>2 DEF Step
  <2>3. c + c * (Cardinality(s) - 1) = c * Cardinality(s)
    BY <2>1
  <2> QED
    BY <2>1, <2>2, <2>3
<1> HIDE DEF Good
<1>3. D \in Good
  BY <1>1, <1>2, FromTheRest
<1> QED
  BY <1>3 DEF Good

\* Sum and Squares, as the library's fold defines them.
Adding(v)   == CHOOSE g : g = [s \in SUBSET DOMAIN v |->
                  IF s = {} THEN 0 ELSE v[CHOOSE x \in s : TRUE] + g[s \ {CHOOSE x \in s : TRUE}]]
SquareStep(g, v, s) ==
    IF s = {} THEN 0
    ELSE v[CHOOSE x \in s : TRUE] * v[CHOOSE x \in s : TRUE] + g[s \ {CHOOSE x \in s : TRUE}]
Squaring(v) == CHOOSE g : g = [s \in SUBSET DOMAIN v |-> SquareStep(g, v, s)]
SquareOf(v) == [i \in DOMAIN v |-> v[i] * v[i]]

\* Both are such sums: of the readings, and of their squares.
LEMMA SumsAddUp ==
    ASSUME NEW v \in Seq(Int)
    PROVE  /\ IsFiniteSet(DOMAIN v) /\ Cardinality(DOMAIN v) = Len(v)
           /\ v \in [DOMAIN v -> Int] /\ SquareOf(v) \in [DOMAIN v -> Int]
           /\ \E g : AddsUp(g, v, DOMAIN v) /\ Sum(v) = g[DOMAIN v]
           /\ \E g : AddsUp(g, SquareOf(v), DOMAIN v) /\ Squares(v) = g[DOMAIN v]
<1>1. Len(v) \in Nat /\ DOMAIN v = 1..Len(v) /\ v \in [1..Len(v) -> Int]
  BY LenProperties
<1>2. IsFiniteSet(1..Len(v)) /\ Cardinality(1..Len(v)) = Len(v)
  BY <1>1, FS_Interval
<1>3. v \in [DOMAIN v -> Int] /\ SquareOf(v) \in [DOMAIN v -> Int]
  BY <1>1 DEF SquareOf
<1>4. AddsUp(Adding(v), v, DOMAIN v)
  <2>1. PICK g : AddsUp(g, v, DOMAIN v)
    BY <1>1, <1>2, <1>3, SumExists
  <2> QED
    BY <2>1, Zenon DEF AddsUp, Step, Taken, Rest, Adding
<1>5. AddsUp(Squaring(v), SquareOf(v), DOMAIN v)
  <2>1. PICK g : AddsUp(g, SquareOf(v), DOMAIN v)
    BY <1>1, <1>2, <1>3, SumExists
  <2>2. ASSUME NEW f, NEW s \in SUBSET DOMAIN v
        PROVE  Step(f, SquareOf(v), s) = SquareStep(f, v, s)
    BY DEF Step, Taken, Rest, SquareOf, SquareStep
  <2>3. g = [s \in SUBSET DOMAIN v |-> SquareStep(g, v, s)]
    BY <2>1, <2>2, Zenon DEF AddsUp
  <2>4. Squaring(v) = [s \in SUBSET DOMAIN v |-> SquareStep(Squaring(v), v, s)]
    BY <2>3, Zenon DEF Squaring
  <2> QED
    BY <2>4, <2>2, Zenon DEF AddsUp
<1>6. Sum(v) = Adding(v)[DOMAIN v]
  BY DEF Sum, FoldSeq, FoldFunction, FoldFunctionOnSet, MapThenFoldSet, Adding
<1>7. Squares(v) = Squaring(v)[DOMAIN v]
  BY DEF Squares, FoldSeq, FoldFunction, FoldFunctionOnSet, MapThenFoldSet, Squaring,
         SquareStep
<1> QED
  BY <1>1, <1>2, <1>3, <1>4, <1>5, <1>6, <1>7

\* The sums that the verdict compares are whole numbers.
LEMMA SumsAreWhole ==
    ASSUME NEW v \in Seq(Int)
    PROVE  Sum(v) \in Int /\ Squares(v) \in Int
BY SumsAddUp, SumTyped

\* Readings that are all the same are an instrument that cannot see noise.
LEMMA SameIsFlat ==
    ASSUME NEW v \in Seq(Int), NEW c \in Int, \A i \in DOMAIN v : v[i] = c
    PROVE  IsFlat(v)
<1>1. Len(v) \in Nat
  BY LenProperties
<1>2. v \in [DOMAIN v -> {c}] /\ SquareOf(v) \in [DOMAIN v -> {c * c}] /\ c * c \in Int
  <2>1. v \in [DOMAIN v -> Int]
    BY SumsAddUp
  <2> QED
    BY <2>1 DEF SquareOf
<1>3. Sum(v) = c * Len(v)
  BY <1>2, SumsAddUp, SumFlat
<1>4. Squares(v) = (c * c) * Len(v)
  BY <1>2, SumsAddUp, SumFlat
<1>5. Len(v) * ((c * c) * Len(v)) = (c * Len(v)) * (c * Len(v))
  BY <1>1
<1> QED
  BY <1>3, <1>4, <1>5 DEF IsFlat

-----------------------------------------------------------------------------
(* sm-differ: the run and measurement tables.                               *)

\* A row of the run table.
Runs == [arch : Archs, started : Nat, diff : Nat]

\* Run r is that architecture's, of this diff.
Own(r, arch) ==
    r \in 1..Len(runs) /\ runs[r].arch = arch /\ runs[r].started = started /\ runs[r].diff = turn

\* The types of what a diff writes.
StoreTypes ==
    /\ turn \in Nat /\ clock \in Nat /\ started \in Nat /\ phase \in 0..5
    /\ runs \in Seq(Runs) /\ rows \in SUBSET (1..Len(runs))

\* No run that the database has began after the diff that is going on.
StampsRise ==
    /\ started <= clock
    /\ \A r \in 1..Len(runs) : runs[r].started <= started

\* What a diff has written by each of its steps is at the end of the table, its
\* baseline before its current side, and stays there until the next one starts.
OwnRuns ==
    LET n == Len(runs) IN
    /\ phase \in {1, 2} => Own(n, Baseline)
    /\ phase = 2 => n \in rows
    /\ phase \in {3, 4} \/ verdict # NoVerdict =>
           Own(n - 1, Baseline) /\ Own(n, Current) /\ n - 1 \in rows
    /\ phase = 4 \/ verdict # NoVerdict => n \in rows
    /\ phase # Idle => verdict = NoVerdict

StoreInv == StoreTypes /\ StampsRise /\ OwnRuns

\* Killed anywhere, and however many times.
LEMMA StoreInvHolds == DifferSpec => []StoreInv
<1>1. DifferInit => StoreInv
  BY EmptySeq DEF DifferInit, StoreInv, StoreTypes, StampsRise, OwnRuns, Idle
<1>2. ASSUME StoreInv, [DifferNext]_differ
      PROVE  StoreInv'
  <2> USE <1>2 DEF StoreInv, StoreTypes
  <2>0. Len(runs) \in Nat
    BY LenProperties
  <2>1. CASE begin_run
    <3> DEFINE new == [arch |-> Side, started |-> started, diff |-> turn]
               n   == Len(runs)
    <3>1. new \in Runs
      BY DEF Runs, Side, Archs
    <3>2. /\ runs' \in Seq(Runs) /\ Len(runs') = n + 1
          /\ \A r \in 1..n : runs'[r] = runs[r]
          /\ runs'[n + 1] = new
      BY <2>1, <3>1, AppendProperties DEF begin_run
    <3>3. StoreTypes'
      BY <2>0, <2>1, <3>2 DEF begin_run
    <3>4. StampsRise'
      <4>1. ASSUME NEW r \in 1..Len(runs') PROVE runs'[r].started <= started
        <5>1. r \in 1..n \/ r = n + 1
          BY <2>0, <3>2
        <5> QED
          BY <3>2, <5>1 DEF StampsRise
      <4> QED
        BY <2>1, <4>1 DEF begin_run, StampsRise
    <3>5. OwnRuns'
      <4>1. CASE phase = 0
        BY <2>0, <2>1, <3>2, <4>1 DEF begin_run, OwnRuns, Own, Side, Idle
      <4>2. CASE phase = 2
        BY <2>0, <2>1, <3>2, <4>2 DEF begin_run, OwnRuns, Own, Side, Idle
      <4> QED
        BY <2>1, <4>1, <4>2 DEF begin_run
    <3> QED
      BY <3>3, <3>4, <3>5
  <2>2. CASE record
    <3>1. Len(runs) \in 1..Len(runs)
      BY <2>0, <2>2 DEF record, OwnRuns, Own
    <3>2. StoreTypes' /\ StampsRise'
      <4>1. phase + 1 \in 0..5 /\ rows \cup {Len(runs)} \in SUBSET (1..Len(runs))
        <5>1. phase + 1 \in 0..5
          BY <2>2 DEF record
        <5>2. rows \in SUBSET (1..Len(runs))
          OBVIOUS
        <5> QED
          BY <3>1, <5>1, <5>2
      <4> QED
        BY <2>2, <4>1 DEF record, StampsRise
    <3>3. OwnRuns'
      BY <2>2 DEF record, OwnRuns, Own, Idle
    <3> QED
      BY <3>2, <3>3
  <2>3. CASE Dies
    BY <2>3 DEF Dies, StampsRise, OwnRuns, Own, Idle
  <2>4. CASE Second
    BY <2>4 DEF Second, StampsRise, OwnRuns, Own, Idle
  <2>5. ASSUME NEW w \in [Archs -> Windows], NEW driver \in {"580", "590"}, Start(w, driver)
        PROVE  StoreInv'
    <3>1. StampsRise'
      <4>1. \A r \in 1..Len(runs) : runs[r].started \in Nat
        <5>1. \A r \in 1..Len(runs) : runs[r] \in Runs
          BY ElementOfSeq
        <5> QED
          BY <5>1 DEF Runs
      <4> QED
        BY <2>5, <4>1 DEF Start, StampsRise
    <3>2. StoreTypes' /\ OwnRuns'
      BY <2>5 DEF Start, OwnRuns, Own, Idle
    <3> QED
      BY <3>1, <3>2
  <2>6. ASSUME NEW higher \in BOOLEAN, NEW significant \in BOOLEAN, Judge(higher, significant)
        PROVE  StoreInv'
    BY <2>6 DEF Judge, StampsRise, OwnRuns, Own, Idle
  <2>7. CASE UNCHANGED differ
    BY <2>7 DEF differ, StampsRise, OwnRuns, Own
  <2> QED
    BY <2>1, <2>2, <2>3, <2>4, <2>5, <2>6, <2>7 DEF DifferNext
<1> QED
  BY <1>1, <1>2, PTL DEF DifferSpec

\* Max, where an element is known to be it.
LEMMA LargestIs ==
    ASSUME NEW T \in SUBSET Nat, NEW m \in T, \A k \in T : k <= m
    PROVE  Max(T) = m
<1>1. \A x \in T : (\A y \in T : x >= y) => x = m
  OBVIOUS
<1> QED
  BY <1>1 DEF Max

\* store.rs: once a diff has its verdict, the latest run of each architecture is
\* that diff's own, for any number of diffs, killed anywhere, in one second or
\* many.  It rests on the order of the ids, which is why latest takes the last.
THEOREM LatestIsTheVerdictsHolds == DifferSpec => []LatestIsTheVerdicts
<1>1. ASSUME StoreInv, verdict # NoVerdict, NEW a \in Archs
      PROVE  OfArch(a) # {} /\ runs[latest(a)].diff = turn
  <2> DEFINE n == Len(runs)
             m == IF a = Baseline THEN n - 1 ELSE n
  <2>0. n \in Nat
    BY <1>1, LenProperties DEF StoreInv, StoreTypes
  <2>1. Own(n - 1, Baseline) /\ Own(n, Current) /\ n - 1 \in rows /\ n \in rows
    BY <1>1 DEF StoreInv, OwnRuns
  <2>2. Baseline # Current /\ (a = Baseline \/ a = Current)
    BY DifferAssumption DEF Archs
  <2>3. m \in OfArch(a) /\ runs[m].diff = turn /\ runs[m].started = started
    BY <2>1, <2>2 DEF OfArch, Own
  <2>4. OfArch(a) \subseteq 1..n /\ \A q \in OfArch(a) : q <= m
    <3>1. OfArch(a) \subseteq 1..n
      BY <1>1 DEF OfArch, StoreInv, StoreTypes
    <3>2. a = Baseline => n \notin OfArch(a)
      BY <2>1, <2>2 DEF OfArch, Own
    <3> QED
      BY <2>0, <3>1, <3>2
  <2>5. m \in Newest(a)
    <3>1. \A q \in OfArch(a) : runs[q].started <= runs[m].started
      BY <1>1, <2>3, <2>4 DEF StoreInv, StampsRise
    <3> QED
      BY <2>3, <3>1 DEF Newest
  <2>6. Newest(a) \subseteq OfArch(a)
    BY DEF Newest
  <2> HIDE DEF m
  <2>7. Max(Newest(a)) = m
    BY <2>0, <2>4, <2>5, <2>6, LargestIs
  <2> QED
    BY <2>3, <2>7 DEF latest
<1>2. StoreInv => LatestIsTheVerdicts
  BY <1>1 DEF LatestIsTheVerdicts
<1> QED
  BY <1>2, StoreInvHolds, PTL

-----------------------------------------------------------------------------
(* sm-differ: the verdict.                                                  *)

\* The verdict is what compare_recorded says of the two sides that are kept.
VerdictOf(significant) ==
    verdict.is = compare_recorded(sides[Baseline], sides[Current], verdict.higher, significant)

\* The two sides are the measurements of the windows that were queried.
SidesAreMeasured ==
    /\ window \in [Archs -> Windows]
    /\ \A a \in Archs : sides[a].measurement = Measure(window[a])

\* From the queries to the verdict, and until the next diff.
SidesInv ==
    /\ phase # Idle => verdict = NoVerdict
    /\ phase # Idle \/ verdict # NoVerdict => SidesAreMeasured
    /\ verdict # NoVerdict =>
           verdict.higher \in BOOLEAN /\ \E significant \in BOOLEAN : VerdictOf(significant)

\* A diff that dies forgets its sides, and has no verdict.
LEMMA SidesInvHolds == DifferSpec => []SidesInv
<1>1. DifferInit => SidesInv
  BY DEF DifferInit, SidesInv
<1>2. ASSUME SidesInv, [DifferNext]_differ
      PROVE  SidesInv'
  <2> USE <1>2 DEF SidesInv, SidesAreMeasured, VerdictOf
  <2>1. CASE begin_run
    BY <2>1 DEF begin_run, Idle
  <2>2. CASE record
    BY <2>2 DEF record, Idle
  <2>3. CASE Dies
    BY <2>3 DEF Dies, Idle
  <2>4. CASE Second
    BY <2>4 DEF Second
  <2>5. ASSUME NEW w \in [Archs -> Windows], NEW driver \in {"580", "590"}, Start(w, driver)
        PROVE  SidesInv'
    BY <2>5 DEF Start
  <2>6. ASSUME NEW higher \in BOOLEAN, NEW significant \in BOOLEAN, Judge(higher, significant)
        PROVE  SidesInv'
    BY <2>6 DEF Judge, Idle
  <2>7. CASE UNCHANGED differ
    BY <2>7 DEF differ
  <2> QED
    BY <2>1, <2>2, <2>3, <2>4, <2>5, <2>6, <2>7 DEF DifferNext
<1> QED
  BY <1>1, <1>2, PTL DEF DifferSpec

\* diff.rs and Sample::checked: what passes as a measurement was cool, or had a
\* peak that could not be read, and is all there and all numbers.
LEMMA MeasuredIsSound ==
    ASSUME NEW w \in Windows, Measure(w).kind = "Measured"
    PROVE  /\ Measure(w).values = w.values /\ w.values \in Seq(Int)
           /\ NaN \notin ToSet(w.values) /\ Len(w.values) >= Wanted
           /\ w.temps = {"cool"} \/ "nan" \in w.temps
<1>1. w.temps \subseteq {"cool", "hot", "nan"} /\ w.values \in Seq(Int) /\ Len(w.values) \in Nat
  BY LenProperties, DifferAssumption
<1>2. w.temps # {} /\ hottest(w.temps) # "hot" /\ Measure(w) = Sample(w.values)
  BY DEF Measure, Refused
<1>3. w.temps = {"cool"} \/ "nan" \in w.temps
  BY <1>1, <1>2 DEF hottest
<1>4. /\ Sample(w.values) = Measured(w.values)
      /\ NaN \notin ToSet(w.values) /\ Len(w.values) >= Wanted
  BY <1>1, <1>2, DifferAssumption DEF Sample, Refused, Measured
<1> QED
  <2>1. Measure(w).values = w.values
    BY <1>2, <1>4 DEF Measured
  <2> QED
    BY <1>1, <1>3, <1>4, <2>1

\* At most one value among the readings is no spread.
LEMMA OneReadingIsFlat ==
    ASSUME NEW v \in Seq(Int), ~(Cardinality(ToSet(v)) > 1)
    PROVE  IsFlat(v)
<1>1. Len(v) \in Nat /\ DOMAIN v = 1..Len(v) /\ v \in [1..Len(v) -> Int]
  BY LenProperties
<1>2. ToSet(v) = {v[i] : i \in DOMAIN v}
  BY DEF ToSet
<1>3. CASE Len(v) = 0
  <2>1. \A i \in DOMAIN v : v[i] = 0
    BY <1>1, <1>3
  <2> QED
    BY <2>1, SameIsFlat
<1>4. CASE Len(v) # 0
  <2>1. v[1] \in Int /\ v[1] \in ToSet(v)
    BY <1>1, <1>2, <1>4
  <2>2. ASSUME NEW i \in DOMAIN v, v[i] # v[1] PROVE FALSE
    <3>1. {v[i], v[1]} \subseteq ToSet(v)
      BY <1>2, <2>1
    <3>2. IsFiniteSet(ToSet(v))
      <4>1. v \in Surjection(1..Len(v), ToSet(v))
        BY <1>1, <1>2 DEF Surjection
      <4>2. IsFiniteSet(1..Len(v))
        BY <1>1, FS_Interval
      <4> QED
        BY <4>1, <4>2, FS_Surjection
    <3>3. Cardinality({v[i], v[1]}) = 2
      <4>1. IsFiniteSet({v[1]}) /\ Cardinality({v[1]}) = 1
        BY FS_Singleton
      <4>2. {v[i], v[1]} = {v[1]} \cup {v[i]}
        OBVIOUS
      <4>3. Cardinality({v[1]} \cup {v[i]}) = 2
        <5>1. v[i] \notin {v[1]}
          BY <2>2
        <5>2. Cardinality({v[1]} \cup {v[i]}) = Cardinality({v[1]}) + 1
          BY <4>1, <5>1, FS_AddElement
        <5> QED
          BY <4>1, <5>2
      <4> QED
        BY <4>2, <4>3
    <3>4. Cardinality({v[i], v[1]}) <= Cardinality(ToSet(v)) /\ Cardinality(ToSet(v)) \in Nat
      BY <3>1, <3>2, FS_Subset, FS_CardinalityType
    <3> QED
      BY <3>3, <3>4
  <2> QED
    BY <2>1, <2>2, SameIsFlat
<1> QED
  BY <1>3, <1>4

Conclusive == {"Improved", "Regressed", "Unchanged"}

\* What a direction v says of the readings x and y.
Earned(x, y, higher, v) ==
    v # "Unchanged" =>
        /\ (Sum(y) * Len(x) > Sum(x) * Len(y)) = (higher = (v = "Improved"))
        /\ Cardinality(ToSet(x)) > 1 \/ Cardinality(ToSet(y)) > 1

\* verdict.rs: a conclusive verdict is of one driver, and a direction is the means'.
LEMMA VerdictIsSound ==
    ASSUME NEW b, NEW c, NEW higher \in BOOLEAN, NEW significant \in BOOLEAN,
           NEW x \in Seq(Int), b.measurement.values = x,
           NEW y \in Seq(Int), c.measurement.values = y,
           NEW v, v = compare_recorded(b, c, higher, significant), v \in Conclusive
    PROVE  b.driver = c.driver /\ Earned(x, y, higher, v)
<1>1. b.driver = c.driver /\ v = compare(b.measurement, c.measurement, higher, significant)
  BY DEF compare_recorded, Conclusive
<1>2. b.measurement.kind = "Measured" /\ c.measurement.kind = "Measured"
  BY <1>1 DEF compare, Conclusive
<1>3. ASSUME v # "Unchanged"
      PROVE  /\ Estimable(x, y) /\ Moved(x, y) # 0
             /\ v = IF (Moved(x, y) > 0) = higher THEN "Improved" ELSE "Regressed"
  BY <1>1, <1>2, <1>3 DEF compare, Conclusive
<1>4. Moved(x, y) \in Int /\ (Moved(x, y) > 0 <=> Sum(y) * Len(x) > Sum(x) * Len(y))
  <2>1. Sum(x) \in Int /\ Sum(y) \in Int /\ Len(x) \in Int /\ Len(y) \in Int
    BY SumsAreWhole, LenProperties
  <2>2. Sum(y) * Len(x) \in Int /\ Sum(x) * Len(y) \in Int
    BY <2>1
  <2> QED
    BY <2>2 DEF Moved
<1>5. ASSUME v # "Unchanged"
      PROVE  Cardinality(ToSet(x)) > 1 \/ Cardinality(ToSet(y)) > 1
  BY <1>3, <1>5, OneReadingIsFlat DEF Estimable
<1>6. ASSUME v # "Unchanged"
      PROVE  (Sum(y) * Len(x) > Sum(x) * Len(y)) = (higher = (v = "Improved"))
  BY <1>3, <1>4, <1>6
<1> QED
  BY <1>1, <1>5, <1>6 DEF Earned

\* verdict.rs: a conclusive verdict stands on whole, cool readings of one driver,
\* and its direction is the one that the means moved, for any windows of any
\* whole readings, positive, negative or zero, and any number of diffs.
THEOREM ConclusiveIsEarnedHolds == DifferSpec => []ConclusiveIsEarned
<1>1. ASSUME SidesInv, verdict.is \in Conclusive
      PROVE  /\ \A a \in Archs :
                 /\ NaN \notin ToSet(window[a].values) /\ Len(window[a].values) >= Wanted
                 /\ window[a].temps = {"cool"} \/ "nan" \in window[a].temps
             /\ sides[Baseline].driver = sides[Current].driver
             /\ Earned(window[Baseline].values, window[Current].values,
                       verdict.higher, verdict.is)
  <2>1. verdict # NoVerdict
    BY <1>1 DEF NoVerdict, Conclusive
  <2>2. SidesAreMeasured /\ verdict.higher \in BOOLEAN
    BY <1>1, <2>1 DEF SidesInv
  <2>3. PICK significant \in BOOLEAN : VerdictOf(significant)
    BY <1>1, <2>1 DEF SidesInv
  <2>4. PICK b, c, x, y, v, higher :
            /\ b = sides[Baseline] /\ c = sides[Current]
            /\ x = window[Baseline].values /\ y = window[Current].values
            /\ v = verdict.is /\ higher = verdict.higher
    OBVIOUS
  <2>5. Baseline \in Archs /\ Current \in Archs /\ \A a \in Archs : a = Baseline \/ a = Current
    BY DEF Archs
  <2>6. v = compare_recorded(b, c, higher, significant) /\ v \in Conclusive
    BY <1>1, <2>3, <2>4, Zenon DEF VerdictOf
  <2>7. b.measurement.kind = "Measured" /\ c.measurement.kind = "Measured"
    BY <2>6 DEF compare_recorded, compare, Conclusive
  <2>8. \A a \in Archs : window[a] \in Windows /\ sides[a].measurement = Measure(window[a])
    BY <2>2 DEF SidesAreMeasured
  <2>9. \A a \in Archs : Measure(window[a]).kind = "Measured"
    BY <2>4, <2>5, <2>7, <2>8
  <2>10. \A a \in Archs :
             /\ sides[a].measurement.values = window[a].values
             /\ window[a].values \in Seq(Int)
             /\ NaN \notin ToSet(window[a].values) /\ Len(window[a].values) >= Wanted
             /\ window[a].temps = {"cool"} \/ "nan" \in window[a].temps
    BY <2>8, <2>9, MeasuredIsSound
  <2>11. /\ x \in Seq(Int) /\ b.measurement.values = x
         /\ y \in Seq(Int) /\ c.measurement.values = y
         /\ higher \in BOOLEAN
    BY <2>2, <2>4, <2>5, <2>10
  <2>12. b.driver = c.driver /\ Earned(x, y, higher, v)
    BY <2>6, <2>11, VerdictIsSound
  <2>13. /\ sides[Baseline].driver = sides[Current].driver
         /\ Earned(window[Baseline].values, window[Current].values, verdict.higher, verdict.is)
    BY <2>4, <2>12, Zenon
  <2> QED
    BY <2>10, <2>13
<1>2. SidesInv => ConclusiveIsEarned
  BY <1>1, Zenon DEF ConclusiveIsEarned, Conclusive, Earned
<1> QED
  BY <1>2, SidesInvHolds, PTL

-----------------------------------------------------------------------------
(* bench/compare.py.                                                        *)

\* 2^n is how many parts a set of n has: all that is needed of a power of two.
LEMMA PowersOfTwo ==
    ASSUME NEW D, IsFiniteSet(D)
    PROVE  /\ IsFiniteSet(SUBSET D) /\ Cardinality(SUBSET D) = 2^Cardinality(D)
           /\ 2^Cardinality(D) \in Nat
BY FS_SUBSET, FS_CardinalityType

-----------------------------------------------------------------------------
(* math.comb: the library's choose is a quotient of factorials.             *)

FactorialStep(f, n) == IF n = 0 THEN 1 ELSE n * f[n - 1]
RightUpTo(f, k)     == \A n \in 0..k : f[n] = FactorialStep(f, n)

\* Two functions that follow the recursion as far as n agree there.
LEMMA FactorialUnique ==
    ASSUME NEW f, NEW g, NEW k \in Nat, NEW l \in Nat, RightUpTo(f, k), RightUpTo(g, l)
    PROVE  \A n \in Nat : n <= k /\ n <= l => f[n] = g[n]
<1> DEFINE Same == {n \in Nat : n <= k /\ n <= l => f[n] = g[n]}
<1>1. 0 \in Same
  BY DEF RightUpTo, FactorialStep
<1>2. ASSUME NEW n \in Same PROVE n + 1 \in Same
  <2> SUFFICES ASSUME n + 1 <= k, n + 1 <= l PROVE f[n + 1] = g[n + 1]
    OBVIOUS
  <2>1. n + 1 \in 0..k /\ n + 1 \in 0..l /\ n + 1 # 0 /\ (n + 1) - 1 = n
    OBVIOUS
  <2>2. f[n] = g[n]
    OBVIOUS
  <2>3. f[n + 1] = (n + 1) * f[n] /\ g[n + 1] = (n + 1) * g[n]
    BY <2>1 DEF RightUpTo, FactorialStep
  <2> QED
    BY <2>2, <2>3
<1>3. \A n \in Nat : n \in Same
  <2>1. Same \in SUBSET Nat
    OBVIOUS
  <2> HIDE DEF Same
  <2> QED
    BY <1>1, <1>2, <2>1, UpFromZero
<1> QED
  BY <1>3

\* There is such a function: the one whose value at n is that of a function that
\* is right up to n.
LEMMA FactorialExists == factorial = [n \in Nat |-> FactorialStep(factorial, n)]
<1> DEFINE Reached == {k \in Nat : \E f \in [Nat -> Nat] : RightUpTo(f, k)}
<1>1. 0 \in Reached
  <2>1. [n \in Nat |-> 1] \in [Nat -> Nat] /\ RightUpTo([n \in Nat |-> 1], 0)
    BY DEF RightUpTo, FactorialStep
  <2> QED
    BY <2>1
<1>2. ASSUME NEW k \in Reached PROVE k + 1 \in Reached
  <2>1. PICK f \in [Nat -> Nat] : RightUpTo(f, k)
    OBVIOUS
  <2> DEFINE g == [n \in Nat |-> FactorialStep(f, n)]
  <2>2. g \in [Nat -> Nat]
    <3> SUFFICES ASSUME NEW n \in Nat PROVE FactorialStep(f, n) \in Nat
      OBVIOUS
    <3>1. CASE n = 0
      BY <3>1 DEF FactorialStep
    <3>2. CASE n # 0
      <4>1. n - 1 \in Nat
        BY <3>2
      <4> QED
        BY <3>2, <4>1 DEF FactorialStep
    <3> QED
      BY <3>1, <3>2
  <2>3. ASSUME NEW n \in 0..k + 1 PROVE g[n] = FactorialStep(g, n)
    <3>1. CASE n = 0
      BY <3>1 DEF FactorialStep
    <3>2. CASE n # 0
      <4>1. n - 1 \in 0..k /\ n - 1 \in Nat
        BY <3>2
      <4>2. f[n - 1] = g[n - 1]
        BY <2>1, <4>1 DEF RightUpTo
      <4> QED
        BY <3>2, <4>2 DEF FactorialStep
    <3> QED
      BY <3>1, <3>2
  <2> HIDE DEF g
  <2>4. RightUpTo(g, k + 1)
    BY <2>3 DEF RightUpTo
  <2>5. k + 1 \in Nat
    OBVIOUS
  <2> QED
    BY <2>2, <2>4, <2>5
<1>3. \A k \in Nat : \E f \in [Nat -> Nat] : RightUpTo(f, k)
  <2>1. Reached \in SUBSET Nat
    OBVIOUS
  <2>2. \A k \in Nat : k \in Reached
    <3> HIDE DEF Reached
    <3> QED
      BY <1>1, <1>2, <2>1, UpFromZero
  <2> QED
    BY <2>2
<1> DEFINE F == [k \in Nat |-> CHOOSE f \in [Nat -> Nat] : RightUpTo(f, k)]
           g == [n \in Nat |-> F[n][n]]
<1>4. \A k \in Nat : F[k] \in [Nat -> Nat] /\ RightUpTo(F[k], k)
  BY <1>3
<1>5. ASSUME NEW n \in Nat PROVE g[n] = FactorialStep(g, n)
  <2>0. F[n][n] = FactorialStep(F[n], n)
    <3> HIDE DEF F
    <3>1. RightUpTo(F[n], n) /\ n \in 0..n
      BY <1>4
    <3> QED
      BY <3>1 DEF RightUpTo
  <2>1. CASE n = 0
    BY <2>0, <2>1 DEF FactorialStep
  <2>2. CASE n # 0
    <3>1. n - 1 \in Nat /\ n - 1 <= n /\ n - 1 <= n - 1
      BY <2>2
    <3>2. F[n][n - 1] = F[n - 1][n - 1]
      <4> HIDE DEF F
      <4> QED
        BY <1>4, <3>1, FactorialUnique
    <3>3. g[n - 1] = F[n][n - 1] /\ g[n] = F[n][n]
      BY <3>1, <3>2
    <3> HIDE DEF g, F
    <3> QED
      BY <2>0, <2>2, <3>3 DEF FactorialStep
  <2> QED
    BY <2>1, <2>2
<1>6. g = [n \in Nat |-> FactorialStep(g, n)]
  <2>1. g = [n \in Nat |-> g[n]]
    OBVIOUS
  <2> HIDE DEF g
  <2> QED
    BY <1>5, <2>1
<1> HIDE DEF g
<1>7. factorial = CHOOSE f : f = [n \in Nat |-> FactorialStep(f, n)]
  BY DEF factorial, FactorialStep
<1> QED
  BY <1>6, <1>7, Zenon

\* What is needed of it.
LEMMA Factorials ==
    /\ factorial[0] = 1
    /\ \A n \in Nat : factorial[n] \in Nat \ {0} /\ factorial[n + 1] = (n + 1) * factorial[n]
<1>1. factorial[0] = 1
  BY FactorialExists DEF FactorialStep
<1>2. ASSUME NEW n \in Nat PROVE factorial[n + 1] = (n + 1) * factorial[n]
  <2>1. n + 1 \in Nat /\ n + 1 # 0 /\ (n + 1) - 1 = n
    OBVIOUS
  <2>2. factorial[n + 1] = FactorialStep(factorial, n + 1)
    BY <2>1, FactorialExists
  <2> QED
    BY <2>1, <2>2 DEF FactorialStep
<1> DEFINE Whole == {n \in Nat : factorial[n] \in Nat \ {0}}
<1>3. \A n \in Nat : n \in Whole
  <2>1. Whole \in SUBSET Nat /\ 0 \in Whole
    BY <1>1
  <2>2. ASSUME NEW n \in Whole PROVE n + 1 \in Whole
    <3>1. PICK x \in Nat \ {0} : x = factorial[n]
      OBVIOUS
    <3>2. (n + 1) * x \in Nat \ {0}
      OBVIOUS
    <3> QED
      BY <1>2, <3>1, <3>2
  <2> HIDE DEF Whole
  <2> QED
    BY <2>1, <2>2, UpFromZero
<1> QED
  BY <1>1, <1>2, <1>3

\* The parts of D of a size, and of a size in some set.
OfSize(D, i)    == {T \in SUBSET D : Cardinality(T) = i}
OfSizeIn(D, is) == {T \in SUBSET D : Cardinality(T) \in is}

\* There are finitely many.
LEMMA FewSizes ==
    ASSUME NEW D, IsFiniteSet(D), NEW is
    PROVE  /\ IsFiniteSet(OfSizeIn(D, is)) /\ Cardinality(OfSizeIn(D, is)) \in Nat
           /\ \A i : IsFiniteSet(OfSize(D, i)) /\ Cardinality(OfSize(D, i)) \in Nat
<1>1. OfSizeIn(D, is) \in SUBSET SUBSET D /\ \A i : OfSize(D, i) \in SUBSET SUBSET D
  BY DEF OfSizeIn, OfSize
<1>2. IsFiniteSet(SUBSET D)
  BY FS_SUBSET
<1> QED
  BY <1>1, <1>2, FS_Subset, FS_CardinalityType

\* Of the parts of a size, those without x are the parts of the rest of that size;
\* those with it are as many as the parts of the rest of one less.
LEMMA Pascal ==
    ASSUME NEW D, IsFiniteSet(D), NEW x \in D, NEW i \in Nat
    PROVE  Cardinality(OfSize(D, i + 1))
               = Cardinality(OfSize(D \ {x}, i + 1)) + Cardinality(OfSize(D \ {x}, i))
<1> DEFINE E    == D \ {x}
           With == {T \in OfSize(D, i + 1) : x \in T}
           f    == [T \in OfSize(E, i) |-> T \cup {x}]
<1>1. IsFiniteSet(E) /\ \A T \in SUBSET D : IsFiniteSet(T) /\ Cardinality(T) \in Nat
  BY FS_Subset, FS_CardinalityType
<1>2. ASSUME NEW T \in OfSize(E, i) PROVE T \cup {x} \in With
  <2>1. T \in SUBSET E /\ Cardinality(T) = i /\ IsFiniteSet(T)
    BY <1>1 DEF OfSize
  <2>2. Cardinality(T \cup {x}) = i + 1
    BY <2>1, FS_AddElement
  <2> QED
    BY <2>1, <2>2 DEF OfSize
<1>3. ASSUME NEW T \in With PROVE T \ {x} \in OfSize(E, i) /\ T = (T \ {x}) \cup {x}
  <2>1. T \in SUBSET D /\ Cardinality(T) = i + 1 /\ IsFiniteSet(T) /\ x \in T
    BY <1>1 DEF OfSize
  <2>2. Cardinality(T \ {x}) = Cardinality(T) - 1
    BY <2>1, FS_RemoveElement
  <2>3. Cardinality(T \ {x}) = i
    BY <2>1, <2>2
  <2> QED
    BY <2>1, <2>3 DEF OfSize
<1>4. f \in Bijection(OfSize(E, i), With)
  <2>1. f \in [OfSize(E, i) -> With]
    BY <1>2
  <2>2. \A S, T \in OfSize(E, i) : f[S] = f[T] => S = T
    BY DEF OfSize
  <2>3. \A T \in With : \E S \in OfSize(E, i) : f[S] = T
    BY <1>3
  <2> HIDE DEF f, With
  <2> QED
    BY <2>1, <2>2, <2>3 DEF Bijection, Injection, Surjection, IsInjective
<1>5. Cardinality(With) = Cardinality(OfSize(E, i)) /\ IsFiniteSet(With)
  <2>1. IsFiniteSet(OfSize(E, i))
    BY <1>1, FewSizes
  <2> HIDE DEF f, With
  <2> QED
    BY <1>4, <2>1, FS_Bijection DEF ExistsBijection
<1>6. OfSize(D, i + 1) = OfSize(E, i + 1) \cup With /\ OfSize(E, i + 1) \cap With = {}
  BY DEF OfSize
<1>7. IsFiniteSet(OfSize(E, i + 1))
  BY <1>1, FewSizes
<1> HIDE DEF With, E
<1>8. Cardinality(OfSize(D, i + 1))
          = Cardinality(OfSize(E, i + 1)) + Cardinality(With) - Cardinality({})
  BY <1>5, <1>6, <1>7, FS_Union
<1>9. Cardinality({}) = 0 /\ Cardinality(OfSize(E, i + 1)) \in Nat /\ Cardinality(With) \in Nat
  BY <1>5, <1>7, FS_EmptySet, FS_CardinalityType
<1> QED
  BY <1>5, <1>8, <1>9 DEF E

\* One part is empty, and one is the whole.
LEMMA NoneAndAll ==
    ASSUME NEW D, IsFiniteSet(D)
    PROVE  /\ Cardinality(OfSize(D, 0)) = 1
           /\ Cardinality(OfSize(D, Cardinality(D))) = 1
<1>1. OfSize(D, 0) = {{}}
  BY FS_Subset, FS_EmptySet DEF OfSize
<1>2. OfSize(D, Cardinality(D)) = {D}
  BY FS_Subset DEF OfSize
<1> QED
  BY <1>1, <1>2, FS_Singleton

\* The step of the induction, in numbers: of m + 1 things, i + 1 are taken.
LEMMA PascalInNumbers ==
    ASSUME NEW m \in Nat, NEW i \in Nat, i + 1 <= m, NEW N \in Nat, NEW M \in Nat,
           N * (factorial[i + 1] * factorial[m - (i + 1)]) = factorial[m],
           M * (factorial[i] * factorial[m - i]) = factorial[m]
    PROVE  (N + M) * (factorial[i + 1] * factorial[(m + 1) - (i + 1)]) = factorial[m + 1]
<1> DEFINE j == m - (i + 1)
<1>1. j \in Nat /\ m - i = j + 1 /\ (m + 1) - (i + 1) = j + 1
  OBVIOUS
<1> HIDE DEF j
<1>2. PICK a \in Nat, b \in Nat, c \in Nat : a = factorial[i] /\ b = factorial[j] /\ c = factorial[m]
  BY <1>1, Factorials
<1>3. /\ factorial[i + 1] = (i + 1) * a /\ factorial[j + 1] = (j + 1) * b
      /\ factorial[m + 1] = (m + 1) * c
  BY <1>1, <1>2, Factorials
<1>4. N * (((i + 1) * a) * b) = c /\ M * (a * ((j + 1) * b)) = c
  BY <1>1, <1>2, <1>3 DEF j
<1>5. m + 1 = (i + 1) + (j + 1)
  BY <1>1
<1>6. (N + M) * (((i + 1) * a) * ((j + 1) * b))
         = (j + 1) * (N * (((i + 1) * a) * b)) + (i + 1) * (M * (a * ((j + 1) * b)))
  BY <1>1
<1>7. (j + 1) * c + (i + 1) * c = (m + 1) * c
  BY <1>1, <1>5
<1> QED
  BY <1>1, <1>3, <1>4, <1>6, <1>7

\* How many parts of a size a set has, as a product: choose divides it.
LEMMA SubsetsByFactorials ==
    ASSUME NEW D, IsFiniteSet(D)
    PROVE  \A s \in SUBSET D : \A i \in 0..Cardinality(s) :
               Cardinality(OfSize(s, i)) * (factorial[i] * factorial[Cardinality(s) - i])
                   = factorial[Cardinality(s)]
<1> DEFINE Good == {s \in SUBSET D : \A i \in 0..Cardinality(s) :
               Cardinality(OfSize(s, i)) * (factorial[i] * factorial[Cardinality(s) - i])
                   = factorial[Cardinality(s)]}
           Right(s, i) == Cardinality(OfSize(s, i)) * (factorial[i] * factorial[Cardinality(s) - i])
                   = factorial[Cardinality(s)]
<1>0. ASSUME NEW s \in SUBSET D PROVE IsFiniteSet(s) /\ Cardinality(s) \in Nat
  BY FS_Subset, FS_CardinalityType
<1>1. ASSUME NEW s \in SUBSET D PROVE Right(s, 0) /\ Right(s, Cardinality(s))
  <2>1. PICK n \in Nat : n = Cardinality(s)
    BY <1>0
  <2>2. PICK x \in Nat : x = factorial[n]
    BY Factorials
  <2>3. factorial[0] = 1 /\ n - 0 = n /\ n - n = 0 /\ 1 * (1 * x) = x /\ 1 * (x * 1) = x
    BY Factorials
  <2>4. Cardinality(OfSize(s, 0)) = 1 /\ Cardinality(OfSize(s, n)) = 1
    BY <1>0, <2>1, NoneAndAll
  <2> QED
    BY <2>1, <2>2, <2>3, <2>4
<1>2. {} \in Good
  <2>1. Cardinality({}) = 0 /\ {} \in SUBSET D
    BY FS_EmptySet
  <2>2. \A i \in 0..0 : i = 0
    OBVIOUS
  <2> QED
    BY <1>1, <2>1, <2>2
<1>3. ASSUME NEW s \in SUBSET D, s # {}, Rest(s) \in Good PROVE s \in Good
  <2> SUFFICES ASSUME NEW k \in 0..Cardinality(s), k # 0, k # Cardinality(s)
               PROVE  Right(s, k)
    BY <1>1
  <2> DEFINE i == k - 1
             m == Cardinality(s) - 1
  <2>0. /\ Taken(s) \in s /\ Rest(s) \in SUBSET D /\ Cardinality(s) \in Nat \ {0}
        /\ Cardinality(Rest(s)) = Cardinality(s) - 1
    BY <1>3, RestIsSmaller
  <2>1. Taken(s) \in s /\ Cardinality(s) = m + 1 /\ Cardinality(Rest(s)) = m /\ m \in Nat
    BY <2>0
  <2>2. i \in Nat /\ k = i + 1 /\ i + 1 <= m
    BY <2>1
  <2> HIDE DEF i, m
  <2>3. i \in 0..m /\ i + 1 \in 0..m
    BY <2>1, <2>2
  <2>4. Right(Rest(s), i) /\ Right(Rest(s), i + 1)
    BY <1>3, <2>1, <2>3
  <2>5. PICK N \in Nat, M \in Nat :
            N = Cardinality(OfSize(Rest(s), i + 1)) /\ M = Cardinality(OfSize(Rest(s), i))
    <3>1. IsFiniteSet(Rest(s))
      BY <1>0, <2>0
    <3> QED
      BY <3>1, FewSizes
  <2>6. Cardinality(OfSize(s, i + 1)) = N + M
    BY <1>0, <2>1, <2>2, <2>5, Pascal DEF Rest
  <2>7. (N + M) * (factorial[i + 1] * factorial[(m + 1) - (i + 1)]) = factorial[m + 1]
    BY <2>1, <2>2, <2>4, <2>5, PascalInNumbers
  <2> QED
    BY <2>1, <2>2, <2>6, <2>7
<1> HIDE DEF Good
<1>4. \A s \in SUBSET D : s \in Good
  BY <1>2, <1>3, FromTheRest
<1> QED
  BY <1>4 DEF Good

\* It is a whole number, and the parts of that size are as many.
LEMMA ChooseCounts ==
    ASSUME NEW D, IsFiniteSet(D), NEW i \in 0..Cardinality(D)
    PROVE  choose(Cardinality(D), i) = Cardinality(OfSize(D, i))
<1>1. PICK n \in Nat, N \in Nat : n = Cardinality(D) /\ N = Cardinality(OfSize(D, i))
  BY FewSizes, FS_CardinalityType
<1>2. n - i \in Nat /\ i \in Nat
  BY <1>1
<1>3. PICK a \in Nat \ {0}, b \in Nat \ {0}, c \in Nat :
          a = factorial[i] /\ b = factorial[n - i] /\ c = factorial[n]
  BY <1>2, Factorials
<1>4. N * (a * b) = c
  BY <1>1, <1>3, SubsetsByFactorials
<1>5. a * b \in Nat \ {0}
  OBVIOUS
<1>6. PICK x \in Nat \ {0} : x = a * b
  BY <1>5
<1>7. (N * x) \div x = N
  OBVIOUS
<1> QED
  BY <1>1, <1>3, <1>4, <1>6, <1>7 DEF choose

-----------------------------------------------------------------------------
(* tail and Difference, as the library's fold defines them.                 *)

\* Adding up how many parts there are of each size is counting those of all of them.
LEMMA SizesAddUp ==
    ASSUME NEW D, IsFiniteSet(D), NEW I, IsFiniteSet(I),
           NEW h, \A i \in I : h[i] = Cardinality(OfSize(D, i)),
           NEW g, AddsUp(g, h, I)
    PROVE  g[I] = Cardinality(OfSizeIn(D, I))
<1> DEFINE Good == {s \in SUBSET I : g[s] = Cardinality(OfSizeIn(D, s))}
<1>0. \A s \in SUBSET I : g[s] = Step(g, h, s)
  BY DEF AddsUp
<1>1. {} \in Good
  <2>1. OfSizeIn(D, {}) = {} /\ Cardinality({}) = 0
    BY FS_EmptySet DEF OfSizeIn
  <2>2. g[{}] = 0
    BY <1>0 DEF Step
  <2> QED
    BY <2>1, <2>2
<1>2. ASSUME NEW s \in SUBSET I, s # {}, Rest(s) \in Good PROVE s \in Good
  <2> DEFINE t == Taken(s)
  <2>1. t \in s /\ Rest(s) \in SUBSET I /\ Rest(s) = s \ {t}
    BY <1>2, RestIsSmaller DEF Rest
  <2>2. g[s] = h[t] + g[Rest(s)]
    BY <1>0, <1>2 DEF Step
  <2>3. h[t] = Cardinality(OfSize(D, t)) /\ g[Rest(s)] = Cardinality(OfSizeIn(D, Rest(s)))
    BY <1>2, <2>1
  <2>4. /\ OfSizeIn(D, s) = OfSize(D, t) \cup OfSizeIn(D, Rest(s))
        /\ OfSize(D, t) \cap OfSizeIn(D, Rest(s)) = {}
    BY <2>1 DEF OfSizeIn, OfSize
  <2>5. /\ IsFiniteSet(OfSize(D, t)) /\ Cardinality(OfSize(D, t)) \in Nat
        /\ IsFiniteSet(OfSizeIn(D, Rest(s))) /\ Cardinality(OfSizeIn(D, Rest(s))) \in Nat
    BY FewSizes
  <2>6. Cardinality(OfSizeIn(D, s))
            = Cardinality(OfSize(D, t)) + Cardinality(OfSizeIn(D, Rest(s))) - Cardinality({})
    BY <2>4, <2>5, FS_Union
  <2>7. Cardinality({}) = 0
    BY FS_EmptySet
  <2> QED
    BY <2>2, <2>3, <2>5, <2>6, <2>7
<1> HIDE DEF Good
<1>3. I \in Good
  BY <1>1, <1>2, FromTheRest
<1> QED
  BY <1>3 DEF Good

\* Adding up ones and minus ones is counting both.
LEMMA SignsAddUp ==
    ASSUME NEW S, IsFiniteSet(S), NEW h \in [S -> {-1, 0, 1}], NEW g, AddsUp(g, h, S)
    PROVE  g[S] = Cardinality({i \in S : h[i] = 1}) - Cardinality({i \in S : h[i] = -1})
<1> DEFINE Up(s)   == {i \in s : h[i] = 1}
           Down(s) == {i \in s : h[i] = -1}
           Good    == {s \in SUBSET S : g[s] = Cardinality(Up(s)) - Cardinality(Down(s))}
<1>0. \A s \in SUBSET S : g[s] = Step(g, h, s)
  BY DEF AddsUp
<1>1. {} \in Good
  <2>1. Up({}) = {} /\ Down({}) = {} /\ Cardinality({}) = 0
    BY FS_EmptySet
  <2>2. g[{}] = 0
    BY <1>0 DEF Step
  <2> QED
    BY <2>1, <2>2
<1>2. ASSUME NEW s \in SUBSET S, s # {}, Rest(s) \in Good PROVE s \in Good
  <2> DEFINE t == Taken(s)
             R == Rest(s)
  <2>1. t \in s /\ R \in SUBSET S /\ R = s \ {t} /\ h[t] \in {-1, 0, 1}
    BY <1>2, RestIsSmaller DEF Rest
  <2>2. g[s] = h[t] + g[R]
    BY <1>0, <1>2 DEF Step
  <2>3. g[R] = Cardinality(Up(R)) - Cardinality(Down(R))
    BY <1>2
  <2>4. /\ IsFiniteSet(Up(R)) /\ Cardinality(Up(R)) \in Nat
        /\ IsFiniteSet(Down(R)) /\ Cardinality(Down(R)) \in Nat
    <3>1. Up(R) \in SUBSET S /\ Down(R) \in SUBSET S
      BY <2>1
    <3> HIDE DEF Up, Down
    <3> QED
      BY <3>1, FS_Subset, FS_CardinalityType
  <2>5. CASE h[t] = 1
    <3>1. Up(s) = Up(R) \cup {t} /\ t \notin Up(R) /\ Down(s) = Down(R)
      BY <2>1, <2>5
    <3> HIDE DEF Up, Down
    <3>2. Cardinality(Up(s)) = Cardinality(Up(R)) + 1
      BY <2>4, <3>1, FS_AddElement
    <3> QED
      BY <2>2, <2>3, <2>4, <2>5, <3>1, <3>2
  <2>6. CASE h[t] = -1
    <3>1. Down(s) = Down(R) \cup {t} /\ t \notin Down(R) /\ Up(s) = Up(R)
      BY <2>1, <2>6
    <3> HIDE DEF Up, Down
    <3>2. Cardinality(Down(s)) = Cardinality(Down(R)) + 1
      BY <2>4, <3>1, FS_AddElement
    <3> QED
      BY <2>2, <2>3, <2>4, <2>6, <3>1, <3>2
  <2>7. CASE h[t] = 0
    <3>1. Down(s) = Down(R) /\ Up(s) = Up(R)
      BY <2>1, <2>7
    <3> HIDE DEF Up, Down
    <3> QED
      BY <2>2, <2>3, <2>4, <2>7, <3>1
  <2> QED
    BY <2>1, <2>5, <2>6, <2>7
<1> HIDE DEF Good
<1>3. S \in Good
  BY <1>1, <1>2, FromTheRest
<1> QED
  BY <1>3 DEF Good

\* The fold of tail, spelled out.
TailStep(g, n, s) ==
    IF s = {} THEN 0 ELSE choose(n, CHOOSE x \in s : TRUE) + g[s \ {CHOOSE x \in s : TRUE}]
Tailing(n, is) == CHOOSE g : g = [s \in SUBSET is |-> TailStep(g, n, s)]

\* tail counts the parts of a set that are no larger than last.
LEMMA TailCounts ==
    ASSUME NEW D, IsFiniteSet(D), NEW last \in 0..Cardinality(D)
    PROVE  tail(Cardinality(D), last) = Cardinality(OfSizeIn(D, 0..last))
<1> DEFINE I == 0..last
<1>1. PICK n \in Nat : n = Cardinality(D)
  BY FS_CardinalityType
<1>2. IsFiniteSet(I) /\ \A i \in I : i \in 0..n
  BY <1>1, FS_Interval
<1> HIDE DEF I
<1> DEFINE h == [i \in I |-> choose(n, i)]
           g == Tailing(n, I)
<1>3. \A i \in I : h[i] = Cardinality(OfSize(D, i)) /\ h[i] \in Int
  BY <1>1, <1>2, ChooseCounts, FewSizes
<1>4. h \in [I -> Int]
  <2>1. h = [i \in I |-> h[i]]
    OBVIOUS
  <2> HIDE DEF h
  <2> QED
    BY <1>3, <2>1
<1>5. ASSUME NEW f, NEW s \in SUBSET I PROVE Step(f, h, s) = TailStep(f, n, s)
  BY DEF Step, Taken, Rest, TailStep
<1>6. AddsUp(g, h, I)
  <2>1. PICK f : AddsUp(f, h, I)
    BY <1>2, <1>4, SumExists
  <2>2. f = [s \in SUBSET I |-> TailStep(f, n, s)]
    BY <1>5, <2>1, Zenon DEF AddsUp
  <2>3. g = [s \in SUBSET I |-> TailStep(g, n, s)]
    BY <2>2, Zenon DEF Tailing
  <2> QED
    BY <1>5, <2>3, Zenon DEF AddsUp
<1>7. tail(n, last) = g[I]
  BY DEF tail, MapThenSumSet, MapThenFoldSet, Tailing, TailStep, I
<1> HIDE DEF h, g
<1>8. g[I] = Cardinality(OfSizeIn(D, I))
  BY <1>2, <1>3, <1>6, SizesAddUp
<1> QED
  BY <1>1, <1>7, <1>8 DEF I

\* The items that both runs have, and those of them where only one is right.
OnlyA == {i \in shared : items[i].a = "yes" /\ items[i].b = "no"}
OnlyB == {i \in shared : items[i].a = "no" /\ items[i].b = "yes"}

\* The type of what was run.
ItemsTyped == items \in Seq([a : Says, b : Says, same : BOOLEAN])

\* The fold of Difference, spelled out: what an item adds to B - A when the
\* answers of those in swapped change sides.
SignOf(i, swapped) ==
    LET d == (IF items[i].b = "yes" THEN 1 ELSE 0) - (IF items[i].a = "yes" THEN 1 ELSE 0)
    IN  IF i \in swapped THEN -d ELSE d
SwapStep(g, swapped, s) ==
    IF s = {} THEN 0
    ELSE SignOf(CHOOSE x \in s : TRUE, swapped) + g[s \ {CHOOSE x \in s : TRUE}]
Swapping(swapped) == CHOOSE g : g = [s \in SUBSET shared |-> SwapStep(g, swapped, s)]

\* The discordant items that B has right once those in swapped change sides.
Gained(swapped) == (OnlyB \ swapped) \cup (OnlyA \cap swapped)

\* Both runs say yes or no of every item that they share.
LEMMA SharedTyped ==
    ASSUME ItemsTyped
    PROVE  /\ IsFiniteSet(shared) /\ IsFiniteSet(OnlyA) /\ IsFiniteSet(OnlyB)
           /\ OnlyA \subseteq shared /\ OnlyB \subseteq shared /\ OnlyA \cap OnlyB = {}
           /\ \A i \in shared : items[i].a \in {"yes", "no"} /\ items[i].b \in {"yes", "no"}
           /\ only_a = Cardinality(OnlyA) /\ only_b = Cardinality(OnlyB)
<1>1. Len(items) \in Nat /\ DOMAIN items = 1..Len(items)
  BY LenProperties DEF ItemsTyped
<1>2. IsFiniteSet(1..Len(items))
  BY <1>1, FS_Interval
<1>3. shared \in SUBSET (1..Len(items)) /\ OnlyA \in SUBSET shared /\ OnlyB \in SUBSET shared
  BY <1>1 DEF shared, OnlyA, OnlyB
<1>4. IsFiniteSet(shared) /\ IsFiniteSet(OnlyA) /\ IsFiniteSet(OnlyB)
  BY <1>2, <1>3, FS_Subset
<1>5. ASSUME NEW i \in shared
      PROVE  items[i].a \in {"yes", "no"} /\ items[i].b \in {"yes", "no"}
  <2>1. items[i] \in [a : Says, b : Says, same : BOOLEAN]
    BY <1>1, <1>3, ElementOfSeq DEF ItemsTyped
  <2>2. items[i].a # "none" /\ items[i].b # "none"
    BY DEF shared
  <2> QED
    BY <2>1, <2>2 DEF Says
<1>6. OnlyA \cap OnlyB = {}
  BY DEF OnlyA, OnlyB
<1> QED
  BY <1>3, <1>4, <1>5, <1>6 DEF OnlyA, OnlyB, only_a, only_b

\* How many items are discordant.
LEMMA Discordant ==
    ASSUME ItemsTyped
    PROVE  /\ only_a \in Nat /\ only_b \in Nat /\ IsFiniteSet(OnlyA \cup OnlyB)
           /\ Cardinality(OnlyA \cup OnlyB) = only_a + only_b
<1>1. /\ IsFiniteSet(OnlyA \cup OnlyB)
      /\ Cardinality(OnlyA \cup OnlyB) = Cardinality(OnlyA) + Cardinality(OnlyB) - Cardinality({})
  BY SharedTyped, FS_Union
<1>2. Cardinality(OnlyA) \in Nat /\ Cardinality(OnlyB) \in Nat /\ Cardinality({}) = 0
  BY SharedTyped, FS_CardinalityType, FS_EmptySet
<1> QED
  BY <1>1, <1>2, SharedTyped

\* The difference, by what B gains.
LEMMA DifferenceCounts ==
    ASSUME ItemsTyped, NEW swapped \in SUBSET shared
    PROVE  Difference(swapped)
               = Cardinality(Gained(swapped)) - Cardinality((OnlyA \cup OnlyB) \ Gained(swapped))
<1> DEFINE h == [i \in shared |-> SignOf(i, swapped)]
           g == Swapping(swapped)
<1>1. ASSUME NEW i \in shared
      PROVE  /\ h[i] = 1  <=> i \in Gained(swapped)
             /\ h[i] = -1 <=> i \in (OnlyA \cup OnlyB) \ Gained(swapped)
             /\ h[i] \in {-1, 0, 1}
  <2>1. items[i].a \in {"yes", "no"} /\ items[i].b \in {"yes", "no"}
    BY SharedTyped
  <2> QED
    BY <2>1 DEF SignOf, Gained, OnlyA, OnlyB
<1>2. h \in [shared -> {-1, 0, 1}] /\ h \in [shared -> Int]
  BY <1>1
<1>3. /\ {i \in shared : h[i] = 1} = Gained(swapped)
      /\ {i \in shared : h[i] = -1} = (OnlyA \cup OnlyB) \ Gained(swapped)
  BY <1>1, SharedTyped DEF Gained
<1>4. ASSUME NEW f, NEW s \in SUBSET shared PROVE Step(f, h, s) = SwapStep(f, swapped, s)
  BY DEF Step, Taken, Rest, SwapStep
<1>5. IsFiniteSet(shared)
  BY SharedTyped
<1>6. AddsUp(g, h, shared)
  <2>1. PICK f : AddsUp(f, h, shared)
    BY <1>2, <1>5, SumExists
  <2>2. f = [s \in SUBSET shared |-> SwapStep(f, swapped, s)]
    BY <1>4, <2>1, Zenon DEF AddsUp
  <2>3. g = [s \in SUBSET shared |-> SwapStep(g, swapped, s)]
    BY <2>2, Zenon DEF Swapping
  <2> QED
    BY <1>4, <2>3, Zenon DEF AddsUp
<1>7. Difference(swapped) = g[shared]
  BY DEF Difference, MapThenSumSet, MapThenFoldSet, Swapping, SwapStep, SignOf
<1> HIDE DEF h, g
<1>8. g[shared] = Cardinality({i \in shared : h[i] = 1}) - Cardinality({i \in shared : h[i] = -1})
  BY <1>2, <1>5, <1>6, SignsAddUp
<1> QED
  BY <1>3, <1>7, <1>8

-----------------------------------------------------------------------------
(* mcnemar_exact.                                                           *)

\* Of m discordant items and k on the side that has fewer: a difference is as large
\* as the one seen exactly where B gains no more than k of them, or all but k.
LEMMA AsLargeInNumbers ==
    ASSUME NEW m \in Nat, NEW k \in Nat, 2 * k <= m, NEW t \in 0..m,
           NEW d \in Int, d = m - 2 * k \/ d = 2 * k - m
    PROVE  (2 * t - m) * (2 * t - m) >= d * d <=> t <= k \/ t >= m - k
<1> DEFINE x == 2 * t - m
           e == m - 2 * k
<1>1. e \in Nat /\ x \in Int /\ d * d = e * e
  OBVIOUS
<1>2. t <= k \/ t >= m - k <=> x <= -e \/ x >= e
  OBVIOUS
<1>3. ASSUME NEW a \in Nat, NEW b \in Nat PROVE a * a >= b * b <=> a >= b
  <2>1. CASE a >= b
    <3>1. PICK c \in Nat : a = b + c
      <4>1. a - b \in Nat /\ a = b + (a - b)
        BY <2>1
      <4> QED
        BY <4>1
    <3>2. a * a = b * b + (2 * (b * c) + c * c)
      BY <3>1
    <3>3. b * b \in Nat /\ 2 * (b * c) + c * c \in Nat
      BY <3>1
    <3> QED
      BY <2>1, <3>2, <3>3
  <2>2. CASE a < b
    <3>1. PICK c \in Nat \ {0} : b = a + c
      <4>1. b - a \in Nat \ {0} /\ b = a + (b - a)
        BY <2>2
      <4> QED
        BY <4>1
    <3>2. b * b = a * a + (2 * (a * c) + c * c)
      BY <3>1
    <3>3. a * a \in Nat /\ 2 * (a * c) \in Nat /\ c * c \in Nat \ {0}
      BY <3>1
    <3> QED
      BY <2>2, <3>2, <3>3
  <2> QED
    BY <2>1, <2>2
<1> HIDE DEF x, e
<1>4. CASE x >= 0
  <2>1. x * x >= e * e <=> x >= e
    BY <1>1, <1>3, <1>4
  <2> QED
    BY <1>1, <1>2, <1>4, <2>1 DEF x
<1>5. CASE x < 0
  <2>1. -x \in Nat /\ (-x) * (-x) = x * x
    BY <1>1, <1>5
  <2>2. x * x >= e * e <=> -x >= e
    BY <1>1, <1>3, <2>1
  <2> QED
    BY <1>1, <1>2, <1>5, <2>2 DEF x
<1> QED
  BY <1>1, <1>4, <1>5

\* The parts of a set that have at most k elements, or lack at most k.
BothTails(D, k) ==
    {T \in SUBSET D : Cardinality(T) <= k \/ Cardinality(T) >= Cardinality(D) - k}

\* They are twice the tail, but where the tails meet they are all, and 2^m.
LEMMA BothTailsCounted ==
    ASSUME NEW D, IsFiniteSet(D), NEW k \in Nat, 2 * k <= Cardinality(D)
    PROVE  LET m == Cardinality(D) IN
           Cardinality(BothTails(D, k))
               = IF 2 * tail(m, k) < 2^m THEN 2 * tail(m, k) ELSE 2^m
<1> DEFINE Low  == OfSizeIn(D, 0..k)
           High == {T \in SUBSET D : D \ T \in Low}
           f    == [T \in Low |-> D \ T]
<1>1. PICK m \in Nat : m = Cardinality(D)
  BY FS_CardinalityType
<1>2. ASSUME NEW T \in SUBSET D
      PROVE  /\ Cardinality(T) \in 0..m /\ Cardinality(D \ T) = m - Cardinality(T)
  <2>1. IsFiniteSet(T) /\ Cardinality(T) \in Nat /\ Cardinality(T) <= m
    BY <1>1, FS_Subset, FS_CardinalityType
  <2>2. D \cap T = T
    OBVIOUS
  <2>3. Cardinality(D \ T) = Cardinality(D) - Cardinality(D \cap T)
    BY FS_Difference
  <2>4. Cardinality(D \ T) = m - Cardinality(T)
    BY <1>1, <2>2, <2>3
  <2> QED
    BY <2>1, <2>4
<1>3. BothTails(D, k) = Low \cup High
  <2>1. ASSUME NEW T \in SUBSET D
        PROVE  /\ T \in Low <=> Cardinality(T) <= k
               /\ T \in High <=> Cardinality(T) >= m - k
    <3>1. T \in Low <=> Cardinality(T) \in 0..k
      BY DEF OfSizeIn
    <3>2. T \in High <=> Cardinality(D \ T) \in 0..k
      BY DEF OfSizeIn
    <3> HIDE DEF Low, High
    <3> QED
      BY <1>2, <3>1, <3>2
  <2>2. Low \in SUBSET SUBSET D /\ High \in SUBSET SUBSET D
    BY DEF OfSizeIn
  <2> HIDE DEF Low, High
  <2> QED
    BY <1>1, <2>1, <2>2 DEF BothTails
<1>4. f \in Bijection(Low, High)
  <2>1. Low \in SUBSET SUBSET D
    BY DEF OfSizeIn
  <2> HIDE DEF Low
  <2>2. f \in [Low -> High]
    <3> SUFFICES ASSUME NEW T \in Low PROVE D \ T \in High
      OBVIOUS
    <3>1. D \ (D \ T) = T
      BY <2>1
    <3> QED
      BY <3>1
  <2>3. \A S, T \in Low : f[S] = f[T] => S = T
    BY <2>1
  <2>4. \A T \in High : \E S \in Low : f[S] = T
    <3> SUFFICES ASSUME NEW T \in High PROVE f[D \ T] = T /\ D \ T \in Low
      OBVIOUS
    <3> QED
      OBVIOUS
  <2> HIDE DEF f, High
  <2> QED
    BY <2>2, <2>3, <2>4 DEF Bijection, Injection, Surjection, IsInjective
<1>5. IsFiniteSet(Low) /\ Cardinality(Low) = tail(m, k) /\ Cardinality(Low) \in Nat
  <2>1. k \in 0..Cardinality(D)
    BY <1>1
  <2> QED
    BY <1>1, <2>1, TailCounts, FewSizes
<1>6. IsFiniteSet(High) /\ Cardinality(High) = Cardinality(Low)
  <2> HIDE DEF f, Low, High
  <2> QED
    BY <1>4, <1>5, FS_Bijection DEF ExistsBijection
<1>7. IsFiniteSet(SUBSET D) /\ Cardinality(SUBSET D) = 2^m /\ 2^m \in Nat
  BY <1>1, PowersOfTwo
<1>8. BothTails(D, k) \in SUBSET SUBSET D
  BY DEF BothTails
<1>9. Cardinality(BothTails(D, k)) \in Nat /\ Cardinality(BothTails(D, k)) <= 2^m
  BY <1>7, <1>8, FS_Subset, FS_CardinalityType
<1>10. Low \cap High \in SUBSET Low
  OBVIOUS
<1>11. ASSUME NEW T \in Low \cap High PROVE 2 * k = m
  <2>1. T \in SUBSET D /\ Cardinality(T) \in 0..k /\ Cardinality(D \ T) \in 0..k
    BY DEF OfSizeIn
  <2> QED
    BY <1>1, <1>2, <2>1
<1>12. 2 * k = m => BothTails(D, k) = SUBSET D
  <2> SUFFICES ASSUME 2 * k = m, NEW T \in SUBSET D
               PROVE  Cardinality(T) <= k \/ Cardinality(T) >= m - k
    BY <1>1 DEF BothTails
  <2>1. Cardinality(T) \in Nat
    BY FS_Subset, FS_CardinalityType
  <2> HIDE DEF Low, High, f
  <2> QED
    BY <2>1
<1> HIDE DEF Low, High
<1>13. IsFiniteSet(Low \cap High) /\ Cardinality(Low \cap High) \in Nat
  BY <1>5, <1>10, FS_Subset, FS_CardinalityType
<1>14. Cardinality(BothTails(D, k)) = 2 * tail(m, k) - Cardinality(Low \cap High)
  <2>1. Cardinality(Low \cup High)
            = Cardinality(Low) + Cardinality(High) - Cardinality(Low \cap High)
    BY <1>5, <1>6, FS_Union
  <2> QED
    BY <1>3, <1>5, <1>6, <1>13, <2>1
<1>15. CASE 2 * k = m
  <2>1. Cardinality(BothTails(D, k)) = 2^m
    BY <1>7, <1>12, <1>15
  <2> QED
    BY <1>1, <1>5, <1>7, <1>13, <1>14, <2>1
<1>16. CASE 2 * k # m
  <2>1. Low \cap High = {}
    BY <1>11, <1>16
  <2>2. Cardinality(Low \cap High) = 0
    BY <2>1, FS_EmptySet
  <2> QED
    BY <1>1, <1>5, <1>7, <1>9, <1>14, <2>2
<1> QED
  BY <1>15, <1>16

\* The side that has fewer has at most half, and the difference seen is what is over.
LEMMA TheFewer ==
    ASSUME NEW a \in Nat, NEW b \in Nat
    PROVE  /\ Min({a, b}) \in Nat /\ 2 * Min({a, b}) <= a + b
           /\ b - a = (a + b) - 2 * Min({a, b}) \/ b - a = 2 * Min({a, b}) - (a + b)
<1>1. Min({a, b}) \in {a, b} /\ \A n \in {a, b} : Min({a, b}) <= n
  BY SmallestOf
<1> QED
  BY <1>1

\* The ways to swap of which PIsOfSwaps speaks.
AsLarge == {swapped \in SUBSET shared :
               Difference(swapped) * Difference(swapped) >= Difference({}) * Difference({})}

\* Whether a way is one of them depends on how many discordant items B gains.
LEMMA AsLargeByGain ==
    ASSUME ItemsTyped, NEW swapped \in SUBSET shared
    PROVE  swapped \in AsLarge
               <=> Gained(swapped) \in BothTails(OnlyA \cup OnlyB, Min({only_a, only_b}))
<1> DEFINE D == OnlyA \cup OnlyB
           G == Gained(swapped)
<1>1. PICK a \in Nat, b \in Nat : a = only_a /\ b = only_b
  BY Discordant
<1>2. IsFiniteSet(D) /\ Cardinality(D) = a + b
  BY <1>1, Discordant
<1>3. G \in SUBSET D
  BY DEF Gained
<1> HIDE DEF D
<1>4. PICK t \in 0..a + b : t = Cardinality(G)
  BY <1>2, <1>3, FS_Subset, FS_CardinalityType
<1>5. Cardinality(D \ G) = (a + b) - t
  <2>1. D \cap G = G
    BY <1>3
  <2>2. Cardinality(D \ G) = Cardinality(D) - Cardinality(D \cap G)
    BY <1>2, FS_Difference
  <2> QED
    BY <1>2, <1>4, <2>1, <2>2
<1>6. Difference(swapped) = 2 * t - (a + b)
  <2>1. Difference(swapped) = t - ((a + b) - t)
    BY <1>4, <1>5, DifferenceCounts DEF D
  <2> QED
    BY <2>1
<1>7. Difference({}) = b - a
  <2>1. Gained({}) = OnlyB /\ (OnlyA \cup OnlyB) \ OnlyB = OnlyA
    BY SharedTyped DEF Gained
  <2> QED
    BY <1>1, <2>1, DifferenceCounts, SharedTyped
<1>8. PICK k \in Nat : k = Min({a, b})
  BY TheFewer
<1>9. 2 * k <= a + b /\ (b - a = (a + b) - 2 * k \/ b - a = 2 * k - (a + b))
  BY <1>8, TheFewer
<1>10. (2 * t - (a + b)) * (2 * t - (a + b)) >= (b - a) * (b - a)
           <=> t <= k \/ t >= (a + b) - k
  <2>1. a + b \in Nat /\ b - a \in Int
    OBVIOUS
  <2> QED
    BY <1>9, <2>1, AsLargeInNumbers
<1>11. swapped \in AsLarge <=> (2 * t - (a + b)) * (2 * t - (a + b)) >= (b - a) * (b - a)
  BY <1>6, <1>7 DEF AsLarge
<1>12. G \in BothTails(D, k) <=> t <= k \/ t >= (a + b) - k
  BY <1>2, <1>3, <1>4 DEF BothTails
<1> HIDE DEF G
<1> QED
  BY <1>1, <1>8, <1>10, <1>11, <1>12 DEF D, G

\* A way to swap is a choice of the discordant items that B gains and, freely, of the
\* ties that change sides.
LEMMA AsLargeCounted ==
    ASSUME ItemsTyped
    PROVE  LET D == OnlyA \cup OnlyB IN
           Cardinality(AsLarge) = Cardinality(BothTails(D, Min({only_a, only_b})))
                                      * 2^(Cardinality(shared) - Cardinality(D))
<1> DEFINE D   == OnlyA \cup OnlyB
           C   == shared \ D
           Big == BothTails(D, Min({only_a, only_b}))
           Swap(G, ties) == (OnlyB \ G) \cup (OnlyA \cap G) \cup ties
           f   == [p \in Big \X SUBSET C |-> Swap(p[1], p[2])]
<1>1. D \in SUBSET shared /\ IsFiniteSet(shared) /\ OnlyA \cap OnlyB = {}
  BY SharedTyped
<1>2. Big \in SUBSET SUBSET D /\ IsFiniteSet(D) /\ IsFiniteSet(SUBSET D)
  BY <1>1, FS_Subset, FS_SUBSET DEF BothTails
<1>3. ASSUME NEW G \in SUBSET D, NEW ties \in SUBSET C
      PROVE  /\ Swap(G, ties) \in SUBSET shared
             /\ Gained(Swap(G, ties)) = G /\ Swap(G, ties) \cap C = ties
  BY <1>1 DEF Gained
<1>4. ASSUME NEW swapped \in SUBSET shared
      PROVE  Swap(Gained(swapped), swapped \cap C) = swapped
  BY <1>1 DEF Gained
<1>5. f \in Bijection(Big \X SUBSET C, AsLarge)
  <2>1. ASSUME NEW G \in Big, NEW ties \in SUBSET C PROVE Swap(G, ties) \in AsLarge
    <3>1. G \in SUBSET D
      BY <1>2
    <3>2. Swap(G, ties) \in SUBSET shared /\ Gained(Swap(G, ties)) = G
      BY <1>3, <3>1
    <3> HIDE DEF Swap
    <3> QED
      BY <3>2, AsLargeByGain
  <2>2. f \in [Big \X SUBSET C -> AsLarge]
    <3> HIDE DEF Swap, Big, C
    <3> QED
      BY <2>1
  <2>3. ASSUME NEW p \in Big \X SUBSET C, NEW q \in Big \X SUBSET C, f[p] = f[q]
        PROVE  p = q
    <3>1. p[1] \in SUBSET D /\ q[1] \in SUBSET D /\ p[2] \in SUBSET C /\ q[2] \in SUBSET C
      BY <1>2
    <3>2. Swap(p[1], p[2]) = Swap(q[1], q[2])
      BY <2>3
    <3> HIDE DEF Swap, Big, C
    <3>3. p[1] = Gained(Swap(p[1], p[2])) /\ p[2] = Swap(p[1], p[2]) \cap C
      BY <1>3, <3>1
    <3>4. q[1] = Gained(Swap(q[1], q[2])) /\ q[2] = Swap(q[1], q[2]) \cap C
      BY <1>3, <3>1
    <3>5. p[1] = q[1] /\ p[2] = q[2]
      BY <3>2, <3>3, <3>4, Zenon
    <3> QED
      BY <3>5
  <2>4. ASSUME NEW swapped \in AsLarge
        PROVE  \E p \in Big \X SUBSET C : f[p] = swapped
    <3>1. swapped \in SUBSET shared
      BY DEF AsLarge
    <3>2. Gained(swapped) \in Big
      BY <3>1, AsLargeByGain
    <3>3. <<Gained(swapped), swapped \cap C>> \in Big \X SUBSET C
      BY <3>2
    <3> HIDE DEF Swap, Big, C
    <3>4. f[<<Gained(swapped), swapped \cap C>>] = swapped
      BY <1>4, <3>1, <3>3
    <3> QED
      BY <3>3, <3>4
  <2> HIDE DEF f, Big, C
  <2> QED
    BY <2>2, <2>3, <2>4 DEF Bijection, Injection, Surjection, IsInjective
<1>6. IsFiniteSet(Big) /\ IsFiniteSet(C)
  <2> HIDE DEF Big
  <2> QED
    BY <1>1, <1>2, FS_Subset, FS_Difference
<1>7. Cardinality(C) = Cardinality(shared) - Cardinality(D)
  <2>1. shared \cap D = D
    BY <1>1
  <2> QED
    BY <1>1, <2>1, FS_Difference
<1> HIDE DEF f, Big, C
<1>8. IsFiniteSet(SUBSET C) /\ Cardinality(SUBSET C) = 2^Cardinality(C)
  BY <1>6, PowersOfTwo
<1>9. /\ IsFiniteSet(Big \X SUBSET C)
      /\ Cardinality(Big \X SUBSET C) = Cardinality(Big) * Cardinality(SUBSET C)
  BY <1>6, <1>8, FS_Product
<1>10. Cardinality(AsLarge) = Cardinality(Big \X SUBSET C)
  BY <1>5, <1>9, FS_Bijection DEF ExistsBijection
<1> QED
  BY <1>7, <1>8, <1>9, <1>10 DEF Big

\* bench/compare.py, mcnemar_exact: the p that is printed, cut off at 1 where the tails
\* meet, is the chance of a difference as large as the one seen if which run gave
\* which answer were a coin flip, for any two runs of any number of items, with any
\* ties and none, one or many discordant pairs.
THEOREM PIsOfSwapsHolds == PairedSpec => []PIsOfSwaps
<1>1. PairedInit => ItemsTyped
  BY EmptySeq DEF PairedInit, ItemsTyped
<1>2. ItemsTyped /\ [PairedNext]_items => ItemsTyped'
  <2> SUFFICES ASSUME ItemsTyped, [PairedNext]_items PROVE ItemsTyped'
    OBVIOUS
  <2>1. CASE PairedNext
    <3>1. PICK a \in Says, b \in Says, same \in BOOLEAN : Answer(a, b, same)
      BY <2>1 DEF PairedNext
    <3>2. [a |-> a, b |-> b, same |-> same] \in [a : Says, b : Says, same : BOOLEAN]
      OBVIOUS
    <3> QED
      BY <3>1, <3>2, AppendProperties DEF Answer, ItemsTyped
  <2>2. CASE UNCHANGED items
    BY <2>2 DEF ItemsTyped
  <2> QED
    BY <2>1, <2>2
<1>3. ItemsTyped => PIsOfSwaps
  <2> SUFFICES ASSUME ItemsTyped
               PROVE  mcnemar_exact(only_a, only_b)
                          * 2^(Cardinality(shared) - only_a - only_b) = Cardinality(AsLarge)
    BY DEF PIsOfSwaps, AsLarge
  <2> DEFINE D == OnlyA \cup OnlyB
             k == Min({only_a, only_b})
  <2>1. PICK a \in Nat, b \in Nat : a = only_a /\ b = only_b
    BY Discordant
  <2>2. IsFiniteSet(D) /\ Cardinality(D) = a + b
    BY <2>1, Discordant
  <2>3. k \in Nat /\ 2 * k <= a + b
    BY <2>1, TheFewer
  <2> HIDE DEF D
  <2>4. mcnemar_exact(a, b) = Cardinality(BothTails(D, k))
    <3> HIDE DEF k
    <3>1. Cardinality(BothTails(D, k))
              = IF 2 * tail(a + b, k) < 2^(a + b) THEN 2 * tail(a + b, k) ELSE 2^(a + b)
      BY <2>2, <2>3, BothTailsCounted
    <3> QED
      BY <2>1, <3>1 DEF mcnemar_exact, k
  <2>5. Cardinality(AsLarge)
            = Cardinality(BothTails(D, k)) * 2^(Cardinality(shared) - Cardinality(D))
    BY AsLargeCounted DEF D
  <2>6. Cardinality(shared) - a - b = Cardinality(shared) - Cardinality(D)
    <3>1. Cardinality(shared) \in Nat
      BY SharedTyped, FS_CardinalityType
    <3> QED
      BY <2>2, <3>1
  <2> QED
    BY <2>1, <2>4, <2>5, <2>6
<1> QED
  BY <1>1, <1>2, <1>3, PTL DEF PairedSpec

=============================================================================
