------------------------- MODULE TrainingJobProofs -------------------------
(***************************************************************************)
(* What a training run trains on, what it costs the lab and what it leaves *)
(* behind, for any number of runs into one adapter directory, each of      *)
(* which may die at any step; and the age of what the exporter beside it   *)
(* lets a scrape read, for every interval and timeout.                     *)
(***************************************************************************)
EXTENDS TrainingJob, TLAPS, WellFoundedInduction, SequenceTheorems

-----------------------------------------------------------------------------
(* The exporter.  The payload grows older while the thread sleeps and while *)
(* it hangs, and no poll that ends leaves it as it is: AgeIsOfThread counts *)
(* the age along the thread's way, which OkIsRecent alone does not tell.    *)

ThreadTypes ==
    /\ age \in Nat /\ spent \in Nat
    /\ poll \in {"sample", "hung", "sleep"}

AgeIsOfThread ==
    /\ poll = "sleep"  => spent <= Interval /\ age <= spent
    /\ poll = "sample" => age <= Interval
    /\ poll = "hung"   => spent <= Timeout /\ age <= Interval + spent

ThreadInv == ThreadTypes /\ AgeIsOfThread

LEMMA InitThreadInv == ExporterInit => ThreadInv
  BY ExporterAssumption
     DEF ExporterInit, ThreadInv, ThreadTypes, AgeIsOfThread, ExporterAssumption

LEMMA StepThreadInv == ThreadInv /\ [ExporterNext]_<<smi, exporter>> => ThreadInv'
<1>. SUFFICES ASSUME ThreadInv, [ExporterNext]_<<smi, exporter>> PROVE ThreadInv'
  OBVIOUS
<1>. USE ExporterAssumption DEF ThreadInv, ThreadTypes, AgeIsOfThread, ExporterAssumption
<1>1. CASE PollOk \/ PollFails
  <2>1. Polled
    BY <1>1, Zenon DEF PollOk, PollFails
  <2>. QED
    BY <2>1 DEF Polled
<1>2. CASE Hangs
  BY <1>2 DEF Hangs
<1>3. CASE Wakes
  BY <1>3 DEF Wakes
<1>4. CASE Tick
  <2>1. spent' = spent + 1 /\ age' \in {age, age + 1} /\ poll' = poll
    BY <1>4 DEF Tick
  <2>2. CASE poll = "sleep"
    <3>1. spent < Interval
      BY <1>4, <2>2 DEF Tick
    <3>. QED
      BY <2>1, <2>2, <3>1
  <2>3. CASE poll = "hung"
    <3>1. spent < Timeout
      BY <1>4, <2>3 DEF Tick
    <3>. QED
      BY <2>1, <2>3, <3>1
  <2>4. CASE poll = "sample"
    BY <1>4, <2>4 DEF Tick
  <2>. QED
    BY <2>2, <2>3, <2>4
<1>5. CASE SmiChanges \/ UNCHANGED <<smi, exporter>>
  BY <1>5 DEF SmiChanges, exporter
<1>. QED
  BY <1>1, <1>2, <1>3, <1>4, <1>5 DEF ExporterNext, Poll

LEMMA ThreadInvIsRecent == ThreadInv => OkIsRecent
  BY ExporterAssumption
     DEF ThreadInv, ThreadTypes, AgeIsOfThread, OkIsRecent, ExporterAssumption

\* However often nvidia-smi hangs, fails or comes back, a payload that says
\* scrape_ok is no older than one sleep and one poll cut off at its timeout.
THEOREM OkIsRecentHolds == ExporterSpec => []OkIsRecent
BY ThreadInvIsRecent, InitThreadInv, StepThreadInv, PTL DEF ExporterSpec

\* The same beside training runs, which neither stop nor disturb the thread.
THEOREM OkIsRecentBesideRuns == Spec => []OkIsRecent
<1>1. Init => ThreadInv
  BY InitThreadInv DEF Init
<1>2. ThreadInv /\ [Next]_vars => ThreadInv'
  <2>1. [Next]_vars => [ExporterNext]_<<smi, exporter>>
    BY DEF Next, vars
  <2>. QED
    BY <2>1, StepThreadInv
<1>. QED
  BY <1>1, <1>2, ThreadInvIsRecent, PTL DEF Spec

-----------------------------------------------------------------------------
(* The runs.                                                                *)

Busy == {"encode", "load", "train", "save", "chmod", "report", "verify"}

RunTypes ==
    /\ runs \in Nat /\ report.run \in Nat
    /\ adapter \in [run : Nat, readable : BOOLEAN]
    /\ phase \in {"idle", "preflight", "free"} \cup Busy

\* Whose weights and whose report are in the directory, by where the run is.
\* Only one that came as far as its report has one of its own, and its weights
\* were made readable before.
DirectoryOfPhase ==
    /\ adapter.run <= runs /\ report.run <= runs
    /\ phase \in {"preflight", "free", "encode", "load", "train", "save"} =>
           adapter.run < runs /\ report.run < runs
    /\ phase = "chmod" => adapter.run = runs /\ report.run < runs
    /\ phase \in {"report", "verify"} => adapter.run = runs /\ adapter.readable

JInv == RunTypes /\ DirectoryOfPhase /\ ServableWhenReported

LEMMA InitJInv == Init => JInv
BY DEF Init, JInv, RunTypes, DirectoryOfPhase, ServableWhenReported, Busy

LEMMA BusyIsDomain == DOMAIN Bites = Busy
BY DEF Bites, Busy

\* A run that ends leaves directory and machine as they are.
LEMMA EndsKeepsJInv ==
  ASSUME JInv, phase \in Busy, NEW reason, Ends(reason),
         UNCHANGED <<wrong, changed, runs, adapter, report>>
  PROVE  JInv'
<1>. USE DEF JInv, RunTypes, DirectoryOfPhase, ServableWhenReported
<1>. QED
  BY DEF Ends, Busy

LEMMA StepsKeepsJInv == JInv /\ Steps => JInv'
<1>. SUFFICES ASSUME JInv, Steps PROVE JInv'
  OBVIOUS
<1>. USE DEF JInv, RunTypes, DirectoryOfPhase, ServableWhenReported
<1>1. CASE Preflight
  BY <1>1 DEF Preflight, job, Busy
<1>2. CASE Load \/ Monitor \/ Train
  BY <1>2 DEF Load, Monitor, Train, At, Busy
<1>3. CASE Save
  BY <1>3 DEF Save, At, Busy
<1>4. CASE Chmod
  <2>1. adapter'.run = adapter.run /\ adapter'.readable = TRUE
    BY <1>4 DEF Chmod
  <2>. QED
    BY <1>4, <2>1 DEF Chmod, At, Busy
<1>5. CASE SkipVerify
  BY <1>5, EndsKeepsJInv DEF SkipVerify, At, Busy
<1>6. CASE Dies
  <2>1. PICK reason \in (wrong \cap Bites[phase]) \cup {"killed"} : Ends(reason)
    BY <1>6 DEF Dies
  <2>. QED
    BY <1>6, <2>1, EndsKeepsJInv, BusyIsDomain DEF Dies
<1>7. ASSUME NEW down \in BOOLEAN, Free(down) PROVE JInv'
  BY <1>7 DEF Free, Busy
<1>8. ASSUME NEW messages \in Records, NEW off \in BOOLEAN, NEW max_len \in MaxLens,
             Encode(messages, off, max_len)
      PROVE  JInv'
  BY <1>8 DEF Encode, At, Busy
<1>9. ASSUME NEW hot \in BOOLEAN, Report(hot) PROVE JInv'
  BY <1>9 DEF Report, At, Busy
<1>10. ASSUME NEW called \in 0..Technical, NEW degenerate \in 0..1, Verify(called, degenerate)
       PROVE  JInv'
  BY <1>10, EndsKeepsJInv DEF Verify, At, Busy
<1>. QED
  BY <1>1, <1>2, <1>3, <1>4, <1>5, <1>6, <1>7, <1>8, <1>9, <1>10 DEF Steps

LEMMA StartRunKeepsJInv == ASSUME JInv, NEW reasons, StartRun(reasons) PROVE JInv'
BY DEF JInv, RunTypes, DirectoryOfPhase, ServableWhenReported, StartRun, Busy

LEMMA ChangesKeepsJInv == ASSUME JInv, NEW reason, Changes(reason) PROVE JInv'
BY DEF JInv, RunTypes, DirectoryOfPhase, ServableWhenReported, Changes, job

LEMMA StepJInv == JInv /\ [Next]_vars => JInv'
<1>. SUFFICES ASSUME JInv, [Next]_vars PROVE JInv'
  OBVIOUS
<1>1. CASE Steps
  BY <1>1, StepsKeepsJInv
<1>2. CASE (\E reason \in Reasons : StartRun({reason})) \/ StartRun({})
  BY <1>2, StartRunKeepsJInv
<1>3. CASE \E reason \in {"args", "dataset", "weights"} : Changes(reason)
  BY <1>3, ChangesKeepsJInv
<1>4. CASE \E called \in 0..Technical, degenerate \in 0..1 : VerifyOnly(called, degenerate)
  BY <1>4 DEF VerifyOnly, JInv, RunTypes, DirectoryOfPhase, ServableWhenReported
<1>5. CASE UNCHANGED <<wrong, changed, phase, job>>
  BY <1>5 DEF job, JInv, RunTypes, DirectoryOfPhase, ServableWhenReported
<1>. QED
  BY <1>1, <1>2, <1>3, <1>4, <1>5 DEF Next, Job, vars

\* Through any number of runs that overwrite each other's weights and die
\* between save, chmod and report: a report that is of the weights beside it
\* means that the serving node can read them.
THEOREM ServableWhenReportedHolds == Spec => []ServableWhenReported
<1>1. JInv => ServableWhenReported
  BY DEF JInv
<1>. QED
  BY <1>1, InitJInv, StepJInv, PTL DEF Spec

-----------------------------------------------------------------------------
(* encode.  Where every turn of a rendered record lies, and what the scan   *)
(* for headers makes of it when it starts from one.                         *)

\* A set of naturals that has an element has a smallest one.
LEMMA SmallestOf ==
    ASSUME NEW T \in SUBSET Nat, T # {}
    PROVE  \E m \in T : \A k \in T : m <= k
<1>. DEFINE R == OpToRel(<, Nat)
<1>1. IsWellFoundedOn(R, Nat)
  BY NatLessThanWellFounded
<1>2. R = {ss \in Nat \X Nat : ss[1] < ss[2]}
  BY DEF OpToRel
<1>. HIDE DEF R
<1>3. PICK m \in T : \A k \in T : ~(<<k, m>> \in R)
  BY <1>1, WFMin
<1>4. \A k \in T : m <= k
  <2>. SUFFICES ASSUME NEW k \in T, k < m PROVE FALSE
    OBVIOUS
  <2>1. <<k, m>> \in R
    BY <1>2
  <2>. QED
    BY <1>3, <2>1
<1>. QED
  BY <1>4

\* What holds of 1, and of i + 1 when it does of i, holds of 1..n.
LEMMA UpTo ==
    ASSUME NEW n \in Nat, NEW Good \in SUBSET Nat,
           1 \in Good, \A i \in 1..n - 1 : i \in Good => i + 1 \in Good
    PROVE  1..n \subseteq Good
<1>. DEFINE bad == (1..n) \ Good
<1>. SUFFICES ASSUME bad # {} PROVE FALSE
  OBVIOUS
<1>0. bad \in SUBSET Nat
  OBVIOUS
<1>1. PICK m \in bad : \A k \in bad : m <= k
  BY <1>0, SmallestOf
<1>2. m # 1 /\ m - 1 \in 1..n - 1 /\ m - 1 \in 1..n
  BY <1>1
<1>3. m - 1 \in Good
  BY <1>1, <1>2
<1>4. (m - 1) + 1 \in Good
  BY <1>2, <1>3
<1>. QED
  BY <1>1, <1>4

-----------------------------------------------------------------------------
(* FlattenSeq is a recursive function: it is defined, and what it returns.  *)

Flat(seqs, flat) ==
    \A i \in DOMAIN seqs : flat[i] = IF i = 1 THEN seqs[i] ELSE flat[i - 1] \o seqs[i]

\* The sequences of seqs one after the other exist, element by element.
LEMMA FlatExists ==
    ASSUME NEW S, NEW seqs \in Seq(Seq(S)), seqs # <<>>
    PROVE  \E flat \in [DOMAIN seqs -> Seq(S)] : Flat(seqs, flat)
<1>. DEFINE n == Len(seqs)
            Works(f, m) == \A i \in 1..m : f[i] = IF i = 1 THEN seqs[i] ELSE f[i - 1] \o seqs[i]
            Good == {m \in Nat : \E f \in [1..m -> Seq(S)] : Works(f, m)}
<1>1. n \in Nat \ {0} /\ DOMAIN seqs = 1..n
  BY EmptySeq, LenProperties
<1>2. 1 \in Good
  <2>. DEFINE f == [i \in 1..1 |-> seqs[1]]
  <2>1. f \in [1..1 -> Seq(S)] /\ Works(f, 1)
    BY <1>1
  <2>. QED
    BY <2>1
<1>3. ASSUME NEW m \in 1..n - 1, m \in Good
      PROVE  m + 1 \in Good
  <2>1. PICK f \in [1..m -> Seq(S)] : Works(f, m)
    BY <1>3
  <2>. DEFINE g == [i \in 1..m + 1 |-> IF i <= m THEN f[i] ELSE f[m] \o seqs[m + 1]]
  <2>2. seqs[m + 1] \in Seq(S) /\ f[m] \in Seq(S) /\ m \in Nat \ {0}
    BY <1>1
  <2>3. f[m] \o seqs[m + 1] \in Seq(S)
    BY <2>2, ConcatProperties
  <2>4. g \in [1..m + 1 -> Seq(S)]
    BY <2>2, <2>3
  <2>5. ASSUME NEW i \in 1..m + 1
        PROVE  g[i] = IF i = 1 THEN seqs[i] ELSE g[i - 1] \o seqs[i]
    <3>1. CASE i <= m
      <4>1. g[i] = f[i] /\ (i # 1 => g[i - 1] = f[i - 1])
        BY <2>2, <3>1
      <4>2. i \in 1..m
        BY <2>2, <3>1
      <4>. QED
        BY <2>1, <4>1, <4>2
    <3>2. CASE i = m + 1
      BY <2>2, <3>2
    <3>. QED
      BY <2>2, <3>1, <3>2
  <2>6. g \in [1..m + 1 -> Seq(S)] /\ Works(g, m + 1)
    BY <2>4, <2>5
  <2>. HIDE DEF g
  <2>. QED
    BY <2>2, <2>6, m + 1 \in Nat
<1>. HIDE DEF Good
<1>4. 1..n \subseteq Good
  <2>1. Good \in SUBSET Nat
    BY DEF Good
  <2>2. \A m \in 1..n - 1 : m \in Good => m + 1 \in Good
    BY <1>3
  <2>. QED
    BY <1>1, <1>2, <2>1, <2>2, UpTo
<1>5. n \in Good
  BY <1>1, <1>4
<1>6. PICK f \in [1..n -> Seq(S)] : Works(f, n)
  BY <1>5 DEF Good
<1>. QED
  BY <1>1, <1>6 DEF Flat

\* What is true of the first sequence, and stays so when the next is added, is
\* true of all of them.
LEMMA FlattenIsFlat ==
    ASSUME NEW S, NEW seqs \in Seq(Seq(S)), seqs # <<>>
    PROVE  \E flat \in [DOMAIN seqs -> Seq(S)] :
               Flat(seqs, flat) /\ FlattenSeq(seqs) = flat[Len(seqs)]
<1>. DEFINE n == Len(seqs)
            Step(f) == [i \in 1..n |-> IF i = 1 THEN seqs[i] ELSE f[i - 1] \o seqs[i]]
            flatten == CHOOSE f : f = Step(f)
<1>1. n \in Nat \ {0} /\ DOMAIN seqs = 1..n
  BY EmptySeq, LenProperties
<1>2. FlattenSeq(seqs) = flatten[n]
  BY <1>1 DEF FlattenSeq
<1>3. PICK g \in [1..n -> Seq(S)] : Flat(seqs, g)
  BY <1>1, FlatExists
<1>4. g = Step(g)
  BY <1>1, <1>3 DEF Flat
<1>5. flatten = Step(flatten)
  BY <1>4
<1>. HIDE DEF flatten
<1>6. \A i \in 1..n : flatten[i] = IF i = 1 THEN seqs[i] ELSE flatten[i - 1] \o seqs[i]
  BY <1>5
<1>7. DOMAIN flatten = 1..n /\ flatten = [i \in 1..n |-> flatten[i]]
  BY <1>5
<1>. DEFINE Good == {i \in Nat : flatten[i] \in Seq(S)}
<1>8. 1 \in Good
  BY <1>1, <1>6
<1>9. ASSUME NEW i \in 1..n - 1, i \in Good PROVE i + 1 \in Good
  <2>1. i + 1 \in 1..n /\ i + 1 # 1 /\ (i + 1) - 1 = i /\ seqs[i + 1] \in Seq(S)
    BY <1>1
  <2>2. flatten[i + 1] = flatten[i] \o seqs[i + 1]
    BY <1>6, <2>1
  <2>3. flatten[i] \o seqs[i + 1] \in Seq(S)
    <3>1. flatten[i] \in Seq(S)
      BY <1>9
    <3>. QED
      BY <2>1, <3>1, ConcatProperties
  <2>. QED
    BY <2>2, <2>3, i + 1 \in Nat
<1>10. 1..n \subseteq Good
  <2>. HIDE DEF Good
  <2>1. Good \in SUBSET Nat
    BY DEF Good
  <2>2. \A i \in 1..n - 1 : i \in Good => i + 1 \in Good
    BY <1>9
  <2>. QED
    BY <1>1, <1>8, <2>2, <2>1, UpTo
<1>11. flatten \in [1..n -> Seq(S)]
  BY <1>7, <1>10
<1>. QED
  BY <1>1, <1>2, <1>6, <1>11 DEF Flat


\* flat is the sequences of seqs in a row: the j-th comes after at[j] elements.
Layout(seqs, flat, at) ==
    /\ at[1] = 0 /\ at[Len(seqs) + 1] = Len(flat)
    /\ \A j \in 1..Len(seqs) :
           /\ at[j + 1] = at[j] + Len(seqs[j])
           /\ \A k \in 1..Len(seqs[j]) : flat[at[j] + k] = seqs[j][k]

\* FlattenSeq keeps every element at its place after those before it.
LEMMA FlattenLayout ==
    ASSUME NEW S, NEW seqs \in Seq(Seq(S))
    PROVE  /\ FlattenSeq(seqs) \in Seq(S)
           /\ \E at \in [1..Len(seqs) + 1 -> Nat] : Layout(seqs, FlattenSeq(seqs), at)
<1>1. CASE seqs = <<>>
  <2>1. FlattenSeq(seqs) = <<>> /\ Len(seqs) = 0
    BY <1>1, EmptySeq DEF FlattenSeq
  <2>. DEFINE at == [i \in 1..1 |-> 0]
  <2>2. at \in [1..Len(seqs) + 1 -> Nat] /\ Layout(seqs, FlattenSeq(seqs), at)
    BY <2>1 DEF Layout
  <2>. QED
    BY <2>1, <2>2, EmptySeq
<1>2. CASE seqs # <<>>
  <2>. DEFINE n == Len(seqs)
  <2>1. /\ n \in Nat \ {0} /\ DOMAIN seqs = 1..n
        /\ \A j \in 1..n : seqs[j] \in Seq(S) /\ Len(seqs[j]) \in Nat
    BY <1>2, EmptySeq, LenProperties
  <2>2. PICK flat \in [1..n -> Seq(S)] : Flat(seqs, flat) /\ FlattenSeq(seqs) = flat[n]
    BY <1>2, <2>1, FlattenIsFlat
  <2>. HIDE DEF n
  <2>0. \A j \in 1..n : flat[j] = IF j = 1 THEN seqs[j] ELSE flat[j - 1] \o seqs[j]
    BY <2>1, <2>2 DEF Flat
  <2>. DEFINE at == [j \in 1..n + 1 |-> IF j = 1 THEN 0 ELSE Len(flat[j - 1])]
  <2>3. /\ at \in [1..n + 1 -> Nat] /\ at[1] = 0 /\ at[n + 1] = Len(flat[n])
        /\ \A j \in 1..n : at[j + 1] = Len(flat[j])
    <3>1. \A j \in 1..n : Len(flat[j]) \in Nat
      BY <2>2, LenProperties
    <3>. QED
      BY <2>1, <3>1
  <2>4. \A j \in 1..n : at[j + 1] = at[j] + Len(seqs[j])
    <3>. SUFFICES ASSUME NEW j \in 1..n PROVE at[j + 1] = at[j] + Len(seqs[j])
      OBVIOUS
    <3>1. CASE j = 1
      <4>1. flat[j] = seqs[j]
        BY <2>0, <3>1
      <4>. QED
        BY <2>1, <2>3, <3>1, <4>1
    <3>2. CASE j # 1
      <4>1. flat[j] = flat[j - 1] \o seqs[j] /\ j - 1 \in 1..n
        <5>1. j - 1 \in 1..n
          BY <2>1, <3>2
        <5>. QED
          BY <2>0, <3>2, <5>1
      <4>2. flat[j - 1] \in Seq(S) /\ seqs[j] \in Seq(S)
        BY <2>1, <2>2, <4>1
      <4>3. Len(flat[j]) = Len(flat[j - 1]) + Len(seqs[j])
        BY <4>1, <4>2, ConcatProperties
      <4>. QED
        <5>1. at[j] = Len(flat[j - 1])
          BY <2>1, <3>2
        <5>2. at[j + 1] = Len(flat[j])
          BY <2>3
        <5>. QED
          BY <4>3, <5>1, <5>2
    <3>. QED
      BY <3>1, <3>2
  <2>. HIDE DEF at
  <2>. DEFINE Kept(m) == \A j \in 1..m : \A k \in 1..Len(seqs[j]) :
                            at[j] + k <= at[m + 1] /\ flat[m][at[j] + k] = seqs[j][k]
              Good    == {m \in Nat : Kept(m)}
  <2>5. 1 \in Good
    <3>1. flat[1] = seqs[1] /\ 1 \in 1..n
      BY <2>0, <2>1
    <3>2. at[1] = 0 /\ at[1 + 1] = at[1] + Len(seqs[1]) /\ Len(seqs[1]) \in Nat
      BY <2>1, <2>3, <2>4, <3>1
    <3>3. ASSUME NEW j \in 1..1, NEW k \in 1..Len(seqs[j])
          PROVE  at[j] + k <= at[1 + 1] /\ flat[1][at[j] + k] = seqs[j][k]
      <4>1. j = 1 /\ 0 + k = k
        BY <3>2
      <4>. QED
        BY <3>1, <3>2, <4>1
    <3>. QED
      BY <3>3
  <2>6. ASSUME NEW m \in 1..n - 1, m \in Good PROVE m + 1 \in Good
    <3>1. m \in 1..n /\ m + 1 \in 1..n /\ m + 1 # 1 /\ (m + 1) - 1 = m /\ m + 1 \in Nat
      BY <2>1
    <3>2. flat[m + 1] = flat[m] \o seqs[m + 1]
      BY <2>0, <3>1
    <3>3. flat[m] \in Seq(S) /\ seqs[m + 1] \in Seq(S)
      BY <2>1, <2>2, <3>1
    <3>4. \A p \in 1..Len(flat[m]) + Len(seqs[m + 1]) :
              flat[m + 1][p] = IF p <= Len(flat[m]) THEN flat[m][p]
                               ELSE seqs[m + 1][p - Len(flat[m])]
      BY <3>2, <3>3, ConcatProperties
    <3>5. /\ Len(flat[m]) = at[m + 1] /\ at[(m + 1) + 1] = at[m + 1] + Len(seqs[m + 1])
          /\ at[m + 1] \in Nat /\ Len(seqs[m + 1]) \in Nat
      <4>1. m + 1 \in 1..n + 1
        BY <2>1, <3>1
      <4>. QED
        BY <2>1, <2>3, <2>4, <3>1, <4>1
    <3>6. ASSUME NEW j \in 1..m + 1, NEW k \in 1..Len(seqs[j])
          PROVE  at[j] + k <= at[(m + 1) + 1] /\ flat[m + 1][at[j] + k] = seqs[j][k]
      <4>0. at[j] \in Nat /\ Len(seqs[j]) \in Nat /\ k \in Nat
        <5>1. j \in 1..n /\ j \in 1..n + 1
          BY <2>1, <3>1
        <5>. QED
          BY <2>1, <2>3, <5>1
      <4>1. CASE j = m + 1
        <5>0. at[j] = Len(flat[m]) /\ Len(seqs[j]) = Len(seqs[m + 1]) /\ seqs[j] = seqs[m + 1]
          BY <3>5, <4>1
        <5>1. at[j] + k \in 1..Len(flat[m]) + Len(seqs[m + 1]) /\ ~(at[j] + k <= Len(flat[m]))
              /\ (at[j] + k) - Len(flat[m]) = k
          <6>1. PICK a, l : a = at[j] /\ l = Len(seqs[j])
            OBVIOUS
          <6>2. a = Len(flat[m]) /\ l = Len(seqs[m + 1])
            BY <5>0, <6>1
          <6>3. a \in Nat /\ l \in Nat /\ k \in 1..l
            BY <4>0, <6>1
          <6>4. a + k \in 1..a + l
            BY <6>3
          <6>5. ~(a + k <= a) /\ (a + k) - a = k
            BY <6>3
          <6>. QED
            BY <6>1, <6>2, <6>4, <6>5
        <5>2. flat[m + 1][at[j] + k] = seqs[m + 1][(at[j] + k) - Len(flat[m])]
          BY <3>4, <5>1
        <5>3. at[j] + k <= at[(m + 1) + 1]
          BY <3>5, <4>0, <5>0
        <5>. QED
          BY <5>0, <5>1, <5>2, <5>3
      <4>2. CASE j # m + 1
        <5>1. j \in 1..m
          BY <3>1, <4>2
        <5>2. at[j] + k <= at[m + 1] /\ flat[m][at[j] + k] = seqs[j][k]
          BY <2>6, <5>1
        <5>3. /\ at[j] + k \in 1..Len(flat[m]) + Len(seqs[m + 1]) /\ at[j] + k <= Len(flat[m])
              /\ at[j] + k <= at[(m + 1) + 1]
          <6>1. at[j] + k \in Nat \ {0}
            BY <4>0
          <6>. QED
            BY <3>5, <5>2, <6>1
        <5>4. flat[m + 1][at[j] + k] = flat[m][at[j] + k]
          BY <3>4, <5>3
        <5>. QED
          BY <5>2, <5>3, <5>4
      <4>. QED
        BY <4>1, <4>2
    <3>7. Kept(m + 1)
      BY <3>6
    <3>. QED
      BY <3>1, <3>7
  <2>7. n \in Good
    <3>1. Good \in SUBSET Nat /\ \A m \in 1..n - 1 : m \in Good => m + 1 \in Good
      BY <2>6
    <3>. HIDE DEF Good
    <3>2. 1..n \subseteq Good
      BY <2>1, <2>5, <3>1, UpTo
    <3>3. n \in 1..n
      BY <2>1
    <3>. QED
      BY <3>2, <3>3
  <2>8. FlattenSeq(seqs) \in Seq(S)
    BY <2>1, <2>2
  <2>9. Layout(seqs, FlattenSeq(seqs), at)
    BY <2>1, <2>2, <2>3, <2>4, <2>7 DEF Layout, n
  <2>. QED
    BY <2>3, <2>8, <2>9 DEF n
<1>. QED
  BY <1>1, <1>2

\* Sequences of the same lengths lie at the same places.
LEMMA LayoutsAgree ==
    ASSUME NEW s, NEW f, NEW t, NEW g, NEW n \in Nat, Len(s) = n, Len(t) = n,
           \A j \in 1..n : Len(s[j]) = Len(t[j]),
           NEW a \in [1..n + 1 -> Nat], Layout(s, f, a),
           NEW b \in [1..n + 1 -> Nat], Layout(t, g, b)
    PROVE  a = b
<1>. DEFINE Good == {j \in Nat : a[j] = b[j]}
<1>1. 1 \in Good
  BY DEF Layout
<1>2. ASSUME NEW j \in 1..n, j \in Good PROVE j + 1 \in Good
  BY <1>2 DEF Layout
<1>3. Good \in SUBSET Nat /\ \A j \in 1..(n + 1) - 1 : j \in Good => j + 1 \in Good
  BY <1>2
<1>4. n + 1 \in Nat
  OBVIOUS
<1>. HIDE DEF Good
<1>5. 1..n + 1 \subseteq Good
  BY <1>1, <1>3, <1>4, UpTo
<1>. QED
  BY <1>5 DEF Good

\* Min of a set of naturals is its smallest element.
LEMMA SmallestElement ==
    ASSUME NEW T \in SUBSET Nat, T # {}
    PROVE  Min(T) \in T /\ \A k \in T : Min(T) <= k
<1>1. PICK m \in T : \A k \in T : m <= k
  BY SmallestOf
<1>. QED
  BY <1>1 DEF Min

\* One step of the scan, from position i.
Scan(g, ids, off, i) ==
    IF i > Len(ids) THEN {}
    ELSE IF ids[i] # Header THEN g[i + 1]
    ELSE (Start(ids, i, off)..End(ids, Start(ids, i, off)))
         \cup g[End(ids, Start(ids, i, off)) + 1]

Scans(g, ids, off) == g = [i \in 1..Len(ids) + 1 |-> Scan(g, ids, off, i)]

\* The scan goes on after the header it found, and inside the record.
LEMMA EndIsLater ==
    ASSUME NEW S, NEW ids \in Seq(S), NEW off \in BOOLEAN, NEW i \in 1..Len(ids)
    PROVE  /\ Start(ids, i, off) \in Nat /\ i < Start(ids, i, off)
           /\ End(ids, Start(ids, i, off)) + 1 \in i + 1..Len(ids) + 1
<1>1. Len(ids) \in Nat
  BY LenProperties
<1>. DEFINE s == Start(ids, i, off)
            ends == {j \in s..Len(ids) : ids[j] = im_end}
<1>2. s \in {i + 1, i + 3}
  BY DEF Start
<1>3. s \in Nat /\ i < s
  BY <1>1, <1>2
<1>. HIDE DEF s
<1>4. CASE ends = {}
  <2>1. End(ids, s) = Len(ids)
    BY <1>4 DEF End
  <2>. QED
    BY <1>1, <1>3, <2>1 DEF s
<1>5. CASE ends # {}
  <2>1. End(ids, s) = Min(ends)
    BY <1>5 DEF End
  <2>2. Min(ends) \in ends
    <3>1. ends \in SUBSET Nat
      BY <1>1, <1>3
    <3>. QED
      BY <1>5, <3>1, SmallestElement
  <2>. QED
    BY <1>1, <1>3, <2>1, <2>2 DEF s
<1>. QED
  BY <1>4, <1>5

\* A step of the scan depends on what follows it alone, so that the recursive
\* function of labels exists.
LEMMA ScanLooksAhead ==
    ASSUME NEW S, NEW ids \in Seq(S), NEW off \in BOOLEAN, NEW i \in 1..Len(ids) + 1,
           NEW f, NEW g,
           \A k \in i + 1..Len(ids) + 1 : f[k] = g[k]
    PROVE  Scan(f, ids, off, i) = Scan(g, ids, off, i)
<1>1. Len(ids) \in Nat
  BY LenProperties
<1>2. CASE i > Len(ids)
  BY <1>2 DEF Scan
<1>3. CASE ~(i > Len(ids))
  <2>1. i \in 1..Len(ids) /\ i + 1 \in i + 1..Len(ids) + 1
    BY <1>1, <1>3
  <2>2. End(ids, Start(ids, i, off)) + 1 \in i + 1..Len(ids) + 1
    BY <2>1, EndIsLater
  <2>3. /\ f[i + 1] = g[i + 1]
        /\ f[End(ids, Start(ids, i, off)) + 1] = g[End(ids, Start(ids, i, off)) + 1]
    BY <2>1, <2>2
  <2>. QED
    BY <2>3 DEF Scan
<1>. QED
  BY <1>2, <1>3

\* Backwards from L + 1: what holds there, and of i where it holds of all after
\* i, holds of 1.
LEMMA DownTo ==
    ASSUME NEW L \in Nat, NEW Good \in SUBSET Nat,
           \A i \in 1..L + 1 : (\A k \in i + 1..L + 1 : k \in Good) => i \in Good
    PROVE  1..L + 1 \subseteq Good
<1>. DEFINE bad == {d \in Nat : \E i \in 1..L + 1 : i \notin Good /\ d = L + 1 - i}
<1>1. bad = {}
  <2>. SUFFICES ASSUME bad # {} PROVE FALSE
    OBVIOUS
  <2>1. bad \in SUBSET Nat
    OBVIOUS
  <2>2. PICK d \in bad : \A e \in bad : d <= e
    BY <2>1, SmallestOf
  <2>3. PICK i \in 1..L + 1 : i \notin Good /\ d = L + 1 - i
    BY <2>2
  <2>4. PICK k \in i + 1..L + 1 : k \notin Good
    BY <2>3
  <2>5. k \in 1..L + 1 /\ L + 1 - k \in Nat /\ L + 1 - k < d
    BY <2>3, <2>4
  <2>6. L + 1 - k \in bad
    BY <2>4, <2>5
  <2>. QED
    BY <2>2, <2>3, <2>5, <2>6
<1>2. ASSUME NEW i \in 1..L + 1, i \notin Good PROVE FALSE
  <2>1. L + 1 - i \in Nat
    OBVIOUS
  <2>. QED
    BY <1>1, <1>2, <2>1
<1>. QED
  BY <1>2

\* The scan is defined on every sequence of tokens.
LEMMA ScanExists ==
    ASSUME NEW S, NEW ids \in Seq(S), NEW off \in BOOLEAN
    PROVE  \E g : Scans(g, ids, off)
<1>. DEFINE L == Len(ids)
            From(g, m) == \A k \in 1..L + 1 : k >= L + 2 - m => g[k] = Scan(g, ids, off, k)
            Good == {m \in Nat : \E g : From(g, m)}
<1>1. L \in Nat
  BY LenProperties
<1>. HIDE DEF L
<1>2. 1 \in Good
  <2>. DEFINE g == [k \in 1..L + 1 |-> {}]
  <2>1. ASSUME NEW k \in 1..L + 1, k >= L + 2 - 1 PROVE g[k] = Scan(g, ids, off, k)
    <3>1. k = L + 1 /\ k > Len(ids)
      BY <1>1, <2>1 DEF L
    <3>. QED
      BY <3>1 DEF Scan
  <2>2. From(g, 1)
    BY <2>1
  <2>. HIDE DEF g, From
  <2>. QED
    BY <2>2
<1>3. ASSUME NEW m \in 1..(L + 1) - 1, m \in Good PROVE m + 1 \in Good
  <2>1. PICK g : From(g, m)
    BY <1>3
  <2>. DEFINE f == [k \in 1..L + 1 |-> Scan(g, ids, off, k)]
  <2>2. ASSUME NEW k \in 1..L + 1, k >= L + 2 - (m + 1) PROVE f[k] = Scan(f, ids, off, k)
    <3>1. \A j \in k + 1..L + 1 : f[j] = g[j]
      <4>. SUFFICES ASSUME NEW j \in k + 1..L + 1 PROVE f[j] = g[j]
        OBVIOUS
      <4>1. j \in 1..L + 1 /\ j >= L + 2 - m
        BY <1>1, <2>2
      <4>. QED
        BY <2>1, <4>1
    <3>. HIDE DEF f
    <3>2. Scan(f, ids, off, k) = Scan(g, ids, off, k)
      BY <3>1, ScanLooksAhead DEF L
    <3>. QED
      BY <3>2 DEF f
  <2>3. From(f, m + 1)
    BY <2>2
  <2>4. m + 1 \in Nat
    OBVIOUS
  <2>. HIDE DEF f, From
  <2>. QED
    BY <2>3, <2>4
<1>4. L + 1 \in Good
  <2>1. Good \in SUBSET Nat /\ \A m \in 1..(L + 1) - 1 : m \in Good => m + 1 \in Good
    BY <1>3
  <2>2. L + 1 \in Nat /\ L + 1 \in 1..L + 1
    BY <1>1
  <2>. HIDE DEF Good
  <2>3. 1..L + 1 \subseteq Good
    BY <1>2, <2>1, <2>2, UpTo
  <2>. QED
    BY <2>2, <2>3
<1>5. PICK g : From(g, L + 1)
  BY <1>4
<1>6. \A k \in 1..L + 1 : g[k] = Scan(g, ids, off, k)
  BY <1>1, <1>5
<1>. DEFINE f == [k \in 1..L + 1 |-> g[k]]
<1>7. ASSUME NEW k \in 1..L + 1 PROVE f[k] = Scan(f, ids, off, k)
  <2>1. \A j \in k + 1..L + 1 : f[j] = g[j]
    BY <1>1
  <2>. HIDE DEF f
  <2>2. Scan(f, ids, off, k) = Scan(g, ids, off, k)
    BY <2>1, ScanLooksAhead DEF L
  <2>3. f[k] = g[k]
    BY DEF f
  <2>. QED
    BY <1>6, <2>2, <2>3
<1>8. f = [k \in 1..L + 1 |-> f[k]]
  OBVIOUS
<1>. HIDE DEF f
<1>9. f = [k \in 1..L + 1 |-> Scan(f, ids, off, k)]
  BY <1>7, <1>8
<1>. QED
  BY <1>9 DEF Scans, L

\* labels is the scan from the first position.
LEMMA LabelsScan ==
    ASSUME NEW S, NEW ids \in Seq(S), NEW off \in BOOLEAN
    PROVE  \E g : Scans(g, ids, off) /\ labels(ids, off) = g[1]
<1>. DEFINE trained == CHOOSE g : g = [i \in 1..Len(ids) + 1 |-> Scan(g, ids, off, i)]
<1>1. Scans(trained, ids, off)
  BY ScanExists DEF Scans
<1>2. labels(ids, off) = trained[1]
  BY DEF labels, Scan
<1>. QED
  BY <1>1, <1>2

\* The elements of a turn with a think block, and of one without.
LEMMA JoinFive ==
    ASSUME NEW S, NEW a \in S, NEW b \in S, NEW c \in S, NEW d \in S, NEW e \in S,
           NEW t, t = <<a>> \o <<b, c>> \o <<d, e>>
    PROVE  /\ t \in Seq(S) /\ Len(t) = 5
           /\ t[1] = a /\ t[2] = b /\ t[3] = c /\ t[4] = d /\ t[5] = e
<1>1. /\ <<a>> \in Seq(S) /\ <<b, c>> \in Seq(S) /\ <<d, e>> \in Seq(S)
      /\ Len(<<a>>) = 1 /\ Len(<<b, c>>) = 2 /\ Len(<<d, e>>) = 2
  OBVIOUS
<1>. DEFINE u == <<a>> \o <<b, c>>
<1>2. u \in Seq(S) /\ Len(u) = 3 /\ u[1] = a /\ u[2] = b /\ u[3] = c
  BY <1>1, ConcatProperties
<1>. HIDE DEF u
<1>3. t = u \o <<d, e>>
  BY DEF u
<1>4. /\ t \in Seq(S) /\ Len(t) = 5
      /\ \A i \in 1..5 : t[i] = IF i <= 3 THEN u[i] ELSE <<d, e>>[i - 3]
  BY <1>1, <1>2, <1>3, ConcatProperties
<1>. QED
  BY <1>2, <1>4

LEMMA JoinThree ==
    ASSUME NEW S, NEW a \in S, NEW d \in S, NEW e \in S,
           NEW t, t = <<a>> \o <<>> \o <<d, e>>
    PROVE  /\ t \in Seq(S) /\ Len(t) = 3
           /\ t[1] = a /\ t[2] = d /\ t[3] = e
<1>1. /\ <<a>> \in Seq(S) /\ <<d, e>> \in Seq(S) /\ Len(<<a>>) = 1 /\ Len(<<d, e>>) = 2
  OBVIOUS
<1>2. <<a>> \o <<>> = <<a>>
  BY <1>1, ConcatEmptySeq
<1>3. /\ t \in Seq(S) /\ Len(t) = 3
      /\ \A i \in 1..3 : t[i] = IF i <= 1 THEN <<a>>[i] ELSE <<d, e>>[i - 1]
  BY <1>1, <1>2, ConcatProperties
<1>. QED
  BY <1>3

\* The messages a record is made of, those that the model speaks, and the tokens.
Roles  == {"user", "call", "tool", "final"}
Speaks == {"call", "final"}
Tokens == {Header, im_end, "think", "/think", "call", "answer", "user", "tool"}

\* The first token of a turn of its own that the model emits.
FirstSaid(off) == IF off THEN 4 ELSE 2

\* A turn of the model's opens with the one header and closes with the one end
\* that it has; another turn has no header.
LEMMA TurnFacts ==
    ASSUME NEW message \in Roles, NEW off \in BOOLEAN, NEW t, t = Turn(message, off)
    PROVE  /\ t \in Seq(Tokens) /\ Len(t) \in {3, 5}
           /\ message \in Speaks =>
                  /\ t[1] = Header /\ t[Len(t)] = im_end
                  /\ \A k \in 2..Len(t) : k # Len(t) => t[k] # im_end
                  /\ off => Len(t) = 5 /\ t[2] = "think" /\ t[3] = "/think"
                            /\ t[4] \notin {"think", "/think"}
                            /\ t[5] \notin {"think", "/think"}
           /\ message \notin Speaks => \A k \in 1..Len(t) : t[k] # Header
<1>1. CASE message = "call" /\ off
  <2>1. t = <<Header>> \o <<"think", "/think">> \o <<"call", im_end>>
    BY <1>1 DEF Turn, EmptyThink
  <2>2. /\ t \in Seq(Tokens) /\ Len(t) = 5
        /\ t[1] = Header /\ t[2] = "think" /\ t[3] = "/think" /\ t[4] = "call" /\ t[5] = im_end
    BY <2>1, JoinFive DEF Tokens
  <2>3. \A k \in 2..Len(t) : k # Len(t) => t[k] # im_end
    <3>. SUFFICES ASSUME NEW k \in 2..Len(t), k # Len(t) PROVE t[k] # im_end
      OBVIOUS
    <3>1. k \in {2, 3, 4}
      BY <2>2
    <3>. QED
      BY <2>2, <3>1 DEF im_end
  <2>4. t[4] \notin {"think", "/think"} /\ t[5] \notin {"think", "/think"}
    BY <2>2 DEF im_end
  <2>. QED
    BY <1>1, <2>2, <2>3, <2>4 DEF Speaks
<1>2. CASE message = "call" /\ ~off
  <2>1. t = <<Header>> \o <<>> \o <<"call", im_end>>
    BY <1>2 DEF Turn
  <2>2. t \in Seq(Tokens) /\ Len(t) = 3 /\ t[1] = Header /\ t[2] = "call" /\ t[3] = im_end
    BY <2>1, JoinThree DEF Tokens
  <2>. QED
    BY <1>2, <2>2 DEF Speaks, im_end
<1>3. CASE message = "final"
  <2>1. t = <<Header>> \o <<"think", "/think">> \o <<"answer", im_end>>
    BY <1>3 DEF Turn, EmptyThink
  <2>2. /\ t \in Seq(Tokens) /\ Len(t) = 5
        /\ t[1] = Header /\ t[2] = "think" /\ t[3] = "/think" /\ t[4] = "answer" /\ t[5] = im_end
    BY <2>1, JoinFive DEF Tokens
  <2>. QED
    BY <1>3, <2>2 DEF Speaks, im_end
<1>4. CASE message \in {"user", "tool"}
  <2>1. t = <<"user", message, im_end>>
    BY <1>4 DEF Turn
  <2>2. t \in Seq(Tokens) /\ Len(t) = 3 /\ t[1] = "user" /\ t[2] = message /\ t[3] = im_end
    BY <1>4, <2>1 DEF Tokens
  <2>. QED
    BY <1>4, <2>2 DEF Speaks, im_end, Header
<1>. QED
  BY <1>1, <1>2, <1>3, <1>4 DEF Roles

\* What the model emits of its turn is all from FirstSaid on, and of another's
\* nothing.
LEMMA EmitsFacts ==
    ASSUME NEW message \in Roles, NEW off \in BOOLEAN, NEW e, e = Emits(message, off)
    PROVE  /\ e \in Seq(BOOLEAN) /\ Len(e) = Len(Turn(message, off))
           /\ message \in Speaks => \A k \in 1..Len(e) : e[k] <=> k >= FirstSaid(off)
           /\ message \notin Speaks => \A k \in 1..Len(e) : ~e[k]
<1>. DEFINE t == Turn(message, off)
<1>1. /\ t \in Seq(Tokens) /\ Len(t) \in Nat /\ DOMAIN t = 1..Len(t) /\ Len(t) \in {3, 5}
  BY TurnFacts, LenProperties
<1>2. e = [k \in DOMAIN t |->
              /\ message \in Speaks /\ k > 1 /\ ~(off /\ t[k] \in ToSet(EmptyThink))]
  BY Zenon DEF Emits, Speaks
<1>. HIDE DEF t
<1>3. e \in [1..Len(t) -> BOOLEAN]
  BY <1>1, <1>2
<1>4. e \in Seq(BOOLEAN) /\ Len(e) = Len(t)
  BY <1>1, <1>3, SeqDef, LenProperties
<1>5. \A k \in 1..Len(t) :
          e[k] <=> message \in Speaks /\ k > 1 /\ ~(off /\ t[k] \in ToSet(EmptyThink))
  BY <1>1, <1>2
<1>6. ToSet(EmptyThink) = {"think", "/think"}
  <2>1. DOMAIN EmptyThink = {1, 2} /\ EmptyThink[1] = "think" /\ EmptyThink[2] = "/think"
    BY DEF EmptyThink
  <2>. QED
    BY <2>1 DEF ToSet
<1>7. ASSUME message \in Speaks, NEW k \in 1..Len(t) PROVE e[k] <=> k >= FirstSaid(off)
  <2>1. CASE ~off
    BY <1>1, <1>5, <1>7, <2>1 DEF FirstSaid
  <2>2. CASE off
    <3>1. /\ Len(t) = 5 /\ t[2] = "think" /\ t[3] = "/think" /\ t[4] \notin {"think", "/think"}
          /\ t[5] \notin {"think", "/think"}
      BY <1>7, <2>2, TurnFacts DEF t
    <3>2. k \in {1, 2, 3, 4, 5}
      BY <3>1
    <3>3. e[k] <=> k > 1 /\ t[k] \notin {"think", "/think"}
      BY <1>5, <1>6, <1>7, <2>2
    <3>4. FirstSaid(off) = 4
      BY <2>2 DEF FirstSaid
    <3>5. CASE k \in {1, 2, 3}
      BY <3>1, <3>3, <3>4, <3>5
    <3>6. CASE k \in {4, 5}
      BY <3>1, <3>3, <3>4, <3>6
    <3>. QED
      BY <3>2, <3>5, <3>6
  <2>. QED
    BY <2>1, <2>2
<1>. QED
  BY <1>4, <1>5, <1>7 DEF t

\* text is the turns of messages in a row, said what is emitted of them, and
\* turn j comes after at[j] tokens.
Rendered(messages, off, text, said, at) ==
    /\ text \in Seq(Tokens) /\ said \in Seq(BOOLEAN) /\ Len(said) = Len(text)
    /\ at \in [1..Len(messages) + 1 -> Nat]
    /\ at[1] = 0 /\ at[Len(messages) + 1] = Len(text)
    /\ \A j \in 1..Len(messages) :
           /\ at[j + 1] = at[j] + Len(Turn(messages[j], off))
           /\ \A k \in 1..Len(Turn(messages[j], off)) :
                  /\ text[at[j] + k] = Turn(messages[j], off)[k]
                  /\ said[at[j] + k] = Emits(messages[j], off)[k]

\* encode renders a record as its turns in a row.
LEMMA RenderedExists ==
    ASSUME NEW messages \in Seq(Roles), NEW off \in BOOLEAN
    PROVE  \E at : Rendered(messages, off,
                       FlattenSeq([k \in DOMAIN messages |-> Turn(messages[k], off)]),
                       FlattenSeq([k \in DOMAIN messages |-> Emits(messages[k], off)]), at)
<1>. DEFINE n == Len(messages)
            turns == [k \in DOMAIN messages |-> Turn(messages[k], off)]
            emits == [k \in DOMAIN messages |-> Emits(messages[k], off)]
<1>1. n \in Nat /\ DOMAIN messages = 1..n /\ \A j \in 1..n : messages[j] \in Roles
  BY LenProperties
<1>2. \A j \in 1..n : /\ turns[j] = Turn(messages[j], off) /\ turns[j] \in Seq(Tokens)
                      /\ emits[j] = Emits(messages[j], off) /\ emits[j] \in Seq(BOOLEAN)
                      /\ Len(emits[j]) = Len(turns[j])
  BY <1>1, TurnFacts, EmitsFacts
<1>3. DOMAIN turns = 1..n /\ DOMAIN emits = 1..n
  BY <1>1
<1>4. turns \in [1..n -> Seq(Tokens)] /\ emits \in [1..n -> Seq(BOOLEAN)]
  BY <1>1, <1>2
<1>. HIDE DEF turns, emits, n
<1>5. /\ turns \in Seq(Seq(Tokens)) /\ Len(turns) = n
      /\ emits \in Seq(Seq(BOOLEAN)) /\ Len(emits) = n
  BY <1>1, <1>4, SeqDef, LenProperties
<1>6. PICK a \in [1..n + 1 -> Nat] : Layout(turns, FlattenSeq(turns), a)
  BY <1>5, FlattenLayout
<1>7. PICK b \in [1..n + 1 -> Nat] : Layout(emits, FlattenSeq(emits), b)
  BY <1>5, FlattenLayout
<1>8. a = b
  <2>1. \A j \in 1..n : Len(turns[j]) = Len(emits[j])
    BY <1>2
  <2>. QED
    <3>1. PICK s, t, f, g : /\ s = turns /\ t = emits
                            /\ f = FlattenSeq(turns) /\ g = FlattenSeq(emits)
      OBVIOUS
    <3>2. n \in Nat /\ Len(s) = n /\ Len(t) = n /\ \A j \in 1..n : Len(s[j]) = Len(t[j])
      BY <1>1, <1>5, <2>1, <3>1
    <3>3. /\ a \in [1..n + 1 -> Nat] /\ Layout(s, f, a)
          /\ b \in [1..n + 1 -> Nat] /\ Layout(t, g, b)
      BY <1>6, <1>7, <3>1
    <3>. QED
      BY <3>2, <3>3, LayoutsAgree
<1>9. FlattenSeq(turns) \in Seq(Tokens) /\ FlattenSeq(emits) \in Seq(BOOLEAN)
  BY <1>5, FlattenLayout
<1>10. Rendered(messages, off, FlattenSeq(turns), FlattenSeq(emits), a)
  <2>1. /\ a[1] = 0 /\ a[n + 1] = Len(FlattenSeq(turns))
        /\ Len(FlattenSeq(emits)) = Len(FlattenSeq(turns))
    BY <1>5, <1>6, <1>7, <1>8 DEF Layout
  <2>2. ASSUME NEW j \in 1..n
        PROVE  /\ a[j + 1] = a[j] + Len(turns[j])
               /\ \A k \in 1..Len(turns[j]) : /\ FlattenSeq(turns)[a[j] + k] = turns[j][k]
                                              /\ FlattenSeq(emits)[a[j] + k] = emits[j][k]
    BY <1>2, <1>5, <1>6, <1>7, <1>8 DEF Layout
  <2>3. \A j \in 1..n : turns[j] = Turn(messages[j], off) /\ emits[j] = Emits(messages[j], off)
    BY <1>2
  <2>4. \A j \in 1..n :
              /\ a[j + 1] = a[j] + Len(Turn(messages[j], off))
              /\ \A k \in 1..Len(Turn(messages[j], off)) :
                     /\ FlattenSeq(turns)[a[j] + k] = Turn(messages[j], off)[k]
                     /\ FlattenSeq(emits)[a[j] + k] = Emits(messages[j], off)[k]
    BY <2>2, <2>3
  <2>. QED
    BY <1>6, <1>9, <2>1, <2>4, Zenon DEF Rendered, n
<1>. QED
  BY <1>10 DEF turns, emits

\* A turn ends inside the text, and the next one starts after it.
LEMMA TurnsInRow ==
    ASSUME NEW messages \in Seq(Roles), NEW off \in BOOLEAN, NEW text, NEW said, NEW at,
           Rendered(messages, off, text, said, at), NEW j \in 1..Len(messages)
    PROVE  /\ Len(messages) \in Nat /\ Len(text) \in Nat
           /\ messages[j] \in Roles
           /\ at[j] \in Nat /\ at[j + 1] \in Nat /\ at[j + 1] <= Len(text)
           /\ at[j + 1] = at[j] + Len(Turn(messages[j], off))
           /\ Len(Turn(messages[j], off)) \in {3, 5}
           /\ at[j + 1] < Len(text) =>
                 j + 1 \in 1..Len(messages) /\ at[j + 1] < at[(j + 1) + 1]
<1>. DEFINE n == Len(messages)
<1>1. n \in Nat /\ Len(text) \in Nat /\ \A i \in 1..n : messages[i] \in Roles
  BY LenProperties DEF Rendered
<1>2. /\ at \in [1..n + 1 -> Nat] /\ at[n + 1] = Len(text)
      /\ \A i \in 1..n : at[i + 1] = at[i] + Len(Turn(messages[i], off))
  BY DEF Rendered
<1>3. \A i \in 1..n : Len(Turn(messages[i], off)) \in {3, 5}
  BY <1>1, TurnFacts
<1>. HIDE DEF n
<1>4. \A i \in 1..n : at[i] < at[i + 1] /\ at[i] \in Nat /\ at[i + 1] \in Nat
  <2>. SUFFICES ASSUME NEW i \in 1..n
                PROVE  at[i] < at[i + 1] /\ at[i] \in Nat /\ at[i + 1] \in Nat
    OBVIOUS
  <2>1. at[i] \in Nat
    BY <1>1, <1>2
  <2>2. PICK l \in {3, 5} : at[i + 1] = at[i] + l
    BY <1>2, <1>3
  <2>. QED
    BY <2>1, <2>2
<1>. DEFINE Good == {i \in Nat : at[i] <= at[n + 1]}
<1>5. 1..n + 1 \subseteq Good
  <2>1. ASSUME NEW i \in 1..n + 1, \A k \in i + 1..n + 1 : k \in Good PROVE i \in Good
    <3>1. CASE i = n + 1
      BY <1>1, <1>2, <3>1
    <3>2. CASE i # n + 1
      <4>1. i \in 1..n /\ i + 1 \in i + 1..n + 1
        BY <1>1, <3>2
      <4>2. at[i + 1] <= at[n + 1] /\ at[n + 1] \in Nat
        BY <1>1, <1>2, <2>1, <4>1
      <4>. QED
        BY <1>4, <4>1, <4>2
    <3>. QED
      BY <3>1, <3>2
  <2>2. Good \in SUBSET Nat
    OBVIOUS
  <2>. HIDE DEF Good
  <2>. QED
    BY <1>1, <2>1, <2>2, DownTo
<1>6. j \in 1..n /\ j + 1 \in 1..n + 1
  BY <1>1 DEF n
<1>7. at[j + 1] <= Len(text)
  BY <1>2, <1>5, <1>6
<1>8. ASSUME at[j + 1] < Len(text) PROVE j + 1 \in 1..n
  BY <1>1, <1>2, <1>6, <1>8
<1>. QED
  BY <1>1, <1>2, <1>3, <1>4, <1>6, <1>7, <1>8 DEF n

\* The scan of a truncated text: from a turn's first token, or from any in a
\* turn that the model does not speak.
TurnStarts(messages, at, L, i) ==
    \/ i = L + 1
    \/ \E j \in 1..Len(messages) :
           at[j] < i /\ i <= at[j + 1] /\ (i = at[j] + 1 \/ messages[j] \notin Speaks)

\* After a turn that is not cut, the scan is where a turn starts, or done.
LEMMA AfterTurn ==
    ASSUME NEW messages \in Seq(Roles), NEW off \in BOOLEAN, NEW text, NEW said, NEW at,
           Rendered(messages, off, text, said, at), NEW j \in 1..Len(messages),
           NEW L \in Nat, L <= Len(text), at[j + 1] <= L
    PROVE  TurnStarts(messages, at, L, at[j + 1] + 1)
<1>1. CASE at[j + 1] = L
  BY <1>1 DEF TurnStarts
<1>2. CASE at[j + 1] # L
  <2>1. at[j + 1] < Len(text) /\ at[j + 1] \in Nat
    BY <1>2, TurnsInRow
  <2>2. j + 1 \in 1..Len(messages) /\ at[j + 1] < at[(j + 1) + 1]
    BY <2>1, TurnsInRow
  <2>3. at[(j + 1) + 1] \in Nat
    BY <2>2, TurnsInRow
  <2>4. at[j + 1] < at[j + 1] + 1 /\ at[j + 1] + 1 <= at[(j + 1) + 1]
    BY <2>1, <2>2, <2>3
  <2>. QED
    BY <2>2, <2>4 DEF TurnStarts
<1>. QED
  BY <1>1, <1>2

\* Where a turn of the model's that starts at i is trained from, and to.
LEMMA SpanOfTurn ==
    ASSUME NEW messages \in Seq(Roles), NEW off \in BOOLEAN, NEW text, NEW said, NEW at,
           Rendered(messages, off, text, said, at), NEW j \in 1..Len(messages),
           messages[j] \in Speaks,
           NEW ids \in Seq(Tokens), Len(ids) <= Len(text),
           \A k \in 1..Len(ids) : ids[k] = text[k],
           ~(off /\ Len(ids) < Len(text) /\ ids[Len(ids)] = "think"),
           NEW i, i = at[j] + 1, i <= Len(ids)
    PROVE  LET s == Start(ids, i, off)
               e == End(ids, s)
           IN /\ s \in Nat /\ i < s
              /\ e = IF at[j + 1] <= Len(ids) THEN at[j + 1] ELSE Len(ids)
              /\ \A k \in i..e : said[k] <=> k >= s
<1>. DEFINE L == Len(ids)
            t == Turn(messages[j], off)
            m == Len(t)
            s == Start(ids, i, off)
            b == at[j + 1]
<1>1. /\ L \in Nat /\ at[j] \in Nat /\ i \in Nat /\ b \in Nat
      /\ i <= L /\ b = at[j] + m
  <2>1. L \in Nat
    BY LenProperties
  <2>2. at[j] \in Nat /\ b \in Nat /\ b = at[j] + m
    BY TurnsInRow
  <2>. QED
    BY <2>1, <2>2
<1>0. b <= Len(text) /\ Len(text) \in Nat /\ messages[j] \in Roles
  BY TurnsInRow
<1>m. m = 3 \/ m = 5
  BY TurnsInRow
<1>2. /\ t[1] = Header /\ t[m] = im_end
      /\ \A k \in 2..m : k # m => t[k] # im_end
      /\ off => m = 5 /\ t[2] = "think" /\ t[3] = "/think"
  <2>1. t[1] = Header /\ t[m] = im_end
    BY <1>0, TurnFacts
  <2>2. \A k \in 2..m : k # m => t[k] # im_end
    BY <1>0, TurnFacts
  <2>3. off => m = 5 /\ t[2] = "think" /\ t[3] = "/think"
    BY <1>0, TurnFacts
  <2>. HIDE DEF t, m
  <2>. QED
    BY <2>1, <2>2, <2>3
<1>a. PICK a \in Nat : a = at[j]
  BY <1>1
<1>b. i = a + 1 /\ b = a + m /\ i \in Nat /\ b \in Nat /\ L \in Nat /\ i <= L
  BY <1>1, <1>a
<1>3. \A k \in 1..m : a + k <= L => ids[a + k] = t[k]
  <2>1. ASSUME NEW k \in 1..m, a + k <= L PROVE ids[a + k] = t[k]
    <3>1. text[a + k] = t[k]
      BY <1>a DEF Rendered, t, m
    <3>2. a + k \in 1..L
      BY <1>b, <2>1
    <3>. QED
      BY <3>1, <3>2
  <2>. QED
    BY <2>1
<1>4. \A k \in 1..m : said[a + k] <=> k >= FirstSaid(off)
  <2>1. ASSUME NEW k \in 1..m PROVE said[a + k] <=> k >= FirstSaid(off)
    <3>1. said[a + k] = Emits(messages[j], off)[k]
      BY <1>a DEF Rendered, t, m
    <3>2. Len(Emits(messages[j], off)) = m
      BY <1>0, EmitsFacts
    <3>3. Emits(messages[j], off)[k] <=> k >= FirstSaid(off)
      <4>1. k \in 1..Len(Emits(messages[j], off))
        BY <3>2
      <4>. QED
        BY <1>0, <4>1, EmitsFacts
    <3>. QED
      BY <3>1, <3>3
  <2>. QED
    BY <2>1
<1>. HIDE DEF t, m, b, L
<1>5. /\ s \in Nat /\ i < s /\ s <= b
      /\ \A k \in 1..m : a + k <= L => (k >= FirstSaid(off) <=> a + k >= s)
  <2>1. CASE ~off
    <3>1. s = i + 1 /\ FirstSaid(off) = 2
      BY <2>1 DEF Start, FirstSaid
    <3>. HIDE DEF s
    <3>. QED
      BY <1>b, <1>m, <3>1
  <2>2. CASE off
    <3>0. FirstSaid(off) = 4 /\ m = 5
      BY <1>2, <2>2 DEF FirstSaid
    <3>1. CASE i + 2 <= L
      <4>1. ids[i + 1] = "think" /\ ids[i + 2] = "/think"
        <5>1. a + 2 = i + 1 /\ a + 3 = i + 2 /\ i + 1 <= L
          BY <1>b, <3>1
        <5>2. 2 \in 1..m /\ 3 \in 1..m
          BY <3>0
        <5>3. ids[a + 2] = t[2] /\ ids[a + 3] = t[3]
          BY <1>3, <3>1, <5>1, <5>2
        <5>. QED
          BY <1>2, <2>2, <5>1, <5>3
      <4>2. SubSeq(ids, i + 1, i + 2) = EmptyThink
        <5>0. PICK p, q : p = i + 1 /\ q = i + 2
          OBVIOUS
        <5>1. p \in Int /\ q \in Int /\ q = p + 1
          BY <1>b, <5>0
        <5>. DEFINE u == SubSeq(ids, p, q)
        <5>2. \A k \in p..q : ids[k] \in Tokens
          <6>1. \A k \in p..q : k = p \/ k = q
            BY <5>1
          <6>. QED
            BY <4>1, <5>0, <6>1 DEF Tokens
        <5>3. /\ u \in Seq(Tokens)
              /\ Len(u) = IF p <= q THEN q - p + 1 ELSE 0
              /\ \A k \in 1..q - p + 1 : u[k] = ids[p + k - 1]
          BY <5>1, <5>2, SubSeqProperties
        <5>4. Len(u) = 2 /\ u[1] = ids[p] /\ u[2] = ids[q]
          <6>1. q - p + 1 = 2 /\ p <= q /\ p + 1 - 1 = p /\ p + 2 - 1 = q
            BY <5>1
          <6>. HIDE DEF u
          <6>. QED
            BY <5>3, <6>1
        <5>. HIDE DEF u
        <5>5. u = [k \in 1..2 |-> u[k]]
          BY <5>3, <5>4, LenProperties
        <5>6. u = <<"think", "/think">>
          BY <4>1, <5>0, <5>4, <5>5
        <5>. QED
          BY <5>0, <5>6 DEF u, EmptyThink
      <4>3. s = i + 3
        BY <2>2, <3>1, <4>2 DEF Start, L
      <4>. HIDE DEF s
      <4>. QED
        BY <1>b, <3>0, <4>3
    <3>2. CASE ~(i + 2 <= L)
      <4>1. s = i + 1
        BY <3>2 DEF Start, L
      <4>2. L # i + 1
        <5>. SUFFICES ASSUME L = i + 1 PROVE FALSE
          OBVIOUS
        <5>1. a + 2 = L /\ L < Len(text) /\ 2 \in 1..m
          BY <1>0, <1>b, <3>0
        <5>2. ids[L] = "think"
          <6>1. ids[a + 2] = t[2]
            BY <1>b, <1>3, <5>1
          <6>. QED
            BY <1>2, <2>2, <5>1, <6>1
        <5>. QED
          BY <2>2, <5>1, <5>2 DEF L
      <4>3. L = i
        BY <1>b, <3>2, <4>2
      <4>. HIDE DEF s
      <4>. QED
        BY <1>b, <3>0, <4>1, <4>3
    <3>. QED
      BY <3>1, <3>2
  <2>. QED
    BY <2>1, <2>2
<1>. DEFINE ends == {p \in s..L : ids[p] = im_end}
            e    == End(ids, s)
<1>. HIDE DEF s
<1>6. \A p \in s..L : p < b => ids[p] # im_end
  <2>. SUFFICES ASSUME NEW p \in s..L, p < b PROVE ids[p] # im_end
    OBVIOUS
  <2>1. PICK k \in 2..m : p = a + k /\ k # m
    <3>1. p - a \in 2..m /\ p = a + (p - a) /\ p - a # m
      BY <1>b, <1>m, <1>5
    <3>. QED
      BY <3>1
  <2>2. k \in 1..m /\ a + k <= L
    BY <1>b, <1>m, <1>5, <2>1
  <2>. QED
    BY <1>2, <1>3, <2>1, <2>2
<1>7. e = IF b <= L THEN b ELSE L
  <2>1. CASE b <= L
    <3>1. b \in ends
      <4>1. m \in 1..m
        BY <1>m
      <4>2. ids[b] = im_end
        BY <1>b, <1>2, <1>3, <2>1, <4>1
      <4>3. b \in s..L
        BY <1>b, <1>5, <2>1
      <4>. QED
        BY <4>2, <4>3
    <3>2. ends \in SUBSET Nat /\ \A p \in ends : b <= p
      BY <1>b, <1>5, <1>6
    <3>3. Min(ends) = b
      <4>1. Min(ends) \in ends /\ \A p \in ends : Min(ends) <= p
        BY <3>1, <3>2, SmallestElement
      <4>. QED
        BY <3>1, <3>2, <4>1
    <3>4. e = Min(ends)
      BY <3>1 DEF End, L
    <3>. QED
      BY <2>1, <3>3, <3>4
  <2>2. CASE ~(b <= L)
    <3>1. ends = {}
      BY <1>b, <1>5, <1>6, <2>2
    <3>. QED
      BY <2>2, <3>1 DEF End, L
  <2>. QED
    BY <2>1, <2>2
<1>8. \A k \in i..e : said[k] <=> k >= s
  <2>. SUFFICES ASSUME NEW k \in i..e PROVE said[k] <=> k >= s
    OBVIOUS
  <2>1. k \in i..L /\ k <= b
    BY <1>b, <1>7
  <2>2. PICK o \in 1..m : k = a + o
    <3>1. k - a \in 1..m /\ k = a + (k - a)
      BY <1>b, <1>m, <2>1
    <3>. QED
      BY <3>1
  <2>3. a + o <= L
    BY <1>b, <2>1, <2>2
  <2>. QED
    BY <1>4, <1>5, <2>2, <2>3
<1>. QED
  BY <1>5, <1>7, <1>8 DEF s, b, L

\* What the scan labels is what the model says, by induction from the end of
\* the record: from where a turn may start, the labels after it are what is said.
LEMMA ScanTrainsSaid ==
    ASSUME NEW messages \in Seq(Roles), NEW off \in BOOLEAN, NEW text, NEW said, NEW at,
           Rendered(messages, off, text, said, at),
           NEW ids \in Seq(Tokens), Len(ids) <= Len(text),
           \A k \in 1..Len(ids) : ids[k] = text[k],
           ~(off /\ Len(ids) < Len(text) /\ ids[Len(ids)] = "think")
    PROVE  labels(ids, off) = {k \in 1..Len(ids) : said[k]}
<1>. DEFINE L == Len(ids)
            Said(i) == {k \in i..L : said[k]}
<1>1. L \in Nat /\ Len(messages) \in Nat
  BY LenProperties
<1>2. PICK g : Scans(g, ids, off) /\ labels(ids, off) = g[1]
  BY LabelsScan
<1>3. \A i \in 1..L + 1 : g[i] = Scan(g, ids, off, i)
  BY <1>2 DEF Scans
<1>. DEFINE Good == {i \in Nat : TurnStarts(messages, at, L, i) => g[i] = Said(i)}
<1>4. ASSUME NEW i \in 1..L + 1, \A k \in i + 1..L + 1 : k \in Good,
             TurnStarts(messages, at, L, i)
      PROVE  g[i] = Said(i)
  <2>. HIDE DEF L
  <2>1. CASE i = L + 1
    <3>1. g[i] = {}
      <4>1. i > Len(ids) /\ i \in 1..L + 1
        BY <1>1, <2>1 DEF L
      <4>2. g[i] = Scan(g, ids, off, i)
        BY <1>3, <4>1
      <4>. QED
        BY <4>1, <4>2 DEF Scan
    <3>2. Said(i) = {}
      BY <1>1, <2>1
    <3>. QED
      BY <3>1, <3>2
  <2>2. CASE i # L + 1
    <3>1. PICK j \in 1..Len(messages) :
              at[j] < i /\ i <= at[j + 1] /\ (i = at[j] + 1 \/ messages[j] \notin Speaks)
      BY <1>4, <2>2 DEF TurnStarts
    <3>2. PICK a \in Nat, b \in Nat : a = at[j] /\ b = at[j + 1]
      BY TurnsInRow
    <3>. DEFINE t == Turn(messages[j], off)
    <3>3. messages[j] \in Roles /\ b = a + Len(t) /\ b <= Len(text) /\ Len(text) \in Nat
      BY <3>2, TurnsInRow
    <3>4. i \in 1..L /\ i <= L /\ i + 1 \in i + 1..L + 1 /\ i \in Nat /\ i + 1 \in Nat
      BY <1>1, <2>2
    <3>5. CASE messages[j] \in Speaks
      <4>. DEFINE s == Start(ids, i, off)
                  e == End(ids, s)
      <4>1. i = at[j] + 1
        BY <3>1, <3>5
      <4>2. /\ s \in Nat /\ i < s
            /\ e = IF at[j + 1] <= Len(ids) THEN at[j + 1] ELSE Len(ids)
            /\ \A k \in i..e : said[k] <=> k >= s
        <5>1. i <= Len(ids)
          BY <3>4 DEF L
        <5>. QED
          BY <3>5, <4>1, <5>1, SpanOfTurn
      <4>3. g[i] = (s..e) \cup g[e + 1]
        <5>1. ids[i] = Header
          <6>1. t[1] = Header /\ 1 \in 1..Len(t)
            <7>1. t[1] = Header
              BY <3>3, <3>5, TurnFacts
            <7>2. Len(t) \in {3, 5}
              BY <3>3, TurnFacts
            <7>. HIDE DEF t
            <7>. QED
              BY <7>1, <7>2
          <6>2. text[at[j] + 1] = t[1]
            BY <6>1 DEF Rendered
          <6>3. ids[i] = text[i]
            BY <3>4 DEF L
          <6>. QED
            BY <4>1, <6>1, <6>2, <6>3
        <5>2. ~(i > Len(ids)) /\ i \in 1..L + 1
          BY <1>1, <3>4 DEF L
        <5>3. g[i] = Scan(g, ids, off, i)
          BY <1>3, <5>2
        <5>. QED
          BY <5>1, <5>2, <5>3 DEF Scan
      <4>. HIDE DEF s, e
      <4>4. e \in i..L /\ e \in Nat /\ e + 1 \in i + 1..L + 1
        <5>1. e = IF b <= L THEN b ELSE L
          BY <3>2, <4>2 DEF L
        <5>2. i <= b
          BY <3>1, <3>2
        <5>. QED
          BY <1>1, <3>4, <5>1, <5>2
      <4>5. TurnStarts(messages, at, L, e + 1)
        <5>1. CASE b <= L
          <6>1. e = at[j + 1] /\ at[j + 1] <= L
            BY <3>2, <4>2, <5>1 DEF L
          <6>2. L <= Len(text)
            BY DEF L
          <6>. QED
            BY <1>1, <6>1, <6>2, AfterTurn
        <5>2. CASE ~(b <= L)
          <6>1. e = L
            BY <3>2, <4>2, <5>2 DEF L
          <6>. QED
            BY <6>1 DEF TurnStarts
        <5>. QED
          BY <5>1, <5>2
      <4>6. g[e + 1] = Said(e + 1)
        BY <1>4, <4>4, <4>5
      <4>7. Said(i) = (s..e) \cup Said(e + 1)
        <5>1. ASSUME NEW k \in Said(i) PROVE k \in (s..e) \cup Said(e + 1)
          <6>1. k \in i..L /\ said[k]
            OBVIOUS
          <6>2. CASE k <= e
            <7>1. k \in i..e
              BY <3>4, <4>4, <6>1, <6>2
            <7>2. k >= s
              BY <4>2, <6>1, <7>1
            <7>. QED
              BY <4>2, <4>4, <7>1, <7>2
          <6>3. CASE ~(k <= e)
            <7>1. k \in e + 1..L
              BY <1>1, <3>4, <4>4, <6>1, <6>3
            <7>. QED
              BY <6>1, <7>1
          <6>. QED
            BY <6>2, <6>3
        <5>2. ASSUME NEW k \in s..e PROVE k \in Said(i)
          <6>1. k \in i..e /\ k >= s /\ k \in i..L
            BY <1>1, <3>4, <4>2, <4>4
          <6>. QED
            BY <4>2, <6>1
        <5>3. ASSUME NEW k \in Said(e + 1) PROVE k \in Said(i)
          <6>1. k \in e + 1..L /\ said[k]
            OBVIOUS
          <6>2. k \in i..L
            BY <1>1, <3>4, <4>4, <6>1
          <6>. QED
            BY <6>1, <6>2
        <5>. HIDE DEF Said
        <5>. QED
          BY <5>1, <5>2, <5>3
      <4>. QED
        BY <4>3, <4>6, <4>7
    <3>6. CASE messages[j] \notin Speaks
      <4>. DEFINE k == i - a
      <4>1. k \in 1..Len(t) /\ at[j] + k = i /\ Len(t) \in Nat
        <5>1. Len(t) \in Nat
          BY <3>3, TurnFacts
        <5>2. a < i /\ i <= b
          BY <3>1, <3>2
        <5>. HIDE DEF t
        <5>3. PICK l \in Nat : l = Len(t) /\ b = a + l
          BY <3>3, <5>1
        <5>4. i - a \in 1..l /\ a + (i - a) = i
          BY <3>4, <5>2, <5>3
        <5>. QED
          BY <3>2, <5>3, <5>4
      <4>. HIDE DEF k
      <4>2. ids[i] # Header
        <5>1. t[k] # Header
          BY <3>3, <3>6, <4>1, TurnFacts
        <5>2. text[at[j] + k] = t[k]
          BY <4>1 DEF Rendered
        <5>3. ids[i] = text[i]
          BY <3>4 DEF L
        <5>. QED
          BY <4>1, <5>1, <5>2, <5>3
      <4>3. ~said[i]
        <5>1. said[at[j] + k] = Emits(messages[j], off)[k]
          BY <4>1 DEF Rendered
        <5>2. Len(Emits(messages[j], off)) = Len(t)
          BY <3>3, EmitsFacts
        <5>3. ~Emits(messages[j], off)[k]
          <6>1. k \in 1..Len(Emits(messages[j], off))
            BY <4>1, <5>2
          <6>. QED
            BY <3>3, <3>6, <6>1, EmitsFacts
        <5>. QED
          BY <4>1, <5>1, <5>3
      <4>4. g[i] = g[i + 1]
        <5>1. ~(i > Len(ids)) /\ i \in 1..L + 1
          BY <1>1, <3>4 DEF L
        <5>2. g[i] = Scan(g, ids, off, i)
          BY <1>3, <5>1
        <5>. QED
          BY <4>2, <5>1, <5>2 DEF Scan
      <4>5. TurnStarts(messages, at, L, i + 1)
        <5>1. CASE i = b
          <6>1. at[j + 1] <= L /\ i = at[j + 1]
            BY <3>2, <3>4, <5>1
          <6>2. L <= Len(text)
            BY DEF L
          <6>3. TurnStarts(messages, at, L, at[j + 1] + 1)
            BY <1>1, <6>1, <6>2, AfterTurn
          <6>. QED
            BY <6>1, <6>3
        <5>2. CASE i # b
          <6>1. a < i + 1 /\ i + 1 <= b
            BY <3>1, <3>2, <3>4, <5>2
          <6>. QED
            BY <3>2, <3>6, <6>1 DEF TurnStarts
        <5>. QED
          BY <5>1, <5>2
      <4>6. g[i + 1] = Said(i + 1)
        BY <1>4, <3>4, <4>5
      <4>7. Said(i) = Said(i + 1)
        <5>1. \A p \in i..L : p = i \/ p \in i + 1..L
          BY <1>1, <3>4
        <5>2. \A p \in i + 1..L : p \in i..L
          BY <1>1, <3>4
        <5>. QED
          BY <4>3, <5>1, <5>2
      <4>. QED
        BY <4>4, <4>6, <4>7
    <3>. QED
      BY <3>5, <3>6
  <2>. QED
    BY <2>1, <2>2
<1>5. 1..L + 1 \subseteq Good
  <2>1. \A i \in 1..L + 1 : (\A k \in i + 1..L + 1 : k \in Good) => i \in Good
    <3>. SUFFICES ASSUME NEW i \in 1..L + 1, \A k \in i + 1..L + 1 : k \in Good PROVE i \in Good
      OBVIOUS
    <3>1. i \in Nat /\ (TurnStarts(messages, at, L, i) => g[i] = Said(i))
      BY <1>4
    <3>. QED
      BY <3>1
  <2>2. Good \in SUBSET Nat
    OBVIOUS
  <2>. HIDE DEF Good
  <2>. QED
    BY <1>1, <2>1, <2>2, DownTo
<1>6. TurnStarts(messages, at, L, 1)
  <2>1. CASE L = 0
    BY <2>1 DEF TurnStarts
  <2>2. CASE L # 0
    <3>1. at[1] = 0 /\ at[Len(messages) + 1] = Len(text) /\ Len(text) # 0
      <4>1. Len(text) \in Nat
        BY LenProperties DEF Rendered
      <4>. QED
        BY <1>1, <2>2, <4>1 DEF Rendered
    <3>2. 1 \in 1..Len(messages)
      <4>1. Len(messages) # 0
        BY <3>1
      <4>. QED
        BY <1>1, <4>1
    <3>3. at[2] \in Nat /\ at[2] # 0
      <4>0. /\ at[1 + 1] = at[1] + Len(Turn(messages[1], off))
            /\ Len(Turn(messages[1], off)) \in {3, 5}
        BY <3>2, TurnsInRow
      <4>1. PICK l \in {3, 5} : at[1 + 1] = at[1] + l
        BY <4>0
      <4>2. at[2] = 0 + l
        BY <3>1, <4>1
      <4>. QED
        BY <4>2
    <3>4. at[1] < 1 /\ 1 <= at[1 + 1] /\ 1 = at[1] + 1
      BY <3>1, <3>3
    <3>. QED
      BY <3>2, <3>4 DEF TurnStarts
  <2>. QED
    BY <2>1, <2>2
<1>7. g[1] = Said(1)
  <2>1. 1 \in 1..L + 1
    BY <1>1
  <2>. QED
    BY <1>5, <1>6, <2>1
<1>. QED
  BY <1>2, <1>7

\* Of any conversation, of any number of turns in any order, with thinking on
\* or off and cut at any length save through an empty think block, a loss is
\* computed on exactly the tokens that the model emits at inference.
THEOREM EncodeTrainsEmitted ==
    ASSUME NEW messages \in Seq(Roles), NEW off \in BOOLEAN, NEW max_len \in Nat,
           NEW enc0, enc0 = encode(messages, off, max_len)
    PROVE  enc0.cut \/ enc0.labels = {k \in DOMAIN enc0.ids : enc0.emitted[k]}
<1>. DEFINE text == FlattenSeq([k \in DOMAIN messages |-> Turn(messages[k], off)])
            said == FlattenSeq([k \in DOMAIN messages |-> Emits(messages[k], off)])
            n    == IF max_len < Len(text) THEN max_len ELSE Len(text)
            ids  == SubSeq(text, 1, n)
<1>1. PICK at : Rendered(messages, off, text, said, at)
  BY RenderedExists
<1>2. /\ enc0.ids = ids /\ enc0.emitted = said /\ enc0.labels = labels(ids, off)
      /\ enc0.cut <=> off /\ Len(ids) < Len(text) /\ ids[Len(ids)] = EmptyThink[1]
  BY Zenon DEF encode
<1>. HIDE DEF text, said
<1>3. text \in Seq(Tokens) /\ Len(text) \in Nat /\ \A k \in 1..Len(text) : text[k] \in Tokens
  BY <1>1, LenProperties, ElementOfSeq DEF Rendered
<1>4. n \in Nat /\ n <= Len(text)
  BY <1>3
<1>. HIDE DEF n
<1>5. ids \in Seq(Tokens) /\ Len(ids) = n /\ \A k \in 1..n : ids[k] = text[k]
  <2>1. \A k \in 1..n : text[k] \in Tokens
    BY <1>3, <1>4
  <2>2. /\ ids \in Seq(Tokens) /\ Len(ids) = (IF 1 <= n THEN n - 1 + 1 ELSE 0)
        /\ \A k \in 1..n - 1 + 1 : ids[k] = text[1 + k - 1]
    BY <1>4, <2>1, SubSeqProperties
  <2>. HIDE DEF ids
  <2>3. Len(ids) = n /\ n - 1 + 1 = n
    BY <1>4, <2>2
  <2>4. \A k \in 1..n : 1 + k - 1 = k
    BY <1>4
  <2>. QED
    BY <2>2, <2>3, <2>4
<1>. HIDE DEF ids
<1>6. EmptyThink[1] = "think" /\ DOMAIN ids = 1..Len(ids)
  BY <1>5, LenProperties DEF EmptyThink
<1>7. SUFFICES ASSUME ~enc0.cut PROVE labels(ids, off) = {k \in 1..Len(ids) : said[k]}
  BY <1>2, <1>6
<1>8. ~(off /\ Len(ids) < Len(text) /\ ids[Len(ids)] = "think")
  BY <1>2, <1>6, <1>7
<1>9. Len(ids) <= Len(text) /\ \A k \in 1..Len(ids) : ids[k] = text[k]
  BY <1>4, <1>5
<1>. QED
  BY <1>1, <1>5, <1>8, <1>9, ScanTrainsSaid

\* enc is a record of the dataset as encoded, or none.
EncodedRecord ==
    \/ enc = NoRecord
    \/ \E messages \in Records, off \in BOOLEAN, max_len \in MaxLens :
           enc = encode(messages, off, max_len)

LEMMA InitEncoded == Init => EncodedRecord
  BY DEF Init, EncodedRecord

LEMMA StepEncoded == EncodedRecord /\ [Next]_vars => EncodedRecord'
<1>. SUFFICES ASSUME EncodedRecord, [Next]_vars PROVE EncodedRecord'
  OBVIOUS
<1>1. CASE enc' = enc
  BY <1>1 DEF EncodedRecord
<1>2. CASE enc' = NoRecord
  BY <1>2 DEF EncodedRecord
<1>3. ASSUME NEW messages \in Records, NEW off \in BOOLEAN, NEW max_len \in MaxLens,
             Encode(messages, off, max_len)
      PROVE  EncodedRecord'
  <2>1. enc' = encode(messages, off, max_len)
    BY <1>3, Zenon DEF Encode
  <2>. QED
    BY <2>1, Zenon DEF EncodedRecord
<1>4. CASE Steps
  <2>1. CASE Load
    BY <1>2, <2>1 DEF Load
  <2>2. CASE Preflight
    BY <1>1, <2>2 DEF Preflight, job
  <2>3. CASE Monitor \/ Train \/ Save \/ Chmod
    BY <1>1, <2>3 DEF Monitor, Train, Save, Chmod
  <2>4. CASE SkipVerify \/ Dies
    BY <1>2, <2>4 DEF SkipVerify, Dies, Ends
  <2>5. CASE \E down \in BOOLEAN : Free(down)
    BY <1>1, <2>5 DEF Free
  <2>6. CASE \E hot \in BOOLEAN : Report(hot)
    BY <1>1, <2>6 DEF Report
  <2>7. CASE \E called \in 0..Technical, degenerate \in 0..1 : Verify(called, degenerate)
    BY <1>2, <2>7 DEF Verify, Ends
  <2>. QED
    BY <1>3, <1>4, <2>1, <2>2, <2>3, <2>4, <2>5, <2>6, <2>7 DEF Steps
<1>5. CASE (\E reason \in Reasons : StartRun({reason})) \/ StartRun({})
  BY <1>1, <1>5 DEF StartRun
<1>6. CASE \E reason \in {"args", "dataset", "weights"} : Changes(reason)
  BY <1>1, <1>6 DEF Changes, job
<1>7. CASE \E called \in 0..Technical, degenerate \in 0..1 : VerifyOnly(called, degenerate)
  BY <1>1, <1>7 DEF VerifyOnly
<1>8. CASE UNCHANGED <<wrong, changed, phase, job>>
  BY <1>1, <1>8 DEF job
<1>. QED
  BY <1>4, <1>5, <1>6, <1>7, <1>8 DEF Next, Job, vars

LEMMA EncodedTrainsEmitted == EncodedRecord => TrainedIsEmitted
<1>1. CASE enc = NoRecord
  <2>1. enc.labels = {} /\ DOMAIN enc.ids = {}
    BY <1>1 DEF NoRecord
  <2>. QED
    BY <2>1 DEF TrainedIsEmitted
<1>2. ASSUME NEW messages \in Records, NEW off \in BOOLEAN, NEW max_len \in MaxLens,
             enc = encode(messages, off, max_len)
      PROVE  TrainedIsEmitted
  <2>1. messages \in Seq(Roles) /\ max_len \in Nat
    <3>1. \A m \in Records : m \in Seq(Roles)
      <4>1. /\ <<"user", "call", "tool", "final">> \in Seq(Roles)
            /\ <<"user", "final">> \in Seq(Roles)
            /\ <<"user", "final", "user", "call", "tool", "final">> \in Seq(Roles)
        BY DEF Roles
      <4>. QED
        BY <4>1, Zenon DEF Records
    <3>. QED
      BY <3>1, LengthAssumption DEF LengthAssumption
  <2>. QED
    BY <1>2, <2>1, EncodeTrainsEmitted DEF TrainedIsEmitted
<1>. QED
  BY <1>1, <1>2, Zenon DEF EncodedRecord

\* Throughout any number of runs, each with a --max-len of its own: of the
\* record that a run encodes, what a loss is computed on is what the model emits.
THEOREM TrainedIsEmittedHolds == Spec => []TrainedIsEmitted
BY InitEncoded, StepEncoded, EncodedTrainsEmitted, PTL DEF Spec

=============================================================================
