----------------------------- MODULE GpuExporter -----------------------------
(***************************************************************************)
(* monitoring/gpu_exporter.py: one thread polls nvidia-smi and replaces    *)
(* the payload, any number of scrapes read it.  What a scrape reads is the *)
(* payload as it is then, so the payload stands for every scrape.          *)
(***************************************************************************)
EXTENDS Naturals

CONSTANTS
    Interval, \* --interval, in ticks
    Timeout   \* of nvidia-smi

ASSUME ExporterAssumption == Interval \in Nat \ {0} /\ Timeout \in Nat \ {0}

VARIABLES
    smi,     \* what nvidia-smi does: "ok", "blank" (N/A fields), "fails", "hangs"
    payload, \* scrape_ok, and whether its numbers are of a card
    age,     \* ticks since nvidia-smi was read, or failed
    poll,    \* the thread: "sample", "hung" in it, or "sleep"
    spent    \* ticks that it has been there

exporter == <<payload, age, poll, spent>>

MaxAge == Interval + Timeout + 2  \* older is all the same

\* The numbers of the card, or NaN; the system's own metrics come with either.
render(scrape_ok, numbers) == [scrape_ok |-> scrape_ok, numbers |-> numbers]

ExporterInit ==
    /\ smi = "ok"
    /\ payload = render(FALSE, FALSE) /\ age = 0 /\ poll = "sample" /\ spent = 0

Polled == age' = 0 /\ poll' = "sleep" /\ spent' = 0 /\ UNCHANGED smi

\* sample: nvidia-smi answers (a field it cannot read is NaN, and no error), fails
\* or hangs; one that hangs is killed at the timeout, whatever the next would do.
PollOk == poll = "sample" /\ smi \in {"ok", "blank"}
          /\ payload' = render(TRUE, smi = "ok") /\ Polled

Hangs == poll = "sample" /\ smi = "hangs" /\ poll' = "hung" /\ spent' = 0
         /\ UNCHANGED <<smi, payload, age>>

\* (Mutant: subprocess.run without its timeout.)
NeverTimedOut == FALSE
TimedOut == poll = "hung" /\ spent = Timeout
SampleRaises == TimedOut \/ (poll = "sample" /\ smi = "fails")

\* (Mutant: what the last good poll rendered stays.)
PollKeeps == SampleRaises /\ poll' = "sleep" /\ spent' = 0 /\ UNCHANGED <<smi, payload, age>>
PollFails == SampleRaises /\ payload' = render(FALSE, FALSE) /\ Polled

Wakes == poll = "sleep" /\ spent = Interval /\ poll' = "sample" /\ spent' = 0
         /\ UNCHANGED <<smi, payload, age>>

\* poll_forever.
Poll == PollOk \/ Hangs \/ PollFails \/ Wakes

Tick ==
    /\ spent < [sleep |-> Interval, hung |-> Timeout, sample |-> 0][poll]
    /\ spent' = spent + 1 /\ age' = IF age < MaxAge THEN age + 1 ELSE age
    /\ UNCHANGED <<smi, payload, poll>>

SmiChanges == smi' \in {"ok", "blank", "fails", "hangs"} \ {smi} /\ UNCHANGED exporter

ExporterNext == Poll \/ Tick \/ SmiChanges

ExporterSpec == ExporterInit /\ [][ExporterNext]_<<smi, exporter>>

-----------------------------------------------------------------------------
(* Properties.                                                              *)

\* A scrape that says it is good is of the card as it was no longer ago than
\* one sleep and one poll that may hang; a poll that fails is not hidden.
OkIsRecent == payload.scrape_ok => age <= Interval + Timeout

\* The exporter sees nvidia-smi come back, however long it hung.
ExporterRecovers == <>[](smi = "ok") => <>[](payload = render(TRUE, TRUE))

=============================================================================
