--------------------------- MODULE CardOwnership ---------------------------
(***************************************************************************)
(* Who holds the two GPUs: "lab up", "lab up agent", "lab down",           *)
(* "lab pool up|down" and "lab reload llama-swap" (src/bin/lab, lines      *)
(* 317-931, 967-1099 and 1382-1436).                                       *)
(*                                                                         *)
(* A session is a terminal running one command, a shell script whose calls *)
(* to systemctl, docker and ssh are steps of their own: what a check saw   *)
(* may be old when a later line uses it.  Besides the sessions there are   *)
(* llama-swap, which loads a model on request, vLLM engines, which take    *)
(* the card's memory some time after their container started, kernel and   *)
(* training runs, the cable between the nodes, and power.                  *)
(*                                                                         *)
(* The card's memory is abstracted to who has allocated it: one holder     *)
(* leaves no room for a second, and "in use" means over the idle floor.    *)
(* LiteLLM, the exporter and the monitoring stack use no GPU and are left  *)
(* out.  The checks of a command that only compare static facts (images,   *)
(* keys, weights, a configuration) may fail at any time, so every command  *)
(* that has such a check may be refused.                                   *)
(***************************************************************************)
EXTENDS Naturals, FiniteSets

CONSTANTS
    Sessions,       \* terminals
    Commands,       \* the commands they are used for
    CacheIsMirror,  \* is the laptop's /srv/model-cache its own mirror?
    LinkFails,      \* may the cable drop while commands run?
    Kills,          \* may a command be killed?
    PowerCuts,      \* may a node lose power and boot again?
    SlowStarts,     \* may an engine still be starting after AGENT_WAIT_SECS?
    Jobs            \* are there kernel and training runs?

Nodes == {"desktop", "laptop"}
Peer(n) == IF n = "laptop" THEN "desktop" ELSE "laptop"

\* llama-swap's model (qwen3-*), gpu-lab-agent, ray-head or ray-worker, and
\* gpu-lab-kernels or gpu-lab-training.
Containers == {"model", "agent", "ray", "job"}
\* "starting" runs without the memory it wants, "exited" is left for its log.
Statuses == {"gone", "starting", "holding", "exited"}

AllCommands == {"up", "agent", "down", "poolUp", "poolDown", "reload"}

ASSUME CommandsAssumption == Commands \subseteq AllCommands
ASSUME SwitchesAssumption ==
    {CacheIsMirror, LinkFails, Kills, PowerCuts, SlowStarts, Jobs} \subseteq BOOLEAN

VARIABLES
    swap,       \* node |-> is the llama-swap unit active?
    boot,       \* node |-> is it enabled?
    con,        \* node |-> container |-> status
    engine,     \* does the pool's "vllm serve" run in ray-head?
    link,       \* the cable
    on,         \* node |-> has it power?
    pc,         \* session |-> where its command is
    at,         \* session |-> the node it runs on
    saw,        \* session |-> node |-> what "systemctl is-active" said (was, l_was, d_was)
    found       \* session |-> the same when its command started, read by no command

cards   == <<swap, con, engine>>
world   == <<boot, link, on>>
session == <<at, saw, found>>
vars == <<cards, world, pc, session>>

Running(n, c) == con[n][c] \in {"starting", "holding"}
Holding(n) == {c \in Containers : con[n][c] = "holding"}
\* on_desktop: ssh over the cable.
Linked == link /\ \A n \in Nodes : on[n]

Nothing == [n \in Nodes |-> "unknown"]

Init ==
    /\ swap = [n \in Nodes |-> TRUE] /\ boot = [n \in Nodes |-> TRUE]
    /\ con = [n \in Nodes |-> [c \in Containers |-> "gone"]]
    /\ engine = FALSE /\ link = TRUE /\ on = [n \in Nodes |-> TRUE]
    /\ pc = [s \in Sessions |-> "idle"] /\ at = [s \in Sessions |-> "desktop"]
    /\ saw = [s \in Sessions |-> Nothing] /\ found = [s \in Sessions |-> Nothing]

-----------------------------------------------------------------------------
(* What a step of a command does to a node.                                 *)

With(n, c, status) == [con EXCEPT ![n][c] = status]

\* "systemctl stop llama-swap" and "docker stop" of the loaded model.
StopServing(n) ==
    /\ swap' = [swap EXCEPT ![n] = FALSE]
    /\ con' = With(n, "model", "gone")

StartServing(n) == swap' = [swap EXCEPT ![n] = TRUE]

\* One half of the pool goes: the engine with it, and the other half's memory.
WithoutRay(n, status) ==
    [con EXCEPT ![n]["ray"] = status,
                ![Peer(n)]["ray"] = IF @ = "holding" THEN "starting" ELSE @]

Moves(s, from, to) == pc[s] = from /\ pc' = [pc EXCEPT ![s] = to]
Goes(s, from, to) == Moves(s, from, to) /\ UNCHANGED session

\* Nothing of a command's variables outlives it.
Forgotten(ended) ==
    /\ at' = [s \in Sessions |-> IF s \in ended THEN "desktop" ELSE at[s]]
    /\ saw' = [s \in Sessions |-> IF s \in ended THEN Nothing ELSE saw[s]]
    /\ found' = [s \in Sessions |-> IF s \in ended THEN Nothing ELSE found[s]]
Ends(s, from) == Moves(s, from, "idle") /\ Forgotten({s})

\* What "systemctl is-active" answers.
IsActive(n) == IF swap[n] THEN "active" ELSE "inactive"

-----------------------------------------------------------------------------
(* A command starts.  The pool is driven from the laptop.                   *)

FirstStep == [up |-> "up.check", agent |-> "agent.check", down |-> "down.swap",
              poolUp |-> "pool.check", poolDown |-> "poolDown.check", reload |-> "reload"]

Begin(s, n, command) ==
    /\ command \in Commands /\ on[n]
    /\ command \in {"poolUp", "poolDown"} => n = "laptop"
    /\ Moves(s, "idle", FirstStep[command])
    /\ at' = [at EXCEPT ![s] = n] /\ found' = [found EXCEPT ![s] = [m \in Nodes |-> IsActive(m)]]
    /\ UNCHANGED <<cards, world, saw>>

-----------------------------------------------------------------------------
(* cmd_up.  A kernel or training run only gets a warning.                   *)

CardTaken(n) == Running(n, "ray") \/ Running(n, "agent")
MountMissing(n) == n = "laptop" /\ ~Linked /\ ~CacheIsMirror

UpRefused(s) ==
    /\ Ends(s, "up.check") /\ UNCHANGED <<cards, world>>

UpAllowed(s) ==
    /\ ~MountMissing(at[s]) /\ ~CardTaken(at[s])
    /\ Goes(s, "up.check", "up.start") /\ UNCHANGED <<cards, world>>

UpStart(s) ==
    /\ Ends(s, "up.start") /\ StartServing(at[s])
    /\ UNCHANGED <<con, engine, world>>

\* cmd_reload: "systemctl restart", which also starts a stopped unit.
Reload(s) ==
    /\ Ends(s, "reload") /\ StartServing(at[s])
    /\ con' = With(at[s], "model", "gone")
    /\ UNCHANGED <<engine, world>>

-----------------------------------------------------------------------------
(* cmd_down.                                                                *)

DownSwap(s) ==
    /\ Goes(s, "down.swap", "down.sweep") /\ StopServing(at[s])
    /\ UNCHANGED <<engine, world>>

\* (Mutant: the pool is not among the names.)
StoppedButPool(n) == [con[n] EXCEPT !["model"] = "gone", !["job"] = "gone", !["agent"] = "exited"]

\* Every container of this node that holds its card is stopped, by name; the
\* agent's is kept for its log.
Stopped(n) ==
    [c \in Containers |-> IF c = "agent" /\ con[n][c] # "gone" THEN "exited" ELSE "gone"]

DownSweep(s) ==
    /\ Goes(s, "down.sweep", "down.boot")
    /\ con' = [WithoutRay(at[s], "gone") EXCEPT ![at[s]] = Stopped(at[s])]
    /\ engine' = FALSE
    /\ UNCHANGED <<swap, world>>

\* --boot-off or not; "the card is free" is printed in either case.
DownEnds(s) ==
    /\ Ends(s, "down.boot")
    /\ boot' \in {boot, [boot EXCEPT ![at[s]] = FALSE]}
    /\ UNCHANGED <<cards, link, on>>

-----------------------------------------------------------------------------
(* agent_up.                                                                *)

AgentRefused(s) ==
    /\ Ends(s, "agent.check") /\ UNCHANGED <<cards, world>>

\* (Mutant: the pool is not asked about.)
AgentAllowedAnyway(s) ==
    /\ ~Running(at[s], "job")
    /\ Goes(s, "agent.check", "agent.stop") /\ UNCHANGED <<cards, world>>

AgentAllowed(s) ==
    /\ ~Running(at[s], "ray") /\ ~Running(at[s], "job")
    /\ Goes(s, "agent.check", "agent.stop") /\ UNCHANGED <<cards, world>>

\* (Mutant: llama-swap is left to the memory check.)
AgentStopNothing(s) ==
    /\ Moves(s, "agent.stop", "agent.remove")
    /\ con' = With(at[s], "model", "gone")
    /\ saw' = [saw EXCEPT ![s][at[s]] = IsActive(at[s])]
    /\ UNCHANGED <<swap, engine, world, at, found>>

AgentStop(s) ==
    /\ Moves(s, "agent.stop", "agent.remove") /\ StopServing(at[s])
    /\ saw' = [saw EXCEPT ![s][at[s]] = IsActive(at[s])]
    /\ UNCHANGED <<engine, world, at, found>>

\* The previous agent, running or not.
AgentRemove(s) ==
    /\ Goes(s, "agent.remove", "agent.fit")
    /\ con' = With(at[s], "agent", "gone")
    /\ UNCHANGED <<swap, engine, world>>

\* A figure that was asked for (AGENT_GPU_UTIL) and does not fit.
AgentUnfit(s) ==
    /\ Holding(at[s]) # {}
    /\ Ends(s, "agent.fit")
    /\ swap' = [swap EXCEPT ![at[s]] = @ \/ saw[s][at[s]] = "active"]
    /\ UNCHANGED <<con, engine, world>>

\* With none asked for, whatever is free will do.
AgentFits(s) ==
    /\ Goes(s, "agent.fit", "agent.run") /\ UNCHANGED <<cards, world>>

\* "docker run --name": when another session got the name first, set -e ends
\* the command.
AgentRun(s) ==
    /\ IF con[at[s]]["agent"] = "gone"
       THEN Goes(s, "agent.run", "agent.wait") /\ con' = With(at[s], "agent", "starting")
       ELSE Ends(s, "agent.run") /\ UNCHANGED con
    /\ UNCHANGED <<swap, engine, world>>

\* (Mutant: the loop has no limit.)
AgentWaitedOn(s) ==
    /\ con[at[s]]["agent"] # "starting"
    /\ Ends(s, "agent.wait") /\ UNCHANGED <<cards, world>>

\* Served, exited, or no answer within AGENT_WAIT_SECS: from an engine that has
\* its memory, and with SlowStarts also from one that has none yet.
AgentWaited(s) ==
    /\ SlowStarts \/ con[at[s]]["agent"] # "starting"
    /\ Ends(s, "agent.wait") /\ UNCHANGED <<cards, world>>

-----------------------------------------------------------------------------
(* pool_up.                                                                 *)

PoolRefused(s) ==
    /\ Ends(s, "pool.check") /\ UNCHANGED <<cards, world>>

PoolAllowed(s) ==
    /\ Linked /\ ~Running("laptop", "job")
    /\ Goes(s, "pool.check", "pool.stopLaptop") /\ UNCHANGED <<cards, world>>

PoolStopLaptop(s) ==
    /\ Moves(s, "pool.stopLaptop", "pool.fitLaptop") /\ StopServing("laptop")
    /\ saw' = [saw EXCEPT ![s]["laptop"] = IsActive("laptop")]
    /\ UNCHANGED <<engine, world, at, found>>

\* (Mutant: pool_fits warns and does not refuse.)
PoolWarnsLaptop(s) ==
    /\ Goes(s, "pool.fitLaptop", "pool.askDesktop") /\ UNCHANGED <<cards, world>>

\* pool_fits on the laptop, after a minute for its card to clear.
PoolFitsLaptop(s) ==
    /\ Goes(s, "pool.fitLaptop", IF Holding("laptop") = {} THEN "pool.askDesktop" ELSE "pool.restoreLaptop")
    /\ UNCHANGED <<cards, world>>

\* d_was; an ssh that fails says nothing.
PoolAskDesktop(s) ==
    /\ Moves(s, "pool.askDesktop", "pool.stopDesktop")
    /\ saw' = [saw EXCEPT ![s]["desktop"] = IF Linked THEN IsActive("desktop") ELSE "unknown"]
    /\ UNCHANGED <<cards, world, at, found>>

\* "|| true": an ssh that fails stops nothing, and the command goes on.
PoolStopDesktop(s) ==
    /\ Goes(s, "pool.stopDesktop", "pool.totalDesktop")
    /\ IF Linked THEN StopServing("desktop") ELSE UNCHANGED <<swap, con>>
    /\ UNCHANGED <<engine, world>>

\* d_total has no "|| true": set -e ends the command here, restoring nothing.
PoolTotalDesktop(s) ==
    /\ IF Linked THEN Goes(s, "pool.totalDesktop", "pool.fitDesktop") ELSE Ends(s, "pool.totalDesktop")
    /\ UNCHANGED <<cards, world>>

\* A figure that ssh could not fetch counts as nothing in use.
PoolFitsDesktop(s) ==
    /\ Goes(s, "pool.fitDesktop",
            IF Linked /\ Holding("desktop") # {} THEN "pool.restoreLaptop" ELSE "pool.head")
    /\ UNCHANGED <<cards, world>>

\* pool_restore_serving; after a refusal on the laptop d_was is still unset.
PoolRestoreLaptop(s) ==
    /\ Goes(s, "pool.restoreLaptop", "pool.restoreDesktop")
    /\ swap' = [swap EXCEPT !["laptop"] = @ \/ saw[s]["laptop"] = "active"]
    /\ UNCHANGED <<con, engine, world>>

\* (Mutant: d_was is not looked at.)
PoolRestoreAlways(s) ==
    /\ Ends(s, "pool.restoreDesktop")
    /\ swap' = [swap EXCEPT !["desktop"] = Linked]
    /\ UNCHANGED <<con, engine, world>>

PoolRestoreDesktop(s) ==
    /\ Ends(s, "pool.restoreDesktop")
    /\ swap' = [swap EXCEPT !["desktop"] = @ \/ (Linked /\ saw[s]["desktop"] = "active")]
    /\ UNCHANGED <<con, engine, world>>

\* ray-head is replaced; without the link set -e ends the command.
PoolHead(s) ==
    /\ Linked
    /\ Goes(s, "pool.head", "pool.worker")
    /\ con' = WithoutRay("desktop", "starting") /\ engine' = FALSE
    /\ UNCHANGED <<swap, world>>

PoolWorker(s) ==
    /\ Goes(s, "pool.worker", "pool.serve")
    /\ con' = WithoutRay("laptop", "starting") /\ engine' = FALSE
    /\ UNCHANGED <<swap, world>>

PoolServe(s) ==
    /\ Linked /\ Running("desktop", "ray") /\ Running("laptop", "ray")
    /\ Goes(s, "pool.serve", "pool.wait")
    /\ engine' = TRUE
    /\ UNCHANGED <<swap, con, world>>

\* The worker never registered, vLLM exited or did not answer in time, or an
\* ssh without "|| true" failed: both ray containers stay.  Or it serves.
PoolEnds(s) ==
    /\ \/ ~Linked /\ Ends(s, "pool.head")
       \/ Ends(s, "pool.serve")
       \/ Ends(s, "pool.wait")
    /\ UNCHANGED <<cards, world>>

-----------------------------------------------------------------------------
(* pool_down.                                                               *)

PoolDownRefused(s) ==
    /\ ~Linked
    /\ Ends(s, "poolDown.check") /\ UNCHANGED <<cards, world>>

PoolDownWorker(s) ==
    /\ Linked /\ Goes(s, "poolDown.check", "poolDown.head")
    /\ con' = WithoutRay("laptop", "gone") /\ engine' = FALSE
    /\ UNCHANGED <<swap, world>>

\* An ssh that fails reads as "ray-head was not there".
PoolDownHead(s) ==
    /\ Ends(s, "poolDown.head")
    /\ IF Linked THEN con' = WithoutRay("desktop", "gone") /\ engine' = FALSE
                 ELSE UNCHANGED <<con, engine>>
    /\ UNCHANGED <<swap, world>>

-----------------------------------------------------------------------------
(* Everything that is not a command.                                        *)

Untouched == UNCHANGED <<world, pc, session>>

\* A request for a model reaches llama-swap.
LoadModel(n) ==
    /\ swap[n] /\ con[n]["model"] = "gone"
    /\ con' = With(n, "model", "starting")
    /\ UNCHANGED <<swap, engine>> /\ Untouched

\* kernels/run.sh, which refuses a card in use, or a training run's container.
JobStarts(n) ==
    /\ Jobs /\ on[n] /\ Holding(n) = {} /\ con[n]["job"] = "gone"
    /\ con' = With(n, "job", "starting")
    /\ UNCHANGED <<swap, engine>> /\ Untouched

\* A container that wants the card gets it if nothing else has it, and
\* otherwise dies of it.
Loads(n, c) ==
    /\ c # "ray" /\ con[n][c] = "starting"
    /\ con' = With(n, c, IF Holding(n) = {} THEN "holding"
                         ELSE IF c = "agent" THEN "exited" ELSE "gone")
    /\ UNCHANGED <<swap, engine>> /\ Untouched

\* It ends by itself: a model's time to live, a crash, the end of a run.
Dies(n, c) ==
    /\ c # "ray" /\ Running(n, c)
    /\ con' = With(n, c, IF c = "agent" THEN "exited" ELSE "gone")
    /\ UNCHANGED <<swap, engine>> /\ Untouched

PoolLoads ==
    /\ engine /\ \A n \in Nodes : Holding(n) = {} /\ Running(n, "ray")
    /\ con' = [n \in Nodes |-> [con[n] EXCEPT !["ray"] = "holding"]]
    /\ UNCHANGED <<swap, engine>> /\ Untouched

EngineDies ==
    /\ engine
    /\ engine' = FALSE
    /\ con' = [n \in Nodes |-> [con[n] EXCEPT !["ray"] = IF @ = "holding" THEN "starting" ELSE @]]
    /\ UNCHANGED swap /\ Untouched

LinkFlips ==
    /\ LinkFails
    /\ link' = ~link
    /\ UNCHANGED <<cards, boot, on, pc, session>>

Kill(s) ==
    /\ Kills /\ pc[s] # "idle"
    /\ Ends(s, pc[s]) /\ UNCHANGED <<cards, world>>

\* A node goes down with all it runs, and comes back with llama-swap if that is
\* enabled: no container has a restart policy.  Between commands, unless those
\* can be killed too.
PowerMayChange == PowerCuts /\ (Kills \/ \A s \in Sessions : pc[s] = "idle")

PowerOff(n) ==
    /\ PowerMayChange /\ on[n]
    /\ on' = [on EXCEPT ![n] = FALSE]
    /\ swap' = [swap EXCEPT ![n] = FALSE]
    /\ con' = [WithoutRay(n, "gone") EXCEPT ![n] = Stopped(n)] /\ engine' = FALSE
    /\ pc' = [s \in Sessions |-> IF at[s] = n THEN "idle" ELSE pc[s]]
    /\ Forgotten({s \in Sessions : at[s] = n}) /\ UNCHANGED <<boot, link>>

Boots(n) ==
    /\ PowerMayChange /\ ~on[n]
    /\ on' = [on EXCEPT ![n] = TRUE] /\ swap' = [swap EXCEPT ![n] = boot[n]]
    /\ UNCHANGED <<con, engine, boot, link, pc, session>>

-----------------------------------------------------------------------------
Step(s) ==
    \/ UpRefused(s) \/ UpAllowed(s) \/ UpStart(s) \/ Reload(s)
    \/ DownSwap(s) \/ DownSweep(s) \/ DownEnds(s)
    \/ AgentRefused(s) \/ AgentAllowed(s) \/ AgentStop(s) \/ AgentRemove(s)
    \/ AgentUnfit(s) \/ AgentFits(s) \/ AgentRun(s) \/ AgentWaited(s)
    \/ PoolRefused(s) \/ PoolAllowed(s) \/ PoolStopLaptop(s) \/ PoolFitsLaptop(s)
    \/ PoolAskDesktop(s) \/ PoolStopDesktop(s) \/ PoolTotalDesktop(s) \/ PoolFitsDesktop(s)
    \/ PoolRestoreLaptop(s) \/ PoolRestoreDesktop(s)
    \/ PoolHead(s) \/ PoolWorker(s) \/ PoolServe(s) \/ PoolEnds(s)
    \/ PoolDownRefused(s) \/ PoolDownWorker(s) \/ PoolDownHead(s)

Command(s) == Step(s) \/ Kill(s) \/ \E n \in Nodes, c \in AllCommands : Begin(s, n, c)

World ==
    \/ \E n \in Nodes : LoadModel(n) \/ JobStarts(n) \/ PowerOff(n) \/ Boots(n)
    \/ \E n \in Nodes, c \in Containers : Loads(n, c) \/ Dies(n, c)
    \/ PoolLoads \/ EngineDies \/ LinkFlips

Next == World \/ \E s \in Sessions : Command(s)

Spec == Init /\ [][Next]_vars

\* Every loop of a command is bounded; nothing is assumed of engines.
FairSpec == Spec /\ \A s \in Sessions : WF_vars(Step(s))
-----------------------------------------------------------------------------
(* Properties.                                                              *)

Places == {"idle", "reload", "up.check", "up.start", "down.swap", "down.sweep", "down.boot",
           "agent.check", "agent.stop", "agent.remove", "agent.fit", "agent.run", "agent.wait",
           "pool.check", "pool.stopLaptop", "pool.fitLaptop", "pool.askDesktop",
           "pool.stopDesktop", "pool.totalDesktop", "pool.fitDesktop", "pool.restoreLaptop",
           "pool.restoreDesktop", "pool.head", "pool.worker", "pool.serve", "pool.wait",
           "poolDown.check", "poolDown.head"}

Answers == {"active", "inactive", "unknown"}

TypeOK ==
    /\ swap \in [Nodes -> BOOLEAN] /\ boot \in [Nodes -> BOOLEAN] /\ on \in [Nodes -> BOOLEAN]
    /\ con \in [Nodes -> [Containers -> Statuses]]
    /\ engine \in BOOLEAN /\ link \in BOOLEAN
    /\ pc \in [Sessions -> Places] /\ at \in [Sessions -> Nodes]
    /\ saw \in [Sessions -> [Nodes -> Answers]] /\ found \in [Sessions -> [Nodes -> Answers]]

Planes == {"serving", "agent", "pool"}
Has(n, plane) ==
    CASE plane = "serving" -> swap[n]
      [] plane = "agent"   -> Running(n, "agent")
      [] plane = "pool"    -> Running(n, "ray")

\* llama-swap is on no card that the agent model or the pool runs on: it stops
\* while either runs, and "lab up" refuses (bin/lab 32-37, 112-118, 363-375).
ServingAlone == \A n \in Nodes : swap[n] => ~CardTaken(n)

\* The agent model and the pool are never on one card: "like the pool, it takes
\* the whole card", and "the pool needs all of it" (bin/lab 117, 709).
WholeCard == \A n \in Nodes : ~(Running(n, "agent") /\ Running(n, "ray"))

\* Of llama-swap, the agent model and the pool at most one is on a card: both of
\* the above.  Promised where an engine is never still starting when the wait for
\* it is over.
OneHolder == \A n \in Nodes : \A p, q \in Planes : Has(n, p) /\ Has(n, q) => p = q

HolderOf(n) == IF \E p \in Planes : Has(n, p) THEN CHOOSE p \in Planes : Has(n, p) ELSE "free"

\* A card changes hands only by being let go first, and the pool takes one only
\* when the other is free too (Card.tla, bin/lab 742-749).
Promise == INSTANCE Card WITH
    Holders <- Planes, Pool <- "pool", Free <- "free", holder <- [n \in Nodes |-> HolderOf(n)]
ImplementsCard == Promise!Spec

\* A command refused for lack of memory leaves both llama-swaps as it found
\* them: "a refused 'pool up' changes nothing" (bin/lab 748-749, 1022-1026).
RefusalsRestoreServing ==
    [][\A s \in Sessions :
        (pc[s] \in {"agent.fit", "pool.restoreDesktop"} /\ pc'[s] = "idle")
            => \A n \in Nodes : swap'[n] <=> (found[s][n] = "active")]_vars

\* After "lab down" nothing of the serving plane is left on the node: "the card
\* is free" (bin/lab 497-505, 586).
DownFreesCard ==
    [][\A s \in Sessions :
        (pc[s] = "down.boot" /\ pc'[s] = "idle")
            => \A p \in Planes : ~Has(at[s], p) /\ ~Running(at[s], "model")]_vars

\* "lab up" starts llama-swap only on a card that neither the pool nor the agent
\* holds at that moment: "'lab up' refuses while the pool holds the card"
\* (bin/lab 36-37, 117-118).
UpRespectsHolder ==
    [][\A s \in Sessions :
        (pc[s] = "up.start" /\ swap' # swap)
            => ~Running(at[s], "ray") /\ ~Running(at[s], "agent")]_vars

\* Every command comes to an end, whatever the other commands, the link and the
\* engines do: one that starts for ever too (bin/lab 861-877, 1067-1080).
CommandsEnd == \A s \in Sessions : (pc[s] # "idle") ~> (pc[s] = "idle")
=============================================================================
