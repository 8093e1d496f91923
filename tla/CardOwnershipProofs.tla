------------------------ MODULE CardOwnershipProofs ------------------------
(***************************************************************************)
(* Theorems of CardOwnership: its type, for any commands, terminals and    *)
(* faults; for one terminal that nothing disturbs, that llama-swap has its *)
(* card to itself, and if engines start in time, that a card has one       *)
(* holder and the serving plane implements Card.tla; that a refusal        *)
(* restores what it stopped, for one terminal and a cable that holds; that *)
(* lab down frees its card, for one terminal with every fault.  What can   *)
(* break each of these is left out by its assumption (Undisturbed, Prompt, *)
(* Uninterrupted, OneSession), which is part of the theorem.               *)
(***************************************************************************)
EXTENDS CardOwnership, TLAPS

CardsType ==
    /\ swap \in [Nodes -> BOOLEAN] /\ con \in [Nodes -> [Containers -> Statuses]]
    /\ engine \in BOOLEAN
WorldType == boot \in [Nodes -> BOOLEAN] /\ on \in [Nodes -> BOOLEAN] /\ link \in BOOLEAN
SessionType ==
    /\ pc \in [Sessions -> Places] /\ at \in [Sessions -> Nodes]
    /\ saw \in [Sessions -> [Nodes -> Answers]] /\ found \in [Sessions -> [Nodes -> Answers]]

\* A step of a script leaves its variables typed.
LEMMA MovesType ==
    ASSUME TypeOK, NEW s \in Sessions, NEW from, NEW to \in Places, Goes(s, from, to)
    PROVE  SessionType'
BY DEF TypeOK, SessionType, Goes, Moves, session

LEMMA EndsType ==
    ASSUME TypeOK, NEW s \in Sessions, NEW from, Ends(s, from)
    PROVE  SessionType'
<1>1. "idle" \in Places /\ Nothing \in [Nodes -> Answers] /\ "desktop" \in Nodes
  BY DEF Places, Nothing, Answers, Nodes
<1>. QED
  BY <1>1 DEF TypeOK, SessionType, Ends, Moves, Forgotten

LEMMA StoppedType ==
    ASSUME TypeOK, NEW n \in Nodes
    PROVE  Stopped(n) \in [Containers -> Statuses]
BY DEF TypeOK, Stopped, Statuses

LEMMA WithFacts ==
    ASSUME TypeOK, NEW n \in Nodes, NEW c \in Containers, NEW status \in Statuses
    PROVE  /\ With(n, c, status) \in [Nodes -> [Containers -> Statuses]]
           /\ \A m \in Nodes, d \in Containers :
                With(n, c, status)[m][d] = IF m = n /\ d = c THEN status ELSE con[m][d]
BY DEF TypeOK, With

LEMMA PeerFacts ==
    ASSUME NEW n \in Nodes
    PROVE  Peer(n) \in Nodes /\ Peer(n) # n /\ \A m \in Nodes : m = n \/ m = Peer(n)
BY DEF Peer, Nodes

LEMMA WithoutRayFacts ==
    ASSUME TypeOK, NEW n \in Nodes, NEW status \in Statuses
    PROVE  /\ WithoutRay(n, status) \in [Nodes -> [Containers -> Statuses]]
           /\ \A m \in Nodes, d \in Containers :
                WithoutRay(n, status)[m][d] =
                    IF d # "ray" THEN con[m][d]
                    ELSE IF m = n THEN status
                    ELSE IF con[m][d] = "holding" THEN "starting" ELSE con[m][d]
<1>. DEFINE q == Peer(n)
            less == IF con[q]["ray"] = "holding" THEN "starting" ELSE con[q]["ray"]
            mine == [con[n] EXCEPT !["ray"] = status]
            other == [con[q] EXCEPT !["ray"] = less]
<1>1. q \in Nodes /\ q # n /\ \A m \in Nodes : m = n \/ m = q
  BY PeerFacts
<1>2. "ray" \in Containers /\ "starting" \in Statuses
  BY DEF Containers, Statuses
<1>3. con \in [Nodes -> [Containers -> Statuses]]
  BY DEF TypeOK
<1>4. less \in Statuses
  BY <1>1, <1>2, <1>3
<1>5. mine \in [Containers -> Statuses] /\ other \in [Containers -> Statuses]
  BY <1>1, <1>2, <1>3, <1>4
<1>6. WithoutRay(n, status) = [con EXCEPT ![n] = mine, ![q] = other]
  BY <1>1, <1>3 DEF WithoutRay
<1>7. [con EXCEPT ![n] = mine, ![q] = other] \in [Nodes -> [Containers -> Statuses]]
  BY <1>1, <1>3, <1>5
<1>8. ASSUME NEW m \in Nodes, NEW d \in Containers
      PROVE  WithoutRay(n, status)[m][d] =
                    IF d # "ray" THEN con[m][d]
                    ELSE IF m = n THEN status
                    ELSE IF con[m][d] = "holding" THEN "starting" ELSE con[m][d]
  <2>1. WithoutRay(n, status)[m] = IF m = q THEN other ELSE mine
    BY <1>1, <1>3, <1>6
  <2>. QED
    BY <2>1, <1>1, <1>2, <1>3
<1>. QED
  BY <1>6, <1>7, <1>8

\* A step of a script, one of whose calls may change the cards.
LEMMA StepType ==
    ASSUME TypeOK, NEW s \in Sessions, Step(s)
    PROVE  TypeOK'
<1>. USE DEF Places, Statuses, Nodes
<1>0. SessionType /\ CardsType /\ WorldType /\ at[s] \in Nodes
  BY DEF TypeOK, SessionType, CardsType, WorldType
<1>. SUFFICES SessionType' /\ CardsType' /\ WorldType'
  BY DEF TypeOK, SessionType, CardsType, WorldType
<1>1. CASE UpRefused(s)
  BY <1>0, <1>1, EndsType DEF UpRefused, CardsType, WorldType, cards, world
<1>2. CASE AgentRefused(s)
  BY <1>0, <1>2, EndsType DEF AgentRefused, CardsType, WorldType, cards, world
<1>3. CASE AgentWaited(s)
  BY <1>0, <1>3, EndsType DEF AgentWaited, CardsType, WorldType, cards, world
<1>4. CASE PoolRefused(s)
  BY <1>0, <1>4, EndsType DEF PoolRefused, CardsType, WorldType, cards, world
<1>5. CASE PoolEnds(s)
  BY <1>0, <1>5, EndsType DEF PoolEnds, CardsType, WorldType, cards, world
<1>6. CASE PoolDownRefused(s)
  BY <1>0, <1>6, EndsType DEF PoolDownRefused, CardsType, WorldType, cards, world
<1>7. CASE UpAllowed(s)
  BY <1>0, <1>7, MovesType DEF UpAllowed, CardsType, WorldType, cards, world
<1>8. CASE AgentAllowed(s)
  BY <1>0, <1>8, MovesType DEF AgentAllowed, CardsType, WorldType, cards, world
<1>9. CASE AgentFits(s)
  BY <1>0, <1>9, MovesType DEF AgentFits, CardsType, WorldType, cards, world
<1>10. CASE PoolAllowed(s)
  BY <1>0, <1>10, MovesType DEF PoolAllowed, CardsType, WorldType, cards, world
<1>11. CASE PoolFitsLaptop(s)
  BY <1>0, <1>11, MovesType DEF PoolFitsLaptop, CardsType, WorldType, cards, world
<1>12. CASE PoolFitsDesktop(s)
  BY <1>0, <1>12, MovesType DEF PoolFitsDesktop, CardsType, WorldType, cards, world
<1>13. CASE PoolTotalDesktop(s)
  BY <1>0, <1>13, MovesType, EndsType DEF PoolTotalDesktop, CardsType, WorldType, cards, world
<1>14. CASE UpStart(s)
  BY <1>0, <1>14, EndsType DEF UpStart, CardsType, WorldType, cards, world, StartServing
<1>15. CASE AgentUnfit(s)
  BY <1>0, <1>15, EndsType DEF AgentUnfit, CardsType, WorldType, cards, world, StartServing
<1>16. CASE PoolRestoreDesktop(s)
  BY <1>0, <1>16, EndsType DEF PoolRestoreDesktop, CardsType, WorldType, cards, world,
     StartServing
<1>17. CASE PoolRestoreLaptop(s)
  BY <1>0, <1>17, MovesType DEF PoolRestoreLaptop, CardsType, WorldType, cards, world
<1>18. CASE PoolServe(s)
  BY <1>0, <1>18, MovesType DEF PoolServe, CardsType, WorldType, cards, world
<1>19. CASE DownEnds(s)
  BY <1>0, <1>19, EndsType DEF DownEnds, CardsType, WorldType, cards, world
<1>20. CASE Reload(s)
  <2>1. con' \in [Nodes -> [Containers -> Statuses]]
    BY <1>0, <1>20, WithFacts DEF Reload, Containers
  <2>2. swap' \in [Nodes -> BOOLEAN]
    BY <1>0, <1>20 DEF Reload, StartServing, CardsType
  <2>3. SessionType'
    BY <1>20, EndsType DEF Reload
  <2>. QED
    BY <1>0, <1>20, <2>1, <2>2, <2>3 DEF Reload, CardsType, WorldType, world
<1>21. CASE DownSwap(s)
  <2>1. con' \in [Nodes -> [Containers -> Statuses]]
    BY <1>0, <1>21, WithFacts DEF DownSwap, StopServing, Containers
  <2>2. swap' \in [Nodes -> BOOLEAN]
    BY <1>0, <1>21 DEF DownSwap, StopServing, CardsType
  <2>3. SessionType'
    BY <1>21, MovesType DEF DownSwap
  <2>. QED
    BY <1>0, <1>21, <2>1, <2>2, <2>3 DEF DownSwap, CardsType, WorldType, world
<1>22. CASE PoolStopDesktop(s)
  <2>1. CASE Linked
    <3>1. StopServing("desktop")
      BY <1>22, <2>1, Zenon DEF PoolStopDesktop
    <3>. QED
      <4>1. con' \in [Nodes -> [Containers -> Statuses]]
        BY <1>0, <3>1, WithFacts DEF StopServing, Containers
      <4>2. swap' \in [Nodes -> BOOLEAN]
        BY <1>0, <3>1 DEF StopServing, CardsType
      <4>3. SessionType'
        BY <1>22, MovesType DEF PoolStopDesktop
      <4>. QED
        BY <1>0, <1>22, <4>1, <4>2, <4>3 DEF PoolStopDesktop, CardsType, WorldType, world
  <2>2. CASE ~Linked
    <3>1. UNCHANGED <<swap, con>>
      BY <1>22, <2>2, Zenon DEF PoolStopDesktop
    <3>. QED
      BY <1>0, <1>22, <3>1, MovesType DEF PoolStopDesktop, CardsType, WorldType, world
  <2>. QED
    BY <2>1, <2>2
<1>23. CASE AgentRemove(s)
  <2>1. con' \in [Nodes -> [Containers -> Statuses]]
    BY <1>0, <1>23, WithFacts DEF AgentRemove, Containers
  <2>2. SessionType'
    BY <1>23, MovesType DEF AgentRemove
  <2>. QED
    BY <1>0, <1>23, <2>1, <2>2 DEF AgentRemove, CardsType, WorldType, world
<1>24. CASE AgentRun(s)
  <2>1. con' \in {con, With(at[s], "agent", "starting")}
    BY <1>24, Zenon DEF AgentRun
  <2>2. con' \in [Nodes -> [Containers -> Statuses]]
    BY <1>0, <2>1, WithFacts DEF CardsType, Containers
  <2>3. SessionType'
    BY <1>24, MovesType, EndsType DEF AgentRun
  <2>. QED
    BY <1>0, <1>24, <2>2, <2>3 DEF AgentRun, CardsType, WorldType, world
<1>25. CASE DownSweep(s)
  BY <1>0, <1>25, MovesType, WithoutRayFacts, StoppedType DEF DownSweep, CardsType,
     WorldType, cards, world
<1>26. CASE PoolHead(s)
  BY <1>0, <1>26, MovesType, WithoutRayFacts DEF PoolHead, CardsType, WorldType, cards, world
<1>27. CASE PoolWorker(s)
  BY <1>0, <1>27, MovesType, WithoutRayFacts DEF PoolWorker, CardsType, WorldType, cards, world
<1>28. CASE PoolDownWorker(s)
  BY <1>0, <1>28, MovesType, WithoutRayFacts DEF PoolDownWorker, CardsType, WorldType, cards,
     world
<1>29. CASE PoolDownHead(s)
  <2>1. con' \in {con, WithoutRay("desktop", "gone")} /\ engine' \in {engine, FALSE}
    <3>1. CASE Linked
      BY <1>29, <3>1, Zenon DEF PoolDownHead
    <3>2. CASE ~Linked
      BY <1>29, <3>2, Zenon DEF PoolDownHead
    <3>. QED
      BY <3>1, <3>2
  <2>2. con' \in [Nodes -> [Containers -> Statuses]]
    BY <1>0, <2>1, WithoutRayFacts DEF CardsType
  <2>. QED
    BY <1>0, <1>29, <2>1, <2>2, EndsType DEF PoolDownHead, CardsType, WorldType, world
<1>30. CASE AgentStop(s)
  <2>1. swap' = [swap EXCEPT ![at[s]] = FALSE] /\ con' = With(at[s], "model", "gone")
    BY <1>30 DEF AgentStop, StopServing
  <2>5. con' \in [Nodes -> [Containers -> Statuses]]
    BY <1>0, <2>1, WithFacts DEF Containers
  <2>2. CardsType' /\ WorldType'
    BY <1>0, <1>30, <2>1, <2>5 DEF AgentStop, CardsType, WorldType, world
  <2>3. IsActive(at[s]) \in Answers
    BY DEF IsActive, Answers
  <2>4. SessionType'
    BY <1>0, <1>30, <2>3 DEF AgentStop, Moves, SessionType
  <2>. QED
    BY <2>2, <2>4
<1>31. CASE PoolStopLaptop(s)
  <2>1. swap' = [swap EXCEPT !["laptop"] = FALSE] /\ con' = With("laptop", "model", "gone")
    BY <1>31 DEF PoolStopLaptop, StopServing
  <2>5. con' \in [Nodes -> [Containers -> Statuses]]
    BY <1>0, <2>1, WithFacts DEF Containers
  <2>2. CardsType' /\ WorldType'
    BY <1>0, <1>31, <2>1, <2>5 DEF PoolStopLaptop, CardsType, WorldType, world
  <2>3. IsActive("laptop") \in Answers
    BY DEF IsActive, Answers
  <2>4. SessionType'
    BY <1>0, <1>31, <2>3 DEF PoolStopLaptop, Moves, SessionType
  <2>. QED
    BY <2>2, <2>4
<1>32. CASE PoolAskDesktop(s)
  BY <1>0, <1>32 DEF PoolAskDesktop, CardsType, WorldType, cards, world, Moves, SessionType,
     IsActive, Answers, session
<1>. QED
  BY <1>1, <1>2, <1>3, <1>4, <1>5, <1>6, <1>7, <1>8, <1>9, <1>10, <1>11, <1>12, <1>13, <1>14,
     <1>15, <1>16, <1>17, <1>18, <1>19, <1>20, <1>21, <1>22, <1>23, <1>24, <1>25, <1>26,
     <1>27, <1>28, <1>29, <1>30, <1>31, <1>32 DEF Step

LEMMA BeginType ==
    ASSUME TypeOK, NEW s \in Sessions, NEW n \in Nodes, NEW c \in AllCommands, Begin(s, n, c)
    PROVE  TypeOK'
<1>1. FirstStep[c] \in Places
  BY DEF FirstStep, Places, AllCommands
<1>2. [m \in Nodes |-> IsActive(m)] \in [Nodes -> Answers]
  BY DEF IsActive, Answers
<1>. QED
  BY <1>1, <1>2 DEF TypeOK, Begin, Moves, cards, world

LEMMA WorldTypeStep ==
    ASSUME TypeOK, World
    PROVE  TypeOK'
<1>. USE DEF Statuses, Untouched, cards, world, session
<1>1. ASSUME NEW n \in Nodes, LoadModel(n) PROVE TypeOK'
  BY <1>1, WithFacts DEF LoadModel, TypeOK, Containers
<1>2. ASSUME NEW n \in Nodes, JobStarts(n) PROVE TypeOK'
  BY <1>2, WithFacts DEF JobStarts, TypeOK, Containers
<1>3. ASSUME NEW n \in Nodes, PowerOff(n) PROVE TypeOK'
  <2>1. con' \in [Nodes -> [Containers -> Statuses]]
    BY <1>3, WithoutRayFacts, StoppedType DEF PowerOff
  <2>2. pc' \in [Sessions -> Places] /\ at' \in [Sessions -> Nodes]
    BY <1>3 DEF PowerOff, Forgotten, TypeOK, Places, Nodes
  <2>3. saw' \in [Sessions -> [Nodes -> Answers]] /\ found' \in [Sessions -> [Nodes -> Answers]]
    BY <1>3 DEF PowerOff, Forgotten, TypeOK, Nothing, Answers
  <2>. QED
    BY <1>3, <2>1, <2>2, <2>3 DEF PowerOff, TypeOK
<1>4. ASSUME NEW n \in Nodes, Boots(n) PROVE TypeOK'
  BY <1>4 DEF Boots, TypeOK
<1>5. ASSUME NEW n \in Nodes, NEW c \in Containers, Loads(n, c) PROVE TypeOK'
  BY <1>5, WithFacts DEF Loads, TypeOK
<1>6. ASSUME NEW n \in Nodes, NEW c \in Containers, Dies(n, c) PROVE TypeOK'
  BY <1>6, WithFacts DEF Dies, TypeOK
<1>7. CASE PoolLoads
  BY <1>7 DEF PoolLoads, TypeOK, Containers
<1>8. CASE EngineDies
  BY <1>8 DEF EngineDies, TypeOK, Containers
<1>9. CASE LinkFlips
  BY <1>9 DEF LinkFlips, TypeOK
<1>. QED
  BY <1>1, <1>2, <1>3, <1>4, <1>5, <1>6, <1>7, <1>8, <1>9 DEF World

LEMMA KillType ==
    ASSUME TypeOK, NEW s \in Sessions, Kill(s)
    PROVE  TypeOK'
<1>1. SessionType'
  BY EndsType DEF Kill
<1>. QED
  BY <1>1 DEF Kill, TypeOK, SessionType, cards, world

LEMMA InitType == Init => TypeOK
<1>1. /\ Nothing \in [Nodes -> Answers] /\ "gone" \in Statuses
      /\ "idle" \in Places /\ "desktop" \in Nodes
  BY DEF Nothing, Nodes, Answers, Places, Statuses
<1>2. Init => CardsType
  <2>. DEFINE none == [c \in Containers |-> "gone"]
  <2>1. none \in [Containers -> Statuses]
    BY <1>1
  <2>2. Init => con \in [Nodes -> [Containers -> Statuses]]
    <3>1. Init => con = [n \in Nodes |-> none]
      BY DEF Init
    <3>. HIDE DEF none
    <3>. QED
      BY <2>1, <3>1
  <2>3. Init => swap \in [Nodes -> BOOLEAN] /\ engine \in BOOLEAN
    BY DEF Init
  <2>. QED
    BY <2>2, <2>3 DEF CardsType
<1>3. Init => WorldType
  BY DEF Init, WorldType
<1>4. Init => SessionType
  BY <1>1 DEF Init, SessionType
<1>. QED
  BY <1>2, <1>3, <1>4 DEF TypeOK, CardsType, WorldType, SessionType

\* A card's containers, units and the scripts' places are what they may be,
\* whatever commands run beside one another, fail and are killed.
THEOREM CardsTypeCorrect == Spec => []TypeOK
<1>1. Init => TypeOK
  BY InitType
<1>2. ASSUME TypeOK, [Next]_vars PROVE TypeOK'
  <2>1. CASE World
    BY <1>2, <2>1, WorldTypeStep
  <2>2. ASSUME NEW s \in Sessions, Command(s) PROVE TypeOK'
    BY <1>2, <2>2, StepType, KillType, BeginType DEF Command
  <2>3. CASE UNCHANGED vars
    BY <1>2, <2>3 DEF TypeOK, vars, cards, world, session
  <2>. QED
    BY <1>2, <2>1, <2>2, <2>3 DEF Next
<1>. QED
  BY <1>1, <1>2, PTL DEF Spec

-----------------------------------------------------------------------------
(* One terminal, a cable that holds, no kills and no reload: without any of *)
(* these TLC finds a card with two holders (README, section 5).             *)

Undisturbed ==
    /\ \A s, t \in Sessions : s = t
    /\ "reload" \notin Commands /\ ~LinkFails /\ ~Kills

\* What pool_fits relies on: no engine is still starting when agent_up gives up.
Prompt == ~SlowStarts

Exclusive(n) ==
    /\ ~(swap[n] /\ CardTaken(n))
    /\ Prompt => ~(Running(n, "agent") /\ Running(n, "ray"))

\* The cards between any two steps: a node without power runs nothing.
CardsInv ==
    /\ link
    /\ \A n \in Nodes : Exclusive(n) /\ (~on[n] => ~swap[n] /\ ~CardTaken(n))

\* An agent that has not its memory yet is waited for: pool_fits would not see it.
Waiting ==
    Prompt => \A n \in Nodes : con[n]["agent"] = "starting"
        => \E s \in Sessions : pc[s] = "agent.wait" /\ at[s] = n

PoolPlaces == {"pool.stopLaptop", "pool.fitLaptop", "pool.askDesktop", "pool.stopDesktop",
               "pool.totalDesktop", "pool.fitDesktop", "pool.restoreLaptop",
               "pool.restoreDesktop", "pool.head", "pool.worker", "pool.serve", "pool.wait"}

Powered(s) ==
    /\ pc[s] # "idle" => on[at[s]]
    /\ pc[s] \in PoolPlaces => \A n \in Nodes : on[n]
    /\ pc[s] # "reload"

\* What a script has found or made free stays so until it uses it.
InUp(s) == pc[s] = "up.start" => ~CardTaken(at[s])

InAgent(s) ==
    /\ pc[s] \in {"agent.stop", "agent.remove", "agent.fit", "agent.run"} => ~Running(at[s], "ray")
    /\ pc[s] \in {"agent.remove", "agent.fit", "agent.run"} => ~swap[at[s]]
    /\ pc[s] \in {"agent.fit", "agent.run"} => ~Running(at[s], "agent")

InPool(s) ==
    /\ pc[s] \in {"pool.fitLaptop", "pool.askDesktop", "pool.stopDesktop", "pool.totalDesktop",
                  "pool.fitDesktop", "pool.head", "pool.worker"} => ~swap["laptop"]
    /\ pc[s] \in {"pool.askDesktop", "pool.stopDesktop", "pool.totalDesktop", "pool.fitDesktop",
                  "pool.head", "pool.worker"} => (Prompt => ~Running("laptop", "agent"))
    /\ pc[s] \in {"pool.totalDesktop", "pool.fitDesktop", "pool.head", "pool.worker"}
          => ~swap["desktop"]
    /\ pc[s] \in {"pool.head", "pool.worker"} => (Prompt => ~Running("desktop", "agent"))

\* Where llama-swap is remembered as active, it may be started again.
Remembered(s) ==
    pc[s] \notin {"agent.wait", "pool.worker", "pool.serve", "pool.wait"}
        => \A n \in Nodes : saw[s][n] = "active" => ~CardTaken(n)

ScriptInv(s) == Powered(s) /\ InUp(s) /\ InAgent(s) /\ InPool(s) /\ Remembered(s)

IInv == TypeOK /\ CardsInv /\ Waiting /\ \A s \in Sessions : ScriptInv(s)

\* A step that gives no card to anyone.
Shrinks ==
    \A n \in Nodes :
        /\ swap'[n] => swap[n]
        /\ Running(n, "ray")' => Running(n, "ray")
        /\ Running(n, "agent")' => Running(n, "agent")
        /\ con'[n]["agent"] = "starting" => con[n]["agent"] = "starting"

LEMMA ShrinksCards ==
    ASSUME IInv, Shrinks, UNCHANGED <<link, on>>
    PROVE  CardsInv'
BY DEF IInv, CardsInv, Exclusive, CardTaken, Shrinks

\* What stops or removes a container gives no card to anyone.
LEMMA WithShrinks ==
    ASSUME TypeOK, NEW n \in Nodes, NEW c \in Containers, NEW status \in {"gone", "exited"},
           con' = With(n, c, status), \A m \in Nodes : swap'[m] => swap[m]
    PROVE  Shrinks
<1>1. status \in Statuses /\ "agent" \in Containers /\ "ray" \in Containers
  BY DEF Statuses, Containers
<1>2. ASSUME NEW m \in Nodes, NEW d \in Containers
      PROVE  con'[m][d] \in {con[m][d], "gone", "exited"}
  <2>1. con'[m][d] = IF m = n /\ d = c THEN status ELSE con[m][d]
    BY <1>1, WithFacts
  <2>. QED
    BY <2>1
<1>. QED
  BY <1>1, <1>2 DEF Shrinks, Running

LEMMA WithoutRayShrinks ==
    ASSUME TypeOK, NEW n \in Nodes, con' = WithoutRay(n, "gone"), UNCHANGED swap
    PROVE  Shrinks
<1>1. "gone" \in Statuses /\ "agent" \in Containers /\ "ray" \in Containers
  BY DEF Statuses, Containers
<1>2. ASSUME NEW m \in Nodes
      PROVE  /\ con'[m]["agent"] = con[m]["agent"]
             /\ Running(m, "ray")' => Running(m, "ray")
  <2>1. con'[m]["agent"] = con[m]["agent"]
    BY <1>1, WithoutRayFacts
  <2>2. con'[m]["ray"] = IF m = n THEN "gone"
                         ELSE IF con[m]["ray"] = "holding" THEN "starting" ELSE con[m]["ray"]
    BY <1>1, WithoutRayFacts
  <2>. QED
    BY <2>1, <2>2 DEF Running
<1>. QED
  BY <1>2 DEF Shrinks, Running

LEMMA SweepShrinks ==
    ASSUME TypeOK, NEW n \in Nodes, UNCHANGED swap,
           con' = [WithoutRay(n, "gone") EXCEPT ![n] = Stopped(n)]
    PROVE  Shrinks
<1>. DEFINE rest == WithoutRay(n, "gone")
<1>1. "gone" \in Statuses /\ "agent" \in Containers /\ "ray" \in Containers
  BY DEF Statuses, Containers
<1>2. rest \in [Nodes -> [Containers -> Statuses]]
  BY <1>1, WithoutRayFacts
<1>3. ASSUME NEW m \in Nodes
      PROVE  /\ rest[m]["agent"] = con[m]["agent"]
             /\ m = n \/ rest[m]["ray"] = IF con[m]["ray"] = "holding" THEN "starting"
                                          ELSE con[m]["ray"]
  <2>1. rest[m]["agent"] = con[m]["agent"]
    BY <1>1, WithoutRayFacts
  <2>2. rest[m]["ray"] = IF m = n THEN "gone"
                         ELSE IF con[m]["ray"] = "holding" THEN "starting" ELSE con[m]["ray"]
    BY <1>1, WithoutRayFacts
  <2>. HIDE DEF rest
  <2>. QED
    BY <2>1, <2>2
<1>4. con' = [rest EXCEPT ![n] = Stopped(n)]
  OBVIOUS
<1>. HIDE DEF rest
<1>5. ASSUME NEW m \in Nodes
      PROVE  /\ Running(m, "ray")' => Running(m, "ray")
             /\ Running(m, "agent")' => Running(m, "agent")
             /\ con'[m]["agent"] = "starting" => con[m]["agent"] = "starting"
  <2>1. CASE m = n
    <3>1. con'[m] = Stopped(m)
      BY <1>2, <1>4, <2>1
    <3>2. con'[m]["ray"] = "gone" /\ con'[m]["agent"] \in {"gone", "exited"}
      BY <1>1, <3>1 DEF Stopped
    <3>. QED
      BY <3>2 DEF Running
  <2>2. CASE m # n
    <3>1. con'[m] = rest[m]
      BY <1>2, <1>4, <2>2
    <3>. QED
      BY <1>3, <2>2, <3>1 DEF Running
  <2>. QED
    BY <2>1, <2>2
<1>. QED
  BY <1>5 DEF Shrinks

LEMMA StopServingShrinks ==
    ASSUME TypeOK, NEW n \in Nodes, StopServing(n)
    PROVE  Shrinks /\ ~swap'[n]
<1>1. \A m \in Nodes : swap'[m] = IF m = n THEN FALSE ELSE swap[m]
  BY DEF TypeOK, StopServing
<1>2. con' = With(n, "model", "gone") /\ "model" \in Containers
  BY DEF StopServing, Containers
<1>. QED
  BY <1>1, <1>2, WithShrinks

\* Nothing is starting while the only script is not waiting for it.
LEMMA NoneStarting ==
    ASSUME Undisturbed, IInv, NEW s \in Sessions, pc[s] # "agent.wait"
    PROVE  Prompt => \A n \in Nodes : con[n]["agent"] # "starting"
BY DEF Undisturbed, IInv, Waiting

LEMMA ShrinksStep ==
    ASSUME Undisturbed, IInv, NEW s \in Sessions, pc[s] # "agent.wait", TypeOK',
           Shrinks, UNCHANGED <<link, on>>, ScriptInv(s)'
    PROVE  IInv'
<1>1. CardsInv'
  BY ShrinksCards
<1>2. Waiting'
  BY NoneStarting DEF Shrinks, Waiting
<1>3. \A t \in Sessions : ScriptInv(t)'
  BY DEF Undisturbed
<1>. QED
  BY <1>1, <1>2, <1>3 DEF IInv

LEMMA EndsScript ==
    ASSUME TypeOK, NEW s \in Sessions, NEW from, Ends(s, from)
    PROVE  ScriptInv(s)' /\ pc[s] = from
<1>1. pc[s] = from /\ pc'[s] = "idle"
  BY DEF Ends, Moves, TypeOK
<1>2. \A n \in Nodes : saw'[s][n] = "unknown"
  BY DEF Ends, Forgotten, Nothing, TypeOK
<1>. QED
  BY <1>1, <1>2 DEF ScriptInv, Powered, InUp, InAgent, InPool, Remembered, PoolPlaces

LEMMA GoesFacts ==
    ASSUME TypeOK, NEW s \in Sessions, NEW from, NEW to, Goes(s, from, to)
    PROVE  pc[s] = from /\ pc'[s] = to /\ at'[s] = at[s] /\ saw'[s] = saw[s]
BY DEF Goes, Moves, session, TypeOK

\* A world's step on the cards alone.
LEMMA WorldShrinks ==
    ASSUME IInv, TypeOK', Shrinks, UNCHANGED <<world, pc, session>>
    PROVE  IInv'
<1>1. CardsInv'
  BY ShrinksCards DEF world
<1>2. Waiting'
  BY DEF IInv, Waiting, Shrinks, session
<1>3. ASSUME NEW s \in Sessions PROVE ScriptInv(s)'
  <2>. USE DEF IInv, ScriptInv, Shrinks, world, session, CardTaken
  <2>0. at[s] \in Nodes /\ "laptop" \in Nodes /\ "desktop" \in Nodes
    BY DEF TypeOK, Nodes
  <2>1. Powered(s)'
    BY DEF Powered
  <2>2. InUp(s)'
    BY <2>0 DEF InUp
  <2>3. InAgent(s)'
    BY <2>0 DEF InAgent
  <2>4. InPool(s)'
    BY <2>0 DEF InPool
  <2>5. Remembered(s)'
    BY DEF Remembered
  <2>. QED
    BY <2>1, <2>2, <2>3, <2>4, <2>5
<1>. QED
  BY <1>1, <1>2, <1>3 DEF IInv

LEMMA InitIInv ==
    ASSUME Undisturbed, Init
    PROVE  CardsInv /\ Waiting /\ \A s \in Sessions : ScriptInv(s)
<1>1. \A n \in Nodes : con[n]["agent"] = "gone" /\ con[n]["ray"] = "gone" /\ on[n] /\ swap[n]
  BY DEF Init, Containers
<1>2. ASSUME NEW s \in Sessions PROVE ScriptInv(s)
  <2>1. pc[s] = "idle" /\ \A n \in Nodes : saw[s][n] = "unknown"
    BY DEF Init, Nothing
  <2>. QED
    BY <2>1 DEF ScriptInv, Powered, InUp, InAgent, InPool, Remembered, PoolPlaces
<1>. QED
  BY <1>1, <1>2 DEF Init, CardsInv, Exclusive, CardTaken, Running, Waiting

\* The steps of a script that give no card to anyone.
LEMMA QuietStep ==
    ASSUME Undisturbed, IInv, TypeOK', NEW s \in Sessions, Step(s),
           ~UpStart(s), ~AgentUnfit(s), ~AgentRun(s), ~AgentWaited(s),
           ~PoolRestoreLaptop(s), ~PoolRestoreDesktop(s), ~PoolHead(s), ~PoolWorker(s)
    PROVE  IInv'
<1>. USE DEF Nodes, cards, world
<1>0. TypeOK /\ CardsInv /\ ScriptInv(s) /\ at[s] \in Nodes
  BY DEF IInv, TypeOK
<1>t. con \in [Nodes -> [Containers -> Statuses]] /\ swap \in [Nodes -> BOOLEAN]
  BY <1>0 DEF TypeOK
<1>1. CASE UpRefused(s)
  <2>1. ScriptInv(s)' /\ pc[s] # "agent.wait"
    BY <1>0, <1>1, EndsScript DEF UpRefused
  <2>2. Shrinks /\ UNCHANGED <<link, on>>
    BY <1>0, <1>t, <1>1 DEF UpRefused, Shrinks, Running
  <2>. QED
    BY <2>1, <2>2, ShrinksStep
<1>2. CASE DownEnds(s)
  <2>1. ScriptInv(s)' /\ pc[s] # "agent.wait"
    BY <1>0, <1>2, EndsScript DEF DownEnds
  <2>2. Shrinks /\ UNCHANGED <<link, on>>
    BY <1>0, <1>t, <1>2 DEF DownEnds, Shrinks, Running
  <2>. QED
    BY <2>1, <2>2, ShrinksStep
<1>3. CASE AgentRefused(s)
  <2>1. ScriptInv(s)' /\ pc[s] # "agent.wait"
    BY <1>0, <1>3, EndsScript DEF AgentRefused
  <2>2. Shrinks /\ UNCHANGED <<link, on>>
    BY <1>0, <1>t, <1>3 DEF AgentRefused, Shrinks, Running
  <2>. QED
    BY <2>1, <2>2, ShrinksStep
<1>4. CASE PoolRefused(s)
  <2>1. ScriptInv(s)' /\ pc[s] # "agent.wait"
    BY <1>0, <1>4, EndsScript DEF PoolRefused
  <2>2. Shrinks /\ UNCHANGED <<link, on>>
    BY <1>0, <1>t, <1>4 DEF PoolRefused, Shrinks, Running
  <2>. QED
    BY <2>1, <2>2, ShrinksStep
<1>5. CASE PoolEnds(s)
  <2>1. ScriptInv(s)' /\ pc[s] # "agent.wait"
    BY <1>0, <1>5, EndsScript DEF PoolEnds
  <2>2. Shrinks /\ UNCHANGED <<link, on>>
    BY <1>0, <1>t, <1>5 DEF PoolEnds, Shrinks, Running
  <2>. QED
    BY <2>1, <2>2, ShrinksStep
<1>6. CASE PoolDownRefused(s)
  <2>1. ScriptInv(s)' /\ pc[s] # "agent.wait"
    BY <1>0, <1>6, EndsScript DEF PoolDownRefused
  <2>2. Shrinks /\ UNCHANGED <<link, on>>
    BY <1>0, <1>t, <1>6 DEF PoolDownRefused, Shrinks, Running
  <2>. QED
    BY <2>1, <2>2, ShrinksStep
<1>7. CASE UpAllowed(s)
  <2>1. pc[s] = "up.check" /\ pc'[s] = "up.start" /\ at'[s] = at[s] /\ saw'[s] = saw[s]
    BY <1>0, <1>7, GoesFacts DEF UpAllowed
  <2>2. Shrinks /\ UNCHANGED <<link, on>>
    BY <1>0, <1>t, <1>7 DEF UpAllowed, Shrinks, Running
  <2>3. ScriptInv(s)'
    BY <1>0, <1>t, <1>7, <2>1, <2>2 DEF UpAllowed, InUp, InAgent, InPool, Remembered,
       ScriptInv, Powered, PoolPlaces, Shrinks, CardTaken, Exclusive, CardsInv, Running
  <2>. QED
    BY <2>1, <2>2, <2>3, ShrinksStep
<1>8. CASE AgentAllowed(s)
  <2>1. pc[s] = "agent.check" /\ pc'[s] = "agent.stop" /\ at'[s] = at[s] /\ saw'[s] = saw[s]
    BY <1>0, <1>8, GoesFacts DEF AgentAllowed
  <2>2. Shrinks /\ UNCHANGED <<link, on>>
    BY <1>0, <1>t, <1>8 DEF AgentAllowed, Shrinks, Running
  <2>3. ScriptInv(s)'
    BY <1>0, <1>t, <1>8, <2>1, <2>2 DEF AgentAllowed, InUp, InAgent, InPool, Remembered,
       ScriptInv, Powered, PoolPlaces, Shrinks, CardTaken, Exclusive, CardsInv, Running
  <2>. QED
    BY <2>1, <2>2, <2>3, ShrinksStep
<1>9. CASE AgentFits(s)
  <2>1. pc[s] = "agent.fit" /\ pc'[s] = "agent.run" /\ at'[s] = at[s] /\ saw'[s] = saw[s]
    BY <1>0, <1>9, GoesFacts DEF AgentFits
  <2>2. Shrinks /\ UNCHANGED <<link, on>>
    BY <1>0, <1>t, <1>9 DEF AgentFits, Shrinks, Running
  <2>3. ScriptInv(s)'
    BY <1>0, <1>t, <1>9, <2>1, <2>2 DEF AgentFits, InUp, InAgent, InPool, Remembered,
       ScriptInv, Powered, PoolPlaces, Shrinks, CardTaken, Exclusive, CardsInv, Running
  <2>. QED
    BY <2>1, <2>2, <2>3, ShrinksStep
<1>10. CASE PoolAllowed(s)
  <2>1. pc[s] = "pool.check" /\ pc'[s] = "pool.stopLaptop" /\ at'[s] = at[s] /\ saw'[s] = saw[s]
    BY <1>0, <1>10, GoesFacts DEF PoolAllowed
  <2>2. Shrinks /\ UNCHANGED <<link, on>>
    BY <1>0, <1>t, <1>10 DEF PoolAllowed, Shrinks, Running, Linked
  <2>3. ScriptInv(s)'
    BY <1>0, <1>t, <1>10, <2>1, <2>2 DEF PoolAllowed, InUp, InAgent, InPool, Remembered,
       ScriptInv, Powered, PoolPlaces, Shrinks, CardTaken, Exclusive, CardsInv, Running, Linked
  <2>. QED
    BY <2>1, <2>2, <2>3, ShrinksStep
<1>11. CASE DownSwap(s)
  <2>1. pc[s] = "down.swap" /\ pc'[s] = "down.sweep" /\ at'[s] = at[s] /\ saw'[s] = saw[s]
    BY <1>0, <1>11, GoesFacts DEF DownSwap
  <2>2. Shrinks /\ UNCHANGED <<link, on>>
    BY <1>0, <1>11, StopServingShrinks DEF DownSwap
  <2>3. ScriptInv(s)'
    BY <1>0, <2>1, <2>2 DEF InUp, InAgent, InPool, Remembered, ScriptInv, Powered, PoolPlaces,
       Shrinks, CardTaken
  <2>. QED
    BY <2>1, <2>2, <2>3, ShrinksStep
<1>12. CASE DownSweep(s)
  <2>1. pc[s] = "down.sweep" /\ pc'[s] = "down.boot" /\ at'[s] = at[s] /\ saw'[s] = saw[s]
    BY <1>0, <1>12, GoesFacts DEF DownSweep
  <2>2. Shrinks /\ UNCHANGED <<link, on>>
    BY <1>0, <1>12, SweepShrinks DEF DownSweep
  <2>3. ScriptInv(s)'
    BY <1>0, <2>1, <2>2 DEF InUp, InAgent, InPool, Remembered, ScriptInv, Powered, PoolPlaces,
       Shrinks, CardTaken
  <2>. QED
    BY <2>1, <2>2, <2>3, ShrinksStep
<1>13. CASE AgentRemove(s)
  <2>1. pc[s] = "agent.remove" /\ pc'[s] = "agent.fit" /\ at'[s] = at[s] /\ saw'[s] = saw[s]
    BY <1>0, <1>13, GoesFacts DEF AgentRemove
  <2>2. Shrinks /\ UNCHANGED <<link, on>>
    BY <1>0, <1>13, WithShrinks DEF AgentRemove, Containers
  <2>4. con'[at[s]]["agent"] = "gone"
    BY <1>0, <1>13, WithFacts DEF AgentRemove, Statuses, Containers
  <2>5. ~Running(at[s], "agent")'
    BY <2>1, <2>4 DEF Running
  <2>3. ScriptInv(s)'
    BY <1>0, <2>1, <2>2, <2>5 DEF InUp, InAgent, InPool, Remembered, ScriptInv, Powered,
       PoolPlaces, Shrinks, CardTaken
  <2>. QED
    BY <2>1, <2>2, <2>3, ShrinksStep
<1>14. CASE PoolServe(s)
  <2>1. pc[s] = "pool.serve" /\ pc'[s] = "pool.wait" /\ at'[s] = at[s] /\ saw'[s] = saw[s]
    BY <1>0, <1>14, GoesFacts DEF PoolServe
  <2>2. Shrinks /\ UNCHANGED <<link, on>>
    BY <1>0, <1>t, <1>14 DEF PoolServe, Shrinks, Running
  <2>3. ScriptInv(s)'
    BY <1>0, <1>t, <1>14, <2>1, <2>2 DEF PoolServe, InUp, InAgent, InPool, Remembered,
       ScriptInv, Powered, PoolPlaces, Shrinks, CardTaken, Exclusive, CardsInv, Running
  <2>. QED
    BY <2>1, <2>2, <2>3, ShrinksStep
<1>15. CASE PoolDownWorker(s)
  <2>1. pc[s] = "poolDown.check" /\ pc'[s] = "poolDown.head" /\ at'[s] = at[s] /\ saw'[s] = saw[s]
    BY <1>0, <1>15, GoesFacts DEF PoolDownWorker
  <2>2. Shrinks /\ UNCHANGED <<link, on>>
    BY <1>0, <1>15, WithoutRayShrinks DEF PoolDownWorker
  <2>3. ScriptInv(s)'
    BY <1>0, <2>1, <2>2 DEF InUp, InAgent, InPool, Remembered, ScriptInv, Powered, PoolPlaces,
       Shrinks, CardTaken
  <2>. QED
    BY <2>1, <2>2, <2>3, ShrinksStep
<1>16. CASE AgentStop(s)
  <2>1. pc[s] = "agent.stop" /\ pc'[s] = "agent.remove" /\ at'[s] = at[s]
    BY <1>0, <1>16 DEF AgentStop, Moves, TypeOK
  <2>2. Shrinks /\ UNCHANGED <<link, on>>
    BY <1>0, <1>16, StopServingShrinks DEF AgentStop
  <2>3. \A m \in Nodes \ {at[s]} : saw'[s][m] = saw[s][m]
    BY <1>0, <1>16 DEF AgentStop, TypeOK
  <2>4. saw'[s][at[s]] = "active" => swap[at[s]]
    BY <1>0, <1>t, <1>16 DEF AgentStop, TypeOK, IsActive
  <2>6. ~swap'[at'[s]] /\ ~Running(at[s], "ray")
    BY <1>0, <1>16, <2>1, StopServingShrinks DEF AgentStop, ScriptInv, InAgent
  <2>7. Remembered(s)'
    BY <1>0, <2>1, <2>2, <2>3, <2>4 DEF Remembered, ScriptInv, Shrinks, CardTaken, CardsInv,
       Exclusive
  <2>5. ScriptInv(s)'
    BY <1>0, <2>1, <2>2, <2>6, <2>7 DEF InUp, InAgent, InPool, ScriptInv, Powered, PoolPlaces,
       Shrinks
  <2>. QED
    BY <2>1, <2>2, <2>5, ShrinksStep
<1>17. CASE PoolStopLaptop(s)
  <2>1. pc[s] = "pool.stopLaptop" /\ pc'[s] = "pool.fitLaptop" /\ at'[s] = at[s]
    BY <1>0, <1>17 DEF PoolStopLaptop, Moves, TypeOK
  <2>2. Shrinks /\ UNCHANGED <<link, on>>
    BY <1>0, <1>17, StopServingShrinks DEF PoolStopLaptop
  <2>3. \A m \in Nodes \ {"laptop"} : saw'[s][m] = saw[s][m]
    BY <1>0, <1>17 DEF PoolStopLaptop, TypeOK
  <2>4. saw'[s]["laptop"] = "active" => swap["laptop"]
    BY <1>0, <1>t, <1>17 DEF PoolStopLaptop, TypeOK, IsActive
  <2>6. ~swap'["laptop"]
    BY <1>0, <1>17, StopServingShrinks DEF PoolStopLaptop
  <2>7. Remembered(s)'
    BY <1>0, <2>1, <2>2, <2>3, <2>4 DEF Remembered, ScriptInv, Shrinks, CardTaken, CardsInv,
       Exclusive
  <2>5. ScriptInv(s)'
    BY <1>0, <2>1, <2>2, <2>6, <2>7 DEF InUp, InAgent, InPool, ScriptInv, Powered, PoolPlaces,
       Shrinks
  <2>. QED
    BY <2>1, <2>2, <2>5, ShrinksStep
<1>18. CASE PoolAskDesktop(s)
  <2>1. pc[s] = "pool.askDesktop" /\ pc'[s] = "pool.stopDesktop" /\ at'[s] = at[s]
    BY <1>0, <1>18 DEF PoolAskDesktop, Moves, TypeOK
  <2>2. Shrinks /\ UNCHANGED <<link, on>>
    BY <1>0, <1>t, <1>18 DEF PoolAskDesktop, Shrinks, Running
  <2>3. \A m \in Nodes \ {"desktop"} : saw'[s][m] = saw[s][m]
    BY <1>0, <1>18 DEF PoolAskDesktop, TypeOK
  <2>4. saw'[s]["desktop"] = "active" => swap["desktop"]
    BY <1>0, <1>t, <1>18 DEF PoolAskDesktop, TypeOK, IsActive
  <2>5. ScriptInv(s)'
    BY <1>0, <2>1, <2>2, <2>3, <2>4 DEF InUp, InAgent, InPool, Remembered, ScriptInv, Powered,
       PoolPlaces, Shrinks, CardTaken, Exclusive, CardsInv
  <2>. QED
    BY <2>1, <2>2, <2>5, ShrinksStep
<1>19. CASE Reload(s)
  <2>1. pc[s] = "reload"
    BY <1>0, <1>19, EndsScript DEF Reload
  <2>. QED
    BY <1>0, <2>1 DEF ScriptInv, Powered
<1>20. CASE PoolFitsLaptop(s)
  <2>1. /\ pc[s] = "pool.fitLaptop" /\ at'[s] = at[s] /\ saw'[s] = saw[s]
        /\ pc'[s] = IF Holding("laptop") = {} THEN "pool.askDesktop" ELSE "pool.restoreLaptop"
    BY <1>0, <1>20, GoesFacts DEF PoolFitsLaptop
  <2>2. Shrinks /\ UNCHANGED <<link, on>>
    BY <1>20 DEF PoolFitsLaptop, Shrinks, Running
  <2>3. Holding("laptop") = {} => (Prompt => ~Running("laptop", "agent"))
    BY <2>1, NoneStarting DEF Holding, Running, Containers
  <2>4. ScriptInv(s)'
    BY <1>0, <1>20, <2>1, <2>2, <2>3 DEF InUp, InAgent, InPool, Remembered, ScriptInv,
       Powered, PoolPlaces, Shrinks, CardTaken
  <2>. QED
    BY <2>1, <2>2, <2>4, ShrinksStep
<1>21. CASE PoolFitsDesktop(s)
  <2>1. /\ pc[s] = "pool.fitDesktop" /\ at'[s] = at[s] /\ saw'[s] = saw[s]
        /\ pc'[s] = IF Linked /\ Holding("desktop") # {} THEN "pool.restoreLaptop" ELSE "pool.head"
    BY <1>0, <1>21, GoesFacts DEF PoolFitsDesktop
  <2>2. Shrinks /\ UNCHANGED <<link, on>>
    BY <1>21 DEF PoolFitsDesktop, Shrinks, Running
  <2>3. Linked
    BY <1>0, <2>1 DEF ScriptInv, Powered, PoolPlaces, Linked, CardsInv
  <2>4. Holding("desktop") = {} => (Prompt => ~Running("desktop", "agent"))
    BY <2>1, NoneStarting DEF Holding, Running, Containers
  <2>5. ScriptInv(s)'
    BY <1>0, <1>21, <2>1, <2>2, <2>3, <2>4 DEF InUp, InAgent, InPool, Remembered, ScriptInv,
       Powered, PoolPlaces, Shrinks, CardTaken
  <2>. QED
    BY <2>1, <2>2, <2>5, ShrinksStep
<1>22. CASE PoolStopDesktop(s)
  <2>1. pc[s] = "pool.stopDesktop" /\ pc'[s] = "pool.totalDesktop" /\ at'[s] = at[s] /\ saw'[s] = saw[s]
    BY <1>0, <1>22, GoesFacts DEF PoolStopDesktop
  <2>2. Linked
    BY <1>0, <2>1 DEF ScriptInv, Powered, PoolPlaces, Linked, CardsInv
  <2>3. StopServing("desktop")
    BY <1>22, <2>2, Zenon DEF PoolStopDesktop
  <2>4. Shrinks /\ UNCHANGED <<link, on>>
    BY <1>0, <1>22, <2>3, StopServingShrinks DEF PoolStopDesktop
  <2>6. ~swap'["desktop"]
    BY <1>0, <2>3, StopServingShrinks
  <2>5. ScriptInv(s)'
    BY <1>0, <2>1, <2>4, <2>6 DEF InUp, InAgent, InPool, Remembered, ScriptInv, Powered,
       PoolPlaces, Shrinks, CardTaken
  <2>. QED
    BY <2>1, <2>4, <2>5, ShrinksStep
<1>23. CASE PoolTotalDesktop(s)
  <2>1. pc[s] = "pool.totalDesktop"
    BY <1>0, <1>23, GoesFacts, EndsScript DEF PoolTotalDesktop
  <2>2. Linked
    BY <1>0, <2>1 DEF ScriptInv, Powered, PoolPlaces, Linked, CardsInv
  <2>3. pc'[s] = "pool.fitDesktop" /\ at'[s] = at[s] /\ saw'[s] = saw[s]
    BY <1>0, <1>23, <2>2, GoesFacts DEF PoolTotalDesktop
  <2>4. Shrinks /\ UNCHANGED <<link, on>>
    BY <1>23 DEF PoolTotalDesktop, Shrinks, Running
  <2>5. ScriptInv(s)'
    BY <1>0, <1>23, <2>1, <2>3, <2>4 DEF InUp, InAgent, InPool, Remembered, ScriptInv,
       Powered, PoolPlaces, Shrinks, CardTaken
  <2>. QED
    BY <2>1, <2>4, <2>5, ShrinksStep
<1>24. CASE PoolDownHead(s)
  <2>1. ScriptInv(s)' /\ pc[s] = "poolDown.head"
    BY <1>0, <1>24, EndsScript DEF PoolDownHead
  <2>2. con' \in {con, WithoutRay("desktop", "gone")}
    <3>1. CASE Linked
      BY <1>24, <3>1, Zenon DEF PoolDownHead
    <3>2. CASE ~Linked
      BY <1>24, <3>2, Zenon DEF PoolDownHead
    <3>. QED
      BY <3>1, <3>2
  <2>4. Shrinks
    <3>1. CASE con' = con
      BY <1>24, <3>1 DEF PoolDownHead, Shrinks, Running
    <3>2. CASE con' = WithoutRay("desktop", "gone")
      BY <1>0, <1>24, <3>2, WithoutRayShrinks DEF PoolDownHead
    <3>. QED
      BY <2>2, <3>1, <3>2
  <2>3. Shrinks /\ UNCHANGED <<link, on>>
    BY <1>24, <2>4 DEF PoolDownHead
  <2>. QED
    BY <2>1, <2>3, ShrinksStep
<1>. QED
  BY <1>1, <1>2, <1>3, <1>4, <1>5, <1>6, <1>7, <1>8, <1>9, <1>10, <1>11, <1>12, <1>13, <1>14,
     <1>15, <1>16, <1>17, <1>18, <1>19, <1>20, <1>21, <1>22, <1>23, <1>24 DEF Step

\* The steps that give a card to someone.
LEMMA GivesStep ==
    ASSUME Undisturbed, IInv, NEW s \in Sessions, pc[s] # "agent.wait", TypeOK',
           CardsInv', ScriptInv(s)',
           Prompt => \A n \in Nodes : con'[n]["agent"] = "starting"
                        => pc'[s] = "agent.wait" /\ at'[s] = n
    PROVE  IInv'
BY DEF IInv, Undisturbed, Waiting

LEMMA GivingStep ==
    ASSUME Undisturbed, IInv, TypeOK', NEW s \in Sessions,
           \/ UpStart(s) \/ AgentUnfit(s) \/ AgentRun(s) \/ AgentWaited(s)
           \/ PoolRestoreLaptop(s) \/ PoolRestoreDesktop(s) \/ PoolHead(s) \/ PoolWorker(s)
    PROVE  IInv'
<1>. USE DEF cards, world
<1>0. TypeOK /\ CardsInv /\ ScriptInv(s) /\ at[s] \in Nodes
  BY DEF IInv, TypeOK
<1>t. con \in [Nodes -> [Containers -> Statuses]] /\ swap \in [Nodes -> BOOLEAN]
  BY <1>0 DEF TypeOK
<1>n. "laptop" \in Nodes /\ "desktop" \in Nodes /\ {"agent", "ray"} \subseteq Containers
      /\ {"gone", "starting"} \subseteq Statuses
  BY DEF Nodes, Containers, Statuses
<1>1. CASE UpStart(s)
  <2>1. ScriptInv(s)' /\ pc[s] = "up.start"
    BY <1>0, <1>1, EndsScript DEF UpStart
  <2>2. ~CardTaken(at[s]) /\ on[at[s]]
    BY <1>0, <2>1 DEF ScriptInv, InUp, Powered
  <2>3. CardsInv'
    BY <1>0, <1>t, <1>1, <2>2 DEF UpStart, StartServing, CardsInv, Exclusive, CardTaken, Running
  <2>. QED
    BY <1>1, <2>1, <2>3, NoneStarting, GivesStep DEF UpStart
<1>2. CASE AgentUnfit(s)
  <2>1. ScriptInv(s)' /\ pc[s] = "agent.fit"
    BY <1>0, <1>2, EndsScript DEF AgentUnfit
  <2>2. (saw[s][at[s]] = "active" => ~CardTaken(at[s])) /\ on[at[s]]
    BY <1>0, <2>1 DEF ScriptInv, Remembered, Powered
  <2>3. CardsInv'
    BY <1>0, <1>t, <1>2, <2>2 DEF AgentUnfit, CardsInv, Exclusive, CardTaken, Running
  <2>. QED
    BY <1>2, <2>1, <2>3, NoneStarting, GivesStep DEF AgentUnfit
<1>3. CASE AgentRun(s)
  <2>1. CASE con[at[s]]["agent"] = "gone"
    <3>1. Goes(s, "agent.run", "agent.wait") /\ con' = With(at[s], "agent", "starting")
      BY <1>3, <2>1, Zenon DEF AgentRun
    <3>2. pc[s] = "agent.run" /\ pc'[s] = "agent.wait" /\ at'[s] = at[s] /\ saw'[s] = saw[s]
      BY <1>0, <3>1, GoesFacts
    <3>3. ~Running(at[s], "ray") /\ ~swap[at[s]] /\ on[at[s]]
      BY <1>0, <3>2 DEF ScriptInv, InAgent, Powered
    <3>4. \A m \in Nodes, d \in Containers :
            con'[m][d] = IF m = at[s] /\ d = "agent" THEN "starting" ELSE con[m][d]
      BY <1>0, <3>1, WithFacts DEF Containers, Statuses
    <3>5. CardsInv'
      BY <1>0, <1>n, <1>3, <3>3, <3>4 DEF AgentRun, CardsInv, Exclusive, CardTaken, Running
    <3>6. ScriptInv(s)'
      BY <1>0, <1>3, <3>2, <3>3 DEF AgentRun, ScriptInv, Powered, PoolPlaces, InUp, InAgent,
         InPool,
                                     Remembered
    <3>. QED
      BY <1>n, <3>2, <3>4, <3>5, <3>6, NoneStarting, GivesStep
  <2>2. CASE con[at[s]]["agent"] # "gone"
    <3>1. Ends(s, "agent.run") /\ UNCHANGED con
      BY <1>3, <2>2, Zenon DEF AgentRun
    <3>2. ScriptInv(s)' /\ pc[s] = "agent.run"
      BY <1>0, <3>1, EndsScript
    <3>3. Shrinks /\ UNCHANGED <<link, on>>
      BY <1>3, <3>1 DEF AgentRun, Shrinks, Running
    <3>. QED
      BY <3>2, <3>3, ShrinksStep
  <2>. QED
    BY <2>1, <2>2
<1>4. CASE AgentWaited(s)
  <2>1. ScriptInv(s)' /\ pc[s] = "agent.wait"
    BY <1>0, <1>4, EndsScript DEF AgentWaited
  <2>2. CardsInv'
    BY <1>0, <1>4 DEF AgentWaited, CardsInv, Exclusive, CardTaken, Running
  <2>3. Prompt => \A n \in Nodes : con'[n]["agent"] # "starting"
    BY <1>4 DEF AgentWaited, IInv, Waiting, Undisturbed, Prompt
  <2>. QED
    BY <2>1, <2>2, <2>3 DEF IInv, Waiting, Undisturbed
<1>5. CASE PoolRestoreLaptop(s)
  <2>1. /\ pc[s] = "pool.restoreLaptop" /\ pc'[s] = "pool.restoreDesktop"
        /\ at'[s] = at[s] /\ saw'[s] = saw[s]
    BY <1>0, <1>5, GoesFacts DEF PoolRestoreLaptop
  <2>2. (saw[s]["laptop"] = "active" => ~CardTaken("laptop")) /\ on["laptop"]
    BY <1>0, <1>n, <2>1 DEF ScriptInv, Remembered, Powered, PoolPlaces
  <2>3. CardsInv'
    BY <1>0, <1>t, <1>5, <2>2 DEF PoolRestoreLaptop, CardsInv, Exclusive, CardTaken, Running
  <2>4. ScriptInv(s)'
    BY <1>0, <1>5, <2>1 DEF PoolRestoreLaptop, ScriptInv, Powered, PoolPlaces, InUp, InAgent,
                             InPool, Remembered, CardTaken, Running
  <2>. QED
    BY <1>5, <2>1, <2>3, <2>4, NoneStarting, GivesStep DEF PoolRestoreLaptop
<1>6. CASE PoolRestoreDesktop(s)
  <2>1. ScriptInv(s)' /\ pc[s] = "pool.restoreDesktop"
    BY <1>0, <1>6, EndsScript DEF PoolRestoreDesktop
  <2>2. (saw[s]["desktop"] = "active" => ~CardTaken("desktop")) /\ on["desktop"]
    BY <1>0, <1>n, <2>1 DEF ScriptInv, Remembered, Powered, PoolPlaces
  <2>3. CardsInv'
    BY <1>0, <1>t, <1>6, <2>2 DEF PoolRestoreDesktop, CardsInv, Exclusive, CardTaken, Running
  <2>. QED
    BY <1>6, <2>1, <2>3, NoneStarting, GivesStep DEF PoolRestoreDesktop
<1>7. CASE PoolHead(s)
  <2>1. pc[s] = "pool.head" /\ pc'[s] = "pool.worker" /\ at'[s] = at[s] /\ saw'[s] = saw[s]
    BY <1>0, <1>7, GoesFacts DEF PoolHead
  <2>2. /\ ~swap["desktop"] /\ (Prompt => ~Running("desktop", "agent"))
        /\ ~swap["laptop"] /\ (Prompt => ~Running("laptop", "agent")) /\ \A n \in Nodes : on[n]
    BY <1>0, <2>1 DEF ScriptInv, InPool, Powered, PoolPlaces
  <2>3. \A m \in Nodes : con'[m]["agent"] = con[m]["agent"]
    BY <1>0, <1>n, <1>7, WithoutRayFacts DEF PoolHead
  <2>4. CardsInv'
    BY <1>0, <1>7, <2>2, <2>3 DEF PoolHead, CardsInv, Exclusive, CardTaken, Running, Nodes
  <2>5. ScriptInv(s)'
    BY <1>0, <1>n, <1>7, <2>1, <2>2, <2>3 DEF PoolHead, ScriptInv, Powered, PoolPlaces, InUp,
                                               InAgent, InPool, Remembered, Running
  <2>. QED
    BY <2>1, <2>3, <2>4, <2>5, NoneStarting, GivesStep
<1>8. CASE PoolWorker(s)
  <2>1. pc[s] = "pool.worker" /\ pc'[s] = "pool.serve" /\ at'[s] = at[s]
    BY <1>0, <1>8, GoesFacts DEF PoolWorker
  <2>2. ~swap["laptop"] /\ (Prompt => ~Running("laptop", "agent")) /\ \A n \in Nodes : on[n]
    BY <1>0, <2>1 DEF ScriptInv, InPool, Powered, PoolPlaces
  <2>3. \A m \in Nodes : /\ con'[m]["agent"] = con[m]["agent"]
                         /\ m # "laptop" => (Running(m, "ray")' => Running(m, "ray"))
    <3>1. con' = WithoutRay("laptop", "starting")
      BY <1>8 DEF PoolWorker
    <3>2. \A m \in Nodes, d \in Containers :
            con'[m][d] =
                IF d # "ray" THEN con[m][d]
                ELSE IF m = "laptop" THEN "starting"
                ELSE IF con[m][d] = "holding" THEN "starting" ELSE con[m][d]
      BY <1>0, <1>n, <3>1, WithoutRayFacts DEF Statuses
    <3>. QED
      BY <1>n, <3>2 DEF Running
  <2>4. CardsInv'
    BY <1>0, <1>8, <2>2, <2>3 DEF PoolWorker, CardsInv, Exclusive, CardTaken, Running, Nodes
  <2>5. ScriptInv(s)'
    BY <1>0, <1>8, <2>1, <2>2 DEF PoolWorker, ScriptInv, Powered, PoolPlaces, InUp, InAgent,
                                   InPool, Remembered
  <2>. QED
    BY <2>1, <2>3, <2>4, <2>5, NoneStarting, GivesStep
<1>. QED
  BY <1>1, <1>2, <1>3, <1>4, <1>5, <1>6, <1>7, <1>8

LEMMA BeginStep ==
    ASSUME Undisturbed, IInv, TypeOK', NEW s \in Sessions, NEW n \in Nodes,
           NEW c \in AllCommands, Begin(s, n, c)
    PROVE  IInv'
<1>1. pc[s] = "idle" /\ pc'[s] = FirstStep[c] /\ at'[s] = n /\ saw'[s] = saw[s] /\ on[n]
  BY DEF Begin, Moves, IInv, TypeOK
<1>2. c # "reload" /\ FirstStep[c] \in {"up.check", "agent.check", "down.swap", "pool.check",
                                        "poolDown.check"}
  BY DEF Begin, Undisturbed, AllCommands, FirstStep
<1>3. Shrinks /\ UNCHANGED <<link, on>>
  BY DEF Begin, Shrinks, Running, cards, world
<1>4. ScriptInv(s)'
  BY <1>1, <1>2, <1>3 DEF Begin, IInv, ScriptInv, Powered, PoolPlaces, InUp, InAgent, InPool,
                          Remembered, CardTaken, Running, cards, world
<1>. QED
  BY <1>1, <1>3, <1>4, ShrinksStep

LEMMA WorldStep ==
    ASSUME Undisturbed, IInv, TypeOK', World
    PROVE  IInv'
<1>. USE DEF Untouched, Statuses
<1>0. TypeOK /\ CardsInv /\ con \in [Nodes -> [Containers -> Statuses]]
  BY DEF IInv, TypeOK
<1>1. ASSUME NEW n \in Nodes, LoadModel(n) PROVE IInv'
  <2>1. Shrinks
    BY <1>0, <1>1, WithFacts DEF LoadModel, Shrinks, Running, Containers
  <2>. QED
    BY <1>1, <2>1, WorldShrinks DEF LoadModel
<1>2. ASSUME NEW n \in Nodes, JobStarts(n) PROVE IInv'
  <2>1. Shrinks
    BY <1>0, <1>2, WithFacts DEF JobStarts, Shrinks, Running, Containers
  <2>. QED
    BY <1>2, <2>1, WorldShrinks DEF JobStarts
<1>3. ASSUME NEW n \in Nodes, NEW c \in Containers, Loads(n, c) PROVE IInv'
  <2>1. Shrinks
    BY <1>0, <1>3, WithFacts DEF Loads, Shrinks, Running, Containers
  <2>. QED
    BY <1>3, <2>1, WorldShrinks DEF Loads
<1>4. ASSUME NEW n \in Nodes, NEW c \in Containers, Dies(n, c) PROVE IInv'
  <2>1. Shrinks
    BY <1>0, <1>4, WithFacts DEF Dies, Shrinks, Running, Containers
  <2>. QED
    BY <1>4, <2>1, WorldShrinks DEF Dies
<1>5. CASE PoolLoads
  <2>1. Shrinks
    BY <1>0, <1>5 DEF PoolLoads, Shrinks, Running, Containers
  <2>. QED
    BY <1>5, <2>1, WorldShrinks DEF PoolLoads
<1>6. CASE EngineDies
  <2>1. Shrinks
    BY <1>0, <1>6 DEF EngineDies, Shrinks, Running, Containers
  <2>. QED
    BY <1>6, <2>1, WorldShrinks DEF EngineDies
<1>7. ASSUME NEW n \in Nodes, PowerOff(n) PROVE IInv'
  <2>1. \A s \in Sessions : pc[s] = "idle" /\ pc'[s] = "idle"
    BY <1>0, <1>7 DEF PowerOff, PowerMayChange, Undisturbed, TypeOK
  <2>2. \A m \in Nodes : /\ con'[m] = IF m = n THEN Stopped(n) ELSE WithoutRay(n, "gone")[m]
                         /\ swap'[m] = (m # n /\ swap[m]) /\ on'[m] = (m # n /\ on[m])
    <3>1. WithoutRay(n, "gone") \in [Nodes -> [Containers -> Statuses]]
      BY <1>0, <1>7, WithoutRayFacts
    <3>2. con' = [WithoutRay(n, "gone") EXCEPT ![n] = Stopped(n)]
      BY <1>7 DEF PowerOff
    <3>3. \A m \in Nodes : con'[m] = IF m = n THEN Stopped(n) ELSE WithoutRay(n, "gone")[m]
      BY <3>1, <3>2
    <3>4. swap' = [swap EXCEPT ![n] = FALSE] /\ on' = [on EXCEPT ![n] = FALSE]
      BY <1>7 DEF PowerOff
    <3>5. swap \in [Nodes -> BOOLEAN] /\ on \in [Nodes -> BOOLEAN]
      BY <1>0 DEF TypeOK
    <3>. QED
      BY <3>3, <3>4, <3>5
  <2>3. Shrinks /\ (\A m \in Nodes : m = n => ~swap'[m] /\ ~CardTaken(m)')
    <3>1. Stopped(n)["agent"] \notin {"starting", "holding"} /\ Stopped(n)["ray"] = "gone"
      BY DEF Stopped, Containers
    <3>2. \A m \in Nodes : m # n =>
            /\ con'[m]["agent"] = con[m]["agent"]
            /\ con'[m]["ray"] \in {"starting", "holding"} => con[m]["ray"] \in {"starting", "holding"}
      BY <1>0, <2>2, WithoutRayFacts DEF Containers
    <3>. QED
      BY <2>2, <3>1, <3>2 DEF Shrinks, Running, CardTaken
  <2>4. CardsInv'
    BY <1>0, <1>7, <2>2, <2>3 DEF PowerOff, CardsInv, Exclusive, Shrinks, CardTaken
  <2>5. Waiting'
    BY <2>1, <2>3 DEF IInv, Waiting, Shrinks
  <2>6. ASSUME NEW s \in Sessions PROVE ScriptInv(s)'
    <3>1. \A m \in Nodes : saw'[s][m] = "active" => saw[s][m] = "active"
      BY <1>0, <1>7 DEF PowerOff, Forgotten, Nothing
    <3>2. Remembered(s)'
      BY <2>1, <2>3, <3>1 DEF IInv, ScriptInv, Remembered, Shrinks, CardTaken
    <3>. QED
      BY <2>1, <3>2 DEF ScriptInv, Powered, PoolPlaces, InUp, InAgent, InPool
  <2>. QED
    BY <2>4, <2>5, <2>6 DEF IInv
<1>8. ASSUME NEW n \in Nodes, Boots(n) PROVE IInv'
  <2>1. \A s \in Sessions : pc[s] = "idle" /\ pc'[s] = "idle" /\ saw'[s] = saw[s]
    BY <1>0, <1>8 DEF Boots, PowerMayChange, Undisturbed, session
  <2>2. ~on[n] /\ ~CardTaken(n) /\ UNCHANGED con
    BY <1>0, <1>8 DEF Boots, CardsInv
  <2>3. CardsInv'
    BY <1>0, <1>8, <2>2 DEF Boots, CardsInv, Exclusive, CardTaken, Running, TypeOK
  <2>4. Waiting'
    BY <2>1, <2>2 DEF IInv, Waiting
  <2>5. ASSUME NEW s \in Sessions PROVE ScriptInv(s)'
    BY <2>1, <2>2 DEF IInv, ScriptInv, Powered, PoolPlaces, InUp, InAgent, InPool, Remembered,
                      CardTaken, Running
  <2>. QED
    BY <2>3, <2>4, <2>5 DEF IInv
<1>9. ~LinkFlips
  BY DEF LinkFlips, Undisturbed
<1>. QED
  BY <1>1, <1>2, <1>3, <1>4, <1>5, <1>6, <1>7, <1>8, <1>9 DEF World

LEMMA IInvStep ==
    ASSUME Undisturbed, IInv, [Next]_vars
    PROVE  IInv'
<1>0. TypeOK
  BY DEF IInv
<1>1. CASE World
  BY <1>0, <1>1, WorldTypeStep, WorldStep
<1>2. ASSUME NEW s \in Sessions, Step(s) PROVE IInv'
  <2>1. TypeOK'
    BY <1>0, <1>2, StepType
  <2>. QED
    BY <1>2, <2>1, QuietStep, GivingStep
<1>3. ASSUME NEW s \in Sessions, NEW n \in Nodes, NEW c \in AllCommands, Begin(s, n, c) PROVE IInv'
  BY <1>0, <1>3, BeginType, BeginStep
<1>4. ASSUME NEW s \in Sessions PROVE ~Kill(s)
  BY DEF Kill, Undisturbed
<1>5. CASE UNCHANGED vars
  <2>1. Shrinks /\ TypeOK' /\ UNCHANGED <<world, pc, session>>
    BY <1>0, <1>5 DEF vars, cards, world, session, Shrinks, Running, TypeOK
  <2>. QED
    BY <2>1, WorldShrinks
<1>. QED
  BY <1>1, <1>2, <1>3, <1>4, <1>5 DEF Next, Command

\* With one terminal and nothing that disturbs it, llama-swap is on no card that
\* the agent model or the pool runs on, however long an engine takes to start
\* (bin/lab 32-37, 112-118).
THEOREM ServingAloneHolds ==
    ASSUME Undisturbed
    PROVE  Spec => []ServingAlone
<1>1. Init => IInv
  BY InitIInv, InitType DEF IInv
<1>2. IInv /\ [Next]_vars => IInv'
  BY IInvStep
<1>3. IInv => ServingAlone
  BY DEF IInv, CardsInv, Exclusive, ServingAlone
<1>. QED
  BY <1>1, <1>2, <1>3, PTL DEF Spec

\* If moreover no engine is still starting when agent_up gives up on it, then
\* llama-swap, the agent model and the pool never hold a card together, on either
\* node (bin/lab 32-37, 117).
THEOREM OneHolderHolds ==
    ASSUME Undisturbed, Prompt
    PROVE  Spec => []OneHolder
<1>1. Init => IInv
  BY InitIInv, InitType DEF IInv
<1>2. IInv /\ [Next]_vars => IInv'
  BY IInvStep
<1>3. IInv => OneHolder
  <2>. SUFFICES ASSUME IInv, NEW n \in Nodes, NEW p \in Planes, NEW q \in Planes,
                       Has(n, p), Has(n, q)
                PROVE  p = q
    BY DEF OneHolder
  <2>1. Exclusive(n)
    BY DEF IInv, CardsInv
  <2>2. /\ Has(n, "serving") <=> swap[n]
        /\ Has(n, "agent") <=> Running(n, "agent")
        /\ Has(n, "pool") <=> Running(n, "ray")
    BY DEF Has
  <2>3. /\ ~(Has(n, "serving") /\ Has(n, "agent")) /\ ~(Has(n, "serving") /\ Has(n, "pool"))
        /\ ~(Has(n, "agent") /\ Has(n, "pool"))
    BY <2>1, <2>2 DEF Exclusive, CardTaken
  <2>4. CASE p = "serving"
    BY <2>3, <2>4, Zenon DEF Planes
  <2>5. CASE p = "agent"
    BY <2>3, <2>5, Zenon DEF Planes
  <2>6. CASE p = "pool"
    BY <2>3, <2>6, Zenon DEF Planes
  <2>. QED
    BY <2>4, <2>5, <2>6 DEF Planes
<1>. QED
  BY <1>1, <1>2, <1>3, PTL DEF Spec

-----------------------------------------------------------------------------
(* lab down, with every fault there is, but from one terminal.              *)

OneSession == \A s, t \in Sessions : s = t

\* What lab down has taken from its node stays away until it says so.
DownInv(s) ==
    /\ pc[s] # "idle" => on[at[s]]
    /\ pc[s] \in {"down.sweep", "down.boot"} => ~swap[at[s]] /\ con[at[s]]["model"] = "gone"
    /\ pc[s] = "down.boot" => ~CardTaken(at[s])

DInv == TypeOK /\ \A s \in Sessions : DownInv(s)

\* The other steps of scripts lead elsewhere.
LEMMA Elsewhere ==
    ASSUME TypeOK, NEW s \in Sessions, Step(s), ~DownSwap(s), ~DownSweep(s)
    PROVE  /\ pc[s] # "idle" /\ pc'[s] \notin {"down.sweep", "down.boot"} /\ on' = on
           /\ pc'[s] = "idle" \/ at'[s] = at[s]
<1>. USE DEF TypeOK, Goes, Ends, Moves, session, world
<1>1. CASE UpRefused(s) \/ UpAllowed(s) \/ UpStart(s) \/ Reload(s) \/ DownEnds(s)
  BY <1>1 DEF UpRefused, UpAllowed, UpStart, Reload, DownEnds
<1>2. CASE AgentRefused(s) \/ AgentAllowed(s) \/ AgentStop(s) \/ AgentRemove(s)
  BY <1>2 DEF AgentRefused, AgentAllowed, AgentStop, AgentRemove
<1>3. CASE AgentUnfit(s) \/ AgentFits(s) \/ AgentWaited(s)
  BY <1>3 DEF AgentUnfit, AgentFits, AgentWaited
<1>4. CASE AgentRun(s)
  <2>1. Goes(s, "agent.run", "agent.wait") \/ Ends(s, "agent.run")
    BY <1>4, Zenon DEF AgentRun
  <2>. QED
    BY <1>4, <2>1 DEF AgentRun
<1>5. CASE PoolRefused(s) \/ PoolAllowed(s) \/ PoolStopLaptop(s) \/ PoolFitsLaptop(s)
  BY <1>5 DEF PoolRefused, PoolAllowed, PoolStopLaptop, PoolFitsLaptop
<1>6. CASE PoolAskDesktop(s) \/ PoolStopDesktop(s) \/ PoolFitsDesktop(s)
  BY <1>6 DEF PoolAskDesktop, PoolStopDesktop, PoolFitsDesktop
<1>7. CASE PoolTotalDesktop(s)
  <2>1. Goes(s, "pool.totalDesktop", "pool.fitDesktop") \/ Ends(s, "pool.totalDesktop")
    BY <1>7, Zenon DEF PoolTotalDesktop
  <2>. QED
    BY <1>7, <2>1 DEF PoolTotalDesktop
<1>8. CASE PoolRestoreLaptop(s) \/ PoolRestoreDesktop(s) \/ PoolHead(s) \/ PoolWorker(s)
  BY <1>8 DEF PoolRestoreLaptop, PoolRestoreDesktop, PoolHead, PoolWorker
<1>9. CASE PoolServe(s) \/ PoolEnds(s) \/ PoolDownRefused(s) \/ PoolDownWorker(s) \/ PoolDownHead(s)
  BY <1>9 DEF PoolServe, PoolEnds, PoolDownRefused, PoolDownWorker, PoolDownHead
<1>. QED
  BY <1>1, <1>2, <1>3, <1>4, <1>5, <1>6, <1>7, <1>8, <1>9 DEF Step

LEMMA StepDown ==
    ASSUME DInv, NEW s \in Sessions, Step(s)
    PROVE  DownInv(s)'
<1>. USE DEF cards, world
<1>0. TypeOK /\ DownInv(s) /\ at[s] \in Nodes /\ swap \in [Nodes -> BOOLEAN]
  BY DEF DInv, TypeOK
<1>1. CASE DownSwap(s)
  <2>1. pc[s] = "down.swap" /\ pc'[s] = "down.sweep" /\ at'[s] = at[s]
    BY <1>0, <1>1, GoesFacts DEF DownSwap
  <2>2. ~swap'[at[s]] /\ con'[at[s]]["model"] = "gone"
    BY <1>0, <1>1, WithFacts DEF DownSwap, StopServing, Containers, Statuses
  <2>. QED
    BY <1>0, <1>1, <2>1, <2>2 DEF DownSwap, DownInv
<1>2. CASE DownSweep(s)
  <2>1. pc[s] = "down.sweep" /\ pc'[s] = "down.boot" /\ at'[s] = at[s]
    BY <1>0, <1>2, GoesFacts DEF DownSweep
  <2>2. con'[at[s]] = Stopped(at[s])
    <3>1. WithoutRay(at[s], "gone") \in [Nodes -> [Containers -> Statuses]]
      BY <1>0, WithoutRayFacts DEF Statuses
    <3>. QED
      BY <1>0, <1>2, <3>1 DEF DownSweep
  <2>3. con'[at[s]]["model"] = "gone" /\ ~(CardTaken(at[s])')
    BY <2>1, <2>2 DEF Stopped, Containers, CardTaken, Running
  <2>. QED
    BY <1>0, <1>2, <2>1, <2>3 DEF DownSweep, DownInv
<1>3. CASE ~DownSwap(s) /\ ~DownSweep(s)
  BY <1>0, <1>3, Elsewhere DEF DownInv
<1>. QED
  BY <1>1, <1>2, <1>3

\* What goes on besides the commands loads no model where llama-swap is down,
\* and starts no agent and no pool.
LEMMA WorldDown ==
    ASSUME DInv, NEW s \in Sessions, World
    PROVE  DownInv(s)'
<1>. USE DEF Untouched, world, session
<1>0. TypeOK /\ DownInv(s) /\ at[s] \in Nodes /\ con \in [Nodes -> [Containers -> Statuses]]
  BY DEF DInv, TypeOK
<1>1. ASSUME UNCHANGED <<swap, on, pc, at>>,
             swap[at[s]] \/ con'[at[s]]["model"] = con[at[s]]["model"]
               \/ con'[at[s]]["model"] = "gone" \/ con[at[s]]["model"] = "starting",
             CardTaken(at[s])' => CardTaken(at[s])
      PROVE  DownInv(s)'
  BY <1>0, <1>1 DEF DownInv
<1>. USE DEF Statuses, Containers, CardTaken, Running
<1>2. ASSUME NEW n \in Nodes, LoadModel(n) \/ JobStarts(n) PROVE DownInv(s)'
  <2>1. CASE LoadModel(n)
    BY <1>0, <1>1, <2>1, WithFacts DEF LoadModel
  <2>2. CASE JobStarts(n)
    BY <1>0, <1>1, <2>2, WithFacts DEF JobStarts
  <2>. QED
    BY <1>2, <2>1, <2>2
<1>3. ASSUME NEW n \in Nodes, NEW c \in Containers, Loads(n, c) PROVE DownInv(s)'
  BY <1>0, <1>1, <1>3, WithFacts DEF Loads
<1>4. ASSUME NEW n \in Nodes, NEW c \in Containers, Dies(n, c) PROVE DownInv(s)'
  BY <1>0, <1>1, <1>4, WithFacts DEF Dies
<1>5. CASE PoolLoads
  BY <1>0, <1>1, <1>5 DEF PoolLoads
<1>6. CASE EngineDies
  BY <1>0, <1>1, <1>6 DEF EngineDies
<1>7. CASE LinkFlips
  BY <1>0, <1>1, <1>7 DEF LinkFlips, cards
<1>8. ASSUME NEW n \in Nodes, PowerOff(n) PROVE DownInv(s)'
  <2>1. CASE at[s] = n
    BY <1>0, <1>8, <2>1 DEF PowerOff, DownInv
  <2>2. CASE at[s] # n
    <3>1. /\ pc'[s] = pc[s] /\ at'[s] = at[s] /\ swap'[at[s]] = swap[at[s]] /\ on'[at[s]] = on[at[s]]
      BY <1>0, <1>8, <2>2 DEF PowerOff, Forgotten, TypeOK
    <3>2. con'[at[s]] = WithoutRay(n, "gone")[at[s]]
      <4>1. WithoutRay(n, "gone") \in [Nodes -> [Containers -> Statuses]]
        BY <1>0, <1>8, WithoutRayFacts
      <4>. QED
        BY <1>0, <1>8, <2>2, <4>1 DEF PowerOff
    <3>3. con'[at[s]]["model"] = con[at[s]]["model"] /\ (CardTaken(at[s])' => CardTaken(at[s]))
      BY <1>0, <1>8, <2>2, <3>1, <3>2, WithoutRayFacts
    <3>. QED
      BY <1>0, <3>1, <3>3 DEF DownInv
  <2>. QED
    BY <2>1, <2>2
<1>9. ASSUME NEW n \in Nodes, Boots(n) PROVE DownInv(s)'
  BY <1>0, <1>9 DEF Boots, DownInv, TypeOK
<1>. QED
  BY <1>2, <1>3, <1>4, <1>5, <1>6, <1>7, <1>8, <1>9 DEF World

\* After lab down, llama-swap, its model, the agent model and the pool are gone
\* from the node: with cables that drop, kills, power cuts and reloads.
THEOREM DownFreesCardHolds ==
    ASSUME OneSession
    PROVE  Spec => DownFreesCard
<1>1. Init => DInv
  <2>1. Init => \A s \in Sessions : DownInv(s)
    BY DEF Init, DownInv
  <2>. QED
    BY <2>1, InitType DEF DInv
<1>2. DInv /\ [Next]_vars => DInv'
  <2>. SUFFICES ASSUME DInv, [Next]_vars PROVE DInv'
    OBVIOUS
  <2>0. TypeOK
    BY DEF DInv
  <2>1. CASE World
    BY <2>0, <2>1, WorldTypeStep, WorldDown DEF DInv
  <2>2. ASSUME NEW s \in Sessions, Step(s) PROVE DInv'
    BY <2>0, <2>2, StepType, StepDown DEF DInv, OneSession
  <2>3. ASSUME NEW s \in Sessions, Kill(s) PROVE DInv'
    <3>1. TypeOK' /\ pc'[s] = "idle"
      BY <2>0, <2>3, KillType DEF Kill, Ends, Moves, TypeOK
    <3>2. DownInv(s)'
      BY <3>1 DEF DownInv
    <3>. QED
      BY <3>1, <3>2 DEF DInv, OneSession
  <2>4. ASSUME NEW s \in Sessions, NEW n \in Nodes, NEW c \in AllCommands, Begin(s, n, c)
        PROVE  DInv'
    <3>1. TypeOK'
      BY <2>0, <2>4, BeginType
    <3>2. pc'[s] \notin {"down.sweep", "down.boot"} /\ at'[s] = n /\ on'[n]
      BY <2>0, <2>4 DEF Begin, Moves, FirstStep, AllCommands, TypeOK, world
    <3>3. DownInv(s)'
      BY <3>2 DEF DownInv
    <3>. QED
      BY <3>1, <3>3 DEF DInv, OneSession
  <2>5. CASE UNCHANGED vars
    BY <2>5 DEF DInv, DownInv, TypeOK, CardTaken, Running, vars, cards, world, session
  <2>. QED
    BY <2>1, <2>2, <2>3, <2>4, <2>5 DEF Next, Command
<1>3. DInv /\ DInv' /\ [Next]_vars
        => [\A s \in Sessions : (pc[s] = "down.boot" /\ pc'[s] = "idle")
              => \A p \in Planes : ~Has(at[s], p) /\ ~Running(at[s], "model")]_vars
  <2>. SUFFICES ASSUME DInv, NEW s \in Sessions, pc[s] = "down.boot"
                PROVE  \A p \in Planes : ~Has(at[s], p) /\ ~Running(at[s], "model")
    OBVIOUS
  <2>1. DownInv(s)
    BY DEF DInv
  <2>2. /\ Has(at[s], "serving") <=> swap[at[s]]
        /\ Has(at[s], "agent") <=> Running(at[s], "agent")
        /\ Has(at[s], "pool") <=> Running(at[s], "ray")
    BY DEF Has
  <2>3. /\ ~Has(at[s], "serving") /\ ~Has(at[s], "agent") /\ ~Has(at[s], "pool")
        /\ ~Running(at[s], "model")
    BY <2>1, <2>2 DEF DownInv, CardTaken, Running
  <2>. QED
    BY <2>3, Zenon DEF Planes
<1>. QED
  BY <1>1, <1>2, <1>3, PTL DEF Spec, DownFreesCard

-----------------------------------------------------------------------------
(* A refusal, with power cuts and reloads between the commands: what the    *)
(* script has stopped it remembers as active until it is started again.     *)

Uninterrupted == OneSession /\ ~LinkFails /\ ~Kills

Checks == {"agent.check", "pool.check"}
InAgentUp == {"agent.stop", "agent.remove", "agent.fit"}
InPoolUp == {"pool.stopLaptop", "pool.fitLaptop", "pool.askDesktop", "pool.stopDesktop",
             "pool.totalDesktop", "pool.fitDesktop", "pool.restoreLaptop", "pool.restoreDesktop"}
Refusable == Checks \union InAgentUp \union InPoolUp

WasActive(s, n) == saw[s][n] = "active"

Recalls(s) ==
    /\ pc[s] \in Refusable => \A n \in Nodes : swap[n] \/ WasActive(s, n) <=> found[s][n] = "active"
    /\ pc[s] \in {"idle", "agent.check", "agent.stop", "pool.check", "pool.stopLaptop"}
          => \A n \in Nodes : ~WasActive(s, n)
    /\ pc[s] \in {"agent.remove", "agent.fit"} => \A n \in Nodes : WasActive(s, n) => n = at[s]
    /\ pc[s] \in {"pool.fitLaptop", "pool.askDesktop"} => ~WasActive(s, "desktop")
    /\ pc[s] = "pool.stopDesktop" => (swap["desktop"] => WasActive(s, "desktop"))
    /\ pc[s] = "pool.restoreDesktop" => (WasActive(s, "laptop") => swap["laptop"])
    /\ pc[s] \in InPoolUp => Linked

RInv == TypeOK /\ \A s \in Sessions : Recalls(s)

LEMMA EndsRecalls ==
    ASSUME TypeOK, NEW s \in Sessions, NEW from, Ends(s, from)
    PROVE  Recalls(s)'
<1>1. pc'[s] = "idle" /\ \A n \in Nodes : saw'[s][n] = "unknown"
  BY DEF Ends, Moves, Forgotten, Nothing, TypeOK
<1>2. "idle" \notin Refusable /\ "idle" \notin InPoolUp
  BY DEF Refusable, Checks, InAgentUp, InPoolUp
<1>. QED
  BY <1>1, <1>2 DEF Recalls, WasActive

LEMMA LeavesRecalls ==
    ASSUME NEW s \in Sessions, pc'[s] \notin Refusable, pc'[s] # "idle"
    PROVE  Recalls(s)'
BY DEF Recalls, Refusable, Checks, InAgentUp, InPoolUp

\* Where a script goes on with both llama-swaps as they were.
LEMMA SameRecalls ==
    ASSUME TypeOK, NEW s \in Sessions, NEW from, NEW to, Goes(s, from, to),
           UNCHANGED <<swap, link, on>>
    PROVE  /\ pc[s] = from /\ pc'[s] = to /\ at'[s] = at[s] /\ found'[s] = found[s]
           /\ \A n \in Nodes : swap'[n] = swap[n] /\ (WasActive(s, n)' <=> WasActive(s, n))
           /\ Linked' <=> Linked
BY DEF Goes, Moves, session, TypeOK, WasActive, Linked

LEMMA AgentRecalls ==
    ASSUME RInv, NEW s \in Sessions, AgentAllowed(s) \/ AgentStop(s) \/ AgentRemove(s)
    PROVE  Recalls(s)'
<1>. USE DEF cards, world, Refusable, Checks, InAgentUp, InPoolUp
<1>1. TypeOK /\ Recalls(s) /\ at[s] \in Nodes /\ swap \in [Nodes -> BOOLEAN]
  BY DEF RInv, TypeOK
<1>2. CASE AgentAllowed(s)
  <2>1. Goes(s, "agent.check", "agent.stop") /\ UNCHANGED <<swap, link, on>>
    BY <1>2 DEF AgentAllowed
  <2>. QED
    BY <1>1, <2>1, SameRecalls DEF Recalls
<1>3. CASE AgentStop(s)
  <2>1. /\ pc[s] = "agent.stop" /\ pc'[s] = "agent.remove" /\ at'[s] = at[s] /\ found'[s] = found[s]
        /\ \A n \in Nodes : saw'[s][n] = IF n = at[s] THEN IsActive(n) ELSE saw[s][n]
        /\ \A n \in Nodes : swap'[n] = IF n = at[s] THEN FALSE ELSE swap[n]
    BY <1>1, <1>3 DEF AgentStop, Moves, StopServing, TypeOK
  <2>2. \A n \in Nodes : WasActive(s, n)' <=> (n = at[s] /\ swap[n])
    BY <1>1, <2>1 DEF Recalls, WasActive, IsActive
  <2>. QED
    BY <1>1, <2>1, <2>2 DEF Recalls
<1>4. CASE AgentRemove(s)
  <2>1. Goes(s, "agent.remove", "agent.fit") /\ UNCHANGED <<swap, link, on>>
    BY <1>4 DEF AgentRemove
  <2>. QED
    BY <1>1, <2>1, SameRecalls DEF Recalls
<1>. QED
  BY <1>2, <1>3, <1>4

LEMMA PoolRecalls ==
    ASSUME RInv, NEW s \in Sessions,
           \/ PoolAllowed(s) \/ PoolStopLaptop(s) \/ PoolFitsLaptop(s) \/ PoolAskDesktop(s)
           \/ PoolStopDesktop(s) \/ PoolTotalDesktop(s) \/ PoolFitsDesktop(s) \/ PoolRestoreLaptop(s)
    PROVE  Recalls(s)'
<1>. USE DEF cards, world, Refusable, Checks, InAgentUp, InPoolUp
<1>1. TypeOK /\ Recalls(s) /\ swap \in [Nodes -> BOOLEAN]
  BY DEF RInv, TypeOK
<1>n. "laptop" \in Nodes /\ "desktop" \in Nodes /\ \A n \in Nodes : n = "laptop" \/ n = "desktop"
  BY DEF Nodes
<1>2. CASE PoolAllowed(s)
  <2>1. Goes(s, "pool.check", "pool.stopLaptop") /\ UNCHANGED <<swap, link, on>> /\ Linked
    BY <1>2 DEF PoolAllowed
  <2>. QED
    BY <1>1, <2>1, SameRecalls DEF Recalls
<1>3. CASE PoolStopLaptop(s)
  <2>1. /\ pc[s] = "pool.stopLaptop" /\ pc'[s] = "pool.fitLaptop" /\ found'[s] = found[s]
        /\ \A n \in Nodes : saw'[s][n] = IF n = "laptop" THEN IsActive(n) ELSE saw[s][n]
        /\ \A n \in Nodes : swap'[n] = IF n = "laptop" THEN FALSE ELSE swap[n]
        /\ UNCHANGED <<link, on>>
    BY <1>1, <1>n, <1>3 DEF PoolStopLaptop, Moves, StopServing, TypeOK
  <2>2. \A n \in Nodes : WasActive(s, n)' <=> (n = "laptop" /\ swap[n])
    BY <1>1, <2>1 DEF Recalls, WasActive, IsActive
  <2>3. Linked /\ Linked'
    BY <1>1, <2>1 DEF Recalls, Linked
  <2>. QED
    BY <1>1, <1>n, <2>1, <2>2, <2>3 DEF Recalls
<1>4. CASE PoolFitsLaptop(s)
  <2>1. PICK to \in {"pool.askDesktop", "pool.restoreLaptop"} : Goes(s, "pool.fitLaptop", to)
    BY <1>4 DEF PoolFitsLaptop
  <2>2. UNCHANGED <<swap, link, on>>
    BY <1>4 DEF PoolFitsLaptop
  <2>3. /\ pc[s] = "pool.fitLaptop" /\ pc'[s] = to /\ found'[s] = found[s] /\ (Linked' <=> Linked)
        /\ \A n \in Nodes : swap'[n] = swap[n] /\ (WasActive(s, n)' <=> WasActive(s, n))
    BY <1>1, <2>1, <2>2, SameRecalls
  <2>4. CASE to = "pool.askDesktop"
    BY <1>1, <1>n, <2>3, <2>4 DEF Recalls
  <2>5. CASE to = "pool.restoreLaptop"
    BY <1>1, <2>3, <2>5 DEF Recalls
  <2>. QED
    BY <2>1, <2>4, <2>5
<1>5. CASE PoolAskDesktop(s)
  <2>1. /\ pc[s] = "pool.askDesktop" /\ pc'[s] = "pool.stopDesktop" /\ found'[s] = found[s]
        /\ UNCHANGED <<swap, link, on>>
    BY <1>1, <1>5 DEF PoolAskDesktop, Moves, TypeOK
  <2>2. Linked /\ Linked'
    BY <1>1, <2>1 DEF Recalls, Linked
  <2>3. \A n \in Nodes : saw'[s][n] = IF n = "desktop" THEN IsActive(n) ELSE saw[s][n]
    BY <1>1, <1>5, <2>2 DEF PoolAskDesktop, TypeOK
  <2>4. /\ WasActive(s, "desktop")' <=> swap["desktop"]
        /\ WasActive(s, "laptop")' <=> WasActive(s, "laptop")
    BY <1>n, <2>3 DEF WasActive, IsActive
  <2>. QED
    BY <1>1, <1>n, <2>1, <2>2, <2>4 DEF Recalls
<1>6. CASE PoolStopDesktop(s)
  <2>1. /\ Goes(s, "pool.stopDesktop", "pool.totalDesktop") /\ UNCHANGED <<link, on>>
        /\ \A n \in Nodes : swap'[n] = swap[n] \/ (n = "desktop" /\ ~swap'[n])
    BY <1>1, <1>6, Zenon DEF PoolStopDesktop, StopServing
  <2>2. /\ pc[s] = "pool.stopDesktop" /\ pc'[s] = "pool.totalDesktop" /\ found'[s] = found[s]
        /\ \A n \in Nodes : WasActive(s, n)' <=> WasActive(s, n)
    BY <1>1, <2>1 DEF Goes, Moves, session, TypeOK, WasActive
  <2>3. Linked /\ Linked'
    BY <1>1, <2>1, <2>2 DEF Recalls, Linked
  <2>. QED
    BY <1>1, <1>n, <2>1, <2>2, <2>3 DEF Recalls
<1>7. CASE PoolTotalDesktop(s)
  <2>1. Goes(s, "pool.totalDesktop", "pool.fitDesktop") \/ Ends(s, "pool.totalDesktop")
    BY <1>7, Zenon DEF PoolTotalDesktop
  <2>2. UNCHANGED <<swap, link, on>>
    BY <1>7 DEF PoolTotalDesktop
  <2>3. CASE Goes(s, "pool.totalDesktop", "pool.fitDesktop")
    BY <1>1, <2>2, <2>3, SameRecalls DEF Recalls
  <2>. QED
    BY <1>1, <2>1, <2>3, EndsRecalls
<1>8. CASE PoolFitsDesktop(s)
  <2>1. PICK to \in {"pool.restoreLaptop", "pool.head"} : Goes(s, "pool.fitDesktop", to)
    BY <1>8 DEF PoolFitsDesktop
  <2>2. UNCHANGED <<swap, link, on>>
    BY <1>8 DEF PoolFitsDesktop
  <2>. QED
    BY <1>1, <2>1, <2>2, SameRecalls DEF Recalls
<1>9. CASE PoolRestoreLaptop(s)
  <2>1. /\ Goes(s, "pool.restoreLaptop", "pool.restoreDesktop") /\ UNCHANGED <<link, on>>
        /\ swap'["desktop"] = swap["desktop"]
        /\ swap'["laptop"] <=> swap["laptop"] \/ WasActive(s, "laptop")
    BY <1>1, <1>n, <1>9 DEF PoolRestoreLaptop, WasActive
  <2>2. /\ pc[s] = "pool.restoreLaptop" /\ pc'[s] = "pool.restoreDesktop" /\ found'[s] = found[s]
        /\ \A n \in Nodes : WasActive(s, n)' <=> WasActive(s, n)
    BY <1>1, <2>1 DEF Goes, Moves, session, TypeOK, WasActive
  <2>3. Linked /\ Linked'
    BY <1>1, <2>1, <2>2 DEF Recalls, Linked
  <2>. QED
    BY <1>1, <1>n, <2>1, <2>2, <2>3 DEF Recalls
<1>. QED
  BY <1>2, <1>3, <1>4, <1>5, <1>6, <1>7, <1>8, <1>9

LEMMA StepRecalls ==
    ASSUME RInv, NEW s \in Sessions, Step(s)
    PROVE  Recalls(s)'
<1>1. TypeOK
  BY DEF RInv
<1>2. ASSUME NEW from, Ends(s, from) PROVE Recalls(s)'
  BY <1>1, <1>2, EndsRecalls
<1>3. ASSUME NEW from, NEW to, Goes(s, from, to), to \notin Refusable, to # "idle" PROVE Recalls(s)'
  <2>1. pc'[s] = to
    BY <1>1, <1>3, GoesFacts
  <2>. QED
    BY <1>3, <2>1, LeavesRecalls
<1>4. CASE UpRefused(s) \/ UpStart(s) \/ Reload(s) \/ DownEnds(s)
  BY <1>2, <1>4 DEF UpRefused, UpStart, Reload, DownEnds
<1>5. CASE AgentRefused(s) \/ AgentUnfit(s) \/ AgentWaited(s)
  BY <1>2, <1>5 DEF AgentRefused, AgentUnfit, AgentWaited
<1>6. CASE PoolRefused(s) \/ PoolRestoreDesktop(s) \/ PoolEnds(s) \/ PoolDownRefused(s) \/ PoolDownHead(s)
  BY <1>2, <1>6 DEF PoolRefused, PoolRestoreDesktop, PoolEnds, PoolDownRefused, PoolDownHead
<1>7. /\ "up.start" \notin Refusable /\ "down.sweep" \notin Refusable /\ "down.boot" \notin Refusable
      /\ "agent.run" \notin Refusable /\ "agent.wait" \notin Refusable /\ "pool.worker" \notin Refusable
      /\ "pool.serve" \notin Refusable /\ "pool.wait" \notin Refusable
      /\ "poolDown.head" \notin Refusable
  BY DEF Refusable, Checks, InAgentUp, InPoolUp
<1>8. CASE UpAllowed(s) \/ DownSwap(s) \/ DownSweep(s) \/ AgentFits(s)
  BY <1>3, <1>7, <1>8 DEF UpAllowed, DownSwap, DownSweep, AgentFits
<1>9. CASE PoolHead(s) \/ PoolWorker(s) \/ PoolServe(s) \/ PoolDownWorker(s)
  BY <1>3, <1>7, <1>9 DEF PoolHead, PoolWorker, PoolServe, PoolDownWorker
<1>10. CASE AgentRun(s)
  <2>1. Goes(s, "agent.run", "agent.wait") \/ Ends(s, "agent.run")
    BY <1>10, Zenon DEF AgentRun
  <2>. QED
    BY <1>2, <1>3, <1>7, <2>1
<1>. QED
  BY <1>4, <1>5, <1>6, <1>8, <1>9, <1>10, AgentRecalls, PoolRecalls DEF Step

LEMMA WorldRecalls ==
    ASSUME Uninterrupted, RInv, World, NEW s \in Sessions
    PROVE  Recalls(s)'
<1>1. TypeOK /\ Recalls(s)
  BY DEF RInv
<1>2. CASE UNCHANGED <<swap, link, on, pc, session>>
  BY <1>1, <1>2 DEF Recalls, WasActive, Linked, session
<1>3. ASSUME NEW n \in Nodes, PowerOff(n) \/ Boots(n) PROVE Recalls(s)'
  <2>1. pc[s] = "idle" /\ pc'[s] = "idle"
    BY <1>1, <1>3 DEF PowerOff, Boots, PowerMayChange, Uninterrupted, TypeOK
  <2>2. \A m \in Nodes : ~WasActive(s, m)
    BY <1>1, <2>1 DEF Recalls
  <2>3. \A m \in Nodes : saw'[s][m] = saw[s][m] \/ saw'[s][m] = "unknown"
    BY <1>3 DEF PowerOff, Boots, Forgotten, Nothing, session
  <2>4. \A m \in Nodes : ~WasActive(s, m)'
    BY <2>2, <2>3 DEF WasActive
  <2>5. "idle" \notin Refusable /\ "idle" \notin InPoolUp
    BY DEF Refusable, Checks, InAgentUp, InPoolUp
  <2>. QED
    BY <2>1, <2>4, <2>5 DEF Recalls
<1>4. ~LinkFlips
  BY DEF LinkFlips, Uninterrupted
<1>. QED
  BY <1>2, <1>3, <1>4
     DEF World, LoadModel, JobStarts, Loads, Dies, PoolLoads, EngineDies, Untouched, world

LEMMA BeginRecalls ==
    ASSUME RInv, NEW s \in Sessions, NEW n \in Nodes, NEW c \in AllCommands, Begin(s, n, c)
    PROVE  Recalls(s)'
<1>1. /\ pc[s] = "idle" /\ pc'[s] = FirstStep[c] /\ saw'[s] = saw[s] /\ UNCHANGED swap
      /\ \A m \in Nodes : found'[s][m] = IsActive(m)
  BY DEF Begin, Moves, cards, RInv, TypeOK
<1>2. \A m \in Nodes : ~WasActive(s, m)
  BY <1>1 DEF RInv, Recalls
<1>3. \A m \in Nodes : ~WasActive(s, m)' /\ (swap'[m] <=> found'[s][m] = "active")
  BY <1>1, <1>2 DEF WasActive, IsActive
<1>4. pc'[s] \in {"up.check", "agent.check", "down.swap", "pool.check", "poolDown.check", "reload"}
  BY <1>1 DEF AllCommands, FirstStep
<1>. QED
  BY <1>3, <1>4 DEF Recalls, Refusable, Checks, InAgentUp, InPoolUp

LEMMA RInvStep == ASSUME Uninterrupted, RInv, [Next]_vars PROVE RInv'
<1>0. TypeOK
  BY DEF RInv
<1>1. CASE World
  BY <1>0, <1>1, WorldTypeStep, WorldRecalls DEF RInv
<1>2. ASSUME NEW s \in Sessions, Step(s) PROVE RInv'
  BY <1>0, <1>2, StepType, StepRecalls DEF RInv, Uninterrupted, OneSession
<1>3. ASSUME NEW s \in Sessions, NEW n \in Nodes, NEW c \in AllCommands, Begin(s, n, c) PROVE RInv'
  BY <1>0, <1>3, BeginType, BeginRecalls DEF RInv, Uninterrupted, OneSession
<1>4. ASSUME NEW s \in Sessions PROVE ~Kill(s)
  BY DEF Kill, Uninterrupted
<1>5. CASE UNCHANGED vars
  BY <1>5 DEF RInv, Recalls, WasActive, Linked, TypeOK, vars, cards, world, session
<1>. QED
  BY <1>1, <1>2, <1>3, <1>4, <1>5 DEF Next, Command

\* The step with which a refusal ends.
LEMMA RefusalRestores ==
    ASSUME Uninterrupted, RInv, [Next]_vars, NEW s \in Sessions,
           pc[s] \in {"agent.fit", "pool.restoreDesktop"}, pc'[s] = "idle", NEW n \in Nodes
    PROVE  swap'[n] <=> (found[s][n] = "active")
<1>1. TypeOK /\ Recalls(s) /\ swap \in [Nodes -> BOOLEAN] /\ at[s] \in Nodes
  BY DEF RInv, TypeOK
<1>2. AgentUnfit(s) \/ PoolRestoreDesktop(s)
  <2>1. ASSUME NEW t \in Sessions, Step(t) PROVE AgentUnfit(s) \/ PoolRestoreDesktop(s)
    <3>1. t = s
      BY DEF Uninterrupted, OneSession
    <3>2. ASSUME NEW from, NEW to, Moves(s, from, to) PROVE pc[s] = from /\ to = "idle"
      BY <1>1, <3>2 DEF Moves, TypeOK
    <3>. USE DEF Goes, Ends
    <3>3. ~AgentFits(s)
      BY <3>2 DEF AgentFits
    <3>4. ~UpRefused(s) /\ ~UpAllowed(s) /\ ~UpStart(s) /\ ~Reload(s)
          /\ ~DownSwap(s) /\ ~DownSweep(s) /\ ~DownEnds(s)
      BY <3>2 DEF UpRefused, UpAllowed, UpStart, Reload, DownSwap, DownSweep, DownEnds
    <3>5. ~AgentRefused(s) /\ ~AgentAllowed(s) /\ ~AgentStop(s) /\ ~AgentRemove(s) /\ ~AgentWaited(s)
      BY <3>2 DEF AgentRefused, AgentAllowed, AgentStop, AgentRemove, AgentWaited
    <3>6. ~AgentRun(s)
      <4>1. AgentRun(s) => Moves(s, "agent.run", "agent.wait") \/ Moves(s, "agent.run", "idle")
        BY Zenon DEF AgentRun
      <4>. QED
        BY <3>2, <4>1
    <3>7. ~PoolRefused(s) /\ ~PoolAllowed(s) /\ ~PoolStopLaptop(s) /\ ~PoolFitsLaptop(s)
          /\ ~PoolAskDesktop(s) /\ ~PoolStopDesktop(s) /\ ~PoolFitsDesktop(s)
      BY <3>2 DEF PoolRefused, PoolAllowed, PoolStopLaptop, PoolFitsLaptop, PoolAskDesktop,
                  PoolStopDesktop, PoolFitsDesktop
    <3>8. ~PoolTotalDesktop(s)
      <4>1. PoolTotalDesktop(s) => \E to : Moves(s, "pool.totalDesktop", to)
        BY Zenon DEF PoolTotalDesktop
      <4>. QED
        BY <3>2, <4>1
    <3>9. ~PoolRestoreLaptop(s) /\ ~PoolHead(s) /\ ~PoolWorker(s) /\ ~PoolServe(s) /\ ~PoolEnds(s)
          /\ ~PoolDownRefused(s) /\ ~PoolDownWorker(s) /\ ~PoolDownHead(s)
      BY <3>2 DEF PoolRestoreLaptop, PoolHead, PoolWorker, PoolServe, PoolEnds, PoolDownRefused,
                  PoolDownWorker, PoolDownHead
    <3>. QED
      BY <2>1, <3>1, <3>3, <3>4, <3>5, <3>6, <3>7, <3>8, <3>9 DEF Step
  <2>2. ~World
    <3>1. pc' = pc => FALSE
      OBVIOUS
    <3>2. ASSUME NEW m \in Nodes, PowerOff(m) \/ Boots(m) PROVE FALSE
      BY <3>2 DEF PowerOff, Boots, PowerMayChange, Uninterrupted
    <3>. QED
      BY <3>1, <3>2
         DEF World, LoadModel, JobStarts, Loads, Dies, PoolLoads, EngineDies, Untouched,
             LinkFlips
  <2>3. ASSUME NEW t \in Sessions, NEW m \in Nodes, NEW c \in AllCommands, Begin(t, m, c) PROVE FALSE
    BY <2>3 DEF Begin, Moves, Uninterrupted, OneSession
  <2>4. ASSUME NEW t \in Sessions PROVE ~Kill(t)
    BY DEF Kill, Uninterrupted
  <2>5. ~UNCHANGED vars
    BY DEF vars
  <2>. QED
    BY <2>1, <2>2, <2>3, <2>4, <2>5 DEF Next, Command
<1>3. CASE AgentUnfit(s)
  <2>1. pc[s] = "agent.fit"
    BY <1>3 DEF AgentUnfit, Ends, Moves
  <2>2. /\ swap[n] \/ WasActive(s, n) <=> found[s][n] = "active"
        /\ WasActive(s, n) => n = at[s]
    BY <1>1, <2>1 DEF Recalls, Refusable, InAgentUp
  <2>3. swap'[n] <=> swap[n] \/ (n = at[s] /\ WasActive(s, n))
    BY <1>1, <1>3 DEF AgentUnfit, WasActive
  <2>. QED
    BY <2>2, <2>3
<1>4. CASE PoolRestoreDesktop(s)
  <2>1. pc[s] = "pool.restoreDesktop"
    BY <1>4 DEF PoolRestoreDesktop, Ends, Moves
  <2>2. /\ swap[n] \/ WasActive(s, n) <=> found[s][n] = "active"
        /\ WasActive(s, "laptop") => swap["laptop"]
        /\ Linked
    BY <1>1, <2>1 DEF Recalls, Refusable, InPoolUp
  <2>3. swap'[n] <=> swap[n] \/ (n = "desktop" /\ WasActive(s, n))
    BY <1>1, <1>4, <2>2 DEF PoolRestoreDesktop, WasActive
  <2>4. n = "laptop" \/ n = "desktop"
    BY DEF Nodes
  <2>. QED
    BY <2>2, <2>3, <2>4
<1>. QED
  BY <1>2, <1>3, <1>4

\* A lab up agent or lab pool up that is refused for lack of memory leaves both
\* llama-swaps as it found them (RefusalsRestoreServing): from one terminal, for
\* any commands before it, while the cable holds and nobody kills the command.
\* Without the cable TLC finds it broken, so the assumption is part of the theorem.
THEOREM RefusalsRestoreServingHolds ==
    ASSUME Uninterrupted
    PROVE  Spec => RefusalsRestoreServing
<1>1. Init => RInv
  <2>1. ASSUME Init, NEW s \in Sessions PROVE Recalls(s)
    <3>1. pc[s] = "idle" /\ \A n \in Nodes : saw[s][n] = "unknown"
      BY <2>1 DEF Init, Nothing
    <3>2. "idle" \notin Refusable /\ "idle" \notin InPoolUp
      BY DEF Refusable, Checks, InAgentUp, InPoolUp
    <3>. QED
      BY <3>1, <3>2 DEF Recalls, WasActive
  <2>. QED
    BY <2>1, InitType DEF RInv
<1>2. RInv /\ [Next]_vars => RInv'
  BY RInvStep
<1>3. RInv /\ [Next]_vars
        => [\A s \in Sessions :
              (pc[s] \in {"agent.fit", "pool.restoreDesktop"} /\ pc'[s] = "idle")
                => \A n \in Nodes : swap'[n] <=> (found[s][n] = "active")]_vars
  BY RefusalRestores
<1>. QED
  BY <1>1, <1>2, <1>3, PTL DEF Spec, RefusalsRestoreServing

-----------------------------------------------------------------------------
(* The cards as Card.tla sees them: a step of a command or of the world      *)
(* moves at most one of them.                                               *)

WhoHas(serving, agent, pool) ==
    IF serving THEN "serving" ELSE IF agent THEN "agent" ELSE IF pool THEN "pool" ELSE "free"

LEMMA HolderIs ==
    ASSUME Prompt, NEW n \in Nodes
    PROVE  /\ Exclusive(n) => HolderOf(n) = WhoHas(swap[n], Running(n, "agent"), Running(n, "ray"))
           /\ Exclusive(n)' => HolderOf(n)' = WhoHas(swap'[n], Running(n, "agent")', Running(n, "ray")')
<1>1. /\ Has(n, "serving") <=> swap[n]
      /\ Has(n, "agent") <=> Running(n, "agent")
      /\ Has(n, "pool") <=> Running(n, "ray")
  BY DEF Has
<1>2. /\ Has(n, "serving")' <=> swap'[n]
      /\ Has(n, "agent")' <=> Running(n, "agent")'
      /\ Has(n, "pool")' <=> Running(n, "ray")'
  BY DEF Has
<1>3. ASSUME Exclusive(n)
      PROVE  HolderOf(n) = WhoHas(swap[n], Running(n, "agent"), Running(n, "ray"))
  <2>. DEFINE h == CHOOSE p \in Planes : Has(n, p)
  <2>1. (\E p \in Planes : Has(n, p)) => h \in Planes /\ Has(n, h)
    OBVIOUS
  <2>2. HolderOf(n) = IF \E p \in Planes : Has(n, p) THEN h ELSE "free"
    BY DEF HolderOf
  <2>. HIDE DEF h
  <2>. QED
    BY <1>1, <1>3, <2>1, <2>2 DEF Planes, WhoHas, Exclusive, CardTaken
<1>4. ASSUME Exclusive(n)'
      PROVE  HolderOf(n)' = WhoHas(swap'[n], Running(n, "agent")', Running(n, "ray")')
  <2>1. ASSUME NEW p \in Planes, Has(n, p)', \A q \in Planes : Has(n, q)' => q = p
        PROVE  HolderOf(n)' = p
    BY <2>1, Zenon DEF HolderOf
  <2>2. (\A p \in Planes : ~Has(n, p)') => HolderOf(n)' = "free"
    BY Zenon DEF HolderOf
  <2>3. \A p, q \in Planes : Has(n, p)' /\ Has(n, q)' => p = q
    BY <1>2, <1>4 DEF Planes, Exclusive, CardTaken
  <2>. QED
    BY <1>2, <2>1, <2>2, <2>3 DEF Planes, WhoHas
<1>. QED
  BY <1>3, <1>4

Keeps(n) ==
    /\ swap'[n] <=> swap[n]
    /\ Running(n, "agent")' <=> Running(n, "agent")
    /\ Running(n, "ray")' <=> Running(n, "ray")

Less(n) ==
    /\ swap'[n] => swap[n]
    /\ Running(n, "agent")' => Running(n, "agent")
    /\ Running(n, "ray")' => Running(n, "ray")

OthersKeep(n) == \A m \in Nodes : m # n => Keeps(m)

Holders == [n \in Nodes |-> HolderOf(n)]
Promised == [Promise!Next]_Holders

LEMMA KeptHolder ==
    ASSUME Prompt, CardsInv, CardsInv', NEW n \in Nodes, Keeps(n)
    PROVE  HolderOf(n)' = HolderOf(n)
BY HolderIs DEF CardsInv, Keeps, WhoHas

LEMMA Released ==
    ASSUME Prompt, CardsInv, CardsInv', NEW n \in Nodes, OthersKeep(n), Less(n)
    PROVE  Promised
<1>1. \A m \in Nodes : m # n => HolderOf(m)' = HolderOf(m)
  BY KeptHolder DEF OthersKeep
<1>2. Keeps(n) \/ (~swap'[n] /\ ~Running(n, "agent")' /\ ~Running(n, "ray")')
  BY DEF CardsInv, Exclusive, CardTaken, Less, Keeps
<1>3. CASE Keeps(n)
  <2>1. Holders' = Holders
    BY <1>1, <1>3, KeptHolder DEF Holders
  <2>. QED
    BY <2>1 DEF Promised
<1>4. CASE ~swap'[n] /\ ~Running(n, "agent")' /\ ~Running(n, "ray")'
  <2>1. HolderOf(n)' = "free"
    BY <1>4, HolderIs DEF CardsInv, WhoHas
  <2>2. Holders' = [Holders EXCEPT ![n] = "free"]
    BY <1>1, <2>1 DEF Holders
  <2>3. Promise!Release(n)
    BY <2>2 DEF Promise!Release, Holders
  <2>. QED
    BY <2>3 DEF Promised, Promise!Next
<1>. QED
  BY <1>2, <1>3, <1>4

LEMMA Acquired ==
    ASSUME Prompt, CardsInv, CardsInv', NEW n \in Nodes, OthersKeep(n), NEW p \in Planes,
           Keeps(n) \/ (~swap[n] /\ ~CardTaken(n) /\ Has(n, p)'),
           p = "pool" => \A m \in Nodes : ~swap[m] /\ ~Running(m, "agent")
    PROVE  Promised
<1>1. \A m \in Nodes : m # n => HolderOf(m)' = HolderOf(m)
  BY KeptHolder DEF OthersKeep
<1>2. CASE Keeps(n)
  <2>1. Holders' = Holders
    BY <1>1, <1>2, KeptHolder DEF Holders
  <2>. QED
    BY <2>1 DEF Promised
<1>3. CASE ~swap[n] /\ ~CardTaken(n) /\ Has(n, p)'
  <2>1. HolderOf(n) = "free"
    BY <1>3, HolderIs DEF CardsInv, WhoHas, CardTaken
  <2>2. HolderOf(n)' = p
    <3>1. /\ p = "serving" => swap'[n]
          /\ p = "agent" => Running(n, "agent")'
          /\ p = "pool" => Running(n, "ray")'
      BY <1>3 DEF Has
    <3>2. Exclusive(n)'
      BY DEF CardsInv
    <3>. QED
      BY <3>1, <3>2, HolderIs DEF Planes, WhoHas, Exclusive, CardTaken
  <2>3. p = "pool" => \A m \in Nodes : HolderOf(m) \in {"free", "pool"}
    BY HolderIs DEF CardsInv, WhoHas
  <2>4. Holders' = [Holders EXCEPT ![n] = p]
    BY <1>1, <2>2 DEF Holders
  <2>5. Promise!Acquire(n, p)
    BY <2>1, <2>3, <2>4 DEF Promise!Acquire, Holders
  <2>. QED
    BY <2>5 DEF Promised, Promise!Next
<1>. QED
  BY <1>2, <1>3

LEMMA SamePlanes ==
    ASSUME Prompt, CardsInv, CardsInv', \A n \in Nodes : Keeps(n)
    PROVE  Promised
<1>1. "laptop" \in Nodes /\ Less("laptop") /\ OthersKeep("laptop")
  BY DEF Nodes, Keeps, Less, OthersKeep
<1>. QED
  BY <1>1, Released

\* One container of a node changes.
LEMMA WithKeeps ==
    ASSUME TypeOK, NEW n \in Nodes, NEW c \in Containers, NEW status \in Statuses,
           con' = With(n, c, status), \A m \in Nodes : m # n => swap'[m] = swap[m]
    PROVE  /\ OthersKeep(n)
           /\ swap' = swap /\ c \notin {"agent", "ray"} => \A m \in Nodes : Keeps(m)
<1>1. \A m \in Nodes, d \in Containers : con'[m][d] = IF m = n /\ d = c THEN status ELSE con[m][d]
  BY WithFacts
<1>2. "agent" \in Containers /\ "ray" \in Containers
  BY DEF Containers
<1>. QED
  BY <1>1, <1>2 DEF OthersKeep, Keeps, Running

LEMMA WithoutRayKeeps ==
    ASSUME TypeOK, NEW n \in Nodes, NEW status \in {"gone", "starting"}, UNCHANGED swap,
           con' = WithoutRay(n, status)
    PROVE  /\ OthersKeep(n) /\ (Running(n, "agent")' <=> Running(n, "agent"))
           /\ Running(n, "ray")' <=> status = "starting"
<1>1. status \in Statuses /\ "agent" \in Containers /\ "ray" \in Containers
  BY DEF Statuses, Containers
<1>2. ASSUME NEW m \in Nodes
      PROVE  /\ con'[m]["agent"] = con[m]["agent"]
             /\ con'[m]["ray"] = IF m = n THEN status
                                 ELSE IF con[m]["ray"] = "holding" THEN "starting" ELSE con[m]["ray"]
  <2>1. con'[m]["agent"] = con[m]["agent"]
    BY <1>1, WithoutRayFacts
  <2>2. con'[m]["ray"] = IF m = n THEN status
                         ELSE IF con[m]["ray"] = "holding" THEN "starting" ELSE con[m]["ray"]
    BY <1>1, WithoutRayFacts
  <2>. QED
    BY <2>1, <2>2
<1>. QED
  BY <1>2 DEF OthersKeep, Keeps, Running

\* Everything of a node goes, as at DownSweep and PowerOff.
LEMMA StoppedKeeps ==
    ASSUME TypeOK, NEW n \in Nodes, \A m \in Nodes : m # n => (swap'[m] <=> swap[m]),
           con' = [WithoutRay(n, "gone") EXCEPT ![n] = Stopped(n)]
    PROVE  OthersKeep(n) /\ ~Running(n, "agent")' /\ ~Running(n, "ray")'
<1>. DEFINE rest == WithoutRay(n, "gone")
<1>1. "gone" \in Statuses /\ "agent" \in Containers /\ "ray" \in Containers
  BY DEF Statuses, Containers
<1>2. rest \in [Nodes -> [Containers -> Statuses]]
  BY <1>1, WithoutRayFacts
<1>3. ASSUME NEW m \in Nodes, m # n
      PROVE  /\ rest[m]["agent"] = con[m]["agent"]
             /\ rest[m]["ray"] = IF con[m]["ray"] = "holding" THEN "starting" ELSE con[m]["ray"]
  <2>1. rest[m]["agent"] = con[m]["agent"]
    BY <1>1, WithoutRayFacts
  <2>2. rest[m]["ray"] = IF m = n THEN "gone"
                         ELSE IF con[m]["ray"] = "holding" THEN "starting" ELSE con[m]["ray"]
    BY <1>1, WithoutRayFacts
  <2>. HIDE DEF rest
  <2>. QED
    BY <1>3, <2>1, <2>2
<1>4. con' = [rest EXCEPT ![n] = Stopped(n)]
  OBVIOUS
<1>. HIDE DEF rest
<1>5. con'[n] = Stopped(n) /\ \A m \in Nodes : m # n => con'[m] = rest[m]
  BY <1>2, <1>4
<1>6. OthersKeep(n)
  BY <1>3, <1>5 DEF OthersKeep, Keeps, Running
<1>7. con'[n]["ray"] = "gone" /\ con'[n]["agent"] \in {"gone", "exited"}
  BY <1>1, <1>5 DEF Stopped
<1>. QED
  BY <1>6, <1>7 DEF Running

LEMMA StopServingReleases ==
    ASSUME Prompt, TypeOK, CardsInv, CardsInv', NEW n \in Nodes, StopServing(n)
    PROVE  Promised
<1>1. \A m \in Nodes : swap'[m] = IF m = n THEN FALSE ELSE swap[m]
  BY DEF TypeOK, StopServing
<1>2. con' = With(n, "model", "gone") /\ "model" \in Containers /\ "gone" \in Statuses
  BY DEF StopServing, Containers, Statuses
<1>3. OthersKeep(n)
  BY <1>1, <1>2, WithKeeps
<1>4. Less(n)
  BY <1>1, <1>2, WithShrinks DEF Shrinks, Less
<1>. QED
  BY <1>3, <1>4, Released

LEMMA StepPromised ==
    ASSUME Prompt, IInv, IInv', NEW s \in Sessions, Step(s)
    PROVE  Promised
<1>. USE DEF cards, world
<1>0. TypeOK /\ CardsInv /\ CardsInv' /\ ScriptInv(s) /\ at[s] \in Nodes
  BY DEF IInv, TypeOK
<1>t. con \in [Nodes -> [Containers -> Statuses]] /\ swap \in [Nodes -> BOOLEAN]
  BY <1>0 DEF TypeOK
<1>n. /\ "laptop" \in Nodes /\ "desktop" \in Nodes
      /\ {"model", "agent", "ray"} \subseteq Containers /\ {"gone", "starting", "exited"} \subseteq Statuses
      /\ \A n \in Nodes : n = "laptop" \/ n = "desktop"
  BY DEF Nodes, Containers, Statuses
<1>a. PICK n \in Nodes : n = at[s]
  BY <1>0
<1>1. CASE UNCHANGED <<swap, con>>
  <2>1. \A m \in Nodes : Keeps(m)
    BY <1>1 DEF Keeps, Running
  <2>. QED
    BY <1>0, <2>1, SamePlanes
<1>2. ASSUME NEW k \in Nodes, StopServing(k) PROVE Promised
  BY <1>0, <1>2, StopServingReleases
<1>3. CASE UpStart(s)
  <2>1. pc[s] = "up.start" /\ UNCHANGED con
    BY <1>0, <1>a, <1>3, EndsScript DEF UpStart
  <2>2. ~CardTaken(n)
    BY <1>0, <1>a, <2>1 DEF ScriptInv, InUp
  <2>3. \A m \in Nodes : swap'[m] = IF m = n THEN TRUE ELSE swap[m]
    BY <1>0, <1>a, <1>t, <1>3 DEF UpStart, StartServing
  <2>4. OthersKeep(n)
    BY <2>1, <2>3 DEF OthersKeep, Keeps, Running
  <2>5. Keeps(n) \/ (~swap[n] /\ ~CardTaken(n) /\ Has(n, "serving")')
    BY <1>0, <1>a, <2>1, <2>2, <2>3 DEF Keeps, Running, Has
  <2>. QED
    BY <1>0, <1>a, <2>4, <2>5, Acquired DEF Planes
<1>4. CASE DownSweep(s)
  <2>1. OthersKeep(n) /\ ~Running(n, "agent")' /\ ~Running(n, "ray")' /\ UNCHANGED swap
    BY <1>0, <1>a, <1>4, StoppedKeeps DEF DownSweep
  <2>. QED
    BY <1>0, <1>a, <2>1, Released DEF Less
<1>5. CASE AgentRemove(s)
  <2>1. con' = With(n, "agent", "gone") /\ UNCHANGED swap
    BY <1>5, <1>a DEF AgentRemove
  <2>2. OthersKeep(n)
    BY <1>0, <1>n, <2>1, WithKeeps
  <2>3. Less(n)
    BY <1>0, <1>n, <2>1, WithShrinks DEF Shrinks, Less
  <2>. QED
    BY <1>0, <2>2, <2>3, Released
<1>6. CASE AgentUnfit(s)
  <2>1. pc[s] = "agent.fit" /\ UNCHANGED con
    BY <1>0, <1>a, <1>6, EndsScript DEF AgentUnfit
  <2>2. saw[s][n] = "active" => ~CardTaken(n)
    BY <1>0, <1>a, <2>1 DEF ScriptInv, Remembered
  <2>3. \A m \in Nodes : swap'[m] <=> (swap[m] \/ (m = n /\ saw[s][m] = "active"))
    BY <1>0, <1>a, <1>t, <1>6 DEF AgentUnfit
  <2>4. OthersKeep(n)
    BY <2>1, <2>3 DEF OthersKeep, Keeps, Running
  <2>5. Keeps(n) \/ (~swap[n] /\ ~CardTaken(n) /\ Has(n, "serving")')
    BY <1>0, <1>a, <2>1, <2>2, <2>3 DEF Keeps, Running, Has
  <2>. QED
    BY <1>0, <1>a, <2>4, <2>5, Acquired DEF Planes
<1>7. CASE AgentRun(s)
  <2>1. CASE con[n]["agent"] = "gone"
    <3>1. Goes(s, "agent.run", "agent.wait") /\ con' = With(n, "agent", "starting") /\ UNCHANGED swap
      BY <1>7, <1>a, <2>1, Zenon DEF AgentRun
    <3>2. ~Running(n, "ray") /\ ~swap[n]
      BY <1>0, <1>a, <3>1, GoesFacts DEF ScriptInv, InAgent
    <3>3. con'[n]["agent"] = "starting"
      <4>1. "agent" \in Containers /\ "starting" \in Statuses /\ con' = With(n, "agent", "starting")
        BY <1>n, <3>1
      <4>. QED
        BY <1>0, <4>1, WithFacts
    <3>4. Has(n, "agent")'
      BY <3>3 DEF Has, Running
    <3>5. ~CardTaken(n)
      BY <2>1, <3>2 DEF CardTaken, Running
    <3>6. OthersKeep(n)
      BY <1>0, <1>a, <1>n, <3>1, WithKeeps
    <3>. QED
      BY <1>0, <1>a, <3>2, <3>4, <3>5, <3>6, Acquired DEF Planes
  <2>2. CASE con[n]["agent"] # "gone"
    BY <1>1, <1>7, <1>a, <2>2, Zenon DEF AgentRun
  <2>. QED
    BY <2>1, <2>2
<1>8. CASE PoolStopDesktop(s)
  <2>1. StopServing("desktop") \/ UNCHANGED <<swap, con>>
    BY <1>8, Zenon DEF PoolStopDesktop
  <2>. QED
    BY <1>1, <1>2, <1>n, <2>1
<1>9. CASE PoolRestoreLaptop(s)
  <2>1. pc[s] = "pool.restoreLaptop" /\ UNCHANGED con
    BY <1>0, <1>9, GoesFacts DEF PoolRestoreLaptop
  <2>2. saw[s]["laptop"] = "active" => ~CardTaken("laptop")
    BY <1>0, <1>n, <2>1 DEF ScriptInv, Remembered
  <2>3. \A m \in Nodes : swap'[m] <=> (swap[m] \/ (m = "laptop" /\ saw[s][m] = "active"))
    BY <1>n, <1>t, <1>9 DEF PoolRestoreLaptop
  <2>4. OthersKeep("laptop")
    BY <2>1, <2>3 DEF OthersKeep, Keeps, Running
  <2>5. Keeps("laptop") \/ (~swap["laptop"] /\ ~CardTaken("laptop") /\ Has("laptop", "serving")')
    BY <1>n, <2>1, <2>2, <2>3 DEF Keeps, Running, Has
  <2>. QED
    BY <1>0, <1>n, <2>4, <2>5, Acquired DEF Planes
<1>10. CASE PoolRestoreDesktop(s)
  <2>1. pc[s] = "pool.restoreDesktop" /\ UNCHANGED con
    BY <1>0, <1>10, EndsScript DEF PoolRestoreDesktop
  <2>2. saw[s]["desktop"] = "active" => ~CardTaken("desktop")
    BY <1>0, <1>n, <2>1 DEF ScriptInv, Remembered
  <2>3. \A m \in Nodes : swap'[m] <=> (swap[m] \/ (m = "desktop" /\ Linked /\ saw[s][m] = "active"))
    BY <1>n, <1>t, <1>10 DEF PoolRestoreDesktop
  <2>4. OthersKeep("desktop")
    BY <2>1, <2>3 DEF OthersKeep, Keeps, Running
  <2>5. Keeps("desktop") \/ (~swap["desktop"] /\ ~CardTaken("desktop") /\ Has("desktop", "serving")')
    BY <1>n, <2>1, <2>2, <2>3 DEF Keeps, Running, Has
  <2>. QED
    BY <1>0, <1>n, <2>4, <2>5, Acquired DEF Planes
<1>11. CASE PoolHead(s) \/ PoolWorker(s)
  <2>1. PICK k \in Nodes : con' = WithoutRay(k, "starting") /\ UNCHANGED swap
    BY <1>n, <1>11 DEF PoolHead, PoolWorker
  <2>2. pc[s] \in {"pool.head", "pool.worker"}
    BY <1>11 DEF PoolHead, PoolWorker, Goes, Moves
  <2>3. \A m \in Nodes : ~swap[m] /\ ~Running(m, "agent")
    BY <1>0, <1>n, <2>2 DEF ScriptInv, InPool
  <2>4. OthersKeep(k) /\ (Running(k, "agent")' <=> Running(k, "agent")) /\ Running(k, "ray")'
    BY <1>0, <2>1, WithoutRayKeeps
  <2>5. Keeps(k) \/ (~swap[k] /\ ~CardTaken(k) /\ Has(k, "pool")')
    BY <2>1, <2>3, <2>4 DEF Keeps, CardTaken, Has
  <2>. QED
    BY <1>0, <2>3, <2>4, <2>5, Acquired DEF Planes
<1>12. CASE PoolDownWorker(s) \/ PoolDownHead(s)
  <2>1. ASSUME NEW k \in Nodes, con' = WithoutRay(k, "gone"), UNCHANGED swap PROVE Promised
    <3>1. OthersKeep(k)
      BY <1>0, <2>1, WithoutRayKeeps
    <3>2. Less(k)
      BY <1>0, <2>1, WithoutRayShrinks DEF Shrinks, Less
    <3>. QED
      BY <1>0, <3>1, <3>2, Released
  <2>2. CASE PoolDownWorker(s)
    BY <1>n, <2>1, <2>2 DEF PoolDownWorker
  <2>3. CASE PoolDownHead(s)
    <3>1. UNCHANGED swap /\ (con' = WithoutRay("desktop", "gone") \/ UNCHANGED con)
      BY <2>3, Zenon DEF PoolDownHead
    <3>. QED
      BY <1>1, <1>n, <2>1, <3>1
  <2>. QED
    BY <1>12, <2>2, <2>3
<1>13. CASE DownSwap(s) \/ AgentStop(s) \/ PoolStopLaptop(s)
  BY <1>0, <1>2, <1>n, <1>13 DEF DownSwap, AgentStop, PoolStopLaptop
<1>14. CASE UpRefused(s) \/ UpAllowed(s) \/ DownEnds(s) \/ AgentRefused(s) \/ AgentAllowed(s)
            \/ AgentFits(s) \/ AgentWaited(s)
  BY <1>1, <1>14
     DEF UpRefused, UpAllowed, DownEnds, AgentRefused, AgentAllowed, AgentFits, AgentWaited
<1>15. CASE PoolRefused(s) \/ PoolAllowed(s) \/ PoolFitsLaptop(s) \/ PoolAskDesktop(s)
            \/ PoolTotalDesktop(s) \/ PoolFitsDesktop(s) \/ PoolServe(s) \/ PoolEnds(s)
            \/ PoolDownRefused(s)
  BY <1>1, <1>15 DEF PoolRefused, PoolAllowed, PoolFitsLaptop, PoolAskDesktop, PoolTotalDesktop,
                     PoolFitsDesktop, PoolServe, PoolEnds, PoolDownRefused
<1>16. ~Reload(s)
  BY <1>0 DEF Reload, Ends, Moves, ScriptInv, Powered
<1>. QED
  BY <1>3, <1>4, <1>5, <1>6, <1>7, <1>8, <1>9, <1>10, <1>11, <1>12, <1>13, <1>14, <1>15, <1>16
     DEF Step

LEMMA WorldPromised ==
    ASSUME Undisturbed, Prompt, IInv, IInv', World
    PROVE  Promised
<1>. USE DEF Untouched
<1>0. TypeOK /\ CardsInv /\ CardsInv' /\ con \in [Nodes -> [Containers -> Statuses]]
  BY DEF IInv, TypeOK
<1>n. /\ Containers = {"model", "agent", "ray", "job"}
      /\ {"gone", "starting", "exited", "holding"} \subseteq Statuses
  BY DEF Containers, Statuses
<1>1. ASSUME NEW n \in Nodes, LoadModel(n) \/ JobStarts(n) PROVE Promised
  <2>1. UNCHANGED swap /\ \E c \in {"model", "job"} : con' = With(n, c, "starting")
    BY <1>1 DEF LoadModel, JobStarts
  <2>2. \A m \in Nodes : Keeps(m)
    BY <1>0, <1>n, <2>1, WithKeeps
  <2>. QED
    BY <1>0, <2>2, SamePlanes
<1>2. ASSUME NEW n \in Nodes, NEW c \in Containers, Loads(n, c) \/ Dies(n, c) PROVE Promised
  <2>1. /\ UNCHANGED swap /\ Running(n, c)
        /\ \E status \in {"holding", "exited", "gone"} : con' = With(n, c, status)
    BY <1>2 DEF Loads, Dies, Running
  <2>2. OthersKeep(n)
    BY <1>0, <1>n, <2>1, WithKeeps
  <2>3. Less(n)
    <3>0. PICK status \in Statuses : con' = With(n, c, status)
      BY <1>n, <2>1
    <3>1. \A d \in Containers : d # c => con'[n][d] = con[n][d]
      BY <1>0, <3>0, WithFacts
    <3>2. "agent" \in Containers /\ "ray" \in Containers
      BY <1>n
    <3>. QED
      BY <2>1, <3>1, <3>2 DEF Less, Running
  <2>. QED
    BY <1>0, <2>2, <2>3, Released
<1>3. CASE PoolLoads \/ EngineDies
  <2>1. \A n \in Nodes : Keeps(n)
    BY <1>0, <1>n, <1>3 DEF PoolLoads, EngineDies, Keeps, Running
  <2>. QED
    BY <1>0, <2>1, SamePlanes
<1>4. ASSUME NEW n \in Nodes, PowerOff(n) PROVE Promised
  <2>1. \A m \in Nodes : swap'[m] <=> (m # n /\ swap[m])
    BY <1>0, <1>4 DEF PowerOff, TypeOK
  <2>2. OthersKeep(n) /\ ~Running(n, "agent")' /\ ~Running(n, "ray")'
    BY <1>0, <1>4, <2>1, StoppedKeeps DEF PowerOff
  <2>. QED
    BY <1>0, <2>1, <2>2, Released DEF Less
<1>5. ASSUME NEW n \in Nodes, Boots(n) PROVE Promised
  <2>1. UNCHANGED con /\ ~swap[n] /\ ~CardTaken(n)
    BY <1>0, <1>5 DEF Boots, CardsInv
  <2>2. \A m \in Nodes : m # n => swap'[m] = swap[m]
    BY <1>0, <1>5 DEF Boots, TypeOK
  <2>3. OthersKeep(n)
    BY <2>1, <2>2 DEF OthersKeep, Keeps, Running
  <2>4. Keeps(n) \/ (~swap[n] /\ ~CardTaken(n) /\ Has(n, "serving")')
    BY <2>1 DEF Keeps, Running, Has
  <2>. QED
    BY <1>0, <2>3, <2>4, Acquired DEF Planes
<1>6. ~LinkFlips
  BY DEF LinkFlips, Undisturbed
<1>. QED
  BY <1>1, <1>2, <1>3, <1>4, <1>5, <1>6 DEF World

LEMMA NextPromised ==
    ASSUME Undisturbed, Prompt, IInv, IInv', [Next]_vars
    PROVE  Promised
<1>0. CardsInv /\ CardsInv'
  BY DEF IInv
<1>1. ASSUME UNCHANGED <<swap, con>> PROVE Promised
  <2>1. \A n \in Nodes : Keeps(n)
    BY <1>1 DEF Keeps, Running
  <2>. QED
    BY <1>0, <2>1, SamePlanes
<1>2. ASSUME NEW s \in Sessions, Command(s) PROVE Promised
  BY <1>1, <1>2, StepPromised DEF Command, Kill, Begin, cards
<1>. QED
  BY <1>1, <1>2, WorldPromised DEF Next, vars, cards

\* With one terminal, nothing that disturbs it and engines that start in time, the
\* serving plane implements
\* Card.tla: each step of a command, of an engine or of the power moves at most
\* one card, takes one only when it is free, and gives one to the pool only when
\* no other plane holds the other (ImplementsCard).
THEOREM ImplementsCardHolds ==
    ASSUME Undisturbed, Prompt
    PROVE  Spec => ImplementsCard
<1>1. Init => IInv
  BY InitIInv, InitType DEF IInv
<1>2. IInv /\ [Next]_vars => IInv'
  BY IInvStep
<1>3. Init => Promise!Init
  <2>. SUFFICES ASSUME Init, NEW n \in Nodes PROVE HolderOf(n) \in (Planes \ {"pool"}) \cup {"free"}
    BY DEF Promise!Init
  <2>1. IInv
    BY <1>1
  <2>2. swap[n]
    BY DEF Init
  <2>. QED
    BY <2>1, <2>2, HolderIs DEF IInv, CardsInv, WhoHas, Planes
<1>4. IInv /\ IInv' /\ [Next]_vars => [Promise!Next]_Holders
  BY NextPromised DEF Promised
<1>5. Holders = [n \in Nodes |-> HolderOf(n)]
  BY DEF Holders
<1>. QED
  BY <1>1, <1>2, <1>3, <1>4, PTL DEF Spec, ImplementsCard, Promise!Spec, Holders
=============================================================================
