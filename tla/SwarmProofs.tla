---------------------------- MODULE SwarmProofs ----------------------------
(***************************************************************************)
(* The swarm, for any planner, any size of plan and of pool, and any       *)
(* number of spawns that raise, on an installed rung or not.               *)
(*                                                                         *)
(* The layers are right because in_degree counts the inputs that are       *)
(* missing (Counts): a layer takes off exactly the agents that returned.   *)
(* They come to an end of the plan because a set of remaining agents, all  *)
(* with a remaining input, would be a cycle.                               *)
(***************************************************************************)
EXTENDS Swarm, FiniteSetTheorems, SequenceTheorems, TLAPS

Early == {"idle", "intent", "triage", "clarify", "resolve", "plan", "check"}

(* Where an agent may be while the thread is at pc.                        *)
Phases ==
  /\ pc \in Early => \A a \in Ids : task[a] = "waiting"
  /\ pc # "pool" => \A a \in Ids : task[a] \in {"waiting", "done"}
  /\ \A a \in Ids : task[a] # "waiting" => a \in SpecIds

(* in_degree counts the inputs that are missing.                           *)
Counts ==
  pc \in {"layer", "pool"} /\ UniqueIds =>
    \A a \in SpecIds : indegree[a] = Cardinality(Deps(a) \ Outputs)

RunOrRefused ==
  IF HasCycle THEN \A a \in SpecIds : task[a] = "waiting"
              ELSE UniqueIds => Remaining = {}

(* The loop runs an acyclic plan, and ends with its last agent.            *)
Ends ==
  /\ pc \in {"layer", "pool"} => ~HasCycle
  /\ pc \in {"answer", "outcome"} => RunOrRefused

(* Each "finished" comes after an answer.                                  *)
Answered(s) ==
  \A i \in 1 .. Len(s) : s[i] = "finished" =>
    \E j \in 1 .. i - 1 : s[j] = "answer"

(* "finished" is recorded when the thread is about to end.                 *)
Finishes ==
  /\ Answered(log)
  /\ pc \in {"outcome", "closed"} =>
       \E i \in 1 .. Len(log) : log[i] = "finished"

DagInv == SwarmTypeOK /\ Phases /\ Counts /\ InputsAreReady /\ Ends

---------------------------------------------------------------------------
(* The plan is a finite set of ids, and dependencies are among them.       *)
LEMMA PlanIsFinite ==
  ASSUME SwarmTypeOK
  PROVE  /\ SpecIds \subseteq Ids
         /\ IsFiniteSet(SpecIds)
         /\ \A a : Deps(a) \subseteq SpecIds
         /\ \A a : IsFiniteSet(Deps(a)) /\ Cardinality(Deps(a)) \in Nat
         /\ \A a : Copies(a) \in Nat
<1>1. SpecIds \subseteq Ids
  <2> DEFINE R == [name : Names \cup Ids, id : Ids, refs : SUBSET (Names \cup Ids)]
  <2>1. DOMAIN specs = 1 .. Len(specs) /\ \A i \in 1 .. Len(specs) : specs[i] \in R
    BY LenProperties, ElementOfSeq DEF SwarmTypeOK
  <2>2. \A i \in DOMAIN specs : specs[i].id \in Ids
    BY <2>1
  <2> QED
    BY <2>2 DEF SpecIds
<1>2. IsFiniteSet(SpecIds)
  BY <1>1, FS_Subset, SwarmAssumption
<1>3. \A a : Deps(a) \subseteq SpecIds
  BY DEF Deps
<1>4. ASSUME NEW a PROVE IsFiniteSet(Deps(a)) /\ Cardinality(Deps(a)) \in Nat
  BY <1>2, <1>3, FS_Subset, FS_CardinalityType
<1>5. ASSUME NEW a PROVE Copies(a) \in Nat
  <2>1. DOMAIN specs = 1 .. Len(specs) /\ Len(specs) \in Nat
    BY DEF SwarmTypeOK
  <2>2. IsFiniteSet(DOMAIN specs)
    BY <2>1, FS_Interval
  <2>3. {i \in DOMAIN specs : specs[i].id = a} \in SUBSET DOMAIN specs
    OBVIOUS
  <2>4. QED
    BY <2>2, <2>3, FS_Subset, FS_CardinalityType DEF Copies
<1> QED
  BY <1>1, <1>2, <1>3, <1>4, <1>5

(* Wiring a plan keeps its type and its length.                            *)
LEMMA ChainedType ==
  ASSUME NEW P, NEW plan \in Seq([name : P, id : Ids, refs : SUBSET P]),
         Ids \subseteq P, NEW producers \in SUBSET DOMAIN plan
  PROVE  /\ Chained(plan, producers) \in Seq([name : P, id : Ids, refs : SUBSET P])
         /\ Len(Chained(plan, producers)) = Len(plan)
<1> DEFINE R == [name : P, id : Ids, refs : SUBSET P]
           wired == /\ Len(plan) >= 2
                    /\ \A i \in DOMAIN plan : plan[i].refs = {}
                    /\ Cardinality(producers) = 1
           producer == plan[CHOOSE i \in producers : TRUE].id
           chain == [i \in DOMAIN plan |->
                       IF plan[i].id = producer THEN plan[i]
                       ELSE [plan[i] EXCEPT !.refs = {producer}]]
<1>1. Len(plan) \in Nat /\ DOMAIN plan = 1 .. Len(plan)
      /\ \A i \in DOMAIN plan : plan[i] \in R
  BY LenProperties, ElementOfSeq
<1>2. CASE wired
  <2>1. producers # {}
    <3>1. Cardinality({}) = 0
      BY FS_EmptySet
    <3>2. Cardinality(producers) = 1
      BY <1>2
    <3>3. ASSUME producers = {} PROVE Cardinality(producers) = 0
      BY <3>1, <3>3, Zenon
    <3> QED
      BY <3>2, <3>3
  <2>2. producer \in P
    BY <1>1, <2>1
  <2>3. ASSUME NEW i \in DOMAIN plan
        PROVE  chain[i] \in R
    BY <1>1, <2>2
  <2>4. chain \in [1 .. Len(plan) -> R]
    BY <1>1, <2>3
  <2>5. chain \in Seq(R) /\ Len(chain) = Len(plan)
    BY <1>1, <2>4
  <2>6. Chained(plan, producers) = chain
    BY <1>2 DEF Chained
  <2> QED
    BY <2>5, <2>6
<1>3. CASE ~wired
  BY <1>3 DEF Chained
<1> QED
  BY <1>2, <1>3

(* SwarmTypeOK is inductive.                                               *)
LEMMA TypesKept == SwarmTypeOK /\ [Next]_vars => SwarmTypeOK'
<1> SUFFICES ASSUME SwarmTypeOK, [Next]_vars PROVE SwarmTypeOK'
  OBVIOUS
<1> USE DEF SwarmTypeOK
<1> DEFINE P == Names \cup Ids
           R == [name : P, id : Ids, refs : SUBSET P]
<1>0. IsFiniteSet(Running) /\ Cardinality(Running) \in Nat
  <2>1. Running \in SUBSET Ids
    BY DEF Running
  <2> QED
    BY <2>1, FS_Subset, FS_CardinalityType, SwarmAssumption
<1>k. \A T : T \subseteq Running => Cardinality(T) <= Width
  BY <1>0, FS_Subset, FS_CardinalityType, SwarmAssumption
<1>e. \A s \in Seq(Events) : log \o s \in Seq(Events)
  OBVIOUS
<1>s. /\ \A e \in Events : <<e>> \in Seq(Events)
      /\ \A e, f \in Events : <<e, f>> \in Seq(Events)
      /\ \A e, f, g \in Events : <<e, f, g>> \in Seq(Events)
  OBVIOUS
<1>1. CASE SubmitIntent
  BY <1>1 DEF SubmitIntent, Goto, dagVars, Points, Running
<1>2. CASE StartSwarm
  <2>1. <<"intent">> \in Seq(Events)
    BY <1>s DEF Events
  <2> QED
    BY <1>2, <2>1, <1>e DEF StartSwarm, Goto, Emit, dagVars, Points, Running
<1>r. <<"answer", "finished">> \in Seq(Events)
  BY <1>s DEF Events
<1>3. CASE Triage
  BY <1>3, <1>r, <1>e DEF Triage, Reply, Emit, dagVars, Points, Running
<1>4. CASE Clarify
  <2>1. PICK replying, missing \in BOOLEAN :
          /\ kind' = IF replying /\ kind = "needs_clarification"
                     THEN "complex_task" ELSE kind
          /\ IF kind' = "needs_clarification" \/ (missing /\ ~replying)
             THEN Reply ELSE pc' = "resolve" /\ log' = log
    BY <1>4 DEF Clarify
  <2>2. kind' \in Kinds
    BY <2>1 DEF Kinds
  <2>3. pc' \in Points /\ log' \in Seq(Events)
    BY <2>1, <1>r, <1>e DEF Reply, Emit, Points
  <2> QED
    BY <1>4, <2>2, <2>3 DEF Clarify, dagVars, Running
<1>5. CASE ResolveProject
  BY <1>5 DEF ResolveProject, Goto, dagVars, Points, Running
<1>6. CASE PlanAgent
  <2>1. PICK name \in Names, refs \in SUBSET Names :
          specs' = Append(specs, Spec0(name, AgentId(name), refs))
    BY <1>6 DEF PlanAgent
  <2>2. Len(specs) \in Nat /\ Len(specs) + 1 \in 1 .. MaxAgents
    BY <1>6, SwarmAssumption DEF PlanAgent
  <2>3. AgentId(name) \in Ids
    BY <2>2, SwarmAssumption DEF AgentId
  <2>4. Spec0(name, AgentId(name), refs) \in R
    BY <2>3 DEF Spec0
  <2>5. specs' \in Seq(R) /\ Len(specs') = Len(specs) + 1
    BY <2>1, <2>4, AppendProperties
  <2> QED
    BY <1>6, <2>2, <2>5 DEF PlanAgent, dagVars, Running
<1>7. CASE PlanReady
  <2>1. /\ PlanOrDefault \in Seq(R)
        /\ Len(PlanOrDefault) <= MaxAgents
    <3>1. 1 \in 1 .. MaxAgents
      BY SwarmAssumption
    <3>2. <<Spec0(Fresh[1], Fresh[1], {})>> \in Seq(R)
      BY <3>1, SwarmAssumption DEF Spec0
    <3>3. Len(<<Spec0(Fresh[1], Fresh[1], {})>>) <= MaxAgents
      BY SwarmAssumption
    <3> QED
      BY <3>2, <3>3 DEF PlanOrDefault
  <2>2. PICK producers \in SUBSET DOMAIN PlanOrDefault :
          specs' = Chained(PlanOrDefault, producers)
    BY <1>7 DEF PlanReady
  <2>3. specs' \in Seq(R) /\ Len(specs') <= MaxAgents
    <3>1. Ids \subseteq P
      OBVIOUS
    <3> HIDE DEF P
    <3>2. PlanOrDefault \in Seq([name : P, id : Ids, refs : SUBSET P])
      BY <2>1
    <3> QED
      BY <2>1, <2>2, <3>1, <3>2, ChainedType
  <2> QED
    BY <1>7, <2>3 DEF PlanReady, Goto, dagVars, Points, Running
<1>8. CASE CheckPlan
  <2>1. <<"cycle">> \in Seq(Events)
    BY <1>s DEF Events
  <2>2. indegree' \in [Ids -> Int]
    BY <1>8, PlanIsFinite DEF CheckPlan
  <2>3. pc' \in Points /\ log' \in Seq(Events)
    BY <1>8, <2>1, <1>e DEF CheckPlan, Emit, Points
  <2> QED
    BY <1>8, <2>2, <2>3 DEF CheckPlan, Running
<1>9. CASE SubmitLayer
  <2>1. task' \in [Ids -> Stages] /\ given' \in [Ids -> SUBSET Ids]
    BY <1>9, PlanIsFinite DEF SubmitLayer, Stages
  <2>2. Running' \subseteq Running
    BY <1>9 DEF SubmitLayer, Running
  <2> QED
    BY <1>9, <2>1, <2>2, <1>k DEF SubmitLayer, Goto, Points
<1>10. CASE JoinLayer
  <2>1. task' \in [Ids -> Stages]
    BY <1>10 DEF JoinLayer, Stages
  <2>2. indegree' \in [Ids -> Int]
    <3>1. ASSUME NEW a, NEW T PROVE TakenOff(a, T) \in Int
      <4>1. Cardinality(Deps(a) \cap T) \in Nat /\ Copies(a) \in Nat
        BY PlanIsFinite, FS_Subset, FS_CardinalityType
      <4>2. \A m, n \in Nat : m * n \in Int
        OBVIOUS
      <4> QED
        BY <4>1, <4>2 DEF TakenOff
    <3> QED
      BY <1>10, <3>1 DEF JoinLayer
  <2>3. Running' \subseteq Running
    BY <1>10 DEF JoinLayer, Running
  <2> QED
    BY <1>10, <2>1, <2>2, <2>3, <1>k DEF JoinLayer, Goto, Points
<1>11. CASE LayersEnd
  <2>1. <<>> \in Seq(Events) /\ <<"stuck">> \in Seq(Events)
    BY <1>s, EmptySeq DEF Events
  <2> QED
    BY <1>11, <2>1, <1>e DEF LayersEnd, Goto, Emit, dagVars, Points, Running
<1>12. CASE Answer
  BY <1>12, <1>r, <1>e DEF Answer, Goto, Emit, dagVars, Points, Running
<1>13. CASE WriteOutcome
  BY <1>13 DEF WriteOutcome, Goto, dagVars, Points, Running
<1>14. CASE SwarmCrashes
  <2>1. <<"crashed", "answer", "finished">> \in Seq(Events)
    BY <1>s DEF Events
  <2> QED
    BY <1>14, <2>1, <1>e DEF SwarmCrashes, Emit, dagVars, Points, Running
<1>15. ASSUME NEW a \in Ids, StartAgent(a) PROVE SwarmTypeOK'
  <2>1. Running' = Running \cup {a}
    BY <1>15 DEF StartAgent, Running
  <2>2. Cardinality(Running') <= Width
    <3>1. Cardinality(Running \cup {a}) \in {Cardinality(Running), Cardinality(Running) + 1}
      BY <1>0, FS_AddElement
    <3>2. Cardinality(Running) < Width
      BY <1>15 DEF StartAgent
    <3> QED
      BY <2>1, <3>1, <3>2, <1>0, SwarmAssumption
  <2> QED
    BY <1>15, <2>2 DEF StartAgent, Stages
<1>16. ASSUME NEW a \in Ids, AgentReturns(a) PROVE SwarmTypeOK'
  <2>1. Running' \subseteq Running
    BY <1>16 DEF AgentReturns, Running
  <2> QED
    BY <1>16, <2>1, <1>k DEF AgentReturns, Stages
<1>17. ASSUME NEW a \in Ids, AgentRaises(a) PROVE SwarmTypeOK'
  <2>1. Running' \subseteq Running
    BY <1>17 DEF AgentRaises, Running
  <2>2. crashes' \in 0 .. MaxCrashes
    BY <1>17, SwarmAssumption DEF AgentRaises
  <2> QED
    BY <1>17, <2>1, <2>2, <1>k DEF AgentRaises, Stages
<1>18. CASE UNCHANGED vars
  BY <1>18 DEF vars, dagVars, Running
<1> QED
  BY <1>1, <1>2, <1>3, <1>4, <1>5, <1>6, <1>7, <1>8, <1>9, <1>10, <1>11,
     <1>12, <1>13, <1>14, <1>15, <1>16, <1>17, <1>18 DEF Next, Thread

(* The types hold before the first intent. *)
LEMMA TypesInit == Init => SwarmTypeOK
<1> SUFFICES ASSUME Init PROVE SwarmTypeOK
  OBVIOUS
<1>1. Running = {}
  BY DEF Init, Running
<1>2. Cardinality(Running) <= Width
  BY <1>1, FS_EmptySet, SwarmAssumption
<1> QED
  BY <1>2, SwarmAssumption DEF Init, SwarmTypeOK, Points, Kinds, Stages

(* Every variable keeps its type, and the pool its bound, in every run of  *)
(* the swarm.                                                              *)
THEOREM SwarmTypes == SwarmSpec => []SwarmTypeOK
  BY TypesInit, TypesKept, PTL DEF SwarmSpec

---------------------------------------------------------------------------
(* With the specs, everything read off them stays.                         *)
LEMMA PlanKept ==
  ASSUME specs' = specs
  PROVE  /\ SpecIds' = SpecIds /\ UniqueIds' = UniqueIds /\ HasCycle' = HasCycle
         /\ \A a : Deps(a)' = Deps(a)
  BY DEF SpecIds, UniqueIds, Copies, HasCycle, Deps, LastOf

(* The steps of the thread between the planned graph and the pool.         *)
LEMMA QuietStep ==
  ASSUME DagInv, SwarmTypeOK', UNCHANGED <<specs, indegree, task, given>>,
         pc' \in Early => pc \in Early,
         pc = "pool" => pc' = "pool",
         pc' \in {"layer", "pool"} => pc = pc',
         pc' \in {"answer", "outcome"} => pc \in {"answer", "outcome"}
  PROVE  DagInv'
<1>1. /\ SpecIds' = SpecIds /\ UniqueIds' = UniqueIds /\ HasCycle' = HasCycle
      /\ \A a : Deps(a)' = Deps(a)
  BY PlanKept
<1>2. Outputs' = Outputs /\ Remaining' = Remaining
  BY <1>1 DEF Outputs, Remaining
<1>3. Phases'
  BY <1>1 DEF DagInv, Phases
<1>4. Counts'
  BY <1>1, <1>2 DEF DagInv, Counts
<1>5. InputsAreReady'
  BY <1>1, <1>2 DEF DagInv, InputsAreReady
<1>6. Ends'
  BY <1>1, <1>2 DEF DagInv, Ends, RunOrRefused
<1> QED
  BY <1>3, <1>4, <1>5, <1>6 DEF DagInv

(* While the plan is made no agent has left its place.                     *)
LEMMA PlanningStep ==
  ASSUME DagInv, SwarmTypeOK', pc \in Early, pc' \in Early,
         UNCHANGED <<indegree, task, given>>
  PROVE  DagInv'
<1>1. \A a \in Ids : task'[a] = "waiting"
  BY DEF DagInv, Phases
<1>2. SpecIds' \subseteq Ids
  <2> DEFINE R == [name : Names \cup Ids, id : Ids, refs : SUBSET (Names \cup Ids)]
  <2>1. DOMAIN specs' = 1 .. Len(specs') /\ \A i \in 1 .. Len(specs') : specs'[i] \in R
    BY LenProperties, ElementOfSeq DEF SwarmTypeOK
  <2>2. \A i \in DOMAIN specs' : specs'[i].id \in Ids
    BY <2>1
  <2> QED
    BY <2>2 DEF SpecIds
<1>3. Phases'
  BY <1>1 DEF Phases
<1>4. Counts' /\ Ends'
  BY DEF Counts, Ends, Early
<1>5. InputsAreReady'
  BY <1>1, <1>2 DEF InputsAreReady
<1> QED
  BY <1>3, <1>4, <1>5 DEF DagInv

(* The steps of the agents in the pool.                                    *)
LEMMA PoolStep ==
  ASSUME DagInv, SwarmTypeOK', NEW a \in Ids,
         NEW to \in {"running", "returned", "raised"},
         task[a] \in {"queued", "running"}, task' = [task EXCEPT ![a] = to],
         UNCHANGED <<pc, specs, indegree, given>>
  PROVE  DagInv'
<1>1. /\ SpecIds' = SpecIds /\ UniqueIds' = UniqueIds /\ HasCycle' = HasCycle
      /\ \A b : Deps(b)' = Deps(b)
  BY PlanKept
<1>2. pc = "pool" /\ a \in SpecIds
  BY DEF DagInv, Phases
<1>3. /\ \A b \in Ids : task'[b] = IF b = a THEN to ELSE task[b]
      /\ SpecIds \subseteq Ids
  BY PlanIsFinite DEF DagInv, SwarmTypeOK
<1>4. Outputs' = Outputs
  BY <1>1, <1>3 DEF Outputs
<1>5. Phases'
  BY <1>1, <1>2, <1>3 DEF DagInv, Phases, Early
<1>6. Counts'
  BY <1>1, <1>4 DEF DagInv, Counts
<1>7. InputsAreReady'
  BY <1>1, <1>3, <1>4 DEF DagInv, InputsAreReady
<1>8. Ends'
  BY <1>1, <1>2 DEF DagInv, Ends
<1> QED
  BY <1>5, <1>6, <1>7, <1>8 DEF DagInv

(* The in-degrees of an accepted plan: every input is missing.             *)
LEMMA CheckPlanStep == DagInv /\ SwarmTypeOK' /\ CheckPlan => DagInv'
<1> SUFFICES ASSUME DagInv, SwarmTypeOK', CheckPlan PROVE DagInv'
  OBVIOUS
<1>1. /\ SpecIds' = SpecIds /\ UniqueIds' = UniqueIds /\ HasCycle' = HasCycle
      /\ \A a : Deps(a)' = Deps(a)
  BY PlanKept DEF CheckPlan
<1>2. /\ \A a \in Ids : task[a] = "waiting" /\ task'[a] = "waiting"
      /\ SpecIds \subseteq Ids
  BY PlanIsFinite DEF CheckPlan, DagInv, Phases, Early
<1>3. Outputs' = {}
  BY <1>1, <1>2 DEF Outputs
<1>4. Phases'
  BY <1>2 DEF Phases
<1>5. InputsAreReady'
  BY <1>1, <1>2 DEF InputsAreReady
<1>6. CASE HasCycle
  <2>1. pc' = "answer"
    BY <1>6 DEF CheckPlan
  <2>2. Ends'
    BY <1>1, <1>2, <1>6, <2>1 DEF Ends, RunOrRefused
  <2> QED
    BY <1>4, <1>5, <2>1, <2>2 DEF DagInv, Counts
<1>7. CASE ~HasCycle
  <2>1. pc' = "layer"
    BY <1>7 DEF CheckPlan
  <2>2. \A a \in SpecIds : indegree'[a] = Cardinality(Deps(a))
    BY <1>2, <1>7 DEF CheckPlan
  <2>3. \A a : Deps(a) \ {} = Deps(a)
    OBVIOUS
  <2>4. Counts'
    BY <1>1, <1>3, <2>2, <2>3 DEF Counts
  <2>5. Ends'
    BY <1>1, <1>7, <2>1 DEF Ends
  <2> QED
    BY <1>4, <1>5, <2>4, <2>5 DEF DagInv
<1> QED
  BY <1>6, <1>7

(* An agent whose count is zero has all its inputs.                        *)
LEMMA SubmitLayerStep == DagInv /\ SwarmTypeOK' /\ SubmitLayer => DagInv'
<1> SUFFICES ASSUME DagInv, SwarmTypeOK', SubmitLayer PROVE DagInv'
  OBVIOUS
<1>1. /\ SpecIds' = SpecIds /\ UniqueIds' = UniqueIds /\ HasCycle' = HasCycle
      /\ \A a : Deps(a)' = Deps(a)
  BY PlanKept DEF SubmitLayer
<1>2. pc = "layer" /\ pc' = "pool" /\ indegree' = indegree
  BY DEF SubmitLayer, Goto
<1>3. /\ \A a \in Ids : task'[a] = IF a \in Ready THEN "queued" ELSE task[a]
      /\ \A a \in Ids : given'[a] = IF a \in Ready THEN Deps(a) \cap Outputs
                                                   ELSE given[a]
      /\ SpecIds \subseteq Ids
      /\ Ready \subseteq SpecIds
  BY PlanIsFinite DEF SubmitLayer, DagInv, Ready, Remaining
<1>4. Outputs' = Outputs
  BY <1>1, <1>3 DEF Outputs, Ready, Remaining
<1>5. Phases'
  BY <1>1, <1>2, <1>3 DEF DagInv, Phases, Early
<1>6. Counts'
  BY <1>1, <1>2, <1>4 DEF DagInv, Counts
<1>7. ASSUME UniqueIds, NEW a \in Ready PROVE Deps(a) \subseteq Outputs
  <2>1. Cardinality(Deps(a) \ Outputs) = 0
    BY <1>2, <1>7 DEF DagInv, Counts, Ready, Remaining
  <2>2. IsFiniteSet(Deps(a) \ Outputs)
    BY PlanIsFinite, FS_Subset DEF DagInv
  <2>3. Deps(a) \ Outputs = {}
    BY <2>1, <2>2, FS_EmptySet
  <2> QED
    BY <2>3
<1>8. InputsAreReady'
  <2> SUFFICES ASSUME UniqueIds, NEW a \in SpecIds, task'[a] # "waiting"
               PROVE  Deps(a) \subseteq Outputs /\ given'[a] = Deps(a)
    BY <1>1, <1>4 DEF InputsAreReady
  <2>1. CASE a \in Ready
    BY <1>3, <1>7, <2>1
  <2>2. CASE a \notin Ready
    BY <1>3, <2>2 DEF DagInv, InputsAreReady
  <2> QED
    BY <2>1, <2>2
<1>9. Ends'
  BY <1>1, <1>2 DEF DagInv, Ends
<1> QED
  BY <1>5, <1>6, <1>8, <1>9 DEF DagInv

(* The agents that returned are taken off the counts of those that wait    *)
(* for them, and nothing else is.                                          *)
LEMMA JoinLayerStep == DagInv /\ SwarmTypeOK' /\ JoinLayer => DagInv'
<1> SUFFICES ASSUME DagInv, SwarmTypeOK', JoinLayer PROVE DagInv'
  OBVIOUS
<1> DEFINE returned == {a \in SpecIds : task[a] = "returned"}
<1>1. /\ SpecIds' = SpecIds /\ UniqueIds' = UniqueIds /\ HasCycle' = HasCycle
      /\ \A a : Deps(a)' = Deps(a)
  BY PlanKept DEF JoinLayer
<1>2. pc = "pool" /\ pc' = "layer" /\ given' = given
  BY DEF JoinLayer, Goto
<1>3. /\ \A a \in Ids : task'[a] = CASE task[a] = "returned" -> "done"
                                    [] task[a] = "raised"   -> "waiting"
                                    [] OTHER                -> task[a]
      /\ \A a \in SpecIds : indegree'[a] = indegree[a] - TakenOff(a, returned)
      /\ SpecIds \subseteq Ids
  BY PlanIsFinite DEF JoinLayer, DagInv
<1>4. \A a \in Ids : task[a] \in {"waiting", "returned", "raised", "done"}
  BY DEF JoinLayer, InPool, DagInv, SwarmTypeOK, Stages
<1>5. Outputs' = Outputs \cup returned /\ Outputs \cap returned = {}
  BY <1>1, <1>3 DEF Outputs
<1>6. Phases'
  BY <1>1, <1>2, <1>3, <1>4 DEF DagInv, Phases, Early
<1>7. Counts'
  <2> SUFFICES ASSUME UniqueIds, NEW a \in SpecIds
               PROVE  indegree'[a] = Cardinality(Deps(a) \ Outputs')
    BY <1>1 DEF Counts
  <2>1. indegree[a] = Cardinality(Deps(a) \ Outputs)
    BY <1>2 DEF DagInv, Counts
  <2>2. TakenOff(a, returned) = Cardinality(Deps(a) \cap returned)
    <3>1. Copies(a) = 1
      BY DEF UniqueIds
    <3>2. Cardinality(Deps(a) \cap returned) \in Nat
      BY PlanIsFinite, FS_Subset, FS_CardinalityType DEF DagInv
    <3> QED
      BY <3>1, <3>2 DEF TakenOff
  <2>3. IsFiniteSet(Deps(a) \ Outputs) /\ IsFiniteSet(Deps(a) \cap returned)
    BY PlanIsFinite, FS_Subset DEF DagInv
  <2>4. /\ (Deps(a) \ Outputs) \ (Deps(a) \cap returned) = Deps(a) \ Outputs'
        /\ (Deps(a) \ Outputs) \cap (Deps(a) \cap returned) = Deps(a) \cap returned
    BY <1>5
  <2>5. Cardinality(Deps(a) \ Outputs')
          = Cardinality(Deps(a) \ Outputs) - Cardinality(Deps(a) \cap returned)
    <3> DEFINE D == Deps(a) \ Outputs
               T == Deps(a) \cap returned
    <3>1. Cardinality(D \ T) = Cardinality(D) - Cardinality(D \cap T)
      <4> HIDE DEF D, T
      <4> QED
        BY <2>3, FS_Difference DEF D, T
    <3>2. D \ T = Deps(a) \ Outputs' /\ D \cap T = T
      BY <2>4
    <3> HIDE DEF D, T
    <3> QED
      BY <3>1, <3>2 DEF D, T
  <2> QED
    BY <1>3, <2>1, <2>2, <2>5
<1>8. InputsAreReady'
  <2> SUFFICES ASSUME UniqueIds, NEW a \in SpecIds, task'[a] # "waiting"
               PROVE  Deps(a) \subseteq Outputs' /\ given'[a] = Deps(a)
    BY <1>1 DEF InputsAreReady
  <2>1. task[a] # "waiting"
    BY <1>3, <1>4
  <2> QED
    BY <1>2, <1>5, <2>1 DEF DagInv, InputsAreReady
<1>9. Ends'
  BY <1>1, <1>2 DEF DagInv, Ends
<1> QED
  BY <1>6, <1>7, <1>8, <1>9 DEF DagInv

(* Without a ready agent nothing remains: the remaining ones would all     *)
(* have a remaining input.                                                 *)
LEMMA LayersEndStep == DagInv /\ SwarmTypeOK' /\ LayersEnd => DagInv'
<1> SUFFICES ASSUME DagInv, SwarmTypeOK', LayersEnd PROVE DagInv'
  OBVIOUS
<1>1. /\ SpecIds' = SpecIds /\ UniqueIds' = UniqueIds /\ HasCycle' = HasCycle
      /\ \A a : Deps(a)' = Deps(a)
  BY PlanKept DEF LayersEnd
<1>2. /\ pc = "layer" /\ pc' = "answer" /\ Ready = {}
      /\ UNCHANGED <<task, given, indegree>>
  BY DEF LayersEnd, Goto, dagVars
<1>3. Outputs' = Outputs /\ Remaining' = Remaining
  BY <1>1, <1>2 DEF Outputs, Remaining
<1>4. Phases'
  BY <1>1, <1>2 DEF DagInv, Phases, Early
<1>5. InputsAreReady'
  BY <1>1, <1>2, <1>3 DEF DagInv, InputsAreReady
<1>6. ASSUME UniqueIds PROVE Remaining = {}
  <2>1. ASSUME NEW a \in Remaining PROVE Deps(a) \cap Remaining # {}
    <3>1. a \in SpecIds /\ indegree[a] # 0
      BY <1>2 DEF Ready, Remaining
    <3>2. Cardinality(Deps(a) \ Outputs) # 0
      BY <1>2, <1>6, <3>1 DEF DagInv, Counts
    <3>3. IsFiniteSet(Deps(a) \ Outputs)
      BY PlanIsFinite, FS_Subset DEF DagInv
    <3>4. Deps(a) \ Outputs # {}
      BY <3>2, <3>3, FS_EmptySet
    <3>5. Deps(a) \subseteq SpecIds
      BY PlanIsFinite DEF DagInv
    <3> QED
      BY <3>4, <3>5 DEF Remaining, Outputs
  <2>2. Remaining \subseteq SpecIds /\ ~HasCycle
    BY <1>2 DEF Remaining, DagInv, Ends
  <2> QED
    BY <2>1, <2>2 DEF HasCycle
<1>7. Ends'
  BY <1>1, <1>2, <1>3, <1>6 DEF DagInv, Ends, RunOrRefused
<1> QED
  BY <1>2, <1>4, <1>5, <1>7 DEF DagInv, Counts

(* Before a plan there is nothing to count. *)
LEMMA DagInit == Init => DagInv
<1> SUFFICES ASSUME Init PROVE DagInv
  OBVIOUS
<1>1. SpecIds = {}
  BY DEF Init, SpecIds
<1>2. SwarmTypeOK
  BY TypesInit
<1> QED
  BY <1>1, <1>2 DEF DagInv, Init, Phases, Counts, InputsAreReady, Ends

(* Every step of a swarm keeps the invariant of its executor. *)
LEMMA DagKept == DagInv /\ [Next]_vars => DagInv'
<1> SUFFICES ASSUME DagInv, [Next]_vars PROVE DagInv'
  OBVIOUS
<1>0. SwarmTypeOK'
  BY TypesKept DEF DagInv
<1>1. CASE SubmitIntent \/ StartSwarm \/ ResolveProject
  BY <1>0, <1>1, QuietStep
     DEF SubmitIntent, StartSwarm, ResolveProject, Goto, dagVars, Early
<1>2. CASE Triage
  BY <1>0, <1>2, QuietStep DEF Triage, Reply, dagVars, Early
<1>3. CASE Clarify
  <2>1. pc = "clarify" /\ pc' \in {"closed", "resolve"}
    BY <1>3 DEF Clarify, Reply
  <2> QED
    BY <1>0, <1>3, <2>1, QuietStep DEF Clarify, dagVars, Early
<1>4. CASE PlanAgent \/ PlanReady
  BY <1>0, <1>4, PlanningStep DEF PlanAgent, PlanReady, Goto, dagVars, Early
<1>5. CASE CheckPlan
  BY <1>0, <1>5, CheckPlanStep
<1>6. CASE SubmitLayer
  BY <1>0, <1>6, SubmitLayerStep
<1>7. CASE JoinLayer
  BY <1>0, <1>7, JoinLayerStep
<1>8. CASE LayersEnd
  BY <1>0, <1>8, LayersEndStep
<1>9. CASE Answer \/ WriteOutcome \/ SwarmCrashes
  BY <1>0, <1>9, QuietStep
     DEF Answer, WriteOutcome, SwarmCrashes, Goto, dagVars, Early
<1>10. ASSUME NEW a \in Ids, StartAgent(a) PROVE DagInv'
  <2>1. /\ task[a] \in {"queued", "running"}
        /\ task' = [task EXCEPT ![a] = "running"]
        /\ UNCHANGED <<pc, specs, indegree, given>>
    BY <1>10 DEF StartAgent
  <2> HIDE DEF DagInv
  <2> QED
    BY <1>0, <2>1, PoolStep
<1>11. ASSUME NEW a \in Ids, AgentReturns(a) PROVE DagInv'
  <2>1. /\ task[a] \in {"queued", "running"}
        /\ task' = [task EXCEPT ![a] = "returned"]
        /\ UNCHANGED <<pc, specs, indegree, given>>
    BY <1>11 DEF AgentReturns
  <2> HIDE DEF DagInv
  <2> QED
    BY <1>0, <2>1, PoolStep
<1>12. ASSUME NEW a \in Ids, AgentRaises(a) PROVE DagInv'
  <2>1. /\ task[a] \in {"queued", "running"}
        /\ task' = [task EXCEPT ![a] = "raised"]
        /\ UNCHANGED <<pc, specs, indegree, given>>
    BY <1>12 DEF AgentRaises
  <2> HIDE DEF DagInv
  <2> QED
    BY <1>0, <2>1, PoolStep
<1>13. CASE UNCHANGED vars
  BY <1>0, <1>13, QuietStep DEF vars, dagVars
<1> QED
  BY <1>1, <1>2, <1>3, <1>4, <1>5, <1>6, <1>7, <1>8, <1>9, <1>10, <1>11,
     <1>12, <1>13 DEF Next, Thread

(* With one spec to an id, an agent enters the pool with the output of     *)
(* every agent it depends on, whatever the graph and however often spawns  *)
(* raise.                                                                  *)
THEOREM AgentsGetTheirInputs == SwarmSpec => []InputsAreReady
<1>1. DagInv => InputsAreReady
  BY DEF DagInv
<1> QED
  BY <1>1, DagInit, DagKept, PTL DEF SwarmSpec

(* With one spec to an id, an acyclic plan runs to its last agent: the     *)
(* executor is never stuck.  A cyclic plan is refused before any agent.    *)
THEOREM PlansRunOrAreRefused == SwarmSpec => []PlanIsRunOrRefused
<1>1. DagInv => PlanIsRunOrRefused
  BY DEF DagInv, Ends, RunOrRefused, PlanIsRunOrRefused
<1> QED
  BY <1>1, DagInit, DagKept, PTL DEF SwarmSpec

---------------------------------------------------------------------------
(* Answered is kept by appending events that have it.                      *)
LEMMA AnsweredAppends ==
  ASSUME NEW s \in Seq(Events), NEW t \in Seq(Events), Answered(s), Answered(t)
  PROVE  /\ Answered(s \o t)
         /\ \A i \in 1 .. Len(t) : (s \o t)[Len(s) + i] = t[i]
         /\ \A i \in 1 .. Len(s) : (s \o t)[i] = s[i]
         /\ Len(s \o t) = Len(s) + Len(t)
<1>1. /\ Len(s) \in Nat /\ Len(t) \in Nat /\ Len(s \o t) = Len(s) + Len(t)
      /\ \A i \in 1 .. Len(s) : (s \o t)[i] = s[i]
      /\ \A i \in 1 .. Len(t) : (s \o t)[Len(s) + i] = t[i]
  BY LenProperties, ConcatProperties
<1>2. ASSUME NEW i \in 1 .. Len(s) + Len(t), (s \o t)[i] = "finished"
      PROVE  \E j \in 1 .. i - 1 : (s \o t)[j] = "answer"
  <2>1. CASE i \in 1 .. Len(s)
    <3>1. PICK j \in 1 .. i - 1 : s[j] = "answer"
      BY <1>1, <1>2, <2>1 DEF Answered
    <3>2. j \in 1 .. Len(s)
      BY <1>1, <2>1
    <3> QED
      BY <1>1, <3>1, <3>2
  <2>2. CASE i \notin 1 .. Len(s)
    <3>1. i - Len(s) \in 1 .. Len(t) /\ i = Len(s) + (i - Len(s))
      BY <1>1, <2>2
    <3>2. t[i - Len(s)] = "finished"
      BY <1>1, <1>2, <3>1
    <3>3. PICK j \in 1 .. (i - Len(s)) - 1 : t[j] = "answer"
      BY <3>1, <3>2 DEF Answered
    <3>4. j \in 1 .. Len(t) /\ Len(s) + j \in 1 .. i - 1
      BY <1>1, <3>1
    <3>5. (s \o t)[Len(s) + j] = "answer"
      BY <1>1, <3>3, <3>4
    <3> QED
      BY <3>4, <3>5
  <2> QED
    BY <2>1, <2>2
<1> QED
  BY <1>1, <1>2 DEF Answered

(* A reply that ends in an answer and "finished" closes the run.           *)
LEMMA ReplyCloses ==
  ASSUME SwarmTypeOK, Answered(log), NEW t \in Seq(Events), Answered(t),
         log' = log \o t, NEW n \in 1 .. Len(t), t[n] = "finished"
  PROVE  Finishes'
<1>1. /\ Answered(log \o t) /\ (log \o t)[Len(log) + n] = "finished"
      /\ Len(log \o t) = Len(log) + Len(t) /\ Len(log) \in Nat /\ Len(t) \in Nat
  BY AnsweredAppends, LenProperties DEF SwarmTypeOK
<1>2. Len(log) + n \in 1 .. Len(log \o t)
  BY <1>1
<1> QED
  BY <1>1, <1>2 DEF Finishes

(* A single event other than "finished" keeps the log answered.            *)
LEMMA EventKeeps ==
  ASSUME SwarmTypeOK, Answered(log), NEW e \in Events \ {"finished"},
         log' = log \o <<e>>
  PROVE  Answered(log')
<1>1. <<e>> \in Seq(Events) /\ Answered(<<e>>)
  BY DEF Answered
<1> QED
  BY <1>1, AnsweredAppends DEF SwarmTypeOK

(* A finished follows its answer, and nothing takes an answer back. *)
LEMMA FinishesKept == SwarmTypeOK /\ Finishes /\ [Next]_vars => Finishes'
<1> SUFFICES ASSUME SwarmTypeOK, Finishes, [Next]_vars PROVE Finishes'
  OBVIOUS
<1>a. Answered(log)
  BY DEF Finishes
<1>b. \A e, f, g \in Events : <<e, f>> \in Seq(Events) /\ <<e, f, g>> \in Seq(Events)
  OBVIOUS
<1>c. {"answer", "finished", "crashed"} \subseteq Events
  BY DEF Events
<1>d. ASSUME log' = log \o <<"answer", "finished">> PROVE Finishes'
  <2> DEFINE t == <<"answer", "finished">>
  <2>0. Len(t) = 2 /\ t[1] = "answer" /\ t[2] = "finished"
    OBVIOUS
  <2>s. t \in Seq(Events)
    BY <1>b, <1>c
  <2> HIDE DEF t
  <2>1. 2 \in 1 .. Len(t) /\ t[2] = "finished"
    BY <2>0
  <2>2. Answered(t)
    <3>1. \A i \in 1 .. 2 : t[i] = "finished" => i = 2
      BY <2>0
    <3>2. 2 - 1 \in 1 .. 2 - 1
      OBVIOUS
    <3> QED
      BY <2>0, <3>1, <3>2 DEF Answered
  <2> QED
    BY <1>a, <1>d, <2>s, <2>1, <2>2, ReplyCloses DEF t
<1>e. ASSUME log' = log \o <<"crashed", "answer", "finished">>
      PROVE  Finishes'
  <2> DEFINE t == <<"crashed", "answer", "finished">>
  <2>0. Len(t) = 3 /\ t[1] = "crashed" /\ t[2] = "answer" /\ t[3] = "finished"
    OBVIOUS
  <2>s. t \in Seq(Events)
    BY <1>b, <1>c
  <2> HIDE DEF t
  <2>1. 3 \in 1 .. Len(t) /\ t[3] = "finished"
    BY <2>0
  <2>2. Answered(t)
    <3>1. \A i \in 1 .. 3 : t[i] = "finished" => i = 3
      BY <2>0
    <3>2. 3 - 1 \in 1 .. 3 - 1
      OBVIOUS
    <3> QED
      BY <2>0, <3>1, <3>2 DEF Answered
  <2> QED
    BY <1>a, <1>e, <2>s, <2>1, <2>2, ReplyCloses DEF t
<1>f. ASSUME log' = log, pc' \in {"outcome", "closed"} => pc \in {"outcome", "closed"}
      PROVE  Finishes'
  BY <1>f DEF Finishes
<1>g. ASSUME NEW e \in Events \ {"finished"}, log' = log \o <<e>>,
             pc' \notin {"outcome", "closed"}
      PROVE  Finishes'
  BY <1>a, <1>g, EventKeeps DEF Finishes
<1>1. CASE StartSwarm
  BY <1>1, <1>g DEF StartSwarm, Goto, Emit, Events
<1>2. CASE Triage
  BY <1>2, <1>d, <1>f DEF Triage, Reply, Emit
<1>3. CASE Clarify
  <2>1. Reply \/ (pc' = "resolve" /\ log' = log)
    BY <1>3 DEF Clarify
  <2> QED
    BY <2>1, <1>d, <1>f DEF Reply, Emit
<1>4. CASE CheckPlan
  BY <1>4, <1>f, <1>g DEF CheckPlan, Emit, Events
<1>5. CASE LayersEnd
  <2>1. log \o <<>> = log
    BY DEF SwarmTypeOK
  <2> QED
    BY <1>5, <2>1, <1>f, <1>g DEF LayersEnd, Goto, Emit, Events
<1>6. CASE Answer
  BY <1>6, <1>d DEF Answer, Emit
<1>7. CASE SwarmCrashes
  BY <1>7, <1>e DEF SwarmCrashes, Emit
<1>8. CASE SubmitIntent \/ ResolveProject \/ PlanAgent \/ PlanReady
           \/ SubmitLayer \/ JoinLayer \/ WriteOutcome
  BY <1>8, <1>f DEF SubmitIntent, ResolveProject, PlanAgent, PlanReady,
                    SubmitLayer, JoinLayer, WriteOutcome, Goto
<1>9. CASE \E a \in Ids : StartAgent(a) \/ AgentReturns(a) \/ AgentRaises(a)
  BY <1>9, <1>f DEF StartAgent, AgentReturns, AgentRaises
<1>10. CASE UNCHANGED vars
  BY <1>10, <1>f DEF vars
<1> QED
  BY <1>1, <1>2, <1>3, <1>4, <1>5, <1>6, <1>7, <1>8, <1>9, <1>10
     DEF Next, Thread

(* A client that follows a run to its first "finished" has its answer,     *)
(* whichever way the run ended, crashes of the orchestrator included.      *)
THEOREM RunsAreAnswered == SwarmSpec => []AnsweredBeforeFinished
<1>1. Init => Finishes
  BY EmptySeq DEF Init, Finishes, Answered
<1>2. SwarmTypeOK /\ Finishes => AnsweredBeforeFinished
  BY LenProperties DEF SwarmTypeOK, Finishes, Answered, AnsweredBeforeFinished
<1> QED
  BY <1>1, <1>2, TypesInit, TypesKept, FinishesKept, PTL DEF SwarmSpec

===========================================================================
