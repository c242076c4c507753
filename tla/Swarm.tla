------------------------------- MODULE Swarm -------------------------------
(***************************************************************************)
(* One intent of the single-user server, from POST /v1/intents to the      *)
(* end of its thread: surface/server.py (submit_intent), control/          *)
(* orchestrator.py (start_swarm_with_id), control/planner_llm.py and the   *)
(* layers of control/dag.py.                                               *)
(*                                                                         *)
(* The intent is triaged and answered at once, or sent back with a         *)
(* question, or planned as a graph of agents.  The executor submits every  *)
(* agent whose dependencies are in to a pool of Width threads, waits for   *)
(* the whole layer, and starts again until no agent remains.               *)
(*                                                                         *)
(* A planner names its agents; _spec_from_plan derives the agent's id from *)
(* the name but leaves depends_on as the planner wrote it.  The events     *)
(* recorded are the run-level ones a client waits for, and the reason of   *)
(* an error: "project_dir", "plan" and the agents' own events are not.     *)
(***************************************************************************)
EXTENDS Naturals, Integers, Sequences, FiniteSets

CONSTANTS
  Names,         \* what a planner writes as an id, or in depends_on
  Ids,           \* ids of agents
  Prefixed,      \* id made of a well-formed name: "a-" before it if missing
  Fresh,         \* Fresh[i]: the uuid the i-th planned agent would get
  MaxAgents,     \* PLNT_MAX_AGENTS
  Width,         \* PLNT_MAX_CONCURRENCY
  MaxCrashes,    \* bound: spawns that raise (fork, pipe or disk errors)
  RungInstalled  \* get_sandbox knows the rung of PLNT_DEFAULT_ISOLATION

ASSUME SwarmAssumption ==
  /\ MaxAgents \in Nat \ {0}
  /\ Width \in Nat \ {0}
  /\ MaxCrashes \in Nat
  /\ RungInstalled \in BOOLEAN
  /\ IsFiniteSet(Ids)
  /\ Fresh \in [1 .. MaxAgents -> Ids]
  /\ DOMAIN Prefixed \subseteq Names
  /\ \A n \in DOMAIN Prefixed : Prefixed[n] \in Ids
  /\ \A i, j \in 1 .. MaxAgents : i # j => Fresh[i] # Fresh[j]
  /\ \A n \in DOMAIN Prefixed, i \in 1 .. MaxAgents : Prefixed[n] # Fresh[i]

VARIABLES
  pc,        \* where the intent's thread is
  kind,      \* kind of the triage
  specs,     \* the planned agents: name, id and depends_on of each
  indegree,  \* in_degree
  task,      \* where each agent is: waiting for its layer, in the pool, done
  given,     \* from_agents: the agents whose output was injected
  log,       \* run-level events
  crashes    \* spawns that raised

dagVars == <<indegree, task, given, crashes>>
vars    == <<pc, kind, specs, log, dagVars>>

Kinds  == {"none", "chat", "needs_clarification", "simple_task", "complex_task"}
Points == {"idle", "intent", "triage", "clarify", "resolve", "plan", "check",
           "layer", "pool", "answer", "outcome", "closed"}
Stages == {"waiting", "queued", "running", "returned", "raised", "done"}
Events == {"intent", "answer", "finished", "cycle", "stuck", "crashed"}

-----------------------------------------------------------------------------
(* The planned graph                                                       *)

SpecIds == {specs[i].id : i \in DOMAIN specs}
Copies(a) == Cardinality({i \in DOMAIN specs : specs[i].id = a})

(* specs_by_id and deps keep the last of the specs with one id.            *)
LastOf(a) ==
  CHOOSE i \in DOMAIN specs :
    /\ specs[i].id = a
    /\ \A j \in DOMAIN specs : specs[j].id = a => j <= i

(* _collect_deps: entries that are no agent's id are dropped.              *)
Deps(a) == specs[LastOf(a)].refs \cap SpecIds

(* _has_cycle: some agents wait for one another.                           *)
HasCycle ==
  \E S \in SUBSET SpecIds :
    S # {} /\ \A a \in S : Deps(a) \cap S # {}

Remaining == {a \in SpecIds : task[a] # "done"}
Outputs   == {a \in SpecIds : task[a] = "done"}

(* Variant: one input is enough.                                           *)
ReadyWithOneInput ==
  {a \in Remaining : indegree[a] = 0 \/ Deps(a) \cap Outputs # {}}

Ready     == {a \in Remaining : indegree[a] = 0}

InPool  == {a \in Ids : task[a] \in {"queued", "running"}}
Running == {a \in Ids : task[a] = "running"}

(* _spec_from_plan: a name that is malformed or already in seen_ids, the   *)
(* ids so far, gives way to a fresh id.                                    *)
AgentId(name) ==
  IF name \in DOMAIN Prefixed /\ name \notin SpecIds
  THEN Prefixed[name]
  ELSE Fresh[Len(specs) + 1]

Spec0(name, id, refs) == [name |-> name, id |-> id, refs |-> refs]

(* _default_spec: the plan when the planner has none.                      *)
PlanOrDefault ==
  IF specs = <<>> THEN <<Spec0(Fresh[1], Fresh[1], {})>> ELSE specs

(* _auto_chain_producer_consumer: with no depends_on at all and a single   *)
(* role that creates the project, the others wait for it.                  *)
Chained(plan, producers) ==
  IF /\ Len(plan) >= 2
     /\ \A i \in DOMAIN plan : plan[i].refs = {}
     /\ Cardinality(producers) = 1
  THEN LET producer == plan[CHOOSE i \in producers : TRUE].id
       IN  [i \in DOMAIN plan |->
              IF plan[i].id = producer THEN plan[i]
              ELSE [plan[i] EXCEPT !.refs = {producer}]]
  ELSE plan

-----------------------------------------------------------------------------
Init ==
  /\ pc = "idle"
  /\ kind = "none"
  /\ specs = <<>>
  /\ indegree = [a \in Ids |-> 0]
  /\ task = [a \in Ids |-> "waiting"]
  /\ given = [a \in Ids |-> {}]
  /\ log = <<>>
  /\ crashes = 0

Goto(from, to) == pc = from /\ pc' = to
Emit(events)   == log' = log \o events

(* submit_intent returns the run id; the thread does the rest.             *)
SubmitIntent ==
  /\ Goto("idle", "intent")
  /\ UNCHANGED <<kind, specs, log, dagVars>>

StartSwarm ==
  /\ Goto("intent", "triage")
  /\ Emit(<<"intent">>)
  /\ UNCHANGED <<kind, specs, dagVars>>

(* A handle without results: write_outcome returns at once.                *)
Reply == Emit(<<"answer", "finished">>) /\ pc' = "closed"

(* triage: a model that fails or does not parse makes a simple_task.       *)
(* Small talk is answered, whatever the previous turn was.                 *)
Triage ==
  /\ pc = "triage"
  /\ kind' \in Kinds \ {"none"}
  /\ IF kind' = "chat" THEN Reply ELSE pc' = "clarify" /\ log' = log
  /\ UNCHANGED <<specs, dagVars>>

(* The answer to a question of the previous turn (replying) is planned.    *)
(* Otherwise the user is asked when triage says so, or when a skill that   *)
(* matches lacks an input (missing).                                       *)
Clarify ==
  /\ pc = "clarify"
  /\ \E replying, missing \in BOOLEAN :
       /\ kind' = IF replying /\ kind = "needs_clarification"
                  THEN "complex_task" ELSE kind
       /\ IF kind' = "needs_clarification" \/ (missing /\ ~replying)
          THEN Reply ELSE pc' = "resolve" /\ log' = log
  /\ UNCHANGED <<specs, dagVars>>

ResolveProject ==
  /\ Goto("resolve", "plan")
  /\ UNCHANGED <<kind, specs, log, dagVars>>

(* One iteration of llm_planner over plan["agents"].                       *)
PlanAgent ==
  /\ pc = "plan" /\ kind = "complex_task"
  /\ Len(specs) < MaxAgents
  /\ \E name \in Names, refs \in SUBSET Names :
       specs' = Append(specs, Spec0(name, AgentId(name), refs))
  /\ UNCHANGED <<pc, kind, log, dagVars>>

(* The plan is complete, or there was none.  producers: the agents whose   *)
(* role matches _PRODUCER_RE; it is looked at only without any depends_on. *)
PlanReady ==
  /\ Goto("plan", "check")
  /\ \E producers \in SUBSET DOMAIN PlanOrDefault :
       /\ (\E i \in DOMAIN specs : specs[i].refs # {}) => producers = {}
       /\ specs' = Chained(PlanOrDefault, producers)
  /\ UNCHANGED <<kind, log, dagVars>>

(* DAGExecutor.run up to its loop.                                         *)
CheckPlan ==
  /\ pc = "check"
  /\ IF HasCycle
     THEN pc' = "answer" /\ Emit(<<"cycle">>) /\ UNCHANGED indegree
     ELSE /\ pc' = "layer" /\ log' = log
          /\ indegree' = [a \in Ids |-> IF a \in SpecIds
                                        THEN Cardinality(Deps(a)) ELSE 0]
  /\ UNCHANGED <<kind, specs, task, given, crashes>>

(* Inject what is in, pre-check the budget (which only logs), submit.      *)
SubmitLayer ==
  /\ Goto("layer", "pool")
  /\ Ready # {}
  /\ task' = [a \in Ids |-> IF a \in Ready THEN "queued" ELSE task[a]]
  /\ given' = [a \in Ids |-> IF a \in Ready THEN Deps(a) \cap Outputs
                                            ELSE given[a]]
  /\ UNCHANGED <<kind, specs, indegree, log, crashes>>

(* Variant: a layer in which nothing is ready is tried again.              *)
LayersEndWhenDone ==
  /\ Goto("layer", "answer")
  /\ Remaining = {}
  /\ Emit(<<>>)
  /\ UNCHANGED <<kind, specs, dagVars>>

LayersEnd ==
  /\ Goto("layer", "answer")
  /\ Ready = {}
  /\ Emit(IF Remaining = {} THEN <<>> ELSE <<"stuck">>)
  /\ UNCHANGED <<kind, specs, dagVars>>

-----------------------------------------------------------------------------
(* The pool                                                                *)

StartAgent(a) ==
  /\ task[a] = "queued"
  /\ Cardinality(Running) < Width
  /\ task' = [task EXCEPT ![a] = "running"]
  /\ UNCHANGED <<pc, kind, specs, indegree, given, log, crashes>>

(* The sandbox returns: the agent ended or its watchdog killed it.         *)
AgentReturns(a) ==
  /\ task[a] = "running" /\ RungInstalled
  /\ task' = [task EXCEPT ![a] = "returned"]
  /\ UNCHANGED <<pc, kind, specs, indegree, given, log, crashes>>

(* _run_one raises.  An unknown rung does so every time and is not counted.*)
AgentRaises(a) ==
  /\ task[a] = "running"
  /\ RungInstalled => crashes < MaxCrashes
  /\ task' = [task EXCEPT ![a] = "raised"]
  /\ crashes' = IF RungInstalled THEN crashes + 1 ELSE crashes
  /\ UNCHANGED <<pc, kind, specs, indegree, given, log>>

(* Variant: one is taken off for the layer, not for each of its agents.    *)
OneTakenOff(a, returned) == IF Deps(a) \cap returned = {} THEN 0 ELSE 1

(* What a layer of the agents that returned takes off an agent's count:    *)
(* its id is in the list of dependents once for every spec that has it.    *)
TakenOff(a, returned) == Copies(a) * Cardinality(Deps(a) \cap returned)

(* All futures have resolved.  An agent that raised stays in remaining.    *)
JoinLayer ==
  LET returned == {a \in SpecIds : task[a] = "returned"} IN
  /\ Goto("pool", "layer")
  /\ InPool = {}
  /\ task' = [a \in Ids |-> CASE task[a] = "returned" -> "done"
                              [] task[a] = "raised"   -> "waiting"
                              [] OTHER                -> task[a]]
  /\ indegree' = [a \in Ids |-> IF a \in SpecIds
                                THEN indegree[a] - TakenOff(a, returned)
                                ELSE indegree[a]]
  /\ UNCHANGED <<kind, specs, given, log, crashes>>

-----------------------------------------------------------------------------
(* The end of the thread                                                   *)

(* _build_user_answer always has something to say.                         *)
Answer ==
  /\ Goto("answer", "outcome")
  /\ Emit(<<"answer", "finished">>)
  /\ UNCHANGED <<kind, specs, dagVars>>

WriteOutcome ==
  /\ Goto("outcome", "closed")
  /\ UNCHANGED <<kind, specs, log, dagVars>>

(* An exception of the orchestrator: estimated_agents is no number, the    *)
(* project directory cannot be made, the integrations do not load, or the  *)
(* outcome of a run with results cannot be written.                        *)
SwarmCrashes ==
  /\ pc \in {"triage", "resolve", "plan", "outcome"}
  /\ pc = "outcome" => Outputs # {}
  /\ pc' = "closed"
  /\ Emit(<<"crashed", "answer", "finished">>)
  /\ UNCHANGED <<kind, specs, dagVars>>

Thread ==
  \/ SubmitIntent   \/ StartSwarm \/ Triage    \/ Clarify
  \/ ResolveProject \/ PlanAgent  \/ PlanReady \/ CheckPlan
  \/ SubmitLayer    \/ JoinLayer  \/ LayersEnd \/ Answer
  \/ WriteOutcome   \/ SwarmCrashes

Next ==
  \/ Thread
  \/ \E a \in Ids : StartAgent(a) \/ AgentReturns(a) \/ AgentRaises(a)

(* The thread and the pool's workers are never blocked for ever: a model   *)
(* call times out, and a sandbox returns or raises once its watchdog's     *)
(* wall clock has passed.                                                  *)
Fairness ==
  /\ WF_vars(Thread)
  /\ \A a \in Ids : /\ WF_vars(StartAgent(a))
                    /\ WF_vars(AgentReturns(a) \/ AgentRaises(a))

SwarmSpec == Init /\ [][Next]_vars /\ Fairness

-----------------------------------------------------------------------------
(* Properties                                                              *)

(* Every variable has its type, and the pool runs at most Width agents.    *)
SwarmTypeOK ==
  /\ pc \in Points
  /\ kind \in Kinds
  /\ specs \in Seq([name : Names \cup Ids, id : Ids, refs : SUBSET (Names \cup Ids)])
  /\ Len(specs) <= MaxAgents
  /\ indegree \in [Ids -> Int]
  /\ task \in [Ids -> Stages]
  /\ given \in [Ids -> SUBSET Ids]
  /\ log \in Seq(Events)
  /\ crashes \in 0 .. MaxCrashes
  /\ Cardinality(Running) <= Width

UniqueIds == \A a \in SpecIds : Copies(a) = 1

(* An agent enters the pool with the output of every agent it depends on,  *)
(* all of them done, however often a spawn raised and was submitted again: *)
(* the in-degrees of DAGExecutor.run count the inputs that are missing.    *)
InputsAreReady ==
  UniqueIds =>
    \A a \in SpecIds : task[a] # "waiting" =>
      Deps(a) \subseteq Outputs /\ given[a] = Deps(a)

(* When the executor returns, an acyclic plan has run to the last agent,   *)
(* and a cyclic one has been refused before any agent ran.                 *)
PlanIsRunOrRefused ==
  pc = "outcome" =>
    IF HasCycle THEN \A a \in SpecIds : task[a] = "waiting"
                ELSE UniqueIds => Remaining = {}

(* The stream of a run ends at its first run-level "finished": an answer   *)
(* has been recorded by then, on every path, crashes included; and the     *)
(* thread does not end without it.                                         *)
AnsweredBeforeFinished ==
  /\ \A i \in DOMAIN log : log[i] = "finished" =>
       \E j \in 1 .. i - 1 : log[j] = "answer"
  /\ pc = "closed" => \E i \in DOMAIN log : log[i] = "finished"

(* Every intent that was submitted comes to its end.                       *)
EveryIntentEnds == pc = "intent" ~> pc = "closed"

(* What the planner wrote holds: an agent that lists another by the id the *)
(* planner gave it, an id no other agent has, runs with its output.        *)
PlannedDependenciesHold ==
  \A i, j \in DOMAIN specs :
    /\ i # j
    /\ specs[j].name \in specs[i].refs
    /\ \A k \in DOMAIN specs : specs[k].name = specs[j].name => k = j
    /\ task[specs[i].id] # "waiting"
    => specs[j].id \in given[specs[i].id]

============================================================================
