---------------------------- MODULE ParentTurn ----------------------------
(***************************************************************************)
(* One turn of a session, from its user_message to its run_finished:       *)
(* plnt/executors/local.py (_turn, _turn_agent, _turn_parent) over the     *)
(* agents of MicroAgent.                                                   *)
(*                                                                         *)
(* In a session bound to a bundle the turn's own thread runs the one       *)
(* agent.  Otherwise the parent decides: it replies, or it plans up to     *)
(* MAX_AGENTS agents with dependencies, runs them wave by wave in a thread *)
(* pool, and merges their results.                                         *)
(*                                                                         *)
(* Agents are numbered in the order of the specs dictionary, which has one *)
(* entry per id: of two planned agents with one id the later is run.       *)
(* run_started and parent_decision, and the events of MicroAgent's steps,  *)
(* are not recorded in this log: no property is about them.                *)
(***************************************************************************)
EXTENDS MicroAgent

CONSTANTS
  MaxAgents,   \* parent.MAX_AGENTS: agents per message
  MaxParallel  \* MAX_PARALLEL_AGENTS: threads of the pool

ASSUME TurnAssumption ==
  /\ MaxAgents \in Nat \ {0}
  /\ Agents = 1 .. MaxAgents
  /\ MaxParallel \in Nat \ {0}

VARIABLES
  mode,      \* the session is bound to one "agent", or run by the "parent"
  pt,        \* where the turn's thread is
  plan,      \* the agents of the decision
  deps,      \* depends_on
  wave,      \* the agents submitted to the current pool
  remaining, \* planned agents that have not been joined
  results,   \* agents joined, in the order of the results dictionary
  outcome,   \* outcome of the turn
  log        \* the run's own events, in order

planVars == <<mode, plan, deps>>
turnVars == <<planVars, pt, wave, remaining, results, outcome, log>>
vars     == <<turnVars, agentVars>>

Event(kind)      == [kind |-> kind, who |-> 0]
AgentEvent(k, a) == [kind |-> k, who |-> a]
Record(kind)     == log' = Append(log, Event(kind))

(* The agents of a set, in the order of the specs dictionary.              *)
InPlanOrder(S) ==
  CHOOSE s \in [1 .. Cardinality(S) -> S] :
    \A i, j \in 1 .. Cardinality(S) : i < j => s[i] < s[j]

(* An event for each agent of a set, in plan order.                        *)
RecordEach(kind, S) ==
  log' = log \o [i \in 1 .. Cardinality(S) |->
                   AgentEvent(kind, InPlanOrder(S)[i])]

Logged(kind)   == \E i \in 1 .. Len(log) : log[i].kind = kind
Joined         == {results[i] : i \in 1 .. Len(results)}
Running        == {a \in Agents : at[a] \notin {"idle", "done"}}

(* Variant: a dependency counts as met when it is in the plan.             *)
ResolvedByPlan(a) == deps[a] \subseteq plan

Resolved(a) == deps[a] \subseteq Joined
Final(a)    == result[a] = "final"

TurnInit ==
  /\ AgentInit
  /\ mode \in {"agent", "parent"}
  /\ pt        = "start"
  /\ plan      = {}
  /\ deps      = [a \in Agents |-> {}]
  /\ wave      = {}
  /\ remaining = {}
  /\ results   = <<>>
  /\ outcome   = "error"
  /\ log       = <<>>

---------------------------------------------------------------------------
(* _turn: around the body.                                                 *)

TurnStarts ==
  /\ pt = "start"
  /\ pt' = "setup"
  /\ Record("user_message")
  /\ UNCHANGED <<planVars, wave, remaining, results, outcome, agentVars>>

(* The body logs run_error and returns this outcome, or raises, an except  *)
(* clause logs it and outcome stays "error".                               *)
TurnFails(why) ==
  /\ pt' = "finally"
  /\ outcome' = why
  /\ Record("run_error")

TurnAnswers ==
  /\ pt' = "finally"
  /\ outcome' = "ok"
  /\ Record("assistant_message")

(* The finally clause: run_finished with the outcome and state.tokens.     *)
TurnFinishes ==
  /\ pt = "finally"
  /\ pt' = "done"
  /\ Record("run_finished")
  /\ UNCHANGED <<planVars, wave, remaining, results, outcome, agentVars>>

(* No enabled install, a missing secret, an unknown model profile, ...     *)
SetupFails ==
  /\ pt = "setup"
  /\ TurnFails("error")
  /\ UNCHANGED <<planVars, wave, remaining, results, agentVars>>

---------------------------------------------------------------------------
(* _turn_agent: one agent, run by the turn's own thread.                   *)

SoloStarts ==
  /\ pt = "setup"
  /\ mode = "agent"
  /\ pt' = "solo"
  /\ plan' = {1}
  /\ Begin(1)
  /\ UNCHANGED <<mode, deps, wave, remaining, results, outcome, log>>

SoloReturns ==
  /\ pt = "solo"
  /\ at[1] = "done"
  /\ \/ Final(1) /\ TurnAnswers
     \/ result[1] = "raised" /\ TurnFails("error")
     \/ result[1] \notin {"final", "raised"} /\ TurnFails(result[1])
  /\ UNCHANGED <<planVars, wave, remaining, results, agentVars>>

---------------------------------------------------------------------------
(* _turn_parent: the decision.                                             *)

ParentStarts ==
  /\ pt = "setup"
  /\ mode = "parent"
  /\ pt' = "decide"
  /\ UNCHANGED <<planVars, wave, remaining, results, outcome, log, agentVars>>

(* A model call of the parent itself, booked while no agent is running.    *)
ParentBooks ==
  /\ \E n \in Costs : tokens' = tokens + n /\ ledger' = ledger + n
  /\ UNCHANGED <<loopVars, spent, cost, copy, seen, stop, ran, late>>

(* A ModelError before the usage is booked.                                *)
DecideFails ==
  /\ pt = "decide"
  /\ TurnFails("error")
  /\ UNCHANGED <<planVars, wave, remaining, results, agentVars>>

(* The reply is no usable decision and there is no single specialist.      *)
DecideUnusable ==
  /\ pt = "decide"
  /\ ParentBooks
  /\ TurnFails("error")
  /\ UNCHANGED <<planVars, wave, remaining, results>>

(* "chat" or "clarify".                                                    *)
DecideReplies ==
  /\ pt = "decide"
  /\ ParentBooks
  /\ TurnAnswers
  /\ UNCHANGED <<planVars, wave, remaining, results>>

(* A plan; the fallback to the only specialist is a plan of one agent.     *)
(* depends_on is filtered to other agents of the plan, and may be cyclic.  *)
DecidePlans ==
  /\ pt = "decide"
  /\ ParentBooks
  /\ pt' = "spawn"
  /\ \E n \in 1 .. MaxAgents :
       /\ plan' = 1 .. n
       /\ deps' \in {d \in [Agents -> SUBSET (1 .. n)] :
                       \A a \in Agents : a \notin d[a] /\ (a > n => d[a] = {})}
  /\ UNCHANGED <<mode, wave, remaining, results, outcome, log>>

(* Some agent's spec cannot be built: nothing was spawned yet.             *)
SpecFails ==
  /\ pt = "spawn"
  /\ TurnFails("error")
  /\ UNCHANGED <<planVars, wave, remaining, results, agentVars>>

Spawn ==
  /\ pt = "spawn"
  /\ pt' = "loop"
  /\ remaining' = plan
  /\ RecordEach("agent_spawned", plan)
  /\ UNCHANGED <<planVars, wave, results, outcome, agentVars>>

---------------------------------------------------------------------------
(* _turn_parent: the waves.                                                *)

(* while remaining and not state.stop_reason                               *)
LoopEnds ==
  /\ pt = "loop"
  /\ remaining = {} \/ stop
  /\ pt' = "skip"
  /\ UNCHANGED <<planVars, wave, remaining, results, outcome, log, agentVars>>

(* Variant: the plan that cannot be resolved ends the loop past the        *)
(* events of the agents that are left.                                     *)
LoopStuckForgets ==
  /\ pt = "loop"
  /\ remaining # {} /\ ~stop
  /\ \A a \in remaining : ~Resolved(a)
  /\ pt' = "merge"
  /\ Record("run_error")
  /\ UNCHANGED <<planVars, wave, remaining, results, outcome, agentVars>>

(* Variant: the loop goes round again when nothing is ready.               *)
LoopStuckContinues ==
  /\ pt = "loop"
  /\ remaining # {} /\ ~stop
  /\ \A a \in remaining : ~Resolved(a)
  /\ UNCHANGED vars

(* Nothing is ready: the dependencies are cyclic.                          *)
LoopStuck ==
  /\ pt = "loop"
  /\ remaining # {} /\ ~stop
  /\ \A a \in remaining : ~Resolved(a)
  /\ pt' = "skip"
  /\ Record("run_error")
  /\ UNCHANGED <<planVars, wave, remaining, results, outcome, agentVars>>

SubmitWave ==
  /\ pt = "loop"
  /\ remaining # {} /\ ~stop
  /\ \E a \in remaining : Resolved(a)
  /\ wave' = {a \in remaining : Resolved(a)}
  /\ pt' = "join"
  /\ UNCHANGED <<planVars, remaining, results, outcome, log, agentVars>>

(* A thread of the pool takes the next agent of its queue.                 *)
PoolStarts(a) ==
  /\ pt = "join"
  /\ a \in wave
  /\ \A b \in wave : b < a => at[b] # "idle"
  /\ Cardinality(Running) < MaxParallel
  /\ Begin(a)
  /\ UNCHANGED turnVars

(* The end of _run_micro: agent_finished, unless the turn is the agent's.  *)
AgentReports(a) ==
  /\ Report(a)
  /\ IF mode = "parent"
     THEN log' = Append(log, AgentEvent("agent_finished", a))
     ELSE UNCHANGED log
  /\ UNCHANGED <<planVars, pt, wave, remaining, results, outcome>>

(* Every future of the wave is done.  If one raised, the exception leaves  *)
(* the loop (after the pool was waited for) and no result of it is used.   *)
Join ==
  /\ pt = "join"
  /\ \A a \in wave : at[a] = "done"
  /\ \/ /\ \E a \in wave : result[a] = "raised"
        /\ TurnFails("error")
        /\ UNCHANGED <<remaining, results>>
     \/ /\ \A a \in wave : result[a] # "raised"
        /\ pt' = "loop"
        /\ results' = results \o InPlanOrder(wave)
        /\ remaining' = remaining \ wave
        /\ UNCHANGED <<outcome, log>>
  /\ UNCHANGED <<planVars, wave, agentVars>>

Skip ==
  /\ pt = "skip"
  /\ pt' = "merge"
  /\ RecordEach("agent_skipped", remaining)
  /\ UNCHANGED <<planVars, wave, remaining, results, outcome, agentVars>>

---------------------------------------------------------------------------
(* _turn_parent: the reply.                                                *)

MergeNothing ==
  /\ pt = "merge"
  /\ \A a \in Joined : ~Final(a)
  /\ TurnFails(IF results = <<>> THEN "error" ELSE result[results[1]])
  /\ UNCHANGED <<planVars, wave, remaining, results, agentVars>>

MergeOne ==
  /\ pt = "merge"
  /\ Len(results) = 1
  /\ Final(results[1])
  /\ TurnAnswers
  /\ UNCHANGED <<planVars, wave, remaining, results, agentVars>>

MergeMany ==
  /\ pt = "merge"
  /\ Len(results) > 1
  /\ \E a \in Joined : Final(a)
  /\ pt' = "synth"
  /\ UNCHANGED <<planVars, wave, remaining, results, outcome, log, agentVars>>

(* Variant: the failed synthesis is not logged.                            *)
SynthesizeFailsSilently ==
  /\ pt = "synth"
  /\ pt' = "finally"
  /\ UNCHANGED <<planVars, wave, remaining, results, outcome, log, agentVars>>

SynthesizeFails ==
  /\ pt = "synth"
  /\ TurnFails("error")
  /\ UNCHANGED <<planVars, wave, remaining, results, agentVars>>

Synthesize ==
  /\ pt = "synth"
  /\ ParentBooks
  /\ TurnAnswers
  /\ UNCHANGED <<planVars, wave, remaining, results>>

---------------------------------------------------------------------------
(* kill() finds the turn's thread alive.                                   *)
TurnKilled ==
  /\ pt # "done"
  /\ Kill
  /\ UNCHANGED turnVars

AgentWorks(a) == Works(a) /\ UNCHANGED turnVars

Turn ==
  \/ TurnStarts \/ TurnFinishes \/ SetupFails
  \/ SoloStarts \/ SoloReturns
  \/ ParentStarts \/ DecideFails \/ DecideUnusable \/ DecideReplies
  \/ DecidePlans \/ SpecFails \/ Spawn
  \/ LoopEnds \/ LoopStuck \/ SubmitWave \/ Join \/ Skip
  \/ MergeNothing \/ MergeOne \/ MergeMany \/ SynthesizeFails \/ Synthesize

Agent(a) == PoolStarts(a) \/ AgentWorks(a) \/ AgentReports(a)

TurnNext == Turn \/ TurnKilled \/ \E a \in Agents : Agent(a)

(* The turn's thread and the threads of the pool are scheduled fairly.     *)
TurnSpec ==
  /\ TurnInit /\ [][TurnNext]_vars
  /\ WF_vars(Turn) /\ \A a \in Agents : WF_vars(Agent(a))

---------------------------------------------------------------------------
(* Properties.                                                             *)

(* An agent runs only after every agent it depends on has reported, in the *)
(* log that a client reads as well as in the results it is given.          *)
DependenciesFirst ==
  \A a \in Agents : at[a] # "idle" =>
    \A d \in deps[a] :
      /\ d \in Joined
      /\ \E i \in 1 .. Len(log) : log[i] = AgentEvent("agent_finished", d)

(* events.md: agent_finished, an agent ended or a kill stopped it before   *)
(* it started.  Unless an agent raised, the finished run has exactly one   *)
(* such event for every agent_spawned, and a skipped agent never ran.      *)
EverySpawnIsClosed ==
  LET Closings(a) == {i \in 1 .. Len(log) :
                        /\ log[i].who = a
                        /\ log[i].kind \in {"agent_finished", "agent_skipped"}}
  IN  \A i \in 1 .. Len(log) : log[i].kind = "agent_spawned" =>
        LET a == log[i].who IN
        /\ Cardinality(Closings(a)) <= 1
        /\ pt = "done" /\ (\A b \in Agents : result[b] # "raised")
             => Cardinality(Closings(a)) = 1
        /\ \A j \in Closings(a) :
             (log[j].kind = "agent_skipped") <=> at[a] = "idle"

(* Every turn reaches its run_finished: cyclic plans, agents that raise    *)
(* and stops at any moment included.                                       *)
EveryTurnEnds == <>(pt = "done")

(* The run's phase in the contract, read off its log.                      *)
phase ==
  [r \in {1} |->
     IF Logged("run_finished") THEN IF outcome = "ok" THEN "ok" ELSE "not_ok"
     ELSE IF Logged("assistant_message") THEN "answered"
     ELSE IF Logged("run_error") THEN "failed"
     ELSE IF Logged("user_message") THEN "open"
     ELSE "absent"]

Contract == INSTANCE RunContract WITH Runs <- {1}

(* Whatever its agents do, the turn implements the contract of the log.    *)
ImplementsContract == Contract!Spec

===========================================================================
