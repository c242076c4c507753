---------------------------- MODULE MicroAgent ----------------------------
(***************************************************************************)
(* The agents of one run: plnt/agent/loop.py (run_agent) as it is driven   *)
(* by plnt/executors/local.py (_run_micro, _emit_for, _stop) and by the    *)
(* loop detector of plnt/control/acc.py.                                   *)
(*                                                                         *)
(* Each agent is a thread that alternates model calls and tool calls.  The *)
(* agents of a run share two fields of its _RunState: stop_reason, polled  *)
(* before each call, and tokens, which is read and written back without a  *)
(* lock.  An operator may set stop_reason at any moment.                   *)
(***************************************************************************)
EXTENDS Integers, Sequences, FiniteSets

CONSTANTS
  Agents,        \* the agents of the run
  Requires,      \* those whose bundle sets require_tool
  MaxSteps,      \* max(1, runtime.max_steps): model calls per message
  TokenBudget,   \* budget.tokens, per agent
  Costs,         \* total_tokens a model call may report
  MaxCost,       \* the largest of them
  LoopThreshold, \* ACCMonitor.LOOP_THRESHOLD
  Replies        \* replies of the model: sequences of tool calls, <<>> a final answer

(* One tool call of a reply.  "required" is the tool require_tool names,   *)
(* "unknown" a name that is not among the agent's tools; parses is FALSE   *)
(* when the arguments were not valid JSON (call.parse_error).  The call    *)
(* itself stands for the loop detector's signature of name and arguments.  *)
Call == [tool : {"required", "other", "unknown"}, parses : BOOLEAN]

ASSUME MicroAgentAssumption ==
  /\ Requires \subseteq Agents
  /\ MaxSteps \in Nat \ {0}
  /\ TokenBudget \in Nat
  /\ MaxCost \in Nat
  /\ Costs \subseteq 0 .. MaxCost
  /\ LoopThreshold \in Nat \ {0}
  /\ Replies \subseteq Seq(Call)

VARIABLES
  at,       \* where each agent's thread is
  step,     \* res.steps: the step its loop is in
  reminded, \* the required tool was asked for once already
  called,   \* required_done
  pending,  \* tool calls of the last reply not yet processed
  seen,     \* ACCMonitor._sigs: how often each call was observed
  spent,    \* agent_tokens["n"]
  cost,     \* tokens of the model result being booked
  copy,     \* state.tokens as read by the += in progress
  result,   \* AgentResult.stopped, "raised" for an exception, "none" before
  stop,     \* state.stop_reason is set
  tokens,   \* state.tokens
  ledger,   \* tokens in the usage table (record_usage) for this run
  ran,      \* history: the required tool's function was executed
  late      \* history: model and tool calls begun while stop was set

loopVars  == <<at, step, reminded, called, pending, result>>
bookVars  == <<spent, cost, copy, tokens, ledger>>
agentVars == <<loopVars, bookVars, seen, stop, ran, late>>

Points  == {"idle", "begin", "poll", "ready", "model", "book", "judge",
            "call", "emit", "tool", "report", "done"}
Results == {"none", "final", "max_steps", "error", "wall_budget", "killed",
            "raised"}

AgentInit ==
  /\ at       = [a \in Agents |-> "idle"]
  /\ step     = [a \in Agents |-> 0]
  /\ reminded = [a \in Agents |-> FALSE]
  /\ called   = [a \in Agents |-> a \notin Requires]
  /\ pending  = [a \in Agents |-> <<>>]
  /\ seen     = [a \in Agents |-> [c \in Call |-> 0]]
  /\ spent    = [a \in Agents |-> 0]
  /\ cost     = [a \in Agents |-> 0]
  /\ copy     = [a \in Agents |-> 0]
  /\ result   = [a \in Agents |-> "none"]
  /\ stop     = FALSE
  /\ tokens   = 0
  /\ ledger   = 0
  /\ ran      = [a \in Agents |-> FALSE]
  /\ late     = [a \in Agents |-> 0]

Goto(a, point) == at' = [at EXCEPT ![a] = point]

(* run_agent returns with this value of stopped.                           *)
Return(a, why) ==
  /\ Goto(a, "report")
  /\ result' = [result EXCEPT ![a] = why]

(* A model or a tool call begins: count it if the run was already stopped. *)
CountLate(a) == late' = [late EXCEPT ![a] = IF stop THEN @ + 1 ELSE @]

(* The head of the for loop: the next step, or max_steps after the last.   *)
NextStep(a) ==
  \/ /\ step[a] < MaxSteps
     /\ step' = [step EXCEPT ![a] = @ + 1]
     /\ Goto(a, "poll")
     /\ UNCHANGED result
  \/ /\ step[a] >= MaxSteps
     /\ Return(a, "max_steps")
     /\ UNCHANGED step

---------------------------------------------------------------------------
(* Starting: _run_micro is entered, then the loop reaches its first step.  *)

Begin(a) ==
  /\ at[a] = "idle"
  /\ Goto(a, "begin")
  /\ UNCHANGED <<step, reminded, called, pending, result, bookVars, seen,
                 stop, ran, late>>

EnterLoop(a) ==
  /\ at[a] = "begin"
  /\ NextStep(a)
  /\ UNCHANGED <<reminded, called, pending, bookVars, seen, stop, ran, late>>

(* An exception that run_agent and _run_micro do not turn into a result: a *)
(* provider that cannot be built, a required tool that read-only mode      *)
(* stripped, an unexpected failure of the provider or of an event write    *)
(* (a poll writes one only when it stops the agent).                       *)
Raise(a) ==
  /\ \/ at[a] \in {"begin", "ready", "model", "emit", "tool", "report"}
     \/ at[a] \in {"poll", "call"} /\ stop
  /\ Goto(a, "done")
  /\ result' = [result EXCEPT ![a] = "raised"]
  /\ UNCHANGED <<step, reminded, called, pending, bookVars, seen, stop, ran,
                 late>>

---------------------------------------------------------------------------
(* One model call.                                                         *)

(* _killed() before the model call.                                        *)
PollModel(a) ==
  /\ at[a] = "poll"
  /\ \/ stop /\ Return(a, "killed")
     \/ ~stop /\ Goto(a, "ready") /\ UNCHANGED result
  /\ UNCHANGED <<step, reminded, called, pending, bookVars, seen, stop, ran,
                 late>>

(* Less than a second of the wall budget is left.                          *)
WallBudget(a) ==
  /\ at[a] = "ready"
  /\ Return(a, "wall_budget")
  /\ UNCHANGED <<step, reminded, called, pending, bookVars, seen, stop, ran,
                 late>>

StartModel(a) ==
  /\ at[a] = "ready"
  /\ Goto(a, "model")
  /\ CountLate(a)
  /\ UNCHANGED <<step, reminded, called, pending, result, bookVars, seen,
                 stop, ran>>

(* Variant: a failed model call is tried again without counting a step.    *)
ModelFailsRetries(a) ==
  /\ at[a] = "model"
  /\ Goto(a, "poll")
  /\ UNCHANGED <<step, reminded, called, pending, result, bookVars, seen,
                 stop, ran, late>>

ModelFails(a) ==
  /\ at[a] = "model"
  /\ Return(a, "error")
  /\ UNCHANGED <<step, reminded, called, pending, bookVars, seen, stop, ran,
                 late>>

(* The reply arrives: it is logged, its usage is recorded, and the         *)
(* statement state.tokens += n has read the old value.                     *)
ModelReplies(a) ==
  /\ at[a] = "model"
  /\ \E n \in Costs, reply \in Replies :
       /\ cost'    = [cost EXCEPT ![a] = n]
       /\ pending' = [pending EXCEPT ![a] = reply]
       /\ ledger'  = ledger + n
  /\ copy' = [copy EXCEPT ![a] = tokens]
  /\ Goto(a, "book")
  /\ UNCHANGED <<step, reminded, called, result, spent, tokens, seen, stop,
                 ran, late>>

(* Variant: the budget is checked before the call is added to the sum.     *)
BookTokensCheckFirst(a) ==
  /\ at[a] = "book"
  /\ tokens' = copy[a] + cost[a]
  /\ spent'  = [spent EXCEPT ![a] = @ + cost[a]]
  /\ stop'   = (stop \/ spent[a] > TokenBudget)
  /\ Goto(a, "judge")
  /\ UNCHANGED <<step, reminded, called, pending, result, cost, copy, ledger,
                 seen, ran, late>>

(* ... and now writes the sum; then the agent's own budget is checked.     *)
BookTokens(a) ==
  /\ at[a] = "book"
  /\ tokens' = copy[a] + cost[a]
  /\ spent'  = [spent EXCEPT ![a] = @ + cost[a]]
  /\ stop'   = (stop \/ spent[a] + cost[a] > TokenBudget)
  /\ Goto(a, "judge")
  /\ UNCHANGED <<step, reminded, called, pending, result, cost, copy, ledger,
                 seen, ran, late>>

---------------------------------------------------------------------------
(* What the reply was.                                                     *)

FinalAnswer(a) ==
  /\ at[a] = "judge"
  /\ pending[a] = <<>>
  /\ called[a]
  /\ Return(a, "final")
  /\ UNCHANGED <<step, reminded, called, pending, bookVars, seen, stop, ran,
                 late>>

(* The guardrail: an answer without the required tool is asked again once, *)
(* and withheld the second time.                                           *)
Reprompt(a) ==
  /\ at[a] = "judge"
  /\ pending[a] = <<>>
  /\ ~called[a]
  /\ ~reminded[a]
  /\ reminded' = [reminded EXCEPT ![a] = TRUE]
  /\ NextStep(a)
  /\ UNCHANGED <<called, pending, bookVars, seen, stop, ran, late>>

Refuse(a) ==
  /\ at[a] = "judge"
  /\ pending[a] = <<>>
  /\ ~called[a]
  /\ reminded[a]
  /\ Return(a, "error")
  /\ UNCHANGED <<step, reminded, called, pending, bookVars, seen, stop, ran,
                 late>>

UseTools(a) ==
  /\ at[a] = "judge"
  /\ pending[a] # <<>>
  /\ Goto(a, "call")
  /\ UNCHANGED <<step, reminded, called, pending, result, bookVars, seen,
                 stop, ran, late>>

---------------------------------------------------------------------------
(* One tool call of the reply.                                             *)

(* Variant: the stop is polled once per step, before the model call only.  *)
PollToolUnchecked(a) ==
  /\ at[a] = "call"
  /\ Goto(a, "emit")
  /\ UNCHANGED <<step, reminded, called, pending, result, bookVars, seen,
                 stop, ran, late>>

(* _killed() before the tool call.                                         *)
PollTool(a) ==
  /\ at[a] = "call"
  /\ \/ stop /\ Return(a, "killed")
     \/ ~stop /\ Goto(a, "emit") /\ UNCHANGED result
  /\ UNCHANGED <<step, reminded, called, pending, bookVars, seen, stop, ran,
                 late>>

(* Variant: the detector stops past its threshold, not at it.              *)
EmitCallPastThreshold(a) ==
  LET c == Head(pending[a]) IN
  /\ at[a] = "emit"
  /\ seen'   = [seen EXCEPT ![a][c] = @ + 1]
  /\ stop'   = (stop \/ seen[a][c] + 1 > LoopThreshold)
  /\ called' = [called EXCEPT ![a] = @ \/ c.tool = "required"]
  /\ Goto(a, "tool")
  /\ CountLate(a)
  /\ UNCHANGED <<step, reminded, pending, result, bookVars, ran>>

(* The tool_call event: the loop detector sees it and may stop the run;    *)
(* the call counts as the required one by its name alone.                  *)
EmitCall(a) ==
  LET c == Head(pending[a]) IN
  /\ at[a] = "emit"
  /\ seen'   = [seen EXCEPT ![a][c] = @ + 1]
  /\ stop'   = (stop \/ seen[a][c] + 1 >= LoopThreshold)
  /\ called' = [called EXCEPT ![a] = @ \/ c.tool = "required"]
  /\ Goto(a, "tool")
  /\ CountLate(a)
  /\ UNCHANGED <<step, reminded, pending, result, bookVars, ran>>

(* The tool runs, or its arguments or its name are reported as an error;   *)
(* then the next call of the reply, or the next step.                      *)
ToolReturns(a) ==
  LET c == Head(pending[a]) IN
  /\ at[a] = "tool"
  /\ ran'     = [ran EXCEPT ![a] = @ \/ (c.tool = "required" /\ c.parses)]
  /\ pending' = [pending EXCEPT ![a] = Tail(@)]
  /\ \/ /\ Len(pending[a]) > 1
        /\ Goto(a, "call")
        /\ UNCHANGED <<step, result>>
     \/ /\ Len(pending[a]) = 1
        /\ NextStep(a)
  /\ UNCHANGED <<reminded, called, bookVars, seen, stop, late>>

---------------------------------------------------------------------------
(* _run_micro hands its result back (the event it logs is the caller's).   *)
Report(a) ==
  /\ at[a] = "report"
  /\ Goto(a, "done")
  /\ UNCHANGED <<step, reminded, called, pending, result, bookVars, seen,
                 stop, ran, late>>

(* LocalExecutor.kill stores the operator's reason.  Reasons are texts for *)
(* the events; a second one changes nothing here.                          *)
Kill ==
  /\ ~stop
  /\ stop' = TRUE
  /\ UNCHANGED <<loopVars, bookVars, seen, ran, late>>

(* Everything an agent's thread does between being entered and reporting.  *)
Works(a) ==
  \/ EnterLoop(a) \/ Raise(a)
  \/ PollModel(a) \/ WallBudget(a) \/ StartModel(a)
  \/ ModelFails(a) \/ ModelReplies(a) \/ BookTokens(a)
  \/ FinalAnswer(a) \/ Reprompt(a) \/ Refuse(a) \/ UseTools(a)
  \/ PollTool(a) \/ EmitCall(a) \/ ToolReturns(a)

AgentNext ==
  \/ Kill
  \/ \E a \in Agents : Begin(a) \/ Works(a) \/ Report(a)

(* The threads of a pool are scheduled fairly; chat() returns within its   *)
(* timeout and a tool is assumed to return.  Nobody has to press Kill.     *)
AgentSpec ==
  /\ AgentInit /\ [][AgentNext]_agentVars
  /\ \A a \in Agents : WF_agentVars(Begin(a) \/ Works(a) \/ Report(a))

---------------------------------------------------------------------------
(* Properties.                                                             *)

TypeOK ==
  /\ at       \in [Agents -> Points]
  /\ step     \in [Agents -> 0 .. MaxSteps]
  /\ reminded \in [Agents -> BOOLEAN]
  /\ called   \in [Agents -> BOOLEAN]
  /\ pending  \in [Agents -> Seq(Call)]
  /\ seen     \in [Agents -> [Call -> Nat]]
  /\ spent    \in [Agents -> Nat]
  /\ cost     \in [Agents -> 0 .. MaxCost]
  /\ copy     \in [Agents -> Nat]
  /\ result   \in [Agents -> Results]
  /\ stop     \in BOOLEAN
  /\ tokens   \in Nat
  /\ ledger   \in Nat
  /\ ran      \in [Agents -> BOOLEAN]
  /\ late     \in [Agents -> Nat]

(* A stopped run: whoever set stop_reason, and however its write falls     *)
(* between an agent's poll and its next call, each agent begins at most    *)
(* one more model or tool call.                                            *)
StopBound == \A a \in Agents : late[a] <= 1

(* The loop detector: no agent makes the same call with the same arguments *)
(* more often than the threshold; the stop its own event sets is seen      *)
(* before the next call, even inside one reply.                            *)
LoopBound == \A a \in Agents : \A c \in Call : seen[a][c] <= LoopThreshold

(* The token budget, "counted after every model call", is overrun by one   *)
(* model call at most.                                                     *)
BudgetBound == \A a \in Agents : spent[a] <= TokenBudget + MaxCost

(* The guardrail: an answer of an agent with a required tool comes after   *)
(* a tool_call event that names that tool.                                 *)
AnswerAfterCall ==
  \A a \in Requires :
    result[a] = "final" =>
      \E c \in Call : c.tool = "required" /\ seen[a][c] > 0

(* The unsynchronised state.tokens += n of parallel agents can lose a      *)
(* booking but never invents one: run_finished reports at most what the    *)
(* usage table holds.                                                      *)
NeverOvercounts == tokens <= ledger

(* No agent hangs: whatever the model answers, the loop ends.              *)
EveryAgentEnds == \A a \in Agents : <>(at[a] = "done")

===========================================================================
