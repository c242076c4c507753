-------------------------- MODULE ParentTurnProofs --------------------------
(***************************************************************************)
(* The agents of a run, and a turn of a session made of them: for any      *)
(* number of planned agents, any dependencies among them, cyclic ones      *)
(* included, any number of threads, any budgets and replies of the model.  *)
(* At the end, what the transcript of such a turn says of its agents.      *)
(***************************************************************************)
EXTENDS Transcript, SequenceTheorems, FiniteSetTheorems, FunctionTheorems,
        WellFoundedInduction, TLAPS

---------------------------------------------------------------------------
(* MicroAgent.  None of the properties of an agent is inductive: each      *)
(* speaks of what the agent has done, and what keeps it from doing more is *)
(* where its thread is.  The strengthened forms below therefore add, to    *)
(* each bound, the points of the loop that an agent at its bound cannot be *)
(* at.                                                                     *)

(* A thread that is processing tool calls has one to process.              *)
PendingInv ==
  \A a \in Agents : at[a] \in {"call", "emit", "tool"} => pending[a] # <<>>

(* An agent that began a call after the stop is past its last poll.        *)
LateInv ==
  \A a \in Agents :
    /\ late[a] <= 1
    /\ late[a] = 1 => stop /\ at[a] \notin {"ready", "emit"}

(* At the threshold the run is stopped, and no further call is on its way. *)
LoopInv ==
  \A a \in Agents : \A c \in Call :
    /\ seen[a][c] <= LoopThreshold
    /\ seen[a][c] = LoopThreshold => stop /\ at[a] # "emit"

(* Past its budget the run is stopped, and no model call is on its way.    *)
BudgetInv ==
  \A a \in Agents :
    /\ spent[a] <= TokenBudget + MaxCost
    /\ spent[a] > TokenBudget =>
         stop /\ at[a] \notin {"ready", "model", "book"}

(* required_done is set by a tool_call event that names the tool.          *)
CalledInv ==
  \A a \in Requires :
    /\ called[a] => \E c \in Call : c.tool = "required" /\ seen[a][c] > 0
    /\ result[a] = "final" => called[a]

(* The value a booking is about to write is covered by the usage table.    *)
CountInv ==
  /\ tokens <= ledger
  /\ \A a \in Agents : at[a] = "book" => copy[a] + cost[a] <= ledger

IInv == /\ TypeOK /\ PendingInv /\ LateInv /\ LoopInv /\ BudgetInv
        /\ CalledInv /\ CountInv

---------------------------------------------------------------------------
(* Counting one more occurrence keeps a table of counts one.               *)
LEMMA BumpCount ==
  ASSUME NEW S, NEW f \in [S -> Nat], NEW x
  PROVE  [f EXCEPT ![x] = @ + 1] \in [S -> Nat]
<1>1. \A y \in S : [f EXCEPT ![x] = @ + 1][y] \in Nat
  OBVIOUS
<1>2. QED
  BY <1>1

(* Dropping the first of several elements leaves some.                     *)
LEMMA MoreThanOne ==
  ASSUME NEW S, NEW s \in Seq(S), Len(s) > 1
  PROVE  Tail(s) # <<>>
<1> DEFINE t == Tail(s)
<1>1. Len(t) = Len(s) - 1 /\ Len(s) \in Nat
  <2>1. s # <<>>
    OBVIOUS
  <2>2. QED
    BY <2>1, HeadTailProperties
<1> HIDE DEF t
<1>2. t # <<>>
  BY <1>1
<1>3. QED
  BY <1>2 DEF t

(* The agents of a run start in the inductive invariant.                   *)
LEMMA MicroInit == AgentInit => IInv
<1> SUFFICES ASSUME AgentInit PROVE IInv
  OBVIOUS
<1> USE MicroAgentAssumption DEF AgentInit
<1>1. TypeOK
  <2>1. <<>> \in Seq(Call)
    OBVIOUS
  <2>2. pending \in [Agents -> Seq(Call)]
    BY <2>1
  <2>3. seen \in [Agents -> [Call -> Nat]]
    OBVIOUS
  <2>4. /\ at \in [Agents -> Points]
        /\ result \in [Agents -> Results]
        /\ step \in [Agents -> 0 .. MaxSteps]
        /\ cost \in [Agents -> 0 .. MaxCost]
    BY DEF Points, Results
  <2>5. QED
    BY <2>2, <2>3, <2>4 DEF TypeOK
<1>2. PendingInv /\ LateInv
  BY DEF PendingInv, LateInv
<1>3. LoopInv /\ BudgetInv
  BY DEF LoopInv, BudgetInv
<1>4. CalledInv
  BY DEF CalledInv
<1>5. CountInv
  BY DEF CountInv
<1>6. QED
  BY <1>1, <1>2, <1>3, <1>4, <1>5 DEF IInv

(* The head of the loop moves to the next step, or returns max_steps.      *)
LEMMA NextStepType ==
  ASSUME TypeOK, NEW a \in Agents, NextStep(a)
  PROVE  /\ at' \in [Agents -> Points]
         /\ step' \in [Agents -> 0 .. MaxSteps]
         /\ result' \in [Agents -> Results]
<1>1. /\ at \in [Agents -> Points]
      /\ step \in [Agents -> 0 .. MaxSteps]
      /\ result \in [Agents -> Results]
      /\ MaxSteps \in Nat
  BY MicroAgentAssumption DEF TypeOK
<1>2. CASE step[a] < MaxSteps
  <2>1. step[a] + 1 \in 0 .. MaxSteps
    BY <1>1, <1>2
  <2>2. /\ step' = [step EXCEPT ![a] = @ + 1]
        /\ at' = [at EXCEPT ![a] = "poll"]
        /\ result' = result
    BY <1>1, <1>2 DEF NextStep, Goto
  <2>3. QED
    BY <1>1, <2>1, <2>2 DEF Points
<1>3. CASE ~(step[a] < MaxSteps)
  <2>1. /\ step' = step
        /\ at' = [at EXCEPT ![a] = "report"]
        /\ result' = [result EXCEPT ![a] = "max_steps"]
    BY <1>3 DEF NextStep, Goto, Return
  <2>2. QED
    BY <1>1, <2>1 DEF Points, Results
<1>4. QED
  BY <1>2, <1>3

(* Every step keeps every variable in its set.                             *)
LEMMA MicroTypeStep == TypeOK /\ [AgentNext]_agentVars => TypeOK'
<1> SUFFICES ASSUME TypeOK, [AgentNext]_agentVars PROVE TypeOK'
  OBVIOUS
<1> USE MicroAgentAssumption
<1> USE DEF TypeOK, Points, Results, Goto, Return, loopVars, bookVars
<1>1. CASE Kill
  BY <1>1 DEF Kill
<1>2. ASSUME NEW a \in Agents, Begin(a) PROVE TypeOK'
  BY <1>2 DEF Begin
<1>3. ASSUME NEW a \in Agents, Report(a) PROVE TypeOK'
  BY <1>3 DEF Report
<1>4. ASSUME NEW a \in Agents, Works(a) PROVE TypeOK'
  <2>1. CASE EnterLoop(a)
    <3>1. NextStep(a)
      BY <2>1 DEF EnterLoop
    <3>2. QED
      BY <2>1, <3>1, NextStepType DEF EnterLoop
  <2>2. CASE Raise(a)
    BY <2>2 DEF Raise
  <2>3. CASE PollModel(a)
    BY <2>3 DEF PollModel
  <2>4. CASE WallBudget(a)
    BY <2>4 DEF WallBudget
  <2>5. CASE StartModel(a)
    BY <2>5, SMTT(30) DEF StartModel, CountLate
  <2>6. CASE ModelFails(a)
    BY <2>6 DEF ModelFails
  <2>7. CASE ModelReplies(a)
    <3>1. PICK n \in Costs, reply \in Replies :
            /\ cost'    = [cost EXCEPT ![a] = n]
            /\ pending' = [pending EXCEPT ![a] = reply]
            /\ ledger'  = ledger + n
      BY <2>7 DEF ModelReplies
    <3>2. n \in 0 .. MaxCost /\ n \in Nat /\ reply \in Seq(Call)
      OBVIOUS
    <3>3. cost' \in [Agents -> 0 .. MaxCost] /\ ledger' \in Nat
      BY <3>1, <3>2
    <3>4. pending' \in [Agents -> Seq(Call)]
      BY <3>1, <3>2
    <3>5. at' \in [Agents -> Points] /\ copy' \in [Agents -> Nat]
      BY <2>7 DEF ModelReplies
    <3>6. QED
      BY <2>7, <3>3, <3>4, <3>5 DEF ModelReplies
  <2>8. CASE BookTokens(a)
    <3>1. copy[a] + cost[a] \in Nat /\ spent[a] + cost[a] \in Nat
      OBVIOUS
    <3>2. /\ tokens' \in Nat
          /\ spent' \in [Agents -> Nat]
          /\ stop' \in BOOLEAN
      BY <2>8, <3>1 DEF BookTokens
    <3>3. QED
      BY <2>8, <3>2 DEF BookTokens
  <2>9. CASE FinalAnswer(a)
    BY <2>9 DEF FinalAnswer
  <2>10. CASE Reprompt(a)
    <3>1. NextStep(a)
      BY <2>10 DEF Reprompt
    <3>2. QED
      BY <2>10, <3>1, NextStepType DEF Reprompt
  <2>11. CASE Refuse(a)
    BY <2>11 DEF Refuse
  <2>12. CASE UseTools(a)
    BY <2>12 DEF UseTools
  <2>13. CASE PollTool(a)
    BY <2>13 DEF PollTool
  <2>14. CASE EmitCall(a)
    <3>1. seen' \in [Agents -> [Call -> Nat]]
      <4> DEFINE row == [seen[a] EXCEPT ![Head(pending[a])] = @ + 1]
      <4>1. seen[a] \in [Call -> Nat]
        OBVIOUS
      <4>2. row \in [Call -> Nat]
        BY <4>1, BumpCount
      <4>3. seen' = [seen EXCEPT ![a] = row]
        BY <2>14 DEF EmitCall
      <4> HIDE DEF row
      <4>4. QED
        BY <4>2, <4>3
    <3>2. late' \in [Agents -> Nat]
      BY <2>14 DEF EmitCall, CountLate
    <3>3. called' \in [Agents -> BOOLEAN]
      BY <2>14 DEF EmitCall
    <3>4. stop' \in BOOLEAN
      BY <2>14 DEF EmitCall
    <3>5. QED
      BY <2>14, <3>1, <3>2, <3>3, <3>4 DEF EmitCall
  <2>15. CASE ToolReturns(a)
    <3>1. pending[a] # <<>> /\ pending[a] \in Seq(Call)
      BY <2>15 DEF ToolReturns
    <3>2. Tail(pending[a]) \in Seq(Call)
      BY <3>1
    <3>3. pending' \in [Agents -> Seq(Call)]
      BY <2>15, <3>2 DEF ToolReturns
    <3>4. ran' \in [Agents -> BOOLEAN]
      BY <2>15 DEF ToolReturns
    <3>5. CASE Goto(a, "call") /\ UNCHANGED <<step, result>>
      BY <2>15, <3>3, <3>4, <3>5 DEF ToolReturns
    <3>6. CASE NextStep(a)
      BY <2>15, <3>3, <3>4, <3>6, NextStepType DEF ToolReturns
    <3>7. QED
      BY <2>15, <3>5, <3>6 DEF ToolReturns
  <2>16. QED
    BY <1>4, <2>1, <2>2, <2>3, <2>4, <2>5, <2>6, <2>7, <2>8, <2>9, <2>10,
       <2>11, <2>12, <2>13, <2>14, <2>15 DEF Works
<1>5. CASE UNCHANGED agentVars
  BY <1>5 DEF agentVars
<1>6. QED
  BY <1>1, <1>2, <1>3, <1>4, <1>5 DEF AgentNext

(* Every agent's variables stay in their sets, for all constants.          *)
THEOREM MicroTypes == AgentSpec => []TypeOK
<1>1. AgentInit => TypeOK
  BY MicroInit DEF IInv
<1>2. QED
  BY <1>1, MicroTypeStep, PTL DEF AgentSpec

---------------------------------------------------------------------------
(* A stopped run: one more call per agent at most.                         *)
LEMMA LateStep == TypeOK /\ LateInv /\ [AgentNext]_agentVars => LateInv'
<1> SUFFICES ASSUME TypeOK, LateInv, [AgentNext]_agentVars PROVE LateInv'
  OBVIOUS
<1> USE DEF TypeOK, Points, LateInv, Goto, Return, NextStep, loopVars, bookVars
<1>1. CASE Kill
  BY <1>1 DEF Kill
<1>2. ASSUME NEW a \in Agents, Begin(a) \/ Report(a) \/ Works(a)
      PROVE  LateInv'
  <2>1. CASE Begin(a) \/ Report(a) \/ EnterLoop(a) \/ Raise(a)
    BY <2>1 DEF Begin, Report, EnterLoop, Raise
  <2>2. CASE PollModel(a) \/ PollTool(a)
    BY <2>2 DEF PollModel, PollTool
  <2>3. CASE StartModel(a)
    BY <2>3 DEF StartModel, CountLate
  <2>4. CASE EmitCall(a)
    BY <2>4 DEF EmitCall, CountLate
  <2>5. CASE WallBudget(a) \/ ModelFails(a) \/ ModelReplies(a) \/ BookTokens(a)
    BY <2>5 DEF WallBudget, ModelFails, ModelReplies, BookTokens
  <2>6. CASE FinalAnswer(a) \/ Reprompt(a) \/ Refuse(a) \/ UseTools(a)
    BY <2>6 DEF FinalAnswer, Reprompt, Refuse, UseTools
  <2>7. CASE ToolReturns(a)
    BY <2>7 DEF ToolReturns
  <2>8. QED
    BY <1>2, <2>1, <2>2, <2>3, <2>4, <2>5, <2>6, <2>7 DEF Works
<1>3. CASE UNCHANGED agentVars
  BY <1>3 DEF agentVars
<1>4. QED
  BY <1>1, <1>2, <1>3 DEF AgentNext

(* A loop: at most the threshold of identical calls per agent.             *)
LEMMA LoopStep == TypeOK /\ LoopInv /\ [AgentNext]_agentVars => LoopInv'
<1> SUFFICES ASSUME TypeOK, LoopInv, [AgentNext]_agentVars PROVE LoopInv'
  OBVIOUS
<1>1. ASSUME seen' = seen, stop => stop',
             \A b \in Agents : at'[b] = "emit" => at[b] = "emit"
      PROVE  LoopInv'
  BY <1>1 DEF LoopInv
<1>2. ASSUME NEW a \in Agents, PollTool(a) PROVE LoopInv'
  <2>1. CASE stop
    <3>1. \A b \in Agents : at'[b] = "emit" => at[b] = "emit"
      BY <1>2, <2>1 DEF PollTool, Return, Goto, TypeOK
    <3>2. QED
      BY <1>1, <1>2, <3>1 DEF PollTool
  <2>2. CASE ~stop
    <3>1. \A b \in Agents : \A c \in Call :
            seen[b][c] <= LoopThreshold /\ seen[b][c] # LoopThreshold
      BY <2>2 DEF LoopInv
    <3>2. seen' = seen
      BY <1>2 DEF PollTool
    <3>3. QED
      BY <3>1, <3>2 DEF LoopInv
  <2>3. QED
    BY <2>1, <2>2
<1>3. ASSUME NEW a \in Agents, EmitCall(a) PROVE LoopInv'
  <2> DEFINE h == Head(pending[a])
  <2> SUFFICES ASSUME NEW b \in Agents, NEW c \in Call
               PROVE  /\ seen'[b][c] <= LoopThreshold
                      /\ seen'[b][c] = LoopThreshold =>
                           stop' /\ at'[b] # "emit"
    BY DEF LoopInv
  <2>1. /\ seen[b] \in [Call -> Nat] /\ seen[b][c] \in Nat
        /\ seen[b][c] <= LoopThreshold
        /\ seen[b][c] = LoopThreshold => stop /\ at[b] # "emit"
        /\ LoopThreshold \in Nat
    BY MicroAgentAssumption DEF TypeOK, LoopInv
  <2>2. /\ at[a] = "emit"
        /\ seen' = [seen EXCEPT ![a][h] = @ + 1]
        /\ stop => stop'
        /\ seen[a][h] + 1 >= LoopThreshold => stop'
        /\ at' = [at EXCEPT ![a] = "tool"]
    BY <1>3 DEF EmitCall, Goto
  <2> HIDE DEF h
  <2>3. CASE b = a /\ c = h
    <3>1. seen'[b][c] = seen[b][c] + 1
      BY <2>1, <2>2, <2>3 DEF TypeOK
    <3>2. at'[b] = "tool"
      BY <2>2, <2>3 DEF TypeOK
    <3>3. seen[b][c] # LoopThreshold
      BY <2>1, <2>2, <2>3
    <3>4. seen[b][c] + 1 = LoopThreshold => stop'
      BY <2>1, <2>2, <2>3
    <3>5. QED
      BY <2>1, <3>1, <3>2, <3>3, <3>4
  <2>4. CASE ~(b = a /\ c = h)
    <3>1. seen'[b][c] = seen[b][c]
      BY <2>1, <2>2, <2>4 DEF TypeOK
    <3>2. at'[b] = "emit" => at[b] = "emit"
      BY <2>2 DEF TypeOK
    <3>3. QED
      BY <2>1, <2>2, <3>1, <3>2
  <2>5. QED
    BY <2>3, <2>4
<1>4. ASSUME NEW a \in Agents, Begin(a) \/ Report(a) \/ Works(a),
             ~PollTool(a), ~EmitCall(a)
      PROVE  LoopInv'
  <2> USE DEF TypeOK, Goto, Return, NextStep
  <2>1. /\ seen' = seen
        /\ stop => stop'
        /\ \A b \in Agents : at'[b] = "emit" => at[b] = "emit"
    <3>1. CASE Begin(a) \/ Report(a) \/ EnterLoop(a) \/ Raise(a)
      BY <3>1 DEF Begin, Report, EnterLoop, Raise
    <3>2. CASE PollModel(a) \/ WallBudget(a) \/ StartModel(a) \/ ModelFails(a)
      BY <3>2 DEF PollModel, WallBudget, StartModel, ModelFails
    <3>3. CASE ModelReplies(a) \/ BookTokens(a)
      BY <3>3 DEF ModelReplies, BookTokens
    <3>4. CASE FinalAnswer(a) \/ Reprompt(a) \/ Refuse(a) \/ UseTools(a)
      BY <3>4 DEF FinalAnswer, Reprompt, Refuse, UseTools
    <3>5. CASE ToolReturns(a)
      BY <3>5 DEF ToolReturns
    <3>6. QED
      BY <1>4, <3>1, <3>2, <3>3, <3>4, <3>5 DEF Works
  <2>2. QED
    BY <1>1, <2>1
<1>5. CASE Kill
  BY <1>1, <1>5 DEF Kill, loopVars
<1>6. CASE UNCHANGED agentVars
  BY <1>1, <1>6 DEF agentVars, loopVars
<1>7. QED
  BY <1>2, <1>3, <1>4, <1>5, <1>6 DEF AgentNext, Works

(* The budget: one model call past it at most.                             *)
LEMMA BudgetStep == TypeOK /\ BudgetInv /\ [AgentNext]_agentVars => BudgetInv'
<1> SUFFICES ASSUME TypeOK, BudgetInv, [AgentNext]_agentVars PROVE BudgetInv'
  OBVIOUS
<1> DEFINE Calling == {"ready", "model", "book"}
<1>1. ASSUME spent' = spent, stop => stop',
             \A b \in Agents : at'[b] \in Calling => at[b] \in Calling
      PROVE  BudgetInv'
  BY <1>1 DEF BudgetInv
<1>2. ASSUME NEW a \in Agents, PollModel(a) PROVE BudgetInv'
  <2>1. CASE stop
    <3>1. \A b \in Agents : at'[b] \in Calling => at[b] \in Calling
      BY <1>2, <2>1 DEF PollModel, Return, Goto, TypeOK
    <3>2. QED
      BY <1>1, <1>2, <3>1 DEF PollModel, bookVars
  <2>2. CASE ~stop
    BY <1>2, <2>2 DEF PollModel, BudgetInv, bookVars
  <2>3. QED
    BY <2>1, <2>2
<1>3. ASSUME NEW a \in Agents, BookTokens(a) PROVE BudgetInv'
  <2> SUFFICES ASSUME NEW b \in Agents
               PROVE  /\ spent'[b] <= TokenBudget + MaxCost
                      /\ spent'[b] > TokenBudget => stop' /\ at'[b] \notin Calling
    BY DEF BudgetInv
  <2>1. /\ spent[b] \in Nat /\ cost[b] \in 0 .. MaxCost
        /\ TokenBudget \in Nat /\ MaxCost \in Nat
        /\ spent[b] <= TokenBudget + MaxCost
        /\ spent[b] > TokenBudget => stop /\ at[b] \notin Calling
    BY MicroAgentAssumption DEF TypeOK, BudgetInv
  <2>2. /\ at[a] = "book"
        /\ spent' = [spent EXCEPT ![a] = @ + cost[a]]
        /\ stop => stop'
        /\ spent[a] + cost[a] > TokenBudget => stop'
        /\ at' = [at EXCEPT ![a] = "judge"]
    BY <1>3 DEF BookTokens, Goto
  <2>3. CASE b = a
    <3>1. spent'[b] = spent[b] + cost[b] /\ at'[b] = "judge"
      BY <2>2, <2>3 DEF TypeOK
    <3>2. spent[b] <= TokenBudget
      BY <2>1, <2>2, <2>3
    <3>3. QED
      BY <2>1, <2>2, <2>3, <3>1, <3>2
  <2>4. CASE b # a
    <3>1. spent'[b] = spent[b] /\ at'[b] = at[b]
      BY <2>2, <2>4 DEF TypeOK
    <3>2. QED
      BY <2>1, <2>2, <3>1
  <2>5. QED
    BY <2>3, <2>4
<1>4. ASSUME NEW a \in Agents, Begin(a) \/ Report(a) \/ Works(a),
             ~PollModel(a), ~BookTokens(a)
      PROVE  BudgetInv'
  <2> USE DEF TypeOK, Goto, Return, NextStep, bookVars
  <2>1. /\ spent' = spent
        /\ stop => stop'
        /\ \A b \in Agents : at'[b] \in Calling => at[b] \in Calling
    <3>1. CASE Begin(a) \/ Report(a) \/ EnterLoop(a) \/ Raise(a)
      BY <3>1 DEF Begin, Report, EnterLoop, Raise
    <3>2. CASE WallBudget(a) \/ StartModel(a) \/ ModelFails(a) \/ ModelReplies(a)
      BY <3>2 DEF WallBudget, StartModel, ModelFails, ModelReplies
    <3>3. CASE FinalAnswer(a) \/ Reprompt(a) \/ Refuse(a) \/ UseTools(a)
      BY <3>3 DEF FinalAnswer, Reprompt, Refuse, UseTools
    <3>4. CASE PollTool(a) \/ EmitCall(a) \/ ToolReturns(a)
      BY <3>4 DEF PollTool, EmitCall, ToolReturns
    <3>5. QED
      BY <1>4, <3>1, <3>2, <3>3, <3>4 DEF Works
  <2>2. QED
    BY <1>1, <2>1
<1>5. CASE Kill
  BY <1>1, <1>5 DEF Kill, loopVars, bookVars
<1>6. CASE UNCHANGED agentVars
  BY <1>1, <1>6 DEF agentVars, loopVars, bookVars
<1>7. QED
  BY <1>2, <1>3, <1>4, <1>5, <1>6 DEF AgentNext, Works

(* The guardrail: required_done, once set, has a tool_call event behind    *)
(* it, and only then does the loop return an answer.                       *)
LEMMA CalledStep ==
  TypeOK /\ PendingInv /\ CalledInv /\ [AgentNext]_agentVars => CalledInv'
<1> SUFFICES ASSUME TypeOK, PendingInv, CalledInv, [AgentNext]_agentVars
             PROVE  CalledInv'
  OBVIOUS
<1> USE DEF TypeOK, Goto, Return
<1>1. ASSUME seen' = seen, called' = called,
             \A b \in Requires :
               result'[b] = "final" => result[b] = "final" \/ called[b]
      PROVE  CalledInv'
  BY <1>1 DEF CalledInv
<1>2. ASSUME NEW a \in Agents, EmitCall(a) PROVE CalledInv'
  <2> DEFINE h == Head(pending[a])
  <2>1. h \in Call
    <3>1. pending[a] # <<>> /\ pending[a] \in Seq(Call)
      BY <1>2 DEF EmitCall, PendingInv
    <3>2. QED
      BY <3>1
  <2>2. /\ seen' = [seen EXCEPT ![a][h] = @ + 1]
        /\ called' = [called EXCEPT ![a] = @ \/ h.tool = "required"]
        /\ result' = result
    BY <1>2 DEF EmitCall
  <2> HIDE DEF h
  <2>3. \A b \in Agents : \A c \in Call :
          /\ seen[b][c] \in Nat /\ seen'[b][c] \in Nat
          /\ seen'[b][c] >= seen[b][c]
          /\ b = a /\ c = h => seen'[b][c] > 0
    BY <2>1, <2>2, SMTT(30)
  <2>4. \A b \in Agents :
          called'[b] => called[b] \/ (b = a /\ h.tool = "required")
    BY <2>2
  <2>5. \A b \in Agents : called[b] => called'[b]
    BY <2>2
  <2> SUFFICES ASSUME NEW b \in Requires
               PROVE  /\ called'[b] => \E c \in Call :
                           c.tool = "required" /\ seen'[b][c] > 0
                      /\ result'[b] = "final" => called'[b]
    BY DEF CalledInv
  <2>6. b \in Agents
    BY MicroAgentAssumption
  <2>7. result'[b] = "final" => called'[b]
    BY <2>2, <2>5, <2>6 DEF CalledInv
  <2>8. called[b] => \E c \in Call : c.tool = "required" /\ seen'[b][c] > 0
    <3>1. SUFFICES ASSUME called[b]
                   PROVE  \E c \in Call : c.tool = "required" /\ seen'[b][c] > 0
      OBVIOUS
    <3>2. PICK c \in Call : c.tool = "required" /\ seen[b][c] > 0
      BY <3>1 DEF CalledInv
    <3>3. seen'[b][c] > 0
      BY <2>3, <2>6, <3>2, SMTT(30)
    <3>4. QED
      BY <3>2, <3>3
  <2>9. b = a /\ h.tool = "required" =>
          \E c \in Call : c.tool = "required" /\ seen'[b][c] > 0
    BY <2>1, <2>3
  <2>10. QED
    BY <2>4, <2>6, <2>7, <2>8, <2>9
<1>3. ASSUME NEW a \in Agents, FinalAnswer(a) PROVE CalledInv'
  <2>1. \A b \in Requires :
          result'[b] = "final" => result[b] = "final" \/ called[b]
    BY <1>3, MicroAgentAssumption DEF FinalAnswer
  <2>2. QED
    BY <1>1, <1>3, <2>1 DEF FinalAnswer
<1>4. ASSUME NEW a \in Agents, Begin(a) \/ Report(a) \/ Works(a),
             ~EmitCall(a), ~FinalAnswer(a)
      PROVE  CalledInv'
  <2>1. /\ seen' = seen
        /\ called' = called
        /\ \/ result' = result
           \/ \E r \in Results \ {"final"} : result' = [result EXCEPT ![a] = r]
    <3> USE DEF NextStep, Results
    <3>1. CASE Begin(a) \/ Report(a) \/ EnterLoop(a) \/ Raise(a)
      BY <3>1 DEF Begin, Report, EnterLoop, Raise
    <3>2. CASE PollModel(a) \/ WallBudget(a) \/ StartModel(a) \/ ModelFails(a)
      BY <3>2 DEF PollModel, WallBudget, StartModel, ModelFails
    <3>3. CASE ModelReplies(a) \/ BookTokens(a)
      BY <3>3 DEF ModelReplies, BookTokens
    <3>4. CASE Reprompt(a) \/ Refuse(a) \/ UseTools(a)
      BY <3>4 DEF Reprompt, Refuse, UseTools
    <3>5. CASE PollTool(a) \/ ToolReturns(a)
      BY <3>5 DEF PollTool, ToolReturns
    <3>6. QED
      BY <1>4, <3>1, <3>2, <3>3, <3>4, <3>5 DEF Works
  <2>2. \A b \in Requires : result'[b] = "final" => result[b] = "final"
    BY <2>1, MicroAgentAssumption
  <2>3. QED
    BY <1>1, <2>1, <2>2
<1>5. CASE Kill
  BY <1>1, <1>5 DEF Kill, loopVars
<1>6. CASE UNCHANGED agentVars
  BY <1>1, <1>6 DEF agentVars, loopVars
<1>7. QED
  BY <1>2, <1>3, <1>4, <1>5, <1>6 DEF AgentNext, Works

(* Bookings: what is written was read before the usage was recorded.       *)
LEMMA CountStep == TypeOK /\ CountInv /\ [AgentNext]_agentVars => CountInv'
<1> SUFFICES ASSUME TypeOK, CountInv, [AgentNext]_agentVars PROVE CountInv'
  OBVIOUS
<1> USE DEF TypeOK, Goto, Return, bookVars
<1>1. ASSUME UNCHANGED <<tokens, ledger, copy, cost>>,
             \A b \in Agents : at'[b] = "book" => at[b] = "book"
      PROVE  CountInv'
  BY <1>1 DEF CountInv
<1>2. ASSUME NEW a \in Agents, ModelReplies(a) PROVE CountInv'
  <2>1. PICK n \in Costs : /\ cost' = [cost EXCEPT ![a] = n]
                          /\ ledger' = ledger + n
    BY <1>2 DEF ModelReplies
  <2>2. n \in Nat
    BY MicroAgentAssumption
  <2>3. copy' = [copy EXCEPT ![a] = tokens] /\ tokens' = tokens
    BY <1>2 DEF ModelReplies
  <2>4. \A b \in Agents : b # a => (at'[b] = "book" => at[b] = "book")
    BY <1>2 DEF ModelReplies
  <2>5. tokens' <= ledger'
    BY <2>1, <2>2, <2>3 DEF CountInv
  <2>6. ASSUME NEW b \in Agents, at'[b] = "book"
        PROVE  copy'[b] + cost'[b] <= ledger'
    <3>1. CASE b = a
      BY <2>1, <2>2, <2>3, <3>1 DEF CountInv
    <3>2. CASE b # a
      <4>1. copy'[b] = copy[b] /\ cost'[b] = cost[b]
        BY <2>1, <2>3, <3>2
      <4>2. copy[b] + cost[b] <= ledger
        BY <2>4, <2>6, <3>2 DEF CountInv
      <4>3. copy[b] \in Nat /\ cost[b] \in Nat
        BY MicroAgentAssumption
      <4>4. QED
        BY <2>1, <2>2, <4>1, <4>2, <4>3, SMTT(30)
    <3>3. QED
      BY <3>1, <3>2
  <2>7. QED
    BY <2>5, <2>6 DEF CountInv
<1>3. ASSUME NEW a \in Agents, BookTokens(a) PROVE CountInv'
  BY <1>3 DEF BookTokens, CountInv
<1>4. ASSUME NEW a \in Agents, Begin(a) \/ Report(a) \/ Works(a),
             ~ModelReplies(a), ~BookTokens(a)
      PROVE  CountInv'
  <2> USE DEF NextStep
  <2>1. /\ UNCHANGED <<tokens, ledger, copy, cost>>
        /\ \A b \in Agents : at'[b] = "book" => at[b] = "book"
    <3>1. CASE Begin(a) \/ Report(a) \/ EnterLoop(a) \/ Raise(a)
      BY <3>1 DEF Begin, Report, EnterLoop, Raise
    <3>2. CASE PollModel(a) \/ WallBudget(a) \/ StartModel(a) \/ ModelFails(a)
      BY <3>2 DEF PollModel, WallBudget, StartModel, ModelFails
    <3>3. CASE FinalAnswer(a) \/ Reprompt(a) \/ Refuse(a) \/ UseTools(a)
      BY <3>3 DEF FinalAnswer, Reprompt, Refuse, UseTools
    <3>4. CASE PollTool(a) \/ EmitCall(a) \/ ToolReturns(a)
      BY <3>4 DEF PollTool, EmitCall, ToolReturns
    <3>5. QED
      BY <1>4, <3>1, <3>2, <3>3, <3>4 DEF Works
  <2>2. QED
    BY <1>1, <2>1
<1>5. CASE Kill
  BY <1>1, <1>5 DEF Kill, loopVars
<1>6. CASE UNCHANGED agentVars
  BY <1>1, <1>6 DEF agentVars, loopVars
<1>7. QED
  BY <1>2, <1>3, <1>4, <1>5, <1>6 DEF AgentNext, Works

(* A reply is consumed call by call.                                       *)
LEMMA PendingStep ==
  TypeOK /\ PendingInv /\ [AgentNext]_agentVars => PendingInv'
<1> SUFFICES ASSUME TypeOK, PendingInv, [AgentNext]_agentVars
             PROVE  PendingInv'
  OBVIOUS
<1> USE DEF TypeOK, Goto, Return, NextStep
<1> DEFINE Calling == {"call", "emit", "tool"}
<1>1. ASSUME pending' = pending,
             \A b \in Agents : at'[b] \in Calling =>
                                at[b] \in Calling \/ pending[b] # <<>>
      PROVE  PendingInv'
  BY <1>1 DEF PendingInv
<1>2. ASSUME NEW a \in Agents, ModelReplies(a) PROVE PendingInv'
  <2>1. PICK reply \in Replies : pending' = [pending EXCEPT ![a] = reply]
    BY <1>2 DEF ModelReplies
  <2>2. at' = [at EXCEPT ![a] = "book"]
    BY <1>2 DEF ModelReplies
  <2>3. QED
    BY <2>1, <2>2 DEF PendingInv
<1>3. ASSUME NEW a \in Agents, ToolReturns(a) PROVE PendingInv'
  <2>1. pending' = [pending EXCEPT ![a] = Tail(@)] /\ pending[a] \in Seq(Call)
    BY <1>3 DEF ToolReturns
  <2>2. CASE Len(pending[a]) > 1
    <3>1. Tail(pending[a]) # <<>>
      BY <2>1, <2>2, MoreThanOne
    <3>2. \A b \in Agents : at'[b] \in Calling => at[b] \in Calling
      <4>1. at[a] = "tool" /\ \E p \in Points : at' = [at EXCEPT ![a] = p]
        BY <1>3 DEF ToolReturns, Points
      <4>2. QED
        BY <4>1
    <3>3. \A b \in Agents : pending[b] # <<>> => pending'[b] # <<>>
      BY <2>1, <3>1
    <3>4. QED
      BY <3>2, <3>3 DEF PendingInv
  <2>3. CASE NextStep(a)
    <3>1. \/ at' = [at EXCEPT ![a] = "poll"]
          \/ at' = [at EXCEPT ![a] = "report"]
      BY <2>3
    <3>2. \A b \in Agents : at'[b] \in Calling => at[b] \in Calling /\ b # a
      BY <3>1
    <3>3. \A b \in Agents : b # a => pending'[b] = pending[b]
      BY <2>1
    <3>4. QED
      BY <3>2, <3>3 DEF PendingInv
  <2>4. QED
    BY <1>3, <2>2, <2>3 DEF ToolReturns
<1>4. ASSUME NEW a \in Agents, Begin(a) \/ Report(a) \/ Works(a),
             ~ModelReplies(a), ~ToolReturns(a)
      PROVE  PendingInv'
  <2>1. /\ pending' = pending
        /\ \A b \in Agents : at'[b] \in Calling =>
                               at[b] \in Calling \/ pending[b] # <<>>
    <3>1. CASE Begin(a) \/ Report(a) \/ EnterLoop(a) \/ Raise(a)
      BY <3>1 DEF Begin, Report, EnterLoop, Raise
    <3>2. CASE PollModel(a) \/ WallBudget(a) \/ StartModel(a) \/ ModelFails(a)
      BY <3>2 DEF PollModel, WallBudget, StartModel, ModelFails
    <3>3. CASE FinalAnswer(a) \/ Reprompt(a) \/ Refuse(a) \/ UseTools(a)
      BY <3>3 DEF FinalAnswer, Reprompt, Refuse, UseTools
    <3>4. CASE PollTool(a) \/ EmitCall(a) \/ BookTokens(a)
      BY <3>4 DEF PollTool, EmitCall, BookTokens
    <3>5. QED
      BY <1>4, <3>1, <3>2, <3>3, <3>4 DEF Works
  <2>2. QED
    BY <1>1, <2>1
<1>5. CASE Kill
  BY <1>1, <1>5 DEF Kill, loopVars
<1>6. CASE UNCHANGED agentVars
  BY <1>1, <1>6 DEF agentVars, loopVars
<1>7. QED
  BY <1>2, <1>3, <1>4, <1>5, <1>6 DEF AgentNext, Works

---------------------------------------------------------------------------
(* The invariant, and what it says of runs.                                *)
LEMMA MicroInvariant == AgentSpec => []IInv
<1>1. AgentInit => IInv
  BY MicroInit
<1>2. IInv /\ [AgentNext]_agentVars => IInv'
  BY MicroTypeStep, PendingStep, LateStep, LoopStep, BudgetStep, CalledStep,
     CountStep
  DEF IInv
<1>3. QED
  BY <1>1, <1>2, PTL DEF AgentSpec

(* kill(), the budget or the loop detector stop a run: every agent begins  *)
(* at most one more model or tool call.                                    *)
THEOREM StopIsBounded == AgentSpec => []StopBound
<1>1. IInv => StopBound
  BY DEF IInv, LateInv, StopBound
<1>2. QED
  BY <1>1, MicroInvariant, PTL

(* ACCMonitor: no agent repeats a call beyond LOOP_THRESHOLD.              *)
THEOREM LoopsAreBounded == AgentSpec => []LoopBound
<1>1. IInv => LoopBound
  BY DEF IInv, LoopInv, LoopBound
<1>2. QED
  BY <1>1, MicroInvariant, PTL

(* The token budget of an agent is overrun by one model call at most.      *)
THEOREM BudgetIsBounded == AgentSpec => []BudgetBound
<1>1. IInv => BudgetBound
  BY DEF IInv, BudgetInv, BudgetBound
<1>2. QED
  BY <1>1, MicroInvariant, PTL

(* No answer of an agent with a required tool without a call that names it.*)
THEOREM AnswersFollowCalls == AgentSpec => []AnswerAfterCall
<1>1. IInv => AnswerAfterCall
  BY DEF IInv, CalledInv, AnswerAfterCall
<1>2. QED
  BY <1>1, MicroInvariant, PTL

(* run_finished never reports more tokens than the usage table holds.      *)
THEOREM TokensNeverOvercount == AgentSpec => []NeverOvercounts
<1>1. IInv => NeverOvercounts
  BY DEF IInv, CountInv, NeverOvercounts
<1>2. QED
  BY <1>1, MicroInvariant, PTL

---------------------------------------------------------------------------
(* The turn.  What the properties say of the log follows from where the    *)
(* agents are.  The invariant therefore has three parts: WhereInv, which   *)
(* agents can have left "idle" at each point of the turn; ClosingInv,      *)
(* which events the log holds of an agent that is at such a place; and     *)
(* ContractInv, which of the run's own events it holds at each point of    *)
(* the turn.                                                               *)

TurnPoints == {"start", "setup", "solo", "decide", "spawn", "loop", "join",
               "skip", "merge", "synth", "finally", "done"}

AgentKinds == {"agent_spawned", "agent_finished", "agent_skipped"}
RunKinds   == {"user_message", "run_error", "assistant_message",
               "run_finished"}
Events     == {Event(k) : k \in RunKinds}
              \cup {AgentEvent(k, a) : k \in AgentKinds, a \in Agents}

(* The variables of the turn beside those of its agents.                   *)
TurnTypeOK ==
  /\ mode \in {"agent", "parent"}
  /\ pt \in TurnPoints
  /\ plan \subseteq Agents
  /\ deps \in [Agents -> SUBSET Agents]
  /\ wave \subseteq Agents
  /\ remaining \subseteq Agents
  /\ results \in Seq(Agents)
  /\ outcome \in Results \cup {"ok"}
  /\ log \in Seq(Events)

(* An agent has a result once it returned; one that raised is done.        *)
ReturnInv ==
  \A a \in Agents :
    /\ result[a] = "none" <=> at[a] \notin {"report", "done"}
    /\ result[a] = "raised" => at[a] = "done"

Has(l, e)  == \E i \in 1 .. Len(l) : l[i] = e
Once(l, e) == \A i, j \in 1 .. Len(l) : l[i] = e /\ l[j] = e => i = j

Spawned(a)  == AgentEvent("agent_spawned", a)
Finished(a) == AgentEvent("agent_finished", a)
Skipped(a)  == AgentEvent("agent_skipped", a)

NoAgentEvents ==
  \A a \in Agents : /\ ~Has(log, Spawned(a))
                    /\ ~Has(log, Finished(a))
                    /\ ~Has(log, Skipped(a))

(* Before the first wave nothing has happened to any agent.                *)
Untouched ==
  /\ \A a \in Agents : at[a] = "idle"
  /\ results = <<>>
  /\ remaining = {}
  /\ NoAgentEvents

(* The agents that are under way are those of the current wave; what they  *)
(* depend on has been joined, and what has been joined is done.            *)
WhereInv ==
  /\ mode = "agent" =>
       /\ pt \in {"start", "setup", "solo", "finally", "done"}
       /\ \A a \in Agents : deps[a] = {} /\ (at[a] # "idle" => a = 1)
       /\ remaining = {} /\ results = <<>>
       /\ NoAgentEvents
  /\ mode = "parent" => pt # "solo"
  /\ pt \in {"start", "setup", "decide", "spawn"} => Untouched
  /\ pt = "join" => wave \subseteq remaining /\ \A a \in wave : Resolved(a)
  /\ \A a \in Joined :
       /\ at[a] = "done" /\ result[a] # "raised"
       /\ Resolved(a) /\ a \notin remaining
  /\ mode = "parent" => \A a \in Agents : at[a] # "idle" /\ a \notin Joined =>
       /\ pt \in {"join", "finally", "done"}
       /\ a \in wave /\ Resolved(a)
       /\ pt # "join" => \E b \in Agents : result[b] = "raised"
  /\ pt \notin {"solo", "join"} =>
       \A a \in Agents : at[a] \in {"idle", "done"}

(* What the log says of the agents: who was spawned, who has finished, and *)
(* who was skipped once the waves were over.                               *)
ClosingInv ==
  /\ \A a \in Agents :
       /\ Has(log, Spawned(a)) => a \in Joined \cup remaining
       /\ Has(log, Finished(a)) <=>
            mode = "parent" /\ at[a] = "done" /\ result[a] # "raised"
       /\ Once(log, Finished(a))
       /\ Has(log, Skipped(a)) =>
            /\ a \in remaining /\ at[a] = "idle"
            /\ pt \in {"merge", "synth", "finally", "done"}
       /\ Once(log, Skipped(a))
  /\ pt \in {"merge", "synth", "finally", "done"}
       /\ (\A b \in Agents : result[b] # "raised") =>
     \A a \in remaining : Has(log, Skipped(a))

(* The run's own events; the answer is the last thing before the finally.  *)
ContractInv ==
  /\ pt = "start" => log = <<>>
  /\ pt # "start" => Has(log, Event("user_message"))
  /\ Has(log, Event("run_finished")) <=> pt = "done"
  /\ Has(log, Event("assistant_message")) <=>
       pt \in {"finally", "done"} /\ outcome = "ok"
  /\ pt \in {"finally", "done"} /\ outcome # "ok" =>
       Has(log, Event("run_error"))
  /\ pt \notin {"finally", "done"} => outcome = "error"

TurnInv == /\ IInv /\ TurnTypeOK /\ ReturnInv /\ WhereInv
           /\ ClosingInv /\ ContractInv

---------------------------------------------------------------------------
(* Every non-empty set of natural numbers has a smallest member.           *)
LEMMA SmallestMember ==
  ASSUME NEW T, T \subseteq Nat, T # {}
  PROVE  \E x \in T : \A y \in T : x <= y
<1> DEFINE Less == OpToRel(<, Nat)
<1>1. \A i, j \in Nat : <<i, j>> \in Less <=> i < j
  BY DEF OpToRel
<1>2. IsWellFoundedOn(Less, Nat)
  BY NatLessThanWellFounded
<1> HIDE DEF Less
<1>3. PICK x \in T : \A y \in T : <<y, x>> \notin Less
  BY <1>2, WFMin
<1>4. ASSUME NEW y \in T PROVE x <= y
  <2>1. x \in Nat /\ y \in Nat
    OBVIOUS
  <2>2. ~(y < x)
    BY <1>1, <1>3, <2>1
  <2>3. QED
    BY <2>1, <2>2
<1>5. QED
  BY <1>4

(* Induction over the natural numbers, for what a set can say.             *)
LEMMA SetInduction ==
  ASSUME NEW T, 0 \in T, \A n \in Nat : n \in T => n + 1 \in T
  PROVE  Nat \subseteq T
<1> DEFINE U == Nat \ T
<1>1. SUFFICES ASSUME U # {} PROVE FALSE
  OBVIOUS
<1>2. PICK x \in U : \A y \in U : x <= y
  BY <1>1, SmallestMember
<1>3. x # 0 /\ x - 1 \in Nat
  BY <1>2
<1>4. x - 1 \in T
  BY <1>2, <1>3
<1>5. QED
  BY <1>3, <1>4

Increasing(s, n) == \A i, j \in 1 .. n : i < j => s[i] < s[j]

(* A set of numbers up to a bound can be listed in increasing order.       *)
LEMMA ListExists ==
  ASSUME NEW m \in Nat, NEW S \in SUBSET (1 .. m)
  PROVE  \E s \in [1 .. Cardinality(S) -> S] : Increasing(s, Cardinality(S))
<1> DEFINE Listed(R) == \E s \in [1 .. Cardinality(R) -> R] :
                          Increasing(s, Cardinality(R))
           T == {k \in Nat : \A R \in SUBSET (1 .. k) : Listed(R)}
<1>1. 0 \in T
  <2> SUFFICES ASSUME NEW R \in SUBSET (1 .. 0) PROVE Listed(R)
    OBVIOUS
  <2>1. R = {}
    OBVIOUS
  <2> HIDE DEF Listed
  <2>2. Cardinality(R) = 0
    BY <2>1, FS_EmptySet
  <2>3. <<>> \in [1 .. Cardinality(R) -> R] /\ Increasing(<<>>, Cardinality(R))
    BY <2>1, <2>2 DEF Increasing
  <2>4. QED
    BY <2>3 DEF Listed
<1>2. ASSUME NEW k \in Nat, k \in T PROVE k + 1 \in T
  <2> HIDE DEF Listed
  <2> SUFFICES ASSUME NEW R \in SUBSET (1 .. k + 1) PROVE Listed(R)
    OBVIOUS
  <2> DEFINE Q == R \ {k + 1}
  <2>1. Q \in SUBSET (1 .. k)
    OBVIOUS
  <2>2. PICK q \in [1 .. Cardinality(Q) -> Q] : Increasing(q, Cardinality(Q))
    BY <1>2, <2>1 DEF Listed
  <2>3. CASE k + 1 \notin R
    BY <2>2, <2>3 DEF Listed
  <2>4. CASE k + 1 \in R
    <3> DEFINE n == Cardinality(Q)
               s == [i \in 1 .. n + 1 |-> IF i <= n THEN q[i] ELSE k + 1]
    <3>1. IsFiniteSet(Q)
      <4>1. IsFiniteSet(1 .. k)
        BY FS_Interval
      <4>2. QED
        BY <2>1, <4>1, FS_Subset
    <3>2. n \in Nat
      BY <3>1, FS_CardinalityType
    <3>3. Cardinality(R) = n + 1
      <4>1. R = Q \cup {k + 1}
        BY <2>4
      <4>2. QED
        BY <3>1, <4>1, FS_AddElement
    <3> HIDE DEF n
    <3>4. \A i \in 1 .. n : q[i] \in Q
      BY <2>2 DEF n
    <3>5. s \in [1 .. n + 1 -> R]
      <4>1. k + 1 \in R /\ \A i \in 1 .. n : q[i] \in R
        BY <2>4, <3>4
      <4>2. \A i \in 1 .. n + 1 : i \notin 1 .. n => ~(i <= n)
        BY <3>2
      <4>3. \A i \in 1 .. n + 1 : s[i] \in R
        BY <3>2, <4>1, <4>2
      <4>4. QED
        BY <4>3
    <3>6. ASSUME NEW i \in 1 .. n + 1, NEW j \in 1 .. n + 1, i < j
          PROVE  s[i] < s[j]
      <4>1. i \in 1 .. n /\ i <= n
        BY <3>2, <3>6
      <4>2. CASE j \in 1 .. n
        <5>1. q[i] < q[j]
          BY <2>2, <3>6, <4>1, <4>2 DEF Increasing, n
        <5>2. s[i] = q[i] /\ s[j] = q[j]
          BY <3>2, <4>1, <4>2
        <5>3. QED
          BY <5>1, <5>2
      <4>3. CASE j \notin 1 .. n
        <5>1. s[i] = q[i] /\ s[j] = k + 1
          BY <3>2, <4>1, <4>3
        <5>2. q[i] \in 1 .. k
          BY <2>1, <3>4, <4>1
        <5>3. QED
          BY <5>1, <5>2
      <4>4. QED
        BY <4>2, <4>3
    <3>7. QED
      BY <3>3, <3>5, <3>6 DEF Increasing, Listed
  <2>5. QED
    BY <2>3, <2>4
<1> HIDE DEF Listed
<1>3. Nat \subseteq T
  BY <1>1, <1>2, SetInduction
<1>4. QED
  BY <1>3 DEF Listed

(* The agents of a set in plan order: each of them, once.                  *)
LEMMA PlanOrder ==
  ASSUME NEW S \in SUBSET Agents
  PROVE  LET s == InPlanOrder(S)
             n == Cardinality(S)
         IN  /\ IsFiniteSet(S) /\ n \in Nat
             /\ s \in [1 .. n -> S]
             /\ \A i, j \in 1 .. n : s[i] = s[j] => i = j
             /\ \A a \in S : \E i \in 1 .. n : s[i] = a
<1> DEFINE s == InPlanOrder(S)
           n == Cardinality(S)
<1>1. S \in SUBSET (1 .. MaxAgents) /\ MaxAgents \in Nat
  BY TurnAssumption
<1>2. IsFiniteSet(S) /\ n \in Nat
  <2>1. IsFiniteSet(1 .. MaxAgents)
    BY <1>1, FS_Interval
  <2>2. IsFiniteSet(S)
    BY <1>1, <2>1, FS_Subset
  <2>3. QED
    BY <2>2, FS_CardinalityType
<1>3. \E t \in [1 .. n -> S] : \A i, j \in 1 .. n : i < j => t[i] < t[j]
  BY <1>1, ListExists DEF Increasing
<1>4. s \in [1 .. n -> S] /\ \A i, j \in 1 .. n : i < j => s[i] < s[j]
  BY <1>3 DEF InPlanOrder
<1> HIDE DEF s, n
<1>5. ASSUME NEW i \in 1 .. n, NEW j \in 1 .. n, s[i] = s[j] PROVE i = j
  <2>1. s[i] \in Nat
    <3>1. s[i] \in S
      BY <1>4
    <3>2. \A x \in S : x \in Nat
      BY <1>1
    <3>3. QED
      BY <3>1, <3>2
  <2>2. ~(i < j) /\ ~(j < i)
    BY <1>4, <1>5, <2>1
  <2>3. QED
    BY <1>2, <2>2
<1>6. s \in Injection(1 .. n, S)
  BY <1>4, <1>5, Fun_IsInj
<1>7. s \in Surjection(1 .. n, S)
  <2>1. Cardinality(1 .. n) = n
    BY <1>2, FS_Interval
  <2>2. QED
    BY <1>2, <1>6, <2>1, FS_Injection DEF n
<1>8. \A a \in S : \E i \in 1 .. n : s[i] = a
  BY <1>7 DEF Surjection
<1>9. QED
  BY <1>2, <1>4, <1>5, <1>8 DEF s, n

---------------------------------------------------------------------------
(* An event's kind and agent make it what it is.                           *)
LEMMA EventsDiffer ==
  /\ \A k, l, a, b : AgentEvent(k, a) = AgentEvent(l, b) <=> k = l /\ a = b
  /\ \A k : Event(k) = AgentEvent(k, 0)
  /\ 0 \notin Agents
  BY TurnAssumption DEF AgentEvent, Event

(* The log of the next state has one more occurrence of each of some       *)
(* events, and no other events.                                            *)
Adds(E) ==
  /\ log' \in Seq(Events)
  /\ \A e : Has(log', e) <=> Has(log, e) \/ e \in E
  /\ \A e : Once(log, e) /\ (e \in E => ~Has(log, e)) => Once(log', e)

(* A log that is left alone gains nothing.                                 *)
LEMMA AddsNothing == ASSUME TurnTypeOK, log' = log PROVE Adds({})
  BY DEF TurnTypeOK, Adds

(* One event appended.                                                     *)
LEMMA AddsOne ==
  ASSUME TurnTypeOK, NEW x \in Events, log' = Append(log, x)
  PROVE  Adds({x})
<1>1. log \in Seq(Events) /\ Len(log) \in Nat
  BY DEF TurnTypeOK
<1>2. /\ log' \in Seq(Events) /\ Len(log') = Len(log) + 1
      /\ \A i \in 1 .. Len(log) : log'[i] = log[i]
      /\ log'[Len(log) + 1] = x
  BY <1>1, AppendProperties
<1>3. ASSUME NEW e PROVE Has(log', e) <=> Has(log, e) \/ e = x
  <2>1. ASSUME Has(log, e) PROVE Has(log', e)
    BY <1>1, <1>2, <2>1 DEF Has
  <2>2. ASSUME e = x PROVE Has(log', e)
    BY <1>1, <1>2, <2>2 DEF Has
  <2>3. ASSUME NEW i \in 1 .. Len(log'), log'[i] = e, e # x PROVE Has(log, e)
    <3>1. i \in 1 .. Len(log)
      BY <1>1, <1>2, <2>3
    <3>2. QED
      BY <1>2, <2>3, <3>1 DEF Has
  <2>4. QED
    BY <2>1, <2>2, <2>3 DEF Has
<1>4. ASSUME NEW e, Once(log, e), e = x => ~Has(log, e) PROVE Once(log', e)
  <2> SUFFICES ASSUME NEW i \in 1 .. Len(log'), NEW j \in 1 .. Len(log'),
                      log'[i] = e, log'[j] = e
               PROVE  i = j
    BY DEF Once
  <2>1. CASE e = x
    <3>1. \A k \in 1 .. Len(log) : log'[k] # e
      BY <1>2, <1>4, <2>1 DEF Has
    <3>2. QED
      BY <1>1, <1>2, <3>1
  <2>2. CASE e # x
    <3>1. i \in 1 .. Len(log) /\ j \in 1 .. Len(log)
      BY <1>1, <1>2, <2>2
    <3>2. QED
      BY <1>2, <1>4, <3>1 DEF Once
  <2>3. QED
    BY <2>1, <2>2
<1>5. QED
  BY <1>2, <1>3, <1>4 DEF Adds

(* An event for each agent of a set, once, in plan order.                  *)
LEMMA AddsEach ==
  ASSUME TurnTypeOK, NEW k \in AgentKinds, NEW S \in SUBSET Agents,
         RecordEach(k, S)
  PROVE  Adds({AgentEvent(k, a) : a \in S})
<1> DEFINE s == InPlanOrder(S)
           n == Cardinality(S)
           m == [i \in 1 .. n |-> AgentEvent(k, s[i])]
           E == {AgentEvent(k, a) : a \in S}
<1>1. /\ n \in Nat
      /\ s \in [1 .. n -> S]
      /\ \A i, j \in 1 .. n : s[i] = s[j] => i = j
      /\ \A a \in S : \E i \in 1 .. n : s[i] = a
  BY PlanOrder
<1>2. log \in Seq(Events) /\ Len(log) \in Nat
  BY DEF TurnTypeOK
<1>3. log' = log \o m
  BY DEF RecordEach
<1> HIDE DEF s, n
<1>4. \A i \in 1 .. n : m[i] \in Events /\ m[i] \in E
  BY <1>1 DEF Events
<1>5. m \in Seq(Events) /\ Len(m) = n
  <2>1. m \in [1 .. n -> Events]
    BY <1>4
  <2>2. QED
    BY <1>1, <2>1, IsASeq
<1>6. \A i, j \in 1 .. n : m[i] = m[j] => i = j
  BY <1>1, EventsDiffer
<1>7. \A e \in E : \E i \in 1 .. n : m[i] = e
  BY <1>1
<1> HIDE DEF m, E
<1>8. /\ log' \in Seq(Events) /\ Len(log') = Len(log) + n
      /\ \A i \in 1 .. Len(log) : log'[i] = log[i]
      /\ \A i \in 1 .. n : log'[Len(log) + i] = m[i]
  <2>1. /\ log' \in Seq(Events) /\ Len(log') = Len(log) + n
        /\ \A i \in 1 .. Len(log) + n :
             log'[i] = IF i <= Len(log) THEN log[i] ELSE m[i - Len(log)]
    BY <1>2, <1>3, <1>5, ConcatProperties
  <2>2. ASSUME NEW i \in 1 .. n PROVE log'[Len(log) + i] = m[i]
    <3>1. /\ Len(log) + i \in 1 .. Len(log) + n /\ ~(Len(log) + i <= Len(log))
          /\ (Len(log) + i) - Len(log) = i
      BY <1>1, <1>2
    <3>2. QED
      BY <2>1, <3>1
  <2>3. ASSUME NEW i \in 1 .. Len(log) PROVE log'[i] = log[i]
    <3>1. i \in 1 .. Len(log) + n /\ i <= Len(log)
      BY <1>1, <1>2
    <3>2. QED
      BY <2>1, <3>1
  <2>4. QED
    BY <2>1, <2>2, <2>3
<1>9. ASSUME NEW i \in 1 .. Len(log')
      PROVE  i \in 1 .. Len(log) \/ \E j \in 1 .. n : i = Len(log) + j
  <2>1. i \in Nat /\ i <= Len(log) + n /\ i >= 1
    BY <1>1, <1>2, <1>8
  <2>2. i \notin 1 .. Len(log) => i - Len(log) \in 1 .. n
    BY <1>1, <1>2, <2>1
  <2>3. i = Len(log) + (i - Len(log))
    BY <1>2, <2>1
  <2>4. QED
    BY <2>2, <2>3
<1>10. ASSUME NEW e PROVE Has(log', e) <=> Has(log, e) \/ e \in E
  <2>1. ASSUME Has(log, e) PROVE Has(log', e)
    <3>1. PICK i \in 1 .. Len(log) : log[i] = e
      BY <2>1 DEF Has
    <3>2. i \in 1 .. Len(log')
      BY <1>1, <1>2, <1>8
    <3>3. QED
      BY <1>8, <3>1, <3>2 DEF Has
  <2>2. ASSUME e \in E PROVE Has(log', e)
    <3>1. PICK i \in 1 .. n : m[i] = e
      BY <1>7, <2>2
    <3>2. Len(log) + i \in 1 .. Len(log')
      BY <1>1, <1>2, <1>8
    <3>3. QED
      BY <1>8, <3>1, <3>2 DEF Has
  <2>3. ASSUME NEW i \in 1 .. Len(log'), log'[i] = e
        PROVE  Has(log, e) \/ e \in E
    BY <1>4, <1>8, <1>9, <2>3 DEF Has
  <2>4. QED
    BY <2>1, <2>2, <2>3 DEF Has
<1>11. ASSUME NEW e, Once(log, e), e \in E => ~Has(log, e)
       PROVE  Once(log', e)
  <2> SUFFICES ASSUME NEW i \in 1 .. Len(log'), NEW j \in 1 .. Len(log'),
                      log'[i] = e, log'[j] = e
               PROVE  i = j
    BY DEF Once
  <2>1. CASE e \in E
    <3>1. \A h \in 1 .. Len(log) : log'[h] # e
      BY <1>8, <1>11, <2>1 DEF Has
    <3>2. PICK p \in 1 .. n, q \in 1 .. n : i = Len(log) + p /\ j = Len(log) + q
      BY <1>9, <3>1
    <3>3. m[p] = e /\ m[q] = e
      BY <1>8, <3>2
    <3>4. QED
      BY <1>6, <3>2, <3>3
  <2>2. CASE e \notin E
    <3>1. ASSUME NEW h \in 1 .. Len(log'), log'[h] = e
          PROVE  h \in 1 .. Len(log)
      <4>1. \A k2 \in 1 .. n : log'[Len(log) + k2] # e
        BY <1>4, <1>8, <2>2
      <4>2. QED
        BY <1>9, <3>1, <4>1
    <3>2. i \in 1 .. Len(log) /\ j \in 1 .. Len(log)
      BY <3>1
    <3>3. QED
      BY <1>8, <1>11, <3>2 DEF Once
  <2>3. QED
    BY <2>1, <2>2
<1>12. QED
  BY <1>8, <1>10, <1>11 DEF Adds, E

---------------------------------------------------------------------------
(* A step of an agent's thread between being entered and handing back its  *)
(* result: the thread stays inside, or has a result to report, or is done  *)
(* because it raised.                                                      *)
LEMMA WorksMoves ==
  ASSUME TypeOK, NEW a \in Agents, Works(a)
  PROVE  \E p \in Points, r \in Results :
           /\ at' = [at EXCEPT ![a] = p]
           /\ result' = [result EXCEPT ![a] = r]
           /\ at[a] \notin {"idle", "done"}
           /\ \/ p \notin {"idle", "report", "done"} /\ r = result[a]
                 /\ at[a] # "report"
              \/ p = "report" /\ r \notin {"none", "raised"}
              \/ p = "done" /\ r = "raised"
<1> DEFINE Moves(p, r) ==
      /\ at' = [at EXCEPT ![a] = p]
      /\ result' = [result EXCEPT ![a] = r]
      /\ at[a] \notin {"idle", "done"}
      /\ \/ p \notin {"idle", "report", "done"} /\ r = result[a]
            /\ at[a] # "report"
         \/ p = "report" /\ r \notin {"none", "raised"}
         \/ p = "done" /\ r = "raised"
<1> SUFFICES \E p \in Points, r \in Results : Moves(p, r)
  OBVIOUS
<1>1. at \in [Agents -> Points] /\ result \in [Agents -> Results]
  BY DEF TypeOK
<1>2. ASSUME NEW p \in Points \ {"idle", "report", "done"},
             at[a] \notin {"idle", "done", "report"},
             Goto(a, p), result' = result
      PROVE  \E q \in Points, r \in Results : Moves(q, r)
  <2>1. result' = [result EXCEPT ![a] = result[a]] /\ result[a] \in Results
    BY <1>1, <1>2
  <2>2. Moves(p, result[a])
    BY <1>2, <2>1 DEF Goto
  <2>3. QED
    BY <2>1, <2>2
<1>3. ASSUME NEW r \in Results \ {"none", "raised"},
             at[a] \notin {"idle", "done"}, Return(a, r)
      PROVE  \E q \in Points, w \in Results : Moves(q, w)
  <2>1. Moves("report", r) /\ "report" \in Points
    BY <1>3 DEF Return, Goto, Points
  <2>2. QED
    BY <2>1
<1>4. ASSUME NextStep(a), at[a] \notin {"idle", "done", "report"}
      PROVE  \E q \in Points, w \in Results : Moves(q, w)
  <2>1. CASE Goto(a, "poll") /\ UNCHANGED result
    BY <1>2, <1>4, <2>1 DEF Points
  <2>2. CASE Return(a, "max_steps")
    BY <1>3, <1>4, <2>2 DEF Results
  <2>3. QED
    BY <1>4, <2>1, <2>2 DEF NextStep
<1>5. CASE Raise(a)
  <2>1. Moves("done", "raised") /\ "done" \in Points /\ "raised" \in Results
    BY <1>5 DEF Raise, Goto, Points, Results
  <2>2. QED
    BY <2>1
<1> HIDE DEF Moves
<1>6. CASE EnterLoop(a) \/ Reprompt(a)
  BY <1>4, <1>6 DEF EnterLoop, Reprompt
<1>7. CASE PollModel(a) \/ PollTool(a)
  BY <1>2, <1>3, <1>7 DEF PollModel, PollTool, Points, Results
<1>8. CASE WallBudget(a) \/ ModelFails(a) \/ FinalAnswer(a) \/ Refuse(a)
  BY <1>3, <1>8 DEF WallBudget, ModelFails, FinalAnswer, Refuse, Results
<1>9. CASE StartModel(a) \/ ModelReplies(a) \/ BookTokens(a) \/ UseTools(a)
  BY <1>2, <1>9 DEF StartModel, ModelReplies, BookTokens, UseTools, Points
<1>10. CASE EmitCall(a)
  BY <1>2, <1>10 DEF EmitCall, Points
<1>11. CASE ToolReturns(a)
  <2>1. CASE NextStep(a)
    BY <1>4, <1>11, <2>1 DEF ToolReturns
  <2>2. CASE Goto(a, "call") /\ UNCHANGED <<step, result>>
    BY <1>2, <1>11, <2>2 DEF ToolReturns, Points
  <2>3. QED
    BY <1>11, <2>1, <2>2 DEF ToolReturns
<1>12. QED
  BY <1>5, <1>6, <1>7, <1>8, <1>9, <1>10, <1>11 DEF Works

(* The agents as the turn sees them: every step of the turn is a step of   *)
(* its agents, or books a model call of the parent, or leaves them alone.  *)
LEMMA AgentSide ==
  ASSUME [TurnNext]_vars PROVE [AgentNext]_agentVars \/ ParentBooks
<1>1. ASSUME Turn PROVE [AgentNext]_agentVars \/ ParentBooks
  <2>1. CASE SoloStarts
    <3>1. 1 \in Agents
      BY TurnAssumption
    <3>2. QED
      BY <2>1, <3>1 DEF SoloStarts, AgentNext
  <2>2. CASE DecideUnusable \/ DecideReplies \/ DecidePlans \/ Synthesize
    BY <2>2 DEF DecideUnusable, DecideReplies, DecidePlans, Synthesize
  <2>3. CASE TurnStarts \/ TurnFinishes \/ SetupFails \/ SoloReturns
             \/ ParentStarts \/ DecideFails \/ SpecFails \/ Spawn
    BY <2>3 DEF TurnStarts, TurnFinishes, SetupFails, SoloReturns,
                ParentStarts, DecideFails, SpecFails, Spawn
  <2>4. CASE LoopEnds \/ LoopStuck \/ SubmitWave \/ Join \/ Skip
             \/ MergeNothing \/ MergeOne \/ MergeMany \/ SynthesizeFails
    BY <2>4 DEF LoopEnds, LoopStuck, SubmitWave, Join, Skip, MergeNothing,
                MergeOne, MergeMany, SynthesizeFails
  <2>5. QED
    BY <1>1, <2>1, <2>2, <2>3, <2>4 DEF Turn
<1>2. ASSUME TurnKilled PROVE [AgentNext]_agentVars
  BY <1>2 DEF TurnKilled, AgentNext
<1>3. ASSUME NEW a \in Agents, Agent(a) PROVE [AgentNext]_agentVars
  BY <1>3 DEF Agent, PoolStarts, AgentWorks, AgentReports, AgentNext
<1>4. CASE UNCHANGED vars
  BY <1>4 DEF vars
<1>5. QED
  BY <1>1, <1>2, <1>3, <1>4 DEF TurnNext

(* A model call of the parent books as much as the usage table shows.      *)
LEMMA ParentBooksKeeps == ASSUME IInv, ParentBooks PROVE IInv'
<1>1. PICK n \in Costs : tokens' = tokens + n /\ ledger' = ledger + n
  BY DEF ParentBooks
<1>2. n \in Nat /\ TypeOK
  BY MicroAgentAssumption DEF IInv
<1>3. /\ at' = at /\ step' = step /\ reminded' = reminded /\ called' = called
      /\ pending' = pending /\ result' = result /\ seen' = seen
      /\ spent' = spent /\ cost' = cost /\ copy' = copy /\ stop' = stop
      /\ ran' = ran /\ late' = late
  BY DEF ParentBooks, loopVars
<1>4. tokens' \in Nat /\ ledger' \in Nat
  BY <1>1, <1>2 DEF TypeOK
<1>5. TypeOK'
  BY <1>2, <1>3, <1>4 DEF TypeOK
<1>6. CountInv'
  <2>1. /\ tokens \in Nat /\ ledger \in Nat /\ copy \in [Agents -> Nat]
        /\ cost \in [Agents -> 0 .. MaxCost] /\ MaxCost \in Nat
    BY <1>2, MicroAgentAssumption DEF TypeOK
  <2>2. /\ tokens <= ledger
        /\ \A a \in Agents : at[a] = "book" => copy[a] + cost[a] <= ledger
    BY DEF IInv, CountInv
  <2>3. tokens + n <= ledger + n /\ ledger <= ledger + n
    BY <1>2, <2>1, <2>2
  <2>4. ASSUME NEW a \in Agents, at[a] = "book"
        PROVE  copy[a] + cost[a] <= ledger + n
    <3>1. copy[a] + cost[a] \in Nat
      BY <2>1
    <3>2. QED
      BY <1>2, <2>1, <2>2, <2>4, <3>1
  <2>5. QED
    BY <1>1, <1>3, <2>3, <2>4 DEF CountInv
<1>7. PendingInv' /\ LateInv'
  BY <1>3 DEF IInv, PendingInv, LateInv
<1>8. LoopInv' /\ BudgetInv'
  BY <1>3 DEF IInv, LoopInv, BudgetInv
<1>9. CalledInv'
  BY <1>3 DEF IInv, CalledInv
<1>10. QED
  BY <1>5, <1>6, <1>7, <1>8, <1>9 DEF IInv

---------------------------------------------------------------------------
(* The run's own events.                                                   *)
LEMMA AddsRecord ==
  ASSUME TurnTypeOK, NEW k \in RunKinds, Record(k)
  PROVE  Adds({Event(k)})
  BY AddsOne DEF Record, Events

(* What an agent's thread does in the pool.                                *)
LEMMA AddsReport ==
  ASSUME TurnTypeOK, NEW a \in Agents, AgentReports(a)
  PROVE  Adds(IF mode = "parent" THEN {Finished(a)} ELSE {})
<1>1. CASE mode = "parent"
  BY <1>1, AddsOne DEF AgentReports, Events, AgentKinds, Finished
<1>2. CASE mode # "parent"
  BY <1>2, AddsNothing DEF AgentReports
<1>3. QED
  BY <1>1, <1>2

(* The agents of a wave follow those that were joined before.              *)
LEMMA JoinedGrows ==
  ASSUME TurnTypeOK, results' = results \o InPlanOrder(wave)
  PROVE  results' \in Seq(Agents) /\ Joined' = Joined \cup wave
<1> DEFINE s == InPlanOrder(wave)
           n == Cardinality(wave)
<1>1. /\ n \in Nat
      /\ s \in [1 .. n -> wave]
      /\ \A a \in wave : \E i \in 1 .. n : s[i] = a
  BY PlanOrder DEF TurnTypeOK
<1>2. results' = results \o s
  OBVIOUS
<1> HIDE DEF s, n
<1>3. /\ results \in Seq(Agents) /\ Len(results) \in Nat
      /\ wave \subseteq Agents
  BY DEF TurnTypeOK
<1>4. s \in Seq(Agents) /\ Len(s) = n
  <2>1. s \in [1 .. n -> Agents]
    BY <1>1, <1>3
  <2>2. QED
    BY <1>1, <2>1, IsASeq
<1>5. /\ results' \in Seq(Agents) /\ Len(results') = Len(results) + n
      /\ \A i \in 1 .. Len(results) + n :
           results'[i] = IF i <= Len(results) THEN results[i]
                         ELSE s[i - Len(results)]
  <2>1. /\ results \o s \in Seq(Agents)
        /\ Len(results \o s) = Len(results) + Len(s)
        /\ \A i \in 1 .. Len(results) + Len(s) :
             (results \o s)[i] = IF i <= Len(results) THEN results[i]
                                 ELSE s[i - Len(results)]
    BY <1>3, <1>4, ConcatProperties
  <2>2. QED
    BY <1>2, <1>4, <2>1
<1>6. ASSUME NEW a \in Joined PROVE a \in Joined'
  <2>1. PICK i \in 1 .. Len(results) : results[i] = a
    BY DEF Joined
  <2>2. i \in 1 .. Len(results) + n /\ i <= Len(results)
    BY <1>1, <1>3
  <2>3. QED
    BY <1>5, <2>1, <2>2 DEF Joined
<1>7. ASSUME NEW a \in wave PROVE a \in Joined'
  <2>1. PICK i \in 1 .. n : s[i] = a
    BY <1>1
  <2>2. /\ Len(results) + i \in 1 .. Len(results) + n
        /\ ~(Len(results) + i <= Len(results))
        /\ (Len(results) + i) - Len(results) = i
    BY <1>1, <1>3
  <2>3. QED
    BY <1>5, <2>1, <2>2 DEF Joined
<1>8. ASSUME NEW a \in Joined' PROVE a \in Joined \cup wave
  <2>1. PICK i \in 1 .. Len(results') : results'[i] = a
    BY DEF Joined
  <2>2. CASE i <= Len(results)
    <3>1. i \in 1 .. Len(results) /\ results[i] = a
      BY <1>1, <1>3, <1>5, <2>1, <2>2
    <3>2. QED
      BY <3>1 DEF Joined
  <2>3. CASE ~(i <= Len(results))
    <3>1. i - Len(results) \in 1 .. n /\ s[i - Len(results)] = a
      BY <1>1, <1>3, <1>5, <2>1, <2>3
    <3>2. QED
      BY <1>1, <3>1
  <2>4. QED
    BY <2>2, <2>3
<1>9. QED
  BY <1>5, <1>6, <1>7, <1>8

(* Every step keeps the turn's variables in their sets.                    *)
LEMMA TurnTypeStep ==
  ASSUME IInv, TurnTypeOK, [TurnNext]_vars
  PROVE  TurnTypeOK'
<1> USE DEF TurnTypeOK
<1>1. /\ result \in [Agents -> Results] /\ "error" \in Results
      /\ 1 \in Agents
  BY TurnAssumption DEF IInv, TypeOK, Results
<1>2. ASSUME NEW k \in RunKinds, Record(k) PROVE log' \in Seq(Events)
  BY <1>2, AddsRecord DEF Adds
<1>3. ASSUME NEW w \in Results, TurnFails(w)
      PROVE  /\ log' \in Seq(Events) /\ pt' \in TurnPoints
             /\ outcome' \in Results \cup {"ok"}
  BY <1>2, <1>3 DEF TurnFails, RunKinds, TurnPoints
<1>4. ASSUME TurnAnswers
      PROVE  /\ log' \in Seq(Events) /\ pt' \in TurnPoints
             /\ outcome' \in Results \cup {"ok"}
  BY <1>2, <1>4 DEF TurnAnswers, RunKinds, TurnPoints
<1>5. ASSUME NEW k \in AgentKinds, NEW S \in SUBSET Agents, RecordEach(k, S)
      PROVE  log' \in Seq(Events)
  BY <1>5, AddsEach DEF Adds
<1>6. CASE Turn
  <2>1. CASE TurnStarts \/ TurnFinishes
    BY <1>2, <2>1 DEF TurnStarts, TurnFinishes, RunKinds, TurnPoints, planVars
  <2>2. CASE SetupFails \/ DecideFails \/ DecideUnusable \/ SpecFails
             \/ SynthesizeFails
    BY <1>1, <1>3, <2>2 DEF SetupFails, DecideFails, DecideUnusable, SpecFails,
                            SynthesizeFails, planVars
  <2>3. CASE DecideReplies \/ MergeOne \/ Synthesize
    BY <1>4, <2>3 DEF DecideReplies, MergeOne, Synthesize, planVars
  <2>4. CASE SoloStarts
    BY <1>1, <2>4 DEF SoloStarts, TurnPoints
  <2>5. CASE SoloReturns
    <3>1. result[1] \in Results
      BY <1>1
    <3>2. QED
      BY <1>1, <1>3, <1>4, <2>5, <3>1 DEF SoloReturns, planVars
  <2>6. CASE ParentStarts \/ LoopEnds \/ MergeMany
    BY <2>6 DEF ParentStarts, LoopEnds, MergeMany, TurnPoints, planVars
  <2>7. CASE DecidePlans
    <3>1. PICK n \in 1 .. MaxAgents :
            /\ plan' = 1 .. n
            /\ deps' \in {d \in [Agents -> SUBSET (1 .. n)] :
                 \A a \in Agents : a \notin d[a] /\ (a > n => d[a] = {})}
      BY <2>7 DEF DecidePlans
    <3>2. 1 .. n \subseteq Agents
      BY TurnAssumption
    <3>3. deps' \in [Agents -> SUBSET Agents]
      BY <3>1, <3>2
    <3>4. QED
      BY <2>7, <3>1, <3>2, <3>3 DEF DecidePlans, TurnPoints
  <2>8. CASE Spawn
    BY <1>5, <2>8 DEF Spawn, AgentKinds, TurnPoints, planVars
  <2>9. CASE LoopStuck
    BY <1>2, <2>9 DEF LoopStuck, RunKinds, TurnPoints, planVars
  <2>10. CASE SubmitWave
    BY <2>10 DEF SubmitWave, TurnPoints, planVars
  <2>11. CASE Join
    <3>1. CASE TurnFails("error")
      BY <1>1, <1>3, <2>11, <3>1, JoinedGrows DEF Join, planVars
    <3>2. CASE pt' = "loop" /\ results' = results \o InPlanOrder(wave)
               /\ remaining' = remaining \ wave /\ UNCHANGED <<outcome, log>>
      BY <2>11, <3>2, JoinedGrows DEF Join, TurnPoints, planVars
    <3>3. QED
      BY <2>11, <3>1, <3>2 DEF Join
  <2>12. CASE Skip
    BY <1>5, <2>12 DEF Skip, AgentKinds, TurnPoints, planVars
  <2>13. CASE MergeNothing
    <3>1. results # <<>> => result[results[1]] \in Results
      <4>1. results # <<>> => results[1] \in Agents
        BY EmptySeq, ElementOfSeq
      <4>2. QED
        BY <1>1, <4>1
    <3>2. QED
      BY <1>1, <1>3, <2>13, <3>1 DEF MergeNothing, planVars
  <2>14. QED
    BY <1>6, <2>1, <2>2, <2>3, <2>4, <2>5, <2>6, <2>7, <2>8, <2>9, <2>10,
       <2>11, <2>12, <2>13 DEF Turn
<1>7. CASE TurnKilled
  BY <1>7 DEF TurnKilled, turnVars, planVars
<1>8. ASSUME NEW a \in Agents, Agent(a) PROVE TurnTypeOK'
  <2>1. CASE PoolStarts(a) \/ AgentWorks(a)
    BY <2>1 DEF PoolStarts, AgentWorks, turnVars, planVars
  <2>2. CASE AgentReports(a)
    BY <2>2, AddsReport DEF AgentReports, planVars, Adds
  <2>3. QED
    BY <1>8, <2>1, <2>2 DEF Agent
<1>9. CASE UNCHANGED vars
  BY <1>9 DEF vars, turnVars, planVars
<1>10. QED
  BY <1>6, <1>7, <1>8, <1>9 DEF TurnNext

---------------------------------------------------------------------------
(* The log gains no event of an agent.                                     *)
SameAgentEvents ==
  \A a \in Agents :
    /\ Has(log', Spawned(a)) <=> Has(log, Spawned(a))
    /\ Has(log', Finished(a)) <=> Has(log, Finished(a))
    /\ Has(log', Skipped(a)) <=> Has(log, Skipped(a))
    /\ Once(log, Finished(a)) => Once(log', Finished(a))
    /\ Once(log, Skipped(a)) => Once(log', Skipped(a))

(* The run's own events are not events of an agent.                        *)
LEMMA QuietLog ==
  ASSUME TurnTypeOK, log' = log \/ \E k \in RunKinds : Record(k)
  PROVE  SameAgentEvents /\ (NoAgentEvents => NoAgentEvents')
<1>1. CASE log' = log
  BY <1>1 DEF SameAgentEvents, NoAgentEvents
<1>2. ASSUME NEW k \in RunKinds, Record(k) PROVE SameAgentEvents
  <2>1. Adds({Event(k)})
    BY <1>2, AddsRecord
  <2>2. \A a \in Agents : /\ Spawned(a) \notin {Event(k)}
                          /\ Finished(a) \notin {Event(k)}
                          /\ Skipped(a) \notin {Event(k)}
    BY EventsDiffer DEF Spawned, Finished, Skipped
  <2>3. QED
    BY <2>1, <2>2 DEF Adds, SameAgentEvents
<1>3. SameAgentEvents => (NoAgentEvents => NoAgentEvents')
  BY DEF SameAgentEvents, NoAgentEvents
<1>4. QED
  BY <1>1, <1>2, <1>3

(* Steps of the turn's own thread that start no agent leave them alone.    *)
LEMMA AgentsRest ==
  ASSUME Turn, ~SoloStarts PROVE at' = at /\ result' = result
<1> USE DEF agentVars, loopVars, ParentBooks
<1>1. CASE TurnStarts \/ TurnFinishes \/ SetupFails \/ SoloReturns
           \/ ParentStarts \/ DecideFails \/ DecideUnusable \/ DecideReplies
  BY <1>1 DEF TurnStarts, TurnFinishes, SetupFails, SoloReturns, ParentStarts,
              DecideFails, DecideUnusable, DecideReplies
<1>2. CASE DecidePlans \/ SpecFails \/ Spawn \/ LoopEnds \/ LoopStuck
           \/ SubmitWave \/ Join \/ Skip
  BY <1>2 DEF DecidePlans, SpecFails, Spawn, LoopEnds, LoopStuck, SubmitWave,
              Join, Skip
<1>3. CASE MergeNothing \/ MergeOne \/ MergeMany \/ SynthesizeFails
           \/ Synthesize
  BY <1>3 DEF MergeNothing, MergeOne, MergeMany, SynthesizeFails, Synthesize
<1>4. QED
  BY <1>1, <1>2, <1>3 DEF Turn

(* An agent that is entered, one that works, and one that reports.         *)
LEMMA AgentMoves ==
  ASSUME TypeOK, ReturnInv, NEW a \in Agents,
         Begin(a) \/ Works(a) \/ Report(a)
  PROVE  /\ ReturnInv'
         /\ \A b \in Agents \ {a} : at'[b] = at[b] /\ result'[b] = result[b]
         /\ Begin(a) => at[a] = "idle" /\ at'[a] = "begin"
                        /\ result'[a] = result[a]
         /\ Works(a) => /\ at[a] \notin {"idle", "done"} /\ at'[a] # "idle"
                        /\ at'[a] = "done" <=> result'[a] = "raised"
         /\ Report(a) => /\ at[a] = "report" /\ at'[a] = "done"
                         /\ result'[a] = result[a] /\ result[a] # "raised"
<1>1. at \in [Agents -> Points] /\ result \in [Agents -> Results]
  BY DEF TypeOK
<1>2. CASE Begin(a)
  <2>1. at[a] = "idle" /\ at' = [at EXCEPT ![a] = "begin"] /\ result' = result
    BY <1>2 DEF Begin, Goto
  <2>2. ~Works(a) /\ ~Report(a)
    BY <2>1, WorksMoves DEF Report
  <2>3. QED
    BY <1>1, <2>1, <2>2 DEF ReturnInv
<1>3. CASE Works(a)
  <2>1. PICK p \in Points, r \in Results :
           /\ at' = [at EXCEPT ![a] = p]
           /\ result' = [result EXCEPT ![a] = r]
           /\ at[a] \notin {"idle", "done"}
           /\ \/ p \notin {"idle", "report", "done"} /\ r = result[a]
                 /\ at[a] # "report"
              \/ p = "report" /\ r \notin {"none", "raised"}
              \/ p = "done" /\ r = "raised"
    BY <1>3, WorksMoves
  <2>2. /\ at'[a] = p /\ result'[a] = r
        /\ \A b \in Agents \ {a} : at'[b] = at[b] /\ result'[b] = result[b]
    BY <1>1, <2>1
  <2>3. ~Begin(a)
    BY <2>1 DEF Begin
  <2>4. Report(a) => result'[a] = result[a] /\ at[a] = "report" /\ p = "done"
    BY <1>1, <2>2 DEF Report, Goto
  <2>5. /\ result[a] = "none" <=> at[a] \notin {"report", "done"}
        /\ result[a] = "raised" => at[a] = "done"
    BY DEF ReturnInv
  <2>6. /\ r = "none" <=> p \notin {"report", "done"}
        /\ r = "raised" <=> p = "done"
    BY <2>1, <2>5
  <2>7. ~Report(a)
    BY <2>2, <2>4, <2>5, <2>6
  <2>8. ReturnInv'
    BY <2>2, <2>6 DEF ReturnInv
  <2>9. QED
    BY <2>1, <2>2, <2>3, <2>6, <2>7, <2>8
<1>4. CASE Report(a) /\ ~Works(a)
  <2>1. at[a] = "report" /\ at' = [at EXCEPT ![a] = "done"] /\ result' = result
    BY <1>4 DEF Report, Goto
  <2>2. ~Begin(a)
    BY <2>1 DEF Begin
  <2>3. QED
    BY <1>1, <1>4, <2>1, <2>2 DEF ReturnInv
<1>5. QED
  BY <1>2, <1>3, <1>4

(* Every step keeps results and places in step.                            *)
LEMMA ReturnStep ==
  ASSUME TypeOK, ReturnInv, [TurnNext]_vars
  PROVE  ReturnInv'
<1>1. CASE at' = at /\ result' = result
  BY <1>1 DEF ReturnInv
<1>2. CASE Turn
  <2>1. CASE SoloStarts
    <3>1. 1 \in Agents
      BY TurnAssumption
    <3>2. QED
      BY <2>1, <3>1, AgentMoves DEF SoloStarts
  <2>2. QED
    BY <1>1, <1>2, <2>1, AgentsRest
<1>3. CASE TurnKilled
  BY <1>1, <1>3 DEF TurnKilled, Kill, loopVars
<1>4. ASSUME NEW a \in Agents, Agent(a) PROVE ReturnInv'
  BY <1>4, AgentMoves DEF Agent, PoolStarts, AgentWorks, AgentReports
<1>5. CASE UNCHANGED vars
  BY <1>1, <1>5 DEF vars, agentVars, loopVars
<1>6. QED
  BY <1>2, <1>3, <1>4, <1>5 DEF TurnNext

---------------------------------------------------------------------------
(* A step of the turn's own thread that leaves the agents and the plan     *)
(* alone.                                                                  *)
LEMMA WhereStill ==
  ASSUME TurnTypeOK, WhereInv,
         at' = at, result' = result, UNCHANGED <<planVars, wave, remaining, results>>,
         NoAgentEvents => NoAgentEvents' \/ mode = "parent",
         pt' # pt => pt' \in {"setup", "decide", "skip", "merge", "synth",
                              "finally", "done"},
         pt \in {"start", "setup", "decide", "spawn"} =>
           (NoAgentEvents => NoAgentEvents'),
         pt' = "setup" => pt \in {"start", "setup"},
         pt' = "decide" => pt \in {"setup", "decide"} /\ mode = "parent",
         pt' \in {"skip", "merge", "synth"} =>
           pt \in {"loop", "skip", "merge", "synth"},
         pt' = "done" => pt \in {"finally", "done"},
         pt' = "finally" => pt # "join" /\ (pt = "solo" => at[1] = "done")
  PROVE  WhereInv'
<1>1. Joined' = Joined /\ mode' = mode /\ plan' = plan /\ deps' = deps
  BY DEF Joined, planVars
<1>2. \A a \in Agents : Resolved(a)' <=> Resolved(a)
  BY <1>1 DEF Resolved
<1>3. Joined \subseteq Agents /\ wave \subseteq Agents
  BY ElementOfSeq DEF Joined, TurnTypeOK
<1>4. ASSUME mode = "agent"
      PROVE  /\ pt' \in {"start", "setup", "solo", "finally", "done"}
             /\ \A a \in Agents : deps[a] = {} /\ (at[a] # "idle" => a = 1)
             /\ remaining = {} /\ results = <<>>
             /\ NoAgentEvents'
  <2>1. /\ pt \in {"start", "setup", "solo", "finally", "done"}
        /\ \A a \in Agents : deps[a] = {} /\ (at[a] # "idle" => a = 1)
        /\ remaining = {} /\ results = <<>>
        /\ NoAgentEvents
    BY <1>4 DEF WhereInv
  <2>2. pt' \in {"start", "setup", "solo", "finally", "done"}
    BY <1>4, <2>1
  <2>3. NoAgentEvents'
    BY <1>4, <2>1
  <2>4. QED
    BY <2>1, <2>2, <2>3
<1>5. mode = "parent" => pt' # "solo"
  BY DEF WhereInv
<1>6. pt' \in {"start", "setup", "decide", "spawn"} => Untouched'
  BY DEF WhereInv, Untouched
<1>7. pt' = "join" => wave \subseteq remaining /\ \A a \in wave : Resolved(a)
  BY DEF WhereInv
<1>8. \A a \in Joined : /\ at[a] = "done" /\ result[a] # "raised"
                        /\ Resolved(a) /\ a \notin remaining
  BY DEF WhereInv
<1>9. ASSUME mode = "parent", NEW a \in Agents, at[a] # "idle", a \notin Joined
      PROVE  /\ pt' \in {"join", "finally", "done"}
             /\ a \in wave /\ Resolved(a)
             /\ pt' # "join" => \E b \in Agents : result[b] = "raised"
  <2>1. /\ pt \in {"join", "finally", "done"}
        /\ a \in wave /\ Resolved(a)
        /\ pt # "join" => \E b \in Agents : result[b] = "raised"
    BY <1>9 DEF WhereInv
  <2>2. pt' \in {"join", "finally", "done"} /\ (pt = "join" => pt' = "join")
    BY <2>1
  <2>3. QED
    BY <2>1, <2>2
<1>10. pt' \notin {"solo", "join"} =>
         \A a \in Agents : at[a] \in {"idle", "done"}
  <2>1. SUFFICES ASSUME pt' \notin {"solo", "join"}
                 PROVE  \A a \in Agents : at[a] \in {"idle", "done"}
    OBVIOUS
  <2>2. CASE pt \notin {"solo", "join"}
    BY <2>2 DEF WhereInv
  <2>3. CASE pt = "join"
    BY <2>1, <2>3
  <2>4. CASE pt = "solo"
    <3>1. pt' = "finally" /\ at[1] = "done"
      BY <2>1, <2>4
    <3>2. mode = "agent"
      BY <2>4 DEF WhereInv, TurnTypeOK
    <3>3. QED
      BY <3>1, <3>2 DEF WhereInv
  <2>5. QED
    BY <2>2, <2>3, <2>4
<1>11. QED
  BY <1>1, <1>2, <1>3, <1>4, <1>5, <1>6, <1>7, <1>8, <1>9, <1>10 DEF WhereInv

(* A step of an agent's thread.                                            *)
LEMMA WhereAgents ==
  ASSUME TypeOK, TurnTypeOK, ReturnInv, WhereInv,
         NEW a \in Agents, Begin(a) \/ Works(a) \/ Report(a),
         UNCHANGED <<planVars, pt, wave, remaining, results>>,
         \/ log' = log
         \/ mode = "parent" /\ pt = "join",
         Begin(a) => mode = "parent" /\ pt = "join" /\ a \in wave
  PROVE  WhereInv'
<1>1. Joined' = Joined /\ mode' = mode /\ plan' = plan /\ deps' = deps
  BY DEF Joined, planVars
<1>2. \A b \in Agents : Resolved(b)' <=> Resolved(b)
  BY <1>1 DEF Resolved
<1>3. Joined \subseteq Agents /\ wave \subseteq Agents
  BY ElementOfSeq DEF Joined, TurnTypeOK
<1>4. \A b \in Agents \ {a} : at'[b] = at[b] /\ result'[b] = result[b]
  BY AgentMoves
<1>5. at[a] # "done"
  BY AgentMoves
<1>6. a \notin Joined
  BY <1>5 DEF WhereInv
<1>7. pt \in {"solo", "join"}
  <2>1. Begin(a) \/ at[a] \notin {"idle", "done"}
    BY AgentMoves
  <2>2. QED
    BY <2>1 DEF WhereInv
<1>8. NoAgentEvents => NoAgentEvents' \/ (mode = "parent" /\ pt = "join")
  BY DEF NoAgentEvents
<1>9. mode = "parent" => pt = "join" /\ a \in wave /\ Resolved(a)
  <2>1. SUFFICES ASSUME mode = "parent"
                 PROVE  pt = "join" /\ a \in wave /\ Resolved(a)
    OBVIOUS
  <2>2. pt = "join"
    BY <1>7, <2>1 DEF WhereInv
  <2>3. CASE Begin(a)
    BY <2>2, <2>3 DEF WhereInv
  <2>4. CASE ~Begin(a)
    <3>1. at[a] # "idle"
      BY <2>4, AgentMoves
    <3>2. QED
      BY <1>6, <2>1, <2>2, <3>1 DEF WhereInv
  <2>5. QED
    BY <2>3, <2>4
<1>10. ASSUME mode = "agent"
       PROVE  /\ pt \in {"start", "setup", "solo", "finally", "done"}
              /\ \A b \in Agents : deps[b] = {} /\ (at'[b] # "idle" => b = 1)
              /\ remaining = {} /\ results = <<>>
              /\ NoAgentEvents'
  <2>1. ~Begin(a) /\ log' = log
    BY <1>10
  <2>2. a = 1
    <3>1. at[a] # "idle"
      BY <2>1, AgentMoves
    <3>2. QED
      BY <1>10, <3>1 DEF WhereInv
  <2>3. NoAgentEvents'
    BY <1>10, <2>1 DEF WhereInv, NoAgentEvents
  <2>4. QED
    BY <1>4, <1>10, <2>2, <2>3 DEF WhereInv
<1>11. \A b \in Joined : /\ at'[b] = "done" /\ result'[b] # "raised"
                         /\ Resolved(b) /\ b \notin remaining
  BY <1>3, <1>4, <1>6 DEF WhereInv
<1>12. ASSUME mode = "parent", NEW b \in Agents, at'[b] # "idle", b \notin Joined
       PROVE  pt = "join" /\ b \in wave /\ Resolved(b)
  <2>1. CASE b = a
    BY <1>9, <1>12, <2>1
  <2>2. CASE b # a
    BY <1>4, <1>9, <1>12, <2>2 DEF WhereInv
  <2>3. QED
    BY <2>1, <2>2
<1>13. /\ mode = "parent" => pt # "solo"
       /\ pt = "join" => wave \subseteq remaining /\ \A b \in wave : Resolved(b)
  BY DEF WhereInv
<1>14. pt \notin {"start", "setup", "decide", "spawn"}
  BY <1>7
<1>15. /\ pt' = pt /\ wave' = wave /\ remaining' = remaining
       /\ results' = results
  OBVIOUS
<1>16. QED
  BY <1>1, <1>2, <1>3, <1>7, <1>10, <1>11, <1>12, <1>13, <1>14, <1>15
  DEF WhereInv

(* The steps of the turn's own thread that start no agent, submit no wave  *)
(* and join none.                                                          *)
LEMMA WhereQuiet ==
  ASSUME TurnTypeOK, WhereInv, Turn,
         ~SoloStarts, ~DecidePlans, ~Spawn, ~SubmitWave, ~Join
  PROVE  WhereInv'
<1>1. at' = at /\ result' = result
  BY AgentsRest
<1>2. mode \in {"agent", "parent"}
  BY DEF TurnTypeOK
<1>3. CASE Skip
  <2>1. pt = "skip" /\ pt' = "merge"
        /\ UNCHANGED <<planVars, wave, remaining, results>>
    BY <1>3 DEF Skip
  <2>2. mode = "parent"
    BY <1>2, <2>1 DEF WhereInv
  <2>3. QED
    BY <1>1, <2>1, <2>2, WhereStill
<1>4. CASE ~Skip
  <2> DEFINE Quiet == /\ UNCHANGED <<planVars, wave, remaining, results>>
                      /\ log' = log \/ \E k \in RunKinds : Record(k)
  <2>1. CASE TurnStarts
    <3>1. Quiet /\ pt = "start" /\ pt' = "setup"
      BY <2>1 DEF TurnStarts, RunKinds
    <3>2. QED
      BY <1>1, <3>1, QuietLog, WhereStill
  <2>2. CASE TurnFinishes
    <3>1. Quiet /\ pt = "finally" /\ pt' = "done"
      BY <2>2 DEF TurnFinishes, RunKinds
    <3>2. QED
      BY <1>1, <3>1, QuietLog, WhereStill
  <2>3. CASE SetupFails \/ DecideFails \/ DecideUnusable \/ DecideReplies
             \/ SpecFails
    <3>1. Quiet /\ pt \in {"setup", "decide", "spawn"} /\ pt' = "finally"
      BY <2>3 DEF SetupFails, DecideFails, DecideUnusable, DecideReplies,
                  SpecFails, TurnFails, TurnAnswers, RunKinds
    <3>2. QED
      BY <1>1, <3>1, QuietLog, WhereStill
  <2>4. CASE SoloReturns
    <3>1. Quiet /\ pt = "solo" /\ at[1] = "done" /\ pt' = "finally"
      BY <2>4 DEF SoloReturns, TurnFails, TurnAnswers, RunKinds
    <3>2. QED
      BY <1>1, <3>1, QuietLog, WhereStill
  <2>5. CASE ParentStarts
    <3>1. Quiet /\ pt = "setup" /\ mode = "parent" /\ pt' = "decide"
      BY <2>5 DEF ParentStarts
    <3>2. QED
      BY <1>1, <3>1, QuietLog, WhereStill
  <2>6. CASE LoopEnds \/ LoopStuck
    <3>1. Quiet /\ pt = "loop" /\ pt' = "skip"
      BY <2>6 DEF LoopEnds, LoopStuck, RunKinds
    <3>2. QED
      BY <1>1, <3>1, QuietLog, WhereStill
  <2>7. CASE MergeNothing \/ MergeOne \/ MergeMany
    <3>1. Quiet /\ pt = "merge" /\ pt' \in {"finally", "synth"}
      BY <2>7 DEF MergeNothing, MergeOne, MergeMany, TurnFails, TurnAnswers,
                  RunKinds
    <3>2. QED
      BY <1>1, <3>1, QuietLog, WhereStill
  <2>8. CASE SynthesizeFails \/ Synthesize
    <3>1. Quiet /\ pt = "synth" /\ pt' = "finally"
      BY <2>8 DEF SynthesizeFails, Synthesize, TurnFails, TurnAnswers, RunKinds
    <3>2. QED
      BY <1>1, <3>1, QuietLog, WhereStill
  <2>9. QED
    BY <1>4, <2>1, <2>2, <2>3, <2>4, <2>5, <2>6, <2>7, <2>8 DEF Turn
<1>5. QED
  BY <1>3, <1>4

(* Every step keeps the agents where the turn's point says they are.       *)
LEMMA WhereStep ==
  ASSUME TypeOK, TurnTypeOK, TurnTypeOK', ReturnInv, WhereInv, [TurnNext]_vars
  PROVE  WhereInv'
<1>1. /\ mode \in {"agent", "parent"} /\ Joined \subseteq Agents
      /\ wave \subseteq Agents /\ at \in [Agents -> Points] /\ 1 \in Agents
  <2>1. Joined \subseteq Agents
    BY ElementOfSeq DEF Joined, TurnTypeOK
  <2>2. 1 \in Agents
    BY TurnAssumption
  <2>3. QED
    BY <2>1, <2>2 DEF TurnTypeOK, TypeOK
<1>2. CASE SoloStarts
  <2>1. /\ pt = "setup" /\ mode = "agent" /\ pt' = "solo" /\ Begin(1)
        /\ UNCHANGED <<mode, deps, wave, remaining, results, log>>
    BY <1>2 DEF SoloStarts
  <2>2. Untouched
    BY <2>1 DEF WhereInv
  <2>3. /\ \A a \in Agents : at'[a] # "idle" => a = 1
        /\ Joined' = {}
    BY <1>1, <2>1, <2>2, AgentMoves DEF Untouched, Joined
  <2>4. NoAgentEvents'
    BY <2>1, <2>2 DEF Untouched, NoAgentEvents
  <2>5. \A a \in Agents : deps'[a] = {}
    BY <2>1 DEF WhereInv
  <2>6. remaining' = {} /\ results' = <<>> /\ mode' = "agent"
    BY <2>1, <2>2 DEF Untouched
  <2>7. QED
    BY <2>1, <2>3, <2>4, <2>5, <2>6 DEF WhereInv
<1>3. CASE DecidePlans
  <2>1. /\ pt = "decide" /\ pt' = "spawn" /\ at' = at
        /\ UNCHANGED <<mode, wave, remaining, results, log>>
    BY <1>3 DEF DecidePlans, ParentBooks, loopVars
  <2>2. mode = "parent" /\ Untouched
    BY <1>1, <2>1 DEF WhereInv
  <2>3. Untouched' /\ Joined' = {}
    BY <2>1, <2>2 DEF Untouched, NoAgentEvents, Joined
  <2>4. \A a \in Agents : at'[a] = "idle"
    BY <2>3 DEF Untouched
  <2>5. QED
    BY <2>1, <2>2, <2>3, <2>4 DEF WhereInv
<1>4. CASE Spawn
  <2>1. /\ pt = "spawn" /\ pt' = "loop" /\ at' = at
        /\ UNCHANGED <<planVars, wave, results>>
    BY <1>4 DEF Spawn, agentVars, loopVars
  <2>2. mode = "parent" /\ Untouched
    BY <1>1, <2>1 DEF WhereInv
  <2>3. Joined' = {} /\ \A a \in Agents : at'[a] = "idle"
    BY <2>1, <2>2 DEF Untouched, Joined
  <2>4. mode' = "parent"
    BY <2>1, <2>2 DEF planVars
  <2>5. QED
    BY <2>1, <2>3, <2>4 DEF WhereInv
<1>5. CASE SubmitWave
  <2>1. /\ pt = "loop" /\ pt' = "join" /\ at' = at /\ result' = result
        /\ wave' = {a \in remaining : Resolved(a)}
        /\ UNCHANGED <<planVars, remaining, results>>
    BY <1>5 DEF SubmitWave, agentVars, loopVars
  <2>2. mode = "parent"
    BY <1>1, <2>1 DEF WhereInv
  <2>3. Joined' = Joined /\ \A a \in Agents : Resolved(a)' <=> Resolved(a)
    BY <2>1 DEF Joined, Resolved, planVars
  <2>4. \A a \in Agents : at[a] # "idle" => a \in Joined
    BY <2>1, <2>2 DEF WhereInv
  <2>5. mode' = "parent"
    BY <2>1, <2>2 DEF planVars
  <2>6. wave' \subseteq remaining' /\ \A a \in wave' : Resolved(a)'
    <3>1. remaining \subseteq Agents
      BY DEF TurnTypeOK
    <3>2. QED
      BY <2>1, <2>3, <3>1
  <2>7. \A a \in Joined' : /\ at'[a] = "done" /\ result'[a] # "raised"
                           /\ Resolved(a)' /\ a \notin remaining'
    BY <1>1, <2>1, <2>3 DEF WhereInv
  <2>8. QED
    BY <2>1, <2>3, <2>4, <2>5, <2>6, <2>7 DEF WhereInv
<1>6. CASE Join
  <2>1. /\ pt = "join" /\ \A a \in wave : at[a] = "done"
        /\ at' = at /\ result' = result /\ UNCHANGED <<planVars, wave>>
    BY <1>6 DEF Join, agentVars, loopVars
  <2>2. mode = "parent" /\ mode' = "parent" /\ deps' = deps
    BY <1>1, <2>1 DEF WhereInv, planVars
  <2>3. \A a \in Joined : /\ at[a] = "done" /\ result[a] # "raised"
                          /\ Resolved(a) /\ a \notin remaining
    BY DEF WhereInv
  <2>4. \A a \in Agents : at[a] # "idle" /\ a \notin Joined =>
                            a \in wave /\ Resolved(a)
    BY <2>2 DEF WhereInv
  <2>5. wave \subseteq remaining /\ \A a \in wave : Resolved(a)
    BY <2>1 DEF WhereInv
  <2>6. \A a \in Agents : at[a] \in {"idle", "done"}
    BY <2>1, <2>3, <2>4
  <2>7. CASE /\ \E a \in wave : result[a] = "raised"
             /\ TurnFails("error")
             /\ UNCHANGED <<remaining, results>>
    <3>1. pt' = "finally" /\ Joined' = Joined
          /\ \A a \in Agents : Resolved(a)' <=> Resolved(a)
      BY <2>2, <2>7 DEF TurnFails, Joined, Resolved
    <3>2. \E b \in Agents : result'[b] = "raised"
      BY <1>1, <2>1, <2>7
    <3>3. \A a \in Joined' : /\ at'[a] = "done" /\ result'[a] # "raised"
                             /\ Resolved(a)' /\ a \notin remaining'
      BY <1>1, <2>1, <2>3, <2>7, <3>1
    <3>4. QED
      BY <2>1, <2>2, <2>4, <2>6, <3>1, <3>2, <3>3 DEF WhereInv
  <2>8. CASE /\ \A a \in wave : result[a] # "raised"
             /\ pt' = "loop"
             /\ results' = results \o InPlanOrder(wave)
             /\ remaining' = remaining \ wave
    <3>1. Joined' = Joined \cup wave
      BY <2>8, JoinedGrows
    <3>2. \A a \in Agents : Resolved(a) => Resolved(a)'
      BY <2>2, <3>1 DEF Resolved
    <3>3. \A a \in Joined' : /\ at'[a] = "done" /\ result'[a] # "raised"
                             /\ Resolved(a)' /\ a \notin remaining'
      BY <1>1, <2>1, <2>3, <2>5, <2>8, <3>1, <3>2
    <3>4. QED
      BY <2>1, <2>2, <2>4, <2>6, <2>8, <3>1, <3>3 DEF WhereInv
  <2>9. QED
    BY <1>6, <2>7, <2>8 DEF Join
<1>7. CASE Turn
  BY <1>2, <1>3, <1>4, <1>5, <1>6, <1>7, WhereQuiet
<1>8. CASE TurnKilled
  <2>1. at' = at /\ result' = result /\ log' = log /\ pt' = pt
        /\ UNCHANGED <<planVars, wave, remaining, results>>
    BY <1>8 DEF TurnKilled, Kill, loopVars, turnVars
  <2>2. WhereInv => WhereInv'
    BY <2>1 DEF WhereInv, Untouched, NoAgentEvents, Joined, Resolved, planVars
  <2>3. QED
    BY <2>2
<1>9. ASSUME NEW a \in Agents, Agent(a) PROVE WhereInv'
  <2>1. CASE PoolStarts(a)
    <3>1. mode = "parent"
      BY <1>1, <2>1 DEF PoolStarts, WhereInv
    <3>2. /\ Begin(a) /\ pt = "join" /\ a \in wave
          /\ UNCHANGED <<planVars, pt, wave, remaining, results>> /\ log' = log
      BY <2>1 DEF PoolStarts, turnVars
    <3>3. QED
      BY <3>1, <3>2, WhereAgents
  <2>2. CASE AgentWorks(a)
    <3>1. /\ Works(a) /\ log' = log
          /\ UNCHANGED <<planVars, pt, wave, remaining, results>>
      BY <2>2 DEF AgentWorks, turnVars
    <3>2. ~Begin(a)
      BY <3>1, WorksMoves DEF Begin
    <3>3. QED
      BY <3>1, <3>2, WhereAgents
  <2>3. CASE AgentReports(a)
    <3>1. /\ Report(a) /\ (mode # "parent" => log' = log)
          /\ UNCHANGED <<planVars, pt, wave, remaining, results>>
      BY <2>3 DEF AgentReports
    <3>2. at[a] = "report"
      BY <3>1 DEF Report
    <3>3. mode = "parent" => pt = "join"
      BY <3>2 DEF WhereInv
    <3>4. ~Begin(a)
      BY <3>2 DEF Begin
    <3>5. QED
      BY <1>1, <3>1, <3>3, <3>4, WhereAgents
  <2>4. QED
    BY <1>9, <2>1, <2>2, <2>3 DEF Agent
<1>10. CASE UNCHANGED vars
  <2>1. at' = at /\ result' = result /\ log' = log /\ pt' = pt
        /\ UNCHANGED <<planVars, wave, remaining, results>>
    BY <1>10 DEF vars, turnVars, agentVars, loopVars
  <2>2. WhereInv => WhereInv'
    BY <2>1 DEF WhereInv, Untouched, NoAgentEvents, Joined, Resolved, planVars
  <2>3. QED
    BY <2>2
<1>11. QED
  BY <1>7, <1>8, <1>9, <1>10 DEF TurnNext

---------------------------------------------------------------------------
(* The points past the waves, where the agents that are left were skipped. *)
Over == {"merge", "synth", "finally", "done"}

(* A step that leaves the agents and their events alone.                   *)
LEMMA ClosingStill ==
  ASSUME TurnTypeOK, ClosingInv, SameAgentEvents,
         at' = at, result' = result, mode' = mode,
         UNCHANGED <<remaining, results>>,
         pt \in Over => pt' \in Over,
         pt' \in Over /\ pt \notin Over =>
           remaining = {} \/ \E b \in Agents : result[b] = "raised"
  PROVE  ClosingInv'
<1>1. Joined' = Joined /\ remaining' = remaining
  BY DEF Joined
<1>2. \A a \in Agents :
        /\ Has(log, Spawned(a)) => a \in Joined \cup remaining
        /\ Has(log, Finished(a)) <=>
             mode = "parent" /\ at[a] = "done" /\ result[a] # "raised"
        /\ Once(log, Finished(a))
        /\ Has(log, Skipped(a)) =>
             a \in remaining /\ at[a] = "idle" /\ pt \in Over
        /\ Once(log, Skipped(a))
  BY DEF ClosingInv, Over
<1>3. \A a \in Agents :
        /\ Has(log', Spawned(a)) => a \in Joined' \cup remaining'
        /\ Has(log', Finished(a)) <=>
             mode' = "parent" /\ at'[a] = "done" /\ result'[a] # "raised"
        /\ Once(log', Finished(a))
        /\ Has(log', Skipped(a)) =>
             a \in remaining' /\ at'[a] = "idle" /\ pt' \in Over
        /\ Once(log', Skipped(a))
  BY <1>1, <1>2 DEF SameAgentEvents
<1>4. ASSUME pt' \in Over, \A b \in Agents : result'[b] # "raised",
             NEW a \in remaining'
      PROVE  Has(log', Skipped(a))
  <2>1. pt \in Over
    BY <1>1, <1>4
  <2>2. Has(log, Skipped(a))
    BY <1>1, <1>4, <2>1 DEF ClosingInv, Over
  <2>3. a \in Agents
    BY <1>1 DEF TurnTypeOK
  <2>4. QED
    BY <2>2, <2>3 DEF SameAgentEvents
<1>5. QED
  BY <1>1, <1>3, <1>4 DEF ClosingInv, Over, Spawned, Finished, Skipped

(* A step of an agent's thread.                                            *)
LEMMA ClosingAgents ==
  ASSUME TypeOK, TurnTypeOK, ReturnInv, WhereInv, ClosingInv,
         NEW a \in Agents, Begin(a) \/ Works(a) \/ Report(a),
         Adds(IF Report(a) /\ mode = "parent" THEN {Finished(a)} ELSE {}),
         pt \notin Over, pt' \notin Over,
         UNCHANGED <<mode, remaining, results>>
  PROVE  ClosingInv'
<1>1. Joined' = Joined /\ remaining' = remaining /\ mode' = mode
  BY DEF Joined
<1>2. /\ \A b \in Agents \ {a} : at'[b] = at[b] /\ result'[b] = result[b]
      /\ at[a] # "done"
      /\ at'[a] = "done" /\ result'[a] # "raised" <=> Report(a)
  BY AgentMoves
<1>3. ~Has(log, Finished(a))
  BY <1>2 DEF ClosingInv
<1>4. ASSUME NEW b \in Agents
      PROVE  /\ Has(log', Spawned(b)) => b \in Joined' \cup remaining'
             /\ ~Has(log', Skipped(b))
             /\ Once(log', Skipped(b))
  <2>1. /\ Has(log', Spawned(b)) => Has(log, Spawned(b))
        /\ Has(log', Skipped(b)) => Has(log, Skipped(b))
        /\ Once(log, Skipped(b)) => Once(log', Skipped(b))
    BY EventsDiffer DEF Adds, Spawned, Finished, Skipped
  <2>2. QED
    BY <1>1, <2>1 DEF ClosingInv, Over
<1>5. ASSUME NEW b \in Agents
      PROVE  /\ Has(log', Finished(b)) <=>
                  mode' = "parent" /\ at'[b] = "done" /\ result'[b] # "raised"
             /\ Once(log', Finished(b))
  <2>1. CASE b = a
    <3>1. Once(log, Finished(a))
      BY DEF ClosingInv
    <3>2. Once(log', Finished(a))
      BY <1>3, <3>1 DEF Adds
    <3>3. Has(log', Finished(a)) <=> Report(a) /\ mode = "parent"
      BY <1>3 DEF Adds
    <3>4. QED
      BY <1>1, <1>2, <2>1, <3>2, <3>3
  <2>2. CASE b # a
    <3>1. Finished(b) \notin {Finished(a)}
      BY <2>2, EventsDiffer DEF Finished
    <3>2. /\ Has(log', Finished(b)) <=> Has(log, Finished(b))
          /\ Once(log, Finished(b)) => Once(log', Finished(b))
      BY <3>1 DEF Adds
    <3>3. QED
      BY <1>1, <1>2, <2>2, <3>2 DEF ClosingInv
  <2>3. QED
    BY <2>1, <2>2
<1>6. QED
  BY <1>1, <1>4, <1>5 DEF ClosingInv, Over, Spawned, Finished, Skipped

(* The steps of the turn's own thread that log no event of an agent.       *)
LEMMA ClosingQuiet ==
  ASSUME TurnTypeOK, WhereInv, ClosingInv, Turn,
         ~SoloStarts, ~Spawn, ~Join, ~Skip
  PROVE  ClosingInv'
<1>1. at' = at /\ result' = result
  BY AgentsRest
<1>2. ASSUME log' = log \/ \E k \in RunKinds : Record(k) PROVE SameAgentEvents
  BY <1>2, QuietLog
<1>3. pt \in {"setup", "decide", "spawn", "solo"} => remaining = {}
  BY DEF WhereInv, Untouched, TurnTypeOK
<1> DEFINE Quiet == /\ UNCHANGED <<mode, remaining, results>>
                    /\ log' = log \/ \E k \in RunKinds : Record(k)
<1>4. CASE TurnStarts \/ TurnFinishes \/ ParentStarts \/ DecidePlans
  <2>1. Quiet /\ pt \in {"start", "finally", "setup", "decide"}
        /\ (pt' \in Over <=> pt \in Over)
    BY <1>4 DEF TurnStarts, TurnFinishes, ParentStarts, DecidePlans, RunKinds,
                planVars, Over
  <2>2. QED
    BY <1>1, <1>2, <2>1, ClosingStill
<1>5. CASE SetupFails \/ DecideFails \/ DecideUnusable \/ DecideReplies
           \/ SpecFails \/ SoloReturns
  <2>1. Quiet /\ pt \in {"setup", "decide", "spawn", "solo"} /\ pt \notin Over
    BY <1>5 DEF SetupFails, DecideFails, DecideUnusable, DecideReplies,
                SpecFails, SoloReturns, TurnFails, TurnAnswers, RunKinds,
                planVars, Over
  <2>2. QED
    BY <1>1, <1>2, <1>3, <2>1, ClosingStill
<1>6. CASE LoopEnds \/ LoopStuck \/ SubmitWave
  <2>1. Quiet /\ pt \notin Over /\ pt' \notin Over
    BY <1>6 DEF LoopEnds, LoopStuck, SubmitWave, RunKinds, planVars, Over
  <2>2. QED
    BY <1>1, <1>2, <2>1, ClosingStill
<1>7. CASE MergeNothing \/ MergeOne \/ MergeMany \/ SynthesizeFails
           \/ Synthesize
  <2>1. Quiet /\ pt \in Over /\ pt' \in Over
    BY <1>7 DEF MergeNothing, MergeOne, MergeMany, SynthesizeFails, Synthesize,
                TurnFails, TurnAnswers, RunKinds, planVars, Over
  <2>2. QED
    BY <1>1, <1>2, <2>1, ClosingStill
<1>8. QED
  BY <1>4, <1>5, <1>6, <1>7 DEF Turn

(* Every step keeps what the log says of the agents.                       *)
LEMMA ClosingStep ==
  ASSUME TypeOK, TurnTypeOK, ReturnInv, WhereInv, ClosingInv, [TurnNext]_vars
  PROVE  ClosingInv'
<1>1. /\ mode \in {"agent", "parent"} /\ 1 \in Agents
      /\ plan \subseteq Agents /\ remaining \subseteq Agents
      /\ wave \subseteq Agents
  BY TurnAssumption DEF TurnTypeOK
<1>2. CASE SoloStarts
  <2>1. /\ Begin(1) /\ mode = "agent" /\ pt \notin Over /\ pt' \notin Over
        /\ UNCHANGED <<mode, remaining, results>> /\ log' = log
    BY <1>2 DEF SoloStarts, Over
  <2>2. Adds({})
    BY <2>1, AddsNothing
  <2>3. QED
    BY <1>1, <2>1, <2>2, ClosingAgents
<1>3. CASE Spawn
  <2>1. /\ pt = "spawn" /\ pt' = "loop" /\ at' = at /\ result' = result
        /\ remaining' = plan /\ RecordEach("agent_spawned", plan)
    BY <1>3 DEF Spawn, agentVars, loopVars
  <2>2. Adds({AgentEvent("agent_spawned", a) : a \in plan})
    BY <1>1, <2>1, AddsEach DEF AgentKinds
  <2>3. Untouched
    BY <2>1 DEF WhereInv
  <2>4. ASSUME NEW a \in Agents
        PROVE  /\ Has(log', Spawned(a)) => a \in plan
               /\ ~Has(log', Finished(a)) /\ ~Has(log', Skipped(a))
    <3>1. ~Has(log, Spawned(a)) /\ ~Has(log, Finished(a)) /\ ~Has(log, Skipped(a))
      BY <2>3 DEF Untouched, NoAgentEvents
    <3>2. /\ \A b : Finished(a) # AgentEvent("agent_spawned", b)
          /\ \A b : Skipped(a) # AgentEvent("agent_spawned", b)
          /\ \A b : Spawned(a) = AgentEvent("agent_spawned", b) => a = b
      BY EventsDiffer DEF Finished, Skipped, Spawned
    <3>3. QED
      BY <2>2, <3>1, <3>2 DEF Adds
  <2>5. \A e : ~Has(log', e) => Once(log', e)
    BY DEF Has, Once
  <2>6. \A a \in Agents : at'[a] = "idle"
    BY <2>1, <2>3 DEF Untouched
  <2>7. QED
    BY <2>1, <2>4, <2>5, <2>6 DEF ClosingInv
<1>4. CASE Join
  <2>1. /\ pt = "join" /\ at' = at /\ result' = result /\ mode' = mode
    BY <1>4 DEF Join, agentVars, loopVars, planVars
  <2>2. CASE /\ \E a \in wave : result[a] = "raised"
             /\ TurnFails("error")
             /\ UNCHANGED <<remaining, results>>
    <3>1. SameAgentEvents
      BY <2>2, QuietLog DEF TurnFails, RunKinds
    <3>2. \E b \in Agents : result[b] = "raised"
      BY <1>1, <2>2
    <3>3. pt \notin Over
      BY <2>1 DEF Over
    <3>4. QED
      BY <2>1, <2>2, <3>1, <3>2, <3>3, ClosingStill
  <2>3. CASE /\ pt' = "loop" /\ log' = log
             /\ results' = results \o InPlanOrder(wave)
             /\ remaining' = remaining \ wave
    <3>1. Joined' = Joined \cup wave
      BY <2>3, JoinedGrows
    <3>2. Joined \cup remaining \subseteq Joined' \cup remaining'
      BY <2>3, <3>1
    <3>3. \A a \in Agents : ~Has(log, Skipped(a))
      BY <2>1 DEF ClosingInv
    <3>4. QED
      BY <2>1, <2>3, <3>2, <3>3 DEF ClosingInv
  <2>4. QED
    BY <1>4, <2>2, <2>3 DEF Join
<1>5. CASE Skip
  <2>1. /\ pt = "skip" /\ pt' = "merge" /\ at' = at /\ result' = result
        /\ UNCHANGED <<planVars, wave, remaining, results>>
        /\ RecordEach("agent_skipped", remaining)
    BY <1>5 DEF Skip, agentVars, loopVars
  <2>2. Adds({AgentEvent("agent_skipped", a) : a \in remaining})
    BY <1>1, <2>1, AddsEach DEF AgentKinds
  <2>3. mode = "parent" /\ mode' = mode /\ Joined' = Joined
    BY <1>1, <2>1 DEF WhereInv, planVars, Joined
  <2>4. \A a \in remaining : at[a] = "idle"
    BY <1>1, <2>1, <2>3 DEF WhereInv
  <2>5. ASSUME NEW a \in Agents
        PROVE  /\ Has(log', Spawned(a)) <=> Has(log, Spawned(a))
               /\ Has(log', Finished(a)) <=> Has(log, Finished(a))
               /\ Once(log, Finished(a)) => Once(log', Finished(a))
               /\ Has(log', Skipped(a)) <=> a \in remaining
               /\ Once(log', Skipped(a))
    <3>1. ~Has(log, Skipped(a)) /\ Once(log, Skipped(a))
      BY <2>1 DEF ClosingInv
    <3>2. /\ \A b : Finished(a) # AgentEvent("agent_skipped", b)
          /\ \A b : Spawned(a) # AgentEvent("agent_skipped", b)
          /\ \A b : Skipped(a) = AgentEvent("agent_skipped", b) <=> a = b
      BY EventsDiffer DEF Finished, Skipped, Spawned
    <3>3. QED
      BY <2>2, <3>1, <3>2 DEF Adds
  <2>6. QED
    BY <1>1, <2>1, <2>3, <2>4, <2>5 DEF ClosingInv
<1>6. CASE Turn
  BY <1>2, <1>3, <1>4, <1>5, <1>6, ClosingQuiet
<1>7. CASE TurnKilled \/ UNCHANGED vars
  <2>1. /\ at' = at /\ result' = result /\ log' = log /\ pt' = pt
        /\ UNCHANGED <<mode, remaining, results>>
    BY <1>7 DEF TurnKilled, Kill, vars, agentVars, loopVars, turnVars, planVars
  <2>2. SameAgentEvents
    BY <2>1, QuietLog
  <2>3. QED
    BY <2>1, <2>2, ClosingStill
<1>8. ASSUME NEW a \in Agents, Agent(a) PROVE ClosingInv'
  <2>1. CASE PoolStarts(a) \/ AgentWorks(a)
    <3>1. /\ (Begin(a) \/ Works(a)) /\ log' = log /\ pt' = pt
          /\ UNCHANGED <<mode, remaining, results>>
      BY <2>1 DEF PoolStarts, AgentWorks, turnVars, planVars
    <3>2. ~Report(a)
      <4>1. CASE Begin(a)
        BY <4>1 DEF Begin, Report
      <4>2. CASE Works(a)
        BY <4>2, AgentMoves
      <4>3. QED
        BY <3>1, <4>1, <4>2
    <3>3. pt \notin Over
      <4>1. PoolStarts(a) => pt = "join"
        BY DEF PoolStarts
      <4>2. Works(a) => at[a] \notin {"idle", "done"}
        BY AgentMoves
      <4>3. AgentWorks(a) => Works(a)
        BY DEF AgentWorks
      <4>4. QED
        BY <2>1, <4>1, <4>2, <4>3 DEF WhereInv, Over
    <3>4. QED
      BY <3>1, <3>2, <3>3, AddsNothing, ClosingAgents
  <2>2. CASE AgentReports(a)
    <3>1. /\ Report(a) /\ pt' = pt /\ at[a] = "report"
          /\ UNCHANGED <<mode, remaining, results>>
      BY <2>2 DEF AgentReports, Report, planVars
    <3>2. Adds(IF mode = "parent" THEN {Finished(a)} ELSE {})
      BY <2>2, AddsReport
    <3>3. pt \notin Over
      BY <3>1 DEF WhereInv, Over
    <3>4. QED
      BY <3>1, <3>2, <3>3, ClosingAgents
  <2>3. QED
    BY <1>8, <2>1, <2>2 DEF Agent
<1>9. QED
  BY <1>6, <1>7, <1>8 DEF TurnNext

---------------------------------------------------------------------------
(* The turn as its contract sees it: the body between the user_message and *)
(* the finally clause logs a run_error or the answer.                      *)
Body == TurnPoints \ {"start", "finally", "done"}

Unnoticed == /\ \A k \in RunKinds : Has(log', Event(k)) <=> Has(log, Event(k))
             /\ outcome' = outcome
             /\ pt' = pt \/ (pt \in Body /\ pt' \in Body)
             /\ pt = "start" => log' = log
Opens     == pt = "start" /\ pt' \in Body /\ outcome' = outcome
             /\ Record("user_message")
Errs      == pt \in Body /\ pt' \in Body /\ outcome' = outcome
             /\ Record("run_error")
Fails     == pt \in Body /\ \E w \in Results : TurnFails(w)
Answers   == pt \in Body /\ TurnAnswers
Closes    == pt = "finally" /\ pt' = "done" /\ outcome' = outcome
             /\ Record("run_finished")

RunStep == Unnoticed \/ Opens \/ Errs \/ Fails \/ Answers \/ Closes

(* Events of agents are none of the run's own.                             *)
LEMMA AgentEventsUnnoticed ==
  ASSUME NEW E, Adds(E),
         \A e \in E : \E k \in AgentKinds, a \in Agents : e = AgentEvent(k, a)
  PROVE  \A k \in RunKinds : Has(log', Event(k)) <=> Has(log, Event(k))
<1>1. ASSUME NEW k \in RunKinds PROVE Event(k) \notin E
  BY EventsDiffer DEF RunKinds, AgentKinds
<1>2. QED
  BY <1>1 DEF Adds

(* Every step of the turn, of its agents and of its killer is one of them. *)
LEMMA RunMoves ==
  ASSUME TypeOK, TurnTypeOK, WhereInv, [TurnNext]_vars
  PROVE  RunStep
<1> USE DEF RunStep
<1>1. ASSUME log' = log, outcome' = outcome,
             pt' = pt \/ (pt \in Body /\ pt' \in Body)
      PROVE  Unnoticed
  BY <1>1 DEF Unnoticed
<1>2. /\ result \in [Agents -> Results] /\ "error" \in Results /\ 1 \in Agents
      /\ plan \subseteq Agents /\ remaining \subseteq Agents
  <2>1. 1 \in Agents
    BY TurnAssumption
  <2>2. QED
    BY <2>1 DEF TypeOK, Results, TurnTypeOK
<1>3. CASE TurnStarts
  BY <1>3 DEF TurnStarts, Opens, Body, TurnPoints
<1>4. CASE TurnFinishes
  BY <1>4 DEF TurnFinishes, Closes
<1>5. CASE SetupFails \/ DecideFails \/ DecideUnusable \/ SpecFails
           \/ SynthesizeFails
  <2>1. pt \in Body /\ TurnFails("error")
    BY <1>5 DEF SetupFails, DecideFails, DecideUnusable, SpecFails,
                SynthesizeFails, Body, TurnPoints
  <2>2. QED
    BY <1>2, <2>1 DEF Fails
<1>6. CASE DecideReplies \/ MergeOne \/ Synthesize
  BY <1>6 DEF DecideReplies, MergeOne, Synthesize, Body, TurnPoints, Answers
<1>7. CASE SoloReturns
  <2>1. pt \in Body /\ result[1] \in Results
    BY <1>2, <1>7 DEF SoloReturns, Body, TurnPoints
  <2>2. TurnAnswers \/ TurnFails("error") \/ TurnFails(result[1])
    BY <1>7 DEF SoloReturns
  <2>3. QED
    BY <1>2, <2>1, <2>2 DEF Fails, Answers
<1>8. CASE MergeNothing
  <2>1. results # <<>> => result[results[1]] \in Results
    <3>1. results # <<>> => results[1] \in Agents
      BY EmptySeq, ElementOfSeq DEF TurnTypeOK
    <3>2. QED
      BY <1>2, <3>1
  <2>2. pt \in Body
        /\ TurnFails(IF results = <<>> THEN "error" ELSE result[results[1]])
    BY <1>8 DEF MergeNothing, Body, TurnPoints
  <2>3. QED
    BY <1>2, <2>1, <2>2 DEF Fails
<1>9. CASE SoloStarts \/ ParentStarts \/ DecidePlans \/ LoopEnds \/ SubmitWave
           \/ MergeMany
  BY <1>1, <1>9 DEF SoloStarts, ParentStarts, DecidePlans, LoopEnds,
                    SubmitWave, MergeMany, Body, TurnPoints
<1>10. CASE LoopStuck
  BY <1>10 DEF LoopStuck, Errs, Body, TurnPoints
<1>11. CASE Join
  <2>1. CASE TurnFails("error")
    BY <1>2, <1>11, <2>1 DEF Join, Fails, Body, TurnPoints
  <2>2. CASE pt' = "loop" /\ UNCHANGED <<outcome, log>>
    BY <1>1, <1>11, <2>2 DEF Join, Body, TurnPoints
  <2>3. QED
    BY <1>11, <2>1, <2>2 DEF Join
<1>12. CASE Spawn
  <2>1. RecordEach("agent_spawned", plan)
    BY <1>12 DEF Spawn
  <2>2. Adds({AgentEvent("agent_spawned", a) : a \in plan})
    BY <1>2, <2>1, AddsEach DEF AgentKinds
  <2>3. \A k \in RunKinds : Has(log', Event(k)) <=> Has(log, Event(k))
    BY <1>2, <2>2, AgentEventsUnnoticed DEF AgentKinds
  <2>4. QED
    BY <1>12, <2>3 DEF Spawn, Unnoticed, Body, TurnPoints
<1>13. CASE Skip
  <2>1. RecordEach("agent_skipped", remaining)
    BY <1>13 DEF Skip
  <2>2. Adds({AgentEvent("agent_skipped", a) : a \in remaining})
    BY <1>2, <2>1, AddsEach DEF AgentKinds
  <2>3. \A k \in RunKinds : Has(log', Event(k)) <=> Has(log, Event(k))
    BY <1>2, <2>2, AgentEventsUnnoticed DEF AgentKinds
  <2>4. QED
    BY <1>13, <2>3 DEF Skip, Unnoticed, Body, TurnPoints
<1>14. CASE TurnKilled \/ UNCHANGED vars
  BY <1>1, <1>14 DEF TurnKilled, vars, turnVars
<1>15. ASSUME NEW a \in Agents, Agent(a) PROVE Unnoticed
  <2>1. CASE PoolStarts(a) \/ AgentWorks(a)
    BY <1>1, <2>1 DEF PoolStarts, AgentWorks, turnVars
  <2>2. CASE AgentReports(a)
    <3>1. Adds(IF mode = "parent" THEN {Finished(a)} ELSE {})
      BY <2>2, AddsReport
    <3>2. \A k \in RunKinds : Has(log', Event(k)) <=> Has(log, Event(k))
      BY <3>1, AgentEventsUnnoticed DEF AgentKinds, Finished
    <3>3. pt' = pt /\ outcome' = outcome
      BY <2>2 DEF AgentReports
    <3>4. at[a] = "report"
      BY <2>2 DEF AgentReports, Report
    <3>5. pt # "start"
      BY <3>4 DEF WhereInv
    <3>6. QED
      BY <3>2, <3>3, <3>5 DEF Unnoticed
  <2>3. QED
    BY <1>15, <2>1, <2>2 DEF Agent
<1>16. QED
  BY <1>3, <1>4, <1>5, <1>6, <1>7, <1>8, <1>9, <1>10, <1>11, <1>12, <1>13,
     <1>14, <1>15 DEF TurnNext, Turn

(* What a step does to the run's own events of the log.                    *)
LEMMA RecordMoves ==
  ASSUME TurnTypeOK, NEW k \in RunKinds, Record(k)
  PROVE  \A j \in RunKinds :
           Has(log', Event(j)) <=> Has(log, Event(j)) \/ j = k
<1>1. Adds({Event(k)})
  BY AddsRecord
<1>2. \A j \in RunKinds : Event(j) \in {Event(k)} <=> j = k
  BY EventsDiffer
<1>3. QED
  BY <1>1, <1>2 DEF Adds

(* Every step keeps the run's own events in step with its point.           *)
LEMMA ContractStep ==
  ASSUME TurnTypeOK, ContractInv, RunStep
  PROVE  ContractInv'
<1> USE DEF RunKinds, Body, TurnPoints
<1>1. CASE Unnoticed
  BY <1>1 DEF Unnoticed, ContractInv
<1>2. CASE Opens
  <2>1. \A j \in RunKinds : Has(log', Event(j)) <=>
                              Has(log, Event(j)) \/ j = "user_message"
    BY <1>2, RecordMoves DEF Opens
  <2>2. QED
    BY <1>2, <2>1 DEF Opens, ContractInv
<1>3. CASE Errs
  <2>1. \A j \in RunKinds : Has(log', Event(j)) <=>
                              Has(log, Event(j)) \/ j = "run_error"
    BY <1>3, RecordMoves DEF Errs
  <2>2. QED
    BY <1>3, <2>1 DEF Errs, ContractInv
<1>4. CASE Fails
  <2>1. PICK w \in Results : TurnFails(w)
    BY <1>4 DEF Fails
  <2>2. \A j \in RunKinds : Has(log', Event(j)) <=>
                              Has(log, Event(j)) \/ j = "run_error"
    BY <2>1, RecordMoves DEF TurnFails
  <2>3. w # "ok"
    BY DEF Results
  <2>4. QED
    BY <1>4, <2>1, <2>2, <2>3 DEF Fails, TurnFails, ContractInv
<1>5. CASE Answers
  <2>1. \A j \in RunKinds : Has(log', Event(j)) <=>
                              Has(log, Event(j)) \/ j = "assistant_message"
    BY <1>5, RecordMoves DEF Answers, TurnAnswers
  <2>2. QED
    BY <1>5, <2>1 DEF Answers, TurnAnswers, ContractInv
<1>6. CASE Closes
  <2>1. \A j \in RunKinds : Has(log', Event(j)) <=>
                              Has(log, Event(j)) \/ j = "run_finished"
    BY <1>6, RecordMoves DEF Closes
  <2>2. QED
    BY <1>6, <2>1 DEF Closes, ContractInv
<1>7. QED
  BY <1>1, <1>2, <1>3, <1>4, <1>5, <1>6 DEF RunStep

---------------------------------------------------------------------------
(* Before the turn has begun.                                              *)
LEMMA TurnBegins == TurnInit => TurnInv
<1> SUFFICES ASSUME TurnInit PROVE TurnInv
  OBVIOUS
<1>1. IInv
  BY MicroInit DEF TurnInit
<1>2. /\ pt = "start" /\ plan = {} /\ wave = {} /\ remaining = {}
      /\ results = <<>> /\ log = <<>> /\ outcome = "error"
      /\ mode \in {"agent", "parent"}
      /\ \A a \in Agents : at[a] = "idle" /\ result[a] = "none" /\ deps[a] = {}
      /\ deps \in [Agents -> SUBSET Agents]
  BY DEF TurnInit, AgentInit
<1>3. \A e : ~Has(log, e) /\ Once(log, e)
  <2>1. Len(log) = 0
    BY <1>2
  <2>2. QED
    BY <2>1 DEF Has, Once
<1>4. Joined = {}
  BY <1>2 DEF Joined
<1>5. TurnTypeOK
  <2>1. <<>> \in Seq(Agents) /\ <<>> \in Seq(Events)
    OBVIOUS
  <2>2. QED
    BY <1>2, <2>1 DEF TurnTypeOK, TurnPoints, Results
<1>6. ReturnInv
  BY <1>2 DEF ReturnInv
<1>7. WhereInv
  BY <1>2, <1>3, <1>4 DEF WhereInv, Untouched, NoAgentEvents
<1>8. ClosingInv
  BY <1>2, <1>3 DEF ClosingInv
<1>9. ContractInv
  BY <1>2, <1>3 DEF ContractInv
<1>10. QED
  BY <1>1, <1>5, <1>6, <1>7, <1>8, <1>9 DEF TurnInv

(* The invariant is inductive.                                             *)
LEMMA TurnStep == TurnInv /\ [TurnNext]_vars => TurnInv'
<1> SUFFICES ASSUME TurnInv, [TurnNext]_vars PROVE TurnInv'
  OBVIOUS
<1>1. /\ IInv /\ TypeOK /\ TurnTypeOK /\ ReturnInv /\ WhereInv /\ ClosingInv
      /\ ContractInv
  BY DEF TurnInv, IInv
<1>2. IInv'
  <2>1. CASE [AgentNext]_agentVars
    BY <1>1, <2>1, MicroTypeStep, PendingStep, LateStep, LoopStep, BudgetStep,
       CalledStep, CountStep
    DEF IInv
  <2>2. CASE ParentBooks
    BY <1>1, <2>2, ParentBooksKeeps
  <2>3. QED
    BY <2>1, <2>2, AgentSide
<1>3. TurnTypeOK'
  BY <1>1, TurnTypeStep
<1>4. ReturnInv'
  BY <1>1, ReturnStep
<1>5. WhereInv'
  BY <1>1, <1>3, WhereStep
<1>6. ClosingInv'
  BY <1>1, ClosingStep
<1>7. ContractInv'
  BY <1>1, RunMoves, ContractStep
<1>8. QED
  BY <1>2, <1>3, <1>4, <1>5, <1>6, <1>7 DEF TurnInv

(* Every behaviour of a turn keeps the invariant. *)
LEMMA TurnInvariant == TurnSpec => []TurnInv
  BY TurnBegins, TurnStep, PTL DEF TurnSpec

(* The variables of the turn and of its agents keep to their sets.         *)
THEOREM TurnTypes == TurnSpec => [](TypeOK /\ TurnTypeOK)
<1>1. TurnInv => TypeOK /\ TurnTypeOK
  BY DEF TurnInv, IInv
<1>2. QED
  BY <1>1, TurnInvariant, PTL

(* kill(), a budget or the loop detector may stop a turn whose parent      *)
(* books model calls of its own: its agents keep their bounds, and the     *)
(* turn's tokens stay within the usage table.                              *)
THEOREM TurnKeepsBounds ==
  TurnSpec => [](/\ StopBound /\ LoopBound /\ BudgetBound
                 /\ AnswerAfterCall /\ NeverOvercounts)
<1>1. TurnInv => /\ StopBound /\ LoopBound /\ BudgetBound
                 /\ AnswerAfterCall /\ NeverOvercounts
  BY DEF TurnInv, IInv, LateInv, StopBound, LoopInv, LoopBound, BudgetInv,
         BudgetBound, CalledInv, AnswerAfterCall, CountInv, NeverOvercounts
<1>2. QED
  BY <1>1, TurnInvariant, PTL

(* _turn_parent: however the plan's dependencies lie, and whatever other   *)
(* agents and a killer do meanwhile, an agent runs only when those it      *)
(* depends on have been joined and have their agent_finished in the log.   *)
THEOREM DependenciesComeFirst == TurnSpec => []DependenciesFirst
<1>1. TurnInv => DependenciesFirst
  <2> SUFFICES ASSUME TurnInv, NEW a \in Agents, at[a] # "idle",
                      NEW d \in deps[a]
               PROVE  /\ d \in Joined
                      /\ \E i \in 1 .. Len(log) :
                           log[i] = AgentEvent("agent_finished", d)
    BY DEF DependenciesFirst
  <2>1. TurnTypeOK /\ WhereInv /\ ClosingInv
    BY DEF TurnInv
  <2>2. mode = "parent" /\ d \in Agents
    BY <2>1 DEF WhereInv, TurnTypeOK
  <2>3. d \in Joined
    <3>1. CASE a \in Joined
      BY <2>1, <3>1 DEF WhereInv, Resolved
    <3>2. CASE a \notin Joined
      BY <2>1, <2>2, <3>2 DEF WhereInv, Resolved
    <3>3. QED
      BY <3>1, <3>2
  <2>4. at[d] = "done" /\ result[d] # "raised"
    BY <2>1, <2>3 DEF WhereInv
  <2>5. Has(log, Finished(d))
    BY <2>1, <2>2, <2>4 DEF ClosingInv
  <2>6. QED
    BY <2>3, <2>5 DEF Has, Finished
<1>2. QED
  BY <1>1, TurnInvariant, PTL

(* events.md: every agent_spawned of a finished run is closed by exactly   *)
(* one agent_finished or agent_skipped, unless an agent raised; never by   *)
(* two; and by agent_skipped exactly when the agent never ran.             *)
THEOREM SpawnsAreClosed == TurnSpec => []EverySpawnIsClosed
<1>1. TurnInv => EverySpawnIsClosed
  <2> SUFFICES ASSUME TurnInv PROVE EverySpawnIsClosed
    OBVIOUS
  <2> DEFINE Closings(a) == {i \in 1 .. Len(log) :
                               /\ log[i].who = a
                               /\ log[i].kind \in {"agent_finished",
                                                   "agent_skipped"}}
  <2>1. TurnTypeOK /\ WhereInv /\ ClosingInv
    BY DEF TurnInv
  <2>2. ASSUME NEW i \in 1 .. Len(log)
        PROVE  log[i] \in Events
    BY <2>1, <2>2, ElementOfSeq DEF TurnTypeOK
  <2>3. ASSUME NEW a, NEW i \in Closings(a)
        PROVE  log[i] = Finished(a) \/ log[i] = Skipped(a)
    BY <2>2, <2>3 DEF Events, RunKinds, Event, AgentEvent, Finished, Skipped
  <2>4. ASSUME NEW a \in Agents, NEW i \in 1 .. Len(log),
               log[i] = Finished(a) \/ log[i] = Skipped(a)
        PROVE  i \in Closings(a)
    BY <2>4 DEF Finished, Skipped, AgentEvent
  <2>5. ASSUME NEW a \in Agents
        PROVE  /\ Has(log, Finished(a)) => at[a] # "idle"
               /\ Has(log, Skipped(a)) => at[a] = "idle"
               /\ Once(log, Finished(a)) /\ Once(log, Skipped(a))
    BY <2>1 DEF ClosingInv
  <2>6. ASSUME NEW a \in Agents, NEW i \in Closings(a), NEW j \in Closings(a)
        PROVE  i = j
    <3>1. /\ log[i] = Finished(a) \/ log[i] = Skipped(a)
          /\ log[j] = Finished(a) \/ log[j] = Skipped(a)
          /\ i \in 1 .. Len(log) /\ j \in 1 .. Len(log)
      BY <2>3
    <3>2. log[i] = log[j]
      BY <2>5, <3>1 DEF Has
    <3>3. QED
      BY <2>5, <3>1, <3>2 DEF Once
  <2>7. ASSUME NEW i \in 1 .. Len(log), log[i].kind = "agent_spawned"
        PROVE  log[i].who \in Agents /\ Has(log, Spawned(log[i].who))
    <3>1. log[i] \in Events
      BY <2>2
    <3>2. PICK a \in Agents : log[i] = Spawned(a)
      BY <2>7, <3>1 DEF Events, RunKinds, Event, AgentEvent, Spawned
    <3>3. log[i].who = a
      BY <3>2 DEF Spawned, AgentEvent
    <3>4. QED
      BY <3>2, <3>3 DEF Has
  <2>8. ASSUME NEW a \in Agents, Has(log, Spawned(a)), pt = "done",
               \A b \in Agents : result[b] # "raised"
        PROVE  Closings(a) # {}
    <3>1. mode = "parent"
      BY <2>1, <2>8 DEF WhereInv, NoAgentEvents, TurnTypeOK
    <3>2. a \in Joined \/ a \in remaining
      BY <2>1, <2>8 DEF ClosingInv
    <3>3. CASE a \in Joined
      <4>1. at[a] = "done" /\ result[a] # "raised"
        BY <2>1, <3>3 DEF WhereInv
      <4>2. Has(log, Finished(a))
        BY <2>1, <3>1, <4>1 DEF ClosingInv
      <4>3. QED
        BY <2>4, <4>2 DEF Has
    <3>4. CASE a \in remaining
      <4>1. Has(log, Skipped(a))
        BY <2>1, <2>8, <3>4 DEF ClosingInv
      <4>2. QED
        BY <2>4, <4>1 DEF Has
    <3>5. QED
      BY <3>2, <3>3, <3>4
  <2>9. ASSUME NEW a \in Agents
        PROVE  /\ Cardinality(Closings(a)) <= 1
               /\ Closings(a) # {} => Cardinality(Closings(a)) = 1
    <3>1. CASE Closings(a) = {}
      BY <3>1, FS_EmptySet
    <3>2. CASE Closings(a) # {}
      <4>1. PICK i : i \in Closings(a)
        BY <3>2
      <4>2. Closings(a) = {i}
        BY <2>6, <4>1
      <4>3. Cardinality({i}) = 1
        BY FS_Singleton
      <4>4. Cardinality(Closings(a)) = 1
        BY <4>2, <4>3
      <4> HIDE DEF Closings
      <4>5. QED
        BY <3>2, <4>4
    <3>3. QED
      BY <3>1, <3>2
  <2>10. ASSUME NEW a \in Agents, NEW j \in Closings(a)
         PROVE  (log[j].kind = "agent_skipped") <=> at[a] = "idle"
    <3>1. CASE log[j] = Finished(a)
      BY <2>5, <2>10, <3>1 DEF Has, Finished, AgentEvent
    <3>2. CASE log[j] = Skipped(a)
      BY <2>5, <2>10, <3>2 DEF Has, Skipped, AgentEvent
    <3>3. QED
      BY <2>3, <3>1, <3>2
  <2> HIDE DEF Closings
  <2>11. ASSUME NEW i \in 1 .. Len(log), log[i].kind = "agent_spawned"
         PROVE  LET a == log[i].who IN
                /\ Cardinality(Closings(a)) <= 1
                /\ pt = "done" /\ (\A b \in Agents : result[b] # "raised")
                     => Cardinality(Closings(a)) = 1
                /\ \A j \in Closings(a) :
                     (log[j].kind = "agent_skipped") <=> at[a] = "idle"
    BY <2>7, <2>8, <2>9, <2>10, <2>11
  <2>12. QED
    BY <2>11 DEF EverySpawnIsClosed, Closings
<1>2. QED
  BY <1>1, TurnInvariant, PTL

---------------------------------------------------------------------------
(* The contract's phase is what the turn's point and its log say it is.    *)
PhaseAt(p, o, err) ==
  IF p = "done" THEN IF o = "ok" THEN "ok" ELSE "not_ok"
  ELSE IF p = "finally" /\ o = "ok" THEN "answered"
  ELSE IF err THEN "failed"
  ELSE IF p # "start" THEN "open"
  ELSE "absent"

PhaseNow == PhaseAt(pt, outcome, Has(log, Event("run_error")))

(* The phase of the contract, by the turn's point, its outcome and its log. *)
LEMMA PhaseIs == TurnTypeOK /\ ContractInv => phase = [r \in {1} |-> PhaseNow]
<1> SUFFICES ASSUME TurnTypeOK, ContractInv
             PROVE  phase = [r \in {1} |-> PhaseNow]
  OBVIOUS
<1>1. ASSUME NEW k \in RunKinds PROVE Logged(k) <=> Has(log, Event(k))
  <2>1. ASSUME NEW i \in 1 .. Len(log)
        PROVE  log[i].kind = k <=> log[i] = Event(k)
    <3>1. log[i] \in Events
      BY ElementOfSeq DEF TurnTypeOK
    <3>2. QED
      BY <3>1 DEF Events, RunKinds, AgentKinds, Event, AgentEvent
  <2>2. QED
    BY <2>1 DEF Logged, Has
<1>2. /\ Logged("run_finished") <=> pt = "done"
      /\ Logged("assistant_message") <=>
           pt \in {"finally", "done"} /\ outcome = "ok"
      /\ Logged("run_error") <=> Has(log, Event("run_error"))
      /\ pt # "start" => Logged("user_message")
  BY <1>1 DEF ContractInv, RunKinds
<1>3. pt = "start" => ~Logged("user_message")
  <2>1. pt = "start" => Len(log) = 0
    BY DEF ContractInv
  <2>2. QED
    BY <2>1 DEF Logged
<1>4. QED
  BY <1>2, <1>3 DEF phase, PhaseNow, PhaseAt

(* A step of the turn is a step of the contract, or none.                  *)
LEMMA ContractSimulates ==
  ASSUME TurnTypeOK, TurnTypeOK', ContractInv, ContractInv', RunStep
  PROVE  [Contract!Next]_phase
<1> DEFINE now  == PhaseAt(pt, outcome, Has(log, Event("run_error")))
           next == PhaseAt(pt', outcome', Has(log', Event("run_error")))
<1>1. phase = [r \in {1} |-> now] /\ phase' = [r \in {1} |-> next]
  <2>1. (TurnTypeOK /\ ContractInv => phase = [r \in {1} |-> PhaseNow])'
    BY PhaseIs, PTL
  <2>2. QED
    BY <2>1, PhaseIs DEF PhaseNow
<1>2. ASSUME NEW from, now \in from, NEW to, next = to
      PROVE  Contract!Move(1, from, to)
  BY <1>1, <1>2 DEF Contract!Move
<1> USE DEF RunKinds, Body, TurnPoints, PhaseAt
<1>3. CASE Unnoticed
  <2>1. now = next
    BY <1>3 DEF Unnoticed
  <2>2. QED
    BY <1>1, <2>1
<1>4. CASE Opens
  <2>1. \A j \in RunKinds : Has(log', Event(j)) <=>
                              Has(log, Event(j)) \/ j = "user_message"
    BY <1>4, RecordMoves DEF Opens
  <2>2. ~Has(log, Event("run_error"))
    <3>1. Len(log) = 0
      BY <1>4 DEF Opens, ContractInv
    <3>2. QED
      BY <3>1 DEF Has
  <2>3. now = "absent" /\ next = "open"
    BY <1>4, <2>1, <2>2 DEF Opens
  <2>4. QED
    BY <1>2, <2>3 DEF Contract!Next, Contract!Open
<1>5. CASE Errs \/ Fails
  <2>1. /\ pt \in Body /\ Record("run_error") /\ pt' \in Body \cup {"finally"}
        /\ outcome' # "ok"
    BY <1>5 DEF Errs, Fails, TurnFails, Results, ContractInv
  <2>2. Has(log', Event("run_error"))
    BY <2>1, RecordMoves
  <2>3. now \in {"open", "failed"} /\ next = "failed"
    BY <2>1, <2>2
  <2>4. CASE now = "open"
    BY <1>2, <2>3, <2>4 DEF Contract!Next, Contract!Fail
  <2>5. CASE now = "failed"
    BY <1>1, <2>3, <2>5
  <2>6. QED
    BY <2>3, <2>4, <2>5
<1>6. CASE Answers
  <2>1. now \in {"open", "failed"} /\ next = "answered"
    BY <1>6 DEF Answers, TurnAnswers
  <2>2. QED
    BY <1>2, <2>1 DEF Contract!Next, Contract!Answer
<1>7. CASE Closes
  <2>1. outcome # "ok" => Has(log, Event("run_error"))
    BY <1>7 DEF Closes, ContractInv
  <2>2. /\ outcome = "ok" => now = "answered" /\ next = "ok"
        /\ outcome # "ok" => now = "failed" /\ next = "not_ok"
    BY <1>7, <2>1 DEF Closes
  <2>3. QED
    BY <1>2, <2>2 DEF Contract!Next, Contract!Close
<1>8. QED
  BY <1>3, <1>4, <1>5, <1>6, <1>7 DEF RunStep

(* Whatever its agents, its parent and its killer do, the log of a turn    *)
(* keeps the contract of RunContract: opened, answered or failed, closed   *)
(* once, with the outcome of what came before.                             *)
THEOREM TurnImplementsContract == TurnSpec => ImplementsContract
<1>1. TurnInit => Contract!Init
  <2> SUFFICES ASSUME TurnInit PROVE Contract!Init
    OBVIOUS
  <2>1. TurnTypeOK /\ ContractInv
    BY TurnBegins DEF TurnInv
  <2>2. pt = "start" /\ Len(log) = 0
    BY DEF TurnInit
  <2>3. ~Has(log, Event("run_error"))
    BY <2>2 DEF Has
  <2>4. QED
    BY <2>1, <2>2, <2>3, PhaseIs DEF Contract!Init, PhaseNow, PhaseAt
<1>2. TurnInv /\ TurnInv' /\ [TurnNext]_vars => [Contract!Next]_phase
  BY RunMoves, ContractSimulates DEF TurnInv, IInv
<1>3. QED
  BY <1>1, <1>2, TurnInvariant, PTL
     DEF TurnSpec, ImplementsContract, Contract!Spec

---------------------------------------------------------------------------
(* Transcript.  A card is what the log makes of it, event by event, so the *)
(* proof needs the order of the log: agents are spawned before anything    *)
(* else is said of them, or of the turn.                                   *)

Early   == {"start", "setup", "decide", "spawn"}
Ending  == {"agent_finished", "agent_skipped", "run_error",
            "assistant_message"}

(* Those under way or joined were spawned, and the whole plan with them.   *)
SpawnInv ==
  /\ \A a \in Joined \cup remaining \cup wave : Has(log, Spawned(a))
  /\ \A a \in Agents : Has(log, Spawned(a)) =>
       \A b \in Agents : Has(log, Spawned(b)) <=> b \in plan

(* What a run_error, and the outcome, say of the agents.                   *)
ErrorInv ==
  /\ Has(log, Event("run_error")) =>
       /\ pt \notin Early
       /\ mode = "agent" => pt \in {"finally", "done"} /\ outcome # "ok"
  /\ pt \in {"finally", "done"} =>
       /\ mode = "agent" => (outcome = "ok" <=> at[1] # "idle" /\ Final(1))
       /\ mode = "parent" /\ (\E a \in Agents : result[a] = "raised") =>
            outcome # "ok"

OrderInv ==
  /\ \A i \in 1 .. Len(log) : log[i].kind = "user_message" => i = 1
  /\ \A i, j \in 1 .. Len(log) :
       log[i].kind = "agent_spawned" /\ log[j].kind \in Ending => i < j

CardInv == SpawnInv /\ ErrorInv /\ OrderInv

(* The log grows by events of one kind.                                    *)
Grows(k) ==
  /\ Len(log') \in Nat /\ Len(log) \in Nat /\ Len(log) <= Len(log')
  /\ \A i \in 1 .. Len(log) : log'[i] = log[i]
  /\ \A i \in 1 .. Len(log') : i \notin 1 .. Len(log) => log'[i].kind = k

(* One event appended.                                                     *)
LEMMA OneGrows ==
  ASSUME TurnTypeOK, NEW x \in Events, log' = Append(log, x)
  PROVE  Grows(x.kind) /\ Len(log') = Len(log) + 1
<1>1. log \in Seq(Events) /\ Len(log) \in Nat
  BY LenProperties DEF TurnTypeOK
<1>2. /\ Len(log') = Len(log) + 1
      /\ \A i \in 1 .. Len(log) : log'[i] = log[i]
      /\ log'[Len(log) + 1] = x
  BY <1>1, AppendProperties
<1>3. \A i \in 1 .. Len(log) + 1 : i \notin 1 .. Len(log) => i = Len(log) + 1
  BY <1>1
<1> QED
  BY <1>1, <1>2, <1>3 DEF Grows

(* An event for each agent of a set.                                       *)
LEMMA EachGrows ==
  ASSUME TurnTypeOK, NEW k \in AgentKinds, NEW S \in SUBSET Agents,
         RecordEach(k, S)
  PROVE  Grows(k)
<1> DEFINE s == InPlanOrder(S)
           n == Cardinality(S)
           m == [i \in 1 .. n |-> AgentEvent(k, s[i])]
<1>1. n \in Nat /\ s \in [1 .. n -> S]
  BY PlanOrder
<1>2. log \in Seq(Events) /\ Len(log) \in Nat /\ log' = log \o m
  BY LenProperties DEF TurnTypeOK, RecordEach
<1> HIDE DEF s, n
<1>3. \A i \in 1 .. n : m[i] \in Events /\ m[i].kind = k
  BY <1>1 DEF Events, AgentEvent
<1>4. m \in Seq(Events) /\ Len(m) = n
  <2>1. m \in [1 .. n -> Events]
    BY <1>3
  <2> QED
    BY <1>1, <2>1, IsASeq
<1> HIDE DEF m
<1>5. /\ Len(log') = Len(log) + n
      /\ \A i \in 1 .. Len(log) + n :
           log'[i] = IF i <= Len(log) THEN log[i] ELSE m[i - Len(log)]
  BY <1>2, <1>4, ConcatProperties
<1>6. \A i \in 1 .. Len(log) : i \in 1 .. Len(log) + n /\ i <= Len(log)
  BY <1>1, <1>2
<1>7. \A i \in 1 .. Len(log) + n : i \notin 1 .. Len(log) =>
        ~(i <= Len(log)) /\ i - Len(log) \in 1 .. n
  BY <1>1, <1>2
<1>8. Len(log') \in Nat /\ Len(log) <= Len(log')
  BY <1>1, <1>2, <1>5
<1>9. \A i \in 1 .. Len(log') : i \notin 1 .. Len(log) => log'[i].kind = k
  BY <1>3, <1>5, <1>7
<1>10. \A i \in 1 .. Len(log) : log'[i] = log[i]
  BY <1>5, <1>6
<1> QED
  BY <1>2, <1>8, <1>9, <1>10 DEF Grows

(* Growing keeps the order, unless a message or a spawn comes late.        *)
LEMMA GrowsInOrder ==
  ASSUME OrderInv, NEW k, Grows(k),
         k = "user_message" => Len(log) = 0 /\ Len(log') = 1,
         k = "agent_spawned" =>
           \A j \in 1 .. Len(log) : log[j].kind \notin Ending
  PROVE  OrderInv'
<1>1. /\ Len(log') \in Nat /\ Len(log) \in Nat /\ Len(log) <= Len(log')
      /\ \A i \in 1 .. Len(log) : log'[i] = log[i]
      /\ \A i \in 1 .. Len(log') : i \notin 1 .. Len(log) => log'[i].kind = k
  BY DEF Grows
<1>2. ASSUME NEW i \in 1 .. Len(log'), log'[i].kind = "user_message" PROVE i = 1
  <2>1. CASE i \in 1 .. Len(log)
    BY <1>1, <1>2, <2>1 DEF OrderInv
  <2>2. CASE i \notin 1 .. Len(log)
    BY <1>1, <1>2, <2>2
  <2> QED
    BY <2>1, <2>2
<1>3. ASSUME NEW i \in 1 .. Len(log'), NEW j \in 1 .. Len(log'),
             log'[i].kind = "agent_spawned", log'[j].kind \in Ending
      PROVE  i < j
  <2>1. CASE i \in 1 .. Len(log) /\ j \in 1 .. Len(log)
    BY <1>1, <1>3, <2>1 DEF OrderInv
  <2>2. CASE i \in 1 .. Len(log) /\ j \notin 1 .. Len(log)
    BY <1>1, <2>2
  <2>3. CASE i \notin 1 .. Len(log)
    <3>1. k = "agent_spawned"
      BY <1>1, <1>3, <2>3
    <3>2. j \notin 1 .. Len(log)
      BY <1>1, <1>3, <3>1
    <3>3. log'[j].kind = "agent_spawned"
      BY <1>1, <3>1, <3>2
    <3> QED
      BY <1>3, <3>3 DEF Ending
  <2> QED
    BY <2>1, <2>2, <2>3
<1> QED
  BY <1>2, <1>3 DEF OrderInv

(* Before the spawns nothing is logged that must come after them.          *)
LEMMA NothingEnds ==
  ASSUME TurnInv, ErrorInv, pt = "spawn"
  PROVE  \A j \in 1 .. Len(log) : log[j].kind \notin Ending
<1>1. SUFFICES ASSUME NEW j \in 1 .. Len(log), log[j].kind \in Ending PROVE FALSE
  OBVIOUS
<1>2. log[j] \in Events
  BY LenProperties DEF TurnInv, TurnTypeOK
<1>3. NoAgentEvents
  BY DEF TurnInv, WhereInv, Untouched
<1>4. CASE \E k \in RunKinds : log[j] = Event(k)
  <2>1. log[j] = Event("run_error") \/ log[j] = Event("assistant_message")
    BY <1>1, <1>4 DEF Event, Ending, RunKinds
  <2>2. Has(log, Event("run_error")) \/ Has(log, Event("assistant_message"))
    BY <2>1 DEF Has
  <2>3. ~Has(log, Event("run_error"))
    BY DEF ErrorInv, Early
  <2>4. ~Has(log, Event("assistant_message"))
    BY DEF TurnInv, ContractInv
  <2> QED
    BY <2>2, <2>3, <2>4
<1>5. CASE \E k \in AgentKinds, a \in Agents : log[j] = AgentEvent(k, a)
  <2>1. PICK k \in AgentKinds, a \in Agents : log[j] = AgentEvent(k, a)
    BY <1>5
  <2>2. log[j] = Finished(a) \/ log[j] = Skipped(a)
    BY <1>1, <2>1 DEF AgentEvent, Ending, Finished, Skipped, AgentKinds
  <2> QED
    BY <1>3, <2>2 DEF NoAgentEvents, Has
<1> QED
  BY <1>2, <1>4, <1>5 DEF Events

(* Every step keeps the order of the log.                                  *)
LEMMA OrderStep ==
  ASSUME TurnInv, ErrorInv, OrderInv, [TurnNext]_vars
  PROVE  OrderInv'
<1>1. TurnTypeOK /\ plan \in SUBSET Agents /\ remaining \in SUBSET Agents
  BY DEF TurnInv, TurnTypeOK
<1>2. CASE log' = log
  BY <1>2 DEF OrderInv
<1>3. ASSUME NEW k \in RunKinds, Record(k), k # "user_message" PROVE OrderInv'
  <2>1. Event(k) \in Events /\ Event(k).kind = k
    BY DEF Events, Event
  <2>2. Grows(k)
    BY <1>1, <1>3, <2>1, OneGrows DEF Record
  <2> QED
    BY <1>3, <2>2, GrowsInOrder DEF RunKinds
<1>4. CASE TurnStarts
  <2>1. Event("user_message") \in Events /\ Event("user_message").kind = "user_message"
    BY DEF Events, Event, RunKinds
  <2>2. log = <<>> /\ log' = Append(log, Event("user_message"))
    BY <1>4 DEF TurnStarts, Record, TurnInv, ContractInv
  <2>3. Grows("user_message") /\ Len(log') = Len(log) + 1 /\ Len(log) = 0
    BY <1>1, <2>1, <2>2, OneGrows
  <2> QED
    BY <2>3, GrowsInOrder
<1>5. CASE Spawn
  <2>1. pt = "spawn" /\ RecordEach("agent_spawned", plan)
    BY <1>5 DEF Spawn
  <2>2. Grows("agent_spawned")
    BY <1>1, <2>1, EachGrows DEF AgentKinds
  <2> QED
    BY <2>1, <2>2, NothingEnds, GrowsInOrder
<1>6. CASE Skip
  <2>1. RecordEach("agent_skipped", remaining)
    BY <1>6 DEF Skip
  <2>2. Grows("agent_skipped")
    BY <1>1, <2>1, EachGrows DEF AgentKinds
  <2> QED
    BY <2>2, GrowsInOrder
<1>7. CASE \/ TurnFinishes \/ SetupFails \/ SoloStarts \/ SoloReturns
           \/ ParentStarts \/ DecideFails \/ DecideUnusable \/ DecideReplies
           \/ DecidePlans \/ SpecFails \/ LoopEnds \/ LoopStuck \/ SubmitWave
  <2>1. log' = log \/ \E k \in {"run_finished", "run_error", "assistant_message"} : Record(k)
    BY <1>7 DEF TurnFinishes, SetupFails, SoloStarts, SoloReturns, ParentStarts, DecideFails,
       DecideUnusable, DecideReplies, DecidePlans, SpecFails, LoopEnds, LoopStuck, SubmitWave,
       TurnFails, TurnAnswers
  <2> QED
    BY <1>2, <1>3, <2>1 DEF RunKinds
<1>8. CASE \/ Join \/ MergeNothing \/ MergeOne \/ MergeMany
           \/ SynthesizeFails \/ Synthesize
  <2>1. log' = log \/ \E k \in {"run_finished", "run_error", "assistant_message"} : Record(k)
    BY <1>8 DEF Join, MergeNothing, MergeOne, MergeMany, SynthesizeFails, Synthesize,
       TurnFails, TurnAnswers
  <2> QED
    BY <1>2, <1>3, <2>1 DEF RunKinds
<1>9. ASSUME NEW a \in Agents, Agent(a) PROVE OrderInv'
  <2>1. CASE PoolStarts(a) \/ AgentWorks(a)
    BY <1>2, <2>1 DEF PoolStarts, AgentWorks, turnVars
  <2>2. CASE AgentReports(a)
    <3>1. CASE mode = "parent"
      <4>1. /\ AgentEvent("agent_finished", a) \in Events
            /\ AgentEvent("agent_finished", a).kind = "agent_finished"
        BY DEF Events, AgentEvent, AgentKinds
      <4>2. log' = Append(log, AgentEvent("agent_finished", a))
        BY <2>2, <3>1 DEF AgentReports
      <4>3. Grows("agent_finished")
        BY <1>1, <4>1, <4>2, OneGrows
      <4> QED
        BY <4>3, GrowsInOrder
    <3>2. CASE mode # "parent"
      BY <1>2, <2>2, <3>2 DEF AgentReports
    <3> QED
      BY <3>1, <3>2
  <2> QED
    BY <1>9, <2>1, <2>2 DEF Agent
<1>10. CASE TurnKilled \/ UNCHANGED vars
  BY <1>2, <1>10 DEF TurnKilled, vars, turnVars
<1> QED
  BY <1>4, <1>5, <1>6, <1>7, <1>8, <1>9, <1>10 DEF TurnNext, Turn

(* The steps as the outcome sees them.                                     *)
Onwards ==
  /\ Has(log', Event("run_error")) <=> Has(log, Event("run_error"))
  /\ outcome' = outcome /\ (pt' \in Early => pt \in Early)
  /\ pt \in {"finally", "done"} <=> pt' \in {"finally", "done"}
  /\ pt \in {"finally", "done"} => at' = at /\ result' = result
Gives(ok) ==
  /\ pt \in Body /\ pt' = "finally" /\ (outcome' = "ok" <=> ok)
  /\ ok => (Has(log', Event("run_error")) <=> Has(log, Event("run_error")))
  /\ at' = at /\ result' = result
  /\ mode = "agent" => (ok <=> at[1] # "idle" /\ Final(1))
  /\ ok => pt # "join"

(* Every step is one of them, or finds the dependencies cyclic.            *)
LEMMA ErrorMoves ==
  ASSUME TurnInv, [TurnNext]_vars
  PROVE  mode' = mode /\ (Onwards \/ (\E ok \in BOOLEAN : Gives(ok)) \/ LoopStuck)
<1>1. TypeOK /\ TurnTypeOK /\ WhereInv /\ ReturnInv /\ 1 \in Agents
  BY TurnAssumption DEF TurnInv, IInv
<1>2. ASSUME log' = log PROVE Has(log', Event("run_error")) <=> Has(log, Event("run_error"))
  BY <1>2 DEF Has
<1>3. ASSUME NEW k \in RunKinds \ {"run_error"}, Record(k)
      PROVE  Has(log', Event("run_error")) <=> Has(log, Event("run_error"))
  BY <1>1, <1>3, RecordMoves DEF RunKinds
<1>4. ASSUME NEW k \in AgentKinds, NEW S \in SUBSET Agents, RecordEach(k, S)
      PROVE  Has(log', Event("run_error")) <=> Has(log, Event("run_error"))
  <2>1. Adds({AgentEvent(k, a) : a \in S})
    BY <1>1, <1>4, AddsEach
  <2>2. \A e \in {AgentEvent(k, a) : a \in S} :
           \E l \in AgentKinds, a \in Agents : e = AgentEvent(l, a)
    OBVIOUS
  <2> QED
    BY <2>1, <2>2, AgentEventsUnnoticed DEF RunKinds
<1>5. CASE TurnStarts
  <2>1. /\ pt = "start" /\ pt' = "setup" /\ Record("user_message") /\ mode' = mode
        /\ outcome' = outcome
    BY <1>5 DEF TurnStarts, planVars
  <2> QED
    BY <1>3, <2>1 DEF Onwards, Early, RunKinds
<1>6. CASE TurnFinishes
  <2>1. /\ pt = "finally" /\ pt' = "done" /\ Record("run_finished") /\ mode' = mode
        /\ outcome' = outcome /\ at' = at /\ result' = result
    BY <1>6 DEF TurnFinishes, planVars, agentVars, loopVars
  <2> QED
    BY <1>3, <2>1 DEF Onwards, Early, RunKinds
<1>7. CASE SetupFails \/ DecideFails \/ DecideUnusable \/ SpecFails \/ SynthesizeFails
  <2>1. /\ pt \in {"setup", "decide", "spawn", "synth"} /\ pt' = "finally"
        /\ outcome' = "error" /\ mode' = mode /\ at' = at /\ result' = result
    BY <1>7 DEF SetupFails, DecideFails, DecideUnusable, SpecFails, SynthesizeFails,
       TurnFails, ParentBooks, planVars, agentVars, loopVars
  <2>2. mode = "agent" => at[1] = "idle"
    BY <1>1, <2>1 DEF WhereInv, Untouched
  <2>3. Gives(FALSE)
    BY <2>1, <2>2 DEF Gives, Body, TurnPoints
  <2> QED
    BY <2>1, <2>3
<1>8. CASE DecideReplies \/ MergeOne \/ Synthesize
  <2>1. /\ pt \in {"decide", "merge", "synth"} /\ pt' = "finally" /\ outcome' = "ok"
        /\ Record("assistant_message") /\ mode' = mode /\ at' = at /\ result' = result
    BY <1>8 DEF DecideReplies, MergeOne, Synthesize, TurnAnswers, ParentBooks, planVars,
       agentVars, loopVars
  <2>2. mode # "agent"
    BY <1>1, <2>1 DEF WhereInv
  <2>3. Gives(TRUE)
    BY <1>3, <2>1, <2>2 DEF Gives, Body, TurnPoints, RunKinds
  <2> QED
    BY <2>1, <2>3
<1>9. CASE SoloReturns
  <2>1. /\ pt = "solo" /\ at[1] = "done" /\ mode' = mode /\ at' = at /\ result' = result
    BY <1>9 DEF SoloReturns, planVars, agentVars, loopVars
  <2>2. CASE Final(1) /\ TurnAnswers
    <3>1. Gives(TRUE)
      BY <1>3, <2>1, <2>2 DEF Gives, Body, TurnPoints, RunKinds, TurnAnswers
    <3> QED
      BY <2>1, <3>1
  <2>3. CASE ~Final(1) /\ \E w \in Results : TurnFails(w)
    <3>1. pt' = "finally" /\ outcome' # "ok"
      BY <2>3 DEF TurnFails, Results
    <3>2. Gives(FALSE)
      BY <2>1, <2>3, <3>1 DEF Gives, Body, TurnPoints
    <3> QED
      BY <2>1, <3>2
  <2>4. result[1] \in Results /\ "error" \in Results
    BY <1>1 DEF TypeOK, Results
  <2> QED
    BY <1>9, <2>2, <2>3, <2>4 DEF SoloReturns, Final
<1>10. CASE MergeNothing
  <2>1. results # <<>> => result[results[1]] \in Results
    <3>1. results # <<>> => results[1] \in Agents
      BY <1>1, EmptySeq, ElementOfSeq DEF TurnTypeOK
    <3> QED
      BY <1>1, <3>1 DEF TypeOK
  <2>2. /\ pt = "merge" /\ pt' = "finally" /\ mode' = mode /\ at' = at /\ result' = result
        /\ outcome' = IF results = <<>> THEN "error" ELSE result[results[1]]
    BY <1>10 DEF MergeNothing, TurnFails, planVars, agentVars, loopVars
  <2>3. outcome' # "ok"
    BY <2>1, <2>2 DEF Results
  <2>4. mode # "agent"
    BY <1>1, <2>2 DEF WhereInv
  <2>5. Gives(FALSE)
    BY <2>2, <2>3, <2>4 DEF Gives, Body, TurnPoints
  <2> QED
    BY <2>2, <2>5
<1>11. CASE Join
  <2>1. /\ pt = "join" /\ mode' = mode /\ at' = at /\ result' = result
    BY <1>11 DEF Join, planVars, agentVars, loopVars
  <2>2. mode # "agent"
    BY <1>1, <2>1 DEF WhereInv
  <2>3. CASE TurnFails("error")
    <3>1. Gives(FALSE)
      BY <2>1, <2>2, <2>3 DEF Gives, Body, TurnPoints, TurnFails
    <3> QED
      BY <2>1, <3>1
  <2>4. CASE pt' = "loop" /\ UNCHANGED <<outcome, log>>
    BY <1>2, <2>1, <2>4 DEF Onwards, Early
  <2> QED
    BY <1>11, <2>3, <2>4 DEF Join
<1>12. CASE SoloStarts \/ ParentStarts \/ DecidePlans \/ LoopEnds \/ SubmitWave \/ MergeMany
  <2>1. /\ pt \in Body /\ pt' \in Body /\ log' = log /\ mode' = mode /\ outcome' = outcome
        /\ pt' \in Early => pt \in Early
    BY <1>12 DEF SoloStarts, ParentStarts, DecidePlans, LoopEnds, SubmitWave, MergeMany,
       Body, TurnPoints, Early, planVars
  <2> QED
    BY <1>2, <2>1 DEF Onwards, Body
<1>13. CASE Spawn
  <2>1. /\ pt = "spawn" /\ pt' = "loop" /\ RecordEach("agent_spawned", plan)
        /\ mode' = mode /\ outcome' = outcome
    BY <1>13 DEF Spawn, planVars
  <2>2. Has(log', Event("run_error")) <=> Has(log, Event("run_error"))
    BY <1>1, <1>4, <2>1 DEF AgentKinds, TurnTypeOK
  <2> QED
    BY <2>1, <2>2 DEF Onwards, Early
<1>14. CASE Skip
  <2>1. /\ pt = "skip" /\ pt' = "merge" /\ RecordEach("agent_skipped", remaining)
        /\ mode' = mode /\ outcome' = outcome
    BY <1>14 DEF Skip, planVars
  <2>2. Has(log', Event("run_error")) <=> Has(log, Event("run_error"))
    BY <1>1, <1>4, <2>1 DEF AgentKinds, TurnTypeOK
  <2> QED
    BY <2>1, <2>2 DEF Onwards, Early
<1>15. CASE LoopStuck
  BY <1>15 DEF LoopStuck, planVars
<1>16. CASE TurnKilled \/ UNCHANGED vars
  <2>1. /\ pt' = pt /\ log' = log /\ mode' = mode /\ outcome' = outcome
        /\ at' = at /\ result' = result
    BY <1>16 DEF TurnKilled, Kill, vars, turnVars, planVars, agentVars, loopVars
  <2> QED
    BY <1>2, <2>1 DEF Onwards
<1>17. ASSUME NEW a \in Agents, Agent(a) PROVE mode' = mode /\ Onwards
  <2>1. /\ pt' = pt /\ mode' = mode /\ outcome' = outcome
    BY <1>17 DEF Agent, PoolStarts, AgentWorks, AgentReports, turnVars, planVars
  <2>2. Has(log', Event("run_error")) <=> Has(log, Event("run_error"))
    <3>1. CASE PoolStarts(a) \/ AgentWorks(a)
      BY <1>2, <3>1 DEF PoolStarts, AgentWorks, turnVars
    <3>2. CASE AgentReports(a)
      <4>1. Adds(IF mode = "parent" THEN {Finished(a)} ELSE {})
        BY <1>1, <3>2, AddsReport
      <4> QED
        BY <4>1, AgentEventsUnnoticed DEF AgentKinds, Finished, RunKinds
    <3> QED
      BY <1>17, <3>1, <3>2 DEF Agent
  <2>3. pt \notin {"finally", "done"}
    <3>1. pt \notin {"solo", "join"} => at[a] \in {"idle", "done"}
      BY <1>1 DEF WhereInv
    <3>2. CASE PoolStarts(a)
      BY <3>2 DEF PoolStarts
    <3>3. CASE AgentWorks(a) \/ AgentReports(a)
      BY <1>1, <3>1, <3>3, AgentMoves DEF AgentWorks, AgentReports
    <3> QED
      BY <1>17, <3>2, <3>3 DEF Agent
  <2> QED
    BY <2>1, <2>2, <2>3 DEF Onwards
<1> QED
  BY <1>5, <1>6, <1>7, <1>8, <1>9, <1>10, <1>11, <1>12, <1>13, <1>14, <1>15, <1>16,
     <1>17 DEF TurnNext, Turn

(* The outcome goes on saying what it says of the agents.                  *)
LEMMA ErrorStep ==
  ASSUME TurnInv, ErrorInv, [TurnNext]_vars
  PROVE  ErrorInv'
<1>1. mode' = mode /\ mode \in {"agent", "parent"} /\ TurnTypeOK
  BY ErrorMoves DEF TurnInv, TurnTypeOK
<1>2. CASE Onwards
  <2>1. /\ Has(log', Event("run_error")) <=> Has(log, Event("run_error"))
        /\ outcome' = outcome /\ (pt' \in Early => pt \in Early)
        /\ pt \in {"finally", "done"} <=> pt' \in {"finally", "done"}
        /\ pt \in {"finally", "done"} => at' = at /\ result' = result
    BY <1>2 DEF Onwards
  <2> QED
    BY <1>1, <2>1 DEF ErrorInv, Final
<1>3. CASE \E ok \in BOOLEAN : Gives(ok)
  <2>1. PICK ok \in BOOLEAN : Gives(ok)
    BY <1>3
  <2>2. /\ pt \in Body /\ pt' = "finally" /\ (outcome' = "ok" <=> ok)
        /\ ok => (Has(log', Event("run_error")) <=> Has(log, Event("run_error")))
        /\ at' = at /\ result' = result
        /\ mode = "agent" => (ok <=> at[1] # "idle" /\ Final(1))
        /\ ok => pt # "join"
    BY <2>1 DEF Gives
  <2>3. /\ pt' \notin Early /\ pt' \in {"finally", "done"}
        /\ pt \notin {"finally", "done"}
    BY <2>2 DEF Early, Body
  <2>4. mode = "agent" => (outcome' = "ok" <=> at'[1] # "idle" /\ Final(1)')
    BY <2>2 DEF Final
  <2>5. ASSUME mode = "parent", NEW a \in Agents, result'[a] = "raised"
        PROVE  outcome' # "ok"
    <3>1. result[a] = "raised" /\ at[a] = "done"
      BY <2>2, <2>5 DEF TurnInv, ReturnInv
    <3>2. a \notin Joined
      BY <3>1 DEF TurnInv, WhereInv
    <3>3. pt = "join"
      BY <2>3, <2>5, <3>1, <3>2 DEF TurnInv, WhereInv
    <3> QED
      BY <2>2, <3>3
  <2>6. Has(log', Event("run_error")) /\ mode = "agent" => outcome' # "ok"
    BY <2>2, <2>3 DEF ErrorInv
  <2> QED
    BY <1>1, <2>3, <2>4, <2>5, <2>6 DEF ErrorInv
<1>4. CASE LoopStuck
  <2>1. pt = "loop" /\ pt' = "skip"
    BY <1>4 DEF LoopStuck
  <2>2. mode # "agent"
    BY <2>1 DEF TurnInv, WhereInv
  <2> QED
    BY <1>1, <2>1, <2>2 DEF ErrorInv, Early
<1> QED
  BY <1>2, <1>3, <1>4, ErrorMoves

(* Nobody is added, and nobody spawned.                                    *)
LEMMA SpawnKeeps ==
  ASSUME SpawnInv,
         Joined' \cup remaining' \cup wave' \subseteq Joined \cup remaining \cup wave,
         \A a \in Agents : Has(log', Spawned(a)) <=> Has(log, Spawned(a)),
         Joined \cup remaining \cup wave \subseteq Agents,
         plan' = plan \/ NoAgentEvents
  PROVE  SpawnInv'
<1>1. \A a \in Joined' \cup remaining' \cup wave' : Has(log', Spawned(a))
  BY DEF SpawnInv
<1>2. \A a \in Agents : Has(log', Spawned(a)) =>
        \A b \in Agents : Has(log', Spawned(b)) <=> b \in plan'
  BY DEF SpawnInv, NoAgentEvents
<1> QED
  BY <1>1, <1>2 DEF SpawnInv, Spawned, AgentEvent

(* Every step keeps who was spawned.                                       *)
LEMMA SpawnStep ==
  ASSUME TurnInv, SpawnInv, [TurnNext]_vars
  PROVE  SpawnInv'
<1>1. /\ TurnTypeOK /\ WhereInv /\ plan \in SUBSET Agents
      /\ remaining \in SUBSET Agents /\ wave \in SUBSET Agents
  BY DEF TurnInv, TurnTypeOK
<1>2. Joined \subseteq Agents
  BY <1>1, ElementOfSeq DEF Joined, TurnTypeOK
<1>3. ASSUME log' = log \/ (\E k \in RunKinds : Record(k)),
             results' = results, remaining' = remaining,
             wave' \subseteq remaining \cup wave,
             plan' = plan \/ NoAgentEvents
      PROVE  SpawnInv'
  <2>1. \A a \in Agents : Has(log', Spawned(a)) <=> Has(log, Spawned(a))
    BY <1>1, <1>3, QuietLog DEF SameAgentEvents
  <2>2. Joined' = Joined
    BY <1>3 DEF Joined
  <2> QED
    BY <1>1, <1>2, <1>3, <2>1, <2>2, SpawnKeeps
<1>4. ASSUME NEW E, Adds(E), \A a \in Agents : Spawned(a) \notin E,
             results' = results, remaining' = remaining, wave' = wave, plan' = plan
      PROVE  SpawnInv'
  <2>1. \A a \in Agents : Has(log', Spawned(a)) <=> Has(log, Spawned(a))
    BY <1>4 DEF Adds
  <2>2. Joined' = Joined
    BY <1>4 DEF Joined
  <2> QED
    BY <1>1, <1>2, <1>4, <2>1, <2>2, SpawnKeeps
<1>5. CASE \/ TurnStarts \/ TurnFinishes \/ SetupFails \/ SoloReturns \/ ParentStarts
           \/ DecideFails \/ DecideUnusable \/ DecideReplies
  <2>1. /\ log' = log \/ (\E k \in RunKinds : Record(k))
        /\ results' = results /\ remaining' = remaining /\ wave' = wave /\ plan' = plan
    BY <1>5 DEF TurnStarts, TurnFinishes, SetupFails, SoloReturns, ParentStarts, DecideFails,
       DecideUnusable, DecideReplies, TurnFails, TurnAnswers, RunKinds, planVars
  <2> QED
    BY <1>3, <2>1
<1>6. CASE SpecFails \/ LoopEnds \/ LoopStuck \/ MergeNothing \/ MergeOne \/ MergeMany
           \/ SynthesizeFails \/ Synthesize
  <2>1. /\ log' = log \/ (\E k \in RunKinds : Record(k))
        /\ results' = results /\ remaining' = remaining /\ wave' = wave /\ plan' = plan
    BY <1>6 DEF SpecFails, LoopEnds, LoopStuck, MergeNothing, MergeOne, MergeMany,
       SynthesizeFails, Synthesize, TurnFails, TurnAnswers, RunKinds, planVars
  <2> QED
    BY <1>3, <2>1
<1>7. CASE SoloStarts \/ DecidePlans
  <2>1. /\ log' = log /\ results' = results /\ remaining' = remaining /\ wave' = wave
        /\ pt \in {"setup", "decide"}
    BY <1>7 DEF SoloStarts, DecidePlans
  <2>2. NoAgentEvents
    BY <1>1, <2>1 DEF WhereInv, Untouched
  <2> QED
    BY <1>3, <2>1, <2>2
<1>8. CASE SubmitWave
  <2>1. /\ log' = log /\ results' = results /\ remaining' = remaining /\ plan' = plan
        /\ wave' \subseteq remaining
    BY <1>8 DEF SubmitWave, planVars
  <2> QED
    BY <1>3, <2>1
<1>9. CASE Join
  <2>1. pt = "join" /\ wave' = wave /\ plan' = plan
    BY <1>9 DEF Join, planVars
  <2>2. CASE TurnFails("error") /\ UNCHANGED <<remaining, results>>
    <3>1. Record("run_error") /\ "run_error" \in RunKinds
      BY <2>2 DEF TurnFails, RunKinds
    <3> QED
      BY <1>3, <2>1, <2>2, <3>1
  <2>3. CASE /\ results' = results \o InPlanOrder(wave) /\ remaining' = remaining \ wave
             /\ log' = log
    <3>1. Joined' = Joined \cup wave
      BY <1>1, <2>3, JoinedGrows
    <3>2. \A a \in Agents : Has(log', Spawned(a)) <=> Has(log, Spawned(a))
      BY <2>3
    <3>3. Joined' \cup remaining' \cup wave' \subseteq Joined \cup remaining \cup wave
      BY <2>1, <2>3, <3>1
    <3> QED
      BY <1>1, <1>2, <2>1, <3>2, <3>3, SpawnKeeps
  <2> QED
    BY <1>9, <2>2, <2>3 DEF Join
<1>10. CASE Skip
  <2>1. /\ RecordEach("agent_skipped", remaining)
        /\ results' = results /\ remaining' = remaining /\ wave' = wave /\ plan' = plan
    BY <1>10 DEF Skip, planVars
  <2>2. Adds({AgentEvent("agent_skipped", a) : a \in remaining})
    BY <1>1, <2>1, AddsEach DEF AgentKinds
  <2>3. \A a \in Agents : Spawned(a) \notin {AgentEvent("agent_skipped", b) : b \in remaining}
    BY EventsDiffer DEF Spawned
  <2> QED
    BY <1>4, <2>1, <2>2, <2>3
<1>11. CASE Spawn
  <2>1. /\ pt = "spawn" /\ RecordEach("agent_spawned", plan)
        /\ results' = results /\ remaining' = plan /\ wave' = wave /\ plan' = plan
    BY <1>11 DEF Spawn, planVars
  <2>2. Adds({AgentEvent("agent_spawned", a) : a \in plan})
    BY <1>1, <2>1, AddsEach DEF AgentKinds
  <2>3. NoAgentEvents
    BY <1>1, <2>1 DEF WhereInv, Untouched
  <2>4. \A a \in Agents : Has(log', Spawned(a)) <=> a \in plan
    <3>1. \A a \in Agents : Spawned(a) \in {AgentEvent("agent_spawned", b) : b \in plan}
                              <=> a \in plan
      BY <1>1, EventsDiffer DEF Spawned
    <3> QED
      BY <2>2, <2>3, <3>1 DEF Adds, NoAgentEvents
  <2>5. Joined \cup remaining \cup wave = {}
    BY <1>1, <1>2, <2>3 DEF SpawnInv, NoAgentEvents
  <2>6. Joined' = Joined
    BY <2>1 DEF Joined
  <2>7. Joined' \cup remaining' \cup wave' = plan
    BY <2>1, <2>5, <2>6
  <2>8. \A a \in Joined' \cup remaining' \cup wave' : Has(log', Spawned(a))
    BY <1>1, <2>4, <2>7
  <2> QED
    BY <2>1, <2>4, <2>8 DEF SpawnInv, Spawned, AgentEvent
<1>12. ASSUME NEW a \in Agents, Agent(a) PROVE SpawnInv'
  <2>1. CASE PoolStarts(a) \/ AgentWorks(a)
    BY <1>3, <2>1 DEF PoolStarts, AgentWorks, turnVars, planVars
  <2>2. CASE AgentReports(a)
    <3>1. Adds(IF mode = "parent" THEN {Finished(a)} ELSE {})
      BY <1>1, <2>2, AddsReport
    <3>2. \A b \in Agents : Spawned(b) \notin IF mode = "parent" THEN {Finished(a)} ELSE {}
      BY EventsDiffer DEF Spawned, Finished
    <3>3. /\ results' = results /\ remaining' = remaining /\ wave' = wave /\ plan' = plan
      BY <2>2 DEF AgentReports, planVars
    <3> QED
      BY <1>4, <3>1, <3>2, <3>3
  <2> QED
    BY <1>12, <2>1, <2>2 DEF Agent
<1>13. CASE TurnKilled \/ UNCHANGED vars
  BY <1>3, <1>13 DEF TurnKilled, vars, turnVars, planVars
<1> QED
  BY <1>5, <1>6, <1>7, <1>8, <1>9, <1>10, <1>11, <1>12, <1>13 DEF TurnNext, Turn

(* Before the turn.                                                        *)
LEMMA CardsBegin == TurnInit => CardInv
<1> SUFFICES ASSUME TurnInit PROVE CardInv
  OBVIOUS
<1>1. /\ log = <<>> /\ Len(log) = 0 /\ pt = "start" /\ results = <<>>
      /\ remaining = {} /\ wave = {}
  BY DEF TurnInit
<1>2. \A e : ~Has(log, e)
  BY <1>1 DEF Has
<1>3. Joined = {}
  BY <1>1 DEF Joined
<1> QED
  BY <1>1, <1>2, <1>3 DEF CardInv, SpawnInv, ErrorInv, OrderInv

(* Every behaviour of a turn keeps the order of its log.                   *)
LEMMA CardInvariant == TurnSpec => [](TurnInv /\ CardInv)
<1>1. TurnInv /\ CardInv /\ [TurnNext]_vars => CardInv'
  BY OrderStep, ErrorStep, SpawnStep DEF CardInv
<1> QED
  BY <1>1, CardsBegin, TurnBegins, TurnStep, PTL DEF TurnSpec

(* The cards are what folding the log makes of them, event by event.       *)
LEMMA CardsFolded ==
  ASSUME Len(log) \in Nat
  PROVE  /\ CardsAfter[0] = NoCards
         /\ \A n \in 1 .. Len(log) : CardsAfter[n] = FoldLogged(CardsAfter[n - 1], log[n])
<1> DEFINE L == Len(log)
           Next(f, n) == IF n = 0 THEN NoCards ELSE FoldLogged(f[n - 1], log[n])
           Is(f, n) == f = [k \in 0 .. n |-> Next(f, k)]
           T == {n \in Nat : \E f : Is(f, n)}
<1>1. 0 \in T
  <2> DEFINE f == [k \in 0 .. 0 |-> NoCards]
  <2>1. [k \in 0 .. 0 |-> Next(f, k)] = f
    <3>1. \A k \in 0 .. 0 : Next(f, k) = NoCards
      OBVIOUS
    <3> HIDE DEF Next
    <3> QED
      BY <3>1
  <2> QED
    BY <2>1
<1>2. ASSUME NEW n \in Nat, n \in T PROVE n + 1 \in T
  <2>1. PICK f : Is(f, n)
    BY <1>2
  <2> DEFINE g == [k \in 0 .. n + 1 |-> IF k = n + 1 THEN FoldLogged(f[n], log[n + 1]) ELSE f[k]]
  <2>2. \A k \in 0 .. n : f[k] = Next(f, k)
    <3> HIDE DEF Next
    <3> QED
      BY <2>1
  <2>3. \A k \in 0 .. n : k \in 0 .. n + 1 /\ k # n + 1 /\ g[k] = f[k]
    OBVIOUS
  <2>4. ASSUME NEW k \in 0 .. n + 1 PROVE g[k] = Next(g, k)
    <3>1. CASE k = 0
      BY <2>2, <2>3, <3>1
    <3>2. CASE k # 0 /\ k # n + 1
      <4>1. k \in 0 .. n /\ k - 1 \in 0 .. n
        BY <3>2
      <4>2. g[k] = f[k] /\ g[k - 1] = f[k - 1]
        BY <2>3, <4>1
      <4>3. f[k] = FoldLogged(f[k - 1], log[k])
        BY <2>2, <3>2, <4>1
      <4> HIDE DEF g
      <4> QED
        BY <3>2, <4>2, <4>3
    <3>3. CASE k = n + 1
      <4>1. g[k] = FoldLogged(f[n], log[k])
        BY <3>3
      <4>2. k - 1 = n /\ g[k - 1] = f[n] /\ k # 0
        BY <2>3, <3>3
      <4> HIDE DEF g
      <4> QED
        BY <4>1, <4>2
    <3> QED
      BY <3>1, <3>2, <3>3
  <2>5. g = [k \in 0 .. n + 1 |-> g[k]]
    OBVIOUS
  <2>6. [k \in 0 .. n + 1 |-> g[k]] = [k \in 0 .. n + 1 |-> Next(g, k)]
    <3> HIDE DEF g, Next
    <3> QED
      BY <2>4
  <2>7. Is(g, n + 1)
    <3> HIDE DEF g, Next
    <3> QED
      BY <2>5, <2>6
  <2> HIDE DEF g, Is
  <2> QED
    BY <2>7
<1>3. L \in T
  <2> HIDE DEF T
  <2> QED
    BY <1>1, <1>2, SetInduction
<1>4. Is(CardsAfter, L)
  <2>1. \E f : Is(f, L)
    BY <1>3
  <2>2. CardsAfter = CHOOSE f : Is(f, L)
    BY DEF CardsAfter
  <2> HIDE DEF Is
  <2> QED
    BY <2>1, <2>2
<1>5. \A k \in 0 .. L : CardsAfter[k] = Next(CardsAfter, k)
  <2> HIDE DEF Next
  <2> QED
    BY <1>4
<1>6. 0 \in 0 .. L /\ \A n \in 1 .. L : n \in 0 .. L /\ n # 0
  OBVIOUS
<1> QED
  BY <1>5, <1>6

(* What each event makes of the cards.                                     *)
LEMMA FoldsOf ==
  ASSUME NEW c, NEW e
  PROVE  /\ e.kind = "user_message"  => Fold(c, e) = NoCards
         /\ e.kind = "agent_spawned" => Fold(c, e) = [c EXCEPT ![e.who] = "running"]
         /\ e.kind = "run_started"   =>
              Fold(c, e) = IF c = NoCards THEN [c EXCEPT ![e.who] = "running"] ELSE c
         /\ e.kind = "killed"        => Fold(c, e) = [c EXCEPT ![e.who] = "killed"]
         /\ e.kind \in {"agent_finished", "agent_skipped"} =>
              Fold(c, e) = [c EXCEPT ![e.who] = FinishedCard(c, e.who)]
         /\ e.kind = "assistant_message" => Fold(c, e) = CloseCards(c, "done")
         /\ e.kind = "run_error"     => Fold(c, e) = CloseCards(c, "failed")
         /\ e.kind = "run_finished"  => Fold(c, e) = c
<1>1. e.kind = "user_message"  => Fold(c, e) = NoCards
  BY DEF Fold
<1>2. e.kind = "agent_spawned" => Fold(c, e) = [c EXCEPT ![e.who] = "running"]
  BY DEF Fold
<1>3. e.kind = "run_started"   =>
        Fold(c, e) = IF c = NoCards THEN [c EXCEPT ![e.who] = "running"] ELSE c
  BY DEF Fold
<1>4. e.kind = "killed"        => Fold(c, e) = [c EXCEPT ![e.who] = "killed"]
  BY DEF Fold
<1>5. e.kind \in {"agent_finished", "agent_skipped"} =>
        Fold(c, e) = [c EXCEPT ![e.who] = FinishedCard(c, e.who)]
  BY DEF Fold
<1>6. e.kind = "assistant_message" => Fold(c, e) = CloseCards(c, "done")
  BY DEF Fold
<1>7. e.kind = "run_error"     => Fold(c, e) = CloseCards(c, "failed")
  BY DEF Fold
<1>8. e.kind = "run_finished"  => Fold(c, e) = c
  BY DEF Fold
<1> QED
  BY <1>1, <1>2, <1>3, <1>4, <1>5, <1>6, <1>7, <1>8

CardKinds == {"none", "running", "done", "killed", "failed"}

(* An event of the first n.                                                *)
HasIn(n, e) == \E i \in 1 .. n : log[i] = e

(* The card of an agent that has ended.                                    *)
EndCard(a) == IF Final(a) THEN "done"
              ELSE IF result[a] = "killed" THEN "killed" ELSE "failed"

(* The card of a spawned agent after n events.                             *)
ParentCard(c, n, a) ==
  /\ c[a] = "killed" => result[a] = "killed"
  /\ ~HasIn(n, Spawned(a)) => c[a] = "none"
  /\ HasIn(n, Spawned(a)) =>
       IF HasIn(n, Finished(a)) \/ HasIn(n, Skipped(a)) THEN c[a] = EndCard(a)
       ELSE ~HasIn(n, Event("assistant_message")) =>
              c[a] = IF HasIn(n, Event("run_error")) THEN "failed" ELSE "running"

(* One more event.                                                         *)
LEMMA OneMore ==
  ASSUME NEW n \in Nat, NEW e PROVE HasIn(n + 1, e) <=> HasIn(n, e) \/ log[n + 1] = e
<1>1. 1 .. n + 1 = (1 .. n) \cup {n + 1}
  OBVIOUS
<1> QED
  BY <1>1 DEF HasIn

(* Each event leaves every spawned agent with the card that it should.     *)
LEMMA FoldsParent ==
  ASSUME TurnInv, CardInv, mode = "parent",
         NEW n \in Nat, n + 1 <= Len(log),
         NEW c \in [Agents -> CardKinds], \A a \in Agents : ParentCard(c, n, a)
  PROVE  /\ FoldLogged(c, log[n + 1]) \in [Agents -> CardKinds]
         /\ \A a \in Agents : ParentCard(FoldLogged(c, log[n + 1]), n + 1, a)
<1> DEFINE e == log[n + 1]
           d == FoldLogged(c, e)
<1>1. /\ TurnTypeOK /\ ClosingInv /\ ReturnInv /\ SpawnInv /\ OrderInv
      /\ Len(log) \in Nat /\ n + 1 \in 1 .. Len(log)
      /\ \A i \in 1 .. n : i \in 1 .. Len(log)
  BY LenProperties DEF TurnInv, CardInv, TurnTypeOK
<1>2. e \in Events
  BY <1>1, ElementOfSeq DEF TurnTypeOK
<1>3. \A x : HasIn(n + 1, x) <=> HasIn(n, x) \/ x = e
  BY OneMore
<1>4. \A x : HasIn(n + 1, x) => Has(log, x)
  <2>1. \A i \in 1 .. n + 1 : i \in 1 .. Len(log)
    BY <1>1
  <2> QED
    BY <2>1 DEF HasIn, Has
<1>5. e.kind # "agent_finished" => d = Fold(c, e)
  BY DEF FoldLogged
<1>6. \A k, l \in {"user_message", "run_error", "assistant_message", "run_finished"},
         a \in Agents : /\ (Event(k) = Event(l) <=> k = l) /\ Event(k).kind = k
                        /\ Event(k) # Spawned(a) /\ Event(k) # Finished(a)
                        /\ Event(k) # Skipped(a)
  <2>1. \A k : Event(k).kind = k
    BY DEF Event
  <2>2. \A a \in Agents : /\ Spawned(a).kind = "agent_spawned"
                          /\ Finished(a).kind = "agent_finished"
                          /\ Skipped(a).kind = "agent_skipped"
    BY DEF Spawned, Finished, Skipped, AgentEvent
  <2> QED
    BY <2>1, <2>2
<1>7. \A a, b \in Agents : /\ (Spawned(a) = Spawned(b) <=> a = b)
                           /\ (Finished(a) = Finished(b) <=> a = b)
                           /\ (Skipped(a) = Skipped(b) <=> a = b)
                           /\ Spawned(a) # Finished(b) /\ Spawned(a) # Skipped(b)
                           /\ Finished(a) # Skipped(b)
                           /\ Spawned(a).kind = "agent_spawned" /\ Spawned(a).who = a
                           /\ Finished(a).kind = "agent_finished" /\ Finished(a).who = a
                           /\ Skipped(a).kind = "agent_skipped" /\ Skipped(a).who = a
  BY EventsDiffer DEF Spawned, Finished, Skipped, AgentEvent
(* Nothing follows but what may, and who ends was spawned. *)
<1>8. e.kind = "user_message" => n = 0
  BY <1>1 DEF OrderInv
<1>9. e.kind = "agent_spawned" => \A i \in 1 .. n : log[i].kind \notin Ending
  <2> SUFFICES ASSUME e.kind = "agent_spawned", NEW i \in 1 .. n, log[i].kind \in Ending
               PROVE  FALSE
    OBVIOUS
  <2>1. n + 1 < i
    BY <1>1 DEF OrderInv
  <2> QED
    BY <2>1
<1>10. ASSUME NEW a \in Agents, e = Finished(a) \/ e = Skipped(a)
       PROVE  HasIn(n, Spawned(a))
  <2>1. Has(log, Finished(a)) \/ Has(log, Skipped(a))
    BY <1>1, <1>10 DEF Has
  <2>2. a \in Joined \cup remaining \cup wave
    <3>1. CASE Has(log, Finished(a))
      <4>1. at[a] = "done"
        BY <1>1, <3>1 DEF ClosingInv
      <4> QED
        BY <4>1 DEF TurnInv, WhereInv
    <3>2. CASE Has(log, Skipped(a))
      BY <1>1, <3>2 DEF ClosingInv
    <3> QED
      BY <2>1, <3>1, <3>2
  <2>3. PICK i \in 1 .. Len(log) : log[i] = Spawned(a)
    BY <1>1, <2>2 DEF SpawnInv, Has
  <2>4. i < n + 1
    BY <1>1, <1>7, <1>10, <2>3 DEF OrderInv, Ending
  <2>5. i \in 1 .. n
    BY <1>1, <2>4
  <2> QED
    BY <2>3, <2>5 DEF HasIn
<1>11. ASSUME NEW a \in Agents, HasIn(n + 1, Skipped(a)) PROVE result[a] = "none"
  <2>1. at[a] = "idle"
    BY <1>1, <1>4, <1>11 DEF ClosingInv
  <2> QED
    BY <1>1, <2>1 DEF ReturnInv
<1> HIDE DEF d
<1>12. CASE e = Event("user_message")
  <2>1. n = 0 /\ d = NoCards
    <3>1. e.kind = "user_message"
      BY <1>12 DEF Event
    <3>2. e.kind # "agent_finished"
      BY <3>1
    <3> QED
      BY <1>5, <1>8, <3>1, <3>2, FoldsOf
  <2>2. d \in [Agents -> CardKinds] /\ \A a \in Agents : d[a] = "none"
    BY <2>1 DEF NoCards, CardKinds
  <2>3. \A a \in Agents : ~HasIn(n, Spawned(a))
    BY <2>1 DEF HasIn
  <2>4. \A a \in Agents : ~HasIn(n + 1, Spawned(a))
    BY <1>3, <1>6, <1>12, <2>3
  <2> QED
    BY <2>2, <2>4 DEF ParentCard, d
<1>13. CASE \E b \in Agents : e = Spawned(b)
  <2>1. PICK b \in Agents : e = Spawned(b)
    BY <1>13
  <2>2. d = [c EXCEPT ![b] = "running"]
    BY <1>5, <1>7, <2>1, FoldsOf
  <2>3. /\ d \in [Agents -> CardKinds] /\ d[b] = "running"
        /\ \A a \in Agents \ {b} : d[a] = c[a]
    BY <2>2 DEF CardKinds
  <2>4. \A x : x.kind \in Ending => ~HasIn(n, x)
    BY <1>7, <1>9, <2>1 DEF HasIn
  <2>5. /\ ~HasIn(n, Finished(b)) /\ ~HasIn(n, Skipped(b))
        /\ ~HasIn(n, Event("run_error"))
    BY <1>6, <1>7, <2>4 DEF Ending
  <2>6. ParentCard(d, n + 1, b)
    BY <1>3, <1>6, <1>7, <2>1, <2>3, <2>5 DEF ParentCard
  <2>7. ASSUME NEW a \in Agents \ {b} PROVE ParentCard(d, n + 1, a)
    <3>1. /\ HasIn(n + 1, Spawned(a)) <=> HasIn(n, Spawned(a))
          /\ HasIn(n + 1, Finished(a)) <=> HasIn(n, Finished(a))
          /\ HasIn(n + 1, Skipped(a)) <=> HasIn(n, Skipped(a))
          /\ HasIn(n + 1, Event("run_error")) <=> HasIn(n, Event("run_error"))
          /\ HasIn(n + 1, Event("assistant_message")) <=> HasIn(n, Event("assistant_message"))
      BY <1>3, <1>6, <1>7, <2>1
    <3> QED
      BY <2>3, <3>1 DEF ParentCard
  <2> QED
    BY <2>3, <2>6, <2>7 DEF d
<1>14. CASE \E b \in Agents : e = Finished(b) \/ e = Skipped(b)
  <2>1. PICK b \in Agents : e = Finished(b) \/ e = Skipped(b)
    BY <1>14
  <2>2. HasIn(n, Spawned(b)) /\ (c[b] = "killed" => result[b] = "killed")
    BY <1>10, <2>1 DEF ParentCard
  <2>3. /\ d \in [Agents -> CardKinds] /\ d[b] = EndCard(b)
        /\ \A a \in Agents \ {b} : d[a] = c[a]
    <3>1. CASE e = Skipped(b)
      <4>1. d = [c EXCEPT ![b] = FinishedCard(c, b)]
        BY <1>5, <1>7, <3>1, FoldsOf
      <4>2. HasIn(n + 1, Skipped(b))
        BY <1>3, <3>1
      <4>3. result[b] = "none"
        BY <1>11, <4>2
      <4>4. FinishedCard(c, b) = "failed" /\ EndCard(b) = "failed"
        BY <2>2, <4>3 DEF FinishedCard, EndCard, Final
      <4> QED
        BY <4>1, <4>4 DEF CardKinds
    <3>2. CASE e = Finished(b)
      <4> DEFINE k == FoldKilled(c, b)
      <4>1. d = Fold(k, e)
        BY <1>7, <3>2 DEF FoldLogged, d
      <4>2. k = IF result[b] = "killed" THEN [c EXCEPT ![b] = "killed"] ELSE c
        <5>1. AgentEvent("killed", b).kind = "killed" /\ AgentEvent("killed", b).who = b
          BY DEF AgentEvent
        <5>2. Fold(c, AgentEvent("killed", b)) = [c EXCEPT ![b] = "killed"]
          BY <5>1, FoldsOf
        <5> QED
          BY <5>2 DEF FoldKilled
      <4>3. k \in [Agents -> CardKinds] /\ (k[b] = "killed" <=> result[b] = "killed")
            /\ \A a \in Agents \ {b} : k[a] = c[a]
        BY <2>2, <4>2 DEF CardKinds
      <4> HIDE DEF k
      <4>4. d = [k EXCEPT ![b] = FinishedCard(k, b)]
        BY <1>7, <3>2, <4>1, FoldsOf
      <4>5. FinishedCard(k, b) = EndCard(b) /\ EndCard(b) \in CardKinds
        BY <4>3 DEF FinishedCard, EndCard, CardKinds
      <4> QED
        BY <4>3, <4>4, <4>5
    <3> QED
      BY <2>1, <3>1, <3>2
  <2>4. EndCard(b) = "killed" => result[b] = "killed"
    BY DEF EndCard
  <2>5. ParentCard(d, n + 1, b)
    BY <1>3, <2>1, <2>2, <2>3, <2>4 DEF ParentCard
  <2>6. ASSUME NEW a \in Agents \ {b} PROVE ParentCard(d, n + 1, a)
    <3>1. /\ HasIn(n + 1, Spawned(a)) <=> HasIn(n, Spawned(a))
          /\ HasIn(n + 1, Finished(a)) <=> HasIn(n, Finished(a))
          /\ HasIn(n + 1, Skipped(a)) <=> HasIn(n, Skipped(a))
          /\ HasIn(n + 1, Event("run_error")) <=> HasIn(n, Event("run_error"))
          /\ HasIn(n + 1, Event("assistant_message")) <=> HasIn(n, Event("assistant_message"))
      BY <1>3, <1>6, <1>7, <2>1
    <3> QED
      BY <2>3, <3>1 DEF ParentCard
  <2> QED
    BY <2>3, <2>5, <2>6 DEF d
<1>15. ASSUME NEW k \in {"run_error", "assistant_message", "run_finished"}, e = Event(k)
       PROVE  /\ d \in [Agents -> CardKinds]
              /\ \A a \in Agents : ParentCard(d, n + 1, a)
  <2>1. /\ d \in [Agents -> CardKinds]
        /\ \A a \in Agents :
             d[a] = IF c[a] = "running" /\ k # "run_finished"
                    THEN IF k = "run_error" THEN "failed" ELSE "done"
                    ELSE c[a]
    <3>1. d = IF k = "run_error" THEN CloseCards(c, "failed")
              ELSE IF k = "assistant_message" THEN CloseCards(c, "done") ELSE c
      <4>1. e.kind = k /\ d = Fold(c, e)
        <5>1. e.kind = k
          BY <1>15 DEF Event
        <5>2. e.kind # "agent_finished"
          BY <5>1
        <5> QED
          BY <1>5, <5>1, <5>2
      <4> QED
        BY <4>1, FoldsOf
    <3> QED
      BY <3>1 DEF CloseCards, CardKinds
  <2>2. ASSUME NEW a \in Agents PROVE ParentCard(d, n + 1, a)
    <3>1. /\ HasIn(n + 1, Spawned(a)) <=> HasIn(n, Spawned(a))
          /\ HasIn(n + 1, Finished(a)) <=> HasIn(n, Finished(a))
          /\ HasIn(n + 1, Skipped(a)) <=> HasIn(n, Skipped(a))
          /\ HasIn(n + 1, Event("run_error")) <=>
               HasIn(n, Event("run_error")) \/ k = "run_error"
          /\ HasIn(n + 1, Event("assistant_message")) <=>
               HasIn(n, Event("assistant_message")) \/ k = "assistant_message"
      BY <1>3, <1>6, <1>15
    <3>2. ParentCard(c, n, a) /\ EndCard(a) # "running"
      BY DEF EndCard
    <3>3. d[a] = "killed" => c[a] = "killed"
      BY <2>1
    <3> QED
      BY <2>1, <3>1, <3>2, <3>3 DEF ParentCard
  <2> QED
    BY <2>1, <2>2
<1>16. \/ e = Event("user_message")
       \/ \E b \in Agents : e = Spawned(b)
       \/ \E b \in Agents : e = Finished(b) \/ e = Skipped(b)
       \/ \E k \in {"run_error", "assistant_message", "run_finished"} : e = Event(k)
  BY <1>2 DEF Events, RunKinds, AgentKinds, Spawned, Finished, Skipped
<1> QED
  BY <1>12, <1>13, <1>14, <1>15, <1>16 DEF d

(* The card of the only agent of a turn, after n events.                   *)
AgentCard(c, n) ==
  /\ c \in [Agents -> CardKinds]
  /\ n = 0 => c = NoCards
  /\ \A b \in Agents : b # 1 \/ at[1] = "idle" => c[b] = "none"
  /\ n # 0 /\ at[1] # "idle" =>
       c[1] = IF result[1] = "killed" THEN "killed"
              ELSE IF HasIn(n, Event("run_error")) THEN "failed"
              ELSE IF HasIn(n, Event("assistant_message")) THEN "done"
              ELSE "running"

(* The message begins the card of a turn's only agent, and the event that  *)
(* ends the turn closes it, unless a kill did.                             *)
LEMMA FoldsAgent ==
  ASSUME TurnInv, CardInv, mode = "agent",
         NEW n \in Nat, n + 1 <= Len(log), NEW c, AgentCard(c, n)
  PROVE  AgentCard(FoldLogged(c, log[n + 1]), n + 1)
<1> DEFINE e == log[n + 1]
           d == FoldLogged(c, e)
<1>1. /\ TurnTypeOK /\ OrderInv /\ 1 \in Agents /\ Len(log) \in Nat
      /\ n + 1 \in 1 .. Len(log) /\ \A i \in 1 .. n : i \in 1 .. Len(log)
      /\ c \in [Agents -> CardKinds] /\ n + 1 # 0
  BY LenProperties, TurnAssumption DEF TurnInv, CardInv, TurnTypeOK, AgentCard
<1>2. e \in Events
  BY <1>1, ElementOfSeq DEF TurnTypeOK
<1>3. \A x : HasIn(n + 1, x) <=> HasIn(n, x) \/ x = e
  BY OneMore
<1>4. \A x : HasIn(n + 1, x) => Has(log, x)
  <2>1. \A i \in 1 .. n + 1 : i \in 1 .. Len(log)
    BY <1>1
  <2> QED
    BY <2>1 DEF HasIn, Has
<1>5. e.kind \notin {"agent_finished", "user_message"} => d = Fold(c, e)
  BY DEF FoldLogged
<1>6. \E k \in RunKinds : e = Event(k)
  <2>1. ASSUME NEW k \in AgentKinds, NEW a \in Agents, e = AgentEvent(k, a) PROVE FALSE
    <3>1. Has(log, AgentEvent(k, a))
      BY <1>1, <2>1 DEF Has
    <3> QED
      BY <3>1 DEF TurnInv, WhereInv, NoAgentEvents, AgentKinds, Spawned, Finished, Skipped
  <2> QED
    BY <1>2, <2>1 DEF Events
<1>7. e.kind = "user_message" <=> n = 0
  <2>1. PICK i \in 1 .. Len(log) : log[i] = Event("user_message")
    <3>1. log # <<>>
      BY <1>1, EmptySeq
    <3>2. Has(log, Event("user_message"))
      BY <3>1 DEF TurnInv, ContractInv
    <3> QED
      BY <3>2 DEF Has
  <2>2. i = 1 /\ log[1].kind = "user_message"
    BY <1>1, <2>1 DEF OrderInv, Event
  <2> QED
    BY <1>1, <2>2 DEF OrderInv
<1>8. ~(HasIn(n + 1, Event("run_error")) /\ HasIn(n + 1, Event("assistant_message")))
  BY <1>4 DEF TurnInv, ContractInv, CardInv, ErrorInv
<1> HIDE DEF d
<1>9. CASE n = 0
  <2>1. e.kind = "user_message" /\ Fold(c, e) = NoCards /\ c = NoCards
    BY <1>7, <1>9, FoldsOf DEF AgentCard
  <2>2. \A x : ~HasIn(n, x)
    BY <1>9 DEF HasIn
  <2>3. e # Event("run_error") /\ e # Event("assistant_message")
    BY <2>1 DEF Event
  <2>4. ~HasIn(n + 1, Event("run_error")) /\ ~HasIn(n + 1, Event("assistant_message"))
    BY <1>3, <2>2, <2>3
  <2>5. CASE at[1] = "idle"
    <3>1. d = NoCards
      BY <2>1, <2>5 DEF FoldLogged, d
    <3> QED
      BY <1>1, <2>5, <3>1 DEF AgentCard, NoCards, CardKinds, d
  <2>6. CASE at[1] # "idle"
    <3> DEFINE r == Fold(NoCards, AgentEvent("run_started", 1))
    <3>1. d = FoldKilled(r, 1)
      BY <2>1, <2>6 DEF FoldLogged, d
    <3>2. r = [NoCards EXCEPT ![1] = "running"]
      <4>1. /\ AgentEvent("run_started", 1).kind = "run_started"
            /\ AgentEvent("run_started", 1).who = 1
        BY DEF AgentEvent
      <4> QED
        BY <4>1, FoldsOf
    <3> HIDE DEF r
    <3>3. Fold(r, AgentEvent("killed", 1)) = [r EXCEPT ![1] = "killed"]
      <4>1. /\ AgentEvent("killed", 1).kind = "killed"
            /\ AgentEvent("killed", 1).who = 1
        BY DEF AgentEvent
      <4> QED
        BY <4>1, FoldsOf
    <3>4. /\ r \in [Agents -> CardKinds] /\ r[1] = "running"
          /\ \A b \in Agents : b # 1 => r[b] = "none"
      BY <1>1, <3>2 DEF NoCards, CardKinds
    <3>5. /\ d \in [Agents -> CardKinds]
          /\ d[1] = IF result[1] = "killed" THEN "killed" ELSE "running"
          /\ \A b \in Agents : b # 1 => d[b] = "none"
      BY <1>1, <3>1, <3>3, <3>4 DEF FoldKilled, CardKinds
    <3> QED
      BY <1>1, <2>4, <2>6, <3>5 DEF AgentCard, d
  <2> QED
    BY <2>5, <2>6
<1>10. CASE n # 0
  <2>1. PICK k \in {"run_error", "assistant_message", "run_finished"} : e = Event(k)
    <3>1. PICK k \in RunKinds : e = Event(k)
      BY <1>6
    <3>2. e.kind = k
      BY <3>1 DEF Event
    <3> QED
      BY <1>7, <1>10, <3>1, <3>2 DEF RunKinds
  <2>2. e.kind = k /\ e.kind \notin {"agent_finished", "user_message"}
    BY <2>1 DEF Event
  <2>3. d = IF k = "run_error" THEN CloseCards(c, "failed")
            ELSE IF k = "assistant_message" THEN CloseCards(c, "done") ELSE c
    <3>1. d = Fold(c, e)
      BY <1>5, <2>2
    <3> QED
      BY <2>2, <3>1, FoldsOf
  <2>4. /\ d \in [Agents -> CardKinds]
        /\ \A a \in Agents :
             d[a] = IF c[a] = "running" /\ k # "run_finished"
                    THEN IF k = "run_error" THEN "failed" ELSE "done"
                    ELSE c[a]
    BY <1>1, <2>3 DEF CloseCards, CardKinds
  <2>5. /\ HasIn(n + 1, Event("run_error")) <=>
             HasIn(n, Event("run_error")) \/ k = "run_error"
        /\ HasIn(n + 1, Event("assistant_message")) <=>
             HasIn(n, Event("assistant_message")) \/ k = "assistant_message"
    <3>1. /\ e = Event("run_error") <=> k = "run_error"
          /\ e = Event("assistant_message") <=> k = "assistant_message"
      BY <2>1 DEF Event
    <3> QED
      BY <1>3, <3>1
  <2>6. /\ \A b \in Agents : b # 1 \/ at[1] = "idle" => d[b] = "none"
    BY <2>4 DEF AgentCard
  <2>7. ASSUME at[1] # "idle"
        PROVE  d[1] = IF result[1] = "killed" THEN "killed"
                      ELSE IF HasIn(n + 1, Event("run_error")) THEN "failed"
                      ELSE IF HasIn(n + 1, Event("assistant_message")) THEN "done"
                      ELSE "running"
    <3>1. c[1] = IF result[1] = "killed" THEN "killed"
                 ELSE IF HasIn(n, Event("run_error")) THEN "failed"
                 ELSE IF HasIn(n, Event("assistant_message")) THEN "done"
                 ELSE "running"
      BY <1>10, <2>7 DEF AgentCard
    <3>2. d[1] = IF c[1] = "running" /\ k # "run_finished"
                 THEN IF k = "run_error" THEN "failed" ELSE "done"
                 ELSE c[1]
      BY <1>1, <2>4
    <3> QED
      BY <1>8, <2>5, <3>1, <3>2
  <2> QED
    BY <1>1, <2>4, <2>6, <2>7 DEF AgentCard, d
<1> QED
  BY <1>9, <1>10 DEF d

(* What the first n events make of the cards.                              *)
CardsSay(n) ==
  /\ CardsAfter[n] \in [Agents -> CardKinds]
  /\ mode = "parent" => \A a \in Agents : ParentCard(CardsAfter[n], n, a)
  /\ mode = "agent"  => AgentCard(CardsAfter[n], n)

(* What every event of the log together make of them.                      *)
LEMMA CardsOf ==
  ASSUME TurnInv, CardInv PROVE CardsSay(Len(log))
<1>1. Len(log) \in Nat /\ mode \in {"parent", "agent"}
  BY LenProperties DEF TurnInv, TurnTypeOK
<1>2. /\ CardsAfter[0] = NoCards
      /\ \A n \in 1 .. Len(log) : CardsAfter[n] = FoldLogged(CardsAfter[n - 1], log[n])
  BY <1>1, CardsFolded
<1> DEFINE T == {n \in Nat : n <= Len(log) => CardsSay(n)}
<1>3. 0 \in T
  <2>1. CardsAfter[0] \in [Agents -> CardKinds] /\ \A a \in Agents : CardsAfter[0][a] = "none"
    BY <1>2 DEF NoCards, CardKinds
  <2>2. \A x : ~HasIn(0, x)
    BY DEF HasIn
  <2>3. CardsSay(0)
    BY <1>2, <2>1, <2>2 DEF CardsSay, ParentCard, AgentCard
  <2> QED
    BY <2>3
<1>4. ASSUME NEW n \in Nat, n \in T PROVE n + 1 \in T
  <2>1. SUFFICES ASSUME n + 1 <= Len(log) PROVE CardsSay(n + 1)
    OBVIOUS
  <2>2. CardsSay(n)
    BY <1>1, <1>4, <2>1
  <2>3. CardsAfter[n + 1] = FoldLogged(CardsAfter[n], log[n + 1])
    <3>1. n + 1 \in 1 .. Len(log) /\ (n + 1) - 1 = n
      BY <1>1, <2>1
    <3> QED
      BY <1>2, <3>1
  <2>4. CASE mode = "parent"
    BY <2>1, <2>2, <2>3, <2>4, FoldsParent DEF CardsSay
  <2>5. CASE mode = "agent"
    <3>1. AgentCard(CardsAfter[n + 1], n + 1)
      BY <2>1, <2>2, <2>3, <2>5, FoldsAgent DEF CardsSay
    <3> QED
      BY <2>5, <3>1 DEF CardsSay, AgentCard
  <2> QED
    BY <1>1, <2>4, <2>5
<1>5. Len(log) \in T
  <2> HIDE DEF T
  <2> QED
    BY <1>1, <1>3, <1>4, SetInduction
<1> QED
  BY <1>1, <1>5

(* The transcript of a run says of every agent how it ended: an agent that *)
(* was spawned has a card, it says "done" of those that answered, "killed" *)
(* of those a stop ended, and no card is left running, whatever raised.    *)
THEOREM TranscriptsAreTrue == TurnSpec => []TranscriptIsTrue
<1>1. TurnInv /\ CardInv => TranscriptIsTrue
  <2> DEFINE c == build_transcript
             Said(a) ==
               c[a] = IF ~(mode = "parent" /\ Logged("agent_spawned") /\ a \in plan)
                         /\ ~(mode = "agent" /\ a = 1 /\ at[1] # "idle") THEN "none"
                      ELSE IF Final(a) THEN "done"
                      ELSE IF result[a] = "killed" THEN "killed" ELSE "failed"
  <2>1. SUFFICES ASSUME TurnInv, CardInv, pt = "done", NEW a \in Agents PROVE Said(a)
    BY DEF TranscriptIsTrue
  <2>2. /\ TurnTypeOK /\ ReturnInv /\ WhereInv /\ ClosingInv /\ ContractInv
        /\ SpawnInv /\ ErrorInv
    BY <2>1 DEF TurnInv, CardInv
  <2>3. \A x : HasIn(Len(log), x) <=> Has(log, x)
    BY DEF HasIn, Has
  <2>4. CardsSay(Len(log)) /\ c = CardsAfter[Len(log)]
    BY <2>1, CardsOf DEF build_transcript
  <2>5. /\ outcome = "ok" <=> Has(log, Event("assistant_message"))
        /\ outcome # "ok" => Has(log, Event("run_error"))
    BY <2>1, <2>2 DEF ContractInv
  <2> HIDE DEF c
  <2>6. CASE mode = "parent"
    <3>1. Has(log, Spawned(a)) <=> Logged("agent_spawned") /\ a \in plan
      <4>1. ASSUME Logged("agent_spawned") PROVE \E b \in Agents : Has(log, Spawned(b))
        <5>1. PICK i \in 1 .. Len(log) : log[i].kind = "agent_spawned"
          BY <4>1 DEF Logged
        <5>2. log[i] \in Events
          BY <2>2, ElementOfSeq DEF TurnTypeOK
        <5>3. \A k \in RunKinds : log[i] # Event(k)
          BY <5>1 DEF Event, RunKinds
        <5>4. PICK k \in AgentKinds, b \in Agents : log[i] = AgentEvent(k, b)
          BY <5>2, <5>3 DEF Events
        <5>5. log[i] = Spawned(b)
          BY <5>1, <5>4 DEF Spawned, AgentEvent
        <5> QED
          BY <5>5 DEF Has
      <4>2. Has(log, Spawned(a)) => Logged("agent_spawned")
        BY DEF Has, Logged, Spawned, AgentEvent
      <4> QED
        BY <2>2, <4>1, <4>2 DEF SpawnInv
    <3>2. ParentCard(c, Len(log), a)
      BY <2>4, <2>6 DEF CardsSay
    <3>3. CASE ~Has(log, Spawned(a))
      BY <2>3, <2>6, <3>1, <3>2, <3>3 DEF ParentCard
    <3>4. CASE Has(log, Spawned(a)) /\ (Has(log, Finished(a)) \/ Has(log, Skipped(a)))
      BY <2>3, <2>6, <3>1, <3>2, <3>4 DEF ParentCard, EndCard
    <3>5. CASE Has(log, Spawned(a)) /\ ~Has(log, Finished(a)) /\ ~Has(log, Skipped(a))
      <4>1. ~(at[a] = "done" /\ result[a] # "raised")
        BY <2>2, <2>6, <3>5 DEF ClosingInv
      <4>2. a \in remaining
        BY <2>2, <3>5, <4>1 DEF ClosingInv, WhereInv
      <4>3. \E b \in Agents : result[b] = "raised"
        BY <2>1, <2>2, <3>5, <4>2 DEF ClosingInv
      <4>4. outcome # "ok"
        BY <2>1, <2>2, <2>6, <4>3 DEF ErrorInv
      <4>5. c[a] = "failed"
        BY <2>3, <2>5, <3>2, <3>5, <4>4 DEF ParentCard
      <4>6. at[a] \in {"idle", "done"}
        BY <2>1, <2>2 DEF WhereInv
      <4>7. ~Final(a) /\ result[a] # "killed"
        BY <2>2, <4>1, <4>6 DEF ReturnInv, Final
      <4> QED
        BY <2>6, <3>1, <3>5, <4>5, <4>7
    <3> QED
      BY <3>3, <3>4, <3>5
  <2>7. CASE mode = "agent"
    <3>1. AgentCard(c, Len(log))
      BY <2>4, <2>7 DEF CardsSay
    <3>2. CASE a # 1 \/ at[1] = "idle"
      BY <2>7, <3>1, <3>2 DEF AgentCard
    <3>3. CASE a = 1 /\ at[1] # "idle"
      <4>1. Len(log) # 0
        BY <2>1, <2>2 DEF ContractInv, Has
      <4>2. c[1] = IF result[1] = "killed" THEN "killed"
                   ELSE IF Has(log, Event("run_error")) THEN "failed"
                   ELSE IF Has(log, Event("assistant_message")) THEN "done"
                   ELSE "running"
        BY <2>3, <3>1, <3>3, <4>1 DEF AgentCard
      <4>3. /\ outcome = "ok" <=> Final(1)
            /\ Has(log, Event("run_error")) => outcome # "ok"
        BY <2>1, <2>2, <2>7, <3>3 DEF ErrorInv
      <4>4. Final(1) => result[1] # "killed"
        BY DEF Final
      <4> QED
        BY <2>5, <2>7, <3>3, <4>2, <4>3, <4>4
    <3> QED
      BY <3>2, <3>3
  <2> QED
    BY <2>2, <2>6, <2>7 DEF TurnTypeOK
<1> QED
  BY <1>1, CardInvariant, PTL

===========================================================================
