----------------------------- MODULE Transcript -----------------------------
(***************************************************************************)
(* plnt/tenancy/transcript.py: the events of a turn folded into the cards  *)
(* of its agents, as the run views show them, beside the turn whose log is *)
(* folded.  What a card says of its agent is its status; its steps, files, *)
(* tokens and texts are left out, and so is the turn's own entry.          *)
(***************************************************************************)
EXTENDS ParentTurn

NoCards == [a \in Agents |-> "none"]

(* The event that ends the turn closes the cards that are still running.   *)
CloseCards(cards, status) ==
  [a \in Agents |-> IF cards[a] = "running" THEN status ELSE cards[a]]

(* Variant: an agent that has finished is done, whatever its outcome.      *)
CardOfFinished(cards, a) == "done"

(* outcome "ok" is done; a kill is not overwritten by a failure.           *)
FinishedCard(cards, a) ==
  IF Final(a) THEN "done"
  ELSE IF cards[a] = "killed" THEN "killed" ELSE "failed"

(* One event folded in.                                                    *)
Fold(cards, e) ==
  CASE e.kind = "user_message"  -> NoCards
    [] e.kind = "agent_spawned" -> [cards EXCEPT ![e.who] = "running"]
    [] e.kind = "run_started"   ->
         IF cards = NoCards THEN [cards EXCEPT ![e.who] = "running"] ELSE cards
    [] e.kind = "killed"        -> [cards EXCEPT ![e.who] = "killed"]
    [] e.kind \in {"agent_finished", "agent_skipped"} ->
         [cards EXCEPT ![e.who] = FinishedCard(cards, e.who)]
    [] e.kind = "assistant_message" -> CloseCards(cards, "done")
    [] e.kind = "run_error"     -> CloseCards(cards, "failed")
    [] OTHER                    -> cards

(* ParentTurn leaves out two events that a card hangs on: the "killed" of  *)
(* an agent that found the run stopped, and run_started of a session bound *)
(* to one agent.                                                           *)
FoldKilled(cards, a) ==
  IF result[a] = "killed" THEN Fold(cards, AgentEvent("killed", a)) ELSE cards

FoldLogged(cards, e) ==
  CASE e.kind = "agent_finished" -> Fold(FoldKilled(cards, e.who), e)
    [] e.kind = "user_message" /\ mode = "agent" /\ at[1] # "idle" ->
         FoldKilled(Fold(Fold(cards, e), AgentEvent("run_started", 1)), 1)
    [] OTHER -> Fold(cards, e)

(* The cards after the first n events of the log.                          *)
CardsAfter[n \in 0 .. Len(log)] ==
  IF n = 0 THEN NoCards ELSE FoldLogged(CardsAfter[n - 1], log[n])

build_transcript == CardsAfter[Len(log)]

---------------------------------------------------------------------------
(* Properties.                                                             *)

(* The transcript of a finished run has a card for every agent that was    *)
(* spawned; it says "done" of those that answered, "killed" of those that  *)
(* a stop ended, and "failed" of all others: raised, skipped behind a      *)
(* cycle or a stop, or in a wave that another one's exception ended.       *)
TranscriptIsTrue ==
  pt = "done" =>
    LET cards == build_transcript IN
    \A a \in Agents :
      cards[a] =
        IF ~(mode = "parent" /\ Logged("agent_spawned") /\ a \in plan)
           /\ ~(mode = "agent" /\ a = 1 /\ at[1] # "idle") THEN "none"
        ELSE IF Final(a) THEN "done"
        ELSE IF result[a] = "killed" THEN "killed" ELSE "failed"

===========================================================================
