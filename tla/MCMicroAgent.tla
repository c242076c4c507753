-------------------------- MODULE MCMicroAgent --------------------------
(* Two agents of one run, one of them with a required tool.  A reply is a  *)
(* final answer, one call of the required tool, or one call more than the  *)
(* loop detector allows.  A model call costs nothing or the budget twice.  *)
EXTENDS MicroAgent

CONSTANTS a1, a2

required  == [tool |-> "required", parses |-> TRUE]
other     == [tool |-> "other", parses |-> TRUE]

AgentsVal   == {a1, a2}
RequiresVal == {a1}
RepliesVal  == {<<>>, <<required>>, <<other, other, other, other>>}

===========================================================================
