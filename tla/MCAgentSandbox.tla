--------------------------- MODULE MCAgentSandbox ---------------------------
(* An agent of either rung, with two different tool calls and pipes that   *)
(* fill up.                                                                *)
EXTENDS AgentSandbox

=============================================================================
