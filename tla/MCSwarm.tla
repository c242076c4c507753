------------------------------ MODULE MCSwarm ------------------------------
(* Plans of up to three agents, the default of PLNT_MAX_AGENTS, over a pool *)
(* of two.  The planner knows a name without the prefix "a-", which becomes *)
(* another id, and two names that are kept; it uses any of the three as the *)
(* id of an agent, repeats included, and any of them in depends_on.         *)
EXTENDS Swarm

NamesVal    == {"x", "a-x", "a-y"}
IdsVal      == {"a-x", "a-y", "a-u1", "a-u2", "a-u3"}
PrefixedVal == [n \in NamesVal |-> IF n = "x" THEN "a-x" ELSE n]
FreshVal    == [i \in 1 .. MaxAgents |-> <<"a-u1", "a-u2", "a-u3">>[i]]

============================================================================
