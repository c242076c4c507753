-------------------------- MODULE MCSessionRuns --------------------------
(* Two request threads that send, one that kills, two messages and one     *)
(* crash of the server: enough for a race of two sends, for a kill that    *)
(* outlives its run, and for a message after a crash.                      *)
EXTENDS SessionRuns

CONSTANTS c1, c2, k1, r1, r2

ClientsVal == {c1, c2}
KillersVal == {k1}
RunsVal    == {r1, r2}

===========================================================================
