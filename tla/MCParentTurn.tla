--------------------------- MODULE MCParentTurn ---------------------------
(* Plans of up to three agents over a pool of two threads: one more agent  *)
(* than threads, chains, diamonds of two levels and cycles.  The model     *)
(* answers or calls one tool.                                              *)
EXTENDS Transcript

other == [tool |-> "other", parses |-> TRUE]

AgentsVal  == 1 .. 3
RepliesVal == {<<>>, <<other>>}

===========================================================================
