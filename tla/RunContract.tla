---------------------------- MODULE RunContract ----------------------------
(***************************************************************************)
(* What a client of the event log may rely on, whatever happens inside a   *)
(* run (site/src/content/docs/docs/reference/events.md, and the consumers  *)
(* that fold the log: transcript.py, the SSE stream, the playground):      *)
(*                                                                         *)
(*   - a run appears in the log with its user_message;                     *)
(*   - it is closed by a run_finished, only after an assistant_message or  *)
(*     a run_error, and nothing of the run follows;                        *)
(*   - run_finished says "ok" exactly when the run has been answered.      *)
(*                                                                         *)
(* A server that dies leaves the open runs of that moment as they are.     *)
(***************************************************************************)

CONSTANT Runs

VARIABLE phase

Phases == {"absent", "open", "failed", "answered", "ok", "not_ok", "lost"}

Init == phase = [r \in Runs |-> "absent"]

Move(r, from, to) ==
  /\ phase[r] \in from
  /\ phase' = [phase EXCEPT ![r] = to]

Open(r)   == Move(r, {"absent"}, "open")
Fail(r)   == Move(r, {"open"}, "failed")
Answer(r) == Move(r, {"open", "failed"}, "answered")
Close(r)  == Move(r, {"answered"}, "ok") \/ Move(r, {"failed"}, "not_ok")

(* The server dies: every run that is neither absent nor closed is lost.   *)
Die ==
  phase' = [r \in Runs |->
              IF phase[r] \in {"open", "failed", "answered"}
              THEN "lost" ELSE phase[r]]

Next == \/ \E r \in Runs : Open(r) \/ Fail(r) \/ Answer(r) \/ Close(r)
        \/ Die

Spec == Init /\ [][Next]_phase

===========================================================================
