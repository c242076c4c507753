----------------------------- MODULE WebChannel -----------------------------
(***************************************************************************)
(* The booking example end to end: the user's browser tab on the WebSocket *)
(* channel (examples/booking/channels/web_ws.py) over the conversation     *)
(* workflow.  There is one tab at a time; it may disconnect and come back. *)
(***************************************************************************)
EXTENDS Conversation

VARIABLES open  \* the socket is open

vars == <<convVars, open>>

Init == ConvInit /\ open = FALSE

(* ws_handler: start the workflow or attach to the one that is running.    *)
Connect ==
  /\ ~open /\ open' = TRUE
  /\ \/ StartRun
     \/ wf = "running" /\ UNCHANGED convVars

(* inbound: a message of the tab becomes a signal.                         *)
Inbound == open /\ (\E m \in Texts : UserMessage(m)) /\ UNCHANGED open

(* A signal to a workflow that ended raises: the tab is told and closed.   *)
InboundRefused == open /\ wf # "running" /\ open' = FALSE /\ UNCHANGED convVars

Disconnect == open /\ open' = FALSE /\ UNCHANGED convVars

Workflow == TurnNext   /\ UNCHANGED open
Worker   == Activities /\ UNCHANGED open
Closing  == Close      /\ UNCHANGED open
Marking  == RewriteFeed /\ UNCHANGED <<flowVars, result, offered, sent, runs, open>>

Next == Connect \/ Inbound \/ InboundRefused \/ Disconnect \/ Closing \/ Workflow \/ Worker
        \/ Marking

(* Temporal keeps scheduling workflow tasks and activity attempts.         *)
Spec == Init /\ [][Next]_vars /\ WF_vars(Workflow) /\ WF_vars(Worker)

---------------------------------------------------------------------------

(* saga_booking.py: a booking is reported confirmed only when the merchant *)
(* has been told: its entry is in the feed, through retries, late attempts *)
(* and sagas run again for the same slot, as long as the surface does not  *)
(* overwrite it.                                                           *)
ConfirmedReachedMerchant ==
  LET entry == <<result.id, "booking_confirmed">> IN
  result.status = "confirmed" => InFeed(entry) \/ entry \in lost

(* session.py, _pick_slot, through bookings_upsert: a key's row is of the  *)
(* key's own slot, and that was on offer in this session, also when a      *)
(* given-up attempt writes it.  The exception: a row that a call with      *)
(* other arguments than the skill's inputs has made; nothing in the code   *)
(* keeps the model from passing a slot nobody offered.                     *)
BookedWasOffered ==
  \A k \in Ids \ strayed :
    rows[k].status # "none" => rows[k].slot = k /\ k \in offered

(* web_ws.py and session.py: a message the workflow accepted is taken up,  *)
(* unless the conversation is closed or fails first.                       *)
EveryMessageTaken ==
  inbox # <<>> ~> (inbox = <<>> \/ closed \/ wf # "running")

===========================================================================
