---------------------------- MODULE Conversation ----------------------------
(***************************************************************************)
(* ConversationWorkflow (examples/booking/workflows/session.py) and the    *)
(* booking saga it runs inline (workflows/saga_booking.py).                *)
(*                                                                         *)
(* The workflow's code runs without interruption between two awaits; while *)
(* it awaits an activity, signals append to the inbox and the replies.     *)
(* What the models answer is open, so every branch on an answer is a       *)
(* choice here.  An ActivityError nobody catches fails the workflow.       *)
(***************************************************************************)
EXTENDS BookingActivities

CONSTANTS
  Offers,   \* the slot lists check_availability may answer with
  Texts,    \* the messages: a slot, or Invented, stands for one with its datetime
  Plain,    \* a message without a datetime
  MaxInbox, \* bound on the messages waiting
  MaxSent,  \* bound on the messages sent
  MaxRuns   \* bound on the workflow runs started under the id

ASSUME TextAssumption ==
  /\ Plain \in Texts /\ Texts \subseteq Ids \cup {Plain} /\ Offers \subseteq Seq(Slots)

VARIABLES
  wf,       \* the run: none yet, running, completed or failed
  closed,   \* self._closed
  inbox,    \* self._inbox
  pending,  \* slots of self._pending, <<>> when no offer is open
  pc,       \* the await the workflow is in
  text,     \* the message of the turn, until it has been classified
  result,   \* the booking_saga result pushed last
  offered,  \* history: slots some offer held
  sent, runs

flowVars == <<wf, closed, inbox, pending, pc, text>>
convVars == <<flowVars, result, offered, sent, runs, actVars>>

Intent == {"book", "question", "confirm", "cancel", "smalltalk"}

ConvInit ==
  /\ ActInit
  /\ wf = "none" /\ closed = FALSE /\ inbox = <<>> /\ pending = <<>>
  /\ pc = "idle"
  /\ text = Plain
  /\ result = [id |-> Invented, status |-> "failed"] /\ offered = {} /\ sent = 0 /\ runs = 0

(* A run under the session's workflow id, with everything from __init__;   *)
(* the store and the feed outlive the run before it.                       *)
StartRun ==
  /\ wf # "running" /\ runs < MaxRuns
  /\ wf' = "running" /\ closed' = FALSE /\ inbox' = <<>> /\ pending' = <<>>
  /\ pc' = "idle"
  /\ text' = Plain /\ runs' = runs + 1
  /\ UNCHANGED <<result, offered, sent, actVars>>

---------------------------------------------------------------------------
(* Signals and the run loop.                                               *)

(* user_message.  After close() it is dropped without a word.              *)
UserMessage(m) ==
  /\ wf = "running" /\ sent < MaxSent /\ Len(inbox) < MaxInbox
  /\ sent' = sent + 1
  /\ IF closed THEN UNCHANGED inbox
     ELSE inbox' = Append(inbox, m)
  /\ UNCHANGED <<wf, closed, pending, pc, text, result, offered,
                 runs, actVars>>

(* The close signal, or 24 hours without a message.                        *)
Close ==
  /\ wf = "running" /\ ~closed
  /\ closed' = TRUE
  /\ UNCHANGED <<wf, inbox, pending, pc, text, result,
                 offered, sent, runs, actVars>>

(* run() returns; messages left in the inbox are not looked at.            *)
Complete ==
  /\ wf = "running" /\ pc = "idle" /\ closed
  /\ wf' = "completed"
  /\ UNCHANGED <<closed, inbox, pending, pc, text, result,
                 offered, sent, runs, actVars>>

Await(role, id) == pc' = role /\ act' = Started(role, id)

TakeMessage ==
  /\ wf = "running" /\ pc = "idle" /\ ~closed /\ inbox # <<>>
  /\ inbox' = Tail(inbox)
  /\ text' = Head(inbox)
  /\ Await("classify_intent", Invented)
  /\ UNCHANGED <<wf, closed, pending, result, offered, sent, runs,
                 storeVars, late, slipVars>>

---------------------------------------------------------------------------
(* The turn.  Answered(role): the awaited activity returned.               *)

Answered(role) == wf = "running" /\ pc = role /\ act.state = "done"
Rest           == <<wf, closed, inbox, sent, runs, storeVars, late, slipVars>>
Continue(role, id) == Await(role, id) /\ text' = Plain

Synthesize == Continue("synthesize_response", Invented)

(* Variant: the datetime of the message is booked as it stands.            *)
PickAsked(m, slots) == IF m # Plain THEN m ELSE slots[1]

(* _pick_slot: the offered slot the message names, else the first one.     *)
PickSlot(m, slots) ==
  IF \E i \in 1 .. Len(slots) : slots[i] = m THEN m ELSE slots[1]

(* An empty classification is smalltalk; a datetime while an offer is open *)
(* is a confirm whatever the classifier said.                              *)
IntentOf(kind) ==
  IF pending # <<>> /\ text # Plain THEN "confirm"
  ELSE IF act.out = "empty" THEN "smalltalk" ELSE kind

AfterClassify ==
  /\ Answered("classify_intent")
  /\ \E kind \in Intent :
       \/ /\ IntentOf(kind) = "book" /\ Continue("resolve_business", Invented)
          /\ UNCHANGED pending
       \/ /\ IntentOf(kind) = "question" /\ Continue("enquiry-generic", Invented)
          /\ UNCHANGED pending
       \/ /\ IntentOf(kind) = "cancel" /\ Synthesize
          /\ pending' = <<>>
       \/ /\ \/ IntentOf(kind) = "smalltalk"
             \/ IntentOf(kind) = "confirm" /\ pending = <<>>
          /\ Synthesize /\ UNCHANGED pending
       \/ /\ IntentOf(kind) = "confirm" /\ pending # <<>>
          /\ Continue("create_booking", PickSlot(text, pending))
          /\ UNCHANGED pending
  /\ UNCHANGED <<Rest, result, offered>>

(* best_match, a list to choose from, or nothing.                          *)
AfterResolve ==
  /\ Answered("resolve_business")
  /\ \/ act.out # "empty" /\ Continue("check_availability", Invented)
     \/ Synthesize
  /\ UNCHANGED <<Rest, pending, result, offered>>

(* A list of slots replaces the open offer; none leaves it as it is.       *)
AfterAvailability ==
  /\ Answered("check_availability")
  /\ Synthesize
  /\ \/ /\ act.out # "empty"
        /\ \E o \in Offers \ {<<>>} :
             /\ pending' = o
             /\ offered' = offered \cup {o[i] : i \in 1 .. Len(o)}
     \/ UNCHANGED <<pending, offered>>
  /\ UNCHANGED <<Rest, result>>

(* _finalize_say: the one reply the user sees, and the end of the turn.    *)
Say ==
  /\ pc' = "idle" /\ text' = Plain /\ act' = NoActivity
  /\ UNCHANGED <<Rest, pending, result, offered>>

AfterEnquiry ==
  /\ Answered("enquiry-generic")
  /\ \/ act.out # "empty" /\ Say
     \/ Synthesize /\ UNCHANGED <<Rest, pending, result, offered>>

(* Variant: a failing synthesizer leaves the turn without a reply.         *)
SynthesisRequired ==
  /\ wf = "running" /\ pc = "synthesize_response" /\ act.state = "done"
  /\ Say

(* Whatever becomes of the synthesizer, something is said: its own words   *)
(* or the fallback reply.                                                  *)
AfterSynthesis ==
  /\ wf = "running" /\ pc = "synthesize_response" /\ act.state \in {"done", "failed"}
  /\ Say

---------------------------------------------------------------------------
(* run_booking_saga.                                                       *)

(* The result is traced and pushed; only "confirmed" closes the offer.     *)
SagaResult(id, status) ==
  /\ result' = [id |-> id, status |-> status]
  /\ Synthesize
  /\ pending' = IF status = "confirmed" THEN <<>> ELSE pending
  /\ UNCHANGED <<Rest, offered>>

SagaGoesOn(role, id) ==
  /\ Await(role, id)
  /\ UNCHANGED <<Rest, text, pending, result, offered>>

AfterCreate ==
  /\ Answered("create_booking")
  /\ IF act.out \in Ids THEN SagaGoesOn("booking_confirmed", act.out)
     ELSE SagaResult(Invented, "failed")

(* Variant: the saga reports success before it knows of the notice.        *)
NotifyIgnored ==
  /\ wf = "running" /\ pc = "booking_confirmed" /\ act.state \in {"done", "failed"}
  /\ SagaResult(act.id, "confirmed")

AfterNotify ==
  /\ wf = "running" /\ pc = "booking_confirmed"
  /\ \/ act.state = "done"   /\ SagaResult(act.id, "confirmed")
     \/ act.state = "failed" /\ SagaGoesOn("cancel_booking", act.id)

(* Any return of the cancel skill counts, an error in it included.         *)
AfterCancel ==
  /\ Answered("cancel_booking")
  /\ SagaGoesOn("booking_compensated", act.id)

AfterCompensation ==
  /\ wf = "running" /\ pc = "booking_compensated" /\ act.state \in {"done", "failed"}
  /\ SagaResult(act.id, "compensated")

(* The ActivityErrors nothing catches: the except clause of the cancel     *)
(* step names ApplicationError, which is only the cause of an              *)
(* ActivityError.                                                          *)
Uncaught == Skills \ {"synthesize_response"}

WorkflowFails ==
  /\ wf = "running" /\ pc \in Uncaught /\ act.state = "failed"
  /\ wf' = "failed" /\ pc' = "idle"
  /\ UNCHANGED <<closed, inbox, pending, text, result,
                 offered, sent, runs, actVars>>

TurnNext ==
  \/ TakeMessage \/ AfterClassify \/ AfterResolve \/ AfterAvailability
  \/ AfterEnquiry \/ AfterSynthesis \/ AfterCreate \/ AfterNotify
  \/ AfterCancel \/ AfterCompensation \/ WorkflowFails \/ Complete

Activities == ActivityNext /\ UNCHANGED <<flowVars, result, offered, sent, runs>>

===========================================================================
