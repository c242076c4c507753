------------------------- MODULE BookingActivities -------------------------
(***************************************************************************)
(* The Temporal activities of the booking example and what they leave      *)
(* behind: examples/booking/workflows/activities.py over                   *)
(* microagents/agent_loop.py (run_skill), microagents/tools/bookings.py,   *)
(* workflows/bookings_store.py, microagents/tools/notify.py and            *)
(* tenancy/notifications.py.                                               *)
(*                                                                         *)
(* An activity is tried a few times.  An attempt that times out (a skill   *)
(* may post for longer than its activity may last) is given up by the      *)
(* server but goes on in its worker, so its calls may land later, at any   *)
(* point of the workflow: late holds those attempts.                       *)
(*                                                                         *)
(* What a skill's tool is called with is its model's word: run_skill hands *)
(* the arguments over as they come, and nothing compares them with the     *)
(* skill's inputs; nor is the booking_id of its answer.  Such slips are     *)
(* counted, and the keys whose row they made are in strayed.  The tool     *)
(* itself is taken to be one that the request offered, which is the model  *)
(* server's part; dispatch() would run any that is registered.             *)
(*                                                                         *)
(* The merchant reads the feed in another process, the web surface, which  *)
(* marks entries as read by writing the file anew (surface/admin_v2.py);   *)
(* the marks themselves are left out.                                      *)
(***************************************************************************)
EXTENDS Integers, Sequences, FiniteSets

CONSTANTS
  Slots,     \* (business, slot) pairs: one idempotency key each in a session
  Invented,  \* a datetime, a slot or a booking_id that no offer ever held
  SkillTries, \* maximum_attempts of run_microagent, 3 in the code
  MaxLoose   \* bound on the given-up attempts under way and the slips together

ASSUME ActivityAssumption == SkillTries \in Nat /\ SkillTries >= 2

VARIABLES
  rows,   \* bookings.db: status and slot of the row of each idempotency key
  feed,   \* notifications.jsonl: its (booking_id, kind) entries in order
  mails,  \* how often email and push were attempted for an entry
  lost,   \* history: entries a rewrite of the feed dropped
  act,    \* the activity the workflow awaits
  late,   \* given-up attempts that go on in their worker
  strayed, \* history: keys whose row a call with other arguments made
  slips    \* history: how often such a call or a made-up booking_id counted

feedVars  == <<feed, lost>>
storeVars == <<rows, mails, feedVars>>
slipVars  == <<strayed, slips>>
actVars   == <<storeVars, act, late, slipVars>>

Ids     == Slots \cup {Invented}
Notices == {"booking_confirmed", "booking_compensated"}
Entries == Ids \X Notices
Skills  == {"classify_intent", "resolve_business", "check_availability",
            "enquiry-generic", "synthesize_response",
            "create_booking", "cancel_booking"}

MaxTries(role) == IF role \in Notices THEN 2 ELSE SkillTries

(* out: "empty" is an output {}, "answer" any other without a booking_id.  *)
(* step: 1 when a notice has its feed entry.                               *)
Started(role, id) ==
  [role |-> role, id |-> id, try |-> 1, step |-> 0, state |-> "running", out |-> "empty"]

NoActivity == [Started("classify_intent", Invented) EXCEPT !.state = "done"]

NoRow == [status |-> "none", slot |-> Invented]

ActInit == /\ rows  = [k \in Ids |-> NoRow]
           /\ feed  = <<>> /\ lost = {}
           /\ mails = [e \in Entries |-> 0]
           /\ act   = NoActivity
           /\ late  = {}
           /\ strayed = {} /\ slips = 0

Running(roles) == act.state = "running" /\ act.role \in roles
Return(o)      == act' = [Started(act.role, act.id) EXCEPT !.state = "done", !.out = o]

---------------------------------------------------------------------------
(* The tools, as dispatch() runs them: by name, with what the call says.   *)

(* The slot of a call counts for bookings_upsert only; a notice is         *)
(* notify_send with that kind.                                             *)
Call(tool, id, slot) == [tool |-> tool, id |-> id, slot |-> slot]
Calls(role) ==
  CASE role = "create_booking" -> {Call("bookings_upsert", k, s) : k \in Ids, s \in Ids}
    [] role = "cancel_booking" -> {Call("bookings_cancel", k, k) : k \in Ids}
    [] role \in Notices        -> {Call(role, k, k) : k \in Ids}
    [] OTHER                   -> {}

(* The call that passes on what the skill, or the notice, was given.       *)
Own(role, id) == {c \in Calls(role) : c.id = id /\ c.slot = id}

InFeed(entry) == \E i \in DOMAIN feed : feed[i] = entry

(* append(): a line at the end of the file, under the lock of the process, *)
(* unless the file holds the entry.                                        *)
AppendEntry(entry) == feed' = Append(feed, entry) /\ UNCHANGED lost

(* upsert_confirmed inserts a row unless the key is known, whatever its    *)
(* row says by now.                                                        *)
Upsert(c) ==
  /\ c.tool = "bookings_upsert" /\ rows[c.id].status = "none"
  /\ rows' = [rows EXCEPT ![c.id] = [status |-> "confirmed", slot |-> c.slot]]
  /\ UNCHANGED <<feedVars, mails>>

(* cancel: not_found and already_cancelled change nothing.                 *)
CancelRow(c) ==
  /\ c.tool = "bookings_cancel" /\ rows[c.id].status = "confirmed"
  /\ rows' = [rows EXCEPT ![c.id].status = "cancelled"]
  /\ UNCHANGED <<feedVars, mails>>

(* notify_send: the feed entry first, email and push only with it.         *)
Notify(c) ==
  LET entry == <<c.id, c.tool>> IN
  /\ c.tool \in Notices /\ ~InFeed(entry)
  /\ AppendEntry(entry) /\ mails' = [mails EXCEPT ![entry] = @ + 1]
  /\ UNCHANGED rows

(* A call with other arguments, or a made-up booking_id, is one of a few.  *)
Slip == slips' = slips + 1 /\ Cardinality(late') + slips' <= MaxLoose

(* A call that changes something; any other only gives the model something *)
(* to read, as does one whose arguments are not JSON or whose tool raises. *)
Dispatch(c, own) ==
  /\ Upsert(c) \/ CancelRow(c) \/ Notify(c)
  /\ IF c \in own THEN UNCHANGED slipVars
     ELSE /\ Slip
          /\ strayed' = strayed \cup (IF c.tool = "bookings_upsert" THEN {c.id} ELSE {})

---------------------------------------------------------------------------
(* run_skill.  A reply asks for any number of tool calls, or is the        *)
(* answer.  max_steps of the tooled skills leaves room for calls and an    *)
(* answer after them, so the step count decides only when a skill ends     *)
(* without an answer, which it may do at any moment.                       *)

ToolCall ==
  /\ Running(Skills)
  /\ UNCHANGED <<act, late>>
  /\ \E c \in Calls(act.role) : Dispatch(c, Own(act.role, act.id))

(* _parse_content of a final reply: free text, JSON or not, is an answer.  *)
(* The booking_id is whatever the model writes, its tool called or not; it *)
(* is made up when it is neither the skill's own nor that of some row.     *)
Content == {"answer"} \cup (IF act.role = "create_booking" THEN Ids ELSE {})
MadeUp(o) == o \in Ids \ {act.id} /\ rows[o].status = "none"

FinalAnswer ==
  /\ Running(Skills)
  /\ UNCHANGED <<storeVars, late, strayed>>
  /\ \E o \in Content :
       /\ Return(o)
       /\ IF MadeUp(o) THEN Slip ELSE UNCHANGED slips

(* The skill is not installed, the post fails, the reply is empty, or the  *)
(* steps are used up: output {} and, but for the empty reply, an error.    *)
NoAnswer ==
  /\ Running(Skills)
  /\ Return("empty")
  /\ UNCHANGED <<storeVars, late, slipVars>>

---------------------------------------------------------------------------
(* notify_booking: notify_send without a model.                            *)

(* Variant: an entry that is already in the feed is mailed again.          *)
FeedAlways ==
  /\ Running(Notices) /\ act.step = 0
  /\ AppendEntry(<<act.id, act.role>>)
  /\ act'  = [act EXCEPT !.step = 1]
  /\ UNCHANGED <<rows, mails, late, slipVars>>

FeedEntry ==
  /\ Running(Notices) /\ act.step = 0
  /\ IF InFeed(<<act.id, act.role>>)
       THEN Return("answer") /\ UNCHANGED feedVars
       ELSE AppendEntry(<<act.id, act.role>>) /\ act' = [act EXCEPT !.step = 1]
  /\ UNCHANGED <<rows, mails, late, slipVars>>

Mail ==
  /\ Running(Notices) /\ act.step = 1
  /\ mails' = [mails EXCEPT ![<<act.id, act.role>>] = @ + 1]
  /\ Return("answer")
  /\ UNCHANGED <<rows, feedVars, late, slipVars>>

---------------------------------------------------------------------------
(* Attempts.                                                               *)

(* An attempt that would still do something if it were given up now.       *)
Outstanding == /\ Calls(act.role) # {}
               /\ act.role \in Notices => act.step = 0 /\ ~InFeed(<<act.id, act.role>>)

(* The attempt raised, its worker died, or it ran out of time, in which    *)
(* case it may go on.                                                      *)
AttemptFails ==
  /\ act.state = "running"
  /\ act' = IF act.try < MaxTries(act.role)
              THEN [act EXCEPT !.try = @ + 1, !.step = 0]
              ELSE [Started(act.role, act.id) EXCEPT !.state = "failed"]
  /\ \/ UNCHANGED late
     \/ /\ Outstanding /\ Cardinality(late) + slips < MaxLoose
        /\ late' = late \cup {<<act.role, act.id>>}
  /\ UNCHANGED <<storeVars, slipVars>>

(* The call of a given-up attempt, a notice's with what it was given.      *)
(* (Bound: it makes one.)                                                  *)
LateCall ==
  \E t \in late : \E c \in IF t[1] \in Notices THEN Own(t[1], t[2]) ELSE Calls(t[1]) :
    /\ late' = late \ {t} /\ UNCHANGED act
    /\ Dispatch(c, Own(t[1], t[2]))

LateEnds ==
  /\ \E t \in late : late' = late \ {t}
  /\ UNCHANGED <<storeVars, act, slipVars>>

ActivityNext ==
  ToolCall \/ FinalAnswer \/ NoAnswer
  \/ FeedEntry \/ Mail \/ AttemptFails \/ LateCall \/ LateEnds

---------------------------------------------------------------------------
(* POST /tenants/{tid}/notifications/read, in the surface's process, whose *)
(* lock is not the worker's.                                               *)

(* mark_read writes the entries it has read to another file and puts that  *)
(* in the place of the feed: what was appended in between is gone.  What   *)
(* it has read is the feed at some earlier moment, a beginning of the feed *)
(* of now.  (Bound: one entry is lost.)                                    *)
RewriteFeed ==
  /\ lost = {} /\ Len(feed) > 1
  /\ feed' = SubSeq(feed, 1, Len(feed) - 1) /\ lost' = {feed[Len(feed)]}
  /\ UNCHANGED <<rows, mails, act, late, slipVars>>

---------------------------------------------------------------------------
(* notify.py: the dedup gate of the feed keeps retries, late attempts and  *)
(* a second saga for the same booking from mailing the merchant twice for  *)
(* one (booking, kind), and nothing is mailed that the feed does not hold. *)
(* The exception: an entry lost to the surface's rewrite of the feed.      *)
MailedOnce ==
  \A e \in Entries \ lost : mails[e] <= 1 /\ (mails[e] = 1 => InFeed(e))

===========================================================================
