-------------------------- MODULE WebChannelProofs --------------------------
(***************************************************************************)
(* The booking example end to end, for any slots, offers, messages, runs   *)
(* of the workflow and number of given-up attempts under way.              *)
(*                                                                         *)
(* The dedup gate of the feed works because an attempt mails only what it  *)
(* has just entered (NoticeSays): until it mails, its entry is in the feed *)
(* and nobody else mails that.  A booking is of an offered slot because an *)
(* offer outlives its turn in pending and a given-up attempt in late, both *)
(* only hold what was offered (CreatesWereOffered), and a call with other  *)
(* arguments leaves its key in strayed (CallWrites).                       *)
(***************************************************************************)
EXTENDS WebChannel, SequenceTheorems, TLAPS

Activity == [role : Skills \cup Notices, id : Ids, try : Nat, step : Nat,
             state : {"running", "done", "failed"}, out : Ids \cup {"empty", "answer"}]

Row == [status : {"none", "confirmed", "cancelled"}, slot : Ids]

BookingTypes ==
  /\ rows \in [Ids -> Row] /\ strayed \subseteq Ids /\ slips \in Nat
  /\ feed \in Seq(Entries) /\ lost \subseteq Entries
  /\ mails \in [Entries -> Nat]
  /\ act \in Activity
  /\ late \subseteq (Skills \cup Notices) \X Ids
  /\ pc \in Skills \cup Notices \cup {"idle"}
  /\ pending \in Seq(Slots)
  /\ wf \in {"none", "running", "completed", "failed"} /\ closed \in BOOLEAN
  /\ inbox \in Seq(Texts) /\ text \in Texts
  /\ result \in [id : Ids, status : {"failed", "confirmed", "compensated"}]
  /\ offered \subseteq Slots /\ sent \in Nat /\ runs \in Nat /\ open \in BOOLEAN

Told(e) == InFeed(e) \/ e \in lost

(* A notice between its feed entry and its mail: the feed holds the entry, *)
(* which nobody has mailed.  One that is done has told the merchant.       *)
NoticeSays ==
  act.role \in Notices =>
    LET e == <<act.id, act.role>> IN
    /\ act.state = "running" /\ act.step # 0 => Told(e) /\ (e \notin lost => mails[e] = 0)
    /\ act.state = "done" => Told(e)

(* The workflow awaits the activity it started.                            *)
Awaited == pc # "idle" => act.role = pc

(* Slots on offer, and every create_booking under way, were offered.       *)
CreatesWereOffered ==
  /\ \A i \in 1 .. Len(pending) : pending[i] \in offered
  /\ act.role = "create_booking" => act.id \in offered
  /\ \A e \in late : e[1] = "create_booking" => e[2] \in offered

ChannelInv ==
  /\ BookingTypes /\ NoticeSays /\ Awaited /\ CreatesWereOffered
  /\ MailedOnce /\ ConfirmedReachedMerchant /\ BookedWasOffered

---------------------------------------------------------------------------
(* The feed with one entry more.                                           *)
LEMMA FeedGrows ==
  ASSUME feed \in Seq(Entries), NEW e \in Entries, AppendEntry(e)
  PROVE  /\ feed' \in Seq(Entries) /\ lost' = lost /\ InFeed(e)'
         /\ \A x : InFeed(x) => InFeed(x)'
         /\ \A x : InFeed(x)' => InFeed(x) \/ x = e
<1>1. /\ feed' \in Seq(Entries) /\ Len(feed') = Len(feed) + 1 /\ Len(feed) \in Nat
      /\ feed'[Len(feed) + 1] = e
      /\ \A i \in 1 .. Len(feed) : feed'[i] = feed[i]
  BY AppendProperties, LenProperties DEF AppendEntry
<1>2. DOMAIN feed = 1 .. Len(feed) /\ DOMAIN feed' = 1 .. Len(feed) + 1
  BY <1>1, LenProperties
<1> QED
  BY <1>1, <1>2 DEF InFeed, AppendEntry

(* The feed without its last entry, which is lost.                         *)
LEMMA FeedShrinks ==
  ASSUME feed \in Seq(Entries), RewriteFeed
  PROVE  /\ feed' \in Seq(Entries) /\ lost' \subseteq Entries /\ lost = {}
         /\ \A x : InFeed(x) => InFeed(x)' \/ x \in lost'
         /\ \A x : InFeed(x)' => InFeed(x)
<1>1. /\ Len(feed) \in Nat /\ Len(feed) > 1 /\ DOMAIN feed = 1 .. Len(feed)
      /\ feed' = SubSeq(feed, 1, Len(feed) - 1) /\ lost' = {feed[Len(feed)]} /\ lost = {}
  BY LenProperties DEF RewriteFeed
<1>2. /\ feed' \in Seq(Entries) /\ Len(feed') = Len(feed) - 1
      /\ \A i \in 1 .. Len(feed) - 1 : feed'[i] = feed[i]
  <2>1. 1 \in 1 .. Len(feed) + 1 /\ Len(feed) - 1 \in 0 .. Len(feed)
    BY <1>1
  <2>2. /\ SubSeq(feed, 1, Len(feed) - 1) \in Seq(Entries)
        /\ Len(SubSeq(feed, 1, Len(feed) - 1)) =
             IF 1 <= Len(feed) - 1 THEN (Len(feed) - 1) - 1 + 1 ELSE 0
        /\ \A i \in 1 .. (Len(feed) - 1) - 1 + 1 :
             SubSeq(feed, 1, Len(feed) - 1)[i] = feed[1 + i - 1]
    BY <2>1, SubSeqProperties
  <2>3. \A i \in 1 .. Len(feed) - 1 : SubSeq(feed, 1, Len(feed) - 1)[i] = feed[i]
    BY <1>1, <2>2
  <2> QED
    BY <1>1, <2>2, <2>3
<1>3. DOMAIN feed' = 1 .. Len(feed) - 1
  BY <1>1, <1>2, LenProperties
<1>4. feed[Len(feed)] \in Entries
  BY <1>1, ElementOfSeq
<1>5. ASSUME NEW x, InFeed(x)
      PROVE  InFeed(x)' \/ x \in lost'
  <2>1. PICK i \in 1 .. Len(feed) : feed[i] = x
    BY <1>1, <1>5 DEF InFeed
  <2>2. CASE i = Len(feed)
    BY <1>1, <2>1, <2>2
  <2>3. CASE i # Len(feed)
    <3>1. i \in 1 .. Len(feed) - 1
      <4>1. Len(feed) \in Nat
        BY <1>1
      <4> QED
        BY <2>3, <4>1
    <3>2. i \in DOMAIN feed' /\ feed'[i] = x
      BY <1>2, <1>3, <2>1, <3>1
    <3> QED
      BY <3>2 DEF InFeed
  <2> QED
    BY <2>2, <2>3
<1>6. ASSUME NEW x, InFeed(x)'
      PROVE  InFeed(x)
  BY <1>1, <1>2, <1>3, <1>6 DEF InFeed
<1> QED
  BY <1>1, <1>2, <1>4, <1>5, <1>6

(* The offered slots are all that rows are of, but for the keys of calls   *)
(* with other arguments.                                                   *)
RowsGrow ==
  /\ rows' \in [Ids -> Row] /\ strayed' \subseteq Ids /\ slips' \in Nat
  /\ strayed \subseteq strayed'
  /\ \A k \in Ids \ strayed' : rows'[k].status # "none" =>
       \/ rows[k].status # "none" /\ rows'[k].slot = rows[k].slot
       \/ rows'[k].slot = k /\ k \in offered

(* What a call writes: rows, or the notice of its role.                    *)
LEMMA CallWrites ==
  ASSUME rows \in [Ids -> Row], strayed \subseteq Ids, slips \in Nat,
         NEW role \in Skills \cup Notices, NEW id \in Ids,
         role = "create_booking" => id \in offered,
         NEW c \in Calls(role), Dispatch(c, Own(role, id))
  PROVE  /\ RowsGrow
         /\ \/ role \in Skills /\ UNCHANGED <<feed, lost, mails>>
            \/ role \in Notices /\ c.tool = role /\ Notify(c)
<1>s. /\ "create_booking" \in Skills /\ "cancel_booking" \in Skills
      /\ Skills \cap Notices = {} /\ "bookings_upsert" \notin Notices
      /\ "bookings_cancel" \notin Notices
  BY DEF Skills, Notices
<1>1. /\ c.id \in Ids /\ c.slot \in Ids
      /\ \/ role = "create_booking" /\ c.tool = "bookings_upsert"
         \/ role = "cancel_booking" /\ c.tool = "bookings_cancel"
         \/ role \in Notices /\ c.tool = role
  <2>1. CASE role = "create_booking"
    BY <1>s, <2>1 DEF Calls, Call
  <2>2. CASE role = "cancel_booking"
    BY <1>s, <2>2 DEF Calls, Call
  <2>3. CASE role \in Notices
    <3>1. role # "create_booking" /\ role # "cancel_booking"
      BY <1>s, <2>3
    <3>2. Calls(role) = {Call(role, k, k) : k \in Ids}
      BY <2>3, <3>1 DEF Calls
    <3> QED
      BY <2>3, <3>2 DEF Call
  <2> QED
    BY <2>1, <2>2, <2>3 DEF Calls
<1>2. /\ strayed' \subseteq Ids /\ slips' \in Nat /\ strayed \subseteq strayed'
      /\ c \in Own(role, id) \/ (c.tool = "bookings_upsert" => c.id \in strayed')
  BY <1>1 DEF Dispatch, Slip, slipVars
<1>3. CASE Upsert(c)
  <2>1. /\ role = "create_booking" /\ c.tool = "bookings_upsert"
        /\ rows' = [rows EXCEPT ![c.id] = [status |-> "confirmed", slot |-> c.slot]]
        /\ UNCHANGED <<feed, lost, mails>>
    BY <1>1, <1>3, <1>s DEF Upsert, feedVars
  <2>2. rows' \in [Ids -> Row]
    BY <1>1, <2>1 DEF Row
  <2>3. ASSUME NEW k \in Ids \ strayed', rows'[k].status # "none"
        PROVE  \/ rows[k].status # "none" /\ rows'[k].slot = rows[k].slot
               \/ rows'[k].slot = k /\ k \in offered
    <3>1. CASE k # c.id
      BY <2>1, <2>3, <3>1
    <3>2. CASE k = c.id
      <4>1. c \in Own(role, id)
        BY <1>2, <2>1, <2>3, <3>2
      <4>2. c.id = id /\ c.slot = id
        BY <4>1 DEF Own
      <4>3. rows'[k].slot = c.slot
        BY <1>1, <2>1, <3>2
      <4> QED
        BY <2>1, <3>2, <4>2, <4>3
    <3> QED
      BY <3>1, <3>2
  <2> QED
    BY <1>2, <1>s, <2>1, <2>2, <2>3 DEF RowsGrow
<1>4. CASE CancelRow(c)
  <2>1. /\ role = "cancel_booking"
        /\ rows' = [rows EXCEPT ![c.id].status = "cancelled"]
        /\ rows[c.id].status = "confirmed"
        /\ UNCHANGED <<feed, lost, mails>>
    BY <1>1, <1>4, <1>s DEF CancelRow, feedVars
  <2>2. /\ rows' \in [Ids -> Row]
        /\ \A k \in Ids : /\ rows'[k].slot = rows[k].slot
                          /\ rows'[k].status # "none" => rows[k].status # "none"
    BY <1>1, <2>1 DEF Row
  <2> QED
    BY <1>2, <1>s, <2>1, <2>2 DEF RowsGrow
<1>5. CASE Notify(c)
  <2>1. c.tool \in Notices /\ rows' = rows
    BY <1>5 DEF Notify
  <2>2. role \in Notices /\ c.tool = role
    BY <1>1, <1>s, <2>1
  <2> QED
    BY <1>2, <1>5, <2>1, <2>2 DEF RowsGrow
<1> QED
  BY <1>3, <1>4, <1>5 DEF Dispatch

(* The activity of a role, as it starts, returns and fails.                *)
LEMMA ActivityStarts ==
  ASSUME NEW r \in Skills \cup Notices, NEW i \in Ids
  PROVE  /\ Started(r, i) \in Activity
         /\ Started(r, i).role = r /\ Started(r, i).id = i
         /\ Started(r, i).state = "running" /\ Started(r, i).step = 0
<1>1. Started(r, i) \in Activity
  BY DEF Started, Activity
<1> QED
  BY <1>1 DEF Started

(* An activity that returns. *)
LEMMA ActivityReturns ==
  ASSUME act \in Activity, NEW o \in Ids \cup {"empty", "answer"}, Return(o)
  PROVE  act' \in Activity /\ act'.role = act.role /\ act'.id = act.id /\ act'.state = "done"
<1>1. act.role \in Skills \cup Notices /\ act.id \in Ids
  BY DEF Activity
<1>a. ASSUME NEW r \in Skills \cup Notices, NEW i \in Ids, NEW q \in {"done", "failed"},
             NEW p \in Ids \cup {"empty", "answer"}
      PROVE  [role |-> r, id |-> i, try |-> 1, step |-> 0,
              state |-> q, out |-> p] \in Activity
  BY DEF Activity
<1>2. act' = [role |-> act.role, id |-> act.id, try |-> 1, step |-> 0,
              state |-> "done", out |-> o]
  BY DEF Return, Started
<1>3. act' \in Activity
  BY <1>1, <1>2, <1>a
<1> QED
  BY <1>2, <1>3

(* An activity whose attempts are used up. *)
LEMMA ActivityFails ==
  ASSUME act \in Activity, act' = [Started(act.role, act.id) EXCEPT !.state = "failed"]
  PROVE  act' \in Activity /\ act'.role = act.role /\ act'.id = act.id /\ act'.state = "failed"
<1>1. act.role \in Skills \cup Notices /\ act.id \in Ids
  BY DEF Activity
<1>a. ASSUME NEW r \in Skills \cup Notices, NEW i \in Ids, NEW q \in {"done", "failed"},
             NEW p \in Ids \cup {"empty", "answer"}
      PROVE  [role |-> r, id |-> i, try |-> 1, step |-> 0,
              state |-> q, out |-> p] \in Activity
  BY DEF Activity
<1>2. act' = [role |-> act.role, id |-> act.id, try |-> 1, step |-> 0,
              state |-> "failed", out |-> "empty"]
  BY DEF Started
<1>3. act' \in Activity
  BY <1>1, <1>2, <1>a
<1> QED
  BY <1>2, <1>3

(* The activity between two conversations, and in the midst of one.        *)
LEMMA NoActivityIs == NoActivity \in Activity /\ NoActivity.role = "classify_intent"
<1>1. Started("classify_intent", Invented) \in Activity
      /\ Started("classify_intent", Invented).role = "classify_intent"
  BY ActivityStarts DEF Ids, Skills
<1>2. [Started("classify_intent", Invented) EXCEPT !.state = "done"] \in Activity
  BY <1>1 DEF Activity
<1>3. [Started("classify_intent", Invented) EXCEPT !.state = "done"].role = "classify_intent"
  BY <1>1 DEF Activity
<1> QED
  BY <1>2, <1>3 DEF NoActivity

(* An activity in its next step, or in its next attempt from the first one. *)
LEMMA ActivityGoesOn ==
  ASSUME act \in Activity, NEW a, NEW n \in Nat,
         \/ a = [act EXCEPT !.step = n]
         \/ a = [act EXCEPT !.try = n, !.step = 0]
  PROVE  /\ a \in Activity /\ a.role = act.role /\ a.id = act.id /\ a.state = act.state
         /\ a.step \in {0, n}
<1>1. CASE a = [act EXCEPT !.step = n]
  <2>1. [act EXCEPT !.step = n] \in Activity
    BY DEF Activity
  <2>2. /\ [act EXCEPT !.step = n].role = act.role /\ [act EXCEPT !.step = n].id = act.id
        /\ [act EXCEPT !.step = n].state = act.state /\ [act EXCEPT !.step = n].step = n
    BY DEF Activity
  <2> QED
    BY <1>1, <2>1, <2>2
<1>2. CASE a = [act EXCEPT !.try = n, !.step = 0]
  <2> DEFINE b == [act EXCEPT !.try = n, !.step = 0]
  <2>1. b \in Activity
    BY DEF Activity
  <2>2. b.role = act.role /\ b.id = act.id /\ b.state = act.state /\ b.step = 0
    BY DEF Activity
  <2> QED
    BY <1>2, <2>1, <2>2
<1> QED
  BY <1>1, <1>2

---------------------------------------------------------------------------
(* The worker.                                                             *)
StoreTypes ==
  /\ rows \in [Ids -> Row] /\ strayed \subseteq Ids /\ slips \in Nat
  /\ feed \in Seq(Entries) /\ lost \subseteq Entries /\ mails \in [Entries -> Nat]
  /\ act \in Activity /\ late \subseteq (Skills \cup Notices) \X Ids

(* A step of the worker: the activity stays the one that is awaited, what  *)
(* the merchant was told stays told, and a new row is of an offered slot.  *)
Works ==
  /\ StoreTypes' /\ act'.role = act.role /\ act'.id = act.id /\ lost' = lost
  /\ \A x : InFeed(x) => InFeed(x)'
  /\ MailedOnce' /\ NoticeSays'
  /\ RowsGrow
  /\ \A e \in late' : e \in late \/ (e[1] = act.role /\ e[2] = act.id)

(* Every step of the worker, and of attempts that were given up, is one that `Works' allows. *)
LEMMA WorkerSteps ==
  ASSUME StoreTypes, NoticeSays, MailedOnce, CreatesWereOffered, ActivityNext
  PROVE  Works
<1>0. /\ act.role \in Skills \cup Notices /\ act.id \in Ids /\ act.step \in Nat /\ act.try \in Nat
      /\ act.role \in Notices => <<act.id, act.role>> \in Entries
  BY DEF StoreTypes, Activity, Entries
<1>s. Skills \cap Notices = {}
  BY DEF Skills, Notices
<1>r. ASSUME UNCHANGED <<rows, slipVars>>
      PROVE  RowsGrow
  BY <1>r DEF RowsGrow, StoreTypes, slipVars
<1>1. ASSUME UNCHANGED <<feedVars, mails>>, RowsGrow, act' \in Activity, act'.role = act.role,
             act'.id = act.id, late' \subseteq (Skills \cup Notices) \X Ids,
             \A e \in late' : e \in late \/ (e[1] = act.role /\ e[2] = act.id),
             act.role \notin Notices \/ act'.state = "failed"
               \/ (act'.state = "running" /\ act'.step = 0)
      PROVE  Works
  BY <1>1 DEF Works, StoreTypes, NoticeSays, MailedOnce, InFeed, Told, feedVars, RowsGrow
<1>2. CASE ToolCall
  <2>1. PICK c \in Calls(act.role) : Dispatch(c, Own(act.role, act.id))
    BY <1>2 DEF ToolCall
  <2>2. act.role \in Skills /\ act' = act /\ late' = late
    BY <1>2 DEF ToolCall, Running
  <2>3. RowsGrow /\ UNCHANGED <<feed, lost, mails>>
    <3>1. act.role = "create_booking" => act.id \in offered
      BY DEF CreatesWereOffered
    <3> QED
      BY <1>0, <1>s, <2>1, <2>2, <3>1, CallWrites DEF StoreTypes
  <2> QED
    BY <1>1, <1>s, <2>2, <2>3 DEF StoreTypes, feedVars
<1>4. CASE FinalAnswer \/ NoAnswer
  <2>1. /\ act.role \in Skills /\ UNCHANGED <<rows, feedVars, mails, late, strayed>>
        /\ slips' \in Nat /\ \E o \in Ids \cup {"empty", "answer"} : Return(o)
    <3>1. CASE FinalAnswer
      <4>1. PICK o \in Content : Return(o) /\ IF MadeUp(o) THEN Slip ELSE UNCHANGED slips
        BY <3>1 DEF FinalAnswer
      <4>2. slips' \in Nat /\ o \in Ids \cup {"empty", "answer"}
        BY <4>1 DEF Slip, StoreTypes, Content
      <4> QED
        BY <3>1, <4>1, <4>2 DEF FinalAnswer, Running, storeVars
    <3>2. CASE NoAnswer
      BY <3>2 DEF NoAnswer, Running, storeVars, slipVars, StoreTypes
    <3> QED
      BY <1>4, <3>1, <3>2
  <2>2. act' \in Activity /\ act'.role = act.role /\ act'.id = act.id
    BY <2>1, ActivityReturns DEF StoreTypes
  <2>3. RowsGrow
    BY <2>1 DEF RowsGrow, StoreTypes
  <2> QED
    BY <1>1, <1>s, <2>1, <2>2, <2>3 DEF StoreTypes
<1>5. CASE FeedEntry
  <2> DEFINE e == <<act.id, act.role>>
  <2>1. /\ act.role \in Notices /\ act.state = "running" /\ act.step = 0 /\ e \in Entries
        /\ UNCHANGED <<mails, late>> /\ RowsGrow
    BY <1>0, <1>5, <1>r DEF FeedEntry, Running
  <2>2. CASE InFeed(e)
    <3>1. Return("answer") /\ UNCHANGED <<feed, lost>>
      BY <1>5, <2>2 DEF FeedEntry, feedVars
    <3>2. act' \in Activity /\ act'.role = act.role /\ act'.id = act.id /\ act'.state = "done"
      BY <3>1, ActivityReturns DEF StoreTypes
    <3> QED
      BY <2>1, <2>2, <3>1, <3>2 DEF Works, StoreTypes, NoticeSays, MailedOnce, InFeed, Told, RowsGrow
  <2>3. CASE ~InFeed(e)
    <3>1. AppendEntry(e) /\ act' = [act EXCEPT !.step = 1]
      BY <1>5, <2>3 DEF FeedEntry
    <3>2. /\ act' \in Activity /\ act'.role = act.role /\ act'.id = act.id
          /\ act'.state = "running"
      BY <2>1, <3>1 DEF StoreTypes, Activity
    <3>3. /\ feed' \in Seq(Entries) /\ lost' = lost /\ InFeed(e)'
          /\ \A x : InFeed(x) => InFeed(x)'
          /\ \A x : InFeed(x)' => InFeed(x) \/ x = e
      BY <2>1, <3>1, FeedGrows DEF StoreTypes
    <3>4. MailedOnce'
      BY <2>1, <3>3 DEF MailedOnce
    <3>5. NoticeSays'
      <4>1. Told(e)' /\ <<act'.id, act'.role>> = e
        BY <3>2, <3>3 DEF Told
      <4>2. e \notin lost => mails[e] = 0
        BY <2>1, <2>3 DEF MailedOnce, StoreTypes
      <4> QED
        BY <2>1, <3>2, <3>3, <4>1, <4>2 DEF NoticeSays
    <3> QED
      BY <2>1, <3>2, <3>3, <3>4, <3>5 DEF Works, StoreTypes, RowsGrow
  <2> QED
    BY <2>2, <2>3
<1>6. CASE Mail
  <2> DEFINE e == <<act.id, act.role>>
  <2>1. /\ act.role \in Notices /\ act.state = "running" /\ act.step = 1 /\ e \in Entries
        /\ mails' = [mails EXCEPT ![e] = mails[e] + 1] /\ Return("answer")
        /\ UNCHANGED <<feed, lost, late>> /\ RowsGrow
    BY <1>0, <1>6, <1>r DEF Mail, Running, feedVars
  <2>2. act' \in Activity /\ act'.role = act.role /\ act'.id = act.id /\ act'.state = "done"
    BY <2>1, ActivityReturns DEF StoreTypes
  <2>3. Told(e) /\ (e \notin lost => mails[e] = 0)
    BY <2>1 DEF NoticeSays
  <2>4. mails' \in [Entries -> Nat] /\ mails'[e] = mails[e] + 1
        /\ \A x \in Entries : x # e => mails'[x] = mails[x]
    <3>1. mails \in [Entries -> Nat]
      BY DEF StoreTypes
    <3>2. e \in Entries /\ mails' = [mails EXCEPT ![e] = mails[e] + 1]
      BY <2>1
    <3> HIDE DEF e
    <3> QED
      BY <3>1, <3>2
  <2>5. MailedOnce'
    BY <2>1, <2>3, <2>4 DEF MailedOnce, Told, InFeed
  <2>6. NoticeSays'
    BY <2>1, <2>2, <2>3 DEF NoticeSays, Told, InFeed
  <2> QED
    BY <2>1, <2>2, <2>4, <2>5, <2>6 DEF Works, StoreTypes, InFeed, RowsGrow
<1>7. CASE AttemptFails
  <2>1. /\ UNCHANGED <<feedVars, mails>> /\ RowsGrow /\ act.state = "running"
        /\ late' = late \/ (Outstanding /\ late' = late \cup {<<act.role, act.id>>})
        /\ \/ act' = [act EXCEPT !.try = act.try + 1, !.step = 0]
           \/ act' = [Started(act.role, act.id) EXCEPT !.state = "failed"]
    BY <1>7, <1>r DEF AttemptFails, storeVars
  <2>5. /\ late' \subseteq (Skills \cup Notices) \X Ids
        /\ \A e \in late' : e \in late \/ (e[1] = act.role /\ e[2] = act.id)
    BY <1>0, <2>1 DEF StoreTypes
  <2>2. CASE act' = [act EXCEPT !.try = act.try + 1, !.step = 0]
    <3>1. act.try + 1 \in Nat /\ act \in Activity
      BY <1>0 DEF StoreTypes
    <3>2. /\ act' \in Activity /\ act'.role = act.role /\ act'.id = act.id
          /\ act'.state = act.state
      BY <2>2, <3>1, ActivityGoesOn
    <3>3. act'.step = 0
      BY <2>2, <3>1 DEF Activity
    <3> QED
      BY <2>1, <2>5, <3>2, <3>3, <1>1
  <2>3. CASE act' = [Started(act.role, act.id) EXCEPT !.state = "failed"]
    <3>1. act' \in Activity /\ act'.role = act.role /\ act'.id = act.id /\ act'.state = "failed"
      BY <2>3, ActivityFails DEF StoreTypes
    <3> QED
      BY <1>1, <2>1, <2>5, <3>1
  <2> QED
    BY <2>1, <2>2, <2>3
<1>8. CASE LateCall
  <2>1. PICK t \in late :
          \E c \in IF t[1] \in Notices THEN Own(t[1], t[2]) ELSE Calls(t[1]) :
            /\ late' = late \ {t} /\ UNCHANGED act
            /\ Dispatch(c, Own(t[1], t[2]))
    BY <1>8 DEF LateCall
  <2>2. PICK c \in IF t[1] \in Notices THEN Own(t[1], t[2]) ELSE Calls(t[1]) :
            /\ late' = late \ {t} /\ UNCHANGED act
            /\ Dispatch(c, Own(t[1], t[2]))
    BY <2>1
  <2>3. /\ t[1] \in Skills \cup Notices /\ t[2] \in Ids /\ c \in Calls(t[1])
        /\ t[1] \in Notices => c.id = t[2]
        /\ t[1] = "create_booking" => t[2] \in offered
    BY <2>2 DEF StoreTypes, Own, CreatesWereOffered
  <2>4. /\ RowsGrow
        /\ \/ t[1] \in Skills /\ UNCHANGED <<feed, lost, mails>>
           \/ t[1] \in Notices /\ c.tool = t[1] /\ Notify(c)
    BY <2>2, <2>3, CallWrites DEF StoreTypes
  <2>6. CASE UNCHANGED <<feed, lost, mails>>
    BY <2>2, <2>4, <2>6
       DEF Works, StoreTypes, NoticeSays, MailedOnce, InFeed, Told, RowsGrow
  <2>5. CASE t[1] \in Notices /\ c.tool = t[1] /\ Notify(c)
    <3> DEFINE e == <<t[2], t[1]>>
    <3>1. /\ e \in Entries /\ AppendEntry(e) /\ ~InFeed(e)
          /\ mails' = [mails EXCEPT ![e] = mails[e] + 1]
      BY <2>3, <2>5 DEF Entries, Notify
    <3>2. /\ feed' \in Seq(Entries) /\ lost' = lost /\ InFeed(e)'
          /\ \A x : InFeed(x) => InFeed(x)'
          /\ \A x : InFeed(x)' => InFeed(x) \/ x = e
      BY <3>1, FeedGrows DEF StoreTypes
    <3>3. /\ mails' \in [Entries -> Nat] /\ mails'[e] = mails[e] + 1
          /\ \A x \in Entries : x # e => mails'[x] = mails[x]
          /\ e \notin lost => mails[e] = 0
      <4>1. mails \in [Entries -> Nat]
        BY DEF StoreTypes
      <4>2. e \notin lost => mails[e] <= 1 /\ mails[e] # 1
        BY <3>1 DEF MailedOnce
      <4> HIDE DEF e
      <4> QED
        BY <3>1, <4>1, <4>2
    <3>4. MailedOnce'
      BY <3>1, <3>2, <3>3 DEF MailedOnce
    <3>5. NoticeSays'
      <4>1. SUFFICES ASSUME act.role \in Notices
                     PROVE  LET d == <<act.id, act.role>> IN
                            /\ act.state = "running" /\ act.step # 0 =>
                                 Told(d)' /\ (d \notin lost => mails'[d] = 0)
                            /\ act.state = "done" => Told(d)'
        BY <2>2, <3>2 DEF NoticeSays, Told, InFeed
      <4> DEFINE d == <<act.id, act.role>>
      <4>2. d \in Entries /\ (Told(d) => Told(d)')
        <5>1. d \in Entries
          BY <1>0, <4>1
        <5> QED
          BY <2>2, <3>2, <5>1 DEF Told
      <4>3. d = e => d \in lost \/ ~Told(d)
        BY <3>1 DEF Told
      <4> QED
        BY <3>2, <3>3, <4>1, <4>2, <4>3 DEF NoticeSays, Told
    <3> QED
      BY <2>2, <2>4, <3>2, <3>3, <3>4, <3>5 DEF Works, StoreTypes, RowsGrow
  <2> QED
    BY <2>4, <2>5, <2>6
<1>9. CASE LateEnds
  <2>1. /\ act' = act /\ late' \subseteq late /\ RowsGrow
        /\ UNCHANGED <<feed, lost, mails>>
    BY <1>9, <1>r DEF LateEnds, storeVars, feedVars, slipVars
  <2> QED
    BY <2>1 DEF Works, StoreTypes, NoticeSays, MailedOnce, InFeed, Told, RowsGrow
<1> QED
  BY <1>2, <1>4, <1>5, <1>6, <1>7, <1>8, <1>9 DEF ActivityNext

---------------------------------------------------------------------------
(* The workflow and the tab.                                               *)
FlowTypes ==
  /\ pc \in Skills \cup Notices \cup {"idle"} /\ pending \in Seq(Slots)
  /\ wf \in {"none", "running", "completed", "failed"} /\ closed \in BOOLEAN
  /\ inbox \in Seq(Texts) /\ text \in Texts
  /\ result \in [id : Ids, status : {"failed", "confirmed", "compensated"}]
  /\ offered \subseteq Slots /\ sent \in Nat /\ runs \in Nat

(* The workflow starts an activity and awaits it, or none.                 *)
Starts ==
  \/ \E r \in Skills \cup Notices, i \in Ids :
       act' = Started(r, i) /\ pc' = r /\ (r = "create_booking" => i \in offered)
  \/ act' = NoActivity /\ pc' = "idle"
  \/ act' = act /\ pc' \in {pc, "idle"}

(* What it reports confirmed, the activity it awaited has told.            *)
Reports ==
  \/ result' = result \/ result'.status # "confirmed"
  \/ act.role = "booking_confirmed" /\ act.state = "done" /\ result'.id = act.id

(* A step of the workflow, or of the tab, leaves the stores alone.         *)
Flows ==
  /\ UNCHANGED <<rows, feed, lost, mails, late, strayed, slips>> /\ FlowTypes'
  /\ offered \subseteq offered' /\ \A i \in 1 .. Len(pending') : pending'[i] \in offered'
  /\ Starts /\ Reports

(* The slot picked is one of the open offer.                               *)
LEMMA PickedIsPending ==
  ASSUME pending \in Seq(Slots), pending # <<>>,
         \A i \in 1 .. Len(pending) : pending[i] \in offered, NEW m
  PROVE  PickSlot(m, pending) \in offered
<1>1. 1 \in 1 .. Len(pending)
  BY EmptySeq, LenProperties
<1> QED
  BY <1>1 DEF PickSlot

(* The messages that are left when one is taken.                           *)
LEMMA TakesOne ==
  ASSUME inbox \in Seq(Texts), inbox # <<>>
  PROVE  Head(inbox) \in Texts /\ Tail(inbox) \in Seq(Texts)
BY HeadTailProperties

(* Every step of the workflow and its signals is one that `Flows' allows. *)
LEMMA FlowSteps ==
  ASSUME StoreTypes, FlowTypes, Awaited, CreatesWereOffered,
         \/ StartRun \/ (\E m \in Texts : UserMessage(m)) \/ Close \/ TurnNext
         \/ UNCHANGED convVars
  PROVE  Flows
<1>0. /\ act \in Activity /\ act.role \in Skills \cup Notices /\ act.id \in Ids
      /\ \A i \in 1 .. Len(pending) : pending[i] \in offered
      /\ offered \subseteq Ids /\ Invented \in Ids /\ Plain \in Texts
      /\ pending \in Seq(Slots) /\ offered \subseteq Slots
      /\ pc \in Skills \cup Notices \cup {"idle"} /\ Len(<<>>) = 0 /\ <<>> \in Seq(Slots)
      /\ <<>> \in Seq(Texts)
  BY TextAssumption DEF StoreTypes, FlowTypes, Activity, CreatesWereOffered, Ids
<1>r. /\ {"classify_intent", "resolve_business", "check_availability", "enquiry-generic",
          "synthesize_response", "create_booking", "cancel_booking"} \subseteq Skills
      /\ {"booking_confirmed", "booking_compensated"} \subseteq Notices
  BY DEF Skills, Notices
(* The steps of a turn that lead to an activity, the offer as it was.      *)
<1>a. ASSUME NEW r \in Skills \cup Notices, NEW i \in Ids, r = "create_booking" => i \in offered,
             Await(r, i),
             UNCHANGED <<wf, closed, sent, runs, offered, rows, feed, lost, mails, late, strayed, slips>>,
             inbox' \in Seq(Texts), text' \in Texts,
             result' \in [id : Ids, status : {"failed", "confirmed", "compensated"}],
             Reports, pending' = pending \/ pending' = <<>>
      PROVE  Flows
  <2>1. Starts
    BY <1>a DEF Starts, Await
  <2>2. FlowTypes'
    BY <1>0, <1>a DEF FlowTypes, Await
  <2>3. offered \subseteq offered' /\ \A j \in 1 .. Len(pending') : pending'[j] \in offered'
    BY <1>0, <1>a
  <2> QED
    BY <1>a, <2>1, <2>2, <2>3 DEF Flows
<1>1. CASE StartRun
  <2>1. FlowTypes'
    <3>1. /\ wf' = "running" /\ closed' = FALSE /\ inbox' = <<>> /\ pending' = <<>>
          /\ pc' = "idle" /\ text' = Plain /\ runs' = runs + 1
          /\ UNCHANGED <<result, offered, sent>>
      BY <1>1 DEF StartRun
    <3>2. result' \in [id : Ids, status : {"failed", "confirmed", "compensated"}]
      BY <3>1 DEF FlowTypes
    <3>3. runs' \in Nat /\ sent' \in Nat
      BY <3>1 DEF FlowTypes
    <3> QED
      BY <1>0, <3>1, <3>2, <3>3 DEF FlowTypes
  <2>2. Starts /\ Reports /\ UNCHANGED <<rows, feed, lost, mails, late, strayed, slips>>
    BY <1>1 DEF StartRun, Starts, Reports, actVars, storeVars, feedVars, slipVars
  <2>3. pending' = <<>> /\ offered' = offered
    BY <1>1 DEF StartRun
  <2> QED
    BY <1>0, <2>1, <2>2, <2>3 DEF Flows
<1>2. ASSUME NEW m \in Texts, UserMessage(m)
      PROVE  Flows
  <2>1. inbox' \in Seq(Texts) /\ sent' \in Nat
    BY <1>2, AppendProperties DEF UserMessage, FlowTypes
  <2> QED
    BY <1>0, <1>2, <2>1
       DEF UserMessage, Flows, FlowTypes, Starts, Reports, actVars, storeVars, feedVars, slipVars
<1>3. CASE Close
  BY <1>0, <1>3 DEF Close, Flows, FlowTypes, Starts, Reports, actVars, storeVars, feedVars, slipVars
<1>4. CASE UNCHANGED convVars
  BY <1>0, <1>4
     DEF convVars, flowVars, Flows, FlowTypes, Starts, Reports, actVars, storeVars, feedVars, slipVars
<1>5. CASE TakeMessage
  <2>1. Head(inbox) \in Texts /\ Tail(inbox) \in Seq(Texts)
    BY <1>5, TakesOne DEF TakeMessage, FlowTypes
  <2> QED
    BY <1>0, <1>r, <1>5, <1>a, <2>1 DEF TakeMessage, FlowTypes, Reports, storeVars, feedVars, slipVars
<1>6. CASE AfterClassify
  <2>1. /\ UNCHANGED <<wf, closed, inbox, sent, runs, rows, feed, lost, mails, late, strayed, slips, result,
                        offered>>
        /\ text' = Plain /\ (pending' = pending \/ pending' = <<>>)
        /\ \/ \E r \in {"resolve_business", "enquiry-generic", "synthesize_response"} :
                Await(r, Invented)
           \/ pending # <<>> /\ Await("create_booking", PickSlot(text, pending))
    BY <1>6 DEF AfterClassify, Continue, Synthesize, Rest, storeVars, feedVars, slipVars
  <2>2. pending # <<>> => PickSlot(text, pending) \in offered
    BY <1>0, PickedIsPending
  <2> QED
    <3>1. /\ inbox' \in Seq(Texts) /\ text' \in Texts /\ Reports
          /\ result' \in [id : Ids, status : {"failed", "confirmed", "compensated"}]
      <4>1. result' = result /\ inbox' = inbox /\ text' = Plain
        BY <2>1
      <4>2. Reports
        BY <4>1 DEF Reports
      <4> QED
        BY <1>0, <4>1, <4>2 DEF FlowTypes
    <3>2. ASSUME NEW r \in {"resolve_business", "enquiry-generic", "synthesize_response"},
                 Await(r, Invented)
          PROVE  Flows
      BY <1>0, <1>r, <1>a, <2>1, <3>1, <3>2
    <3>3. CASE pending # <<>> /\ Await("create_booking", PickSlot(text, pending))
      BY <1>0, <1>r, <1>a, <2>1, <2>2, <3>1, <3>3
    <3> QED
      BY <2>1, <3>2, <3>3
<1>7. CASE AfterResolve
  <2>1. /\ UNCHANGED <<wf, closed, inbox, sent, runs, rows, feed, lost, mails, late, strayed, slips, result,
                        offered, pending>>
        /\ text' = Plain
        /\ \E r \in {"check_availability", "synthesize_response"} : Await(r, Invented)
    BY <1>7 DEF AfterResolve, Continue, Synthesize, Rest, storeVars, feedVars, slipVars
  <2> QED
    BY <1>0, <1>r, <1>a, <2>1 DEF FlowTypes, Reports
<1>8. CASE AfterAvailability
  <2>1. /\ UNCHANGED <<wf, closed, inbox, sent, runs, rows, feed, lost, mails, late, strayed, slips, result>>
        /\ text' = Plain /\ Await("synthesize_response", Invented)
    BY <1>8 DEF AfterAvailability, Continue, Synthesize, Rest, storeVars, feedVars, slipVars
  <2>2. CASE UNCHANGED <<pending, offered>>
    BY <1>0, <1>r, <1>a, <2>1, <2>2 DEF FlowTypes, Reports
  <2>3. ASSUME NEW o \in Offers \ {<<>>}, pending' = o,
               offered' = offered \cup {o[i] : i \in 1 .. Len(o)}
        PROVE  Flows
    <3>1. o \in Seq(Slots) /\ \A i \in 1 .. Len(o) : o[i] \in Slots
      BY TextAssumption, ElementOfSeq
    <3>2. /\ pending' \in Seq(Slots) /\ offered' \subseteq Slots /\ offered \subseteq offered'
          /\ \A i \in 1 .. Len(pending') : pending'[i] \in offered'
      BY <1>0, <2>3, <3>1
    <3> QED
      BY <1>0, <1>r, <2>1, <3>2 DEF Flows, FlowTypes, Starts, Reports, Await
  <2> QED
    BY <1>8, <2>2, <2>3 DEF AfterAvailability
<1>9. ASSUME Say
      PROVE  Flows
  BY <1>0, <1>9 DEF Say, Rest, Flows, FlowTypes, Starts, Reports, storeVars, feedVars, slipVars
<1>10. CASE AfterEnquiry
  <2>1. CASE Say
    BY <1>9, <2>1
  <2>2. CASE Synthesize /\ UNCHANGED <<Rest, pending, result, offered>>
    BY <1>0, <1>r, <1>a, <2>2
       DEF Synthesize, Continue, Rest, FlowTypes, Reports, storeVars, feedVars, slipVars
  <2> QED
    BY <1>10, <2>1, <2>2 DEF AfterEnquiry
<1>11. CASE AfterSynthesis
  BY <1>9, <1>11 DEF AfterSynthesis
(* The saga goes on, or reports.                                           *)
<1>b. ASSUME NEW r \in {"booking_confirmed", "cancel_booking", "booking_compensated"}, NEW i \in Ids,
             SagaGoesOn(r, i)
      PROVE  Flows
  BY <1>0, <1>r, <1>a, <1>b DEF SagaGoesOn, Rest, FlowTypes, Reports, storeVars, feedVars, slipVars
<1>c. ASSUME NEW i \in Ids, NEW s \in {"failed", "confirmed", "compensated"}, SagaResult(i, s),
             s = "confirmed" => act.role = "booking_confirmed" /\ act.state = "done" /\ i = act.id
      PROVE  Flows
  <2>1. /\ UNCHANGED <<wf, closed, inbox, sent, runs, rows, feed, lost, mails, late, strayed, slips, offered>>
        /\ text' = Plain /\ Await("synthesize_response", Invented)
        /\ (pending' = pending \/ pending' = <<>>) /\ result' = [id |-> i, status |-> s]
    BY <1>c DEF SagaResult, Synthesize, Continue, Rest, storeVars, feedVars, slipVars
  <2>2. Reports /\ result' \in [id : Ids, status : {"failed", "confirmed", "compensated"}]
    BY <1>c, <2>1 DEF Reports
  <2> QED
    BY <1>0, <1>r, <1>a, <2>1, <2>2 DEF FlowTypes
<1>12. CASE AfterCreate
  BY <1>0, <1>12, <1>b, <1>c DEF AfterCreate
<1>13. CASE AfterNotify
  <2>1. act.role = "booking_confirmed"
    BY <1>13 DEF AfterNotify, Awaited
  <2> QED
    BY <1>0, <1>13, <1>b, <1>c, <2>1 DEF AfterNotify
<1>14. CASE AfterCancel
  BY <1>0, <1>14, <1>b DEF AfterCancel
<1>15. CASE AfterCompensation
  BY <1>0, <1>15, <1>c DEF AfterCompensation
<1>16. CASE WorkflowFails
  BY <1>0, <1>16
     DEF WorkflowFails, Flows, FlowTypes, Starts, Reports, actVars, storeVars, feedVars, slipVars
<1>17. CASE Complete
  BY <1>0, <1>17
     DEF Complete, Flows, FlowTypes, Starts, Reports, actVars, storeVars, feedVars, slipVars
<1> QED
  BY <1>1, <1>2, <1>3, <1>4, <1>5, <1>6, <1>7, <1>8, <1>10, <1>11, <1>12, <1>13, <1>14,
     <1>15,
     <1>16, <1>17 DEF TurnNext

---------------------------------------------------------------------------
(* The invariant.                                                          *)
LEMMA ChannelBegins ==
  ASSUME Init
  PROVE  ChannelInv
<1>1. /\ Plain \in Texts /\ Invented \in Ids /\ <<>> \in Seq(Texts) /\ <<>> \in Seq(Slots)
      /\ <<>> \in Seq(Entries) /\ Len(<<>>) = 0 /\ "classify_intent" \notin Notices
  BY TextAssumption DEF Ids, Notices
<1>2. act = NoActivity /\ act \in Activity /\ act.role = "classify_intent"
  BY NoActivityIs DEF Init, ConvInit, ActInit
<1>3. BookingTypes
  <2>1. rows \in [Ids -> Row]
    BY <1>1 DEF Init, ConvInit, ActInit, NoRow, Row
  <2>2. mails \in [Entries -> Nat]
    BY DEF Init, ConvInit, ActInit
  <2> QED
    BY <1>1, <1>2, <2>1, <2>2 DEF Init, ConvInit, ActInit, BookingTypes
<1>4. NoticeSays /\ Awaited /\ CreatesWereOffered
  BY <1>1, <1>2 DEF Init, ConvInit, ActInit, NoticeSays, Awaited, CreatesWereOffered
<1>5. MailedOnce
  <2>1. \A e \in Entries : mails[e] = 0
    BY DEF Init, ConvInit, ActInit
  <2> QED
    BY <2>1 DEF MailedOnce
<1>6. ConfirmedReachedMerchant /\ BookedWasOffered
  BY DEF Init, ConvInit, ActInit, ConfirmedReachedMerchant, BookedWasOffered, NoRow
<1> QED
  BY <1>3, <1>4, <1>5, <1>6 DEF ChannelInv

(* Every step of the channel, the workflow and the worker keeps the invariant. *)
LEMMA ChannelStep ==
  ASSUME ChannelInv, [Next]_vars
  PROVE  ChannelInv'
<1>0. /\ StoreTypes /\ FlowTypes /\ NoticeSays /\ Awaited /\ CreatesWereOffered /\ MailedOnce
      /\ ConfirmedReachedMerchant /\ BookedWasOffered /\ open \in BOOLEAN /\ act \in Activity
  BY DEF ChannelInv, BookingTypes, StoreTypes, FlowTypes
<1>t. StoreTypes' /\ FlowTypes' /\ open' \in BOOLEAN => BookingTypes'
  BY DEF BookingTypes, StoreTypes, FlowTypes
<1>1. CASE Worker
  <2>1. /\ ActivityNext /\ UNCHANGED <<flowVars, result, offered, sent, runs, open>>
    BY <1>1 DEF Worker, Activities
  <2>2. Works
    BY <1>0, <2>1, WorkerSteps
  <2>3. FlowTypes' /\ open' \in BOOLEAN
    BY <1>0, <2>1 DEF FlowTypes, flowVars
  <2>4. Awaited' /\ CreatesWereOffered'
    BY <1>0, <2>1, <2>2 DEF Awaited, CreatesWereOffered, Works, flowVars
  <2>5. ConfirmedReachedMerchant'
    BY <1>0, <2>1, <2>2 DEF ConfirmedReachedMerchant, Works
  <2>6. BookedWasOffered'
    BY <1>0, <2>1, <2>2 DEF BookedWasOffered, Works, RowsGrow
  <2> QED
    BY <1>t, <2>2, <2>3, <2>4, <2>5, <2>6 DEF ChannelInv, Works
<1>2. ASSUME Flows, open' \in BOOLEAN
      PROVE  ChannelInv'
  <2>1. /\ UNCHANGED <<rows, feed, lost, mails, late, strayed, slips>> /\ FlowTypes'
        /\ offered \subseteq offered' /\ \A i \in 1 .. Len(pending') : pending'[i] \in offered'
        /\ Starts /\ Reports
    BY <1>2 DEF Flows
  <2>2. \/ \E r \in Skills \cup Notices, i \in Ids :
             /\ act' \in Activity /\ act'.role = r /\ act'.id = i /\ act'.state = "running"
             /\ act'.step = 0 /\ pc' = r /\ (r = "create_booking" => i \in offered)
        \/ act' \in Activity /\ act'.role = "classify_intent" /\ pc' = "idle"
        \/ act' = act /\ pc' \in {pc, "idle"}
    BY <2>1, ActivityStarts, NoActivityIs DEF Starts
  <2>3. StoreTypes'
    BY <1>0, <2>1, <2>2 DEF StoreTypes
  <2>4. NoticeSays'
    BY <1>0, <2>1, <2>2 DEF NoticeSays, Told, InFeed, Notices
  <2>5. Awaited'
    BY <1>0, <2>2 DEF Awaited
  <2>6. CreatesWereOffered'
    BY <1>0, <2>1, <2>2 DEF CreatesWereOffered
  <2>7. MailedOnce'
    BY <1>0, <2>1 DEF MailedOnce, InFeed
  <2>8. ConfirmedReachedMerchant'
    <3>1. CASE result' = result
      BY <1>0, <2>1, <3>1 DEF ConfirmedReachedMerchant, InFeed
    <3>2. CASE result'.status # "confirmed"
      BY <3>2 DEF ConfirmedReachedMerchant
    <3>3. CASE act.role = "booking_confirmed" /\ act.state = "done" /\ result'.id = act.id
      <4>1. Told(<<act.id, "booking_confirmed">>)
        BY <1>0, <3>3 DEF NoticeSays, Notices
      <4> QED
        BY <2>1, <3>3, <4>1 DEF ConfirmedReachedMerchant, Told, InFeed
    <3> QED
      BY <2>1, <3>1, <3>2, <3>3 DEF Reports
  <2>9. BookedWasOffered'
    BY <1>0, <2>1 DEF BookedWasOffered
  <2> QED
    BY <1>2, <1>t, <2>1, <2>3, <2>4, <2>5, <2>6, <2>7, <2>8, <2>9 DEF ChannelInv
<1>3. CASE Connect \/ Inbound \/ InboundRefused \/ Disconnect \/ Closing \/ Workflow
           \/ UNCHANGED vars
  <2>1. \/ StartRun \/ (\E m \in Texts : UserMessage(m)) \/ Close \/ TurnNext
        \/ UNCHANGED convVars
    BY <1>3 DEF Connect, Inbound, InboundRefused, Disconnect, Closing, Workflow, vars
  <2>2. open' \in BOOLEAN
    BY <1>0, <1>3 DEF Connect, Inbound, InboundRefused, Disconnect, Closing, Workflow, vars
  <2> QED
    BY <1>0, <1>2, <2>1, <2>2, FlowSteps
<1>4. CASE Marking
  <2>1. RewriteFeed /\ UNCHANGED <<flowVars, result, offered, sent, runs, open>>
        /\ UNCHANGED <<rows, mails, act, late, strayed, slips>>
    BY <1>4 DEF Marking, RewriteFeed, slipVars
  <2>2. /\ feed' \in Seq(Entries) /\ lost' \subseteq Entries /\ lost = {}
        /\ \A x : InFeed(x) => InFeed(x)' \/ x \in lost'
        /\ \A x : InFeed(x)' => InFeed(x)
    BY <1>0, <2>1, FeedShrinks DEF StoreTypes
  <2>3. StoreTypes' /\ FlowTypes' /\ open' \in BOOLEAN
    BY <1>0, <2>1, <2>2 DEF StoreTypes, FlowTypes, flowVars
  <2>4. NoticeSays'
    BY <1>0, <2>1, <2>2 DEF NoticeSays, Told
  <2>5. Awaited' /\ CreatesWereOffered'
    BY <1>0, <2>1 DEF Awaited, CreatesWereOffered, flowVars
  <2>6. MailedOnce'
    BY <1>0, <2>1, <2>2 DEF MailedOnce
  <2>7. ConfirmedReachedMerchant'
    BY <1>0, <2>1, <2>2 DEF ConfirmedReachedMerchant
  <2>8. BookedWasOffered'
    BY <1>0, <2>1 DEF BookedWasOffered
  <2> QED
    BY <1>t, <2>3, <2>4, <2>5, <2>6, <2>7, <2>8 DEF ChannelInv
<1> QED
  BY <1>1, <1>3, <1>4 DEF Next

(* Every behaviour of the channel keeps the invariant. *)
LEMMA ChannelHolds == Spec => []ChannelInv
BY ChannelBegins, ChannelStep, PTL DEF Spec

(* MailedOnce: no retry, late attempt or second saga mails the merchant    *)
(* twice for one booking and kind, and nothing is mailed that the feed     *)
(* does not hold, but for an entry the surface's rewrite has lost.         *)
THEOREM MailsAreOnce == Spec => []MailedOnce
<1>1. ChannelInv => MailedOnce
  BY DEF ChannelInv
<1> QED
  BY <1>1, ChannelHolds, PTL

(* ConfirmedReachedMerchant: what the user is told is confirmed, the       *)
(* merchant has been told.                                                 *)
THEOREM ConfirmedReachesMerchant == Spec => []ConfirmedReachedMerchant
<1>1. ChannelInv => ConfirmedReachedMerchant
  BY DEF ChannelInv
<1> QED
  BY <1>1, ChannelHolds, PTL

(* BookedWasOffered: whatever a message asks for, only a slot that was on  *)
(* offer is booked under its own key, also by a given-up attempt, unless   *)
(* the model called the tool with other arguments than it was given.       *)
THEOREM BookedAreOffered == Spec => []BookedWasOffered
<1>1. ChannelInv => BookedWasOffered
  BY DEF ChannelInv
<1> QED
  BY <1>1, ChannelHolds, PTL

============================
