---------------------------- MODULE BookingDesk ----------------------------
(***************************************************************************)
(* The booking-desk bundle (examples/booking/bundles/booking-desk/tools/   *)
(* bookings.py): the tools an agent calls against one tenant's ledger, a   *)
(* SQLite file opened by every call on a connection of its own.            *)
(*                                                                         *)
(* A slot is a moment of the tenant's schedule, and the clock runs through *)
(* them.  book_table reads the clock and the configuration first and takes *)
(* the database's write lock afterwards, so a call can wait while the      *)
(* clock, the ledger and the configuration move on.                        *)
(***************************************************************************)
EXTENDS Integers, FiniteSets

CONSTANTS
  Slots,      \* the moments of the schedule that can be asked for
  Schedule,   \* those inside the opening hours and not on a closed date
  Callers,    \* agents' tool calls, one at a time each
  Contacts,
  ContactOf,  \* the contact each caller books under
  MaxTables,  \* bound on tables_per_slot
  MaxRefs     \* bound on the bookings ever made

ASSUME DeskAssumption ==
  /\ Slots \subseteq Nat \ {0} /\ Schedule \subseteq Slots
  /\ ContactOf \in [Callers -> Contacts]
  /\ MaxTables \in Nat \ {0} /\ MaxRefs \in Nat

VARIABLES
  now,      \* the clock
  tables,   \* tables_per_slot in the tenant's configuration
  most,     \* history: the largest tables_per_slot so far
  ledger,   \* the rows of bookings
  writer,   \* callers inside a write transaction
  call,     \* each caller's progress
  refs      \* references handed out

deskVars == <<now, tables, most, ledger, writer, call, refs>>

Row    == [ref : Nat, slot : Slots, contact : Contacts,
           status : {"confirmed", "cancelled"}]
Steps  == {"idle", "begin", "select", "insert", "update", "reply"}
NoCall == [pc |-> "idle", slot |-> 0, cap |-> 0, ref |-> 0, offer |-> {}]

Confirmed(s)  == {r \in ledger : r.slot = s /\ r.status = "confirmed"}
Held(s, c)    == {r \in Confirmed(s) : r.contact = c}
Taken(s)      == Cardinality(Confirmed(s))
Idle(c)       == call[c].pc = "idle"
Set(c, fields) == call' = [call EXCEPT ![c] = fields]

DeskInit ==
  /\ now = 0 /\ tables \in 1 .. MaxTables /\ most = tables
  /\ ledger = {} /\ writer = {} /\ refs = 0
  /\ call = [c \in Callers |-> NoCall]

---------------------------------------------------------------------------
(* The world around the tools.                                             *)

Tick ==
  /\ \E s \in Slots : now < s
  /\ now' = now + 1
  /\ UNCHANGED <<tables, most, ledger, writer, call, refs>>

(* The tenant saves a configuration; calls under way keep the old one.     *)
Reconfigure ==
  /\ \E n \in 1 .. MaxTables : n # tables /\ tables' = n
  /\ most' = IF tables' > most THEN tables' ELSE most
  /\ UNCHANGED <<now, ledger, writer, call, refs>>

---------------------------------------------------------------------------
(* check_availability.  Nothing keeps what it lists.                       *)

OpenSlots == {s \in Schedule : s > now /\ Taken(s) < tables}

Check(c) ==
  /\ Idle(c)
  /\ Set(c, [call[c] EXCEPT !.offer = OpenSlots])
  /\ UNCHANGED <<now, tables, most, ledger, writer, refs>>

---------------------------------------------------------------------------
(* book_table.                                                             *)

(* The checks made outside the transaction: in the schedule and not past.  *)
Ask(c, s) ==
  /\ Idle(c) /\ s \in Schedule /\ s > now
  /\ Set(c, [call[c] EXCEPT !.pc = "begin", !.slot = s, !.cap = tables, !.ref = 0])
  /\ UNCHANGED <<now, tables, most, ledger, writer, refs>>

(* Variant: a deferred transaction, which takes no lock before it writes.  *)
BeginDeferred(c) ==
  /\ call[c].pc = "begin"
  /\ writer' = writer \cup {c}
  /\ Set(c, [call[c] EXCEPT !.pc = "select"])
  /\ UNCHANGED <<now, tables, most, ledger, refs>>

(* BEGIN IMMEDIATE: one write transaction at a time.                       *)
Begin(c) ==
  /\ call[c].pc = "begin" /\ writer = {}
  /\ writer' = {c}
  /\ Set(c, [call[c] EXCEPT !.pc = "select"])
  /\ UNCHANGED <<now, tables, most, ledger, refs>>

(* The lock is not had within the ten seconds: the tool raises.            *)
Busy(c) ==
  /\ call[c].pc \in {"begin", "update"} /\ writer # {}
  /\ Set(c, NoCall)
  /\ UNCHANGED <<now, tables, most, ledger, writer, refs>>

(* A booking of the same contact and slot is answered with its reference;  *)
(* a full slot with an error.  Both roll back.                             *)
Decide(c) ==
  LET mine == Held(call[c].slot, ContactOf[c]) IN
  IF mine # {}
  THEN /\ \E r \in mine : Set(c, [call[c] EXCEPT !.pc = "reply", !.ref = r.ref])
       /\ writer' = writer \ {c}
  ELSE IF Taken(call[c].slot) >= call[c].cap
  THEN Set(c, NoCall) /\ writer' = writer \ {c}
  ELSE Set(c, [call[c] EXCEPT !.pc = "insert"]) /\ UNCHANGED writer

Select(c) ==
  /\ call[c].pc = "select"
  /\ Decide(c)
  /\ UNCHANGED <<now, tables, most, ledger, refs>>

(* INSERT and COMMIT.                                                      *)
Insert(c) ==
  /\ call[c].pc = "insert" /\ refs < MaxRefs
  /\ refs' = refs + 1
  /\ ledger' = ledger \cup {[ref |-> refs', slot |-> call[c].slot,
                             contact |-> ContactOf[c], status |-> "confirmed"]}
  /\ writer' = writer \ {c}
  /\ Set(c, [call[c] EXCEPT !.pc = "reply", !.ref = refs'])
  /\ UNCHANGED <<now, tables, most>>

(* The reply reaches the agent, or is lost: a retry asks again.            *)
Reply(c) ==
  /\ call[c].pc = "reply"
  /\ Set(c, [NoCall EXCEPT !.ref = call[c].ref])
  /\ UNCHANGED <<now, tables, most, ledger, writer, refs>>

(* The call's thread dies; an open transaction rolls back.                 *)
Die(c) ==
  /\ call[c].pc \in {"begin", "select", "insert", "update", "reply"}
  /\ writer' = writer \ {c}
  /\ Set(c, NoCall)
  /\ UNCHANGED <<now, tables, most, ledger, refs>>

---------------------------------------------------------------------------
(* cancel_booking: the row is read and then updated, in autocommit.        *)

FindBooking(c) ==
  /\ Idle(c)
  /\ \E r \in ledger :
       /\ r.contact = ContactOf[c] /\ r.status = "confirmed"
       /\ Set(c, [NoCall EXCEPT !.pc = "update", !.ref = r.ref])
  /\ UNCHANGED <<now, tables, most, ledger, writer, refs>>

CancelRow(c) ==
  /\ call[c].pc = "update" /\ writer = {}
  /\ ledger' = {IF r.ref = call[c].ref THEN [r EXCEPT !.status = "cancelled"] ELSE r
                  : r \in ledger}
  /\ Set(c, NoCall)
  /\ UNCHANGED <<now, tables, most, writer, refs>>

DeskStep(c) == Begin(c) \/ Busy(c) \/ Select(c) \/ Insert(c) \/ Reply(c) \/ CancelRow(c)

DeskNext ==
  \/ Tick \/ Reconfigure
  \/ \E c \in Callers :
       \/ Check(c) \/ \E s \in Slots : Ask(c, s)
       \/ DeskStep(c) \/ Die(c) \/ FindBooking(c)

DeskSpec == DeskInit /\ [][DeskNext]_deskVars

---------------------------------------------------------------------------

(* No slot has more confirmed bookings than the largest number of tables   *)
(* the tenant ever configured, whatever calls race for the last one.       *)
NeverOverbooked == \A s \in Slots : Taken(s) <= most

===========================================================================
