---------------------------- MODULE StoresProofs ----------------------------
(***************************************************************************)
(* The stores behind the booking example's surfaces, for any number of     *)
(* threads, callers, clients, crashes and of what they store.  Each store  *)
(* is a module of its own, and its section here needs no other.            *)
(***************************************************************************)
EXTENDS BookingDesk, Storefront, TenantRecords, Owners, Worker,
        FiniteSetTheorems, WellFoundedInduction, TLAPS

---------------------------------------------------------------------------
(* BookingDesk.  A call decides and inserts in one hold of the write lock: *)
(* what it counted can only have shrunk when it inserts, and the number of *)
(* tables it read is one the tenant had configured.                        *)
DeskCall == [pc : Steps, slot : Nat, cap : Nat, ref : Nat, offer : SUBSET Slots]

DeskTypes ==
  /\ tables \in Nat /\ most \in Nat /\ refs \in Nat
  /\ call \in [Callers -> DeskCall]
  /\ IsFiniteSet(ledger) /\ ledger \subseteq Row

(* One call at a time is between its BEGIN IMMEDIATE and its end.          *)
DeskLocking ==
  /\ \A c, d \in writer : c = d
  /\ \A c \in Callers : call[c].pc \in {"select", "insert"} => c \in writer

TablesCapped == tables <= most /\ \A c \in Callers : call[c].cap <= most

(* What a call has found free still is.                                    *)
FoundFree == \A c \in Callers : call[c].pc = "insert" =>
          call[c].slot \in Slots /\ Taken(call[c].slot) < call[c].cap
SlotsPlaced == \A c \in Callers : call[c].pc \in {"begin", "select"} =>
            call[c].slot \in Slots

DeskInv == DeskTypes /\ DeskLocking /\ TablesCapped /\ SlotsPlaced /\ FoundFree /\ NeverOverbooked

---------------------------------------------------------------------------
(* The confirmed bookings of a slot are finitely many; fewer rows of it    *)
(* confirmed are fewer taken, and one row more takes one table at most.    *)
LEMMA TakenIsCounted ==
  ASSUME DeskTypes, NEW s
  PROVE  IsFiniteSet(Confirmed(s)) /\ Taken(s) \in Nat
<1>1. IsFiniteSet(Confirmed(s))
  BY FS_Subset DEF DeskTypes, Confirmed
<1> QED
  BY <1>1, FS_CardinalityType DEF Taken

(* Fewer confirmed bookings take no more tables. *)
LEMMA TakenShrinks ==
  ASSUME DeskTypes, NEW s, Confirmed(s)' \subseteq Confirmed(s)
  PROVE  Taken(s)' <= Taken(s)
<1>1. IsFiniteSet(Confirmed(s))
  BY TakenIsCounted
<1> QED
  BY <1>1, FS_Subset DEF Taken

(* One more confirmed booking takes one table at most. *)
LEMMA TakenGrowsByOne ==
  ASSUME DeskTypes, NEW s, NEW r, Confirmed(s)' \subseteq Confirmed(s) \cup {r}
  PROVE  Taken(s)' <= Taken(s) + 1
<1> DEFINE C == Confirmed(s)
           D == C \cup {r}
<1>1. IsFiniteSet(C) /\ Cardinality(C) \in Nat
  BY TakenIsCounted DEF Taken
<1>2. IsFiniteSet(D) /\ Cardinality(D) <= Cardinality(C) + 1
  <2>1. r \in C => D = C
    OBVIOUS
  <2>2. IsFiniteSet(D) /\ (r \notin C => Cardinality(D) = Cardinality(C) + 1)
    BY <1>1, FS_AddElement
  <2>3. r \in C => Cardinality(D) = Cardinality(C)
    BY <2>1
  <2> HIDE DEF C, D
  <2> QED
    BY <1>1, <2>2, <2>3
<1>3. Cardinality(Confirmed(s)') <= Cardinality(D)
  BY <1>2, FS_Subset
<1>4. Cardinality(Confirmed(s)') \in Nat /\ Cardinality(D) \in Nat
  BY <1>2, FS_Subset, FS_CardinalityType
<1> QED
  BY <1>1, <1>2, <1>3, <1>4 DEF Taken

---------------------------------------------------------------------------
(* An empty ledger is in the invariant.                                    *)
LEMMA DeskInvInit == DeskInit => DeskInv
<1> SUFFICES ASSUME DeskInit PROVE DeskInv
  OBVIOUS
<1>1. DeskTypes
  BY DeskAssumption, FS_EmptySet DEF DeskInit, DeskTypes, DeskCall, NoCall, Steps
<1>2. \A s \in Slots : Taken(s) = 0
  BY FS_EmptySet DEF DeskInit, Taken, Confirmed
<1> QED
  BY <1>1, <1>2 DEF DeskInit, DeskInv, DeskTypes, DeskLocking, TablesCapped, FoundFree, SlotsPlaced,
                    NeverOverbooked, NoCall

(* A step that leaves the ledger alone and moves one call, or none.        *)
LEMMA QuietStep ==
  ASSUME DeskInv, NEW c \in Callers, NEW v \in DeskCall, Set(c, v),
         UNCHANGED <<tables, most, ledger, refs>>, v.cap <= most,
         v.pc \in {"begin", "select"} => v.slot \in Slots,
         v.pc = "insert" => v.slot \in Slots /\ Taken(v.slot) < v.cap,
         \A d, e \in writer' : d = e,
         v.pc \in {"select", "insert"} => c \in writer',
         \A d \in Callers \ {c} :
           call[d].pc \in {"select", "insert"} => d \in writer'
  PROVE  DeskInv'
<1>1. /\ call' \in [Callers -> DeskCall] /\ call'[c] = v
      /\ \A d \in Callers \ {c} : call'[d] = call[d]
  BY DEF DeskInv, DeskTypes, Set
<1>2. \A s : Taken(s)' = Taken(s)
  BY DEF Taken, Confirmed
<1>3. DeskTypes' /\ DeskLocking' /\ TablesCapped' /\ SlotsPlaced'
  BY <1>1 DEF DeskInv, DeskTypes, DeskLocking, TablesCapped, SlotsPlaced
<1>4. FoundFree'
  BY <1>1, <1>2 DEF DeskInv, FoundFree
<1>5. NeverOverbooked'
  BY <1>2 DEF DeskInv, NeverOverbooked
<1> QED
  BY <1>3, <1>4, <1>5 DEF DeskInv

(* A step that writes the ledger, inside the lock or when nobody has it:   *)
(* no other call is past its count.                                        *)
LEMMA LedgerStep ==
  ASSUME DeskInv, NEW c \in Callers, NEW v \in DeskCall, Set(c, v),
         UNCHANGED <<tables, most>>, v.cap <= most,
         v.pc \notin {"begin", "select", "insert"},
         IsFiniteSet(ledger'), ledger' \subseteq Row, refs' \in Nat,
         writer' = {}, \A d \in writer : d = c,
         \A s \in Slots : Taken(s)' <= most
  PROVE  DeskInv'
<1>1. /\ call' \in [Callers -> DeskCall] /\ call'[c] = v
      /\ \A d \in Callers \ {c} : call'[d] = call[d]
  BY DEF DeskInv, DeskTypes, Set
<1>2. \A d \in Callers : call'[d].pc \notin {"select", "insert"}
  BY <1>1 DEF DeskInv, DeskLocking
<1> QED
  BY <1>1, <1>2
  DEF DeskInv, DeskTypes, DeskLocking, TablesCapped, SlotsPlaced, FoundFree, NeverOverbooked

(* book_table: the insert takes a table that the same call found free. *)
LEMMA InsertKeeps == ASSUME DeskInv, NEW c \in Callers, Insert(c) PROVE DeskInv'
<1> DEFINE s == call[c].slot
           row == [ref |-> refs', slot |-> s, contact |-> ContactOf[c],
                   status |-> "confirmed"]
           v == [call[c] EXCEPT !.pc = "reply", !.ref = refs']
<1>1. /\ call[c].pc = "insert" /\ refs' = refs + 1 /\ writer' = writer \ {c}
      /\ ledger' = ledger \cup {row} /\ Set(c, v)
      /\ UNCHANGED <<now, tables, most>>
  BY DEF Insert
<1>2. /\ s \in Slots /\ Taken(s) < call[c].cap /\ call[c].cap <= most
      /\ c \in writer /\ writer' = {} /\ \A d \in writer : d = c
  BY <1>1 DEF DeskInv, FoundFree, DeskLocking, TablesCapped
<1>3. v \in DeskCall /\ v.cap = call[c].cap /\ v.pc = "reply"
  <2>1. call[c] \in DeskCall /\ refs' \in Nat
    BY <1>1 DEF DeskInv, DeskTypes
  <2> QED
    BY <2>1 DEF DeskCall, Steps
<1>4. row \in Row /\ IsFiniteSet(ledger') /\ ledger' \subseteq Row
  <2>1. row \in Row
    BY <1>1, <1>2, DeskAssumption DEF DeskInv, DeskTypes, Row
  <2>2. IsFiniteSet(ledger) /\ ledger \subseteq Row
    BY DEF DeskInv, DeskTypes
  <2>3. IsFiniteSet(ledger \cup {row})
    BY <2>2, FS_AddElement
  <2> QED
    BY <1>1, <2>1, <2>2, <2>3
<1>5. \A x \in Slots : Taken(x)' <= most
  <2> SUFFICES ASSUME NEW x \in Slots PROVE Taken(x)' <= most
    OBVIOUS
  <2>1. DeskTypes /\ Taken(x) \in Nat /\ Taken(x) <= most /\ most \in Nat
    BY TakenIsCounted DEF DeskInv, NeverOverbooked, DeskTypes
  <2>2. Taken(x)' \in Nat
    <3>1. Confirmed(x)' \subseteq ledger'
      BY DEF Confirmed
    <3>2. IsFiniteSet(Confirmed(x)')
      BY <1>4, <3>1, FS_Subset
    <3> QED
      BY <3>2, FS_CardinalityType DEF Taken
  <2>3. CASE x = s
    <3>1. Confirmed(x)' \subseteq Confirmed(x) \cup {row}
      BY <1>1 DEF Confirmed
    <3>2. Taken(x)' <= Taken(x) + 1
      BY <2>1, <3>1, TakenGrowsByOne
    <3>3. call[c].cap \in Nat
      BY DEF DeskInv, DeskTypes, DeskCall
    <3> QED
      BY <1>2, <2>1, <2>2, <2>3, <3>2, <3>3
  <2>4. CASE x # s
    <3>1. Confirmed(x)' \subseteq Confirmed(x)
      BY <1>1, <2>4 DEF Confirmed
    <3>2. Taken(x)' <= Taken(x)
      BY <2>1, <3>1, TakenShrinks
    <3> QED
      BY <2>1, <2>2, <3>2
  <2> QED
    BY <2>3, <2>4
<1>6. refs' \in Nat
  BY <1>1 DEF DeskInv, DeskTypes
<1> HIDE DEF v, row, s
<1> QED
  BY <1>1, <1>2, <1>3, <1>4, <1>5, <1>6, LedgerStep

(* cancel_booking: a cancellation only frees a table. *)
LEMMA CancelKeeps ==
  ASSUME DeskInv, NEW c \in Callers, CancelRow(c) PROVE DeskInv'
<1> DEFINE Cancelled(r) == IF r.ref = call[c].ref
                           THEN [r EXCEPT !.status = "cancelled"] ELSE r
<1>1. /\ writer = {} /\ writer' = {} /\ Set(c, NoCall)
      /\ ledger' = {Cancelled(r) : r \in ledger}
      /\ UNCHANGED <<now, tables, most, refs>>
  BY DEF CancelRow
<1>2. NoCall \in DeskCall /\ NoCall.cap = 0 /\ NoCall.pc = "idle"
  BY DEF NoCall, DeskCall, Steps
<1>3. \A r \in Row : /\ Cancelled(r) \in Row
                     /\ Cancelled(r).status = "confirmed" => Cancelled(r) = r
  BY DEF Row
<1>4. IsFiniteSet(ledger') /\ ledger' \subseteq Row
  <2>1. IsFiniteSet(ledger) /\ ledger \subseteq Row
    BY DEF DeskInv, DeskTypes
  <2> DEFINE f == [r \in ledger |-> Cancelled(r)]
  <2>2. IsFiniteSet(ledger')
    <3>1. f \in Surjection(ledger, ledger')
      <4> HIDE DEF Cancelled
      <4> QED
        BY <1>1 DEF Surjection
    <3> HIDE DEF f
    <3> QED
      BY <2>1, <3>1, FS_Surjection
  <2> QED
    BY <1>1, <1>3, <2>1, <2>2
<1>5. \A x \in Slots : Taken(x)' <= most
  <2> SUFFICES ASSUME NEW x \in Slots PROVE Taken(x)' <= most
    OBVIOUS
  <2>1. DeskTypes /\ Taken(x) \in Nat /\ Taken(x) <= most /\ most \in Nat
    BY TakenIsCounted DEF DeskInv, NeverOverbooked, DeskTypes
  <2>2. Confirmed(x)' \subseteq Confirmed(x)
    <3> HIDE DEF Cancelled
    <3> QED
      BY <1>1, <1>3 DEF Confirmed, DeskInv, DeskTypes
  <2>3. Taken(x)' <= Taken(x) /\ Taken(x)' \in Nat
    <3>1. IsFiniteSet(Confirmed(x)')
      BY <2>1, <2>2, TakenIsCounted, FS_Subset
    <3> QED
      BY <2>1, <2>2, <3>1, TakenShrinks, FS_CardinalityType DEF Taken
  <2> QED
    BY <2>1, <2>3
<1>6. most \in Nat /\ refs \in Nat
  BY DEF DeskInv, DeskTypes
<1> QED
  BY <1>1, <1>2, <1>4, <1>5, <1>6, LedgerStep

(* The tenant's changes of its number of tables.                           *)
LEMMA ReconfigureKeeps == DeskInv /\ Reconfigure => DeskInv'
<1> SUFFICES ASSUME DeskInv, Reconfigure PROVE DeskInv'
  OBVIOUS
<1>1. /\ tables' \in Nat /\ most' \in Nat /\ tables' <= most'
      /\ most <= most' /\ most \in Nat
  BY DeskAssumption DEF DeskInv, DeskTypes, Reconfigure
<1>2. UNCHANGED <<ledger, writer, call, refs>>
  BY DEF Reconfigure
<1>3. \A x : DeskTypes => Taken(x)' = Taken(x) /\ Taken(x) \in Nat
  BY <1>2, TakenIsCounted DEF Taken, Confirmed
<1>4. \A c \in Callers : call[c].cap \in Nat
  BY DEF DeskInv, DeskTypes, DeskCall
<1> QED
  BY <1>1, <1>2, <1>3, <1>4
  DEF DeskInv, DeskTypes, DeskLocking, TablesCapped, SlotsPlaced, FoundFree, NeverOverbooked

(* Every other step moves one call and leaves the ledger as it is.         *)
LEMMA DeskInvNext == DeskInv /\ [DeskNext]_deskVars => DeskInv'
<1> SUFFICES ASSUME DeskInv, [DeskNext]_deskVars PROVE DeskInv'
  OBVIOUS
<1>a. \A c \in Callers : call[c] \in DeskCall /\ call[c].cap <= most
  BY DEF DeskInv, DeskTypes, TablesCapped
<1>b. NoCall \in DeskCall /\ NoCall.cap = 0 /\ NoCall.pc = "idle" /\ 0 <= most
  BY DEF NoCall, DeskCall, Steps, DeskInv, DeskTypes
<1>c. /\ \A c, d \in writer : c = d
      /\ \A c \in Callers : call[c].pc \in {"select", "insert"} => c \in writer
  BY DEF DeskInv, DeskLocking
<1>1. CASE Tick
  BY <1>1 DEF Tick, DeskInv, DeskTypes, DeskLocking, TablesCapped, SlotsPlaced, FoundFree,
              NeverOverbooked, Taken, Confirmed
<1>2. CASE Reconfigure
  BY <1>2, ReconfigureKeeps
<1>3. ASSUME NEW c \in Callers, Check(c) PROVE DeskInv'
  <2> DEFINE v == [call[c] EXCEPT !.offer = OpenSlots]
  <2>1. v \in DeskCall /\ v.cap <= most /\ v.pc = "idle"
    BY <1>3, <1>a, DeskAssumption DEF Check, Idle, DeskCall, OpenSlots
  <2>2. Set(c, v) /\ UNCHANGED <<tables, most, ledger, writer, refs>>
    BY <1>3 DEF Check
  <2> HIDE DEF v
  <2> QED
    BY <1>c, <2>1, <2>2, QuietStep
<1>4. ASSUME NEW c \in Callers, NEW s \in Slots, Ask(c, s) PROVE DeskInv'
  <2> DEFINE v == [call[c] EXCEPT !.pc = "begin", !.slot = s, !.cap = tables,
                                  !.ref = 0]
  <2>1. v \in DeskCall /\ v.cap <= most /\ v.pc = "begin" /\ v.slot \in Slots
    BY <1>a, DeskAssumption DEF DeskCall, Steps, DeskInv, DeskTypes, TablesCapped
  <2>2. Set(c, v) /\ UNCHANGED <<tables, most, ledger, writer, refs>>
    BY <1>4 DEF Ask
  <2> HIDE DEF v
  <2> QED
    BY <1>c, <2>1, <2>2, QuietStep
<1>5. ASSUME NEW c \in Callers, Begin(c) PROVE DeskInv'
  <2> DEFINE v == [call[c] EXCEPT !.pc = "select"]
  <2>1. v \in DeskCall /\ v.cap <= most /\ v.pc = "select" /\ v.slot \in Slots
    BY <1>5, <1>a DEF Begin, DeskCall, Steps, DeskInv, SlotsPlaced
  <2>2. /\ Set(c, v) /\ UNCHANGED <<tables, most, ledger, refs>>
        /\ writer = {} /\ writer' = {c}
    BY <1>5 DEF Begin
  <2> HIDE DEF v
  <2> QED
    BY <1>c, <2>1, <2>2, QuietStep
<1>6. ASSUME NEW c \in Callers, Busy(c) PROVE DeskInv'
  BY <1>6, <1>b, <1>c, QuietStep DEF Busy
<1>7. ASSUME NEW c \in Callers, Select(c) PROVE DeskInv'
  <2> DEFINE reply(n) == [call[c] EXCEPT !.pc = "reply", !.ref = n]
             insert == [call[c] EXCEPT !.pc = "insert"]
             mine == Held(call[c].slot, ContactOf[c])
  <2>1. UNCHANGED <<tables, most, ledger, refs>> /\ call[c].pc = "select"
        /\ call[c].slot \in Slots
    BY <1>7 DEF Select, DeskInv, SlotsPlaced
  <2>2. CASE /\ \E r \in mine : Set(c, reply(r.ref))
             /\ writer' = writer \ {c}
    <3>1. PICK r \in mine : Set(c, reply(r.ref))
      BY <2>2
    <3>2. r.ref \in Nat
      BY DEF Held, Confirmed, DeskInv, DeskTypes, Row
    <3>3. /\ reply(r.ref) \in DeskCall /\ reply(r.ref).cap <= most
          /\ reply(r.ref).pc = "reply"
      BY <1>a, <3>2 DEF DeskCall, Steps
    <3> HIDE DEF reply
    <3> QED
      BY <1>c, <2>1, <2>2, <3>1, <3>3, QuietStep
  <2>3. CASE Set(c, NoCall) /\ writer' = writer \ {c}
    BY <1>b, <1>c, <2>1, <2>3, QuietStep
  <2>4. CASE /\ ~(Taken(call[c].slot) >= call[c].cap)
             /\ Set(c, insert) /\ UNCHANGED writer
    <3>1. /\ insert \in DeskCall /\ insert.cap = call[c].cap /\ insert.cap <= most
          /\ insert.pc = "insert" /\ insert.slot = call[c].slot
      BY <1>a DEF DeskCall, Steps
    <3>2. Taken(call[c].slot) \in Nat /\ call[c].cap \in Nat
      BY <1>a, TakenIsCounted DEF DeskInv, DeskCall
    <3>3. Taken(insert.slot) < insert.cap
      BY <2>4, <3>1, <3>2
    <3>4. c \in writer
      BY <1>c, <2>1
    <3> HIDE DEF insert
    <3> QED
      BY <1>c, <2>1, <2>4, <3>1, <3>3, <3>4, QuietStep
  <2> QED
    BY <1>7, <2>2, <2>3, <2>4 DEF Select, Decide
<1>8. ASSUME NEW c \in Callers, Insert(c) PROVE DeskInv'
  BY <1>8, InsertKeeps
<1>9. ASSUME NEW c \in Callers, Reply(c) PROVE DeskInv'
  <2> DEFINE v == [NoCall EXCEPT !.ref = call[c].ref]
  <2>1. v \in DeskCall /\ v.cap <= most /\ v.pc = "idle"
    BY <1>a, <1>b DEF DeskCall, NoCall
  <2>2. Set(c, v) /\ UNCHANGED <<tables, most, ledger, writer, refs>>
    BY <1>9 DEF Reply
  <2> HIDE DEF v
  <2> QED
    BY <1>c, <2>1, <2>2, QuietStep
<1>10. ASSUME NEW c \in Callers, CancelRow(c) PROVE DeskInv'
  BY <1>10, CancelKeeps
<1>11. ASSUME NEW c \in Callers, Die(c) PROVE DeskInv'
  BY <1>11, <1>b, <1>c, QuietStep DEF Die
<1>12. ASSUME NEW c \in Callers, FindBooking(c) PROVE DeskInv'
  <2> DEFINE v(n) == [NoCall EXCEPT !.pc = "update", !.ref = n]
  <2>1. PICK r \in ledger : Set(c, v(r.ref))
    BY <1>12 DEF FindBooking
  <2>2. r.ref \in Nat
    BY DEF DeskInv, DeskTypes, Row
  <2>3. v(r.ref) \in DeskCall /\ v(r.ref).cap <= most /\ v(r.ref).pc = "update"
    BY <1>b, <2>2 DEF DeskCall, NoCall, Steps
  <2>4. UNCHANGED <<tables, most, ledger, writer, refs>>
    BY <1>12 DEF FindBooking
  <2> HIDE DEF v
  <2> QED
    BY <1>c, <2>1, <2>3, <2>4, QuietStep
<1>13. CASE UNCHANGED deskVars
  BY <1>13 DEF deskVars, DeskInv, DeskTypes, DeskLocking, TablesCapped, SlotsPlaced, FoundFree,
               NeverOverbooked, Taken, Confirmed
<1> QED
  BY <1>1, <1>2, <1>3, <1>4, <1>5, <1>6, <1>7, <1>8, <1>9, <1>10, <1>11,
     <1>12, <1>13
  DEF DeskNext, DeskStep

(* booking-desk/tools/bookings.py:148: the write lock is taken before the  *)
(* slot is counted, so no race for the last table is won twice.            *)
THEOREM DeskNeverOverbooks == DeskSpec => []NeverOverbooked
<1>1. DeskInv => NeverOverbooked
  BY DEF DeskInv
<1> QED
  BY <1>1, DeskInvInit, DeskInvNext, PTL DEF DeskSpec

---------------------------------------------------------------------------
(* TenantRecords.  A key is made when a handler has read the record, and   *)
(* saved once: a key on its way to the file is one that was never there.   *)
RecordPoints == {"idle", "home", "load", "open", "write", "reply"}
RecordOps    == [kind : Kinds \cup {"none"}, pc : RecordPoints, meta : Meta, open : BOOLEAN]

RecordTypes ==
  /\ op \in [Threads -> RecordOps]
  /\ file.meta \in Meta
  /\ keys \in Nat
  /\ used \subseteq 0 .. keys

(* Two handlers never carry the same key, nor one that was saved before.   *)
KeysAreNew ==
  /\ \A t \in Threads : op[t].pc \in {"home", "load"} => op[t].meta.key = 0
  /\ \A t \in Threads : Carries(t) =>
       op[t].meta.key <= keys /\ op[t].meta.key \notin used
  /\ \A t, u \in Threads :
       Carries(t) /\ Carries(u) /\ op[t].meta.key = op[u].meta.key => t = u

RecordInv == RecordTypes /\ KeysAreNew

---------------------------------------------------------------------------

(* No record, and no handler at work. *)
LEMMA RecordInvInit == RecordInit => RecordInv
  BY DEF RecordInit, RecordInv, RecordTypes, KeysAreNew, Carries, NoOp, NoMeta,
         NoFile, RecordOps, RecordPoints, Meta

(* A handler's next step replaces its own and nobody else's.               *)
LEMMA RecordMoves ==
  ASSUME RecordTypes, NEW t \in Threads, NEW o \in RecordOps, Go(t, o)
  PROVE  /\ op' \in [Threads -> RecordOps]
         /\ op'[t] = o
         /\ \A u \in Threads \ {t} : op'[u] = op[u]
  BY DEF RecordTypes, Go

(* Every step of a handler keeps the invariant of the records. *)
LEMMA RecordInvNext == RecordInv /\ [RecordNext]_recordVars => RecordInv'
<1> SUFFICES ASSUME RecordInv, [RecordNext]_recordVars PROVE RecordInv'
  OBVIOUS
<1>0. NoOp \in RecordOps /\ NoOp.pc = "idle" /\ NoOp.meta.key = 0
  BY DEF NoOp, NoMeta, RecordOps, RecordPoints, Meta
<1>a. \A t \in Threads : op[t] \in RecordOps
  BY DEF RecordInv, RecordTypes
<1>1. ASSUME NEW t \in Threads, NEW k \in Kinds, NEW w \in Emails \cup {Nobody},
             Arrive(t, k, w)
      PROVE  RecordInv'
  <2> DEFINE o == [NoOp EXCEPT !.kind = k, !.meta.owner = w,
                     !.pc = IF k \in {"provision", "create"} THEN "home" ELSE "load"]
  <2>1. o \in RecordOps /\ o.pc \in {"home", "load"} /\ o.meta.key = 0
    BY DEF NoOp, NoMeta, RecordOps, RecordPoints, Meta
  <2>2. Go(t, o) /\ UNCHANGED <<file, keys, used>>
    BY <1>1 DEF Arrive
  <2> HIDE DEF o
  <2> QED
    BY <2>1, <2>2, RecordMoves DEF RecordInv, RecordTypes, KeysAreNew, Carries
<1>2. ASSUME NEW t \in Threads, MakeHome(t) PROVE RecordInv'
  <2> DEFINE o == [op[t] EXCEPT !.pc = "load"]
  <2>1. o \in RecordOps /\ o.pc = "load" /\ o.meta = op[t].meta
    BY <1>a DEF RecordOps, RecordPoints
  <2>2. Go(t, o) /\ UNCHANGED <<file, keys, used>> /\ op[t].pc = "home"
    BY <1>2 DEF MakeHome, At
  <2> HIDE DEF o
  <2> QED
    BY <2>1, <2>2, RecordMoves DEF RecordInv, RecordTypes, KeysAreNew, Carries
<1>3. ASSUME NEW t \in Threads, LoadMeta(t) PROVE RecordInv'
  <2> DEFINE d == DecideRecord(t, file.whole)
             o(m) == [op[t] EXCEPT !.pc = "open", !.meta = m]
             new == [d.meta EXCEPT !.key = keys']
  <2>1. UNCHANGED <<file, used>> /\ op[t].pc = "load"
        /\ op[t].meta \in Meta /\ op[t].meta.key = 0
    BY <1>3, <1>a DEF LoadMeta, At, RecordInv, KeysAreNew, RecordOps
  <2>2. /\ d.meta \in Meta
        /\ ~d.keyed => d.meta = op[t].meta
    BY <2>1 DEF DecideRecord, RecordInv, RecordTypes
  <2>3. ASSUME NEW m \in Meta
        PROVE  o(m) \in RecordOps /\ o(m).pc = "open" /\ o(m).meta = m
    BY <1>a DEF RecordOps, RecordPoints
  <2>4. CASE Go(t, NoOp) /\ UNCHANGED keys
    BY <1>0, <2>1, <2>4, RecordMoves DEF RecordInv, RecordTypes, KeysAreNew, Carries
  <2>5. CASE keys' = keys + 1 /\ Go(t, o(new))
    <3>1. keys' \in Nat /\ new \in Meta /\ new.key = keys'
      BY <2>2, <2>5 DEF Meta, RecordInv, RecordTypes
    <3>2. o(new) \in RecordOps /\ o(new).pc = "open" /\ o(new).meta = new
      BY <2>3, <3>1
    <3> HIDE DEF new, o, d
    <3>3. /\ op' \in [Threads -> RecordOps] /\ op'[t].pc = "open"
          /\ op'[t].meta.key = keys'
          /\ \A u \in Threads \ {t} : op'[u] = op[u]
      BY <2>5, <3>1, <3>2, RecordMoves DEF RecordInv
    <3>4. RecordTypes'
      BY <2>1, <2>5, <3>1, <3>3 DEF RecordInv, RecordTypes
    <3>5. keys \in Nat /\ used \subseteq 0 .. keys
          /\ \A u \in Threads : op[u].meta.key \in Nat
      BY <1>a DEF RecordInv, RecordTypes, RecordOps, Meta
    <3> QED
      BY <2>1, <2>5, <3>3, <3>4, <3>5 DEF RecordInv, KeysAreNew, Carries
  <2>6. CASE ~d.keyed /\ Go(t, o(d.meta)) /\ UNCHANGED keys
    <3>1. o(d.meta) \in RecordOps /\ o(d.meta).pc = "open" /\ o(d.meta).meta.key = 0
      BY <2>1, <2>2, <2>3, <2>6
    <3> HIDE DEF o, d
    <3> QED
      BY <2>1, <2>6, <3>1, RecordMoves DEF RecordInv, RecordTypes, KeysAreNew, Carries
  <2> QED
    BY <1>3, <2>4, <2>5, <2>6 DEF LoadMeta
<1>4. ASSUME NEW t \in Threads, OpenMeta(t) PROVE RecordInv'
  <2> DEFINE o == [op[t] EXCEPT !.pc = "write", !.open = TRUE]
  <2>1. o \in RecordOps /\ o.pc = "write" /\ o.meta = op[t].meta
    BY <1>a DEF RecordOps, RecordPoints
  <2>2. Go(t, o) /\ UNCHANGED <<keys, used>> /\ op[t].pc = "open"
        /\ file' = [file EXCEPT !.size = 0, !.whole = FALSE]
    BY <1>4 DEF OpenMeta, At
  <2>3. file'.meta = file.meta
    BY <2>2
  <2> HIDE DEF o
  <2> QED
    BY <2>1, <2>2, <2>3, RecordMoves DEF RecordInv, RecordTypes, KeysAreNew, Carries
<1>5. ASSUME NEW t \in Threads, WriteMeta(t) PROVE RecordInv'
  <2> DEFINE o == [op[t] EXCEPT !.pc = "reply"]
  <2>1. o \in RecordOps /\ o.pc = "reply" /\ op[t].meta \in Meta
    BY <1>a DEF RecordOps, RecordPoints
  <2>2. Go(t, o) /\ UNCHANGED keys /\ op[t].pc = "write"
        /\ used' = used \cup {op[t].meta.key}
    BY <1>5 DEF WriteMeta, At
  <2>3. file'.meta \in Meta
    <3>1. CASE op[t].open
      BY <1>5, <2>1, <3>1 DEF WriteMeta
    <3>2. CASE ~op[t].open
      BY <1>5, <3>2 DEF WriteMeta, RecordInv, RecordTypes
    <3> QED
      BY <3>1, <3>2
  <2>4. op[t].meta.key \in 0 .. keys
    BY <2>1, <2>2 DEF RecordInv, RecordTypes, KeysAreNew, Carries, Meta
  <2> HIDE DEF o
  <2>5. /\ op' \in [Threads -> RecordOps] /\ op'[t].pc = "reply"
        /\ \A u \in Threads \ {t} : op'[u] = op[u]
    BY <2>1, <2>2, RecordMoves DEF RecordInv
  <2>6. RecordTypes'
    BY <2>2, <2>3, <2>4, <2>5 DEF RecordInv, RecordTypes
  <2>7. \A u \in Threads \ {t} :
          Carries(u) => op[u].meta.key \notin used /\ op[u].meta.key <= keys
                        /\ op[u].meta.key # op[t].meta.key
    <3> SUFFICES ASSUME NEW u \in Threads \ {t}, Carries(u)
                 PROVE  op[u].meta.key \notin used /\ op[u].meta.key <= keys
                        /\ op[u].meta.key # op[t].meta.key
      OBVIOUS
    <3>1. op[u].meta.key # 0 /\ (op[t].meta.key # 0 => Carries(t))
      BY <2>2 DEF Carries
    <3> QED
      BY <3>1 DEF RecordInv, KeysAreNew
  <2>8. KeysAreNew'
    BY <2>2, <2>5, <2>7 DEF RecordInv, KeysAreNew, Carries
  <2> QED
    BY <2>6, <2>8 DEF RecordInv
<1>6. ASSUME NEW t \in Threads, Answer(t) PROVE RecordInv'
  BY <1>0, <1>6, RecordMoves DEF Answer, RecordInv, RecordTypes, KeysAreNew, Carries
<1>7. CASE DeleteTenant
  <2> DEFINE o(t) == [op[t] EXCEPT !.open = FALSE]
  <2>1. \A t \in Threads : /\ o(t) \in RecordOps /\ o(t).pc = op[t].pc
                          /\ o(t).meta = op[t].meta
    BY <1>a DEF RecordOps
  <2>2. op' = [t \in Threads |-> o(t)] /\ UNCHANGED <<keys, used>>
        /\ file' = NoFile
    BY <1>7 DEF DeleteTenant
  <2>3. file'.meta \in Meta
    BY <2>2 DEF NoFile, NoMeta, Meta
  <2> HIDE DEF o
  <2> QED
    BY <2>1, <2>2, <2>3 DEF RecordInv, RecordTypes, KeysAreNew, Carries
<1>8. CASE Crash
  BY <1>0, <1>8 DEF Crash, RecordInv, RecordTypes, KeysAreNew, Carries
<1>9. CASE UNCHANGED recordVars
  BY <1>9 DEF recordVars, RecordInv, RecordTypes, KeysAreNew, Carries
<1> QED
  BY <1>1, <1>2, <1>3, <1>4, <1>5, <1>6, <1>7, <1>8, <1>9 DEF RecordNext

(* While the record has not been taken for missing, a handler that is to   *)
(* save one without a key is alone: the tenant has had no key, and no      *)
(* other handler brings one.                                               *)
Sealed ==
  ~unsealed => \A t \in Threads : Keyless(t) =>
                 used \subseteq {0} /\ \A u \in Threads : ~Carries(u)

(* Every step keeps the tenant sealed, or notes that it is not.            *)
LEMMA SealedNext == RecordInv /\ Sealed /\ [RecordNext]_recordVars => Sealed'
<1> SUFFICES ASSUME RecordInv, Sealed, [RecordNext]_recordVars PROVE Sealed'
  OBVIOUS
<1>0. NoOp.pc = "idle" /\ NoOp.open = FALSE
  BY DEF NoOp
<1>a. /\ op \in [Threads -> RecordOps]
      /\ \A t \in Threads : op[t] \in RecordOps
  BY DEF RecordInv, RecordTypes
(* The handlers at the file are those of before, with what they had.       *)
<1>b. ASSUME UNCHANGED <<used, unsealed>>,
             \A t \in Threads : op'[t].pc \in {"open", "write"} =>
               op[t].pc \in {"open", "write"} /\ op'[t].meta = op[t].meta
      PROVE  Sealed'
  BY <1>b DEF Sealed, Keyless, Carries
<1>1. ASSUME NEW t \in Threads, NEW k \in Kinds, NEW w \in Emails \cup {Nobody},
             Arrive(t, k, w)
      PROVE  Sealed'
  <2> DEFINE o == [NoOp EXCEPT !.kind = k, !.meta.owner = w,
                     !.pc = IF k \in {"provision", "create"} THEN "home" ELSE "load"]
  <2>1. o.pc \in {"home", "load"}
    BY DEF NoOp, NoMeta
  <2>2. op' = [op EXCEPT ![t] = o] /\ UNCHANGED <<used, unsealed>>
    BY <1>1 DEF Arrive, Go
  <2> HIDE DEF o
  <2> QED
    BY <1>a, <1>b, <2>1, <2>2
<1>2. ASSUME NEW t \in Threads, MakeHome(t) PROVE Sealed'
  <2> DEFINE o == [op[t] EXCEPT !.pc = "load"]
  <2>1. o.pc = "load"
    BY <1>a DEF RecordOps
  <2>2. op' = [op EXCEPT ![t] = o] /\ UNCHANGED <<used, unsealed>>
    BY <1>2 DEF MakeHome, Go
  <2> HIDE DEF o
  <2> QED
    BY <1>a, <1>b, <2>1, <2>2
<1>3. ASSUME NEW t \in Threads, LoadMeta(t) PROVE Sealed'
  <2> DEFINE d == DecideRecord(t, file.whole)
             o(m) == [op[t] EXCEPT !.pc = "open", !.meta = m]
             new == [d.meta EXCEPT !.key = keys']
  <2>1. used' = used /\ op[t].pc = "load" /\ op[t].meta \in Meta /\ op[t].meta.key = 0
    BY <1>3, <1>a DEF LoadMeta, At, RecordInv, KeysAreNew, RecordOps
  <2>2. d.meta \in Meta /\ (~d.keyed => d.meta = op[t].meta)
    BY <2>1 DEF DecideRecord, RecordInv, RecordTypes
  <2>3. \A m \in Meta : o(m).pc = "open" /\ o(m).meta = m
    BY <1>a DEF RecordOps
  <2>4. CASE op' = [op EXCEPT ![t] = NoOp] /\ UNCHANGED unsealed
    BY <1>0, <1>a, <1>b, <2>1, <2>4
  <2>5. CASE /\ keys' = keys + 1 /\ op' = [op EXCEPT ![t] = o(new)]
             /\ unsealed' = (unsealed \/ \E u \in Threads : Keyless(u))
    <3>1. new \in Meta /\ new.key # 0
      BY <2>2, <2>5 DEF Meta, RecordInv, RecordTypes
    <3>2. o(new).meta = new
      BY <2>3, <3>1
    <3> HIDE DEF new, o, d
    <3>3. op'[t].meta.key # 0 /\ \A u \in Threads \ {t} : op'[u] = op[u]
      BY <1>a, <2>5, <3>1, <3>2
    <3> QED
      BY <2>1, <2>5, <3>3 DEF Sealed, Keyless
  <2>6. CASE /\ op' = [op EXCEPT ![t] = o(d.meta)] /\ ~d.keyed
             /\ unsealed' = (unsealed \/ used \ {0} # {} \/ \E u \in Threads : Carries(u))
    <3>1. o(d.meta).meta.key = 0
      BY <2>1, <2>2, <2>3, <2>6
    <3> HIDE DEF o, d
    <3>2. op'[t].meta.key = 0 /\ \A u \in Threads \ {t} : op'[u] = op[u]
      BY <1>a, <2>6, <3>1
    <3> QED
      BY <2>1, <2>6, <3>2 DEF Sealed, Keyless, Carries
  <2> QED
    BY <1>3, <2>4, <2>5, <2>6 DEF LoadMeta, Go
<1>4. ASSUME NEW t \in Threads, OpenMeta(t) PROVE Sealed'
  <2> DEFINE o == [op[t] EXCEPT !.pc = "write", !.open = TRUE]
  <2>1. o.pc = "write" /\ o.meta = op[t].meta
    BY <1>a DEF RecordOps
  <2>2. op' = [op EXCEPT ![t] = o] /\ UNCHANGED <<used, unsealed>> /\ op[t].pc = "open"
    BY <1>4 DEF OpenMeta, At, Go
  <2> HIDE DEF o
  <2> QED
    BY <1>a, <1>b, <2>1, <2>2
<1>5. ASSUME NEW t \in Threads, WriteMeta(t) PROVE Sealed'
  <2> DEFINE o == [op[t] EXCEPT !.pc = "reply"]
  <2>1. o.pc = "reply"
    BY <1>a DEF RecordOps
  <2>2. op' = [op EXCEPT ![t] = o] /\ UNCHANGED unsealed /\ op[t].pc = "write"
        /\ used' = used \cup {op[t].meta.key}
    BY <1>5 DEF WriteMeta, At, Go
  <2> HIDE DEF o
  <2>3. op'[t].pc = "reply" /\ \A u \in Threads \ {t} : op'[u] = op[u]
    BY <1>a, <2>1, <2>2
  <2>4. Carries(t) \/ op[t].meta.key = 0
    BY <2>2 DEF Carries
  <2> QED
    BY <2>2, <2>3, <2>4 DEF Sealed, Keyless, Carries
<1>6. ASSUME NEW t \in Threads, Answer(t) PROVE Sealed'
  <2>1. op' = [op EXCEPT ![t] = NoOp] /\ UNCHANGED <<used, unsealed>>
    BY <1>6 DEF Answer, Go
  <2> QED
    BY <1>0, <1>a, <1>b, <2>1
<1>7. CASE DeleteTenant
  <2> DEFINE o(t) == [op[t] EXCEPT !.open = FALSE]
  <2>1. \A t \in Threads : o(t).pc = op[t].pc /\ o(t).meta = op[t].meta
    BY <1>a DEF RecordOps
  <2>2. op' = [t \in Threads |-> o(t)] /\ UNCHANGED <<used, unsealed>>
    BY <1>7 DEF DeleteTenant
  <2> HIDE DEF o
  <2> QED
    BY <1>b, <2>1, <2>2
<1>8. CASE Crash
  BY <1>0, <1>8, <1>b DEF Crash
<1>9. CASE UNCHANGED recordVars
  BY <1>9, <1>b DEF recordVars
<1> QED
  BY <1>1, <1>2, <1>3, <1>4, <1>5, <1>6, <1>7, <1>8, <1>9 DEF RecordNext

(* "Old key stops working immediately" (surface/admin.py:261): a key that  *)
(* stopped working never works again through a handler that saves an old   *)
(* record, and through a record without a key only when a handler took the *)
(* tenant's record for missing.                                            *)
THEOREM ReplacedKeysStayDead == RecordSpec => OldKeysStayDead
<1>1. RecordInv /\ Sealed /\ [RecordNext]_recordVars =>
        [\A k \in used \ {0} :
           Opens(k)' => Opens(k) \/ (file'.meta.key = 0 /\ unsealed)]_recordVars
  <2> SUFFICES ASSUME RecordInv, Sealed, RecordNext, NEW k \in used \ {0}, Opens(k)'
               PROVE  Opens(k) \/ (file'.meta.key = 0 /\ unsealed)
    BY DEF recordVars
  <2>1. ASSUME NEW t \in Threads, WriteMeta(t)
        PROVE  Opens(k) \/ (file'.meta.key = 0 /\ unsealed)
    <3>1. op[t].meta.key # k
      BY <2>1 DEF WriteMeta, At, RecordInv, KeysAreNew, Carries
    <3>2. CASE ~op[t].open
      BY <2>1, <3>2 DEF WriteMeta, Opens
    <3>3. CASE op[t].open
      <4>1. file'.meta = op[t].meta
        BY <2>1, <3>3 DEF WriteMeta
      <4>2. op[t].meta.key = 0
        BY <3>1, <4>1 DEF Opens
      <4>3. Keyless(t)
        BY <2>1, <4>2 DEF WriteMeta, At, Keyless
      <4>4. unsealed
        BY <4>3 DEF Sealed
      <4> QED
        BY <4>1, <4>2, <4>4
    <3> QED
      BY <3>2, <3>3
  <2>2. ASSUME NEW t \in Threads, OpenMeta(t) PROVE FALSE
    <3>1. file' = [file EXCEPT !.size = 0, !.whole = FALSE]
      BY <2>2 DEF OpenMeta
    <3> QED
      BY <3>1 DEF Opens
  <2>3. CASE DeleteTenant
    BY <2>3 DEF DeleteTenant, NoFile, Opens
  <2>4. CASE file' = file
    BY <2>4 DEF Opens
  <2> QED
    BY <2>1, <2>2, <2>3, <2>4
    DEF RecordNext, Crash, Arrive, MakeHome, LoadMeta, Answer
<1>2. RecordInit => Sealed
  BY DEF RecordInit, Sealed, Keyless, NoOp
<1> QED
  BY <1>1, <1>2, RecordInvInit, RecordInvNext, SealedNext, PTL DEF RecordSpec, OldKeysStayDead

---------------------------------------------------------------------------
(* Owners.  A verification that holds the lock holds the link, and one that *)
(* is past it is the link's only user, ever.                               *)
LinkStates == {"none", "live", "late", "gone"}
LinkEmails     == Addresses \cup {"none"}
VerifyServing    == {"find", "open"}
VerifyPoints     == {"idle", "consume", "delete"} \cup VerifyServing

Verification ==
  [pc : VerifyPoints, link : Links \cup {"none"}, email : LinkEmails, owner : Nat]

OwnerTypes ==
  /\ link \in [Links -> [state : LinkStates, email : LinkEmails]]
  /\ verify \in [Handlers -> Verification]
  /\ IsFiniteSet(owners) /\ \A o \in owners : o.id \in Nat
  /\ locked \subseteq Handlers
  /\ \A t \in Handlers : verify[t].pc # "idle" => verify[t].link \in Links
  /\ \A s \in opened : s.link \in Links

(* Between the lookup of a link and its deletion the lock is held.         *)
LinkLocking ==
  /\ \A t, u \in locked : t = u
  /\ \A t \in Handlers : Is(t, "delete") <=> t \in locked
  /\ \A t \in locked : link[verify[t].link].state \in {"live", "late"}

(* What a link has served for is gone, and it served one verification.     *)
LinksSpent ==
  /\ \A s \in opened : link[s.link].state = "gone"
  /\ \A t \in Handlers : verify[t].pc \in VerifyServing =>
       /\ link[verify[t].link].state = "gone"
       /\ \A s \in opened : s.link # verify[t].link
       /\ \A u \in Handlers :
            verify[u].pc \in VerifyServing /\ verify[u].link = verify[t].link => u = t

OwnerInv == OwnerTypes /\ LinkLocking /\ LinksSpent /\ LinkOpensOneSession

(* A new database and an idle server are in the invariant.                 *)
LEMMA OwnerInvInit == OwnerInit => OwnerInv
  BY FS_EmptySet
  DEF OwnerInit, OwnerInv, OwnerTypes, LinkLocking, LinksSpent, LinkOpensOneSession, NoLink,
      NoVerify, Is, LinkStates, LinkEmails, VerifyServing, VerifyPoints, Verification

(* A thread's next verification replaces its own and nobody else's.        *)
LEMMA VerifyMoves ==
  ASSUME OwnerTypes, NEW t \in Handlers, NEW v \in Verification, To(t, v)
  PROVE  /\ verify' \in [Handlers -> Verification]
         /\ verify'[t] = v
         /\ \A u \in Handlers \ {t} : verify'[u] = verify[u]
  BY DEF OwnerTypes, To

(* Each step of a verification, of the other handlers and of time keeps it.*)
LEMMA OwnerInvNext == OwnerInv /\ [OwnerNext]_ownerVars => OwnerInv'
<1> SUFFICES ASSUME OwnerInv, [OwnerNext]_ownerVars PROVE OwnerInv'
  OBVIOUS
<1> USE DEF OwnerInv, OwnerTypes, LinkLocking, LinksSpent, LinkOpensOneSession, Is,
            LinkStates, LinkEmails, VerifyServing
<1>0. NoVerify \in Verification
  BY DEF NoVerify, Verification, VerifyPoints
<1>a. \A t \in Handlers :
        /\ verify[t] \in Verification
        /\ DOMAIN verify[t] = {"pc", "link", "email", "owner"}
  BY DEF Verification
<1>b. {"find", "open", "delete"} \subseteq VerifyPoints
  BY DEF VerifyPoints
<1>1. ASSUME NEW l \in Links, NEW e \in Addresses, IssueLink(l, e)
      PROVE OwnerInv'
  BY <1>1 DEF IssueLink
<1>2. ASSUME NEW l \in Links, ExpireLink(l) PROVE OwnerInv'
  BY <1>2 DEF ExpireLink
<1>3. ASSUME NEW t \in Handlers, NEW l \in Links, StartVerify(t, l)
      PROVE OwnerInv'
  <2> DEFINE v == [NoVerify EXCEPT !.pc = "consume", !.link = l]
  <2>1. v \in Verification /\ v.pc = "consume" /\ v.link = l
    BY DEF NoVerify, Verification, VerifyPoints
  <2>2. To(t, v) /\ UNCHANGED <<link, owners, sessions, opened, locked>>
        /\ verify[t].pc = "idle"
    BY <1>3 DEF StartVerify
  <2> HIDE DEF v
  <2>3. /\ verify' \in [Handlers -> Verification]
        /\ verify'[t] = v
        /\ \A u \in Handlers \ {t} : verify'[u] = verify[u]
    BY <2>1, <2>2, VerifyMoves
  <2>4. OwnerTypes'
    BY <2>1, <2>2, <2>3 DEF Verification
  <2>5. LinkLocking'
    BY <2>1, <2>2, <2>3
  <2>6. LinksSpent'
    BY <2>1, <2>2, <2>3
  <2> QED
    BY <2>2, <2>4, <2>5, <2>6
<1>4. ASSUME NEW t \in Handlers, SelectLink(t) PROVE OwnerInv'
  <2> DEFINE v == [verify[t] EXCEPT !.pc = "delete"]
  <2>1. v \in Verification /\ v.pc = "delete" /\ v.link = verify[t].link
    BY <1>a, <1>b DEF Verification
  <2>2. NoVerify.pc = "idle"
    BY DEF NoVerify
  <2>3. CASE /\ link[verify[t].link].state \in {"live", "late"}
             /\ To(t, v) /\ locked' = {t}
    <3> HIDE DEF v
    <3> QED
      BY <1>4, <2>1, <2>3, VerifyMoves DEF SelectLink
  <2>4. CASE To(t, NoVerify) /\ UNCHANGED locked
    BY <1>0, <1>4, <2>2, <2>4, VerifyMoves DEF SelectLink
  <2> QED
    BY <1>4, <2>3, <2>4 DEF SelectLink
<1>5. ASSUME NEW t \in Handlers, DeleteLink(t) PROVE OwnerInv'
  <2> DEFINE l == verify[t].link
             v == [verify[t] EXCEPT !.pc = "find", !.email = link[l].email]
  <2>1. l \in Links /\ t \in locked /\ link[l].state \in {"live", "late"}
    BY <1>5 DEF DeleteLink
  <2>a. link[l].email \in LinkEmails
    BY <2>1
  <2>2. v \in Verification /\ v.pc = "find" /\ v.link = l
    BY <2>a, <1>a, <1>b DEF Verification
  <2>3. NoVerify.pc = "idle"
    BY DEF NoVerify
  <2>4. /\ link' = [link EXCEPT ![l].state = "gone"]
        /\ locked' = locked \ {t} /\ UNCHANGED <<owners, sessions, opened>>
        /\ To(t, NoVerify) \/ To(t, v)
        /\ verify[t].pc = "delete"
    BY <1>5 DEF DeleteLink
  <2>5. /\ link' \in [Links -> [state : LinkStates, email : LinkEmails]]
        /\ link'[l].state = "gone"
        /\ \A k \in Links : k # l => link'[k] = link[k]
    BY <2>1, <2>4
  <2> HIDE DEF l, v
  <2>6. CASE To(t, NoVerify)
    BY <1>0, <2>1, <2>3, <2>4, <2>5, <2>6, VerifyMoves
  <2>7. CASE To(t, v)
    <3>1. \A u \in Handlers : verify[u].pc \in VerifyServing => verify[u].link # l
      BY <2>1
    <3> QED
      BY <2>1, <2>2, <2>4, <2>5, <2>7, <3>1, VerifyMoves DEF l
  <2> QED
    BY <2>4, <2>6, <2>7
<1>6. ASSUME NEW t \in Handlers, FindOwner(t) PROVE OwnerInv'
  <2> DEFINE mine == {o \in owners : o.email = verify[t].email}
             id   == Cardinality(owners) + 1
             row  == [id |-> id, email |-> verify[t].email]
             v(n) == [verify[t] EXCEPT !.pc = "open", !.owner = n]
  <2>a. IsFiniteSet(owners)
    OBVIOUS
  <2>b. id \in Nat
    BY ONLY <2>a, FS_CardinalityType
  <2>c. IsFiniteSet(owners \cup {row})
    BY ONLY <2>a, FS_AddElement
  <2>1. id \in Nat /\ IsFiniteSet(owners \cup {row}) /\ row.id = id
    BY <2>b, <2>c
  <2>2. ASSUME NEW n \in Nat
        PROVE  v(n) \in Verification /\ v(n).pc = "open"
               /\ v(n).link = verify[t].link
    BY <1>a, <1>b DEF Verification
  <2>3. PICK n \in Nat : /\ To(t, v(n))
                         /\ owners' = owners \/ owners' = owners \cup {row}
    BY <1>6, <2>1 DEF FindOwner
  <2>4. IsFiniteSet(owners') /\ \A o \in owners' : o.id \in Nat
    BY <2>1, <2>3
  <2>5. UNCHANGED <<link, sessions, opened, locked>> /\ verify[t].pc = "find"
    BY <1>6 DEF FindOwner
  <2> HIDE DEF v
  <2> QED
    BY <2>2, <2>3, <2>4, <2>5, VerifyMoves
<1>7. ASSUME NEW t \in Handlers, OpenSession(t) PROVE OwnerInv'
  <2> DEFINE s == [token |-> Opened + 1, owner |-> verify[t].owner,
                    link |-> verify[t].link]
  <2>1. opened' = opened \cup {s} /\ s.link = verify[t].link
    BY <1>7 DEF OpenSession
  <2>2. /\ UNCHANGED <<link, owners, locked>> /\ To(t, NoVerify)
        /\ verify[t].pc = "open" /\ NoVerify.pc = "idle"
    BY <1>7 DEF OpenSession, NoVerify
  <2> HIDE DEF s
  <2> QED
    BY <1>0, <2>1, <2>2, VerifyMoves
<1>8. ASSUME NEW s \in sessions, EndSession(s) PROVE OwnerInv'
  BY <1>8 DEF EndSession
<1>9. CASE StopServer
  BY <1>0, <1>9 DEF StopServer, NoVerify
<1>10. CASE UNCHANGED ownerVars
  BY <1>10 DEF ownerVars
<1> QED
  BY <1>1, <1>2, <1>3, <1>4, <1>5, <1>6, <1>7, <1>8, <1>9, <1>10
  DEF OwnerNext, OwnerStep

(* business_owners.py:152: a link signs in once, however many handlers     *)
(* verify it together and whenever the server is stopped.                  *)
THEOREM LinksOpenOneSession == OwnerSpec => []LinkOpensOneSession
<1>1. OwnerInv => LinkOpensOneSession
  BY DEF OwnerInv
<1> QED
  BY <1>1, OwnerInvInit, OwnerInvNext, PTL DEF OwnerSpec

---------------------------------------------------------------------------
(* Storefront.  A request that is answered with an order has held the lock *)
(* of its order store, and so has whoever was filling the order: with one  *)
(* order store, the order was full, or cut short by a crash.               *)
PriceRows  == [name : Nat, price : Nat]
Orders     == [prices : SUBSET (Items \X Nat), items : SUBSET (Items \X Nat),
               torn : BOOLEAN, made : BOOLEAN]
Within     == {"look", "row", "items"}
ReqPoints  == {"idle", "price", "open", "make", "enter", "push", "mine", "slots"}
              \cup Within
StoreIds   == Clients \cup {NoStore}
BookingReq == [op : {"book", "mine", "slots"}, pc : ReqPoints,
               priced : SUBSET (Items \X Nat), lock : StoreIds, got : Orders,
               taken : BOOLEAN, free : BOOLEAN]
Edits      == [pc : {"idle", "write"}, id : Items \cup {"none"}, row : PriceRows]

CatTypes == rows \in [Items -> PriceRows] /\ edit \in [Editors -> Edits]

OrderTypes ==
  /\ order \in [Keys -> Orders]
  /\ req \in [Clients -> BookingReq]
  /\ store \in StoreIds /\ IsFiniteSet(stores) /\ holder \subseteq Clients

(* A request that got as far as the lock has it of a store that was made.  *)
LocksKnown ==
  /\ store # NoStore => store \in stores
  /\ \A c \in Clients :
       /\ req[c].pc \in {"make", "enter"} \cup Within => req[c].lock \in stores
       /\ req[c].pc = "make" => req[c].lock = c

OneInside ==
  /\ \A c \in Clients : c \in holder <=> req[c].pc \in Within
  /\ \A c, d \in holder : req[c].lock = req[d].lock => c = d

(* An order lacks items while one request fills it, or since a crash.      *)
OrdersFilled ==
  /\ \A k \in Keys : /\ order[k].items \subseteq order[k].prices
                     /\ order[k].torn => order[k].made
  /\ \A c \in Clients : req[c].pc = "items" =>
       /\ order[Key(c)].made /\ ~order[Key(c)].torn
       /\ order[Key(c)].prices = req[c].priced
  /\ \A c, d \in Clients :
       req[c].pc = "items" /\ req[d].pc = "items" /\ Key(c) = Key(d) => c = d
  /\ \A k \in Keys : order[k].made =>
       \/ order[k].items = order[k].prices \/ order[k].torn
       \/ \E c \in Clients : Key(c) = k /\ req[c].pc = "items"

AnswersWhole ==
  \A c \in Clients :
    /\ req[c].got.made => \/ req[c].got.items = req[c].got.prices
                          \/ order[Key(c)].torn
                          \/ Cardinality(stores) > 1
    /\ req[c].taken =>
         order[Key(c)].made /\ (req[c].pc = "slots" => req[c].got.made)
    /\ ~(req[c].free /\ req[c].taken)

OrderInv == OrderTypes /\ LocksKnown /\ OneInside /\ OrdersFilled /\ AnswersWhole
StoreInv == CatTypes /\ OrderInv

(* An empty catalogue, no orders and no store. *)
LEMMA StoreInvInit == StoreInit => StoreInv
<1> SUFFICES ASSUME StoreInit PROVE StoreInv
  OBVIOUS
<1> USE DEF StoreInit
<1>1. CatTypes
  BY DEF CatTypes, PriceRows, Edits, NoRow, NoEdit
<1>2. NoReq \in BookingReq /\ NoOrder \in Orders
  BY DEF BookingReq, NoReq, NoOrder, Orders, ReqPoints, StoreIds
<1>3. OrderTypes
  BY <1>2, FS_EmptySet DEF OrderTypes, StoreIds
<1>4. LocksKnown /\ OneInside /\ OrdersFilled /\ AnswersWhole
  BY DEF LocksKnown, OneInside, OrdersFilled, AnswersWhole, NoReq, NoOrder,
         Within
<1> QED
  BY <1>1, <1>3, <1>4 DEF StoreInv, OrderInv

(* The catalogue keeps its types, whatever is done to it.                  *)
LEMMA CatTypesStep == ASSUME CatTypes, [StoreNext]_storeVars PROVE CatTypes'
<1> USE DEF CatTypes
<1>1. NoRow \in PriceRows /\ DefaultRow \in PriceRows /\ NoEdit \in Edits
  BY DEF NoRow, NoEdit, DefaultRow, PriceRows, Edits
<1>2. \A v \in Values : [name |-> v, price |-> v] \in PriceRows
  BY StoreAssumption DEF PriceRows
<1>3. CASE LoadCatalogue
  BY <1>1, <1>3 DEF LoadCatalogue, SeededRows
<1>4. CASE CreateService \/ DeleteService \/ CreateProfessional
           \/ DeleteProfessional
  <2>1. PICK i \in Items, r \in PriceRows : PutRow(i, r)
    BY <1>1, <1>2, <1>4, StoreAssumption
    DEF CreateService, DeleteService, CreateProfessional, DeleteProfessional
  <2> QED
    BY <2>1 DEF PutRow
<1>5. ASSUME NEW e \in Editors, UpdateService(e) \/ UpdateProfessional(e)
      PROVE  CatTypes'
  <2>1. PICK i \in Items : ReadRow(e, i)
    BY <1>5, StoreAssumption DEF UpdateService, UpdateProfessional
  <2>2. PICK v \in Values, f \in {"name", "price"} :
          edit' = [edit EXCEPT ![e] = [pc |-> "write", id |-> i,
                                       row |-> [rows[i] EXCEPT ![f] = v]]]
    BY <2>1 DEF ReadRow
  <2>3. [rows[i] EXCEPT ![f] = v] \in PriceRows
    BY StoreAssumption DEF PriceRows
  <2>4. rows' = rows
    BY <2>1 DEF ReadRow
  <2> QED
    BY <2>2, <2>3, <2>4 DEF Edits
<1>6. ASSUME NEW e \in Editors, UpsertService(e) \/ UpsertProfessional(e)
      PROVE  CatTypes'
  <2>1. edit[e].row \in PriceRows
    BY DEF Edits
  <2> QED
    BY <1>1, <1>6, <2>1 DEF UpsertService, UpsertProfessional, WriteRow
<1>7. CASE ClearHours \/ InsertHours \/ Register \/ Unregister \/ UNCHANGED storeVars
  BY <1>7 DEF ClearHours, InsertHours, Register, Unregister, storeVars, catVars
<1>8. CASE Restart
  BY <1>1, <1>8 DEF Restart
<1>9. ASSUME NEW c \in Clients,
             Submit(c) \/ BookingStep(c) \/ LookingStep(c)
             \/ \E o \in {"mine", "slots"} : Browse(c, o)
      PROVE  CatTypes'
  BY <1>9 DEF Submit, BookingStep, LookingStep, Browse, Price, Open, Make, Enter,
              Look, InsertOrder, InsertItem, FirePush, ListOrders, user_bookings,
              compute_available_slots, catVars
<1> QED
  BY <1>3, <1>4, <1>5, <1>6, <1>7, <1>8, <1>9 DEF StoreNext

(* A request's next step replaces its own and nobody else's.               *)
LEMMA RequestMoves ==
  ASSUME OrderTypes, NEW c \in Clients, NEW r \in BookingReq, Put(c, r)
  PROVE  /\ req' \in [Clients -> BookingReq]
         /\ req'[c] = r
         /\ \A d \in Clients \ {c} : req'[d] = req[d]
  BY DEF OrderTypes, Put

(* Steps outside the lock that touch no order and make no order store.     *)
LEMMA StepsOutside ==
  ASSUME OrderInv, NEW c \in Clients, NEW r \in BookingReq, Put(c, r),
         UNCHANGED <<order, store, stores, holder>>,
         req[c].pc \notin Within \cup {"make"},
         r.pc \notin Within \cup {"make"},
         r.pc = "enter" => r.lock \in stores,
         r.got = req[c].got \/ ~r.got.made,
         r.taken => r.pc # "slots" /\ order[Key(c)].made,
         ~(r.free /\ r.taken)
  PROVE  OrderInv'
<1> USE DEF OrderInv
<1>1. /\ req' \in [Clients -> BookingReq] /\ req'[c] = r
      /\ \A d \in Clients \ {c} : req'[d] = req[d]
  BY RequestMoves
<1>2. OrderTypes'
  BY <1>1 DEF OrderTypes
<1>3. LocksKnown' /\ OneInside'
  BY <1>1 DEF LocksKnown, OneInside, OrderTypes
<1>4. OrdersFilled'
  BY <1>1 DEF OrdersFilled, Within, Key
<1>5. AnswersWhole'
  BY <1>1 DEF AnswersWhole, Key
<1> QED
  BY <1>2, <1>3, <1>4, <1>5

(* A request with the lock leaves it, with what it found of its order.     *)
LEMMA StepsOut ==
  ASSUME OrderInv, NEW c \in Clients, NEW p \in {"push", "mine", "slots"},
         req[c].pc \in Within,
         Put(c, [req[c] EXCEPT !.pc = p, !.got = order[Key(c)]]),
         holder' = holder \ {c}, UNCHANGED <<order, store, stores>>,
         req[c].pc = "items" => order[Key(c)].items = order[Key(c)].prices
  PROVE  OrderInv'
<1> DEFINE r == [req[c] EXCEPT !.pc = p, !.got = order[Key(c)]]
<1> USE DEF OrderInv
<1>0. Key(c) \in Keys
  BY StoreAssumption DEF Key
<1>1. /\ r \in BookingReq /\ r.pc = p /\ r.got = order[Key(c)]
      /\ r.lock = req[c].lock /\ r.taken = req[c].taken /\ r.free = req[c].free
  BY <1>0 DEF BookingReq, ReqPoints, OrderTypes
<1> HIDE DEF r
<1>2. /\ req' \in [Clients -> BookingReq] /\ req'[c] = r
      /\ \A d \in Clients \ {c} : req'[d] = req[d]
  BY <1>1, RequestMoves DEF r
<1>3. OrderTypes'
  BY <1>2 DEF OrderTypes
<1>4. LocksKnown' /\ OneInside'
  BY <1>1, <1>2 DEF LocksKnown, OneInside, OrderTypes, Within
<1>5. order[Key(c)].made => \/ order[Key(c)].items = order[Key(c)].prices
                            \/ order[Key(c)].torn
                            \/ Cardinality(stores) > 1
  <2> SUFFICES ASSUME order[Key(c)].made, ~order[Key(c)].torn,
                      order[Key(c)].items # order[Key(c)].prices
               PROVE  Cardinality(stores) > 1
    OBVIOUS
  <2>1. PICK d \in Clients : Key(d) = Key(c) /\ req[d].pc = "items"
    BY <1>0 DEF OrdersFilled
  <2>2. d # c /\ c \in holder /\ d \in holder
    BY <2>1 DEF OneInside, Within
  <2>3. req[c].lock # req[d].lock
    BY <2>2 DEF OneInside
  <2>4. req[c].lock \in stores /\ req[d].lock \in stores
    BY <2>1 DEF LocksKnown, Within
  <2>5. {req[c].lock, req[d].lock} \subseteq stores
    BY <2>4
  <2>6. Cardinality({req[c].lock, req[d].lock}) = 2
    <3> DEFINE x == req[c].lock
               y == req[d].lock
    <3>1. x # y
      BY <2>3
    <3> HIDE DEF x, y
    <3>2. IsFiniteSet({x}) /\ Cardinality({x}) = 1
      BY FS_Singleton
    <3>3. Cardinality({x} \cup {y}) = 2
      <4>1. y \notin {x}
        BY <3>1
      <4>2. Cardinality({x} \cup {y}) = IF y \in {x} THEN Cardinality({x}) ELSE Cardinality({x}) + 1
        BY <3>2, FS_AddElement
      <4> QED
        BY <3>2, <4>1, <4>2
    <3>4. {x, y} = {x} \cup {y}
      OBVIOUS
    <3> QED
      BY <3>3, <3>4 DEF x, y
  <2>7. IsFiniteSet(stores)
    BY DEF OrderTypes
  <2>8. Cardinality(stores) \in Nat /\ 2 <= Cardinality(stores)
    BY <2>5, <2>6, <2>7, FS_Subset, FS_CardinalityType
  <2> QED
    BY <2>8
<1>6. OrdersFilled'
  <2>1. \A d \in Clients : req'[d].pc = "items" =>
          d # c /\ req[d].pc = "items" /\ req'[d] = req[d]
    BY <1>1, <1>2
  <2>2. \A k \in Keys : order[k].made =>
          \/ order[k].items = order[k].prices \/ order[k].torn
          \/ \E d \in Clients : Key(d) = k /\ req'[d].pc = "items"
    BY <1>2 DEF OrdersFilled
  <2> QED
    BY <2>1, <2>2 DEF OrdersFilled, Key
<1>7. AnswersWhole'
  <2>1. req[c].taken => order[Key(c)].made
    BY DEF AnswersWhole
  <2> QED
    BY <1>1, <1>2, <1>5, <2>1 DEF AnswersWhole, Key
<1> QED
  BY <1>3, <1>4, <1>6, <1>7

(* The steps of a request up to the lock of its order store.               *)
LEMMA OpenKeeps ==
  ASSUME OrderInv, NEW c \in Clients, Open(c) PROVE OrderInv'
<1> USE DEF OrderInv
<1>1. CASE store # NoStore
  <2> DEFINE r == [req[c] EXCEPT !.pc = "enter", !.lock = store]
  <2>1. /\ r \in BookingReq /\ r.pc = "enter" /\ r.lock = store
        /\ r.got = req[c].got /\ r.taken = req[c].taken /\ r.free = req[c].free
    BY DEF BookingReq, ReqPoints, OrderTypes
  <2>2. /\ Put(c, r) /\ UNCHANGED <<order, store, stores, holder>>
        /\ req[c].pc = "open"
    BY <1>1 DEF Open
  <2> HIDE DEF r
  <2>3. r.taken => order[Key(c)].made
    BY <2>1 DEF AnswersWhole
  <2>4. store \in stores /\ ~(r.free /\ r.taken)
    BY <1>1, <2>1 DEF LocksKnown, AnswersWhole
  <2> QED
    BY <2>1, <2>2, <2>3, <2>4, StepsOutside DEF Within
<1>2. CASE store = NoStore
  <2> DEFINE r == [req[c] EXCEPT !.pc = "make", !.lock = c]
  <2>1. /\ r \in BookingReq /\ r.pc = "make" /\ r.lock = c
        /\ r.got = req[c].got /\ r.taken = req[c].taken /\ r.free = req[c].free
    BY DEF BookingReq, ReqPoints, OrderTypes, StoreIds
  <2>2. /\ Put(c, r) /\ UNCHANGED <<order, store, holder>>
        /\ stores' = stores \cup {c} /\ req[c].pc = "open"
    BY <1>2 DEF Open
  <2> HIDE DEF r
  <2>3. /\ req' \in [Clients -> BookingReq] /\ req'[c] = r
        /\ \A d \in Clients \ {c} : req'[d] = req[d]
    BY <2>1, <2>2, RequestMoves
  <2>4. IsFiniteSet(stores') /\ (Cardinality(stores) > 1 => Cardinality(stores') > 1)
    <3>1. IsFiniteSet(stores) /\ Cardinality(stores) \in Nat
      BY FS_CardinalityType DEF OrderTypes
    <3>2. IsFiniteSet(stores')
      BY <2>2, <3>1, FS_AddElement
    <3>3. Cardinality(stores) <= Cardinality(stores') /\ Cardinality(stores') \in Nat
      BY <2>2, <3>2, FS_Subset, FS_CardinalityType
    <3> QED
      BY <3>1, <3>2, <3>3
  <2>5. OrderTypes'
    BY <2>2, <2>3, <2>4 DEF OrderTypes
  <2>6. LocksKnown' /\ OneInside'
    BY <2>1, <2>2, <2>3 DEF LocksKnown, OneInside, OrderTypes, Within
  <2>7. OrdersFilled'
    BY <2>1, <2>2, <2>3 DEF OrdersFilled, Key
  <2>8. AnswersWhole'
    BY <2>1, <2>2, <2>3, <2>4 DEF AnswersWhole, Key
  <2> QED
    BY <2>5, <2>6, <2>7, <2>8
<1> QED
  BY <1>1, <1>2

(* Making the order store, taking its lock, and the first look at it.      *)
LEMMA LockKeeps ==
  ASSUME OrderInv, NEW c \in Clients,
         Make(c) \/ Enter(c) \/ (Look(c) /\ ~order[Key(c)].made)
  PROVE  OrderInv'
<1> USE DEF OrderInv
<1> DEFINE p == IF req[c].pc = "make" THEN "enter"
                ELSE IF req[c].pc = "enter" THEN "look" ELSE "row"
           r == [req[c] EXCEPT !.pc = p]
<1>1. /\ r \in BookingReq /\ r.pc = p /\ r.lock = req[c].lock
      /\ r.got = req[c].got /\ r.taken = req[c].taken /\ r.free = req[c].free
      /\ p \in {"enter", "look", "row"} /\ req[c].pc \in {"make", "enter", "look"}
  BY DEF BookingReq, ReqPoints, OrderTypes, Make, Enter, Look, Within
<1>2. /\ Put(c, r) /\ UNCHANGED <<order, stores>>
      /\ store' = IF Make(c) /\ store = NoStore THEN c ELSE store
      /\ req[c].pc = "make" <=> Make(c)
      /\ holder' = IF req[c].pc = "enter" THEN holder \cup {c} ELSE holder
      /\ req[c].pc = "enter" => \A d \in holder : req[d].lock # req[c].lock
  BY DEF Make, Enter, Look
<1>3. /\ req[c].pc = "make" => p = "enter"
      /\ req[c].pc = "enter" => p = "look"
      /\ req[c].pc = "look" => p = "row"
  OBVIOUS
<1> HIDE DEF r, p
<1>4. /\ req' \in [Clients -> BookingReq] /\ req'[c] = r
      /\ \A d \in Clients \ {c} : req'[d] = req[d]
  BY <1>1, <1>2, RequestMoves
<1>5. OrderTypes'
  BY <1>2, <1>4 DEF OrderTypes, StoreIds
<1>6. LocksKnown'
  BY <1>1, <1>2, <1>4 DEF LocksKnown, Within
<1>7. OneInside'
  <2>1. \A d \in Clients : d \in holder' <=> req'[d].pc \in Within
    BY <1>1, <1>2, <1>3, <1>4 DEF OneInside, Within
  <2>2. \A d \in Clients : req'[d].lock = req[d].lock
    BY <1>1, <1>4
  <2>3. \A d, e \in holder' : req[d].lock = req[e].lock => d = e
    BY <1>2 DEF OneInside
  <2>4. holder' \subseteq Clients
    BY <1>5 DEF OrderTypes
  <2> QED
    BY <2>1, <2>2, <2>3, <2>4 DEF OneInside
<1>8. OrdersFilled'
  BY <1>1, <1>2, <1>4 DEF OrdersFilled, Key
<1>9. AnswersWhole'
  BY <1>1, <1>2, <1>4 DEF AnswersWhole, Key
<1> QED
  BY <1>5, <1>6, <1>7, <1>8, <1>9

(* The row of a new order, and one item of it.                             *)
LEMMA InsertOrderKeeps ==
  ASSUME OrderInv, NEW c \in Clients, InsertOrder(c), ~order[Key(c)].made
  PROVE  OrderInv'
<1> DEFINE r == [req[c] EXCEPT !.pc = "items"]
           o == [NoOrder EXCEPT !.made = TRUE, !.prices = req[c].priced]
<1> USE DEF OrderInv
<1>1. /\ r \in BookingReq /\ r.pc = "items" /\ r.lock = req[c].lock
      /\ r.got = req[c].got /\ r.taken = req[c].taken /\ r.free = req[c].free
      /\ r.priced = req[c].priced
  BY DEF BookingReq, ReqPoints, OrderTypes, Within
<1>2. /\ o \in Orders /\ o.made /\ ~o.torn /\ o.prices = req[c].priced
      /\ o.items = {}
  <2>1. req[c].priced \subseteq Items \X Nat
    BY DEF OrderTypes, BookingReq
  <2> QED
    BY <2>1 DEF Orders, NoOrder
<1>3. /\ Put(c, r) /\ order' = [order EXCEPT ![Key(c)] = o]
      /\ UNCHANGED <<store, stores, holder>> /\ req[c].pc = "row"
  BY DEF InsertOrder
<1> HIDE DEF r, o
<1>4. /\ req' \in [Clients -> BookingReq] /\ req'[c] = r
      /\ \A d \in Clients \ {c} : req'[d] = req[d]
  BY <1>1, <1>3, RequestMoves
<1>5. Key(c) \in Keys /\ \A d \in Clients : Key(d) \in Keys /\ Key(d)' = Key(d)
  BY StoreAssumption DEF Key
<1>6. /\ order' \in [Keys -> Orders] /\ order'[Key(c)] = o
      /\ \A k \in Keys : k # Key(c) => order'[k] = order[k]
  BY <1>2, <1>3, <1>5 DEF OrderTypes
<1>7. OrderTypes'
  BY <1>3, <1>4, <1>6 DEF OrderTypes
<1>8. LocksKnown' /\ OneInside'
  BY <1>1, <1>3, <1>4 DEF LocksKnown, OneInside, OrderTypes, Within
<1>9. \A d \in Clients : req[d].pc = "items" => Key(d) # Key(c)
  BY DEF OrdersFilled
<1>10. OrdersFilled'
  <2>1. \A k \in Keys : /\ order'[k].items \subseteq order'[k].prices
                        /\ order'[k].torn => order'[k].made
    BY <1>2, <1>6 DEF OrdersFilled
  <2>2. ASSUME NEW d \in Clients, req'[d].pc = "items"
        PROVE  /\ order'[Key(d)].made /\ ~order'[Key(d)].torn
               /\ order'[Key(d)].prices = req'[d].priced
    BY <1>1, <1>2, <1>4, <1>5, <1>6, <1>9, <2>2 DEF OrdersFilled
  <2>3. ASSUME NEW d \in Clients, NEW e \in Clients, req'[d].pc = "items",
               req'[e].pc = "items", Key(d) = Key(e)
        PROVE  d = e
    BY <1>4, <1>9, <2>3 DEF OrdersFilled
  <2>4. ASSUME NEW k \in Keys, order'[k].made
        PROVE  \/ order'[k].items = order'[k].prices \/ order'[k].torn
               \/ \E d \in Clients : Key(d) = k /\ req'[d].pc = "items"
    <3>1. CASE k = Key(c)
      BY <1>1, <1>4, <3>1
    <3>2. CASE k # Key(c)
      <4>1. \/ order[k].items = order[k].prices \/ order[k].torn
            \/ \E d \in Clients : Key(d) = k /\ req[d].pc = "items"
        BY <1>6, <2>4, <3>2 DEF OrdersFilled
      <4> QED
        BY <1>4, <1>6, <3>2, <4>1
    <3> QED
      BY <3>1, <3>2
  <2> QED
    BY <1>5, <2>1, <2>2, <2>3, <2>4 DEF OrdersFilled
<1>11. AnswersWhole'
  <2>1. ASSUME NEW d \in Clients
        PROVE  /\ order[Key(d)].made => order'[Key(d)].made
               /\ order[Key(d)].torn => order'[Key(d)].torn
    <3>1. ~order[Key(c)].torn
      BY <1>5 DEF OrdersFilled
    <3> QED
      BY <1>2, <1>5, <1>6, <3>1
  <2>2. \A d \in Clients : /\ req'[d].got = req[d].got
                           /\ req'[d].taken <=> req[d].taken
                           /\ req'[d].free <=> req[d].free
                           /\ req'[d].pc = "slots" => req[d].pc = "slots"
    BY <1>1, <1>4
  <2> QED
    BY <1>3, <1>5, <2>1, <2>2 DEF AnswersWhole
<1> QED
  BY <1>7, <1>8, <1>10, <1>11

(* orders_store.py: the items of an order, each with its own commit. *)
LEMMA InsertItemKeeps ==
  ASSUME OrderInv, NEW c \in Clients, InsertItem(c) PROVE OrderInv'
<1> USE DEF OrderInv
<1> DEFINE left == req[c].priced \ order[Key(c)].items
<1>0. /\ req[c].pc = "items" /\ Key(c) \in Keys
      /\ UNCHANGED <<store, stores>>
      /\ \A d \in Clients : Key(d) \in Keys /\ Key(d)' = Key(d)
  BY StoreAssumption DEF InsertItem, Key
<1>1. CASE left = {}
  <2>1. order[Key(c)].items = order[Key(c)].prices
    BY <1>0, <1>1 DEF OrdersFilled
  <2>2. AnswerOrder(c)
    BY <1>1 DEF InsertItem
  <2> QED
    BY <1>0, <2>1, <2>2, StepsOut DEF AnswerOrder, Within
<1>2. CASE left # {}
  <2>1. PICK p \in left : order' = [order EXCEPT ![Key(c)].items = @ \cup {p}]
    BY <1>2 DEF InsertItem
  <2>2. req' = req /\ holder' = holder
    BY <1>2 DEF InsertItem
  <2>3. p \in Items \X Nat /\ p \in order[Key(c)].prices
    BY <1>0 DEF OrderTypes, BookingReq, OrdersFilled
  <2>4. /\ order' \in [Keys -> Orders]
        /\ \A k \in Keys : /\ order'[k].made = order[k].made
                           /\ order'[k].torn = order[k].torn
                           /\ order'[k].prices = order[k].prices
                           /\ k # Key(c) => order'[k] = order[k]
        /\ order'[Key(c)].items \subseteq order[Key(c)].prices
    <3> DEFINE o == [order[Key(c)] EXCEPT !.items = @ \cup {p}]
    <3>1. /\ o \in Orders /\ o.made = order[Key(c)].made
          /\ o.torn = order[Key(c)].torn /\ o.prices = order[Key(c)].prices
          /\ o.items = order[Key(c)].items \cup {p}
      BY <1>0, <2>3 DEF OrderTypes, Orders
    <3>2. order' = [order EXCEPT ![Key(c)] = o]
      BY <2>1
    <3>3. order[Key(c)].items \subseteq order[Key(c)].prices
      BY <1>0 DEF OrdersFilled
    <3> HIDE DEF o
    <3> QED
      BY <1>0, <2>3, <3>1, <3>2, <3>3 DEF OrderTypes
  <2>5. OrderTypes' /\ LocksKnown' /\ OneInside'
    BY <1>0, <2>2, <2>4 DEF OrderTypes, LocksKnown, OneInside
  <2>6. OrdersFilled'
    <3>1. \A k \in Keys : /\ order'[k].items \subseteq order'[k].prices
                          /\ order'[k].torn => order'[k].made
      BY <2>4 DEF OrdersFilled
    <3>2. \A k \in Keys : order'[k].made =>
            \/ order'[k].items = order'[k].prices \/ order'[k].torn
            \/ \E d \in Clients : Key(d) = k /\ req'[d].pc = "items"
      BY <1>0, <2>2, <2>4 DEF OrdersFilled
    <3> QED
      BY <1>0, <2>2, <2>4, <3>1, <3>2 DEF OrdersFilled
  <2>7. AnswersWhole'
    BY <1>0, <2>2, <2>4 DEF AnswersWhole
  <2> QED
    BY <2>5, <2>6, <2>7
<1> QED
  BY <1>1, <1>2

(* A crash leaves the order that was being filled as it is.                *)
LEMMA RestartKeeps == ASSUME OrderInv, Restart PROVE OrderInv'
<1> USE DEF OrderInv
<1>1. /\ store' = NoStore /\ stores' = {} /\ holder' = {}
      /\ req' = [c \in Clients |-> NoReq]
      /\ order' = [k \in Keys |->
           IF \E c \in Clients : KeyOf[c] = k /\ req[c].pc = "items"
           THEN [order[k] EXCEPT !.torn = order[k].items # order[k].prices]
           ELSE order[k]]
  BY DEF Restart
<1>2. NoReq \in BookingReq /\ NoReq.pc = "idle" /\ ~NoReq.got.made
      /\ ~NoReq.taken
  BY DEF BookingReq, NoReq, NoOrder, Orders, ReqPoints, StoreIds
<1>3. \A c \in Clients : req'[c] = NoReq
  BY <1>1
<1>4. ASSUME NEW k \in Keys
      PROVE  /\ order'[k] \in Orders
             /\ order'[k].items = order[k].items
             /\ order'[k].prices = order[k].prices
             /\ order'[k].made = order[k].made
             /\ (\E c \in Clients : Key(c) = k /\ req[c].pc = "items") =>
                  (order'[k].torn <=> order[k].items # order[k].prices)
             /\ ~(\E c \in Clients : Key(c) = k /\ req[c].pc = "items") =>
                  order'[k] = order[k]
  <2> DEFINE o == [order[k] EXCEPT !.torn = order[k].items # order[k].prices]
  <2>1. /\ o \in Orders /\ o.items = order[k].items /\ o.prices = order[k].prices
        /\ o.made = order[k].made
        /\ o.torn <=> order[k].items # order[k].prices
    BY DEF OrderTypes, Orders
  <2>2. order'[k] = IF \E c \in Clients : Key(c) = k /\ req[c].pc = "items"
                    THEN o ELSE order[k]
    BY <1>1 DEF Key
  <2>3. order[k] \in Orders
    BY DEF OrderTypes
  <2> HIDE DEF o
  <2> QED
    BY <2>1, <2>2, <2>3
<1>5. OrderTypes'
  <2>1. order' \in [Keys -> Orders]
    BY <1>1, <1>4
  <2>2. req' \in [Clients -> BookingReq]
    BY <1>1, <1>2
  <2> QED
    BY <1>1, <2>1, <2>2, FS_EmptySet DEF OrderTypes, StoreIds
<1>6. LocksKnown' /\ OneInside'
  BY <1>1, <1>2, <1>3 DEF LocksKnown, OneInside, Within
<1>7. OrdersFilled'
  BY <1>2, <1>3, <1>4 DEF OrdersFilled
<1>8. AnswersWhole'
  BY <1>2, <1>3 DEF AnswersWhole
<1> QED
  BY <1>5, <1>6, <1>7, <1>8

(* What happens to the catalogue and to the push token is none of theirs.  *)
LEMMA OrdersAlone ==
  ASSUME OrderInv, UNCHANGED orderVars PROVE OrderInv'
  BY DEF OrderInv, orderVars, OrderTypes, LocksKnown, OneInside, OrdersFilled,
         AnswersWhole, Key

(* Each step of the surface keeps what the answers rest on.                *)
LEMMA OrderInvStep ==
  ASSUME CatTypes, OrderInv, [StoreNext]_storeVars PROVE OrderInv'
<1> USE DEF OrderInv
<1>0. NoReq \in BookingReq /\ NoReq.pc = "idle" /\ ~NoReq.got.made
      /\ ~NoReq.taken /\ ~NoReq.free
  BY DEF BookingReq, NoReq, NoOrder, Orders, ReqPoints, StoreIds
<1>a. \A c \in Clients : Key(c) \in Keys
  BY StoreAssumption DEF Key
<1>1. ASSUME NEW c \in Clients, Submit(c) PROVE OrderInv'
  <2> DEFINE r == [NoReq EXCEPT !.pc = "price"]
  <2>1. r \in BookingReq /\ r.pc = "price" /\ ~r.got.made /\ ~r.taken
    BY <1>0 DEF BookingReq, ReqPoints, NoReq
  <2>2. Put(c, r) /\ UNCHANGED <<order, store, stores, holder>>
        /\ req[c].pc = "idle"
    BY <1>1 DEF Submit
  <2> HIDE DEF r
  <2> QED
    BY <2>1, <2>2, StepsOutside DEF Within
<1>2. ASSUME NEW c \in Clients, NEW what \in {"mine", "slots"}, Browse(c, what)
      PROVE  OrderInv'
  <2> DEFINE r == [NoReq EXCEPT !.op = what, !.pc = "open",
                                !.taken = what = "slots" /\ order[Key(c)].made]
  <2>1. /\ r \in BookingReq /\ r.pc = "open" /\ ~r.got.made /\ ~r.free
        /\ r.taken => order[Key(c)].made
    BY <1>0, <1>a DEF BookingReq, ReqPoints, NoReq, OrderTypes, Orders
  <2>2. Put(c, r) /\ UNCHANGED <<order, store, stores, holder>>
        /\ req[c].pc = "idle"
    BY <1>2 DEF Browse
  <2> HIDE DEF r
  <2> QED
    BY <2>1, <2>2, StepsOutside DEF Within
<1>3. ASSUME NEW c \in Clients, FirePush(c) PROVE OrderInv'
  <2> DEFINE r == [req[c] EXCEPT !.pc = "idle"]
  <2>1. /\ r \in BookingReq /\ r.pc = "idle"
        /\ r.got = req[c].got /\ r.taken = req[c].taken /\ r.free = req[c].free
    BY DEF BookingReq, ReqPoints, OrderTypes
  <2>2. Put(c, r) /\ UNCHANGED <<order, store, stores, holder>>
        /\ req[c].pc = "push"
    BY <1>3 DEF FirePush
  <2> HIDE DEF r
  <2>3. (r.taken => order[Key(c)].made) /\ ~(r.free /\ r.taken)
    BY <2>1 DEF AnswersWhole
  <2> QED
    BY <2>1, <2>2, <2>3, StepsOutside DEF Within
<1>4. ASSUME NEW c \in Clients, Price(c) PROVE OrderInv'
  <2>1. PICK r :
          /\ Put(c, r)
          /\ \/ r = NoReq
             \/ \E i \in Items :
                  r = [req[c] EXCEPT !.priced = @ \cup {<<i, rows[i].price>>}]
             \/ r = [req[c] EXCEPT !.pc = "open"]
    <3>1. Unpriced(c) \subseteq Items
      BY <1>a, StoreAssumption DEF Unpriced, Wanted
    <3> QED
      BY <1>4, <3>1 DEF Price
  <2>2. /\ UNCHANGED <<order, store, stores, holder>>
        /\ req[c].pc = "price"
    BY <1>4 DEF Price
  <2>3. CASE r = NoReq
    BY <1>0, <2>1, <2>2, <2>3, StepsOutside DEF Within
  <2>4. CASE r # NoReq
    <3>1. \A i \in Items : <<i, rows[i].price>> \in Items \X Nat
      BY DEF CatTypes, PriceRows
    <3>2. /\ r \in BookingReq /\ r.pc \in {"price", "open"}
          /\ r.got = req[c].got /\ r.taken = req[c].taken
          /\ r.free = req[c].free
      BY <2>1, <2>2, <2>4, <3>1 DEF BookingReq, ReqPoints, OrderTypes
    <3>3. (r.taken => order[Key(c)].made) /\ ~(r.free /\ r.taken)
      BY <3>2 DEF AnswersWhole
    <3> QED
      BY <2>1, <2>2, <3>2, <3>3, StepsOutside DEF Within
  <2> QED
    BY <2>3, <2>4
<1>5. ASSUME NEW c \in Clients, Look(c) PROVE OrderInv'
  <2>1. CASE order[Key(c)].made
    BY <1>5, <2>1, StepsOut DEF Look, AnswerOrder, Within
  <2> QED
    BY <1>5, <2>1, LockKeeps
<1>6. ASSUME NEW c \in Clients, InsertOrder(c) PROVE OrderInv'
  <2>1. CASE order[Key(c)].made
    <3>1. Put(c, NoReq) /\ holder' = holder \ {c} /\ req[c].pc = "row"
          /\ UNCHANGED <<order, store, stores>>
      BY <1>6, <2>1 DEF InsertOrder
    <3>2. /\ req' \in [Clients -> BookingReq] /\ req'[c] = NoReq
          /\ \A d \in Clients \ {c} : req'[d] = req[d]
      BY <1>0, <3>1, RequestMoves
    <3>3. OrderTypes' /\ LocksKnown' /\ OneInside'
      BY <1>0, <3>1, <3>2 DEF OrderTypes, LocksKnown, OneInside, Within
    <3>4. OrdersFilled'
      BY <1>0, <3>1, <3>2 DEF OrdersFilled, Key
    <3>5. AnswersWhole'
      BY <1>0, <3>1, <3>2 DEF AnswersWhole, Key
    <3> QED
      BY <3>3, <3>4, <3>5
  <2> QED
    BY <1>6, <2>1, InsertOrderKeeps
<1>7. ASSUME NEW c \in Clients, ListOrders(c) PROVE OrderInv'
  <2>1. req[c].op \in {"mine", "slots"}
    BY <1>7 DEF ListOrders, OrderTypes, BookingReq
  <2> QED
    BY <1>7, <2>1, StepsOut DEF ListOrders, Within
<1>8. ASSUME NEW c \in Clients, user_bookings(c) PROVE OrderInv'
  BY <1>0, <1>8, StepsOutside DEF user_bookings, Within
<1>9. ASSUME NEW c \in Clients, compute_available_slots(c) PROVE OrderInv'
  <2>1. PICK fits \in BOOLEAN :
          Put(c, [NoReq EXCEPT !.taken = req[c].taken,
                    !.free = fits /\ DayOf[Key(c)] \in hours /\ ~req[c].got.made])
    BY <1>9 DEF compute_available_slots
  <2> DEFINE r == [NoReq EXCEPT !.taken = req[c].taken,
                     !.free = fits /\ DayOf[Key(c)] \in hours /\ ~req[c].got.made]
  <2>2. /\ r \in BookingReq /\ r.pc = "idle" /\ ~r.got.made
        /\ r.taken = req[c].taken /\ (r.free => ~req[c].got.made)
    BY <1>0 DEF BookingReq, NoReq, OrderTypes
  <2>3. Put(c, r) /\ UNCHANGED <<order, store, stores, holder>>
        /\ req[c].pc = "slots"
    BY <1>9, <2>1 DEF compute_available_slots
  <2> HIDE DEF r
  <2>4. (r.taken => order[Key(c)].made) /\ ~(r.free /\ r.taken)
    BY <2>2, <2>3 DEF AnswersWhole
  <2> QED
    BY <2>2, <2>3, <2>4, StepsOutside DEF Within
<1>10. CASE \/ LoadCatalogue \/ ClearHours \/ InsertHours \/ Register
            \/ Unregister \/ CreateService \/ DeleteService
            \/ CreateProfessional \/ DeleteProfessional \/ UNCHANGED storeVars
            \/ \E e \in Editors :
                 \/ UpdateService(e) \/ UpdateProfessional(e)
                 \/ UpsertService(e) \/ UpsertProfessional(e)
  <2>1. UNCHANGED orderVars
    BY <1>10 DEF LoadCatalogue, ClearHours, InsertHours, Register, Unregister,
                 CreateService, DeleteService, CreateProfessional,
                 DeleteProfessional, PutRow, UpdateService, UpdateProfessional,
                 ReadRow, UpsertService, UpsertProfessional, WriteRow, storeVars
  <2> QED
    BY <2>1, OrdersAlone
<1>11. ASSUME NEW c \in Clients, BookingStep(c) PROVE OrderInv'
  BY <1>3, <1>4, <1>5, <1>6, <1>11, OpenKeeps, LockKeeps, InsertItemKeeps
  DEF BookingStep
<1> QED
  BY <1>1, <1>2, <1>7, <1>8, <1>9, <1>10, <1>11, RestartKeeps
  DEF StoreNext, LookingStep

(* orders_store.py: the booking a client or a list is answered with is     *)
(* whole, and a slot that was booked when the customer asked is not free,  *)
(* for any number of clients, keys, services and crashes.                  *)
THEOREM AnswersAreWhole == StoreSpec => []AnsweredOrdersAreWhole
<1>1. StoreInv => AnsweredOrdersAreWhole
  BY DEF StoreInv, OrderInv, AnswersWhole, AnsweredOrdersAreWhole
<1>2. StoreInv /\ [StoreNext]_storeVars => StoreInv'
  BY CatTypesStep, OrderInvStep DEF StoreInv
<1> QED
  BY <1>1, <1>2, StoreInvInit, PTL DEF StoreSpec
---------------------------------------------------------------------------
(* SkillBundles.  A handler that has changed the directory and not yet set *)
(* the marker.  An install whose directory was moved from under it has     *)
(* nothing left to announce: who moved it has.                             *)
Unmarked(a) == \/ admin[a].pc \in {"touch", "move"}
               \/ admin[a].pc = "copy" /\ copied[admin[a].version] # "none"

BundleKinds == {"none", "install", "enable", "disable", "uninstall"}
BundleAdmin == [pc : {"idle", "change", "copy", "move", "touch"},
                kind : BundleKinds, version : Versions \cup {0},
                left : SUBSET Versions]

BundleTypes ==
  /\ copied \in [Versions -> {"none", "part", "all"}]
  /\ disabled \subseteq Versions
  /\ admin \in [Admins -> BundleAdmin]
  /\ \A a \in Admins : admin[a].pc # "idle" => admin[a].version \in Versions

(* Between seeing the marker and removing it the worker remembers nothing. *)
CacheEmptied == load.pc = "unlink" => cache = Nothing

(* A bundle that is there in part is one that some install is copying.     *)
HalvesAreCopied ==
  ~cut => \A v \in Versions : copied[v] = "part" => \E a \in Admins : Copying(a, v)

(* With no marker set and none due, what the worker remembers is the best  *)
(* version, and what it is about to read is that too.                      *)
Announced == ~marker /\ ~cut /\ \A a \in Admins : ~Unmarked(a)
WorkerIsCurrent == Announced => /\ cache \in {Nothing, Best}
                                /\ load.pc = "read" => load.version = Best

BundleInv == BundleTypes /\ CacheEmptied /\ HalvesAreCopied /\ WorkerIsCurrent

---------------------------------------------------------------------------
(* Every non-empty set of natural numbers has a smallest member.           *)
LEMMA LowestMember ==
  ASSUME NEW T, T \subseteq Nat, T # {}
  PROVE  \E x \in T : \A y \in T : x <= y
<1> DEFINE Less == OpToRel(<, Nat)
<1>1. \A i, j \in Nat : <<i, j>> \in Less <=> i < j
  BY DEF OpToRel
<1>2. IsWellFoundedOn(Less, Nat)
  BY NatLessThanWellFounded
<1> HIDE DEF Less
<1>3. PICK x \in T : \A y \in T : <<y, x>> \notin Less
  BY <1>2, WFMin
<1>4. ASSUME NEW y \in T PROVE x <= y
  <2>1. x \in Nat /\ y \in Nat
    OBVIOUS
  <2>2. ~(y < x)
    BY <1>1, <1>3, <2>1
  <2>3. QED
    BY <2>1, <2>2
<1>5. QED
  BY <1>4

(* Induction over the natural numbers, for what a set can say.             *)
LEMMA StoreInduction ==
  ASSUME NEW T, 0 \in T, \A n \in Nat : n \in T => n + 1 \in T
  PROVE  Nat \subseteq T
<1> DEFINE U == Nat \ T
<1>1. SUFFICES ASSUME U # {} PROVE FALSE
  OBVIOUS
<1>2. PICK x \in U : \A y \in U : x <= y
  BY <1>1, LowestMember
<1>3. x # 0 /\ x - 1 \in Nat
  BY <1>2
<1>4. x - 1 \in T
  BY <1>2, <1>3
<1>5. QED
  BY <1>3, <1>4

(* A set of versions that is not empty has a highest one.                  *)
LEMMA HighestVersion ==
  ASSUME NEW S \in SUBSET Versions, S # {}
  PROVE  Max(S) \in S
<1> DEFINE Tops(Q) == \E m \in Q : \A n \in Q : m >= n
           T == {k \in Nat : \A Q \in SUBSET Versions :
                   IsFiniteSet(Q) /\ Cardinality(Q) = k /\ Q # {} => Tops(Q)}
<1>1. 0 \in T
  <2> SUFFICES ASSUME NEW Q \in SUBSET Versions, IsFiniteSet(Q),
                      Cardinality(Q) = 0, Q # {}
               PROVE  FALSE
    OBVIOUS
  <2> QED
    BY FS_EmptySet
<1>2. ASSUME NEW k \in Nat, k \in T PROVE k + 1 \in T
  <2> SUFFICES ASSUME NEW Q \in SUBSET Versions, IsFiniteSet(Q),
                      Cardinality(Q) = k + 1, Q # {}
               PROVE  Tops(Q)
    OBVIOUS
  <2>1. PICK x \in Q : TRUE
    OBVIOUS
  <2> DEFINE P == Q \ {x}
  <2>2. IsFiniteSet(P) /\ Cardinality(P) = Cardinality(Q) - 1
    BY <2>1, FS_RemoveElement
  <2>3. Cardinality(P) = k
    BY <2>2
  <2>4. P # {} => Tops(P)
    BY <1>2, <2>2, <2>3
  <2>5. Q \subseteq Nat
    BY BundleAssumption
  <2>6. CASE P = {}
    BY <2>1, <2>5, <2>6
  <2>7. CASE P # {}
    <3>1. PICK m \in P : \A n \in P : m >= n
      BY <2>4, <2>7
    <3>2. m \in Nat /\ x \in Nat /\ \A n \in Q : n = x \/ n \in P
      BY <2>1, <2>5
    <3>3. CASE m >= x
      BY <3>1, <3>2, <3>3
    <3>4. CASE ~(m >= x)
      <4>1. \A n \in P : n \in Nat /\ x >= n
        BY <2>5, <3>1, <3>2, <3>4
      <4>2. \A n \in Q : x >= n
        BY <3>2, <4>1
      <4> QED
        BY <2>1, <4>2
    <3> QED
      BY <3>3, <3>4
  <2> QED
    BY <2>6, <2>7
<1> HIDE DEF Tops
<1>3. Nat \subseteq T
  BY <1>1, <1>2, StoreInduction
<1>4. IsFiniteSet(S) /\ Cardinality(S) \in Nat
  BY BundleAssumption, FS_Subset, FS_CardinalityType
<1>5. Tops(S)
  BY <1>3, <1>4
<1> QED
  BY <1>5 DEF Tops, Max

(* The best version is one of the versions, or the one shipped.            *)
LEMMA BestIsThere == Best \in Versions \cup {Shipped}
  BY HighestVersion DEF Best, Enabled

(* With the directory as it was, the best version is what it was.          *)
LEMMA BestStays == UNCHANGED <<copied, disabled>> => Best' = Best
  BY DEF Best, Enabled
---------------------------------------------------------------------------

(* Nothing installed and nothing cached. *)
LEMMA BundleInvInit == BundleInit => BundleInv
<1> SUFFICES ASSUME BundleInit PROVE BundleInv
  OBVIOUS
<1>1. \A a \in Admins : admin[a] = NoAdmin
  BY DEF BundleInit
<1>2. NoAdmin \in BundleAdmin /\ NoAdmin.pc = "idle"
  BY DEF NoAdmin, BundleAdmin, BundleKinds
<1>3. BundleTypes
  BY <1>1, <1>2 DEF BundleInit, BundleTypes
<1>4. CacheEmptied /\ HalvesAreCopied /\ WorkerIsCurrent
  BY DEF BundleInit, CacheEmptied, HalvesAreCopied, WorkerIsCurrent
<1> QED
  BY <1>3, <1>4 DEF BundleInv

(* A step of the worker leaves the directory and the handlers alone.       *)
LEMMA WorkerKeeps ==
  ASSUME BundleInv, UNCHANGED <<copied, disabled, admin, cut>>, CacheEmptied',
         Announced' => (cache \in {Nothing, Best} /\ (load.pc = "read" => load.version = Best)
                        => cache' \in {Nothing, Best} /\ (load'.pc = "read" => load'.version = Best)),
         marker' \/ ~marker \/ (cache' = Nothing /\ load'.pc # "read")
  PROVE  BundleInv'
<1>1. BundleTypes'
  BY DEF BundleInv, BundleTypes
<1>2. HalvesAreCopied'
  BY DEF BundleInv, HalvesAreCopied, Copying
<1>3. WorkerIsCurrent'
  <2> SUFFICES ASSUME Announced'
               PROVE  cache' \in {Nothing, Best} /\ (load'.pc = "read" => load'.version = Best)
    BY BestStays DEF WorkerIsCurrent
  <2>1. ~marker' /\ (~marker => Announced)
    BY DEF Announced, Unmarked
  <2> QED
    BY <2>1 DEF BundleInv, WorkerIsCurrent
<1> QED
  BY <1>1, <1>2, <1>3 DEF BundleInv

(* The worker loads, takes the marker, or starts again with an empty cache. *)
LEMMA WorkerStepKeeps ==
  ASSUME BundleInv, LoaderStep \/ RestartWorker
  PROVE  BundleInv'
<1>1. CASE SeeMarker
  <2>1. CacheEmptied'
    BY <1>1 DEF SeeMarker, Load, CacheEmptied
  <2> QED
    BY <1>1, <2>1, WorkerKeeps DEF SeeMarker, Load, Announced
<1>2. CASE UnlinkMarker
  <2>1. cache' = Nothing /\ load'.pc = "lookup"
    BY <1>2 DEF UnlinkMarker, Load, BundleInv, CacheEmptied
  <2>2. CacheEmptied'
    BY <2>1 DEF CacheEmptied
  <2> QED
    BY <1>2, <2>1, <2>2, WorkerKeeps DEF UnlinkMarker
<1>3. CASE LookUp
  <2>1. /\ UNCHANGED <<copied, disabled, admin, cut, marker, cache>>
        /\ load'.pc # "unlink" /\ (load'.pc = "read" => load'.version = Best)
    BY <1>3 DEF LookUp, Load
  <2>2. CacheEmptied'
    BY <2>1 DEF CacheEmptied
  <2> QED
    BY <2>1, <2>2, WorkerKeeps
<1>4. CASE ReadBundle
  <2> DEFINE v == load.version
  <2>1. /\ UNCHANGED <<copied, disabled, admin, cut, marker>>
        /\ load.pc = "read" /\ load'.pc = "idle"
        /\ \/ cache' = v
           \/ UNCHANGED cache
           \/ Files(v) = "part" /\ cache' = Half(v)
    BY <1>4 DEF ReadBundle, Load
  <2>2. CacheEmptied'
    BY <2>1 DEF CacheEmptied
  <2>3. ASSUME Announced', v = Best PROVE Files(v) # "part"
    <3>1. v = Shipped \/ v \in Versions
      BY <2>3, BestIsThere
    <3>2. CASE v # Shipped /\ copied[v] = "part"
      <4>1. PICK a \in Admins : Copying(a, v)
        BY <2>1, <2>3, <3>1, <3>2 DEF BundleInv, HalvesAreCopied, Announced
      <4> QED
        BY <2>1, <2>3, <3>2, <4>1 DEF Copying, Announced, Unmarked
    <3> QED
      BY <3>2 DEF Files
  <2> HIDE DEF v
  <2>4. Announced' => (cache \in {Nothing, Best} /\ v = Best => cache' \in {Nothing, Best})
    BY <2>1, <2>3
  <2> QED
    BY <2>1, <2>2, <2>4, WorkerKeeps DEF v
<1>5. CASE RestartWorker
  <2>1. /\ UNCHANGED <<copied, disabled, admin, cut, marker>>
        /\ cache' = Nothing /\ load'.pc = "idle"
    BY <1>5 DEF RestartWorker, Load
  <2>2. CacheEmptied'
    BY <2>1 DEF CacheEmptied
  <2> QED
    BY <2>1, <2>2, WorkerKeeps
<1> QED
  BY <1>1, <1>2, <1>3, <1>4, <1>5 DEF LoaderStep

(* A handler's step: it changes the directory only if it has then still to *)
(* set the marker.                                                         *)
LEMMA HandlerKeeps ==
  ASSUME BundleInv, BundleTypes', HalvesAreCopied', UNCHANGED <<cache, load>>,
         Announced' => Announced /\ UNCHANGED <<copied, disabled>>
  PROVE  BundleInv'
<1>1. CacheEmptied'
  BY DEF BundleInv, CacheEmptied
<1>2. WorkerIsCurrent'
  <2>1. CASE Announced'
    BY <2>1, BestStays DEF BundleInv, WorkerIsCurrent
  <2> QED
    BY <2>1 DEF WorkerIsCurrent
<1> QED
  BY <1>1, <1>2 DEF BundleInv

(* What a handler's step does to the handlers: one of them moves.          *)
LEMMA HandlerMoves ==
  ASSUME BundleTypes, NEW a \in Admins, NEW r \in BundleAdmin,
         admin' = [admin EXCEPT ![a] = r],
         r.pc # "idle" => r.version \in Versions,
         copied' \in [Versions -> {"none", "part", "all"}],
         disabled' \subseteq Versions
  PROVE  /\ BundleTypes'
         /\ admin'[a] = r
         /\ \A b \in Admins \ {a} : admin'[b] = admin[b]
<1>1. admin \in [Admins -> BundleAdmin]
  BY DEF BundleTypes
<1>2. admin'[a] = r /\ \A b \in Admins \ {a} : admin'[b] = admin[b]
  BY <1>1
<1>3. admin' \in [Admins -> BundleAdmin]
  BY <1>1
<1> QED
  BY <1>2, <1>3 DEF BundleTypes

(* The console begins a change: nothing on disk has moved yet. *)
LEMMA StartOpKeeps ==
  ASSUME BundleInv, NEW a \in Admins, NEW v \in Versions, NEW kind \in BundleKinds,
         StartOp(a, kind, v)
  PROVE  BundleInv'
<1> DEFINE r == [pc |-> "change", kind |-> kind, version |-> v, left |-> Installed]
<1>1. r \in BundleAdmin /\ r.pc = "change" /\ r.version = v
  BY DEF BundleAdmin, Installed
<1>2. /\ admin[a].pc = "idle" /\ admin' = [admin EXCEPT ![a] = r]
      /\ UNCHANGED <<copied, disabled, marker, cache, load, cut>>
  BY DEF StartOp
<1> HIDE DEF r
<1>3. /\ BundleTypes' /\ admin'[a] = r
      /\ \A b \in Admins \ {a} : admin'[b] = admin[b]
  <2>1. BundleTypes
    BY DEF BundleInv
  <2> QED
    BY <1>1, <1>2, <2>1, HandlerMoves DEF BundleTypes
<1>4. HalvesAreCopied'
  BY <1>1, <1>2, <1>3 DEF BundleInv, HalvesAreCopied, Copying
<1>5. Announced' => Announced
  BY <1>1, <1>2, <1>3 DEF Announced, Unmarked
<1> QED
  BY <1>2, <1>3, <1>4, <1>5, HandlerKeeps

(* A handler's pc alone is set.                                            *)
LEMMA StepSets ==
  ASSUME BundleTypes, NEW a \in Admins, admin[a].pc # "idle",
         NEW pc \in {"idle", "copy", "move", "touch"}, Step(a, pc),
         copied' \in [Versions -> {"none", "part", "all"}],
         disabled' \subseteq Versions
  PROVE  /\ BundleTypes'
         /\ admin'[a].pc = pc /\ admin'[a].version = admin[a].version
         /\ \A b \in Admins \ {a} : admin'[b] = admin[b]
<1> DEFINE r == [admin[a] EXCEPT !.pc = pc]
<1>1. admin[a] \in BundleAdmin /\ admin[a].version \in Versions
  BY DEF BundleTypes
<1>2. /\ r \in BundleAdmin /\ r.pc = pc /\ r.version = admin[a].version
  BY <1>1 DEF BundleAdmin
<1>3. admin' = [admin EXCEPT ![a] = r]
  BY DEF Step
<1> HIDE DEF r
<1> QED
  BY <1>1, <1>2, <1>3, HandlerMoves

(* install_agent: a bundle that is being copied has a marker to come. *)
LEMMA CopyFilesKeeps ==
  ASSUME BundleInv, NEW a \in Admins, CopyFiles(a)
  PROVE  BundleInv'
<1> DEFINE v == admin[a].version
<1>0. /\ BundleTypes /\ HalvesAreCopied
      /\ UNCHANGED <<marker, cache, load, cut>>
  BY DEF BundleInv, CopyFiles
<1>1. CASE /\ admin[a].pc = "change" /\ Step(a, "copy")
           /\ copied' = [copied EXCEPT ![v] = "part"] /\ UNCHANGED disabled
  <2>1. v \in Versions /\ copied' \in [Versions -> {"none", "part", "all"}]
        /\ copied'[v] = "part" /\ \A w \in Versions \ {v} : copied'[w] = copied[w]
    BY <1>0, <1>1 DEF BundleTypes
  <2>2. /\ BundleTypes' /\ admin'[a].pc = "copy" /\ admin'[a].version = v
        /\ \A b \in Admins \ {a} : admin'[b] = admin[b]
    BY <1>0, <1>1, <2>1, StepSets DEF BundleTypes
  <2> HIDE DEF v
  <2>3. HalvesAreCopied'
    <3>1. \A b \in Admins : \A w \in Versions : Copying(b, w) => Copying(b, w)'
      BY <1>1, <2>2 DEF Copying
    <3> SUFFICES ASSUME ~cut, NEW w \in Versions, copied'[w] = "part"
                 PROVE  \E b \in Admins : Copying(b, w)'
      BY <1>0 DEF HalvesAreCopied
    <3>2. CASE w = v
      BY <2>2, <3>2 DEF Copying
    <3>3. CASE w # v
      BY <1>0, <2>1, <3>1, <3>3 DEF HalvesAreCopied
    <3> QED
      BY <3>2, <3>3
  <2>4. ~Announced'
    BY <2>1, <2>2 DEF Announced, Unmarked
  <2> QED
    BY <1>0, <2>2, <2>3, <2>4, HandlerKeeps
<1>2. CASE /\ Copying(a, v) /\ copied[v] # "none" /\ Step(a, "touch")
           /\ copied' = [copied EXCEPT ![v] = IF \E b \in Admins \ {a} : Copying(b, v)
                                              THEN "part" ELSE "all"]
           /\ disabled' = disabled \ {v}
  <2>1. /\ v \in Versions /\ copied' \in [Versions -> {"none", "part", "all"}]
        /\ copied'[v] = "part" => \E b \in Admins \ {a} : Copying(b, v)
        /\ \A w \in Versions \ {v} : copied'[w] = copied[w]
        /\ disabled' \subseteq Versions
    BY <1>0, <1>2 DEF BundleTypes, Copying
  <2>2. /\ BundleTypes' /\ admin'[a].pc = "touch"
        /\ \A b \in Admins \ {a} : admin'[b] = admin[b]
    BY <1>0, <1>2, <2>1, StepSets DEF Copying
  <2>3. HalvesAreCopied'
    <3> SUFFICES ASSUME ~cut, NEW w \in Versions, copied'[w] = "part"
                 PROVE  \E b \in Admins : Copying(b, w)'
      BY <1>0 DEF HalvesAreCopied
    <3>1. \E b \in Admins \ {a} : Copying(b, w)
      <4>1. CASE w # v
        <5>1. PICK b \in Admins : Copying(b, w)
          BY <1>0, <2>1, <4>1 DEF HalvesAreCopied
        <5> QED
          BY <4>1, <5>1 DEF Copying
      <4> QED
        BY <2>1, <4>1
    <3> QED
      BY <2>2, <3>1 DEF Copying
  <2>4. ~Announced'
    BY <2>2 DEF Announced, Unmarked
  <2> QED
    BY <1>0, <2>2, <2>3, <2>4, HandlerKeeps
<1>3. CASE /\ Copying(a, v) /\ copied[v] = "none" /\ Step(a, "idle")
           /\ UNCHANGED <<copied, disabled>>
  <2>1. /\ BundleTypes' /\ admin'[a].pc = "idle"
        /\ \A b \in Admins \ {a} : admin'[b] = admin[b]
    BY <1>0, <1>3, StepSets DEF Copying, BundleTypes
  <2>2. HalvesAreCopied'
    <3> SUFFICES ASSUME ~cut, NEW w \in Versions, copied[w] = "part"
                 PROVE  \E b \in Admins : Copying(b, w)'
      BY <1>0, <1>3 DEF HalvesAreCopied
    <3>1. PICK b \in Admins : Copying(b, w)
      BY <1>0 DEF HalvesAreCopied
    <3>2. b # a
      BY <1>3, <3>1 DEF Copying
    <3> QED
      BY <2>1, <3>1, <3>2 DEF Copying
  <2>3. Announced' => Announced
    BY <1>0, <1>3, <2>1 DEF Announced, Unmarked, Copying
  <2> QED
    BY <1>0, <1>3, <2>1, <2>2, <2>3, HandlerKeeps
<1> QED
  BY <1>1, <1>2, <1>3 DEF CopyFiles

(* patch_agent: the disabled file is made or removed before the marker is set. *)
LEMMA PatchKeeps ==
  ASSUME BundleInv, NEW a \in Admins, PatchEnabled(a)
  PROVE  BundleInv'
<1>0. /\ BundleTypes /\ HalvesAreCopied /\ admin[a].pc = "change"
      /\ UNCHANGED <<copied, marker, cache, load, cut>>
  BY DEF BundleInv, PatchEnabled
<1>1. disabled' \subseteq Versions
  BY <1>0 DEF PatchEnabled, BundleTypes
<1> DEFINE pc == IF admin[a].kind = "disable" /\ Gone(a) THEN "idle" ELSE "touch"
<1>2. Step(a, pc) /\ pc \in {"idle", "touch"} /\ (pc = "idle" => UNCHANGED disabled)
  BY DEF PatchEnabled
<1> HIDE DEF pc
<1>3. /\ BundleTypes' /\ admin'[a].pc = pc
      /\ \A b \in Admins \ {a} : admin'[b] = admin[b]
  BY <1>0, <1>1, <1>2, StepSets DEF BundleTypes
<1>4. HalvesAreCopied'
  <2>1. \A b \in Admins : \A w \in Versions : Copying(b, w) => Copying(b, w)'
    BY <1>0, <1>3 DEF Copying
  <2> QED
    BY <1>0, <2>1 DEF HalvesAreCopied
<1>5. Announced' => Announced /\ pc = "idle"
  BY <1>0, <1>2, <1>3 DEF Announced, Unmarked
<1> QED
  BY <1>0, <1>2, <1>3, <1>4, <1>5, HandlerKeeps

(* uninstall_agent: a version is moved, or has been; in the second case it is cut short. *)
LEMMA MoveKeeps ==
  ASSUME BundleInv, NEW a \in Admins, MoveToTrash(a)
  PROVE  BundleInv'
<1>0. /\ BundleTypes /\ HalvesAreCopied /\ admin[a].pc \in {"change", "move"}
      /\ UNCHANGED <<marker, cache, load>>
  BY DEF BundleInv, MoveToTrash
<1>1. PICK v \in admin[a].left :
       \/ /\ copied[v] # "none"
          /\ copied' = [copied EXCEPT ![v] = "none"] /\ disabled' = disabled \ {v}
          /\ admin' = [admin EXCEPT ![a].left = @ \ {v},
                         ![a].pc = IF admin[a].left = {v} THEN "touch" ELSE "move"]
          /\ UNCHANGED cut
       \/ /\ copied[v] = "none" /\ Step(a, "idle")
          /\ cut' = (cut \/ admin[a].pc = "move")
          /\ UNCHANGED <<copied, disabled>>
  BY DEF MoveToTrash
<1>2. admin[a] \in BundleAdmin /\ admin[a].version \in Versions /\ v \in Versions
  BY <1>0 DEF BundleTypes, BundleAdmin
<1>3. CASE /\ copied[v] # "none"
           /\ copied' = [copied EXCEPT ![v] = "none"] /\ disabled' = disabled \ {v}
           /\ admin' = [admin EXCEPT ![a].left = @ \ {v},
                          ![a].pc = IF admin[a].left = {v} THEN "touch" ELSE "move"]
           /\ UNCHANGED cut
  <2> DEFINE r == [admin[a] EXCEPT !.left = @ \ {v},
                     !.pc = IF admin[a].left = {v} THEN "touch" ELSE "move"]
  <2>1. r \in BundleAdmin /\ r.pc \in {"touch", "move"} /\ r.version \in Versions
    BY <1>2 DEF BundleAdmin
  <2>2. admin' = [admin EXCEPT ![a] = r]
    BY <1>3
  <2> HIDE DEF r
  <2>3. /\ copied' \in [Versions -> {"none", "part", "all"}] /\ copied'[v] = "none"
        /\ \A w \in Versions \ {v} : copied'[w] = copied[w]
        /\ disabled' \subseteq Versions
    BY <1>0, <1>2, <1>3 DEF BundleTypes
  <2>4. /\ BundleTypes' /\ admin'[a] = r
        /\ \A b \in Admins \ {a} : admin'[b] = admin[b]
    BY <1>0, <2>1, <2>2, <2>3, HandlerMoves
  <2>5. HalvesAreCopied'
    <3>1. \A b \in Admins : \A w \in Versions : Copying(b, w) => Copying(b, w)'
      BY <1>0, <2>4 DEF Copying
    <3> QED
      BY <1>0, <1>3, <2>3, <3>1 DEF HalvesAreCopied
  <2>6. ~Announced'
    BY <2>1, <2>4 DEF Announced, Unmarked
  <2> QED
    BY <1>0, <2>4, <2>5, <2>6, HandlerKeeps
<1>4. CASE /\ copied[v] = "none" /\ Step(a, "idle")
           /\ cut' = (cut \/ admin[a].pc = "move")
           /\ UNCHANGED <<copied, disabled>>
  <2>1. /\ BundleTypes' /\ admin'[a].pc = "idle"
        /\ \A b \in Admins \ {a} : admin'[b] = admin[b]
    BY <1>0, <1>4, StepSets DEF BundleTypes
  <2>2. HalvesAreCopied'
    <3>1. \A b \in Admins : \A w \in Versions : Copying(b, w) => Copying(b, w)'
      BY <1>0, <2>1 DEF Copying
    <3> QED
      BY <1>0, <1>4, <3>1 DEF HalvesAreCopied
  <2>3. Announced' => Announced
    BY <1>0, <1>4, <2>1 DEF Announced, Unmarked
  <2> QED
    BY <1>0, <1>4, <2>1, <2>2, <2>3, HandlerKeeps
<1> QED
  BY <1>1, <1>3, <1>4

(* The marker is set, and the handler is done. *)
LEMMA TouchKeeps ==
  ASSUME BundleInv, NEW a \in Admins, TouchReload(a)
  PROVE  BundleInv'
<1>0. /\ BundleTypes /\ HalvesAreCopied /\ admin[a].pc = "touch" /\ marker'
      /\ Step(a, "idle") /\ UNCHANGED <<copied, disabled, cache, load, cut>>
  BY DEF BundleInv, TouchReload
<1>1. /\ BundleTypes'
      /\ \A b \in Admins \ {a} : admin'[b] = admin[b]
  BY <1>0, StepSets DEF BundleTypes
<1>2. HalvesAreCopied'
  <2>1. \A b \in Admins : \A w \in Versions : Copying(b, w) => Copying(b, w)'
    BY <1>0, <1>1 DEF Copying
  <2> QED
    BY <1>0, <2>1 DEF HalvesAreCopied
<1>3. ~Announced'
  BY <1>0 DEF Announced
<1> QED
  BY <1>0, <1>1, <1>2, <1>3, HandlerKeeps

(* The console dies: changes it was in are cut short. *)
LEMMA StopConsoleKeeps == BundleInv /\ StopConsole => BundleInv'
<1> SUFFICES ASSUME BundleInv, StopConsole PROVE BundleInv'
  OBVIOUS
<1>1. \A a \in Admins : admin'[a] = NoAdmin
  BY DEF StopConsole
<1>2. NoAdmin \in BundleAdmin /\ NoAdmin.pc = "idle"
  BY DEF NoAdmin, BundleAdmin, BundleKinds
<1>3. BundleTypes'
  BY <1>1, <1>2 DEF BundleInv, BundleTypes, StopConsole
<1>4. HalvesAreCopied' /\ ~Announced'
  BY DEF HalvesAreCopied, Announced, StopConsole
<1> QED
  BY <1>3, <1>4, HandlerKeeps DEF StopConsole

(* Every step of the console and the worker keeps the invariant. *)
LEMMA BundleInvStep == BundleInv /\ [BundleNext]_bundleVars => BundleInv'
<1> SUFFICES ASSUME BundleInv, [BundleNext]_bundleVars PROVE BundleInv'
  OBVIOUS
<1>1. ASSUME NEW a \in Admins,
             NEW k \in {"install", "enable", "disable", "uninstall"},
             NEW v \in Versions, StartOp(a, k, v)
      PROVE  BundleInv'
  BY <1>1, StartOpKeeps DEF BundleKinds
<1>2. CASE UNCHANGED bundleVars
  <2>1. UNCHANGED <<copied, disabled, marker, cache, load, admin, cut>>
    BY <1>2 DEF bundleVars
  <2>2. BundleTypes' /\ HalvesAreCopied' /\ (Announced' => Announced)
    BY <2>1 DEF BundleInv, BundleTypes, HalvesAreCopied, Copying, Announced, Unmarked
  <2> QED
    BY <2>1, <2>2, HandlerKeeps
<1> QED
  BY <1>1, <1>2, WorkerStepKeeps, CopyFilesKeeps, PatchKeeps, MoveKeeps, TouchKeeps,
     StopConsoleKeeps
  DEF BundleNext

(* loader.py and admin_v2.py: once no handler is at work and the marker    *)
(* has been taken, the worker serves the highest version enabled, for any  *)
(* number of versions, of handlers at once and of changes.                 *)
THEOREM ServedBundleIsCurrent == BundleSpec => []CacheIsCurrent
<1>1. BundleInv => CacheIsCurrent
  BY DEF BundleInv, WorkerIsCurrent, CacheIsCurrent, Quiet, Announced, Unmarked
<1> QED
  BY <1>1, BundleInvInit, BundleInvStep, PTL DEF BundleSpec

---------------------------------------------------------------------------
(* Documents.  A document is changed alone, or it is torn.                 *)

UploadPoints == {"idle", "extract", "scan", "unlink", "mkdir", "open", "fill"}
DeletePoints == {"idle", "original", "scan", "unlink"}
Changes(P)   == [pc : P, doc : Docs \cup {0}, text : Texts \cup {0}, next : Nat, left : SUBSET Nat]

DocTypes ==
  /\ original \in [Docs -> Texts \cup {NoDoc}]
  /\ dirs \subseteq Docs /\ DOMAIN chunks = Docs
  /\ \A d \in Docs : Listing(d) \subseteq Nat
  /\ upload \in Changes(UploadPoints) /\ (upload.pc = "idle" <=> upload.doc = 0)
  /\ delete \in [Deleters -> Changes(DeletePoints)]
  /\ \A h \in Deleters : delete[h].pc = "idle" <=> delete[h].doc = 0

(* The first n chunks of a text are there, and right.                      *)
Written(d, t, n) ==
  \A i \in DOMAIN Windows(t) : i < n => i \in Listing(d) /\ chunks[d][i] = Windows(t)[i]

(* What is there of a document that nobody changes.                        *)
Whole(d) ==
  \/ original[d] = NoDoc /\ Listing(d) = {}
  \/ /\ original[d] # NoDoc /\ original[d] # 0 /\ d \in dirs
     /\ Listing(d) = DOMAIN Windows(original[d])
     /\ \A i \in Listing(d) : chunks[d][i] = Windows(original[d])[i]

(* What is there of a document while it is uploaded, and while deleted.    *)
Uploading(d) ==
  /\ \A h \in Deleters : delete[h].doc # d
  /\ IF upload.text = 0 /\ upload.pc # "extract" THEN original[d] = NoDoc
     ELSE original[d] = upload.text /\ original[d] # NoDoc
  /\ upload.text = 0 => upload.pc \in {"extract", "scan", "unlink"}
  /\ upload.pc = "unlink" => Listing(d) \subseteq upload.left
  /\ upload.pc = "mkdir"  => Listing(d) = {} /\ upload.next = 0
  /\ upload.pc \in {"extract", "scan", "unlink"} => upload.next = 0
  /\ upload.pc \in {"open", "fill"} =>
       /\ d \in dirs /\ upload.next \in DOMAIN Windows(upload.text)
       /\ Listing(d) = {i \in DOMAIN Windows(upload.text) :
                          i < upload.next \/ (i = upload.next /\ upload.pc = "fill")}
       /\ Written(d, upload.text, upload.next)
Deleting(d, h) ==
  /\ upload.doc # d /\ \A g \in Deleters : delete[g].doc = d => g = h
  /\ IF delete[h].pc = "original" THEN original[d] # NoDoc ELSE original[d] = NoDoc
  /\ delete[h].pc = "unlink" => Listing(d) \subseteq delete[h].left

Says(d) ==
  /\ upload.doc = d => Uploading(d)
  /\ \A h \in Deleters : delete[h].doc = d => Deleting(d, h)
  /\ ~Changing(d) => Whole(d)
StoredInv == \A d \in Docs : d \notin torn => Says(d)

(* An undisturbed enquiry has scored, or still has to read, every chunk.   *)
EnquiryTypes ==
  /\ DOMAIN enquiry = {"pc", "asks", "docs", "files", "scored", "clean"}
  /\ enquiry.pc \in {"idle", "glob", "read", "rank", "answered"}
  /\ enquiry.docs \subseteq Docs /\ enquiry.files \subseteq Docs \X Nat
Reading ==
  /\ enquiry.pc = "rank" => enquiry.docs = {}
  /\ \A s \in enquiry.scored : \E d \in Docs : \E i \in Listing(d) : s \in Scored(<<d, i>>)
  /\ \A d \in dirs : d \in enquiry.docs \/ \A i \in Listing(d) :
       (enquiry.pc = "read" /\ <<d, i>> \in enquiry.files) \/ Scored(<<d, i>>) \subseteq enquiry.scored
EnquiryInv ==
  /\ EnquiryTypes
  /\ enquiry.clean => /\ Settled /\ enquiry.asks \in Quotes
                      /\ enquiry.pc \in {"glob", "read", "rank"} => Reading

DocInv == DocTypes /\ StoredInv /\ EnquiryInv /\ QuotesAreFound

(* The arithmetic of the chunks.                                           *)
LEMMA LesserOf ==
  ASSUME NEW m \in Nat, NEW n \in Nat PROVE Min({m, n}) = IF m <= n THEN m ELSE n
<1> DEFINE x == IF m <= n THEN m ELSE n
<1>1. x \in {m, n} /\ \A y \in {m, n} : x <= y
  OBVIOUS
<1>2. \A z \in {m, n} : (\A y \in {m, n} : z <= y) => z = x
  OBVIOUS
<1> HIDE DEF x
<1>3. Min({m, n}) = x
  BY <1>1, <1>2 DEF Min
<1> QED
  BY <1>3 DEF x

(* What Windows says of each window: where it begins and ends.             *)
LEMMA WindowsOf ==
  ASSUME NEW t \in Nat
  PROVE  /\ DOMAIN Windows(t) \subseteq Nat
         /\ \A n \in Nat : n \in DOMAIN Windows(t) <=>
              n < t /\ (n = 0 \/ (n - 1) * Stride + ChunkWords < t)
         /\ \A n \in DOMAIN Windows(t) :
              Windows(t)[n] =
                Stretch(t, n * Stride + 1,
                        IF n * Stride + ChunkWords <= t THEN n * Stride + ChunkWords ELSE t)
<1>1. Stride \in Nat \ {0} /\ ChunkWords \in Nat
  BY DocumentAssumption DEF Stride
<1> DEFINE D == {n \in 0 .. t - 1 : n = 0 \/ (n - 1) * Stride + ChunkWords < t}
<1>2. DOMAIN Windows(t) = D
  BY DEF Windows
<1>3. D \subseteq Nat /\ \A n \in Nat : n \in 0 .. t - 1 <=> n < t
  OBVIOUS
<1>4. ASSUME NEW n \in D
      PROVE  Windows(t)[n] =
                Stretch(t, n * Stride + 1,
                        IF n * Stride + ChunkWords <= t THEN n * Stride + ChunkWords ELSE t)
  <2>1. n * Stride + ChunkWords \in Nat
    BY <1>1, <1>3
  <2>2. Windows(t)[n] = Stretch(t, n * Stride + 1, Min({n * Stride + ChunkWords, t}))
    BY DEF Windows
  <2> QED
    BY <2>1, <2>2, LesserOf
<1> QED
  BY <1>2, <1>3, <1>4

(* The stride takes a window on by at least a word.                        *)
LEMMA StrideGrows ==
  ASSUME NEW n \in Nat
  PROVE  /\ n * Stride \in Nat /\ n <= n * Stride
         /\ (n + 1) * Stride = n * Stride + Stride
         /\ \A m \in Nat : m <= n => m * Stride <= n * Stride
<1>1. Stride \in Nat \ {0}
  BY DocumentAssumption DEF Stride
<1> HIDE DEF Stride
<1>2. n * Stride \in Nat /\ (n + 1) * Stride = n * Stride + Stride
  BY <1>1
<1>3. n <= n * Stride
  <2>1. n * Stride = n + n * (Stride - 1) /\ Stride - 1 \in Nat
    BY <1>1
  <2>2. n * (Stride - 1) \in Nat
    BY <2>1
  <2> QED
    BY <2>1, <2>2
<1>4. ASSUME NEW m \in Nat, m <= n PROVE m * Stride <= n * Stride
  <2>1. n * Stride = m * Stride + (n - m) * Stride /\ n - m \in Nat
    BY <1>1, <1>4
  <2>2. (n - m) * Stride \in Nat /\ m * Stride \in Nat
    BY <1>1, <2>1
  <2> QED
    BY <2>1, <2>2
<1> QED
  BY <1>2, <1>3, <1>4

(* The chunks are numbered from 0.                                         *)
LEMMA WindowsInitial ==
  ASSUME NEW t \in Nat, NEW n \in DOMAIN Windows(t), NEW m \in Nat, m <= n
  PROVE  m \in DOMAIN Windows(t)
<1>1. /\ n \in Nat /\ n < t /\ (n = 0 \/ (n - 1) * Stride + ChunkWords < t)
      /\ ChunkWords \in Nat /\ Stride \in Nat
  BY WindowsOf, DocumentAssumption DEF Stride
<1>2. CASE m = 0
  BY <1>1, <1>2, WindowsOf
<1>3. CASE m # 0
  <2>1. n - 1 \in Nat /\ m - 1 \in Nat /\ m - 1 <= n - 1 /\ n # 0
    BY <1>1, <1>3
  <2>2. /\ (m - 1) * Stride <= (n - 1) * Stride
        /\ (m - 1) * Stride \in Nat /\ (n - 1) * Stride \in Nat
    BY <2>1, StrideGrows
  <2>3. (m - 1) * Stride + ChunkWords < t
    BY <1>1, <2>1, <2>2
  <2> QED
    BY <1>1, <2>3, WindowsOf
<1> QED
  BY <1>2, <1>3

(* What is quoted is all in one chunk of its text.                         *)
LEMMA WindowCovers ==
  ASSUME NEW p \in Quotes
  PROVE  /\ p.text \in Texts /\ p.text # 0
         /\ IsFiniteSet(Words(p)) /\ Words(p) # {}
         /\ \E n \in DOMAIN Windows(p.text) : Words(p) \subseteq Words(Windows(p.text)[n])
<1>1. PICK t \in Texts : \E i \in 1 .. t : p = Stretch(t, i, Min({t, i + OverlapWords}))
  BY DEF Quotes
<1>12. PICK i \in 1 .. t : p = Stretch(t, i, Min({t, i + OverlapWords}))
  BY <1>1
<1>2. /\ t \in Nat /\ i \in Nat /\ i # 0 /\ i <= t /\ OverlapWords \in Nat /\ ChunkWords \in Nat
      /\ Stride = ChunkWords - OverlapWords /\ Stride \in Nat \ {0}
  BY DocumentAssumption DEF Stride
<1> HIDE DEF Stride
<1> DEFINE last == IF t <= i + OverlapWords THEN t ELSE i + OverlapWords
<1>3. p.text = t /\ p.first = i /\ p.last = last
  BY <1>2, <1>12, LesserOf DEF Stretch
(* The last chunk that begins no later. *)
<1> DEFINE T == {k \in Nat : k <= t /\ t - k \in DOMAIN Windows(t) /\ (t - k) * Stride + 1 <= i}
<1>4. t \in T
  <2>1. 0 \in DOMAIN Windows(t)
    BY <1>2, WindowsOf
  <2>2. 0 * Stride + 1 <= i /\ t - t = 0
    BY <1>2
  <2> QED
    BY <1>2, <2>1, <2>2
<1>5. PICK k \in T : \A j \in T : k <= j
  <2>1. T \subseteq Nat /\ T # {}
    BY <1>4
  <2> HIDE DEF T
  <2> QED
    BY <2>1, LowestMember
<1> DEFINE n == t - k
<1>6. n \in Nat /\ n \in DOMAIN Windows(t) /\ n * Stride + 1 <= i /\ n < t
  BY <1>2, <1>5, WindowsOf
<1>7. n + 1 \in DOMAIN Windows(t) => (n + 1) * Stride + 1 > i
  <2> SUFFICES ASSUME n + 1 \in DOMAIN Windows(t), ~((n + 1) * Stride + 1 > i) PROVE FALSE
    OBVIOUS
  <2>1. k - 1 \in Nat /\ t - (k - 1) = n + 1 /\ k - 1 <= t
    BY <1>2, <1>5, <1>6
  <2>2. (n + 1) * Stride \in Nat
    BY <1>6, StrideGrows
  <2>3. (n + 1) * Stride + 1 <= i
    BY <1>2, <2>2
  <2>4. k - 1 \in T
    BY <2>1, <2>3
  <2>5. k <= k - 1
    BY <1>5, <2>4
  <2> QED
    BY <1>5, <2>5
<1> HIDE DEF n, T
<1>8. /\ n * Stride \in Nat /\ n <= n * Stride
      /\ (n + 1) * Stride = n * Stride + Stride
  BY <1>6, StrideGrows
<1>9. i <= n * Stride + Stride \/ t <= n * Stride + ChunkWords
  <2>1. CASE n + 1 \in DOMAIN Windows(t)
    BY <1>2, <1>7, <1>8, <2>1
  <2>2. CASE n + 1 \notin DOMAIN Windows(t)
    <3>1. ~(n + 1 < t) \/ ~((n + 1 - 1) * Stride + ChunkWords < t)
      BY <1>2, <1>6, <2>2, WindowsOf
    <3>2. n + 1 - 1 = n
      BY <1>6
    <3>3. ~(n + 1 < t) \/ ~(n * Stride + ChunkWords < t)
      BY <3>1, <3>2
    <3> QED
      BY <1>2, <1>6, <1>8, <3>3
  <2> QED
    BY <2>1, <2>2
<1>10. last <= IF n * Stride + ChunkWords <= t THEN n * Stride + ChunkWords ELSE t
  BY <1>2, <1>8, <1>9
<1>11. Words(p) \subseteq Words(Windows(t)[n])
  <2> DEFINE lastWord == IF n * Stride + ChunkWords <= t THEN n * Stride + ChunkWords ELSE t
  <2>1. Windows(t)[n] = Stretch(t, n * Stride + 1, lastWord)
    BY <1>2, <1>6, WindowsOf
  <2>2. last \in Nat /\ lastWord \in Nat
    BY <1>2, <1>8
  <2>3. \A w \in i .. last : w \in n * Stride + 1 .. lastWord
    BY <1>2, <1>6, <1>8, <1>10, <2>2
  <2> QED
    BY <1>3, <2>1, <2>3 DEF Words, Stretch
<1>13. IsFiniteSet(Words(p)) /\ Words(p) # {}
  <2> DEFINE f == [w \in i .. last |-> <<t, w>>]
  <2>1. Words(p) = {<<t, w>> : w \in i .. last} /\ i \in i .. last /\ last \in Nat
    BY <1>2, <1>3 DEF Words
  <2>2. IsFiniteSet(i .. last)
    <3>1. i \in Int /\ last \in Int
      BY <1>2, <2>1
    <3> QED
      BY <3>1, FS_Interval
  <2>3. f \in Surjection(i .. last, Words(p))
    BY <2>1 DEF Surjection
  <2> QED
    BY <2>1, <2>2, <2>3, FS_Surjection
<1> QED
  BY <1>2, <1>3, <1>6, <1>11, <1>13

(* A step that leaves a document alone.                                    *)
Apart(d) ==
  /\ original'[d] = original[d] /\ chunks'[d] = chunks[d] /\ (d \in dirs' <=> d \in dirs)
  /\ upload' = upload \/ (upload.doc # d /\ upload'.doc # d)
  /\ \A h \in Deleters : delete'[h] = delete[h] \/ (delete[h].doc # d /\ delete'[h].doc # d)

(* What is said of a document stays true while nothing of it changes.      *)
LEMMA ApartKeeps ==
  ASSUME NEW d \in Docs, Says(d), Apart(d) PROVE Says(d)'
<1>1. /\ upload'.doc = d <=> upload.doc = d
      /\ \A h \in Deleters : delete'[h].doc = d <=> delete[h].doc = d
      /\ Changing(d)' <=> Changing(d)
      /\ Listing(d)' = Listing(d)
  BY DEF Apart, Changing, Listing
<1>2. ASSUME upload'.doc = d PROVE Uploading(d)'
  <2>1. upload' = upload /\ Uploading(d)
    BY <1>1, <1>2 DEF Apart, Says
  <2>2. Written(d, upload.text, upload.next) => Written(d, upload.text, upload.next)'
    BY <1>1, <2>1 DEF Written, Apart
  <2> QED
    BY <1>1, <2>1, <2>2 DEF Uploading, Apart
<1>3. ASSUME NEW h \in Deleters, delete'[h].doc = d PROVE Deleting(d, h)'
  <2>1. delete'[h] = delete[h] /\ Deleting(d, h)
    BY <1>1, <1>3 DEF Apart, Says
  <2> QED
    BY <1>1, <2>1 DEF Deleting, Apart
<1>4. ASSUME ~Changing(d)' PROVE Whole(d)'
  <2>1. Whole(d)
    BY <1>1, <1>4 DEF Says
  <2> QED
    BY <1>1, <2>1 DEF Whole, Apart
<1> QED
  BY <1>2, <1>3, <1>4 DEF Says

(* A step of the upload is about its document only.                        *)
LEMMA UploadStep ==
  ASSUME StoredInv, NEW e \in Docs, upload.doc = e, upload'.doc \in {e, 0}, 0 \notin Docs,
         \A d \in Docs : d # e => /\ original'[d] = original[d] /\ chunks'[d] = chunks[d]
                                  /\ (d \in dirs' <=> d \in dirs),
         delete' = delete, torn' = torn,
         e \notin torn /\ Uploading(e) => Says(e)'
  PROVE  StoredInv'
<1>1. ASSUME NEW d \in Docs, d # e, d \notin torn PROVE Says(d)'
  <2>1. Says(d) /\ Apart(d)
    BY <1>1 DEF StoredInv, Apart
  <2> QED
    BY <2>1, ApartKeeps
<1>2. e \notin torn => Says(e)'
  BY DEF StoredInv, Says
<1> QED
  BY <1>1, <1>2 DEF StoredInv

(* A step of a deletion likewise.                                          *)
LEMMA DeletionStep ==
  ASSUME StoredInv, NEW h \in Deleters, NEW e \in Docs, delete[h].doc = e,
         delete'[h].doc \in {e, 0}, 0 \notin Docs,
         \A g \in Deleters : g # h => delete'[g] = delete[g],
         \A d \in Docs : d # e => /\ original'[d] = original[d] /\ chunks'[d] = chunks[d]
                                  /\ (d \in dirs' <=> d \in dirs),
         upload' = upload, torn' = torn,
         e \notin torn /\ Deleting(e, h) => Says(e)'
  PROVE  StoredInv'
<1>1. ASSUME NEW d \in Docs, d # e, d \notin torn PROVE Says(d)'
  <2>1. \A g \in Deleters :
          delete'[g] = delete[g] \/ (delete[g].doc # d /\ delete'[g].doc # d)
    BY <1>1
  <2>2. Says(d) /\ Apart(d)
    BY <1>1, <2>1 DEF StoredInv, Apart
  <2> QED
    BY <2>2, ApartKeeps
<1>2. e \notin torn => Says(e)'
  BY DEF StoredInv, Says
<1> QED
  BY <1>1, <1>2 DEF StoredInv

(* At the start no document is stored, and none is being changed.          *)
LEMMA DocBegins == DocInit => DocTypes /\ StoredInv
<1> SUFFICES ASSUME DocInit PROVE DocTypes /\ StoredInv
  OBVIOUS
<1>1. Docs \subseteq Nat /\ 0 \notin Docs
  BY DocumentAssumption
<1>2. DocTypes
  <2>1. /\ original = [d \in Docs |-> NoDoc] /\ dirs = {} /\ chunks = [d \in Docs |-> <<>>]
        /\ upload = NoChange /\ delete = [h \in Deleters |-> NoChange]
    BY DEF DocInit
  <2>2. NoChange \in Changes(UploadPoints) /\ NoChange \in Changes(DeletePoints)
    BY DEF NoChange, Changes, UploadPoints, DeletePoints
  <2>3. \A d \in Docs : Listing(d) = {}
    BY <2>1 DEF Listing
  <2> QED
    BY <2>1, <2>2, <2>3 DEF DocTypes, NoChange
<1>3. ASSUME NEW d \in Docs PROVE Says(d)
  <2>1. upload.doc # d /\ \A h \in Deleters : delete[h].doc # d
    BY <1>1 DEF DocInit, NoChange
  <2>2. Whole(d)
    BY DEF DocInit, Whole, Listing
  <2> QED
    BY <2>1, <2>2 DEF Says
<1> QED
  BY <1>2, <1>3 DEF StoredInv

(* An upload begins.                                                       *)
LEMMA WriteKeeps ==
  ASSUME DocTypes, StoredInv, NEW e \in Docs, NEW t \in Texts, WriteOriginal(e, t)
  PROVE  DocTypes' /\ StoredInv'
<1> DEFINE u == [NoChange EXCEPT !.pc = "extract", !.doc = e, !.text = t]
<1>1. /\ upload.pc = "idle" /\ upload' = u
      /\ original' = [original EXCEPT ![e] = t] /\ dirs' = dirs /\ chunks' = chunks
      /\ delete' = delete
      /\ torn' = IF Changing(e) THEN torn \cup {e} ELSE torn \ {e}
  BY DEF WriteOriginal, UploadAt, Begins
<1>2. /\ u \in Changes(UploadPoints)
      /\ u.pc = "extract" /\ u.doc = e /\ u.text = t /\ u.next = 0
  BY DEF NoChange, Changes, UploadPoints
<1>3. e # 0 /\ t # NoDoc
  BY DocumentAssumption
<1>4. upload.doc = 0
  BY <1>1 DEF DocTypes
<1> HIDE DEF u
<1>5. original' \in [Docs -> Texts \cup {NoDoc}]
  BY <1>1 DEF DocTypes
<1>6. DocTypes'
  BY <1>1, <1>2, <1>3, <1>5 DEF DocTypes, Listing
<1>7. ASSUME NEW d \in Docs, d # e, d \notin torn' PROVE Says(d)'
  <2>1. d \notin torn /\ d # 0
    BY <1>1, <1>7, DocumentAssumption
  <2>2. Says(d) /\ Apart(d)
    BY <1>1, <1>2, <1>4, <1>7, <2>1 DEF StoredInv, Apart, DocTypes
  <2> QED
    BY <2>2, ApartKeeps
<1>8. ASSUME e \notin torn' PROVE Says(e)'
  <2>1. \A h \in Deleters : delete'[h].doc # e
    BY <1>1, <1>8 DEF Changing
  <2>2. original'[e] = t
    BY <1>1 DEF DocTypes
  <2>3. Uploading(e)'
    BY <1>1, <1>2, <1>3, <2>1, <2>2 DEF Uploading
  <2>4. Changing(e)'
    BY <1>1, <1>2 DEF Changing
  <2> QED
    BY <2>1, <2>3, <2>4 DEF Says
<1> QED
  BY <1>6, <1>7, <1>8 DEF StoredInv

(* An upload has extracted a text, or nothing: what it refuses is removed. *)
LEMMA ExtractKeeps ==
  ASSUME DocTypes, StoredInv, Extract PROVE DocTypes' /\ StoredInv'
<1>1. /\ upload.pc = "extract" /\ dirs' = dirs /\ chunks' = chunks /\ delete' = delete
      /\ torn' = torn
  BY DEF Extract, UploadAt
<1>5. PICK e \in Docs : upload.doc = e
  BY <1>1 DEF DocTypes, Changes
<1>2. /\ e # 0 /\ 0 \notin Docs /\ upload \in Changes(UploadPoints)
  BY DocumentAssumption DEF DocTypes
<1>3. CASE original[e] = NoDoc
  <2>1. upload' = NoChange /\ original' = original
    BY <1>3, <1>5 DEF Extract
  <2>2. /\ upload' \in Changes(UploadPoints) /\ upload'.pc = "idle" /\ upload'.doc = 0
    BY <2>1 DEF NoChange, Changes, UploadPoints
  <2>3. DocTypes'
    BY <1>1, <2>1, <2>2 DEF DocTypes, Listing
  <2>4. ~Uploading(e)
    BY <1>1, <1>3 DEF Uploading
  <2> QED
    BY <1>1, <1>2, <2>1, <2>2, <2>3, <2>4, <1>5, UploadStep
<1>4. CASE original[e] # NoDoc
  <2>1. /\ upload' = [upload EXCEPT !.pc = "scan"]
        /\ original' = IF upload.text = 0 THEN [original EXCEPT ![e] = NoDoc] ELSE original
    BY <1>4, <1>5 DEF Extract, UploadGo
  <2>2. /\ upload' \in Changes(UploadPoints) /\ upload'.pc = "scan" /\ upload'.doc = e
        /\ upload'.text = upload.text /\ upload'.next = upload.next
    BY <1>2, <1>5, <2>1 DEF Changes, UploadPoints
  <2>3. /\ original' \in [Docs -> Texts \cup {NoDoc}]
        /\ \A d \in Docs : d # e => original'[d] = original[d]
        /\ original'[e] = IF upload.text = 0 THEN NoDoc ELSE original[e]
    BY <1>2, <2>1 DEF DocTypes
  <2>4. DocTypes'
    BY <1>1, <1>2, <2>2, <2>3 DEF DocTypes, Listing
  <2>5. ASSUME Uploading(e) PROVE Says(e)'
    <3>1. Uploading(e)'
      BY <1>1, <1>4, <2>2, <2>3, <2>5 DEF Uploading
    <3>2. Changing(e)'
      BY <2>2 DEF Changing
    <3> QED
      BY <3>1, <3>2 DEF Says, Uploading
  <2>6. StoredInv'
    BY <1>1, <1>2, <2>2, <2>3, <2>5, <1>5, UploadStep
  <2> QED
    BY <2>4, <2>6
<1> QED
  BY <1>3, <1>4

(* The files of a directory, one of them gone.                             *)
LEMMA UnlinkOne ==
  ASSUME DocTypes, NEW e \in Docs, NEW i, UnlinkChunk(e, i)
  PROVE  /\ DOMAIN chunks' = Docs /\ Listing(e)' = Listing(e) \ {i}
         /\ \A d \in Docs : d # e => chunks'[d] = chunks[d]
BY DEF DocTypes, UnlinkChunk, Listing, Restrict

(* A step of the removal of the old chunks before an upload writes its own.*)
LEMMA UploadRemovesKeeps ==
  ASSUME DocTypes, StoredInv, UploadRemoves PROVE DocTypes' /\ StoredInv'
<1>1. /\ upload.pc \in {"scan", "unlink"} /\ original' = original /\ delete' = delete
      /\ torn' = torn
  BY DEF UploadRemoves, UploadAt
<1>6. PICK e \in Docs : upload.doc = e
  BY <1>1 DEF DocTypes, Changes
<1>2. /\ e # 0 /\ 0 \notin Docs /\ upload \in Changes(UploadPoints) /\ upload.doc = e
      /\ DOMAIN chunks = Docs /\ Listing(e) \subseteq Nat
  BY <1>6, DocumentAssumption DEF DocTypes
<1>3. CASE /\ upload.pc = "scan" /\ UNCHANGED <<dirs, chunks>>
           /\ upload' = [upload EXCEPT !.pc = "unlink", !.left = Listing(e)]
  <2>1. /\ upload' \in Changes(UploadPoints) /\ upload'.pc = "unlink" /\ upload'.doc = e
        /\ upload'.text = upload.text /\ upload'.next = upload.next /\ upload'.left = Listing(e)
    BY <1>2, <1>3 DEF Changes, UploadPoints
  <2>2. DocTypes'
    BY <1>1, <1>2, <1>3, <2>1 DEF DocTypes, Listing
  <2>3. ASSUME Uploading(e) PROVE Says(e)'
    <3>1. Uploading(e)'
      BY <1>1, <1>3, <2>1, <2>3 DEF Uploading, Listing
    <3>2. Changing(e)'
      BY <2>1 DEF Changing
    <3> QED
      BY <3>1, <3>2 DEF Says, Uploading
  <2>4. StoredInv'
    BY <1>1, <1>2, <1>3, <2>1, <2>3, UploadStep
  <2> QED
    BY <2>2, <2>4
<1>4. ASSUME NEW i \in upload.left, upload.pc = "unlink", UnlinkChunk(e, i), dirs' = dirs,
             upload' = [upload EXCEPT !.left = @ \ {i}]
      PROVE  DocTypes' /\ StoredInv'
  <2>1. /\ upload' \in Changes(UploadPoints) /\ upload'.pc = "unlink" /\ upload'.doc = e
        /\ upload'.text = upload.text /\ upload'.next = upload.next
        /\ upload'.left = upload.left \ {i}
    BY <1>2, <1>4 DEF Changes, UploadPoints
  <2>2. /\ DOMAIN chunks' = Docs /\ Listing(e)' = Listing(e) \ {i}
        /\ \A d \in Docs : d # e => chunks'[d] = chunks[d]
    BY <1>2, <1>4, UnlinkOne
  <2>3. \A d \in Docs : Listing(d)' \subseteq Nat
    <3>1. Listing(e)' \subseteq Nat
      BY <1>2, <2>2
    <3>2. \A d \in Docs : d # e => Listing(d)' = Listing(d)
      BY <2>2 DEF Listing
    <3> QED
      BY <3>1, <3>2 DEF DocTypes
  <2>4. DocTypes'
    BY <1>1, <1>2, <1>4, <2>1, <2>2, <2>3 DEF DocTypes
  <2>5. ASSUME Uploading(e) PROVE Says(e)'
    <3>1. Uploading(e)'
      BY <1>1, <1>4, <2>1, <2>2, <2>5 DEF Uploading
    <3>2. Changing(e)'
      BY <2>1 DEF Changing
    <3> QED
      BY <3>1, <3>2 DEF Says, Uploading
  <2>6. StoredInv'
    BY <1>1, <1>2, <1>4, <2>1, <2>2, <2>5, UploadStep
  <2> QED
    BY <2>4, <2>6
<1>5. CASE /\ upload.pc = "unlink" /\ upload.left = {} /\ RemoveDir(e) /\ chunks' = chunks
           /\ IF upload.text = 0 THEN upload' = NoChange ELSE UploadGo("mkdir")
  <2>1. /\ upload' \in Changes(UploadPoints)
        /\ upload'.pc = IF upload.text = 0 THEN "idle" ELSE "mkdir"
        /\ upload'.doc = IF upload.text = 0 THEN 0 ELSE e
        /\ upload.text # 0 => upload'.text = upload.text /\ upload'.next = upload.next
    BY <1>2, <1>5 DEF NoChange, Changes, UploadPoints, UploadGo
  <2>2. dirs' \subseteq dirs /\ \A d \in Docs : d # e => (d \in dirs' <=> d \in dirs)
    BY <1>5 DEF RemoveDir
  <2>3. DocTypes'
    BY <1>1, <1>2, <1>5, <2>1, <2>2 DEF DocTypes, Listing
  <2>4. ASSUME Uploading(e) PROVE Says(e)'
    <3>1. Listing(e)' = {} /\ \A h \in Deleters : delete'[h].doc # e
      BY <1>1, <1>5, <2>4 DEF Uploading, Listing
    <3>2. CASE upload.text = 0
      <4>1. ~(upload'.doc = e) /\ original'[e] = NoDoc
        BY <1>1, <1>2, <1>5, <2>1, <2>4, <3>2 DEF Uploading
      <4>2. Whole(e)'
        BY <3>1, <4>1 DEF Whole
      <4> QED
        BY <3>1, <4>1, <4>2 DEF Says
    <3>3. CASE upload.text # 0
      <4>1. Uploading(e)'
        BY <1>1, <1>5, <2>1, <2>4, <3>1, <3>3 DEF Uploading
      <4>2. Changing(e)'
        BY <2>1, <3>3 DEF Changing
      <4> QED
        BY <3>1, <4>1, <4>2 DEF Says
    <3> QED
      BY <3>2, <3>3
  <2>5. StoredInv'
    BY <1>1, <1>2, <1>5, <2>1, <2>2, <2>4, UploadStep
  <2> QED
    BY <2>3, <2>5
<1> QED
  BY <1>2, <1>3, <1>4, <1>5 DEF UploadRemoves, UploadAt

(* An upload has its directory, empty.                                     *)
LEMMA MakeDirKeeps ==
  ASSUME DocTypes, StoredInv, MakeDir PROVE DocTypes' /\ StoredInv'
<1>1. /\ upload.pc = "mkdir" /\ upload' = [upload EXCEPT !.pc = "open"]
      /\ dirs' = dirs \cup {upload.doc} /\ original' = original /\ chunks' = chunks
      /\ delete' = delete /\ torn' = torn
  BY DEF MakeDir, UploadAt, UploadGo
<1>2. PICK e \in Docs : upload.doc = e
  BY <1>1 DEF DocTypes, Changes
<1>3. e # 0 /\ 0 \notin Docs /\ upload \in Changes(UploadPoints)
  BY DocumentAssumption DEF DocTypes
<1>4. /\ upload' \in Changes(UploadPoints) /\ upload'.pc = "open" /\ upload'.doc = e
      /\ upload'.text = upload.text /\ upload'.next = upload.next
  BY <1>1, <1>2, <1>3 DEF Changes, UploadPoints
<1>5. DocTypes'
  BY <1>1, <1>2, <1>3, <1>4 DEF DocTypes, Listing
<1>6. ASSUME Uploading(e) PROVE Says(e)'
  <2>1. upload.text \in Nat /\ upload.text # 0 /\ upload.next = 0
    BY <1>1, <1>3, <1>6, DocumentAssumption DEF Uploading, Changes
  <2>2. 0 \in DOMAIN Windows(upload.text) /\ DOMAIN Windows(upload.text) \subseteq Nat
    BY <2>1, WindowsOf
  <2>3. Listing(e)' = {} /\ e \in dirs'
    BY <1>1, <1>2, <1>6 DEF Uploading, Listing
  <2>4. {i \in DOMAIN Windows(upload'.text) :
           i < upload'.next \/ (i = upload'.next /\ upload'.pc = "fill")} = {}
    BY <1>4, <2>1, <2>2
  <2>5. Written(e, upload.text, upload.next)'
    BY <1>4, <2>1, <2>2 DEF Written
  <2>6. Uploading(e)'
    BY <1>1, <1>4, <1>6, <2>1, <2>2, <2>3, <2>4, <2>5 DEF Uploading
  <2>7. Changing(e)'
    BY <1>4 DEF Changing
  <2> QED
    BY <2>6, <2>7 DEF Says, Uploading
<1>7. StoredInv'
  BY <1>1, <1>2, <1>3, <1>4, <1>6, UploadStep
<1> QED
  BY <1>5, <1>7

(* An upload opens its next chunk, empty at first.                         *)
LEMMA OpenChunkKeeps ==
  ASSUME DocTypes, StoredInv, OpenChunk PROVE DocTypes' /\ StoredInv'
<1>1. /\ upload.pc = "open" /\ dirs' = dirs /\ original' = original
      /\ delete' = delete /\ torn' = torn
  BY DEF OpenChunk, UploadAt
<1>2. PICK e \in Docs : upload.doc = e
  BY <1>1 DEF DocTypes, Changes
<1>3. e # 0 /\ 0 \notin Docs /\ upload \in Changes(UploadPoints)
  BY DocumentAssumption DEF DocTypes
<1>4. CASE e \notin dirs
  <2>1. upload' = NoChange /\ chunks' = chunks
    BY <1>2, <1>4 DEF OpenChunk
  <2>2. /\ upload' \in Changes(UploadPoints) /\ upload'.pc = "idle" /\ upload'.doc = 0
    BY <2>1 DEF NoChange, Changes, UploadPoints
  <2>3. DocTypes'
    BY <1>1, <2>1, <2>2 DEF DocTypes, Listing
  <2>4. ~Uploading(e)
    BY <1>1, <1>4 DEF Uploading
  <2> QED
    BY <1>1, <1>2, <1>3, <2>1, <2>2, <2>3, <2>4, UploadStep
<1>5. CASE e \in dirs
  <2> DEFINE n == upload.next
             f == [i \in DOMAIN chunks[e] \cup {n} |-> IF i = n THEN EmptyFile ELSE chunks[e][i]]
  <2>1. upload' = [upload EXCEPT !.pc = "fill"] /\ chunks' = [chunks EXCEPT ![e] = f]
    BY <1>2, <1>5 DEF OpenChunk, UploadGo
  <2>2. /\ upload' \in Changes(UploadPoints) /\ upload'.pc = "fill" /\ upload'.doc = e
        /\ upload'.text = upload.text /\ upload'.next = n /\ n \in Nat
    BY <1>2, <1>3, <2>1 DEF Changes, UploadPoints
  <2>3. /\ DOMAIN f = Listing(e) \cup {n}
        /\ \A i \in Listing(e) : i # n => f[i] = chunks[e][i]
    BY DEF Listing
  <2> HIDE DEF f
  <2>4. /\ DOMAIN chunks' = Docs /\ chunks'[e] = f
        /\ \A d \in Docs : d # e => chunks'[d] = chunks[d]
    BY <2>1 DEF DocTypes
  <2>5. Listing(e)' = Listing(e) \cup {n}
    BY <2>3, <2>4 DEF Listing
  <2>6. \A d \in Docs : Listing(d)' \subseteq Nat
    <3>1. Listing(e)' \subseteq Nat
      BY <2>2, <2>5 DEF DocTypes
    <3>2. \A d \in Docs : d # e => Listing(d)' = Listing(d)
      BY <2>4 DEF Listing
    <3> QED
      BY <3>1, <3>2 DEF DocTypes
  <2>7. DocTypes'
    BY <1>1, <1>3, <2>2, <2>4, <2>6 DEF DocTypes
  <2>8. ASSUME Uploading(e) PROVE Says(e)'
    <3> DEFINE t == upload.text
               D == DOMAIN Windows(t)
    <3>1. /\ n \in D /\ Listing(e) = {i \in D : i < n} /\ Written(e, t, n)
          /\ t # 0 /\ original[e] = t /\ t # NoDoc
      BY <1>1, <2>8 DEF Uploading
    <3>2. t \in Nat /\ D \subseteq Nat
      <4>1. t \in Nat
        <5>1. t \in Texts \cup {0}
          BY <1>3 DEF Changes
        <5>2. Texts \cup {0} \subseteq Nat
          BY DocumentAssumption
        <5> QED
          BY <5>1, <5>2
      <4> QED
        BY <4>1, WindowsOf
    <3>3. Listing(e)' = {i \in D : i < n \/ i = n}
      BY <2>2, <2>5, <3>1, <3>2
    <3>4. Written(e, upload.text, upload.next)'
      <4> SUFFICES ASSUME NEW i \in D, i < n
                   PROVE  i \in Listing(e)' /\ chunks'[e][i] = Windows(t)[i]
        BY <2>2 DEF Written
      <4>1. i \in Listing(e) /\ chunks[e][i] = Windows(t)[i] /\ i # n
        BY <2>2, <3>1, <3>2 DEF Written
      <4> QED
        BY <2>3, <2>4, <2>5, <4>1
    <3>5. Uploading(e)'
      BY <1>1, <1>5, <2>2, <2>8, <3>1, <3>3, <3>4 DEF Uploading
    <3>6. Changing(e)'
      BY <2>2 DEF Changing
    <3> QED
      BY <3>5, <3>6 DEF Says, Uploading
  <2>9. StoredInv'
    BY <1>1, <1>2, <1>3, <2>2, <2>4, <2>8, UploadStep
  <2> QED
    BY <2>7, <2>9
<1> QED
  BY <1>4, <1>5

(* An upload fills that chunk, and goes on to the next or is done.         *)
LEMMA FillChunkKeeps ==
  ASSUME DocTypes, StoredInv, FillChunk PROVE DocTypes' /\ StoredInv'
<1>1. /\ upload.pc = "fill" /\ dirs' = dirs /\ original' = original
      /\ delete' = delete /\ torn' = torn
  BY DEF FillChunk, UploadAt
<1>2. PICK e \in Docs : upload.doc = e
  BY <1>1 DEF DocTypes, Changes
<1>3. e # 0 /\ 0 \notin Docs /\ upload \in Changes(UploadPoints)
  BY DocumentAssumption DEF DocTypes
<1> DEFINE n == upload.next
           t == upload.text
           D == DOMAIN Windows(t)
<1>4. /\ chunks' = IF n \in Listing(e) THEN [chunks EXCEPT ![e][n] = Windows(t)[n]] ELSE chunks
      /\ upload' = IF n + 1 \in D THEN [upload EXCEPT !.pc = "open", !.next = n + 1] ELSE NoChange
  BY <1>2 DEF FillChunk
<1>5. n \in Nat /\ t \in Nat /\ D \subseteq Nat
  <2>1. n \in Nat /\ t \in Nat
    <3>1. n \in Nat /\ t \in Texts \cup {0}
      BY <1>3 DEF Changes
    <3>2. Texts \cup {0} \subseteq Nat
      BY DocumentAssumption
    <3> QED
      BY <3>1, <3>2
  <2> QED
    BY <2>1, WindowsOf
<1>6. /\ DOMAIN chunks' = Docs /\ \A d \in Docs : Listing(d)' = Listing(d)
      /\ \A d \in Docs : d # e => chunks'[d] = chunks[d]
      /\ \A i \in Listing(e) : i # n => chunks'[e][i] = chunks[e][i]
      /\ n \in Listing(e) => chunks'[e][n] = Windows(t)[n]
  <2>1. CASE n \notin Listing(e)
    BY <1>4, <2>1 DEF DocTypes, Listing
  <2>2. CASE n \in Listing(e)
    <3>1. chunks' = [chunks EXCEPT ![e] = [chunks[e] EXCEPT ![n] = Windows(t)[n]]]
      BY <1>4, <2>2
    <3> HIDE DEF n, t
    <3> QED
      BY <2>2, <3>1 DEF DocTypes, Listing
  <2> QED
    BY <2>1, <2>2
<1>7. /\ upload' \in Changes(UploadPoints)
      /\ n + 1 \in D => /\ upload'.pc = "open" /\ upload'.doc = e /\ upload'.text = t
                        /\ upload'.next = n + 1
      /\ n + 1 \notin D => upload'.pc = "idle" /\ upload'.doc = 0
  BY <1>2, <1>3, <1>4, <1>5 DEF NoChange, Changes, UploadPoints
<1>8. DocTypes'
  BY <1>1, <1>3, <1>6, <1>7 DEF DocTypes
<1>9. ASSUME Uploading(e) PROVE Says(e)'
  <2>1. /\ n \in D /\ Listing(e) = {i \in D : i < n \/ i = n} /\ Written(e, t, n)
        /\ t # 0 /\ original[e] = t /\ t # NoDoc /\ e \in dirs
        /\ \A h \in Deleters : delete'[h].doc # e
    BY <1>1, <1>9 DEF Uploading
  <2>2. \A i \in D : i < n \/ i = n => i \in Listing(e)' /\ chunks'[e][i] = Windows(t)[i]
    BY <1>5, <1>6, <2>1 DEF Written
  <2>3. CASE n + 1 \in D
    <3>1. \A i \in D : i < n + 1 <=> i < n \/ i = n
      BY <1>5
    <3>2. Written(e, upload.text, upload.next)'
      BY <1>7, <2>2, <2>3, <3>1 DEF Written
    <3>3. Listing(e)' = {i \in D : i < n + 1}
      BY <1>6, <2>1, <3>1
    <3> HIDE DEF n, t
    <3>4. Uploading(e)'
      BY <1>1, <1>7, <2>1, <2>3, <3>2, <3>3 DEF Uploading
    <3>5. Changing(e)'
      BY <1>7, <2>3 DEF Changing
    <3> QED
      BY <2>1, <3>4, <3>5 DEF Says
  <2>4. CASE n + 1 \notin D
    <3>1. \A i \in D : i < n \/ i = n
      <4> SUFFICES ASSUME NEW i \in D, ~(i < n \/ i = n) PROVE FALSE
        OBVIOUS
      <4>1. n + 1 \in Nat /\ n + 1 <= i
        BY <1>5
      <4> QED
        BY <1>5, <2>4, <4>1, WindowsInitial
    <3>2. Listing(e)' = D /\ \A i \in D : chunks'[e][i] = Windows(t)[i]
      BY <1>6, <2>1, <2>2, <3>1
    <3>3. original'[e] = t /\ e \in dirs' /\ upload'.doc # e
      BY <1>1, <1>3, <1>7, <2>1, <2>4
    <3> HIDE DEF n, t
    <3>4. Whole(e)'
      BY <2>1, <3>2, <3>3 DEF Whole
    <3> QED
      BY <2>1, <3>3, <3>4 DEF Says
  <2> QED
    BY <2>3, <2>4
<1>10. StoredInv'
  <2>1. upload'.doc \in {e, 0}
    BY <1>7
  <2> QED
    BY <1>1, <1>2, <1>3, <1>6, <1>9, <2>1, UploadStep
<1> QED
  BY <1>8, <1>10

(* A deletion begins.                                                      *)
LEMMA FindKeeps ==
  ASSUME DocTypes, StoredInv, NEW h \in Deleters, NEW e \in Docs, FindOriginal(h, e)
  PROVE  DocTypes' /\ StoredInv'
<1> DEFINE u == [NoChange EXCEPT !.pc = "original", !.doc = e]
<1>1. /\ delete[h].pc = "idle" /\ delete' = [delete EXCEPT ![h] = u]
      /\ original' = original /\ dirs' = dirs /\ chunks' = chunks /\ upload' = upload
      /\ original[e] # NoDoc
      /\ torn' = IF Changing(e) THEN torn \cup {e} ELSE torn \ {e}
  BY DEF FindOriginal, DeleteStep, Begins
<1>2. u \in Changes(DeletePoints) /\ u.pc = "original" /\ u.doc = e
  BY DEF NoChange, Changes, DeletePoints
<1>3. e # 0 /\ 0 \notin Docs
  BY DocumentAssumption
<1> HIDE DEF u
<1>4. /\ delete' \in [Deleters -> Changes(DeletePoints)] /\ delete'[h] = u
      /\ \A g \in Deleters : g # h => delete'[g] = delete[g]
  BY <1>1, <1>2 DEF DocTypes
<1>5. \A g \in Deleters : delete'[g].pc = "idle" <=> delete'[g].doc = 0
  BY <1>2, <1>3, <1>4 DEF DocTypes
<1>6. DocTypes'
  BY <1>1, <1>4, <1>5 DEF DocTypes, Listing
<1>7. ASSUME NEW d \in Docs, d # e, d \notin torn' PROVE Says(d)'
  <2>1. d \notin torn /\ d # 0 /\ delete[h].doc = 0
    BY <1>1, <1>3, <1>7 DEF DocTypes
  <2>2. Says(d) /\ Apart(d)
    BY <1>1, <1>2, <1>4, <1>7, <2>1 DEF StoredInv, Apart
  <2> QED
    BY <2>2, ApartKeeps
<1>8. ASSUME e \notin torn' PROVE Says(e)'
  <2>1. upload'.doc # e /\ \A g \in Deleters : g # h => delete'[g].doc # e
    BY <1>1, <1>4, <1>8 DEF Changing
  <2>2. Deleting(e, h)'
    BY <1>1, <1>2, <1>4, <2>1 DEF Deleting
  <2>3. Changing(e)'
    BY <1>2, <1>4 DEF Changing
  <2> QED
    BY <2>1, <2>2, <2>3 DEF Says
<1> QED
  BY <1>6, <1>7, <1>8 DEF StoredInv

(* A deletion removes the original.                                        *)
LEMMA UnlinkOriginalKeeps ==
  ASSUME DocTypes, StoredInv, NEW h \in Deleters, UnlinkOriginal(h)
  PROVE  DocTypes' /\ StoredInv'
<1>1. /\ delete[h].pc = "original" /\ dirs' = dirs /\ chunks' = chunks /\ upload' = upload
      /\ torn' = torn
  BY DEF UnlinkOriginal
<1>2. PICK e \in Docs : delete[h].doc = e
  BY <1>1 DEF DocTypes, Changes
<1>3. e # 0 /\ 0 \notin Docs /\ delete[h] \in Changes(DeletePoints)
  BY DocumentAssumption DEF DocTypes
<1> DEFINE u == IF original[e] # NoDoc THEN [delete[h] EXCEPT !.pc = "scan"] ELSE NoChange
<1>4. /\ original' = IF original[e] # NoDoc THEN [original EXCEPT ![e] = NoDoc] ELSE original
      /\ delete' = [delete EXCEPT ![h] = u]
  BY <1>2 DEF UnlinkOriginal
<1>5. /\ u \in Changes(DeletePoints)
      /\ original[e] # NoDoc => u.pc = "scan" /\ u.doc = e
      /\ original[e] = NoDoc => u.pc = "idle" /\ u.doc = 0
  BY <1>2, <1>3 DEF NoChange, Changes, DeletePoints
<1> HIDE DEF u
<1>6. /\ delete' \in [Deleters -> Changes(DeletePoints)] /\ delete'[h] = u
      /\ \A g \in Deleters : g # h => delete'[g] = delete[g]
  BY <1>4, <1>5 DEF DocTypes
<1>7. /\ original' \in [Docs -> Texts \cup {NoDoc}] /\ original'[e] = NoDoc
      /\ \A d \in Docs : d # e => original'[d] = original[d]
  BY <1>4 DEF DocTypes
<1>8. \A g \in Deleters : delete'[g].pc = "idle" <=> delete'[g].doc = 0
  BY <1>3, <1>5, <1>6 DEF DocTypes
<1>9. DocTypes'
  BY <1>1, <1>6, <1>7, <1>8 DEF DocTypes, Listing
<1>10. ASSUME Deleting(e, h) PROVE Says(e)'
  <2>1. /\ upload'.doc # e /\ \A g \in Deleters : g # h => delete'[g].doc # e
        /\ delete'[h].pc = "scan" /\ delete'[h].doc = e
    BY <1>1, <1>5, <1>6, <1>10 DEF Deleting
  <2>2. Deleting(e, h)'
    BY <1>7, <2>1 DEF Deleting
  <2>3. Changing(e)'
    BY <2>1 DEF Changing
  <2> QED
    BY <2>1, <2>2, <2>3 DEF Says
<1>11. StoredInv'
  <2>1. delete'[h].doc \in {e, 0}
    BY <1>5, <1>6
  <2> QED
    BY <1>1, <1>2, <1>3, <1>6, <1>7, <1>10, <2>1, DeletionStep
<1> QED
  BY <1>9, <1>11

(* A step of the removal of the chunks by a deletion.                      *)
LEMMA DeleteRemovesKeeps ==
  ASSUME DocTypes, StoredInv, NEW h \in Deleters, DeleteRemoves(h)
  PROVE  DocTypes' /\ StoredInv'
<1>1. /\ delete[h].pc \in {"scan", "unlink"} /\ original' = original /\ upload' = upload
      /\ torn' = torn
  BY DEF DeleteRemoves, DeleteStep
<1>2. PICK e \in Docs : delete[h].doc = e
  BY <1>1 DEF DocTypes, Changes
<1>3. e # 0 /\ 0 \notin Docs /\ delete[h] \in Changes(DeletePoints) /\ Listing(e) \subseteq Nat
  BY DocumentAssumption DEF DocTypes
<1>4. ASSUME NEW u \in Changes(DeletePoints), delete' = [delete EXCEPT ![h] = u],
             (u.pc = "unlink" /\ u.doc = e) \/ (u.pc = "idle" /\ u.doc = 0),
             DOMAIN chunks' = Docs, Listing(e)' \subseteq Nat,
             \A d \in Docs : d # e => chunks'[d] = chunks[d] /\ (d \in dirs' <=> d \in dirs),
             dirs' \subseteq dirs,
             Deleting(e, h) /\ u.pc = "unlink" => Listing(e)' \subseteq u.left,
             Deleting(e, h) /\ u.pc = "idle" => Listing(e)' = {}
      PROVE  DocTypes' /\ StoredInv'
  <2>1. /\ delete' \in [Deleters -> Changes(DeletePoints)] /\ delete'[h] = u
        /\ \A g \in Deleters : g # h => delete'[g] = delete[g]
    BY <1>4 DEF DocTypes
  <2>2. \A g \in Deleters : delete'[g].pc = "idle" <=> delete'[g].doc = 0
    BY <1>3, <1>4, <2>1 DEF DocTypes
  <2>3. \A d \in Docs : Listing(d)' \subseteq Nat
    BY <1>4 DEF DocTypes, Listing
  <2>4. DocTypes'
    BY <1>1, <1>4, <2>1, <2>2, <2>3 DEF DocTypes
  <2>5. ASSUME Deleting(e, h) PROVE Says(e)'
    <3>1. /\ upload'.doc # e /\ \A g \in Deleters : g # h => delete'[g].doc # e
          /\ original'[e] = NoDoc
      BY <1>1, <2>1, <2>5 DEF Deleting
    <3>2. CASE u.pc = "unlink"
      <4>1. delete'[h].doc = e /\ delete'[h].pc = "unlink" /\ Listing(e)' \subseteq delete'[h].left
        BY <1>4, <2>1, <2>5, <3>2
      <4>2. Deleting(e, h)'
        BY <3>1, <4>1 DEF Deleting
      <4>3. Changing(e)'
        BY <4>1 DEF Changing
      <4> QED
        BY <3>1, <4>2, <4>3 DEF Says
    <3>3. CASE u.pc = "idle"
      <4>1. Listing(e)' = {} /\ \A g \in Deleters : delete'[g].doc # e
        BY <1>3, <1>4, <2>1, <2>5, <3>1, <3>3
      <4>2. Whole(e)'
        BY <3>1, <4>1 DEF Whole
      <4> QED
        BY <3>1, <4>1, <4>2 DEF Says
    <3> QED
      BY <1>4, <3>2, <3>3
  <2>6. StoredInv'
    <3>1. delete'[h].doc \in {e, 0}
      BY <1>4, <2>1
    <3> QED
      BY <1>1, <1>2, <1>3, <1>4, <2>1, <2>5, <3>1, DeletionStep
  <2> QED
    BY <2>4, <2>6
<1>5. CASE /\ DeleteStep(h, "scan", [delete[h] EXCEPT !.pc = "unlink", !.left = Listing(e)])
           /\ UNCHANGED <<dirs, chunks>>
  <2> DEFINE u == [delete[h] EXCEPT !.pc = "unlink", !.left = Listing(e)]
  <2>1. u \in Changes(DeletePoints) /\ u.pc = "unlink" /\ u.doc = e /\ u.left = Listing(e)
    BY <1>2, <1>3 DEF Changes, DeletePoints
  <2>2. delete' = [delete EXCEPT ![h] = u] /\ dirs' = dirs /\ chunks' = chunks
    BY <1>5 DEF DeleteStep
  <2> HIDE DEF u
  <2>3. Listing(e)' = Listing(e) /\ DOMAIN chunks' = Docs
    BY <2>2 DEF Listing, DocTypes
  <2> QED
    BY <1>3, <1>4, <2>1, <2>2, <2>3
<1>6. ASSUME NEW i \in delete[h].left, UnlinkChunk(e, i), dirs' = dirs,
             DeleteStep(h, "unlink", [delete[h] EXCEPT !.left = @ \ {i}])
      PROVE  DocTypes' /\ StoredInv'
  <2> DEFINE u == [delete[h] EXCEPT !.left = @ \ {i}]
  <2>1. /\ u \in Changes(DeletePoints) /\ u.pc = "unlink" /\ u.doc = e
        /\ u.left = delete[h].left \ {i}
    BY <1>2, <1>3, <1>6 DEF Changes, DeletePoints, DeleteStep
  <2>2. delete' = [delete EXCEPT ![h] = u] /\ delete[h].pc = "unlink"
    BY <1>6 DEF DeleteStep
  <2> HIDE DEF u
  <2>3. /\ DOMAIN chunks' = Docs /\ Listing(e)' = Listing(e) \ {i}
        /\ \A d \in Docs : d # e => chunks'[d] = chunks[d]
    BY <1>6, UnlinkOne
  <2>4. Deleting(e, h) => Listing(e)' \subseteq u.left
    BY <2>1, <2>2, <2>3 DEF Deleting
  <2> QED
    BY <1>3, <1>4, <1>6, <2>1, <2>2, <2>3, <2>4
<1>7. CASE /\ DeleteStep(h, "unlink", NoChange) /\ delete[h].left = {}
           /\ RemoveDir(e) /\ UNCHANGED chunks
  <2>1. NoChange \in Changes(DeletePoints) /\ NoChange.pc = "idle" /\ NoChange.doc = 0
    BY DEF NoChange, Changes, DeletePoints
  <2>2. delete' = [delete EXCEPT ![h] = NoChange] /\ delete[h].pc = "unlink"
    BY <1>7 DEF DeleteStep
  <2>3. Listing(e)' = Listing(e) /\ DOMAIN chunks' = Docs
    BY <1>7 DEF Listing, DocTypes
  <2>4. dirs' \subseteq dirs /\ \A d \in Docs : d # e => (d \in dirs' <=> d \in dirs)
    BY <1>7 DEF RemoveDir
  <2>5. Deleting(e, h) => Listing(e)' = {}
    BY <1>7, <2>2, <2>3 DEF Deleting
  <2> QED
    BY <1>3, <1>4, <1>7, <2>1, <2>2, <2>3, <2>4, <2>5
<1> QED
  BY <1>2, <1>5, <1>6, <1>7 DEF DeleteRemoves

(* The console dies: what was being changed is torn.                       *)
LEMMA CutShortKeeps ==
  ASSUME DocTypes, StoredInv, CutShort PROVE DocTypes' /\ StoredInv'
<1>1. /\ upload' = NoChange /\ delete' = [h \in Deleters |-> NoChange]
      /\ original' = original /\ dirs' = dirs /\ chunks' = chunks
      /\ torn' = torn \cup {d \in Docs : Changing(d)}
  BY DEF CutShort
<1>2. /\ NoChange \in Changes(DeletePoints) /\ NoChange \in Changes(UploadPoints)
      /\ NoChange.pc = "idle" /\ NoChange.doc = 0
  BY DEF NoChange, Changes, DeletePoints, UploadPoints
<1>3. DocTypes'
  BY <1>1, <1>2 DEF DocTypes, Listing
<1>4. ASSUME NEW d \in Docs, d \notin torn' PROVE Says(d)'
  <2>1. ~Changing(d) /\ Says(d) /\ d # 0
    BY <1>1, <1>4, DocumentAssumption DEF StoredInv
  <2>2. Apart(d)
    BY <1>1, <1>2, <2>1 DEF Apart, Changing
  <2> QED
    BY <2>1, <2>2, ApartKeeps
<1> QED
  BY <1>3, <1>4 DEF StoredInv

(* An enquiry that a change meets is not clean.                            *)
LEMMA ChangesMeet ==
  ASSUME EnquiryInv,
         (enquiry' = enquiry /\ ~Settled) \/ enquiry' = [enquiry EXCEPT !.clean = FALSE]
  PROVE  EnquiryInv' /\ QuotesAreFound'
<1>1. EnquiryTypes' /\ ~enquiry'.clean
  BY DEF EnquiryInv, EnquiryTypes
<1> QED
  BY <1>1 DEF EnquiryInv, QuotesAreFound

(* A chunk that was scored, of documents that nobody changes.              *)
LEMMA ScoredOf ==
  ASSUME DocTypes, StoredInv, Settled, NEW d \in Docs, NEW i \in Listing(d),
         NEW s \in Scored(<<d, i>>)
  PROVE  /\ i \in Nat /\ original[d] \in Texts
         /\ s[1] = Score(s[3]) /\ s[1] # 0 /\ s[2] = <<d, i>>
         /\ i \in DOMAIN Windows(original[d]) /\ s[3] = Windows(original[d])[i]
<1>1. i \in Nat /\ original[d] \in Texts \cup {NoDoc}
  BY DEF DocTypes
<1>2. s = <<Score(chunks[d][i]), <<d, i>>, chunks[d][i]>> /\ Score(chunks[d][i]) # 0
  BY DEF Scored
<1>3. Whole(d)
  BY DEF StoredInv, Settled, Says
<1>4. original[d] # NoDoc /\ i \in DOMAIN Windows(original[d])
      /\ chunks[d][i] = Windows(original[d])[i]
  BY <1>3 DEF Whole
<1> QED
  BY <1>1, <1>2, <1>4

(* The best of a set of scored chunks is taken along.                      *)
LEMMA BestIsTaken ==
  ASSUME NEW scored, NEW m \in Nat,
         \A s \in scored : s[1] \in Nat /\ s[1] <= m /\ s[2][1] \in Nat /\ s[2][2] \in Nat,
         \E s \in scored : s[1] = m
  PROVE  \E a \in TopRanked(scored) : a \in scored /\ a[1] = m
<1> DEFINE B == {s \in scored : s[1] = m}
           P == {s[2][1] : s \in B}
<1>1. P \subseteq Nat /\ P # {}
  OBVIOUS
<1>2. PICK x \in P : \A y \in P : x <= y
  <2> HIDE DEF P
  <2> QED
    BY <1>1, LowestMember
<1> DEFINE C == {s \in B : s[2][1] = x}
           Q == {s[2][2] : s \in C}
<1>3. Q \subseteq Nat /\ Q # {}
  BY <1>2
<1>4. PICK z \in Q : \A y \in Q : z <= y
  <2> HIDE DEF Q
  <2> QED
    BY <1>3, LowestMember
<1>5. PICK a \in C : a[2][2] = z
  BY <1>4
<1>6. a \in scored /\ a[1] = m /\ a[2][1] = x
  BY <1>5
<1>7. ASSUME NEW b \in scored, Before(b, a) PROVE FALSE
  <2>1. b[1] = m
    BY <1>6, <1>7 DEF Before
  <2>2. b[2][1] \in P /\ x <= b[2][1]
    BY <1>2, <2>1
  <2>3. b[2][1] = x
    BY <1>1, <1>2, <1>6, <1>7, <2>1, <2>2 DEF Before
  <2>4. b[2][2] \in Q /\ z <= b[2][2]
    BY <1>4, <2>1, <2>3
  <2> QED
    BY <1>3, <1>4, <1>5, <1>6, <1>7, <2>1, <2>3, <2>4 DEF Before
<1>8. {b \in scored : Before(b, a)} = {}
  BY <1>7
<1>9. Cardinality({b \in scored : Before(b, a)}) < TopK
  <2>1. Cardinality({b \in scored : Before(b, a)}) = 0
    BY <1>8, FS_EmptySet
  <2>2. TopK \in Nat /\ TopK > 0
    BY DocumentAssumption
  <2> QED
    BY <2>1, <2>2
<1> QED
  BY <1>6, <1>9 DEF TopRanked

(* What an undisturbed enquiry takes along answers what was asked.         *)
LEMMA RankFinds ==
  ASSUME DocTypes, StoredInv, EnquiryInv, enquiry.clean, enquiry.pc = "rank"
  PROVE  IF \E d \in Docs : original[d] = enquiry.asks.text
         THEN \E s \in TopRanked(enquiry.scored) : Words(enquiry.asks) \subseteq Words(s[3])
         ELSE TopRanked(enquiry.scored) = {}
<1> DEFINE p == enquiry.asks
           m == Cardinality(Words(p))
<1>1. /\ Settled /\ p \in Quotes /\ Reading /\ enquiry.docs = {} /\ 0 \notin Docs /\ Docs \subseteq Nat
  BY DocumentAssumption DEF EnquiryInv, Reading
<1>2. /\ p.text \in Texts /\ p.text # 0 /\ p.text # NoDoc /\ p.text \in Nat
      /\ IsFiniteSet(Words(p)) /\ Words(p) # {}
  BY <1>1, WindowCovers, DocumentAssumption
<1>3. m \in Nat /\ m # 0
  BY <1>2, FS_CardinalityType, FS_EmptySet
<1>4. \A x : /\ Score(x) \in Nat /\ Score(x) <= m
             /\ Score(x) = m => Words(p) \subseteq Words(x)
             /\ Words(p) \subseteq Words(x) => Score(x) = m
  <2> TAKE x
  <2> DEFINE T == Words(x) \cap Words(p)
  <2>1. T \in SUBSET Words(p) /\ Score(x) = Cardinality(T)
    BY DEF Score
  <2>2. IsFiniteSet(T) /\ Cardinality(T) <= m /\ (Cardinality(Words(p)) = Cardinality(T) => Words(p) = T)
    <3> HIDE DEF T
    <3> QED
      BY <1>2, <2>1, FS_Subset
  <2>3. Cardinality(T) \in Nat
    BY <2>2, FS_CardinalityType
  <2>4. Words(p) \subseteq Words(x) => T = Words(p)
    OBVIOUS
  <2> QED
    BY <2>1, <2>2, <2>3, <2>4
<1> HIDE DEF p, m
<1>5. ASSUME NEW s \in enquiry.scored
      PROVE  /\ s[1] = Score(s[3]) /\ s[1] # 0 /\ s[2][1] \in Nat /\ s[2][2] \in Nat
             /\ \E d \in Docs : s[3].text = original[d]
  <2>1. PICK d \in Docs : \E i \in Listing(d) : s \in Scored(<<d, i>>)
    BY <1>1 DEF Reading
  <2>2. PICK i \in Listing(d) : s \in Scored(<<d, i>>)
    BY <2>1
  <2>3. /\ i \in Nat /\ original[d] \in Texts
        /\ s[1] = Score(s[3]) /\ s[1] # 0 /\ s[2] = <<d, i>>
        /\ i \in DOMAIN Windows(original[d]) /\ s[3] = Windows(original[d])[i]
    BY <1>1, <2>2, ScoredOf
  <2>4. original[d] \in Nat
    BY <2>3, DocumentAssumption
  <2>5. s[3].text = original[d]
    BY <2>3, <2>4, WindowsOf DEF Stretch
  <2> QED
    BY <1>1, <2>3, <2>5
<1>6. CASE \A d \in Docs : original[d] # p.text
  <2>1. ASSUME NEW s \in enquiry.scored PROVE FALSE
    <3>1. s[3].text # p.text
      BY <1>5, <1>6
    <3>2. Words(s[3]) \cap Words(p) = {}
      BY <3>1 DEF Words
    <3>3. Score(s[3]) = 0
      BY <3>2, FS_EmptySet DEF Score, p
    <3> QED
      BY <1>5, <3>3
  <2>2. TopRanked(enquiry.scored) = {}
    BY <2>1 DEF TopRanked
  <2> QED
    BY <1>6, <2>2 DEF p
<1>7. CASE \E d \in Docs : original[d] = p.text
  <2>1. PICK d \in Docs : original[d] = p.text
    BY <1>7
  <2>2. /\ d \in dirs /\ Listing(d) = DOMAIN Windows(p.text)
        /\ \A i \in Listing(d) : chunks[d][i] = Windows(p.text)[i]
    BY <1>1, <1>2, <2>1 DEF StoredInv, Settled, Says, Whole
  <2>3. PICK n \in Listing(d) : Words(p) \subseteq Words(chunks[d][n])
    BY <1>1, <2>2, WindowCovers
  <2>4. Score(chunks[d][n]) = m
    BY <1>4, <2>3
  <2>5. <<m, <<d, n>>, chunks[d][n]>> \in Scored(<<d, n>>)
    BY <1>3, <2>4 DEF Scored
  <2>6. Scored(<<d, n>>) \subseteq enquiry.scored
    BY <1>1, <2>2 DEF Reading
  <2>7. \E s \in enquiry.scored : s[1] = m
    BY <2>5, <2>6
  <2>8. \A s \in enquiry.scored :
           s[1] \in Nat /\ s[1] <= m /\ s[2][1] \in Nat /\ s[2][2] \in Nat
    BY <1>4, <1>5
  <2>9. PICK a \in TopRanked(enquiry.scored) : a \in enquiry.scored /\ a[1] = m
    BY <1>3, <2>7, <2>8, BestIsTaken
  <2>10. Words(p) \subseteq Words(a[3])
    BY <1>4, <1>5, <2>9
  <2> QED
    BY <1>7, <2>9, <2>10 DEF p
<1> QED
  BY <1>6, <1>7

(* A step of the enquiry, over files that it leaves alone.                 *)
LEMMA EnquiryStepKeeps ==
  ASSUME DocTypes, StoredInv, EnquiryInv,
         EnquiryStep \/ \E p \in Quotes : Enquire(p)
  PROVE  EnquiryInv' /\ QuotesAreFound'
<1>1. /\ original' = original /\ dirs' = dirs /\ chunks' = chunks
      /\ upload' = upload /\ delete' = delete /\ torn' = torn
  BY DEF EnquiryStep, Glob, ReadChunk, Rank, Enquire
<1>2. /\ Settled' <=> Settled
      /\ \A d : Listing(d)' = Listing(d)
      /\ enquiry'.asks = enquiry.asks => \A f : Scored(f)' = Scored(f)
  BY <1>1 DEF Settled, Changing, Listing, Scored, Score
<1>3. ASSUME NEW p \in Quotes, Enquire(p) PROVE EnquiryInv' /\ QuotesAreFound'
  <2>1. enquiry' = [NoEnquiry EXCEPT !.pc = "glob", !.asks = p, !.clean = Settled, !.docs = dirs]
    BY <1>3 DEF Enquire
  <2>2. /\ DOMAIN enquiry' = {"pc", "asks", "docs", "files", "scored", "clean"}
        /\ enquiry'.pc = "glob" /\ enquiry'.asks = p /\ enquiry'.clean = Settled
        /\ enquiry'.docs = dirs /\ enquiry'.files = {} /\ enquiry'.scored = {}
    BY <2>1 DEF NoEnquiry
  <2>3. EnquiryTypes'
    BY <2>2 DEF EnquiryTypes, DocTypes
  <2>4. Reading'
    BY <1>1, <2>2 DEF Reading
  <2> QED
    BY <1>2, <1>3, <2>2, <2>3, <2>4 DEF EnquiryInv, QuotesAreFound
<1>4. CASE Glob
  <2>1. /\ enquiry.pc = "glob"
        /\ enquiry' = IF enquiry.docs = {} THEN [enquiry EXCEPT !.pc = "rank"]
                      ELSE [enquiry EXCEPT !.pc = "read", !.docs = @ \ {Min(enquiry.docs)},
                              !.files = {<<Min(enquiry.docs), i>> : i \in Listing(Min(enquiry.docs))}]
    BY <1>4 DEF Glob
  <2>2. CASE enquiry.docs = {}
    <3>1. /\ DOMAIN enquiry' = DOMAIN enquiry
          /\ enquiry'.pc = "rank" /\ enquiry'.asks = enquiry.asks /\ enquiry'.clean = enquiry.clean
          /\ enquiry'.docs = {} /\ enquiry'.files = enquiry.files
          /\ enquiry'.scored = enquiry.scored
      BY <2>1, <2>2 DEF EnquiryInv, EnquiryTypes
    <3>2. EnquiryTypes'
      BY <3>1 DEF EnquiryInv, EnquiryTypes
    <3>3. Reading => Reading'
      BY <1>1, <1>2, <2>1, <2>2, <3>1 DEF Reading
    <3> QED
      BY <1>2, <2>1, <3>1, <3>2, <3>3 DEF EnquiryInv, QuotesAreFound
  <2>3. CASE enquiry.docs # {}
    <3>1. PICK d \in enquiry.docs : d = Min(enquiry.docs)
      <4>1. enquiry.docs \subseteq Nat
        BY DocumentAssumption DEF EnquiryInv, EnquiryTypes
      <4>2. \E d \in enquiry.docs : \A e \in enquiry.docs : d <= e
        BY <2>3, <4>1, LowestMember
      <4> QED
        BY <4>2 DEF Min
    <3>2. /\ DOMAIN enquiry' = DOMAIN enquiry
          /\ enquiry'.pc = "read" /\ enquiry'.asks = enquiry.asks /\ enquiry'.clean = enquiry.clean
          /\ enquiry'.docs = enquiry.docs \ {d}
          /\ enquiry'.files = {<<d, i>> : i \in Listing(d)}
          /\ enquiry'.scored = enquiry.scored
      BY <2>1, <2>3, <3>1 DEF EnquiryInv, EnquiryTypes
    <3>3. EnquiryTypes'
      BY <3>1, <3>2 DEF EnquiryInv, EnquiryTypes, DocTypes
    <3>4. Reading => Reading'
      <4> SUFFICES ASSUME Reading PROVE Reading'
        OBVIOUS
      <4>1. \A e \in dirs : e \in enquiry'.docs \/ \A i \in Listing(e) :
              <<e, i>> \in enquiry'.files \/ Scored(<<e, i>>)' \subseteq enquiry'.scored
        BY <1>2, <2>1, <3>2 DEF Reading
      <4>2. enquiry'.pc = "rank" => enquiry'.docs = {}
        BY <3>2
      <4>3. \A s \in enquiry'.scored : \E e \in Docs : \E i \in Listing(e)' : s \in Scored(<<e, i>>)'
        <5>1. \A s \in enquiry.scored : \E e \in Docs : \E i \in Listing(e) : s \in Scored(<<e, i>>)
          BY DEF Reading
        <5> QED
          BY <1>2, <3>2, <5>1
      <4>4. \A e \in dirs' : e \in enquiry'.docs \/ \A i \in Listing(e)' :
              (enquiry'.pc = "read" /\ <<e, i>> \in enquiry'.files) \/ Scored(<<e, i>>)' \subseteq enquiry'.scored
        <5>1. dirs' = dirs /\ enquiry'.pc = "read" /\ \A e : Listing(e)' = Listing(e)
          BY <1>1, <1>2, <3>2
        <5> QED
          BY <4>1, <5>1
      <4> QED
        BY <4>2, <4>3, <4>4 DEF Reading
    <3> QED
      BY <1>2, <2>1, <3>2, <3>3, <3>4 DEF EnquiryInv, QuotesAreFound
  <2> QED
    BY <2>2, <2>3
<1>5. CASE ReadChunk
  <2>1. enquiry.pc = "read"
    BY <1>5 DEF ReadChunk
  <2>2. CASE enquiry.files = {} /\ enquiry' = [enquiry EXCEPT !.pc = "glob"]
    <3>1. /\ DOMAIN enquiry' = DOMAIN enquiry
          /\ enquiry'.pc = "glob" /\ enquiry'.asks = enquiry.asks /\ enquiry'.clean = enquiry.clean
          /\ enquiry'.docs = enquiry.docs /\ enquiry'.files = {}
          /\ enquiry'.scored = enquiry.scored
      BY <2>2 DEF EnquiryInv, EnquiryTypes
    <3>2. EnquiryTypes'
      BY <3>1 DEF EnquiryInv, EnquiryTypes
    <3>3. Reading => Reading'
      BY <1>1, <1>2, <2>2, <3>1 DEF Reading
    <3> QED
      BY <1>2, <2>1, <3>1, <3>2, <3>3 DEF EnquiryInv, QuotesAreFound
  <2>3. ASSUME NEW f \in enquiry.files, f[2] \in Listing(f[1]),
               enquiry' = [enquiry EXCEPT !.files = @ \ {f}, !.scored = @ \cup Scored(f)]
        PROVE  EnquiryInv' /\ QuotesAreFound'
    <3>1. /\ DOMAIN enquiry' = DOMAIN enquiry
          /\ enquiry'.pc = "read" /\ enquiry'.asks = enquiry.asks /\ enquiry'.clean = enquiry.clean
          /\ enquiry'.docs = enquiry.docs /\ enquiry'.files = enquiry.files \ {f}
          /\ enquiry'.scored = enquiry.scored \cup Scored(f)
      BY <2>1, <2>3 DEF EnquiryInv, EnquiryTypes
    <3>2. EnquiryTypes'
      BY <3>1 DEF EnquiryInv, EnquiryTypes
    <3>3. f \in Docs \X Nat /\ f = <<f[1], f[2]>> /\ f[1] \in Docs
      BY DEF EnquiryInv, EnquiryTypes
    <3>4. Reading => Reading'
      <4> SUFFICES ASSUME Reading PROVE Reading'
        OBVIOUS
      <4>1. \A s \in enquiry'.scored : \E d \in Docs : \E i \in Listing(d) : s \in Scored(<<d, i>>)
        BY <2>3, <3>1, <3>3 DEF Reading
      <4>2. \A d \in dirs : d \in enquiry'.docs \/ \A i \in Listing(d) :
               <<d, i>> \in enquiry'.files \/ Scored(<<d, i>>) \subseteq enquiry'.scored
        BY <2>1, <3>1 DEF Reading
      <4>3. enquiry'.pc = "rank" => enquiry'.docs = {}
        BY <3>1
      <4>4. \A s \in enquiry'.scored : \E d \in Docs : \E i \in Listing(d)' : s \in Scored(<<d, i>>)'
        BY <1>2, <3>1, <4>1
      <4>5. \A d \in dirs' : d \in enquiry'.docs \/ \A i \in Listing(d)' :
              (enquiry'.pc = "read" /\ <<d, i>> \in enquiry'.files) \/ Scored(<<d, i>>)' \subseteq enquiry'.scored
        <5>1. /\ dirs' = dirs /\ enquiry'.pc = "read" /\ \A d : Listing(d)' = Listing(d)
              /\ \A g : Scored(g)' = Scored(g)
          BY <1>1, <1>2, <3>1
        <5> QED
          BY <4>2, <5>1
      <4> QED
        BY <4>3, <4>4, <4>5 DEF Reading
    <3> QED
      BY <1>2, <2>1, <3>1, <3>2, <3>4 DEF EnquiryInv, QuotesAreFound
  <2>4. CASE enquiry' = NoEnquiry
    <3>1. EnquiryTypes' /\ ~enquiry'.clean
      BY <2>4 DEF NoEnquiry, EnquiryTypes
    <3> QED
      BY <3>1 DEF EnquiryInv, QuotesAreFound
  <2> QED
    BY <1>5, <2>2, <2>3, <2>4 DEF ReadChunk
<1>6. CASE Rank
  <2>1. /\ enquiry.pc = "rank"
        /\ enquiry' = [enquiry EXCEPT !.pc = "answered", !.scored = TopRanked(@)]
    BY <1>6 DEF Rank
  <2>2. /\ DOMAIN enquiry' = DOMAIN enquiry
        /\ enquiry'.pc = "answered" /\ enquiry'.asks = enquiry.asks
        /\ enquiry'.clean = enquiry.clean
        /\ enquiry'.docs = enquiry.docs /\ enquiry'.files = enquiry.files
        /\ enquiry'.scored = TopRanked(enquiry.scored)
    BY <2>1 DEF EnquiryInv, EnquiryTypes
  <2>3. EnquiryTypes'
    BY <2>2 DEF EnquiryInv, EnquiryTypes
  <2>4. QuotesAreFound'
    BY <1>1, <2>1, <2>2, RankFinds DEF QuotesAreFound
  <2> QED
    BY <1>2, <2>2, <2>3, <2>4 DEF EnquiryInv
<1> QED
  BY <1>3, <1>4, <1>5, <1>6 DEF EnquiryStep

(* Every step.                                                             *)
LEMMA DocInvStep == DocInv /\ [DocNext]_docVars => DocInv'
<1> SUFFICES ASSUME DocInv, [DocNext]_docVars PROVE DocInv'
  OBVIOUS
<1>1. DocTypes /\ StoredInv /\ EnquiryInv /\ QuotesAreFound
  BY DEF DocInv
<1>2. ASSUME upload.pc # "idle", enquiry' = enquiry PROVE EnquiryInv' /\ QuotesAreFound'
  <2>1. upload.doc \in Docs
    BY <1>1, <1>2 DEF DocTypes, Changes
  <2>2. ~Settled
    BY <2>1 DEF Settled, Changing
  <2> QED
    BY <1>1, <1>2, <2>2, ChangesMeet
<1>3. ASSUME NEW h \in Deleters, delete[h].pc # "idle", enquiry' = enquiry
      PROVE  EnquiryInv' /\ QuotesAreFound'
  <2>1. delete[h].doc \in Docs
    BY <1>1, <1>3 DEF DocTypes, Changes
  <2>2. ~Settled
    BY <2>1 DEF Settled, Changing
  <2> QED
    BY <1>1, <1>3, <2>2, ChangesMeet
<1>4. ASSUME NEW d \in Docs, NEW t \in Texts, WriteOriginal(d, t) PROVE DocInv'
  <2>1. enquiry' = [enquiry EXCEPT !.clean = FALSE]
    BY <1>4 DEF WriteOriginal, Begins
  <2> QED
    BY <1>1, <1>4, <2>1, WriteKeeps, ChangesMeet DEF DocInv
<1>5. CASE Extract \/ UploadRemoves \/ MakeDir \/ OpenChunk \/ FillChunk
  <2>1. upload.pc # "idle" /\ enquiry' = enquiry
    BY <1>5 DEF Extract, UploadRemoves, MakeDir, OpenChunk, FillChunk, UploadAt
  <2> QED
    BY <1>1, <1>2, <1>5, <2>1, ExtractKeeps, UploadRemovesKeeps, MakeDirKeeps,
       OpenChunkKeeps, FillChunkKeeps DEF DocInv
<1>6. ASSUME NEW h \in Deleters, NEW d \in Docs, FindOriginal(h, d) PROVE DocInv'
  <2>1. enquiry' = [enquiry EXCEPT !.clean = FALSE]
    BY <1>6 DEF FindOriginal, Begins
  <2> QED
    BY <1>1, <1>6, <2>1, FindKeeps, ChangesMeet DEF DocInv
<1>7. ASSUME NEW h \in Deleters, UnlinkOriginal(h) \/ DeleteRemoves(h) PROVE DocInv'
  <2>1. delete[h].pc # "idle" /\ enquiry' = enquiry
    BY <1>7 DEF UnlinkOriginal, DeleteRemoves, DeleteStep
  <2> QED
    BY <1>1, <1>3, <1>7, <2>1, UnlinkOriginalKeeps, DeleteRemovesKeeps DEF DocInv
<1>8. CASE CutShort
  <2>1. ~Settled /\ enquiry' = enquiry
    BY <1>8 DEF CutShort, Settled
  <2> QED
    BY <1>1, <1>8, <2>1, CutShortKeeps, ChangesMeet DEF DocInv
<1>9. CASE EnquiryStep \/ \E p \in Quotes : Enquire(p)
  <2>1. /\ original' = original /\ dirs' = dirs /\ chunks' = chunks
        /\ upload' = upload /\ delete' = delete /\ torn' = torn
    BY <1>9 DEF EnquiryStep, Glob, ReadChunk, Rank, Enquire
  <2>2. DocTypes'
    BY <1>1, <2>1 DEF DocTypes, Listing
  <2>3. \A d \in Docs : Says(d) => Says(d)'
    BY <2>1, ApartKeeps DEF Apart
  <2>4. StoredInv'
    BY <1>1, <2>1, <2>3 DEF StoredInv
  <2> QED
    BY <1>1, <1>9, <2>2, <2>4, EnquiryStepKeeps DEF DocInv
<1>10. CASE UNCHANGED docVars
  <2>1. /\ original' = original /\ dirs' = dirs /\ chunks' = chunks /\ enquiry' = enquiry
        /\ upload' = upload /\ delete' = delete /\ torn' = torn
    BY <1>10 DEF docVars
  <2>2. DocTypes'
    BY <1>1, <2>1 DEF DocTypes, Listing
  <2>3. \A d \in Docs : Says(d) => Says(d)'
    BY <2>1, ApartKeeps DEF Apart
  <2>4. StoredInv'
    BY <1>1, <2>1, <2>3 DEF StoredInv
  <2>5. /\ Settled' <=> Settled
        /\ \A d : Listing(d)' = Listing(d)
        /\ \A f : Scored(f)' = Scored(f)
    BY <2>1 DEF Settled, Changing, Listing, Scored, Score
  <2>6. EnquiryInv' /\ QuotesAreFound'
    BY <1>1, <2>1, <2>5 DEF EnquiryInv, EnquiryTypes, Reading, QuotesAreFound
  <2> QED
    BY <2>2, <2>4, <2>6 DEF DocInv
<1> QED
  BY <1>4, <1>5, <1>6, <1>7, <1>8, <1>9, <1>10 DEF DocNext

(* An enquiry that no change overlapped finds what its question quotes in  *)
(* whatever documents are stored, and nothing of those that are not: the   *)
(* chunks that deletions, uploads over other uploads and refused uploads   *)
(* leave behind are none, unless changes of one document overlapped.       *)
THEOREM QuotesFound == DocSpec => []QuotesAreFound
<1>1. DocInit => DocInv
  <2> SUFFICES ASSUME DocInit PROVE DocInv
    OBVIOUS
  <2>1. enquiry = NoEnquiry
    BY DEF DocInit
  <2>2. EnquiryInv /\ QuotesAreFound
    BY <2>1 DEF EnquiryInv, EnquiryTypes, NoEnquiry, QuotesAreFound
  <2> QED
    BY <2>2, DocBegins DEF DocInv
<1>2. DocInv => QuotesAreFound
  BY DEF DocInv
<1> QED
  BY <1>1, <1>2, DocInvStep, PTL DEF DocSpec

(* The worker's half of the two: whatever the console does to bundles and  *)
(* to documents, interleaved in any way, it serves what is stored.         *)
THEOREM WorkerServes == BundleSpec /\ DocSpec => []WorkerServesWhatIsStored
<1>1. CacheIsCurrent /\ QuotesAreFound => WorkerServesWhatIsStored
  BY DEF WorkerServesWhatIsStored
<1> QED
  BY <1>1, ServedBundleIsCurrent, QuotesFound, PTL

===========================================================================
