----------------------------- MODULE Storefront -----------------------------
(***************************************************************************)
(* The web surface of one tenant of the booking example: the catalogue     *)
(* (services/catalogue.py, surface/catalogue_admin.py), the orders         *)
(* (services/orders_store.py, surface/bookings_v2.py) and the push tokens  *)
(* (services/push_tokens.py, surface/push.py, services/expo_push.py).      *)
(*                                                                         *)
(* Handlers run in a thread pool.  A store's lock covers one of its        *)
(* methods, but every statement under it commits on its own, so a crash    *)
(* between two of them leaves the first one done.  Customers also look at  *)
(* the orders (their own, one of them, or all of a day's for the open      *)
(* slots), through the same lock.                                          *)
(***************************************************************************)
EXTENDS Naturals, FiniteSets

CONSTANTS
  Items,     \* ids of catalogue rows: services and professionals
  Team,      \* the professionals among them
  Seeded,    \* the rows of the default catalogue
  Days,      \* weekdays with opening hours in the default catalogue
  Values,  \* the values of one field of a row, 1 the first
  Clients,   \* requests to POST /v1/bookings, one at a time each
  Keys,      \* idempotency keys: user, place, date, slot, services, professional
  KeyOf, ServicesOf,  \* the key of a client's request, and its services
  DayOf,     \* the weekday of a key, whose slot is its own
  Editors,   \* PATCH requests to the catalogue
  MaxPushes, \* bound on the pushes counted
  MaxChanges,\* bound on the catalogue changes asked for
  MaxRestarts \* bound on the crashes

ASSUME StoreAssumption ==
  /\ 1 \in Values /\ Values \subseteq Nat \ {0} /\ Seeded \cup Team \subseteq Items
  /\ KeyOf \in [Clients -> Keys] /\ DayOf \in [Keys -> Days]
  /\ ServicesOf \in [Keys -> SUBSET (Items \ Team)]

VARIABLES
  rows,     \* the catalogue: [name, price] of each row, or NoRow
  hours,    \* weekdays with a row in opening_hours
  setting,  \* weekdays set_hours has still to insert, or NoHours
  loaded,   \* catalogue_for(tid) is in the process's cache
  order,    \* of each key: what its rows say, or NoOrder
  store,    \* the order store in the process's cache, or NoStore
  stores,   \* history: the order stores made in this process
  holder,   \* requests inside their order store's lock
  req,      \* progress of each booking request
  edit,     \* progress of each PATCH
  token,    \* the user has a push token
  pushes,   \* of each key: notifications sent
  changes,
  crashes

catVars   == <<rows, hours, setting, loaded, edit, changes>>
orderVars == <<order, store, stores, holder, req>>
storeVars == <<catVars, orderVars, token, pushes, crashes>>

NoRow   == [name |-> 0, price |-> 0]
NoHours == {"none"}
NoOrder == [prices |-> {}, items |-> {}, torn |-> FALSE, made |-> FALSE]
NoStore == "none"
NoReq   == [op |-> "book", pc |-> "idle", priced |-> {}, lock |-> NoStore,
            got |-> NoOrder, taken |-> FALSE, free |-> FALSE]
NoEdit  == [pc |-> "idle", id |-> "none", row |-> NoRow]

Table(i) == IF i \in Team THEN Team ELSE Items \ Team
DefaultRow == [name |-> 1, price |-> 1]

---------------------------------------------------------------------------
(* The catalogue.                                                          *)

(* _maybe_seed fills with the defaults each table it finds empty.          *)
SeededRows  ==
  [i \in Items |-> IF i \in Seeded /\ \A j \in Table(i) : rows[j] = NoRow
                   THEN DefaultRow ELSE rows[i]]
SeededHours == IF hours = {} THEN Days ELSE hours

StoreInit ==
  /\ rows = [i \in Items |-> NoRow] /\ hours = {} /\ setting = NoHours
  /\ loaded = FALSE
  /\ edit = [e \in Editors |-> NoEdit]
  /\ order = [k \in Keys |-> NoOrder] /\ holder = {}
  /\ store = NoStore /\ stores = {}
  /\ req = [c \in Clients |-> NoReq]
  /\ token = FALSE /\ pushes = [k \in Keys |-> 0] /\ crashes = 0 /\ changes = 0

(* catalogue_for, on its first call in a process.                          *)
LoadCatalogue ==
  /\ ~loaded /\ loaded' = TRUE
  /\ rows' = SeededRows /\ hours' = SeededHours
  /\ UNCHANGED <<changes, setting, edit, orderVars, token, pushes, crashes>>

Serving == loaded /\ setting = NoHours
Asked   == Serving /\ changes < MaxChanges /\ changes' = changes + 1

PutRow(i, r) ==
  /\ Asked /\ rows' = [rows EXCEPT ![i] = r]
  /\ UNCHANGED <<hours, setting, loaded, edit, orderVars, token, pushes, crashes>>

(* The client may name the id: a second row of an id replaces the first.   *)
CreateService ==
  \E i \in Items \ Team, v \in Values : PutRow(i, [name |-> v, price |-> v])
CreateProfessional ==
  \E i \in Team, v \in Values : PutRow(i, [name |-> v, price |-> v])
DeleteService      == \E i \in Items \ Team : rows[i] # NoRow /\ PutRow(i, NoRow)
DeleteProfessional == \E i \in Team : rows[i] # NoRow /\ PutRow(i, NoRow)

(* PATCH reads the row in one call, changes the fields it was sent, and    *)
(* writes all of it in another call.                                       *)
ReadRow(e, i) ==
  /\ Asked /\ edit[e].pc = "idle" /\ rows[i] # NoRow
  /\ \E v \in Values, f \in {"name", "price"} :
       edit' = [edit EXCEPT ![e] = [pc |-> "write", id |-> i,
                                    row |-> [rows[i] EXCEPT ![f] = v]]]
  /\ UNCHANGED <<rows, hours, setting, loaded, orderVars, token, pushes, crashes>>

UpdateService(e)      == \E i \in Items \ Team : ReadRow(e, i)
UpdateProfessional(e) == \E i \in Team : ReadRow(e, i)

WriteRow(e) ==
  /\ Serving /\ edit[e].pc = "write"
  /\ rows' = [rows EXCEPT ![edit[e].id] = edit[e].row]
  /\ edit' = [edit EXCEPT ![e] = NoEdit]
  /\ UNCHANGED <<changes, hours, setting, loaded, orderVars, token, pushes, crashes>>

UpsertService(e)      == edit[e].id \in Items \ Team /\ WriteRow(e)
UpsertProfessional(e) == edit[e].id \in Team /\ WriteRow(e)

(* set_hours: DELETE, then one INSERT for each day.                        *)
ClearHours ==
  /\ Asked
  /\ \E ds \in SUBSET Days : setting' = ds
  /\ hours' = {}
  /\ UNCHANGED <<rows, loaded, edit, orderVars, token, pushes, crashes>>

InsertHours ==
  /\ setting # NoHours
  /\ IF setting = {} THEN setting' = NoHours /\ UNCHANGED hours
     ELSE \E d \in setting : setting' = setting \ {d} /\ hours' = hours \cup {d}
  /\ UNCHANGED <<changes, rows, loaded, edit, orderVars, token, pushes, crashes>>

---------------------------------------------------------------------------
(* POST /v1/bookings.                                                      *)

Put(c, r) == req' = [req EXCEPT ![c] = r]
Key(c)    == KeyOf[c]
Wanted(c) == ServicesOf[Key(c)]
Unpriced(c) == Wanted(c) \ {p[1] : p \in req[c].priced}

Submit(c) ==
  /\ loaded /\ req[c].pc = "idle"
  /\ Put(c, [NoReq EXCEPT !.pc = "price"])
  /\ UNCHANGED <<catVars, order, store, stores, holder, token, pushes, crashes>>

(* _service_dict looks the services up one by one; one that is not there   *)
(* refuses the request.                                                    *)
Price(c) ==
  /\ Serving /\ req[c].pc = "price"
  /\ \/ \E i \in Unpriced(c) :
          Put(c, IF rows[i] = NoRow THEN NoReq
                 ELSE [req[c] EXCEPT !.priced = @ \cup {<<i, rows[i].price>>}])
     \/ Unpriced(c) = {} /\ Put(c, [req[c] EXCEPT !.pc = "open"])
  /\ UNCHANGED <<catVars, order, store, stores, holder, token, pushes, crashes>>

(* GET of the user's bookings, and of the free slots of a day; taken is    *)
(* history: whether the order was there when the customer asked.           *)
Browse(c, op) ==
  /\ loaded /\ req[c].pc = "idle"
  /\ Put(c, [NoReq EXCEPT !.op = op, !.pc = "open",
                          !.taken = op = "slots" /\ order[Key(c)].made])
  /\ UNCHANGED <<catVars, order, store, stores, holder, token, pushes, crashes>>

(* orders_for: the cached store, or a new one, lock and all.  The cache is *)
(* not held while a store is made, and keeps the first one entered.        *)
Open(c) ==
  /\ req[c].pc = "open"
  /\ IF store = NoStore
     THEN stores' = stores \cup {c} /\ Put(c, [req[c] EXCEPT !.pc = "make", !.lock = c])
     ELSE Put(c, [req[c] EXCEPT !.pc = "enter", !.lock = store]) /\ UNCHANGED stores
  /\ UNCHANGED <<catVars, order, store, holder, token, pushes, crashes>>

Make(c) ==
  /\ req[c].pc = "make" /\ Put(c, [req[c] EXCEPT !.pc = "enter"])
  /\ store' = IF store = NoStore THEN c ELSE store
  /\ UNCHANGED <<catVars, order, stores, holder, token, pushes, crashes>>

(* Variant: create_order without the store's lock.                         *)
EnterUnlocked(c) ==
  /\ req[c].pc = "enter" /\ Put(c, [req[c] EXCEPT !.pc = "look"])
  /\ holder' = holder \cup {c}
  /\ UNCHANGED <<catVars, order, store, stores, token, pushes, crashes>>

(* create_order takes the lock of the store it was given.                  *)
Enter(c) ==
  /\ req[c].pc = "enter" /\ Put(c, [req[c] EXCEPT !.pc = "look"])
  /\ \A d \in holder : req[d].lock # req[c].lock
  /\ holder' = holder \cup {c}
  /\ UNCHANGED <<catVars, order, store, stores, token, pushes, crashes>>

AnswerOrder(c) ==
  /\ Put(c, [req[c] EXCEPT !.pc = "push", !.got = order[Key(c)]])
  /\ holder' = holder \ {c} /\ UNCHANGED order

(* The order of the key is returned as it stands.                          *)
Look(c) ==
  /\ req[c].pc = "look" /\ req[c].op = "book"
  /\ IF order[Key(c)].made THEN AnswerOrder(c)
     ELSE Put(c, [req[c] EXCEPT !.pc = "row"]) /\ UNCHANGED <<order, holder>>
  /\ UNCHANGED <<catVars, store, stores, token, pushes, crashes>>

(* Its row goes in with the total of the prices read; a row of the key in  *)
(* the meantime is an integrity error.                                     *)
InsertOrder(c) ==
  /\ req[c].pc = "row"
  /\ IF order[Key(c)].made
     THEN Put(c, NoReq) /\ holder' = holder \ {c} /\ UNCHANGED order
     ELSE /\ order' = [order EXCEPT ![Key(c)] =
                         [NoOrder EXCEPT !.made = TRUE, !.prices = req[c].priced]]
          /\ Put(c, [req[c] EXCEPT !.pc = "items"]) /\ UNCHANGED holder
  /\ UNCHANGED <<catVars, store, stores, token, pushes, crashes>>

(* One INSERT OR IGNORE for each service, and the order read back.         *)
InsertItem(c) ==
  /\ req[c].pc = "items"
  /\ LET left == req[c].priced \ order[Key(c)].items IN
     IF left = {} THEN AnswerOrder(c)
     ELSE /\ \E p \in left : order' = [order EXCEPT ![Key(c)].items = @ \cup {p}]
          /\ UNCHANGED <<req, holder>>
  /\ UNCHANGED <<catVars, store, stores, token, pushes, crashes>>

(* _fire_push, for a new order and for one found alike; a failure of the   *)
(* push service is logged.                                                 *)
FirePush(c) ==
  /\ req[c].pc = "push"
  /\ Put(c, [req[c] EXCEPT !.pc = "idle"])
  /\ \/ token /\ pushes[Key(c)] < MaxPushes
        /\ pushes' = [pushes EXCEPT ![Key(c)] = @ + 1]
     \/ UNCHANGED pushes
  /\ UNCHANGED <<catVars, order, store, stores, holder, token, crashes>>

---------------------------------------------------------------------------
(* The customer looks.                                                     *)

(* list_for_user and list_all read each order, its row and its items,      *)
(* under the lock.                                                         *)
ListOrders(c) ==
  /\ req[c].pc = "look" /\ req[c].op # "book"
  /\ Put(c, [req[c] EXCEPT !.pc = req[c].op, !.got = order[Key(c)]])
  /\ holder' = holder \ {c}
  /\ UNCHANGED <<catVars, order, store, stores, token, pushes, crashes>>

user_bookings(c) ==
  /\ req[c].pc = "mine" /\ Put(c, NoReq)
  /\ UNCHANGED <<catVars, order, store, stores, holder, token, pushes, crashes>>

(* The day must have opening hours, which are read after the orders, and   *)
(* the slot no confirmed order; the professional may not do the services,  *)
(* or they may take too long.                                              *)
compute_available_slots(c) ==
  /\ Serving /\ req[c].pc = "slots"
  /\ \E fits \in BOOLEAN :
       Put(c, [NoReq EXCEPT !.taken = req[c].taken,
                 !.free = fits /\ DayOf[Key(c)] \in hours /\ ~req[c].got.made])
  /\ UNCHANGED <<catVars, order, store, stores, holder, token, pushes, crashes>>

Register   == token' = TRUE  /\ UNCHANGED <<catVars, orderVars, pushes, crashes>>
Unregister == token' = FALSE /\ UNCHANGED <<catVars, orderVars, pushes, crashes>>

---------------------------------------------------------------------------
(* The process dies and is started again: what was committed stays, an     *)
(* order whose items were being inserted is left with some of them.        *)
Restart ==
  /\ loaded /\ crashes < MaxRestarts /\ crashes' = crashes + 1
  /\ loaded' = FALSE /\ setting' = NoHours
  /\ store' = NoStore /\ stores' = {} /\ holder' = {}
  /\ edit' = [e \in Editors |-> NoEdit] /\ req' = [c \in Clients |-> NoReq]
  /\ order' = [k \in Keys |->
       IF \E c \in Clients : KeyOf[c] = k /\ req[c].pc = "items"
       THEN [order[k] EXCEPT !.torn = order[k].items # order[k].prices] ELSE order[k]]
  /\ UNCHANGED <<rows, hours, changes, token, pushes>>

BookingStep(c) ==
  \/ Price(c) \/ Open(c) \/ Make(c) \/ Enter(c) \/ Look(c)
  \/ InsertOrder(c) \/ InsertItem(c) \/ FirePush(c)

LookingStep(c) == ListOrders(c) \/ user_bookings(c) \/ compute_available_slots(c)

StoreNext ==
  \/ LoadCatalogue \/ ClearHours \/ InsertHours \/ Register \/ Unregister \/ Restart
  \/ CreateService \/ DeleteService \/ CreateProfessional \/ DeleteProfessional
  \/ \E e \in Editors :
       \/ UpdateService(e) \/ UpdateProfessional(e)
       \/ UpsertService(e) \/ UpsertProfessional(e)
  \/ \E c \in Clients :
       \/ Submit(c) \/ BookingStep(c)
       \/ \E op \in {"mine", "slots"} : Browse(c, op)
       \/ LookingStep(c)

StoreSpec == StoreInit /\ [][StoreNext]_storeVars

---------------------------------------------------------------------------
(* The booking a request or a list is answered with has every service it   *)
(* was priced with, although another request of the same key may be        *)
(* writing it at the moment; and a slot that was booked when the customer  *)
(* asked for the free ones is not among them.  The exceptions: an order a  *)
(* crash cut short, which every later retry is answered with as it is, and *)
(* two order stores made at once by the first requests of a process.       *)
AnsweredOrdersAreWhole ==
  \A c \in Clients : LET o == req[c].got IN
    /\ o.made => o.items = o.prices \/ order[Key(c)].torn \/ Cardinality(stores) > 1
    /\ ~(req[c].free /\ req[c].taken)

=============================================================================
