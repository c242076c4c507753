--------------------------- MODULE TenantRecords ---------------------------
(***************************************************************************)
(* The record of one tenant of the booking example, tenant.json, and the   *)
(* handlers that write it: surface/admin.py (provision, rotate-key, first  *)
(* contact, delete), surface/onboard.py (create) and surface/auth.py       *)
(* (link-tenant).                                                          *)
(*                                                                         *)
(* Handlers run in a thread pool and nothing locks the file.  Saving       *)
(* truncates it and then writes the text, each writer from offset 0 of a   *)
(* descriptor of its own: a shorter text over a longer one leaves the tail *)
(* of the longer one behind, and _load_meta takes what does not parse for  *)
(* a tenant that does not exist.  A record without a key opens to every    *)
(* key, so a handler that takes the record for missing and makes one       *)
(* without a key opens the tenant to its old keys too: unsealed.           *)
(***************************************************************************)
EXTENDS Naturals, FiniteSets

CONSTANTS
  Threads,   \* the handlers' threads
  Emails,    \* merchants signed in to onboarding
  Nobody,    \* the owner_email of a record without one
  MaxKeys,   \* bound on the keys generated
  MaxCrashes \* bound on the crashes

ASSUME RecordAssumption == Nobody \notin Emails /\ MaxKeys \in Nat

VARIABLES
  home,    \* the tenant's directory exists
  file,    \* tenant.json: its record, its length, and whether it parses
  op,      \* each thread's handler
  keys,    \* keys generated so far
  used,    \* history: the keys that have been saved
  unsealed, \* history: the record was taken for missing although it had a
           \* key, or was being given one
  crashed

recordVars == <<home, file, op, keys, used, unsealed, crashed>>

Meta    == [key : Nat, owner : Emails \cup {Nobody}]
NoMeta  == [key |-> 0, owner |-> Nobody]
NoFile  == [meta |-> NoMeta, size |-> 0, whole |-> FALSE]
Kinds   == {"provision", "create", "rotate", "contact", "link"}
NoOp    == [kind |-> "none", pc |-> "idle", meta |-> NoMeta, open |-> FALSE]

(* How long a record is: owner and business take more room than the hash.  *)
Size(m) == 1 + (IF m.key # 0 THEN 1 ELSE 0) + (IF m.owner # Nobody THEN 2 ELSE 0)

RecordInit ==
  /\ home = FALSE /\ file = NoFile
  /\ op = [t \in Threads |-> NoOp]
  /\ keys = 0 /\ used = {} /\ unsealed = FALSE /\ crashed = 0

Working      == {t \in Threads : op[t].pc # "idle"}
Go(t, o)  == op' = [op EXCEPT ![t] = o]
At(t, pc) == op[t].pc = pc

(* A handler on its way to the file, with a key or without.                *)
Carries(t) == op[t].pc \in {"open", "write"} /\ op[t].meta.key # 0
Keyless(t) == op[t].pc \in {"open", "write"} /\ op[t].meta.key = 0

---------------------------------------------------------------------------
(* A handler starts.  The onboarding's create refuses a directory that is  *)
(* there already; the others start with the record.                        *)

Arrive(t, kind, who) ==
  /\ At(t, "idle")
  /\ (kind = "create") = (who # Nobody)
  /\ kind = "create" => ~home
  /\ Go(t, [NoOp EXCEPT !.kind = kind, !.meta.owner = who,
                        !.pc = IF kind \in {"provision", "create"} THEN "home" ELSE "load"])
  /\ UNCHANGED <<home, file, keys, used, unsealed, crashed>>

(* for_tenant makes the directory.                                         *)
MakeHome(t) ==
  /\ At(t, "home") /\ home' = TRUE /\ Go(t, [op[t] EXCEPT !.pc = "load"])
  /\ UNCHANGED <<file, keys, used, unsealed, crashed>>

(* Variant: a first contact that saves what it read.                       *)
RecordTouched(t, found) ==
  IF op[t].kind = "rotate"
  THEN IF found THEN [save |-> TRUE, keyed |-> TRUE, meta |-> file.meta]
       ELSE [save |-> FALSE, keyed |-> FALSE, meta |-> NoMeta]
  ELSE [save |-> ~found \/ op[t].kind = "contact",
        keyed |-> op[t].kind \in {"provision", "create"},
        meta |-> IF found THEN file.meta ELSE op[t].meta]

(* What a handler does with the record it loaded: rotate changes the key   *)
(* of an existing one, the others make one where there is none, provision  *)
(* and create with a key.                                                  *)
DecideRecord(t, found) ==
  IF op[t].kind = "rotate"
  THEN [save |-> found, keyed |-> TRUE, meta |-> file.meta]
  ELSE [save |-> ~found, keyed |-> op[t].kind \in {"provision", "create"},
        meta |-> op[t].meta]

LoadMeta(t) ==
  /\ At(t, "load")
  /\ LET d == DecideRecord(t, file.whole) IN
     IF ~d.save THEN Go(t, NoOp) /\ UNCHANGED <<keys, unsealed>>
     ELSE IF d.keyed
     THEN /\ keys < MaxKeys /\ keys' = keys + 1
          /\ Go(t, [op[t] EXCEPT !.pc = "open", !.meta = [d.meta EXCEPT !.key = keys']])
          /\ unsealed' = (unsealed \/ \E u \in Threads : Keyless(u))
     ELSE /\ Go(t, [op[t] EXCEPT !.pc = "open", !.meta = d.meta]) /\ UNCHANGED keys
          /\ unsealed' = (unsealed \/ used \ {0} # {} \/ \E u \in Threads : Carries(u))
  /\ UNCHANGED <<home, file, used, crashed>>

(* _save_meta makes the directory if need be and truncates the file ...    *)
OpenMeta(t) ==
  /\ At(t, "open")
  /\ home' = TRUE /\ file' = [file EXCEPT !.size = 0, !.whole = FALSE]
  /\ Go(t, [op[t] EXCEPT !.pc = "write", !.open = TRUE])
  /\ UNCHANGED <<keys, used, unsealed, crashed>>

(* ... and writes the text, into the void when the file has been deleted.  *)
WriteMeta(t) ==
  /\ At(t, "write")
  /\ file' = IF ~op[t].open THEN file
             ELSE [meta  |-> op[t].meta,
                   size  |-> IF Size(op[t].meta) > file.size THEN Size(op[t].meta)
                             ELSE file.size,
                   whole |-> Size(op[t].meta) >= file.size]
  /\ used' = used \cup {op[t].meta.key}
  /\ Go(t, [op[t] EXCEPT !.pc = "reply"])
  /\ UNCHANGED <<home, keys, unsealed, crashed>>

(* The key is in the answer of provision, create and rotate, this once.    *)
Answer(t) ==
  /\ At(t, "reply")
  /\ Go(t, NoOp)
  /\ UNCHANGED <<home, file, keys, used, unsealed, crashed>>

(* delete_tenant wipes the directory.                                      *)
DeleteTenant ==
  /\ home
  /\ home' = FALSE /\ file' = NoFile
  /\ op' = [t \in Threads |-> [op[t] EXCEPT !.open = FALSE]]
  /\ UNCHANGED <<keys, used, unsealed, crashed>>

Crash ==
  /\ Working # {} /\ crashed < MaxCrashes /\ crashed' = crashed + 1
  /\ op' = [t \in Threads |-> NoOp]
  /\ UNCHANGED <<home, file, keys, used, unsealed>>

RecordNext ==
  \/ DeleteTenant \/ Crash
  \/ \E t \in Threads :
       \/ \E k \in Kinds, w \in Emails \cup {Nobody} : Arrive(t, k, w)
       \/ MakeHome(t) \/ LoadMeta(t) \/ OpenMeta(t) \/ WriteMeta(t) \/ Answer(t)

RecordSpec == RecordInit /\ [][RecordNext]_recordVars

---------------------------------------------------------------------------

(* verify_tenant_key of a surface that requires keys: a record without one *)
(* opens to any.                                                           *)
Opens(k) == file.whole /\ file.meta.key \in {0, k}

(* A key that stopped working ("Old key stops working immediately",        *)
(* surface/admin.py:261) never works again by a handler that saves an old  *)
(* record or an old key, whatever handlers race.  The exception: a record  *)
(* without a key, made by link-tenant or a first contact that took the     *)
(* record for missing, in a torn read or after a deletion, or while the    *)
(* first key was on its way.                                               *)
OldKeysStayDead ==
  [][\A k \in used \ {0} :
       Opens(k)' => Opens(k) \/ (file'.meta.key = 0 /\ unsealed)]_recordVars

===========================================================================
