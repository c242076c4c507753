------------------------------- MODULE SignIn -------------------------------
(***************************************************************************)
(* Signing in to the single-user server: plnt/surface/auth.py, the auth    *)
(* routes of server.py and `plnt auth set-password`.                       *)
(*                                                                         *)
(* auth.toml is read whole and replaced whole, by way of auth.toml.tmp.    *)
(* The server's threads share one AuthStore and its lock; a set-password   *)
(* command is a process with a store, and a lock, of its own.  Sessions    *)
(* live in the server's memory.  Passwords are numbered as they are made.  *)
(***************************************************************************)
EXTENDS Integers, FiniteSets

CONSTANTS
  Browsers,     \* each has one request at a time, in a thread of the server
  Commands,     \* runs of set-password
  Admin,        \* "admin"
  Others,       \* other user names
  TTL,          \* SESSION_TTL_SECONDS
  MaxPasswords, \* bound: passwords made
  MaxTime       \* bound: the clock

ASSUME SignInAssumption ==
  /\ Admin \notin Others
  /\ TTL \in Nat /\ MaxPasswords \in Nat /\ MaxTime \in Nat

Users     == {Admin} \cup Others
Nobody    == [u \in Users |-> 0]
NoDraft   == Nobody
NoSession == [user |-> Admin, until |-> -1]

VARIABLES
  accounts,  \* auth.toml: the password of each user, 0 for none
  draft,     \* auth.toml.tmp
  held,      \* AuthStore._lock of the server: the thread that holds it
  request,   \* the request of each browser
  command,   \* the run of each set-password
  cookie,    \* the session each browser's cookie names, while it is known
  time,      \* the server's clock
  passwords, \* passwords made so far
  announced, \* history: the last password printed or set, per user
  raced      \* history: a command wrote while somebody else was writing

signVars == <<accounts, draft, held, request, command, cookie, time,
              passwords, announced, raced>>

NoRequest == [at |-> "idle", user |-> Admin, typed |-> 0, next |-> Nobody]
NoCommand == [at |-> "idle", user |-> Admin, next |-> Nobody]

SignInit ==
  /\ accounts = Nobody /\ draft = NoDraft /\ held = {}
  /\ request = [b \in Browsers |-> NoRequest]
  /\ command = [c \in Commands |-> NoCommand]
  /\ cookie = [b \in Browsers |-> NoSession]
  /\ time = 0 /\ passwords = 0
  /\ announced = Nobody /\ raced = FALSE

ToRequest(b, point) ==
  request' = [request EXCEPT
    ![b] = IF point = "idle" THEN NoRequest ELSE [@ EXCEPT !.at = point]]
ToCommand(c, point) ==
  command' = [command EXCEPT
    ![c] = IF point = "idle" THEN NoCommand ELSE [@ EXCEPT !.at = point]]

(* Between reading auth.toml and saying what is in it now.                 *)
WritingAccounts(w) == w.at \in {"draft", "replace", "print"}
SomeWriter ==
  \/ \E b \in Browsers : WritingAccounts(request[b])
  \/ \E c \in Commands : WritingAccounts(command[c])

(* _write: the new file beside the old one, then in its place; a missing   *)
(* .tmp is an exception.                                                   *)
WriteDraft(new) == draft' = new /\ UNCHANGED accounts
Replaceable == draft # NoDraft
ReplaceFile == accounts' = draft /\ draft' = NoDraft

---------------------------------------------------------------------------
(* login                                                                   *)

Login(b, u, p) ==
  /\ request[b].at = "idle"
  /\ request' = [request EXCEPT ![b] =
       [NoRequest EXCEPT !.at = "boot", !.user = u, !.typed = p]]
  /\ UNCHANGED <<accounts, draft, held, command, cookie, time, passwords,
                 announced, raced>>

(* Variant: whether there are users is asked without the lock.             *)
BootstrapUnlocked(b) ==
  /\ request[b].at = "boot"
  /\ IF accounts # Nobody
     THEN ToRequest(b, "verify") /\ UNCHANGED passwords
     ELSE /\ passwords < MaxPasswords
          /\ passwords' = passwords + 1
          /\ request' = [request EXCEPT ![b].at = "draft",
               ![b].next = [Nobody EXCEPT ![Admin] = passwords + 1]]
  /\ UNCHANGED <<accounts, draft, held, command, cookie, time, announced,
                 raced>>

(* bootstrap_if_empty: an admin with a new password if there are no users. *)
Bootstrap(b) ==
  /\ request[b].at = "boot"
  /\ held = {}
  /\ IF accounts # Nobody
     THEN ToRequest(b, "verify") /\ UNCHANGED <<held, passwords, raced>>
     ELSE /\ passwords < MaxPasswords
          /\ passwords' = passwords + 1
          /\ held' = {b}
          /\ raced' = (raced \/ SomeWriter)
          /\ request' = [request EXCEPT ![b].at = "draft",
               ![b].next = [Nobody EXCEPT ![Admin] = passwords + 1]]
  /\ UNCHANGED <<accounts, draft, command, cookie, time, announced>>

BootstrapDraft(b) ==
  /\ request[b].at = "draft"
  /\ WriteDraft(request[b].next)
  /\ ToRequest(b, "replace")
  /\ UNCHANGED <<held, command, cookie, time, passwords, announced, raced>>

BootstrapReplace(b) ==
  /\ request[b].at = "replace"
  /\ held' = {}
  /\ IF Replaceable
     THEN ReplaceFile /\ ToRequest(b, "print")
     ELSE UNCHANGED <<accounts, draft>> /\ ToRequest(b, "idle")
  /\ UNCHANGED <<command, cookie, time, passwords, announced, raced>>

(* The operator reads the password off the server's output; 401.           *)
BootstrapPrint(b) ==
  /\ request[b].at = "print"
  /\ announced' = [announced EXCEPT ![Admin] = request[b].next[Admin]]
  /\ ToRequest(b, "idle")
  /\ UNCHANGED <<accounts, draft, held, command, cookie, time, passwords,
                 raced>>

(* verify; a wrong name or password is 401.                                *)
Verify(b) ==
  /\ request[b].at = "verify"
  /\ held = {}
  /\ LET entry == accounts[request[b].user] IN
     ToRequest(b, IF entry # 0 /\ entry = request[b].typed
                  THEN "create" ELSE "idle")
  /\ UNCHANGED <<accounts, draft, held, command, cookie, time, passwords,
                 announced, raced>>

CreateSession(b) ==
  /\ request[b].at = "create"
  /\ cookie' = [cookie EXCEPT ![b] =
       [user |-> request[b].user, until |-> time + TTL]]
  /\ ToRequest(b, "idle")
  /\ UNCHANGED <<accounts, draft, held, command, time, passwords, announced,
                 raced>>

(* require_session and auth_me: a session past its time is dropped.        *)
Accepted(b) == cookie[b].until >= time

RequireSession(b) ==
  /\ request[b].at = "idle"
  /\ cookie' = [cookie EXCEPT ![b] = IF Accepted(b) THEN @ ELSE NoSession]
  /\ UNCHANGED <<accounts, draft, held, request, command, time, passwords,
                 announced, raced>>

Logout(b) ==
  /\ request[b].at = "idle"
  /\ cookie' = [cookie EXCEPT ![b] = NoSession]
  /\ UNCHANGED <<accounts, draft, held, request, command, time, passwords,
                 announced, raced>>

---------------------------------------------------------------------------
(* set_password                                                            *)

SetPassword(c, u) ==
  /\ command[c].at = "idle"
  /\ passwords < MaxPasswords
  /\ passwords' = passwords + 1
  /\ raced' = (raced \/ SomeWriter)
  /\ command' = [command EXCEPT ![c] =
       [at |-> "draft", user |-> u,
        next |-> [accounts EXCEPT ![u] = passwords + 1]]]
  /\ UNCHANGED <<accounts, draft, held, request, cookie, time, announced>>

SetDraft(c) ==
  /\ command[c].at = "draft"
  /\ WriteDraft(command[c].next)
  /\ ToCommand(c, "replace")
  /\ UNCHANGED <<held, request, cookie, time, passwords, announced, raced>>

SetReplace(c) ==
  /\ command[c].at = "replace"
  /\ ToCommand(c, "idle")
  /\ IF Replaceable
     THEN /\ ReplaceFile
          /\ announced' = [announced EXCEPT ![command[c].user] =
                             command[c].next[command[c].user]]
     ELSE UNCHANGED <<accounts, draft, announced>>
  /\ UNCHANGED <<held, request, cookie, time, passwords, raced>>

---------------------------------------------------------------------------
(* The server ends, between any two steps, and is started again: sessions, *)
(* requests and the lock are gone.                                         *)
Restart ==
  /\ held' = {}
  /\ request' = [b \in Browsers |-> NoRequest]
  /\ cookie' = [b \in Browsers |-> NoSession]
  /\ UNCHANGED <<accounts, draft, command, time, passwords, announced, raced>>

Passes ==
  /\ time < MaxTime /\ time' = time + 1
  /\ UNCHANGED <<accounts, draft, held, request, command, cookie, passwords,
                 announced, raced>>

SignNext ==
  \/ \E b \in Browsers :
       \/ \E u \in Users, p \in 1 .. passwords + 1 : Login(b, u, p)
       \/ Bootstrap(b) \/ BootstrapDraft(b) \/ BootstrapReplace(b)
       \/ BootstrapPrint(b) \/ Verify(b) \/ CreateSession(b)
       \/ RequireSession(b) \/ Logout(b)
  \/ \E c \in Commands :
       (\E u \in Users : SetPassword(c, u)) \/ SetDraft(c) \/ SetReplace(c)
  \/ Restart \/ Passes

SignSpec == SignInit /\ [][SignNext]_signVars

---------------------------------------------------------------------------
(* Properties.                                                             *)

(* The password the server printed, or that set-password took, opens the   *)
(* account until another one is announced for it: first logins that arrive *)
(* together make one admin, restarts and half-written files undo nothing.  *)
(* Only a command that runs beside another writer can lose one.            *)
AnnouncedPasswordOpens ==
  raced \/ \A u \in Users : announced[u] # 0 => accounts[u] = announced[u]

===========================================================================
