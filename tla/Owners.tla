------------------------------- MODULE Owners -------------------------------
(***************************************************************************)
(* Sign-in of business owners in the booking example: magic links and      *)
(* sessions (surface/auth.py over services/business_owners.py).            *)
(*                                                                         *)
(* Handlers run in a thread pool; every method of the store holds the      *)
(* store's lock, and a verification is three of them: the link is used up, *)
(* the owner is found or made, a session is opened.  A crash in between    *)
(* loses the link.  Time is the choice of when a link or a session expires.*)
(* One store is made per process: the race of the first two calls for it,  *)
(* which is the one of Storefront's order stores, is left out.             *)
(***************************************************************************)
EXTENDS Naturals, FiniteSets

CONSTANTS
  Handlers,    \* the handlers' threads
  Links,       \* magic-link tokens
  Addresses,   \* of the owners
  MaxSessions, \* bound on the sessions opened
  MaxStops     \* bound on the crashes

ASSUME OwnerAssumption == MaxSessions \in Nat /\ MaxStops \in Nat

VARIABLES
  link,      \* each token: its email and where it stands
  owners,    \* rows of owners: [id, email]
  sessions,  \* rows of sessions: [token, owner, link], link only as history
  opened,    \* history: every session ever opened
  locked,    \* threads inside the store's lock
  verify,    \* each thread's verification
  stops

ownerVars == <<link, owners, sessions, opened, locked, verify, stops>>

NoLink   == [state |-> "none", email |-> "none"]
NoVerify == [pc |-> "idle", link |-> "none", email |-> "none", owner |-> 0]
To(t, v) == verify' = [verify EXCEPT ![t] = v]
Is(t, pc) == verify[t].pc = pc
Opened   == Cardinality(opened)

OwnerInit ==
  /\ link = [l \in Links |-> NoLink]
  /\ owners = {} /\ sessions = {} /\ opened = {} /\ locked = {}
  /\ verify = [t \in Handlers |-> NoVerify] /\ stops = 0

---------------------------------------------------------------------------
(* issue_magic_link: a token of its own for every request, and the expired *)
(* ones swept.                                                             *)
IssueLink(l, e) ==
  /\ locked = {} /\ link[l].state = "none"
  /\ link' = [k \in Links |-> IF k = l THEN [state |-> "live", email |-> e]
                              ELSE IF link[k].state = "late"
                              THEN [link[k] EXCEPT !.state = "gone"] ELSE link[k]]
  /\ UNCHANGED <<owners, sessions, opened, locked, verify, stops>>

(* Fifteen minutes pass.                                                   *)
ExpireLink(l) ==
  /\ link[l].state = "live"
  /\ link' = [link EXCEPT ![l].state = "late"]
  /\ UNCHANGED <<owners, sessions, opened, locked, verify, stops>>

(* verify_magic_link; the owner may press the button twice.                *)
StartVerify(t, l) ==
  /\ Is(t, "idle") /\ link[l].state # "none"
  /\ To(t, [NoVerify EXCEPT !.pc = "consume", !.link = l])
  /\ UNCHANGED <<link, owners, sessions, opened, locked, stops>>

(* Variant: the token is looked up without the lock.                       *)
SelectUnlocked(t) ==
  /\ Is(t, "consume")
  /\ To(t, [verify[t] EXCEPT !.pc = "delete"])
  /\ locked' = locked \cup {t}
  /\ UNCHANGED <<link, owners, sessions, opened, stops>>

(* consume_magic_link takes the lock and looks the token up ...            *)
SelectLink(t) ==
  /\ Is(t, "consume") /\ locked = {}
  /\ IF link[verify[t].link].state \in {"live", "late"}
     THEN To(t, [verify[t] EXCEPT !.pc = "delete"]) /\ locked' = {t}
     ELSE To(t, NoVerify) /\ UNCHANGED locked
  /\ UNCHANGED <<link, owners, sessions, opened, stops>>

(* ... and deletes it, whether it has expired or serves.                   *)
DeleteLink(t) ==
  /\ Is(t, "delete")
  /\ LET l == verify[t].link IN
     /\ link' = [link EXCEPT ![l].state = "gone"]
     /\ To(t, IF link[l].state = "late" THEN NoVerify
              ELSE [verify[t] EXCEPT !.pc = "find", !.email = link[l].email])
  /\ locked' = locked \ {t}
  /\ UNCHANGED <<owners, sessions, opened, stops>>

(* upsert_owner, in one hold of the lock.                                  *)
FindOwner(t) ==
  /\ Is(t, "find") /\ locked = {}
  /\ LET mine == {o \in owners : o.email = verify[t].email}
         id   == Cardinality(owners) + 1 IN
     \/ /\ mine = {} /\ owners' = owners \cup {[id |-> id, email |-> verify[t].email]}
        /\ To(t, [verify[t] EXCEPT !.pc = "open", !.owner = id])
     \/ /\ UNCHANGED owners
        /\ \E o \in mine : To(t, [verify[t] EXCEPT !.pc = "open", !.owner = o.id])
  /\ UNCHANGED <<link, sessions, opened, locked, stops>>

(* issue_session.                                                          *)
OpenSession(t) ==
  /\ Is(t, "open") /\ locked = {} /\ Opened < MaxSessions
  /\ LET s == [token |-> Opened + 1, owner |-> verify[t].owner, link |-> verify[t].link] IN
       sessions' = sessions \cup {s} /\ opened' = opened \cup {s}
  /\ To(t, NoVerify)
  /\ UNCHANGED <<link, owners, locked, stops>>

(* logout, or seven days.                                                  *)
EndSession(s) ==
  /\ locked = {} /\ sessions' = sessions \ {s}
  /\ UNCHANGED <<link, owners, opened, locked, verify, stops>>

StopServer ==
  /\ stops < MaxStops /\ stops' = stops + 1
  /\ verify' = [t \in Handlers |-> NoVerify] /\ locked' = {}
  /\ UNCHANGED <<link, owners, sessions, opened>>

OwnerStep(t) == SelectLink(t) \/ DeleteLink(t) \/ FindOwner(t) \/ OpenSession(t)

OwnerNext ==
  \/ StopServer
  \/ \E l \in Links : ExpireLink(l) \/ \E e \in Addresses : IssueLink(l, e)
  \/ \E t \in Handlers : OwnerStep(t) \/ \E l \in Links : StartVerify(t, l)
  \/ \E s \in sessions : EndSession(s)

OwnerSpec == OwnerInit /\ [][OwnerNext]_ownerVars

---------------------------------------------------------------------------
(* A link signs in once, however often and from wherever it is pressed.    *)
LinkOpensOneSession ==
  \A s1, s2 \in opened : s1.link = s2.link => s1 = s2

=============================================================================
