---------------------------- MODULE SessionRuns ----------------------------
(***************************************************************************)
(* The turns of one session: plnt/executors/local.py (send, kill, _turn)   *)
(* over plnt/tenancy/db.py (append, history, set_status).                  *)
(*                                                                         *)
(* send() is called by server threads, one per request.  Each accepted     *)
(* message is a run: a _RunState registered under the executor's lock, a   *)
(* thread attached and started after the lock is released, and the turn    *)
(* that thread executes.  kill() reads the registered run without the lock *)
(* and later writes into what it read.  The sessions table and the event   *)
(* log survive a crash of the server; the registry and the threads do not. *)
(***************************************************************************)
EXTENDS Integers, Sequences, FiniteSets

CONSTANTS
  Clients,    \* server threads that call send()
  Killers,    \* server threads that call kill()
  Runs,       \* run ids: a fresh one per accepted message, so a bound on them
  NoRun,      \* no run is registered
  MaxCrashes  \* bound on the crashes of the server

ASSUME SessionAssumption == NoRun \notin Runs /\ MaxCrashes \in Nat

VARIABLES
  cur,       \* self._runs[key]: the run registered last
  pc,        \* where each run is
  stop,      \* _RunState.stop_reason is set
  outcome,   \* outcome of the turn, a local of _turn
  client,    \* the run each send() in progress has registered
  killer,    \* the run each kill() in progress has found alive
  status,    \* sessions.status
  log,       \* the events of the session, by seq
  history,   \* length of the log the turn's history was read from
  crashes,   \* number of crashes so far
  raced,     \* history: a send registered over a run not started yet
  aimed      \* history: the runs a kill() found alive

turnVars == <<pc, outcome, status, log, history>>
callVars == <<cur, client, killer, stop, raced, aimed>>
vars     == <<turnVars, callVars, crashes>>

(* Before its thread is started a run is "registered", then "threaded"     *)
(* (state.thread is set, is_alive() is still FALSE); "dead" is a thread    *)
(* that ended, "lost" a run that a crash of the server cut off.            *)
Pending == {"registered", "threaded"}
Alive   == {"begin", "status", "message", "body", "finally", "idle", "audit"}
Points  == {"new", "dead", "lost"} \cup Pending \cup Alive

Kinds == {"user_message", "run_error", "assistant_message", "run_finished"}

Logged(r, kind) == \E i \in 1 .. Len(log) : log[i] = [run |-> r, kind |-> kind]

Init ==
  /\ cur     = NoRun
  /\ pc      = [r \in Runs |-> "new"]
  /\ stop    = [r \in Runs |-> FALSE]
  /\ outcome = [r \in Runs |-> "error"]
  /\ client  = [c \in Clients |-> NoRun]
  /\ killer  = [k \in Killers |-> NoRun]
  /\ status  = "idle"
  /\ log     = <<>>
  /\ history = [r \in Runs |-> 0]
  /\ crashes = 0
  /\ raced   = FALSE
  /\ aimed   = {}

---------------------------------------------------------------------------
(* send().  A call that finds the registered thread alive is refused and   *)
(* changes nothing.                                                        *)

(* uuid4 never returns an id in use; which unused one does not matter.     *)
FreshRun == CHOOSE r \in Runs : pc[r] = "new"

(* Variant: a run counts as over when its run_finished is written.         *)
IsAliveUntilFinished(r) == r # NoRun /\ pc[r] \in Alive \ {"idle", "audit"}

IsAlive(r) == r # NoRun /\ pc[r] \in Alive

(* Under the lock: the check and the registration of a fresh run.          *)
Register(c) ==
  /\ client[c] = NoRun
  /\ ~IsAlive(cur)
  /\ \E r \in Runs : pc[r] = "new"
  /\ pc'     = [pc EXCEPT ![FreshRun] = "registered"]
  /\ client' = [client EXCEPT ![c] = FreshRun]
  /\ cur'    = FreshRun
  /\ raced' = (raced \/ (cur # NoRun /\ pc[cur] \in Pending))
  /\ UNCHANGED <<outcome, status, log, history, killer, stop, aimed, crashes>>

(* After the lock: state.thread = t.                                       *)
SetThread(c) ==
  /\ client[c] # NoRun
  /\ pc[client[c]] = "registered"
  /\ pc' = [pc EXCEPT ![client[c]] = "threaded"]
  /\ UNCHANGED <<outcome, status, log, history, callVars, crashes>>

(* t.start(), and the call returns the run id.                             *)
Start(c) ==
  /\ client[c] # NoRun
  /\ pc[client[c]] = "threaded"
  /\ pc'     = [pc EXCEPT ![client[c]] = "begin"]
  /\ client' = [client EXCEPT ![c] = NoRun]
  /\ UNCHANGED <<outcome, status, log, history, cur, killer, stop, raced,
                 aimed, crashes>>

---------------------------------------------------------------------------
(* kill().  A call that finds no live thread returns False.                *)

KillCheck(k) ==
  /\ killer[k] = NoRun
  /\ IsAlive(cur)
  /\ killer' = [killer EXCEPT ![k] = cur]
  /\ aimed'  = aimed \cup {cur}
  /\ UNCHANGED <<turnVars, cur, client, stop, raced, crashes>>

(* Variant: the run is looked up again for the write.                      *)
KillSetCurrent(k) ==
  /\ killer[k] # NoRun
  /\ stop'   = [stop EXCEPT ![cur] = TRUE]
  /\ killer' = [killer EXCEPT ![k] = NoRun]
  /\ UNCHANGED <<turnVars, cur, client, raced, aimed, crashes>>

KillSet(k) ==
  /\ killer[k] # NoRun
  /\ stop'   = [stop EXCEPT ![killer[k]] = TRUE]
  /\ killer' = [killer EXCEPT ![k] = NoRun]
  /\ UNCHANGED <<turnVars, cur, client, raced, aimed, crashes>>

---------------------------------------------------------------------------
(* _turn().  Each database call is a step of its own.                      *)

Step(r, from, to) == pc[r] = from /\ pc' = [pc EXCEPT ![r] = to]

(* db.append: the next seq, under the lock of the database file.           *)
Record(r, kind) == log' = Append(log, [run |-> r, kind |-> kind])

ReadHistory(r) ==
  /\ Step(r, "begin", "status")
  /\ history' = [history EXCEPT ![r] = Len(log)]
  /\ UNCHANGED <<outcome, status, log, callVars, crashes>>

SetRunning(r) ==
  /\ Step(r, "status", "message")
  /\ status' = "running"
  /\ UNCHANGED <<outcome, log, history, callVars, crashes>>

LogMessage(r) ==
  /\ Step(r, "message", "body")
  /\ Record(r, "user_message")
  /\ UNCHANGED <<outcome, status, history, callVars, crashes>>

(* The body found that the plan's dependencies cannot be resolved: it logs *)
(* a run_error and goes on to merge what did run.                          *)
BodyStuck(r) ==
  /\ pc[r] = "body"
  /\ ~Logged(r, "run_error")
  /\ Record(r, "run_error")
  /\ UNCHANGED <<pc, outcome, status, history, callVars, crashes>>

(* The body logged its reply and returned "ok".                            *)
BodyAnswers(r) ==
  /\ Step(r, "body", "finally")
  /\ Record(r, "assistant_message")
  /\ outcome' = [outcome EXCEPT ![r] = "ok"]
  /\ UNCHANGED <<status, history, callVars, crashes>>

(* Variant: the exception leaves the thread without the finally clause.    *)
BodyFailsUncaught(r) ==
  /\ Step(r, "body", "dead")
  /\ Record(r, "run_error")
  /\ UNCHANGED <<outcome, status, history, callVars, crashes>>

(* Variant: the outcome of a run is "ok" until something says otherwise.   *)
BodyFailsOptimistic(r) ==
  /\ Step(r, "body", "finally")
  /\ Record(r, "run_error")
  /\ outcome' = [outcome EXCEPT ![r] = "ok"]
  /\ UNCHANGED <<status, history, callVars, crashes>>

(* The body logged why it has no reply and returned, or raised and one of  *)
(* the except clauses logged it.                                           *)
BodyFails(r) ==
  /\ Step(r, "body", "finally")
  /\ Record(r, "run_error")
  /\ UNCHANGED <<outcome, status, history, callVars, crashes>>

LogFinished(r) ==
  /\ Step(r, "finally", "idle")
  /\ Record(r, "run_finished")
  /\ UNCHANGED <<outcome, status, history, callVars, crashes>>

SetIdle(r) ==
  /\ Step(r, "idle", "audit")
  /\ status' = "idle"
  /\ UNCHANGED <<outcome, log, history, callVars, crashes>>

(* The audit entry is written and the thread ends.                         *)
Audit(r) ==
  /\ Step(r, "audit", "dead")
  /\ UNCHANGED <<outcome, status, log, history, callVars, crashes>>

---------------------------------------------------------------------------
(* The server dies and is started again: an empty registry, no threads,    *)
(* the requests in progress are gone; nothing repairs status or log.       *)
Crash ==
  /\ crashes < MaxCrashes
  /\ crashes' = crashes + 1
  /\ cur'    = NoRun
  /\ pc'     = [r \in Runs |->
                  IF pc[r] \in Pending \cup Alive THEN "lost" ELSE pc[r]]
  /\ client' = [c \in Clients |-> NoRun]
  /\ killer' = [k \in Killers |-> NoRun]
  /\ UNCHANGED <<outcome, status, log, history, stop, raced, aimed>>

Turn(r) ==
  \/ ReadHistory(r) \/ SetRunning(r) \/ LogMessage(r)
  \/ BodyStuck(r) \/ BodyAnswers(r) \/ BodyFails(r)
  \/ LogFinished(r) \/ SetIdle(r) \/ Audit(r)

Next ==
  \/ \E c \in Clients : Register(c) \/ SetThread(c) \/ Start(c)
  \/ \E k \in Killers : KillCheck(k) \/ KillSet(k)
  \/ \E r \in Runs : Turn(r)
  \/ Crash

(* Threads run: a send() that registered goes on to start its thread, and  *)
(* a turn goes on to its end (its body ends: see MicroAgent and            *)
(* ParentTurn).  Nobody has to send or kill, and the server need not die.  *)
Fairness ==
  /\ \A c \in Clients : WF_vars(SetThread(c) \/ Start(c))
  /\ \A r \in Runs : WF_vars(Turn(r))

Spec == Init /\ [][Next]_vars /\ Fairness

---------------------------------------------------------------------------
(* Properties.                                                             *)

TypeOK ==
  /\ cur     \in Runs \cup {NoRun}
  /\ pc      \in [Runs -> Points]
  /\ stop    \in [Runs -> BOOLEAN]
  /\ outcome \in [Runs -> {"ok", "error"}]
  /\ client  \in [Clients -> Runs \cup {NoRun}]
  /\ killer  \in [Killers -> Runs \cup {NoRun}]
  /\ status  \in {"idle", "running"}
  /\ log     \in Seq([run : Runs, kind : Kinds])
  /\ history \in [Runs -> Nat]
  /\ crashes \in Nat
  /\ raced   \in BOOLEAN
  /\ aimed   \in SUBSET Runs

(* "A session handles one message at a time", as far as the code has it:   *)
(* unless one send() registered between another's check and its start(),   *)
(* the only live turn is the registered one, which kill() reaches.         *)
OneTurnUnlessRaced == ~raced => \A r \in Runs : pc[r] \in Alive => r = cur

(* kill() writes into the run it found alive, however late: never into a   *)
(* run that was registered in between.                                     *)
KillHitsItsTarget == \A r \in Runs : stop[r] => r \in aimed

(* run_finished is the last event of its run, so there is one at most,     *)
(* also when turns overlap.                                                *)
FinishedIsLast ==
  \A i, j \in 1 .. Len(log) :
    i < j /\ log[i].kind = "run_finished" => log[j].run # log[i].run

(* What the console shows: without a race the session is "running" from    *)
(* the start to the end of a turn, and "running" with no turn means that   *)
(* the server died during one.                                             *)
StatusTruthful ==
  LET busy == \E r \in Runs : pc[r] \in {"message", "body", "finally", "idle"}
  IN  ~raced => /\ busy => status = "running"
                /\ status = "running" /\ ~busy => crashes > 0

(* A turn's prompt is built from finished turns: without a race no run in  *)
(* the history it read is still to log a reply.                            *)
HistoryIsSettled ==
  ~raced =>
    \A r \in Runs : \A i \in 1 .. history[r] :
      \/ pc[log[i].run] = "lost"
      \/ \E j \in i .. history[r] :
           log[j] = [run |-> log[i].run, kind |-> "run_finished"]

(* Every accepted message gets its run_finished, unless the server dies.   *)
EveryRunFinishes ==
  \A r \in Runs :
    pc[r] = "registered" ~> Logged(r, "run_finished") \/ pc[r] = "lost"

(* The phase of each run in the contract, read off the log.                *)
phase ==
  [r \in Runs |->
     IF Logged(r, "run_finished")
     THEN IF outcome[r] = "ok" THEN "ok" ELSE "not_ok"
     ELSE IF ~Logged(r, "user_message") THEN "absent"
     ELSE IF pc[r] = "lost" THEN "lost"
     ELSE IF Logged(r, "assistant_message") THEN "answered"
     ELSE IF Logged(r, "run_error") THEN "failed"
     ELSE "open"]

Contract == INSTANCE RunContract

(* The session implements the contract of the event log.                   *)
ImplementsContract == Contract!Spec

(* multi-tenant.md: "A session handles one message at a time. Sending      *)
(* while a run is in progress returns 409."                                *)
OneMessageAtATime == \A r, s \in Runs : pc[r] \in Alive /\ pc[s] \in Alive => r = s

===========================================================================
