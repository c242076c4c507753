------------------------- MODULE SessionRunsProofs -------------------------
(***************************************************************************)
(* The safety properties of SessionRuns, and that it implements            *)
(* RunContract, for any number of clients, killers, messages and crashes.  *)
(***************************************************************************)
EXTENDS SessionRuns, SequenceTheorems, TLAPS

(* Without a race the registered run is the only one started or about to.  *)
SoloInv == ~raced => \A r \in Runs : pc[r] \in Pending \cup Alive => r = cur

(* What a kill() is about to write into, and what one has written into.    *)
AimInv ==
  /\ \A k \in Killers : killer[k] # NoRun => killer[k] \in aimed
  /\ \A r \in Runs : stop[r] => r \in aimed

(* What the log holds of a run at each point of its turn.                  *)
Quiet == {"new", "begin", "status", "message"} \cup Pending
Ended == {"idle", "audit", "dead"}

LogInvAt(r) ==
  /\ pc[r] \in Quiet => /\ \A kind \in Kinds : ~Logged(r, kind)
                        /\ outcome[r] = "error"
  /\ pc[r] = "body" => /\ Logged(r, "user_message")
                       /\ ~Logged(r, "assistant_message")
                       /\ ~Logged(r, "run_finished")
                       /\ outcome[r] = "error"
  /\ pc[r] = "finally" =>
       /\ Logged(r, "user_message")
       /\ ~Logged(r, "run_finished")
       /\ \/ outcome[r] = "ok" /\ Logged(r, "assistant_message")
          \/ /\ outcome[r] = "error"
             /\ Logged(r, "run_error")
             /\ ~Logged(r, "assistant_message")
  /\ pc[r] \in Ended => Logged(r, "run_finished")

LogInv == \A r \in Runs : LogInvAt(r)

---------------------------------------------------------------------------
(* The fresh run is one that is new.                                       *)
LEMMA FreshRunIsNew ==
  ASSUME \E r \in Runs : pc[r] = "new"
  PROVE  FreshRun \in Runs /\ pc[FreshRun] = "new"
BY DEF FreshRun

(* An event is appended: it is logged, and so is what was, and no more.    *)
LEMMA RecordLogs ==
  ASSUME TypeOK, NEW s \in Runs, NEW k \in Kinds, Record(s, k)
  PROVE  /\ log' \in Seq([run : Runs, kind : Kinds])
         /\ Len(log') = Len(log) + 1
         /\ Len(log) \in Nat
         /\ \A i \in 1 .. Len(log) : log'[i] = log[i]
         /\ log'[Len(log) + 1] = [run |-> s, kind |-> k]
         /\ \A r \in Runs, kind \in Kinds :
              Logged(r, kind)' <=> Logged(r, kind) \/ (r = s /\ kind = k)
<1> DEFINE e == [run |-> s, kind |-> k]
<1>1. log \in Seq([run : Runs, kind : Kinds]) /\ e \in [run : Runs, kind : Kinds]
  BY DEF TypeOK
<1>2. log' = Append(log, e)
  BY DEF Record
<1>3. Len(log) \in Nat
  BY <1>1
<1>4. /\ log' \in Seq([run : Runs, kind : Kinds])
      /\ Len(log') = Len(log) + 1
      /\ \A i \in 1 .. Len(log) : log'[i] = log[i]
      /\ log'[Len(log) + 1] = e
  BY <1>1, <1>2, AppendProperties
<1>5. ASSUME NEW r \in Runs, NEW kind \in Kinds
      PROVE  Logged(r, kind)' <=> Logged(r, kind) \/ (r = s /\ kind = k)
  <2>1. ASSUME Logged(r, kind) PROVE Logged(r, kind)'
    BY <2>1, <1>3, <1>4 DEF Logged
  <2>2. ASSUME r = s, kind = k PROVE Logged(r, kind)'
    <3>1. Len(log) + 1 \in 1 .. Len(log')
      BY <1>3, <1>4
    <3>2. QED
      BY <2>2, <3>1, <1>4 DEF Logged
  <2>3. ASSUME Logged(r, kind)', ~(r = s /\ kind = k) PROVE Logged(r, kind)
    <3>1. PICK i \in 1 .. Len(log') : log'[i] = [run |-> r, kind |-> kind]
      BY <2>3 DEF Logged
    <3>2. i # Len(log) + 1
      BY <3>1, <2>3, <1>4
    <3>3. i \in 1 .. Len(log)
      BY <3>1, <3>2, <1>3, <1>4
    <3>4. QED
      BY <3>1, <3>3, <1>4 DEF Logged
  <2>4. QED
    BY <2>1, <2>2, <2>3
<1>6. QED
  BY <1>3, <1>4, <1>5

(* Every event of the log is an event of some run.                         *)
LEMMA EventsOfRuns ==
  ASSUME TypeOK, NEW i \in 1 .. Len(log)
  PROVE  /\ log[i] \in [run : Runs, kind : Kinds]
         /\ log[i].run \in Runs
<1>1. log[i] \in [run : Runs, kind : Kinds]
  BY ElementOfSeq DEF TypeOK
<1>2. QED
  BY <1>1

(* The log is not written: nothing changes about what is logged.           *)
LEMMA LogUnchanged ==
  ASSUME UNCHANGED log
  PROVE  \A r \in Runs, kind \in Kinds : Logged(r, kind)' <=> Logged(r, kind)
BY DEF Logged

---------------------------------------------------------------------------
(* Type correctness.                                                       *)

(* A fresh session is well typed.                                          *)
LEMMA TypeInit == Init => TypeOK
<1>1. <<>> \in Seq([run : Runs, kind : Kinds])
  OBVIOUS
<1>2. ASSUME Init
      PROVE  log \in Seq([run : Runs, kind : Kinds])
  BY <1>1, <1>2 DEF Init
<1>3. ASSUME Init
      PROVE  /\ pc \in [Runs -> Points] /\ stop \in [Runs -> BOOLEAN]
             /\ outcome \in [Runs -> {"ok", "error"}]
             /\ history \in [Runs -> Nat]
             /\ client \in [Clients -> Runs \cup {NoRun}]
             /\ killer \in [Killers -> Runs \cup {NoRun}]
  BY <1>3 DEF Init, Points
<1>4. ASSUME Init
      PROVE  /\ cur \in Runs \cup {NoRun} /\ status \in {"idle", "running"}
             /\ crashes \in Nat /\ raced \in BOOLEAN /\ aimed \in SUBSET Runs
  BY <1>4 DEF Init
<1>5. QED
  BY <1>2, <1>3, <1>4 DEF TypeOK

(* Every call, turn step and crash keeps the session well typed.           *)
LEMMA TypeStep == TypeOK /\ [Next]_vars => TypeOK'
<1> SUFFICES ASSUME TypeOK, [Next]_vars PROVE TypeOK'
  OBVIOUS
<1> USE SessionAssumption
<1>1. ASSUME NEW c \in Clients, Register(c) PROVE TypeOK'
  <2>1. FreshRun \in Runs
    BY <1>1, FreshRunIsNew DEF Register
  <2>2. raced' \in BOOLEAN
    BY <1>1 DEF Register, TypeOK
  <2>3. QED
    BY <1>1, <2>1, <2>2 DEF Register, TypeOK, Points, Pending
<1>2. ASSUME NEW c \in Clients, SetThread(c) \/ Start(c) PROVE TypeOK'
  <2>1. CASE SetThread(c)
    BY <2>1 DEF SetThread, callVars, TypeOK, Points, Pending
  <2>2. CASE Start(c)
    BY <2>2 DEF Start, TypeOK, Points, Alive
  <2>3. QED
    BY <1>2, <2>1, <2>2
<1>3. ASSUME NEW k \in Killers, KillCheck(k) \/ KillSet(k) PROVE TypeOK'
  <2>1. CASE KillCheck(k)
    BY <2>1 DEF KillCheck, IsAlive, turnVars, TypeOK
  <2>2. CASE KillSet(k)
    BY <2>2 DEF KillSet, turnVars, TypeOK
  <2>3. QED
    BY <1>3, <2>1, <2>2
<1>4. ASSUME NEW r \in Runs, Turn(r) PROVE TypeOK'
  <2>1. CASE ReadHistory(r)
    <3>1. Len(log) \in Nat
      BY DEF TypeOK
    <3>2. QED
      BY <2>1, <3>1 DEF ReadHistory, Step, callVars, TypeOK, Points, Alive
  <2>2. CASE SetRunning(r) \/ SetIdle(r) \/ Audit(r)
    BY <2>2 DEF SetRunning, SetIdle, Audit, Step, callVars, TypeOK, Points,
                Alive
  <2>3. ASSUME NEW k \in Kinds, Record(r, k)
        PROVE  log' \in Seq([run : Runs, kind : Kinds])
    BY <2>3, RecordLogs
  <2>4. CASE LogMessage(r)
    BY <2>3, <2>4 DEF LogMessage, Step, callVars, TypeOK, Points, Alive, Kinds
  <2>5. CASE BodyStuck(r)
    BY <2>3, <2>5 DEF BodyStuck, callVars, TypeOK, Kinds
  <2>6. CASE BodyAnswers(r)
    BY <2>3, <2>6 DEF BodyAnswers, Step, callVars, TypeOK, Points, Alive, Kinds
  <2>7. CASE BodyFails(r)
    BY <2>3, <2>7 DEF BodyFails, Step, callVars, TypeOK, Points, Alive, Kinds
  <2>8. CASE LogFinished(r)
    BY <2>3, <2>8 DEF LogFinished, Step, callVars, TypeOK, Points, Alive, Kinds
  <2>9. QED
    BY <1>4, <2>1, <2>2, <2>4, <2>5, <2>6, <2>7, <2>8 DEF Turn
<1>5. CASE Crash
  BY <1>5 DEF Crash, TypeOK, Points
<1>6. CASE UNCHANGED vars
  BY <1>6 DEF vars, turnVars, callVars, TypeOK
<1>7. QED
  BY <1>1, <1>2, <1>3, <1>4, <1>5, <1>6 DEF Next

(* Every variable keeps its type, whatever the threads and crashes.        *)
THEOREM SessionTypes == Spec => []TypeOK
BY TypeInit, TypeStep, PTL DEF Spec

---------------------------------------------------------------------------
(* What a step does to the threads.                                        *)

(* One step of a turn moves its own thread on, or leaves it, or ends it.   *)
LEMMA TurnMoves ==
  ASSUME TypeOK, NEW r \in Runs, Turn(r)
  PROVE  /\ pc[r] \in Alive
         /\ \/ pc' = pc
            \/ \E p \in Alive \cup {"dead"} : pc' = [pc EXCEPT ![r] = p]
         /\ UNCHANGED <<callVars, crashes>>
<1>1. CASE ReadHistory(r) \/ SetRunning(r) \/ LogMessage(r)
  BY <1>1 DEF ReadHistory, SetRunning, LogMessage, Step, Alive
<1>2. CASE BodyStuck(r) \/ BodyAnswers(r) \/ BodyFails(r)
  BY <1>2 DEF BodyStuck, BodyAnswers, BodyFails, Step, Alive
<1>3. CASE LogFinished(r) \/ SetIdle(r) \/ Audit(r)
  BY <1>3 DEF LogFinished, SetIdle, Audit, Step, Alive
<1>4. QED
  BY <1>1, <1>2, <1>3 DEF Turn

---------------------------------------------------------------------------
(* One live turn, unless two send() calls raced.                           *)

(* Every step keeps SoloInv: only the registered run is under way.         *)
LEMMA SoloStep == TypeOK /\ SoloInv /\ [Next]_vars => SoloInv'
<1> SUFFICES ASSUME TypeOK, SoloInv, [Next]_vars, ~raced',
                    NEW s \in Runs, pc'[s] \in Pending \cup Alive
             PROVE  s = cur'
  BY DEF SoloInv
<1>1. ASSUME NEW c \in Clients, Register(c) PROVE s = cur'
  <2>1. ~raced /\ ~(cur # NoRun /\ pc[cur] \in Pending) /\ ~IsAlive(cur)
    BY <1>1 DEF Register, TypeOK
  <2>2. FreshRun \in Runs
    BY <1>1, FreshRunIsNew DEF Register
  <2>3. CASE s # FreshRun
    <3>1. pc'[s] = pc[s]
      BY <1>1, <2>3 DEF Register, TypeOK
    <3>2. s = cur
      BY <2>1, <3>1 DEF SoloInv
    <3>3. QED
      BY <2>1, <3>1, <3>2, SessionAssumption DEF IsAlive
  <2>4. QED
    BY <1>1, <2>3 DEF Register
<1>2. ASSUME NEW c \in Clients, SetThread(c) \/ Start(c) PROVE s = cur'
  <2>1. ~raced /\ cur' = cur
    BY <1>2 DEF SetThread, Start, callVars
  <2>2. pc[s] \in Pending \cup Alive
    BY <1>2 DEF SetThread, Start, TypeOK, Pending
  <2>3. QED
    BY <2>1, <2>2 DEF SoloInv
<1>3. ASSUME NEW k \in Killers, KillCheck(k) \/ KillSet(k) PROVE s = cur'
  BY <1>3 DEF KillCheck, KillSet, turnVars, SoloInv
<1>4. ASSUME NEW r \in Runs, Turn(r) PROVE s = cur'
  <2>1. ~raced /\ cur' = cur
    BY <1>4, TurnMoves DEF callVars
  <2>2. pc[s] \in Pending \cup Alive
    BY <1>4, TurnMoves DEF TypeOK
  <2>3. QED
    BY <2>1, <2>2 DEF SoloInv
<1>5. CASE Crash
  BY <1>5 DEF Crash, Pending, Alive
<1>6. CASE UNCHANGED vars
  BY <1>6 DEF vars, turnVars, callVars, SoloInv
<1>7. QED
  BY <1>1, <1>2, <1>3, <1>4, <1>5, <1>6 DEF Next

(* kill() writes only into runs it found alive.                            *)
LEMMA AimStep == TypeOK /\ AimInv /\ [Next]_vars => AimInv'
<1> SUFFICES ASSUME TypeOK, AimInv, [Next]_vars PROVE AimInv'
  OBVIOUS
<1>1. ASSUME NEW c \in Clients, Register(c) \/ SetThread(c) \/ Start(c)
      PROVE  AimInv'
  BY <1>1 DEF Register, SetThread, Start, callVars, AimInv
<1>2. ASSUME NEW k \in Killers, KillCheck(k) PROVE AimInv'
  BY <1>2 DEF KillCheck, turnVars, AimInv, TypeOK
<1>3. ASSUME NEW k \in Killers, KillSet(k) PROVE AimInv'
  BY <1>3 DEF KillSet, turnVars, AimInv, TypeOK
<1>4. ASSUME NEW r \in Runs, Turn(r) PROVE AimInv'
  BY <1>4, TurnMoves DEF callVars, AimInv
<1>5. CASE Crash
  BY <1>5 DEF Crash, AimInv
<1>6. CASE UNCHANGED vars
  BY <1>6 DEF vars, callVars, AimInv
<1>7. QED
  BY <1>1, <1>2, <1>3, <1>4, <1>5, <1>6 DEF Next

---------------------------------------------------------------------------
(* What the log holds of each run.                                         *)

(* Every step keeps LogInv: what the log says of a run fits its point.     *)
LEMMA LogStep == TypeOK /\ LogInv /\ [Next]_vars => LogInv'
<1> SUFFICES ASSUME TypeOK, LogInv, [Next]_vars PROVE LogInv'
  OBVIOUS
(* A step that writes no event, and takes no run past a point that LogInv  *)
(* tells apart.                                                            *)
<1>1. ASSUME UNCHANGED <<log, outcome>>,
             \A r \in Runs : \/ pc'[r] = pc[r] \/ pc'[r] = "lost"
                             \/ pc[r] \in Quiet /\ pc'[r] \in Quiet
                             \/ pc[r] \in Ended /\ pc'[r] \in Ended
      PROVE  LogInv'
  BY <1>1, LogUnchanged DEF LogInv, LogInvAt, Quiet, Ended, Pending, Kinds
(* A step that writes one event: the other runs are as before.             *)
<1>2. ASSUME NEW r \in Runs, NEW k \in Kinds, Record(r, k),
             \A s \in Runs \ {r} : pc'[s] = pc[s] /\ outcome'[s] = outcome[s],
             LogInvAt(r)'
      PROVE  LogInv'
  <2> SUFFICES ASSUME NEW s \in Runs, s # r PROVE LogInvAt(s)'
    BY <1>2 DEF LogInv
  <2>1. \A kind \in Kinds : Logged(s, kind)' <=> Logged(s, kind)
    BY <1>2, RecordLogs
  <2>2. pc'[s] = pc[s] /\ outcome'[s] = outcome[s] /\ LogInvAt(s)
    BY <1>2 DEF LogInv
  <2>3. QED
    BY <2>1, <2>2 DEF LogInvAt, Kinds
<1>3. ASSUME NEW c \in Clients, Register(c) PROVE LogInv'
  <2>1. FreshRun \in Runs /\ pc[FreshRun] = "new"
    BY <1>3, FreshRunIsNew DEF Register
  <2>2. QED
    BY <1>1, <1>3, <2>1 DEF Register, TypeOK, Quiet, Pending
<1>4. ASSUME NEW c \in Clients, SetThread(c) \/ Start(c) PROVE LogInv'
  BY <1>1, <1>4 DEF SetThread, Start, TypeOK, Quiet, Pending, callVars
<1>5. ASSUME NEW k \in Killers, KillCheck(k) \/ KillSet(k) PROVE LogInv'
  BY <1>1, <1>5 DEF KillCheck, KillSet, turnVars
<1>6. ASSUME NEW r \in Runs, Turn(r) PROVE LogInv'
  <2>1. CASE ReadHistory(r) \/ SetRunning(r) \/ SetIdle(r) \/ Audit(r)
    BY <1>1, <2>1 DEF ReadHistory, SetRunning, SetIdle, Audit, Step, TypeOK,
                     Quiet, Ended, Pending
  <2>2. CASE LogMessage(r)
    <3>1. Record(r, "user_message") /\ "user_message" \in Kinds
      BY <2>2 DEF LogMessage, Kinds
    <3>2. /\ pc[r] = "message" /\ pc'[r] = "body" /\ outcome' = outcome
          /\ \A s \in Runs \ {r} : pc'[s] = pc[s]
      BY <2>2 DEF LogMessage, Step, TypeOK
    <3>3. LogInvAt(r)'
      BY <3>1, <3>2, RecordLogs DEF LogInv, LogInvAt, Quiet, Ended, Pending, Kinds
    <3>4. QED
      BY <1>2, <3>1, <3>2, <3>3
  <2>3. CASE BodyStuck(r)
    <3>1. Record(r, "run_error") /\ "run_error" \in Kinds
      BY <2>3 DEF BodyStuck, Kinds
    <3>2. pc[r] = "body" /\ pc' = pc /\ outcome' = outcome
      BY <2>3 DEF BodyStuck
    <3>3. LogInvAt(r)'
      BY <3>1, <3>2, RecordLogs DEF LogInv, LogInvAt, Quiet, Ended, Pending, Kinds
    <3>4. QED
      BY <1>2, <3>1, <3>2, <3>3
  <2>4. CASE BodyAnswers(r)
    <3>1. Record(r, "assistant_message") /\ "assistant_message" \in Kinds
      BY <2>4 DEF BodyAnswers, Kinds
    <3>2. /\ pc[r] = "body" /\ pc'[r] = "finally" /\ outcome'[r] = "ok"
          /\ \A s \in Runs \ {r} : pc'[s] = pc[s] /\ outcome'[s] = outcome[s]
      BY <2>4 DEF BodyAnswers, Step, TypeOK
    <3>3. LogInvAt(r)'
      BY <3>1, <3>2, RecordLogs DEF LogInv, LogInvAt, Quiet, Ended, Pending, Kinds
    <3>4. QED
      BY <1>2, <3>1, <3>2, <3>3
  <2>5. CASE BodyFails(r)
    <3>1. Record(r, "run_error") /\ "run_error" \in Kinds
      BY <2>5 DEF BodyFails, Kinds
    <3>2. /\ pc[r] = "body" /\ pc'[r] = "finally" /\ outcome' = outcome
          /\ \A s \in Runs \ {r} : pc'[s] = pc[s]
      BY <2>5 DEF BodyFails, Step, TypeOK
    <3>3. LogInvAt(r)'
      BY <3>1, <3>2, RecordLogs DEF LogInv, LogInvAt, Quiet, Ended, Pending, Kinds
    <3>4. QED
      BY <1>2, <3>1, <3>2, <3>3
  <2>6. CASE LogFinished(r)
    <3>1. Record(r, "run_finished") /\ "run_finished" \in Kinds
      BY <2>6 DEF LogFinished, Kinds
    <3>2. /\ pc[r] = "finally" /\ pc'[r] = "idle" /\ outcome' = outcome
          /\ \A s \in Runs \ {r} : pc'[s] = pc[s]
      BY <2>6 DEF LogFinished, Step, TypeOK
    <3>3. LogInvAt(r)'
      BY <3>1, <3>2, RecordLogs DEF LogInv, LogInvAt, Quiet, Ended, Pending, Kinds
    <3>4. QED
      BY <1>2, <3>1, <3>2, <3>3
  <2>7. QED
    BY <1>6, <2>1, <2>2, <2>3, <2>4, <2>5, <2>6 DEF Turn
<1>7. CASE Crash
  BY <1>1, <1>7 DEF Crash, TypeOK
<1>8. CASE UNCHANGED vars
  BY <1>1, <1>8 DEF vars, turnVars
<1>9. QED
  BY <1>3, <1>4, <1>5, <1>6, <1>7, <1>8 DEF Next

(* An event is written only by a run that has not logged run_finished.     *)
LEMMA LastStep == TypeOK /\ LogInv /\ FinishedIsLast /\ [Next]_vars
                    => FinishedIsLast'
<1> SUFFICES ASSUME TypeOK, LogInv, FinishedIsLast, [Next]_vars
             PROVE  FinishedIsLast'
  OBVIOUS
<1>1. ASSUME UNCHANGED log PROVE FinishedIsLast'
  BY <1>1 DEF FinishedIsLast
<1>2. ASSUME NEW r \in Runs, NEW k \in Kinds, Record(r, k),
             ~Logged(r, "run_finished")
      PROVE  FinishedIsLast'
  <2> SUFFICES ASSUME NEW i \in 1 .. Len(log'), NEW j \in 1 .. Len(log'),
                      i < j, log'[i].kind = "run_finished"
               PROVE  log'[j].run # log'[i].run
    BY DEF FinishedIsLast
  <2>1. /\ Len(log) \in Nat
        /\ Len(log') = Len(log) + 1
        /\ \A n \in 1 .. Len(log) : log'[n] = log[n]
        /\ log'[Len(log) + 1] = [run |-> r, kind |-> k]
    BY <1>2, RecordLogs
  <2>2. i \in 1 .. Len(log) /\ log'[i] = log[i]
    BY <2>1
  <2>3. CASE j = Len(log) + 1
    <3>1. log[i] \in [run : Runs, kind : Kinds]
      BY <2>2, EventsOfRuns
    <3>2. log[i].run # r
      <4>1. log[i] # [run |-> r, kind |-> "run_finished"]
        BY <1>2, <2>2 DEF Logged
      <4>2. log[i].kind = "run_finished"
        BY <2>2
      <4>3. log[i] = [run |-> log[i].run, kind |-> log[i].kind]
        BY <3>1
      <4>4. QED
        BY <4>1, <4>2, <4>3
    <3>3. QED
      BY <2>1, <2>2, <2>3, <3>2
  <2>4. CASE j # Len(log) + 1
    <3>1. j \in 1 .. Len(log) /\ log'[j] = log[j]
      BY <2>1, <2>4
    <3>2. QED
      BY <2>2, <3>1 DEF FinishedIsLast
  <2>5. QED
    BY <2>3, <2>4
<1>3. ASSUME NEW r \in Runs, Turn(r) PROVE FinishedIsLast'
  <2>1. CASE \/ ReadHistory(r) \/ SetRunning(r) \/ SetIdle(r) \/ Audit(r)
    BY <1>1, <2>1 DEF ReadHistory, SetRunning, SetIdle, Audit
  <2>2. CASE LogMessage(r)
    BY <1>2, <2>2 DEF LogMessage, Step, LogInv, LogInvAt, Quiet, Kinds
  <2>3. CASE BodyStuck(r) \/ BodyAnswers(r) \/ BodyFails(r)
    BY <1>2, <2>3 DEF BodyStuck, BodyAnswers, BodyFails, Step, LogInv, LogInvAt,
                     Kinds
  <2>4. CASE LogFinished(r)
    BY <1>2, <2>4 DEF LogFinished, Step, LogInv, LogInvAt,
                     Kinds
  <2>5. QED
    BY <1>3, <2>1, <2>2, <2>3, <2>4 DEF Turn
<1>4. ASSUME NEW c \in Clients, Register(c) \/ SetThread(c) \/ Start(c)
      PROVE  FinishedIsLast'
  BY <1>1, <1>4 DEF Register, SetThread, Start
<1>5. ASSUME NEW k \in Killers, KillCheck(k) \/ KillSet(k)
      PROVE  FinishedIsLast'
  BY <1>1, <1>5 DEF KillCheck, KillSet, turnVars
<1>6. CASE Crash \/ UNCHANGED vars
  BY <1>1, <1>6 DEF Crash, vars, turnVars
<1>7. QED
  BY <1>3, <1>4, <1>5, <1>6 DEF Next

---------------------------------------------------------------------------
(* What the sessions table says.                                           *)

(* Every step keeps the status column truthful unless sends raced.         *)
LEMMA StatusStep == TypeOK /\ SoloInv /\ StatusTruthful /\ [Next]_vars
                      => StatusTruthful'
<1> SUFFICES ASSUME TypeOK, SoloInv, StatusTruthful, [Next]_vars, ~raced'
             PROVE  StatusTruthful'
  BY DEF StatusTruthful
<1> DEFINE Busy == {"message", "body", "finally", "idle"}
(* A step that takes no run into or out of its busy points.                *)
<1>1. ASSUME ~raced, UNCHANGED <<status, crashes>>,
             \A r \in Runs : pc'[r] \in Busy <=> pc[r] \in Busy
      PROVE  StatusTruthful'
  BY <1>1 DEF StatusTruthful
<1>2. ASSUME NEW c \in Clients, Register(c) PROVE StatusTruthful'
  <2>1. FreshRun \in Runs /\ pc[FreshRun] = "new"
    BY <1>2, FreshRunIsNew DEF Register
  <2>2. ~raced
    BY <1>2 DEF Register, TypeOK
  <2>3. QED
    BY <1>1, <1>2, <2>1, <2>2 DEF Register, TypeOK
<1>3. ASSUME NEW c \in Clients, SetThread(c) \/ Start(c)
      PROVE  StatusTruthful'
  BY <1>1, <1>3 DEF SetThread, Start, callVars, TypeOK
<1>4. ASSUME NEW k \in Killers, KillCheck(k) \/ KillSet(k)
      PROVE  StatusTruthful'
  BY <1>1, <1>4 DEF KillCheck, KillSet, turnVars
<1>5. ASSUME NEW r \in Runs, Turn(r) PROVE StatusTruthful'
  <2>1. ~raced
    BY <1>5, TurnMoves DEF callVars
  <2>2. CASE ReadHistory(r) \/ Audit(r)
    BY <1>1, <2>1, <2>2 DEF ReadHistory, Audit, Step, callVars, TypeOK
  <2>3. CASE SetRunning(r)
    BY <2>3 DEF SetRunning, Step, TypeOK, StatusTruthful
  <2>4. CASE LogMessage(r) \/ BodyStuck(r) \/ BodyAnswers(r)
    BY <1>1, <2>1, <2>4 DEF LogMessage, BodyStuck, BodyAnswers, Step,
                            callVars, TypeOK
  <2>5. CASE BodyFails(r) \/ LogFinished(r)
    BY <1>1, <2>1, <2>5 DEF BodyFails, LogFinished, Step, callVars, TypeOK
  <2>6. CASE SetIdle(r)
    <3>1. \A s \in Runs : s # r => pc[s] \notin Busy
      BY <2>1, <2>6 DEF SoloInv, SetIdle, Step, Alive
    <3>2. \A s \in Runs : pc'[s] \notin Busy
      BY <2>6, <3>1 DEF SetIdle, Step, TypeOK
    <3>3. QED
      BY <2>6, <3>2 DEF SetIdle, StatusTruthful
  <2>7. QED
    BY <1>5, <2>2, <2>3, <2>4, <2>5, <2>6 DEF Turn
<1>6. CASE Crash
  <2>1. \A r \in Runs : pc'[r] \notin Busy
    BY <1>6 DEF Crash, Alive
  <2>2. crashes' > 0
    BY <1>6 DEF Crash, TypeOK
  <2>3. QED
    BY <2>1, <2>2 DEF StatusTruthful
<1>7. CASE UNCHANGED vars
  BY <1>1, <1>7 DEF vars, turnVars, callVars
<1>8. QED
  BY <1>2, <1>3, <1>4, <1>5, <1>6, <1>7 DEF Next

---------------------------------------------------------------------------
(* The history a turn reads.                                               *)

HistoryInv == HistoryIsSettled /\ \A r \in Runs : history[r] <= Len(log)

(* An event of a run that is not under way is followed by, or is, the      *)
(* run_finished of its run.                                                *)
LEMMA EventsAreClosed ==
  ASSUME TypeOK, LogInv, FinishedIsLast, NEW i \in 1 .. Len(log),
         pc[log[i].run] \notin {"body", "finally", "lost"}
  PROVE  \E j \in i .. Len(log) :
           log[j] = [run |-> log[i].run, kind |-> "run_finished"]
<1> DEFINE r == log[i].run
<1>1. log[i] \in [run : Runs, kind : Kinds]
  BY EventsOfRuns
<1>2. r \in Runs /\ log[i].kind \in Kinds /\ Logged(r, log[i].kind)
  <2>1. log[i] = [run |-> log[i].run, kind |-> log[i].kind]
    BY <1>1
  <2>2. QED
    BY <1>1, <2>1 DEF Logged
<1>3. pc[r] \in Ended
  BY <1>2 DEF LogInv, LogInvAt, Quiet, Ended, TypeOK, Points, Alive
<1>4. Logged(r, "run_finished")
  BY <1>2, <1>3 DEF LogInv, LogInvAt
<1>5. PICK j \in 1 .. Len(log) : log[j] = [run |-> r, kind |-> "run_finished"]
  BY <1>4 DEF Logged
<1>6. ~(j < i)
  <2>1. log[j].run = r /\ log[j].kind = "run_finished"
    BY <1>5
  <2>2. QED
    BY <2>1 DEF FinishedIsLast
<1>7. j \in i .. Len(log)
  BY <1>5, <1>6
<1>8. QED
  BY <1>5, <1>7

(* Every step keeps HistoryInv: histories that were read stay settled.     *)
LEMMA HistoryStep ==
  TypeOK /\ SoloInv /\ LogInv /\ FinishedIsLast /\ HistoryInv /\ [Next]_vars
    => HistoryInv'
<1> SUFFICES ASSUME TypeOK, SoloInv, LogInv, FinishedIsLast, HistoryInv,
                    [Next]_vars
             PROVE  HistoryInv'
  OBVIOUS
<1>0. Len(log) \in Nat /\ history \in [Runs -> Nat]
  BY DEF TypeOK
(* A step that reads no history and takes nothing back.                    *)
<1>1. ASSUME UNCHANGED history, raced => raced',
             Len(log') \in Nat, Len(log) <= Len(log'),
             \A i \in 1 .. Len(log) : log'[i] = log[i],
             \A r \in Runs : pc[r] = "lost" => pc'[r] = "lost"
      PROVE  HistoryInv'
  <2>1. \A r \in Runs : history'[r] <= Len(log')
    BY <1>0, <1>1 DEF HistoryInv
  <2>2. ASSUME ~raced', NEW r \in Runs, NEW i \in 1 .. history'[r]
        PROVE  \/ pc'[log'[i].run] = "lost"
               \/ \E j \in i .. history'[r] :
                    log'[j] = [run |-> log'[i].run, kind |-> "run_finished"]
    <3>1. /\ i \in 1 .. history[r] /\ i \in 1 .. Len(log)
          /\ log'[i] = log[i]
      BY <1>0, <1>1, <2>2 DEF HistoryInv
    <3>2. log[i].run \in Runs
      BY <3>1, EventsOfRuns
    <3>3. \/ pc[log[i].run] = "lost"
          \/ \E j \in i .. history[r] :
               log[j] = [run |-> log[i].run, kind |-> "run_finished"]
      BY <1>1, <2>2, <3>1 DEF HistoryInv, HistoryIsSettled
    <3>4. \A j \in i .. history[r] : log'[j] = log[j]
      BY <1>0, <1>1, <3>1 DEF HistoryInv
    <3>5. QED
      BY <1>1, <3>1, <3>2, <3>3, <3>4
  <2>3. QED
    BY <2>1, <2>2 DEF HistoryInv, HistoryIsSettled
<1>2. ASSUME UNCHANGED <<history, log>>, raced => raced',
             \A r \in Runs : pc[r] = "lost" => pc'[r] = "lost"
      PROVE  HistoryInv'
  BY <1>0, <1>1, <1>2
<1>3. ASSUME NEW c \in Clients, Register(c) PROVE HistoryInv'
  <2>1. FreshRun \in Runs /\ pc[FreshRun] = "new"
    BY <1>3, FreshRunIsNew DEF Register
  <2>2. QED
    BY <1>2, <1>3, <2>1 DEF Register, TypeOK
<1>4. ASSUME NEW c \in Clients, SetThread(c) \/ Start(c) PROVE HistoryInv'
  BY <1>2, <1>4 DEF SetThread, Start, callVars, TypeOK
<1>5. ASSUME NEW k \in Killers, KillCheck(k) \/ KillSet(k) PROVE HistoryInv'
  BY <1>2, <1>5 DEF KillCheck, KillSet, turnVars
<1>6. ASSUME NEW r \in Runs, Turn(r) PROVE HistoryInv'
  <2>1. /\ raced' = raced
        /\ \A s \in Runs : pc[s] = "lost" => pc'[s] = "lost"
    BY <1>6, TurnMoves DEF callVars, TypeOK, Alive
  <2>2. CASE ReadHistory(r)
    <3>1. /\ pc[r] = "begin" /\ pc'[r] = "status" /\ log' = log
          /\ \A s \in Runs \ {r} : pc'[s] = pc[s] /\ history'[s] = history[s]
          /\ history'[r] = Len(log)
      BY <2>2 DEF ReadHistory, Step, TypeOK
    <3>2. \A s \in Runs : history'[s] <= Len(log')
      BY <1>0, <3>1 DEF HistoryInv
    <3>3. ASSUME ~raced', NEW i \in 1 .. Len(log)
          PROVE  \/ pc'[log[i].run] = "lost"
                 \/ \E j \in i .. Len(log) :
                      log[j] = [run |-> log[i].run, kind |-> "run_finished"]
      <4>1. log[i].run \in Runs
        BY EventsOfRuns
      <4>2. pc[log[i].run] \notin {"body", "finally"}
        BY <2>1, <3>1, <3>3, <4>1 DEF SoloInv, Alive
      <4>3. CASE pc[log[i].run] = "lost"
        BY <2>1, <4>1, <4>3
      <4>4. CASE pc[log[i].run] # "lost"
        BY <4>2, <4>4, EventsAreClosed
      <4>5. QED
        BY <4>3, <4>4
    <3>4. ASSUME ~raced', NEW s \in Runs, s # r, NEW i \in 1 .. history[s]
          PROVE  \/ pc'[log[i].run] = "lost"
                 \/ \E j \in i .. history[s] :
                      log[j] = [run |-> log[i].run, kind |-> "run_finished"]
      <4>1. i \in 1 .. Len(log)
        BY <1>0, <3>4 DEF HistoryInv
      <4>2. log[i].run \in Runs
        BY <4>1, EventsOfRuns
      <4>3. QED
        BY <2>1, <3>4, <4>2 DEF HistoryInv, HistoryIsSettled
    <3>5. QED
      BY <3>1, <3>2, <3>3, <3>4 DEF HistoryInv, HistoryIsSettled
  <2>3. ASSUME NEW k \in Kinds, Record(r, k), UNCHANGED history
        PROVE  HistoryInv'
    <3>1. /\ Len(log') = Len(log) + 1
          /\ \A i \in 1 .. Len(log) : log'[i] = log[i]
      BY <2>3, RecordLogs
    <3>2. QED
      BY <1>0, <1>1, <2>1, <2>3, <3>1
  <2>4. CASE SetRunning(r) \/ SetIdle(r) \/ Audit(r)
    BY <1>2, <2>1, <2>4 DEF SetRunning, SetIdle, Audit
  <2>5. CASE LogMessage(r) \/ BodyStuck(r)
    BY <2>3, <2>5 DEF LogMessage, BodyStuck, Kinds
  <2>6. CASE BodyAnswers(r) \/ BodyFails(r) \/ LogFinished(r)
    BY <2>3, <2>6 DEF BodyAnswers, BodyFails, LogFinished, Kinds
  <2>7. QED
    BY <1>6, <2>2, <2>4, <2>5, <2>6 DEF Turn
<1>7. CASE Crash
  BY <1>2, <1>7 DEF Crash, Pending, Alive
<1>8. CASE UNCHANGED vars
  BY <1>2, <1>8 DEF vars, turnVars, callVars
<1>9. QED
  BY <1>3, <1>4, <1>5, <1>6, <1>7, <1>8 DEF Next

---------------------------------------------------------------------------
(* The inductive invariant and the safety properties.                      *)

IInv == /\ TypeOK /\ SoloInv /\ AimInv /\ LogInv
        /\ FinishedIsLast /\ StatusTruthful /\ HistoryInv

(* A fresh session satisfies the inductive invariant.                      *)
LEMMA SessionInit == Init => IInv
<1> SUFFICES ASSUME Init PROVE IInv
  OBVIOUS
<1>1. TypeOK
  BY TypeInit
<1>2. SoloInv /\ AimInv
  BY DEF Init, SoloInv, AimInv, Pending, Alive
<1>3. Len(log) = 0
  BY DEF Init
<1>4. LogInv
  <2>1. \A r \in Runs, kind \in Kinds : ~Logged(r, kind)
    BY <1>3 DEF Logged
  <2>2. \A r \in Runs : pc[r] = "new" /\ outcome[r] = "error"
    BY DEF Init
  <2>3. QED
    BY <2>1, <2>2 DEF LogInv, LogInvAt, Ended
<1>5. FinishedIsLast
  BY <1>3 DEF FinishedIsLast
<1>6. StatusTruthful
  BY DEF Init, StatusTruthful
<1>7. HistoryInv
  BY <1>3 DEF Init, HistoryInv, HistoryIsSettled
<1>8. QED
  BY <1>1, <1>2, <1>4, <1>5, <1>6, <1>7 DEF IInv

(* The invariant of the session, from which each property below follows.   *)
LEMMA SessionInvariant == Spec => []IInv
<1>1. IInv /\ [Next]_vars => IInv'
  BY TypeStep, SoloStep, AimStep, LogStep, LastStep, StatusStep, HistoryStep
     DEF IInv
<1>2. QED
  BY <1>1, SessionInit, PTL DEF Spec

(* Unless two send() calls raced, one turn is live at most, and it is the  *)
(* registered one.                                                         *)
THEOREM OneTurn == Spec => []OneTurnUnlessRaced
<1>1. IInv => OneTurnUnlessRaced
  BY DEF IInv, SoloInv, OneTurnUnlessRaced
<1>2. QED
  BY <1>1, SessionInvariant, PTL

(* A kill() stops the run it found alive and no other.                     *)
THEOREM KillsHitTheirTarget == Spec => []KillHitsItsTarget
<1>1. IInv => KillHitsItsTarget
  BY DEF IInv, AimInv, KillHitsItsTarget
<1>2. QED
  BY <1>1, SessionInvariant, PTL

(* Nothing of a run follows its run_finished in the log.                   *)
THEOREM RunFinishedIsLast == Spec => []FinishedIsLast
<1>1. IInv => FinishedIsLast
  BY DEF IInv
<1>2. QED
  BY <1>1, SessionInvariant, PTL

(* Unless two send() calls raced, a running turn is shown as "running",    *)
(* and only a crash leaves that status behind.                             *)
THEOREM StatusIsTruthful == Spec => []StatusTruthful
<1>1. IInv => StatusTruthful
  BY DEF IInv
<1>2. QED
  BY <1>1, SessionInvariant, PTL

(* Unless two send() calls raced, a turn reads a history in which every    *)
(* run is finished or was cut off by a crash.                              *)
THEOREM HistoriesAreSettled == Spec => []HistoryIsSettled
<1>1. IInv => HistoryIsSettled
  BY DEF IInv, HistoryInv
<1>2. QED
  BY <1>1, SessionInvariant, PTL

---------------------------------------------------------------------------
(* The contract of the event log.                                          *)

(* What LogInv says of the log, as the phase of the contract.              *)
LEMMA PhaseAtPoint ==
  ASSUME TypeOK, LogInv, NEW r \in Runs
  PROVE  /\ pc[r] \in Quiet => phase[r] = "absent"
         /\ pc[r] = "body" =>
              phase[r] = IF Logged(r, "run_error") THEN "failed" ELSE "open"
         /\ pc[r] = "finally" =>
              phase[r] = IF outcome[r] = "ok" THEN "answered" ELSE "failed"
         /\ pc[r] \in Ended =>
              phase[r] = IF outcome[r] = "ok" THEN "ok" ELSE "not_ok"
<1>1. LogInvAt(r)
  BY DEF LogInv
<1>2. QED
  BY <1>1 DEF LogInvAt, phase, Quiet, Ended, Pending, Kinds

(* The phase of a run is a function of what is logged of it, its outcome,  *)
(* and whether it was lost.                                                *)
LEMMA PhaseUnmoved ==
  ASSUME NEW r \in Runs, outcome'[r] = outcome[r],
         pc'[r] = "lost" <=> pc[r] = "lost",
         \A kind \in Kinds : Logged(r, kind)' <=> Logged(r, kind)
  PROVE  (phase')[r] = phase[r]
<1>1. /\ Logged(r, "user_message")' <=> Logged(r, "user_message")
      /\ Logged(r, "run_error")' <=> Logged(r, "run_error")
      /\ Logged(r, "assistant_message")' <=> Logged(r, "assistant_message")
      /\ Logged(r, "run_finished")' <=> Logged(r, "run_finished")
  BY DEF Kinds
<1>2. QED
  BY <1>1 DEF phase

(* An event of one run moves the phase of that run only.                   *)
LEMMA PhaseMoves ==
  ASSUME TypeOK, NEW r \in Runs, NEW k \in Kinds, Record(r, k),
         \A s \in Runs \ {r} : pc'[s] = pc[s] /\ outcome'[s] = outcome[s]
  PROVE  phase' = [phase EXCEPT ![r] = (phase')[r]]
<1>1. ASSUME NEW s \in Runs \ {r} PROVE (phase')[s] = phase[s]
  <2>1. \A kind \in Kinds : Logged(s, kind)' <=> Logged(s, kind)
    BY RecordLogs
  <2>2. QED
    BY <2>1, PhaseUnmoved
<1>2. phase = [s \in Runs |-> phase[s]]
  BY DEF phase
<1>3. phase' = [s \in Runs |-> (phase')[s]]
  BY DEF phase
<1>4. QED
  BY <1>1, <1>2, <1>3

(* A step that writes no event and loses no run changes no phase.          *)
LEMMA PhaseFrame ==
  ASSUME UNCHANGED <<log, outcome>>,
         \A r \in Runs : pc'[r] = "lost" <=> pc[r] = "lost"
  PROVE  phase' = phase
<1>1. \A r \in Runs : (phase')[r] = phase[r]
  BY LogUnchanged, PhaseUnmoved
<1>2. QED
  BY <1>1 DEF phase

(* Every step of the session is a step of the contract or a stutter.       *)
LEMMA ContractStep ==
  TypeOK /\ LogInv /\ LogInv' /\ TypeOK' /\ [Next]_vars
    => [Contract!Next]_phase
<1> SUFFICES ASSUME TypeOK, LogInv, LogInv', TypeOK', [Next]_vars
             PROVE  [Contract!Next]_phase
  OBVIOUS
<1>1. ASSUME NEW c \in Clients, Register(c) PROVE phase' = phase
  <2>1. FreshRun \in Runs /\ pc[FreshRun] = "new"
    BY <1>1, FreshRunIsNew DEF Register
  <2>2. QED
    BY <1>1, <2>1, PhaseFrame DEF Register, TypeOK
<1>2. ASSUME NEW c \in Clients, SetThread(c) \/ Start(c) PROVE phase' = phase
  BY <1>2, PhaseFrame DEF SetThread, Start, TypeOK
<1>3. ASSUME NEW k \in Killers, KillCheck(k) \/ KillSet(k)
      PROVE  phase' = phase
  BY <1>3, PhaseFrame DEF KillCheck, KillSet, turnVars
<1>4. ASSUME NEW r \in Runs, Turn(r) PROVE [Contract!Next]_phase
  <2>1. CASE ReadHistory(r) \/ SetRunning(r) \/ SetIdle(r) \/ Audit(r)
    <3>1. phase' = phase
      BY <2>1, PhaseFrame DEF ReadHistory, SetRunning, SetIdle, Audit, Step,
                              TypeOK
    <3>2. QED
      BY <3>1
  <2>2. CASE LogMessage(r)
    <3>1. /\ pc[r] = "message" /\ pc'[r] = "body" /\ outcome' = outcome
          /\ \A s \in Runs \ {r} : pc'[s] = pc[s]
          /\ Record(r, "user_message") /\ "user_message" \in Kinds
      BY <2>2 DEF LogMessage, Step, TypeOK, Kinds
    <3>2. /\ \A k \in Kinds : ~Logged(r, k)
          /\ ~Logged(r, "run_error")'
      BY <3>1, RecordLogs DEF LogInv, LogInvAt, Quiet, Kinds
    <3>3. phase[r] = "absent" /\ (phase')[r] = "open"
      BY <3>1, <3>2, PhaseAtPoint, RecordLogs
         DEF phase, Quiet, Kinds
    <3>4. Contract!Open(r)
      BY <3>1, <3>3, PhaseMoves DEF Contract!Open, Contract!Move
    <3>5. QED
      BY <3>4 DEF Contract!Next
  <2>3. CASE BodyStuck(r)
    <3>1. /\ pc[r] = "body" /\ pc' = pc /\ outcome' = outcome
          /\ Record(r, "run_error") /\ "run_error" \in Kinds
          /\ ~Logged(r, "run_error")
      BY <2>3 DEF BodyStuck, Kinds
    <3>2. phase[r] = "open"
      BY <3>1, PhaseAtPoint
    <3>3. /\ ~Logged(r, "run_finished")' /\ ~Logged(r, "assistant_message")'
          /\ Logged(r, "user_message")' /\ Logged(r, "run_error")'
      BY <3>1, RecordLogs DEF LogInv, LogInvAt, Kinds
    <3>4. (phase')[r] = "failed"
      BY <3>1, <3>3 DEF phase
    <3>5. Contract!Fail(r)
      BY <3>1, <3>2, <3>4, PhaseMoves DEF Contract!Fail, Contract!Move
    <3>6. QED
      BY <3>5 DEF Contract!Next
  <2>4. CASE BodyAnswers(r)
    <3>1. /\ pc[r] = "body" /\ pc'[r] = "finally" /\ outcome'[r] = "ok"
          /\ \A s \in Runs \ {r} : pc'[s] = pc[s] /\ outcome'[s] = outcome[s]
          /\ Record(r, "assistant_message") /\ "assistant_message" \in Kinds
      BY <2>4 DEF BodyAnswers, Step, TypeOK, Kinds
    <3>2. phase[r] \in {"open", "failed"}
      BY <3>1, PhaseAtPoint
    <3>3. /\ ~Logged(r, "run_finished")' /\ Logged(r, "assistant_message")'
          /\ Logged(r, "user_message")'
      BY <3>1, RecordLogs DEF LogInv, LogInvAt, Kinds
    <3>4. (phase')[r] = "answered"
      BY <3>1, <3>3 DEF phase
    <3>5. Contract!Answer(r)
      BY <3>1, <3>2, <3>4, PhaseMoves DEF Contract!Answer, Contract!Move
    <3>6. QED
      BY <3>5 DEF Contract!Next
  <2>5. CASE BodyFails(r)
    <3>1. /\ pc[r] = "body" /\ pc'[r] = "finally" /\ outcome' = outcome
          /\ \A s \in Runs \ {r} : pc'[s] = pc[s]
          /\ Record(r, "run_error") /\ "run_error" \in Kinds
      BY <2>5 DEF BodyFails, Step, TypeOK, Kinds
    <3>2. phase[r] \in {"open", "failed"}
      BY <3>1, PhaseAtPoint
    <3>3. /\ ~Logged(r, "run_finished")' /\ ~Logged(r, "assistant_message")'
          /\ Logged(r, "user_message")' /\ Logged(r, "run_error")'
      BY <3>1, RecordLogs DEF LogInv, LogInvAt, Kinds
    <3>4. (phase')[r] = "failed"
      BY <3>1, <3>3 DEF phase
    <3>5. phase' = [phase EXCEPT ![r] = "failed"]
      BY <3>1, <3>4, PhaseMoves
    <3>6. CASE phase[r] = "open"
      BY <3>5, <3>6 DEF Contract!Next, Contract!Fail, Contract!Move
    <3>7. CASE phase[r] = "failed"
      BY <3>5, <3>7 DEF phase
    <3>8. QED
      BY <3>2, <3>6, <3>7
  <2>6. CASE LogFinished(r)
    <3>1. /\ pc[r] = "finally" /\ pc'[r] = "idle" /\ outcome' = outcome
          /\ \A s \in Runs \ {r} : pc'[s] = pc[s]
          /\ Record(r, "run_finished") /\ "run_finished" \in Kinds
      BY <2>6 DEF LogFinished, Step, TypeOK, Kinds
    <3>2. phase[r] = IF outcome[r] = "ok" THEN "answered" ELSE "failed"
      BY <3>1, PhaseAtPoint
    <3>3. Logged(r, "run_finished")'
      BY <3>1, RecordLogs
    <3>4. (phase')[r] = IF outcome[r] = "ok" THEN "ok" ELSE "not_ok"
      BY <3>1, <3>3 DEF phase
    <3>5. Contract!Close(r)
      BY <3>1, <3>2, <3>4, PhaseMoves DEF Contract!Close, Contract!Move
    <3>6. QED
      BY <3>5 DEF Contract!Next
  <2>7. QED
    BY <1>4, <2>1, <2>2, <2>3, <2>4, <2>5, <2>6 DEF Turn
<1>5. CASE Crash
  <2>1. \A r \in Runs :
          (phase')[r] = IF phase[r] \in {"open", "failed", "answered"}
                        THEN "lost" ELSE phase[r]
    <3> SUFFICES ASSUME NEW r \in Runs
                 PROVE  (phase')[r] = IF phase[r] \in {"open", "failed", "answered"}
                                      THEN "lost" ELSE phase[r]
      OBVIOUS
    <3>1. /\ outcome' = outcome
          /\ \A kind \in Kinds : Logged(r, kind)' <=> Logged(r, kind)
          /\ pc'[r] = IF pc[r] \in Pending \cup Alive THEN "lost" ELSE pc[r]
      BY <1>5, LogUnchanged DEF Crash
    <3>2. CASE pc[r] \in Quiet
      BY <3>1, <3>2, PhaseAtPoint DEF phase, LogInv, LogInvAt, Kinds
    <3>3. CASE pc[r] \in {"body", "finally"}
      BY <3>1, <3>3 DEF phase, LogInv, LogInvAt, Kinds, Alive
    <3>4. CASE pc[r] \in Ended
      BY <3>1, <3>4 DEF phase, LogInv, LogInvAt, Kinds
    <3>5. CASE pc[r] = "lost"
      BY <3>1, <3>5 DEF phase, Kinds, Pending, Alive
    <3>6. QED
      BY <3>2, <3>3, <3>4, <3>5 DEF TypeOK, Points, Quiet, Ended, Alive
  <2>2. Contract!Die
    BY <2>1 DEF Contract!Die, phase
  <2>3. QED
    BY <2>2 DEF Contract!Next
<1>6. CASE UNCHANGED vars
  BY <1>6, PhaseFrame DEF vars, turnVars
<1>7. QED
  BY <1>1, <1>2, <1>3, <1>4, <1>5, <1>6 DEF Next

(* Every behaviour of the session, races and crashes included, is one the  *)
(* contract of the event log allows.                                       *)
THEOREM SessionImplementsContract == Spec => ImplementsContract
<1>1. Init => Contract!Init
  BY DEF Init, Contract!Init, phase, Logged
<1>2. IInv /\ IInv' /\ [Next]_vars => [Contract!Next]_phase
  BY ContractStep DEF IInv
<1>3. QED
  BY <1>1, <1>2, SessionInvariant, PTL
     DEF Spec, ImplementsContract, Contract!Spec

===========================================================================
