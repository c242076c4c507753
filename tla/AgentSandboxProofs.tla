------------------------- MODULE AgentSandboxProofs -------------------------
(***************************************************************************)
(* One agent in its sandbox, on either rung, for any tools, any capacity   *)
(* of the pipes, any budget and any threshold.                             *)
(*                                                                         *)
(* Two threads may kill the runner while it works, writes or ends.  What   *)
(* run() reports is right because a signal is sent only for a reason that  *)
(* has been noted, and never to a runner that has gone (KillsByReason); by *)
(* the time run() reports, it has gone (GoneAtTheEnd).  What it logged is  *)
(* what it read, a prefix of what was written (LogIsPrefix).  The budget   *)
(* is exceeded once: the call that exceeds it sends run() into kill(),     *)
(* where it reads nothing, and the runner is gone when it comes back       *)
(* (RunsOutOnce).                                                          *)
(***************************************************************************)
EXTENDS AgentSandbox, FiniteSetTheorems, SequenceTheorems, TLAPS

Lines == Work \cup {"started", "result", "partial", "finished", "error"}

RunRecord ==
  [pc : {"new", "refused", "start", "send", "read", "observe", "kill", "wait", "report",
         "return", "done", "raised"},
   line : Lines \cup {None}, output : Lines \cup {None}, code : Nat]

RunnerRecord ==
  [pc : {"none", "fork", "boot", "work", "stuck", "ending", "dead"},
   todo : Seq(Lines), code : Nat, term : BOOLEAN]

WatchRecord == [pc : {"off", "armed", "firing", "over"}, stop : BOOLEAN]

SandboxTypes ==
  /\ rung \in {"process", "docker"}
  /\ run \in RunRecord /\ runner \in RunnerRecord /\ watch \in WatchRecord
  /\ written \in Seq(Lines) /\ forwarded \in Seq(Lines)
  /\ err \in 0 .. ErrCap /\ spent \in Nat /\ seen \in [Tools -> Nat]
  /\ kills \in [Killers -> {"idle", "lock", "poll", "mark", "term", "grace"}]
  /\ holder \in Killers \cup {None} /\ reason \in Killers \cup {None}
  /\ report \in {None, "ok", "silent", "killed"}
  /\ signalled \in BOOLEAN /\ broken \in BOOLEAN

(* Nobody works or writes when there is nobody to work or write.           *)
Gone == runner.pc \in {"none", "dead"}

(* Before the runner reads its specification nothing is written and nobody *)
(* has a reason to kill.                                                   *)
NothingYet ==
  /\ run.pc \in {"new", "refused", "start", "send"} =>
       /\ written = <<>> /\ forwarded = <<>> /\ spent = 0
       /\ \A k \in Killers : kills[k] = "idle"
       /\ watch.pc = "off" /\ reason = None /\ report = None /\ runner.term = FALSE
       /\ runner.pc \in {"none", "fork", "dead"}
  /\ run.pc \in {"new", "refused", "start"} => runner.pc = "none"

(* A signal is sent only for a noted reason, and never to a runner that    *)
(* has gone.                                                               *)
KillsByReason ==
  /\ \A k \in Killers : kills[k] = "term" => reason # None
  /\ signalled => reason # None
  /\ kills["run"] # "idle" => At("kill")
  /\ runner.term = TRUE => ~Gone

(* When run() reports, the runner has gone.                                *)
GoneAtTheEnd ==
  /\ run.pc \in {"report", "return", "done", "raised"} => Gone
  /\ run.pc = "wait" /\ ~broken => Gone
  /\ report # None => run.pc \in {"return", "done"}
  /\ UnkilledWasLeftAlone

(* The log is what has been read of what was written.                      *)
LogIsPrefix ==
  /\ Len(forwarded) <= Len(written)
  /\ \A i \in 1 .. Len(forwarded) : forwarded[i] = written[i]
  /\ run.pc \in {"wait", "report", "return", "done"} /\ ~broken => Len(forwarded) = Len(written)

(* The model calls among some lines.                                       *)
ModelCallsIn(s) == {i \in 1 .. Len(s) : s[i] = "model"}

(* The calls in the log are booked, but for the one that run() looks at.   *)
Looking  == IF At("observe") /\ run.line = "model" THEN 1 ELSE 0
Booked   == Cardinality(ModelCallsIn(forwarded)) = spent + Looking

(* Tokens run out once, and then the runner is killed.                     *)
RunsOutOnce == spent > RunTokens => Gone \/ (At("kill") /\ spent = RunTokens + 1)

PipeHolds == rung = "process" => Len(written) - Len(forwarded) <= PipeCap

SandboxInv ==
  /\ SandboxTypes /\ NothingYet /\ KillsByReason /\ GoneAtTheEnd /\ LogIsPrefix
  /\ Booked /\ RunsOutOnce /\ PipeHolds /\ OverspendIsBounded

---------------------------------------------------------------------------
(* What a run() that is behind the runner reads next.                      *)
LEMMA ReadsNext ==
  ASSUME SandboxTypes, Len(forwarded) <= Len(written)
  PROVE  /\ Len(Unread) = Len(written) - Len(forwarded)
         /\ Unread = <<>> => Len(forwarded) = Len(written)
         /\ Unread # <<>> => /\ Len(forwarded) < Len(written)
                             /\ Head(Unread) = written[Len(forwarded) + 1]
                             /\ Head(Unread) \in Lines
<1>1. /\ written \in Seq(Lines) /\ forwarded \in Seq(Lines)
      /\ Len(written) \in Nat /\ Len(forwarded) \in Nat
  BY LenProperties DEF SandboxTypes
<1>2. /\ Unread \in Seq(Lines) /\ Len(Unread) = Len(written) - Len(forwarded)
      /\ \A i \in 1 .. Len(Unread) : Unread[i] = written[Len(forwarded) + 1 + i - 1]
  BY <1>1, SubSeqProperties DEF Unread
<1>3. Len(<<>>) = 0
  OBVIOUS
<1>4. ASSUME Unread # <<>>
      PROVE  /\ Len(forwarded) < Len(written)
             /\ Head(Unread) = written[Len(forwarded) + 1] /\ Head(Unread) \in Lines
  <2>1. Len(Unread) # 0 /\ Head(Unread) = Unread[1]
    BY <1>2, <1>4, EmptySeq
  <2>2. 1 \in 1 .. Len(Unread)
    BY <1>1, <1>2, <2>1
  <2>3. Unread[1] \in Lines
    BY <1>2, <2>2, ElementOfSeq
  <2> QED
    BY <1>1, <1>2, <2>1, <2>2, <2>3
<1> QED
  BY <1>1, <1>2, <1>3, <1>4

(* A step of the runner is a step of a living one.  It may append a line   *)
(* for which there is room, once the runner has begun; all else stands.    *)
LEMMA RunnerSteps ==
  ASSUME SandboxTypes, KillsByReason, RunnerNext
  PROVE  /\ UNCHANGED <<rung, run, forwarded, spent, seen, kills, holder, reason, watch,
                        report, signalled, broken>>
         /\ ~Gone /\ (runner.pc = "fork" => runner'.pc = "dead")
         /\ runner' \in [pc : {"boot", "work", "stuck", "ending", "dead"},
                         todo : Seq(Lines), code : Nat, term : BOOLEAN]
         /\ runner'.term = TRUE => runner.term = TRUE /\ runner'.pc # "dead"
         /\ err' \in 0 .. ErrCap
         /\ \/ written' = written
            \/ runner.pc # "fork" /\ HasRoom /\ \E l \in Lines : written' = Append(written, l)
<1>0. /\ runner \in [pc : {"none", "fork", "boot", "work", "stuck", "ending", "dead"},
                     todo : Seq(Lines), code : Nat, term : BOOLEAN]
      /\ err \in 0 .. ErrCap /\ written \in Seq(Lines)
      /\ runner.term = TRUE => runner.pc \notin {"none", "dead"}
  BY DEF SandboxTypes, RunnerRecord, KillsByReason, Gone
<1>1. /\ <<"result", "finished">> \in Seq(Lines)
      /\ <<"error", "result", "finished">> \in Seq(Lines)
      /\ <<"partial", "finished", "finished">> \in Seq(Lines)
      /\ "started" \in Lines /\ Work \subseteq Lines
  BY DEF Lines
<1> DEFINE R == [pc : {"boot", "work", "stuck", "ending", "dead"},
                 todo : Seq(Lines), code : Nat, term : BOOLEAN]
<1>2. CASE RunnerStarts
  BY <1>0, <1>1, <1>2
     DEF RunnerStarts, Write, Runner, RunnerOnly, Gone, governing, killing, reporting
<1>3. CASE RunnerCalls
  BY <1>0, <1>1, <1>3
     DEF RunnerCalls, Write, RunnerOnly, Gone, governing, killing, reporting
<1>4. CASE RunnerWarns
  BY <1>0, <1>4, SandboxAssumption
     DEF RunnerWarns, RunnerOnly, Gone, governing, killing, reporting
<1>5. CASE RunnerSticks
  BY <1>0, <1>5
     DEF RunnerSticks, Runner, RunnerOnly, Gone, governing, killing, reporting, piping
<1>6. CASE RunnerAnswers
  BY <1>0, <1>1, <1>6
     DEF RunnerAnswers, Ending, Runner, RunnerOnly, Gone, governing, killing, reporting,
         piping
<1>7. CASE RunnerRaises
  BY <1>0, <1>1, <1>7
     DEF RunnerRaises, Ending, Runner, RunnerOnly, Gone, governing, killing, reporting,
         piping
<1>8. CASE RunnerEnds
  <2>1. CASE runner.todo = <<>>
    BY <1>0, <1>8, <2>1
       DEF RunnerEnds, Runner, RunnerOnly, Gone, governing, killing, reporting
  <2>2. CASE runner.todo # <<>>
    <3>1. Head(runner.todo) \in Lines /\ Tail(runner.todo) \in Seq(Lines)
      BY <1>0, <2>2, HeadTailProperties
    <3> QED
      BY <1>0, <1>8, <2>2, <3>1
         DEF RunnerEnds, Write, Runner, RunnerOnly, Gone, governing, killing, reporting
  <2> QED
    BY <2>1, <2>2
<1>9. CASE RunnerTerminated
  <2>1. /\ runner.pc \in {"fork", "boot", "work", "stuck", "ending"}
        /\ runner' \in R /\ runner'.term = FALSE
        /\ runner.pc = "fork" => runner'.pc = "dead"
    <3>1. runner.pc \in {"fork", "boot", "work", "stuck", "ending"}
      BY <1>0, <1>9 DEF RunnerTerminated
    <3>2. \/ runner' = [runner EXCEPT !.pc = "dead", !.code = 15, !.term = FALSE]
          \/ /\ runner.pc # "fork"
             /\ \E t \in Seq(Lines), c \in Nat :
                  runner' = [pc |-> "ending", todo |-> t, code |-> c, term |-> FALSE]
      BY <1>1, <1>9, <3>1 DEF RunnerTerminated, Ending, Runner
    <3>3. CASE runner' = [runner EXCEPT !.pc = "dead", !.code = 15, !.term = FALSE]
      <4>1. runner \in [pc : {"none", "fork", "boot", "work", "stuck", "ending", "dead"},
                        todo : Seq(Lines), code : Nat, term : BOOLEAN]
        BY <1>0
      <4>2. 15 \in Nat /\ "dead" \in {"boot", "work", "stuck", "ending", "dead"} /\ FALSE \in BOOLEAN
        OBVIOUS
      <4>3. runner' = [pc |-> "dead", todo |-> runner.todo, code |-> 15, term |-> FALSE]
        BY <4>1, <3>3
      <4> QED
        BY <3>1, <4>1, <4>2, <4>3
    <3>4. ASSUME NEW t \in Seq(Lines), NEW c \in Nat, runner.pc # "fork",
                 runner' = [pc |-> "ending", todo |-> t, code |-> c, term |-> FALSE]
          PROVE  runner' \in R /\ runner'.term = FALSE
      BY <3>4
    <3> QED
      BY <3>1, <3>2, <3>3, <3>4
  <2> QED
    BY <1>0, <1>9, <2>1
       DEF RunnerTerminated, RunnerOnly, Gone, governing, killing, reporting, piping
<1>10. CASE RunnerDies
  BY <1>0, <1>10
     DEF RunnerDies, Runner, RunnerOnly, Gone, governing, killing, reporting, piping
<1> QED
  BY <1>2, <1>3, <1>4, <1>5, <1>6, <1>7, <1>8, <1>9, <1>10 DEF RunnerNext

(* Types.                                                                  *)
LEMMA TypesStep ==
  ASSUME SandboxInv, [SandboxNext]_sandboxVars
  PROVE  SandboxTypes'
<1>0. /\ SandboxTypes /\ KillsByReason /\ Len(forwarded) <= Len(written)
  BY DEF SandboxInv, LogIsPrefix
<1>a. /\ \A p \in {"refused", "start", "send", "read", "observe", "kill", "wait", "report",
                 "return", "done", "raised"} :
           [run EXCEPT !.pc = p] \in RunRecord
      /\ \A p \in {"done", "report"}, c \in Nat : [run EXCEPT !.pc = p, !.code = c] \in RunRecord
  BY <1>0 DEF SandboxTypes, RunRecord
<1>b. /\ \A p \in {"fork", "boot", "dead"} : [runner EXCEPT !.pc = p] \in RunnerRecord
      /\ [runner EXCEPT !.pc = "dead", !.code = 1] \in RunnerRecord
      /\ [runner EXCEPT !.term = TRUE] \in RunnerRecord
      /\ [runner EXCEPT !.pc = "dead", !.term = FALSE] \in RunnerRecord
      /\ \A c \in Nat : [runner EXCEPT !.pc = "dead", !.term = FALSE, !.code = c] \in RunnerRecord
      /\ runner.code \in Nat
  BY <1>0 DEF SandboxTypes, RunnerRecord
<1>c. /\ \A p \in {"armed", "firing", "over"} : [watch EXCEPT !.pc = p] \in WatchRecord
      /\ [watch EXCEPT !.stop = TRUE] \in WatchRecord
  BY <1>0 DEF SandboxTypes, WatchRecord
<1>d. run.line \in Lines \cup {None}
  BY <1>0 DEF SandboxTypes, RunRecord
<1>1. CASE RunnerNext
  <2>1. written' \in Seq(Lines)
    <3>1. \/ written' = written
          \/ \E l \in Lines : written' = Append(written, l)
      BY <1>0, <1>1, RunnerSteps
    <3> QED
      BY <1>0, <3>1, AppendProperties DEF SandboxTypes
  <2>2. runner' \in RunnerRecord
    BY <1>0, <1>1, RunnerSteps DEF RunnerRecord
  <2> QED
    BY <1>0, <1>1, <2>1, <2>2, RunnerSteps DEF SandboxTypes
<1>2. ASSUME NEW t \in {RunTokens, RunTokens + 1}, Launch(t)
      PROVE  SandboxTypes'
  BY <1>0, <1>a, <1>b, <1>c, <1>d, <1>2
     DEF Launch, At, To, governing, killing, reporting, piping, SandboxTypes
<1>3. CASE StartProcess
  BY <1>0, <1>a, <1>b, <1>c, <1>d, <1>3
     DEF StartProcess, At, To, Exited, Runner, governing, killing, reporting,
         piping, SandboxTypes
<1>4. CASE CreateContainer
  <2>1. run' \in RunRecord /\ runner' \in RunnerRecord
    <3>1. \/ run' = [run EXCEPT !.pc = "send"] /\ runner' = [runner EXCEPT !.pc = "fork"]
          \/ run' = [run EXCEPT !.pc = "done", !.code = 1] /\ runner' = runner
      BY <1>4 DEF CreateContainer, To, Runner
    <3>2. run \in RunRecord /\ runner \in RunnerRecord /\ 1 \in Nat
      BY <1>0 DEF SandboxTypes
    <3>3. [run EXCEPT !.pc = "done", !.code = 1] \in RunRecord
      BY <1>a, <3>2
    <3>4. [run EXCEPT !.pc = "send"] \in RunRecord /\ [runner EXCEPT !.pc = "fork"] \in RunnerRecord
      BY <1>a, <1>b
    <3> QED
      BY <3>1, <3>2, <3>3, <3>4
  <2> QED
    BY <1>0, <1>4, <2>1 DEF CreateContainer, governing, killing, piping, SandboxTypes
<1>5. CASE SendSpec
  BY <1>0, <1>a, <1>b, <1>c, <1>d, <1>5
     DEF SendSpec, At, To, Exited, Runner, governing, killing, reporting, piping,
         SandboxTypes
<1>6. CASE StartContainer
  BY <1>0, <1>a, <1>b, <1>c, <1>d, <1>6
     DEF StartContainer, At, To, Exited, Runner, governing, killing, reporting,
         piping, SandboxTypes
<1>7. CASE ReadLine
  <2>1. /\ Head(Unread) \in Lines /\ forwarded' = Append(forwarded, Head(Unread))
        /\ run' = [run EXCEPT !.pc = "observe", !.line = Head(Unread),
                     !.output = IF Head(Unread) \in {"result", "partial"} THEN Head(Unread) ELSE @]
        /\ UNCHANGED <<rung, runner, written, err, spent, seen, kills, holder, reason,
                       signalled,
                       watch, report, broken>>
    BY <1>0, <1>7, ReadsNext DEF ReadLine, governing, killing, reporting, piping
  <2>2. run' \in RunRecord
    BY <1>0, <2>1 DEF SandboxTypes, RunRecord
  <2>3. forwarded' \in Seq(Lines)
    BY <1>0, <2>1, AppendProperties DEF SandboxTypes
  <2> QED
    BY <1>0, <2>1, <2>2, <2>3 DEF SandboxTypes
<1>8. CASE Observe
  <2>1. /\ run' \in RunRecord /\ spent' \in Nat /\ seen' \in [Tools -> Nat]
        /\ kills' = kills \/ kills' = [kills EXCEPT !["run"] = "lock"]
    <3>1. /\ spent' = spent \/ spent' = spent + 1
          /\ seen' = seen \/ \E l \in Tools : seen' = [seen EXCEPT ![l] = seen[l] + 1]
          /\ run' = [run EXCEPT !.pc = "kill"] \/ run' = [run EXCEPT !.pc = "read"]
          /\ kills' = kills \/ kills' = [kills EXCEPT !["run"] = "lock"]
      BY <1>8 DEF Observe, To
    <3>2. seen' \in [Tools -> Nat] /\ spent' \in Nat
      BY <1>0, <3>1 DEF SandboxTypes
    <3> QED
      BY <1>a, <3>1, <3>2
  <2> QED
    BY <1>0, <1>8, <2>1 DEF Observe, Killers, piping, reporting, SandboxTypes
<1>9. CASE EndOfStream
  BY <1>0, <1>a, <1>b, <1>c, <1>d, <1>9
     DEF EndOfStream, At, To, Exited, Runner, governing, killing, reporting,
         piping, SandboxTypes
<1>10. CASE Wait
  BY <1>0, <1>a, <1>b, <1>c, <1>d, <1>10
     DEF Wait, At, To, Exited, Runner, governing, killing, reporting, piping,
         SandboxTypes
<1>11. CASE WaitContainer
  BY <1>0, <1>a, <1>b, <1>c, <1>d, <1>11
     DEF WaitContainer, At, To, Exited, Runner, governing, killing, reporting,
         piping, SandboxTypes
<1>12. CASE ReportContainer
  BY <1>0, <1>a, <1>b, <1>c, <1>d, <1>12
     DEF ReportContainer, At, To, Exited, Runner, governing, killing, reporting,
         piping, SandboxTypes
<1>13. CASE Return
  BY <1>0, <1>a, <1>b, <1>c, <1>d, <1>13
     DEF Return, At, To, Exited, Runner, governing, killing, reporting, piping,
         SandboxTypes
<1>14. ASSUME NEW f \in BOOLEAN, Report(f)
      PROVE  SandboxTypes'
  BY <1>0, <1>a, <1>b, <1>c, <1>d, <1>14
     DEF Report, At, To, governing, killing, piping, SandboxTypes
<1>15. CASE StreamBreaks
  BY <1>0, <1>a, <1>b, <1>c, <1>d, <1>15
     DEF StreamBreaks, At, To, governing, killing, piping, SandboxTypes
<1>16. CASE WatchdogFires
  BY <1>0, <1>a, <1>b, <1>c, <1>d, <1>16
     DEF WatchdogFires, KillOnly, KillStep, Killers, governing, reporting,
         SandboxTypes
<1>17. CASE WatchdogStops
  BY <1>0, <1>a, <1>b, <1>c, <1>d, <1>17
     DEF WatchdogStops, KillOnly, KillStep, Killers, governing, reporting,
         SandboxTypes
<1>18. ASSUME NEW k \in Killers, KillLocks(k)
      PROVE  SandboxTypes'
  BY <1>0, <1>a, <1>b, <1>c, <1>d, <1>18
     DEF KillLocks, KillReturns, KillStep, KillOnly, Killers, Runner, At, To,
         Exited, Ended, governing, reporting, SandboxTypes
<1>19. ASSUME NEW k \in Killers, KillPolls(k)
      PROVE  SandboxTypes'
  BY <1>0, <1>a, <1>b, <1>c, <1>d, <1>19
     DEF KillPolls, KillReturns, KillStep, KillOnly, Killers, Runner, At, To,
         Exited, Ended, governing, reporting, SandboxTypes
<1>20. ASSUME NEW k \in Killers, KillFinds(k)
      PROVE  SandboxTypes'
  BY <1>0, <1>a, <1>b, <1>c, <1>d, <1>20
     DEF KillFinds, KillReturns, KillStep, KillOnly, Killers, Runner, At, To,
         Exited, Ended, governing, reporting, SandboxTypes
<1>21. ASSUME NEW k \in Killers, KillMarks(k)
      PROVE  SandboxTypes'
  BY <1>0, <1>a, <1>b, <1>c, <1>d, <1>21
     DEF KillMarks, KillReturns, KillStep, KillOnly, Killers, Runner, At, To,
         Exited, Ended, governing, reporting, SandboxTypes
<1>22. ASSUME NEW k \in Killers, KillTerminates(k)
      PROVE  SandboxTypes'
  BY <1>0, <1>a, <1>b, <1>c, <1>d, <1>22
     DEF KillTerminates, KillReturns, KillStep, KillOnly, Killers, Runner, At, To,
         Exited, Ended, governing, reporting, SandboxTypes
<1>23. ASSUME NEW k \in Killers, KillWaits(k)
      PROVE  SandboxTypes'
  BY <1>0, <1>a, <1>b, <1>c, <1>d, <1>23
     DEF KillWaits, KillReturns, KillStep, KillOnly, Killers, Runner, At, To,
         Exited, Ended, governing, reporting, SandboxTypes
<1>24. ASSUME NEW k \in Killers, StopContainer(k)
      PROVE  SandboxTypes'
  BY <1>0, <1>a, <1>b, <1>c, <1>d, <1>24
     DEF StopContainer, KillReturns, KillStep, KillOnly, Killers, Runner, At, To,
         Exited, Ended, governing, reporting, SandboxTypes
<1>25. CASE UNCHANGED sandboxVars
  BY <1>0, <1>a, <1>b, <1>c, <1>d, <1>25
     DEF sandboxVars, SandboxTypes
<1>26. CASE RunStep
  BY <1>2, <1>3, <1>4, <1>5, <1>6, <1>7, <1>8, <1>9, <1>10, <1>11, <1>12, <1>13, <1>14,
     <1>26
     DEF RunStep
<1>27. ASSUME NEW k \in Killers, KillNext(k)
       PROVE  SandboxTypes'
  BY <1>18, <1>19, <1>20, <1>21, <1>22, <1>23, <1>24, <1>27 DEF KillNext
<1> QED
  BY <1>1, <1>15, <1>16, <1>17, <1>25, <1>26, <1>27 DEF SandboxNext, Watchdog


(* A step that neither writes, reads nor books.                            *)
Idles ==
  /\ UNCHANGED <<rung, written, forwarded, spent>>
  /\ run' = run \/ (run.pc # "observe" /\ run'.pc # "observe")
  /\ run'.pc \in {"wait", "report", "return", "done"} /\ ~broken' =>
       \/ run.pc \in {"wait", "report", "return", "done"} /\ ~broken
       \/ Len(written) = Len(forwarded)
  /\ spent > RunTokens => (Gone => Gone') /\ (At("kill") => At("kill")' \/ Gone')

(* Everybody stays in his place.                                           *)
StaysOrderly ==
  /\ NothingYet' /\ KillsByReason' /\ GoneAtTheEnd'
  /\ RunnerNext \/ ReadLine \/ Observe \/ Idles

(* What a step writes into a record it changes, and what it leaves.        *)
LEMMA FieldsMove ==
  ASSUME SandboxTypes
  PROVE  /\ \A p : [run EXCEPT !.pc = p].pc = p /\ [run EXCEPT !.pc = p].line = run.line
         /\ \A p, c : [run EXCEPT !.pc = p, !.code = c].pc = p
         /\ \A p, l, o : /\ [run EXCEPT !.pc = p, !.line = l, !.output = o].pc = p
                         /\ [run EXCEPT !.pc = p, !.line = l, !.output = o].line = l
         /\ \A p : /\ [runner EXCEPT !.pc = p].pc = p
                   /\ [runner EXCEPT !.pc = p].term = runner.term
         /\ \A p, c : /\ [runner EXCEPT !.pc = p, !.code = c].pc = p
                      /\ [runner EXCEPT !.pc = p, !.code = c].term = runner.term
         /\ [runner EXCEPT !.term = TRUE].pc = runner.pc
         /\ \A p : /\ [runner EXCEPT !.pc = p, !.term = FALSE].pc = p
                   /\ [runner EXCEPT !.pc = p, !.term = FALSE].term = FALSE
         /\ \A p, c : /\ [runner EXCEPT !.pc = p, !.term = FALSE, !.code = c].pc = p
                      /\ [runner EXCEPT !.pc = p, !.term = FALSE, !.code = c].term = FALSE
         /\ \A p : [watch EXCEPT !.pc = p].pc = p
         /\ [watch EXCEPT !.stop = TRUE].pc = watch.pc
BY DEF SandboxTypes, RunRecord, RunnerRecord, WatchRecord

(* Who may be where: what the threads and the runner know of each other.   *)
LEMMA ControlStep ==
  ASSUME SandboxInv, [SandboxNext]_sandboxVars
  PROVE  StaysOrderly
<1>0. /\ NothingYet /\ KillsByReason /\ GoneAtTheEnd
      /\ Len(forwarded) <= Len(written) /\ RunTokens \in Nat
      /\ kills \in [Killers -> {"idle", "lock", "poll", "mark", "term", "grace"}]
      /\ reason \in Killers \cup {None} /\ rung \in {"process", "docker"}
      /\ signalled \in BOOLEAN /\ broken \in BOOLEAN /\ runner.term \in BOOLEAN
  BY SandboxAssumption DEF SandboxInv, SandboxTypes, RunnerRecord, LogIsPrefix
<1>a. SandboxTypes
  BY DEF SandboxInv
<1>1. CASE RunnerNext
  <2>1. /\ UNCHANGED <<run, forwarded, spent, kills, reason, watch, report, signalled, broken>>
        /\ ~Gone /\ (runner.pc = "fork" => runner'.pc = "dead")
        /\ runner'.term = TRUE => runner.term = TRUE /\ runner'.pc # "dead"
        /\ runner'.pc \in {"boot", "work", "stuck", "ending", "dead"} /\ runner'.term \in BOOLEAN
        /\ runner.pc = "fork" => written' = written
    BY <1>0, <1>a, <1>1, RunnerSteps
  <2> QED
    BY <1>0, <2>1, <1>1
       DEF StaysOrderly, NothingYet, KillsByReason, GoneAtTheEnd, UnkilledWasLeftAlone,
           Gone, At
<1>2. ASSUME NEW t \in {RunTokens, RunTokens + 1}, Launch(t)
      PROVE  StaysOrderly
  <2>1. /\ run.pc = "new"
        /\ UNCHANGED <<rung, runner, written, forwarded, spent, kills, reason, signalled,
                       watch, report, broken>>
    BY <1>2 DEF Launch, At, piping, governing, killing, reporting
  <2>2. run' = [run EXCEPT !.pc = "refused"] \/ run' = [run EXCEPT !.pc = "start"]
    BY <1>2 DEF Launch, To
  <2>3. run'.pc \in {"refused", "start"}
    BY <1>a, <2>2 DEF SandboxTypes, RunRecord
  <2> QED
    BY <1>0, <2>1, <2>3
       DEF StaysOrderly, NothingYet, KillsByReason, GoneAtTheEnd, UnkilledWasLeftAlone,
           Gone, At, Idles
<1>3. CASE StartProcess
  <2>1. /\ run.pc = "start"
        /\ UNCHANGED <<rung, written, forwarded, spent, kills, reason, signalled, watch,
                       report, broken>>
    BY <1>3 DEF StartProcess, At, piping, governing, killing, reporting
  <2>2. \/ run' = [run EXCEPT !.pc = "send"] /\ runner' = [runner EXCEPT !.pc = "fork"]
        \/ run' = [run EXCEPT !.pc = "raised"] /\ runner' = runner
    BY <1>3 DEF StartProcess, To, Runner
  <2>3. \/ run'.pc = "send" /\ runner'.pc = "fork" /\ runner'.term = runner.term
        \/ run'.pc = "raised" /\ runner' = runner
    BY <1>a, <2>2 DEF SandboxTypes, RunRecord, RunnerRecord
  <2> QED
    BY <1>0, <2>1, <2>3
       DEF StaysOrderly, NothingYet, KillsByReason, GoneAtTheEnd, UnkilledWasLeftAlone,
           Gone, At, Idles
<1>4. CASE CreateContainer
  <2>1. /\ run.pc = "start"
        /\ UNCHANGED <<rung, written, forwarded, spent, kills, reason, signalled, watch,
                       broken>>
    BY <1>4 DEF CreateContainer, At, piping, governing, killing
  <2>2. \/ /\ run' = [run EXCEPT !.pc = "send"] /\ runner' = [runner EXCEPT !.pc = "fork"]
           /\ report' = report
        \/ /\ run' = [run EXCEPT !.pc = "done", !.code = 1] /\ runner' = runner
           /\ report' = "ok"
    BY <1>4 DEF CreateContainer, To, Runner
  <2>3. \/ run'.pc = "send" /\ runner'.pc = "fork" /\ runner'.term = runner.term /\ report' = report
        \/ run'.pc = "done" /\ runner' = runner /\ report' = "ok"
    BY <1>a, <2>2 DEF SandboxTypes, RunRecord, RunnerRecord
  <2> QED
    BY <1>0, <2>1, <2>3
       DEF StaysOrderly, NothingYet, KillsByReason, GoneAtTheEnd, UnkilledWasLeftAlone,
           Gone, At, Idles
<1>5. CASE SendSpec
  <2>1. /\ run.pc = "send"
        /\ UNCHANGED <<rung, written, forwarded, spent, kills, reason, signalled, report,
                       broken>>
    BY <1>5 DEF SendSpec, At, piping, governing, killing, reporting
  <2>2. \/ /\ run' = [run EXCEPT !.pc = "raised"] /\ runner' = runner /\ runner.pc = "dead"
           /\ watch' = watch
        \/ run' = [run EXCEPT !.pc = "read"] /\ runner' = [runner EXCEPT !.pc = "boot"]
    BY <1>5 DEF SendSpec, To, Exited, Runner
  <2>3. \/ run'.pc = "raised" /\ runner' = runner /\ runner.pc = "dead" /\ watch' = watch
        \/ run'.pc = "read" /\ runner'.pc = "boot" /\ runner'.term = runner.term
    BY <1>a, <2>2 DEF SandboxTypes, RunRecord, RunnerRecord
  <2> QED
    BY <1>0, <2>1, <2>3
       DEF StaysOrderly, NothingYet, KillsByReason, GoneAtTheEnd, UnkilledWasLeftAlone,
           Gone, At, Idles
<1>6. CASE StartContainer
  <2>1. /\ run.pc = "send"
        /\ UNCHANGED <<rung, written, forwarded, spent, kills, reason, signalled, report,
                       broken>>
    BY <1>6 DEF StartContainer, At, piping, governing, killing, reporting
  <2>2. /\ run' = [run EXCEPT !.pc = "read"]
        /\ \/ runner' = [runner EXCEPT !.pc = "dead"]
           \/ runner' = [runner EXCEPT !.pc = "boot"]
           \/ runner' = [runner EXCEPT !.pc = "dead", !.code = 1]
    BY <1>6 DEF StartContainer, To, Runner
  <2>3. /\ run'.pc = "read" /\ runner'.pc \in {"boot", "dead"}
        /\ runner'.term = runner.term
    BY <1>a, <2>2 DEF SandboxTypes, RunRecord, RunnerRecord
  <2> QED
    BY <1>0, <2>1, <2>3
       DEF StaysOrderly, NothingYet, KillsByReason, GoneAtTheEnd, UnkilledWasLeftAlone,
           Gone, At, Idles
<1>7. CASE ReadLine
  <2>1. /\ run.pc = "read"
        /\ UNCHANGED <<rung, runner, written, spent, kills, reason, signalled, watch,
                       report, broken>>
    BY <1>7 DEF ReadLine, At, piping, governing, killing, reporting
  <2>2. \E l, o : run' = [run EXCEPT !.pc = "observe", !.line = l, !.output = o]
    BY <1>7 DEF ReadLine
  <2>3. run'.pc = "observe"
    BY <1>a, FieldsMove, <2>2
  <2> QED
    BY <1>0, <2>1, <2>3, <1>7
       DEF StaysOrderly, NothingYet, KillsByReason, GoneAtTheEnd, UnkilledWasLeftAlone,
           Gone, At
<1>8. CASE Observe
  <2>1. /\ run.pc = "observe"
        /\ UNCHANGED <<rung, runner, written, forwarded, reason, signalled, watch, report,
                       broken>>
    BY <1>8 DEF Observe, At, piping, reporting
  <2>2. \/ run' = [run EXCEPT !.pc = "kill"] /\ kills' = [kills EXCEPT !["run"] = "lock"]
        \/ run' = [run EXCEPT !.pc = "read"] /\ kills' = kills
    BY <1>8 DEF Observe, To
  <2>3. \/ run'.pc = "kill" /\ kills' = [kills EXCEPT !["run"] = "lock"]
        \/ run'.pc = "read" /\ kills' = kills
    BY <1>a, FieldsMove, <2>2
  <2> QED
    BY <1>0, <2>1, <2>3, <1>8
       DEF StaysOrderly, NothingYet, KillsByReason, GoneAtTheEnd, UnkilledWasLeftAlone,
           Gone, At, Killers
<1>9. CASE EndOfStream
  <2>1. Len(written) = Len(forwarded)
    BY <1>0, <1>a, <1>9, ReadsNext DEF EndOfStream
  <2> QED
    BY <1>0, <1>a, <2>1, FieldsMove, <1>9
       DEF EndOfStream, At, To, Exited, governing, killing, reporting, piping, StaysOrderly,
           NothingYet,
         KillsByReason, GoneAtTheEnd, UnkilledWasLeftAlone, Gone, Idles
<1>10. CASE Wait
  BY <1>0, <1>a, FieldsMove, <1>10
     DEF Wait, At, To, Exited, Runner, governing, killing, reporting, piping,
         NothingYet, KillsByReason, GoneAtTheEnd, UnkilledWasLeftAlone, Gone,
         Idles, StaysOrderly
<1>11. CASE WaitContainer
  BY <1>0, <1>a, FieldsMove, <1>11
     DEF WaitContainer, At, To, Exited, Runner, governing, killing, reporting,
         piping, NothingYet, KillsByReason, GoneAtTheEnd, UnkilledWasLeftAlone,
         Gone, Idles, StaysOrderly
<1>12. CASE ReportContainer
  BY <1>0, <1>a, FieldsMove, <1>12
     DEF ReportContainer, At, To, Exited, Runner, governing, killing, reporting,
         piping, NothingYet, KillsByReason, GoneAtTheEnd, UnkilledWasLeftAlone,
         Gone, Idles, StaysOrderly
<1>13. CASE Return
  BY <1>0, <1>a, FieldsMove, <1>13
     DEF Return, At, To, Exited, Runner, governing, killing, reporting, piping,
         NothingYet, KillsByReason, GoneAtTheEnd, UnkilledWasLeftAlone, Gone,
         Idles, StaysOrderly
<1>14. ASSUME NEW f \in BOOLEAN, Report(f)
      PROVE  StaysOrderly
  BY <1>0, <1>a, FieldsMove, <1>14
     DEF Report, At, To, governing, killing, piping, NothingYet, KillsByReason,
         GoneAtTheEnd, UnkilledWasLeftAlone, Gone, Idles, StaysOrderly
<1>15. CASE StreamBreaks
  BY <1>0, <1>a, FieldsMove, <1>15
     DEF StreamBreaks, At, To, governing, killing, piping, NothingYet,
         KillsByReason, GoneAtTheEnd, UnkilledWasLeftAlone, Gone, Idles,
         StaysOrderly
<1>16. CASE WatchdogFires
  BY <1>0, <1>a, FieldsMove, <1>16
     DEF WatchdogFires, KillOnly, KillStep, Killers, governing, reporting,
         NothingYet, KillsByReason, GoneAtTheEnd, UnkilledWasLeftAlone, Gone, At,
         Idles, StaysOrderly
<1>17. CASE WatchdogStops
  BY <1>0, <1>a, FieldsMove, <1>17
     DEF WatchdogStops, KillOnly, KillStep, Killers, governing, reporting,
         NothingYet, KillsByReason, GoneAtTheEnd, UnkilledWasLeftAlone, Gone, At,
         Idles, StaysOrderly
<1>18. ASSUME NEW k \in Killers, KillLocks(k)
      PROVE  StaysOrderly
  BY <1>0, <1>a, FieldsMove, <1>18
     DEF KillLocks, KillReturns, KillStep, KillOnly, Killers, Runner, At, To,
         Exited, Ended, governing, reporting, NothingYet, KillsByReason,
         GoneAtTheEnd, UnkilledWasLeftAlone, Gone, Idles, StaysOrderly
<1>19. ASSUME NEW k \in Killers, KillPolls(k)
      PROVE  StaysOrderly
  <2>1. /\ kills[k] = "poll"
        /\ UNCHANGED <<rung, runner, written, forwarded, spent, reason, signalled, report,
                       broken>>
    BY <1>19 DEF KillPolls, KillOnly, governing, reporting
  <2>2. \/ /\ kills' = [kills EXCEPT ![k] = "idle"]
           /\ \/ /\ k = "run" /\ run' = [run EXCEPT !.pc = "read"] /\ watch' = watch
                 /\ runner.pc = "dead" \/ run.pc \in {"done", "raised", "refused"}
              \/ k # "run" /\ run' = run /\ watch' = [watch EXCEPT !.pc = "over"]
        \/ kills' = [kills EXCEPT ![k] = "mark"] /\ run' = run /\ watch' = watch
    BY <1>19 DEF KillPolls, KillReturns, KillStep, To, Exited, Ended, At
  <2>3. \/ /\ kills' = [kills EXCEPT ![k] = "idle"]
           /\ \/ /\ k = "run" /\ run'.pc = "read"
                 /\ runner.pc = "dead" \/ run.pc \in {"done", "raised", "refused"}
              \/ k # "run" /\ run' = run
        \/ kills' = [kills EXCEPT ![k] = "mark"] /\ run' = run
    BY <1>a, FieldsMove, <2>2
  <2> QED
    BY <1>0, <2>1, <2>3
       DEF StaysOrderly, NothingYet, KillsByReason, GoneAtTheEnd, UnkilledWasLeftAlone,
           Gone, At, Idles, Killers
<1>20. ASSUME NEW k \in Killers, KillFinds(k)
      PROVE  StaysOrderly
  BY <1>0, <1>a, FieldsMove, <1>20
     DEF KillFinds, KillReturns, KillStep, KillOnly, Killers, Runner, At, To,
         Exited, Ended, governing, reporting, NothingYet, KillsByReason,
         GoneAtTheEnd, UnkilledWasLeftAlone, Gone, Idles, StaysOrderly
<1>21. ASSUME NEW k \in Killers, KillMarks(k)
      PROVE  StaysOrderly
  <2>1. /\ kills[k] = "mark"
        /\ UNCHANGED <<rung, run, runner, written, forwarded, spent, signalled, watch,
                       report, broken>>
    BY <1>21 DEF KillMarks, KillOnly, governing, reporting
  <2>2. kills' = [kills EXCEPT ![k] = "term"] /\ reason' = k
    BY <1>21 DEF KillMarks, KillStep, Killers, None
  <2>3. kills' = [kills EXCEPT ![k] = "term"] /\ reason' # None
    BY <2>2 DEF Killers, None
  <2> QED
    BY <1>0, <2>1, <2>3
       DEF StaysOrderly, NothingYet, KillsByReason, GoneAtTheEnd, UnkilledWasLeftAlone,
           Gone, At, Idles, Killers
<1>22. ASSUME NEW k \in Killers, KillTerminates(k)
      PROVE  StaysOrderly
  <2>1. /\ kills[k] = "term"
        /\ UNCHANGED <<rung, written, run, watch, forwarded, spent, reason, report, broken>>
    BY <1>22 DEF KillTerminates, KillOnly, governing, reporting
  <2>2. /\ kills' = [kills EXCEPT ![k] = "grace"]
        /\ \/ runner.pc \in {"none", "dead"} /\ runner' = runner /\ signalled' = signalled
           \/ /\ runner.pc \notin {"none", "dead"} /\ runner' = [runner EXCEPT !.term = TRUE]
              /\ signalled' = TRUE
    BY <1>22 DEF KillTerminates, KillStep, Runner
  <2>3. /\ kills' = [kills EXCEPT ![k] = "grace"]
        /\ \/ runner.pc \in {"none", "dead"} /\ runner' = runner /\ signalled' = signalled
           \/ /\ runner.pc \notin {"none", "dead"} /\ runner'.pc = runner.pc
              /\ signalled' = TRUE
    BY <1>a, FieldsMove, <2>2
  <2>4. reason # None
    BY <1>0, <2>1 DEF KillsByReason
  <2>5. NothingYet' /\ GoneAtTheEnd'
    BY <1>0, <2>1, <2>3 DEF NothingYet, GoneAtTheEnd, UnkilledWasLeftAlone, Gone, None
  <2>6. KillsByReason'
    BY <1>0, <2>1, <2>3, <2>4 DEF KillsByReason, Gone, At, Killers
  <2>7. Idles
    BY <1>0, <2>1, <2>3 DEF Idles, Gone, At
  <2> QED
    BY <2>5, <2>6, <2>7 DEF StaysOrderly
<1>23. ASSUME NEW k \in Killers, KillWaits(k)
      PROVE  StaysOrderly
  <2>1. /\ kills[k] = "grace"
        /\ UNCHANGED <<rung, written, forwarded, spent, reason, signalled, report, broken>>
    BY <1>23 DEF KillWaits, KillOnly, governing, reporting
  <2>2. /\ kills' = [kills EXCEPT ![k] = "idle"]
        /\ \/ k = "run" /\ run' = [run EXCEPT !.pc = "read"]
           \/ k # "run" /\ run' = run
        /\ \E c : runner' = [runner EXCEPT !.pc = "dead", !.term = FALSE, !.code = c]
    BY <1>23 DEF KillWaits, KillReturns, KillStep, Runner, To
  <2>3. /\ kills' = [kills EXCEPT ![k] = "idle"]
        /\ \/ k = "run" /\ run'.pc = "read"
           \/ k # "run" /\ run' = run
        /\ runner'.pc = "dead" /\ runner'.term = FALSE
    BY <1>a, <2>2 DEF SandboxTypes, RunRecord, RunnerRecord
  <2> QED
    BY <1>0, <2>1, <2>3
       DEF StaysOrderly, NothingYet, KillsByReason, GoneAtTheEnd, UnkilledWasLeftAlone,
           Gone, At, Idles, Killers
<1>24. ASSUME NEW k \in Killers, StopContainer(k)
      PROVE  StaysOrderly
  <2>1. /\ kills[k] = "grace"
        /\ UNCHANGED <<rung, written, forwarded, spent, reason, signalled, report, broken>>
    BY <1>24 DEF StopContainer, KillOnly, governing, reporting
  <2>2. /\ kills' = [kills EXCEPT ![k] = "idle"]
        /\ \/ k = "run" /\ run' = [run EXCEPT !.pc = "read"]
           \/ k # "run" /\ run' = run
        /\ \E c : runner' = [runner EXCEPT !.pc = "dead", !.term = FALSE, !.code = c]
    BY <1>24 DEF StopContainer, KillReturns, KillStep, Runner, To
  <2>3. /\ kills' = [kills EXCEPT ![k] = "idle"]
        /\ \/ k = "run" /\ run'.pc = "read"
           \/ k # "run" /\ run' = run
        /\ runner'.pc = "dead" /\ runner'.term = FALSE
    BY <1>a, <2>2 DEF SandboxTypes, RunRecord, RunnerRecord
  <2> QED
    BY <1>0, <2>1, <2>3
       DEF StaysOrderly, NothingYet, KillsByReason, GoneAtTheEnd, UnkilledWasLeftAlone,
           Gone, At, Idles, Killers
<1>25. CASE UNCHANGED sandboxVars
  BY <1>0, <1>a, FieldsMove, <1>25
     DEF sandboxVars, NothingYet, KillsByReason, GoneAtTheEnd,
         UnkilledWasLeftAlone, Gone, At, Idles, StaysOrderly
<1>26. CASE RunStep
  BY <1>2, <1>3, <1>4, <1>5, <1>6, <1>7, <1>8, <1>9, <1>10, <1>11, <1>12, <1>13, <1>14,
     <1>26
     DEF RunStep
<1>27. ASSUME NEW k \in Killers, KillNext(k)
       PROVE  StaysOrderly
  BY <1>18, <1>19, <1>20, <1>21, <1>22, <1>23, <1>24, <1>27 DEF KillNext
<1> QED
  BY <1>1, <1>15, <1>16, <1>17, <1>25, <1>26, <1>27 DEF SandboxNext, Watchdog

(* The log grows by the line that is read, and what was written by a line  *)
(* at its end.                                                             *)
LEMMA LogStep ==
  ASSUME SandboxInv, [SandboxNext]_sandboxVars
  PROVE  LogIsPrefix'
<1>0. /\ SandboxTypes /\ KillsByReason /\ GoneAtTheEnd /\ LogIsPrefix
      /\ written \in Seq(Lines) /\ forwarded \in Seq(Lines)
      /\ Len(written) \in Nat /\ Len(forwarded) \in Nat
  BY LenProperties DEF SandboxInv, SandboxTypes
<1>1. CASE RunnerNext
  <2>1. /\ UNCHANGED <<run, forwarded, broken>> /\ ~Gone
        /\ written' = written \/ \E l \in Lines : written' = Append(written, l)
    BY <1>0, <1>1, RunnerSteps
  <2>2. ~(run.pc \in {"wait", "report", "return", "done"} /\ ~broken)
    BY <1>0, <2>1 DEF GoneAtTheEnd
  <2>3. /\ Len(written) <= Len(written')
        /\ \A i \in 1 .. Len(written) : written'[i] = written[i]
    <3>1. CASE written' = written
      BY <1>0, <3>1
    <3>2. ASSUME NEW l \in Lines, written' = Append(written, l)
          PROVE  <2>3!1 /\ <2>3!2
      BY <1>0, <3>2, AppendProperties
    <3> QED
      BY <2>1, <3>1, <3>2
  <2> QED
    BY <1>0, <2>1, <2>2, <2>3, LenProperties DEF LogIsPrefix
<1>2. CASE ReadLine
  <2>1. /\ Len(forwarded) < Len(written)
        /\ written[Len(forwarded) + 1] \in Lines
        /\ forwarded' = Append(forwarded, written[Len(forwarded) + 1])
        /\ UNCHANGED <<written, broken>>
        /\ run'.pc = "observe"
    BY <1>0, <1>2, ReadsNext
       DEF ReadLine, LogIsPrefix, piping, reporting, SandboxTypes, RunRecord
  <2>2. /\ Len(forwarded') = Len(forwarded) + 1
        /\ forwarded'[Len(forwarded) + 1] = written[Len(forwarded) + 1]
        /\ \A i \in 1 .. Len(forwarded) : forwarded'[i] = forwarded[i]
    BY <1>0, <2>1, AppendProperties
  <2> QED
    BY <1>0, <2>1, <2>2 DEF LogIsPrefix
<1>3. CASE Observe
  <2>1. UNCHANGED <<written, forwarded, broken>> /\ run'.pc \in {"kill", "read"}
    BY <1>0, <1>3 DEF Observe, To, piping, reporting, SandboxTypes, RunRecord
  <2> QED
    BY <1>0, <2>1 DEF LogIsPrefix
<1>4. CASE Idles
  BY <1>0, <1>4 DEF Idles, LogIsPrefix
<1> QED
  BY <1>1, <1>2, <1>3, <1>4, ControlStep DEF StaysOrderly

(* The model calls among one line more.                                    *)
LEMMA OneLineMore ==
  ASSUME NEW s \in Seq(Lines), NEW l \in Lines
  PROVE  /\ IsFiniteSet(ModelCallsIn(s)) /\ Cardinality(ModelCallsIn(s)) \in Nat
         /\ Cardinality(ModelCallsIn(Append(s, l))) =
              Cardinality(ModelCallsIn(s)) + (IF l = "model" THEN 1 ELSE 0)
<1>1. /\ Len(s) \in Nat /\ Len(Append(s, l)) = Len(s) + 1 /\ Append(s, l)[Len(s) + 1] = l
      /\ \A i \in 1 .. Len(s) : Append(s, l)[i] = s[i]
  BY LenProperties, AppendProperties
<1>2. IsFiniteSet(ModelCallsIn(s)) /\ Cardinality(ModelCallsIn(s)) \in Nat
  <2>1. IsFiniteSet(1 .. Len(s)) /\ ModelCallsIn(s) \subseteq 1 .. Len(s)
    BY <1>1, FS_Interval DEF ModelCallsIn
  <2>2. IsFiniteSet(ModelCallsIn(s))
    BY <2>1, FS_Subset
  <2> QED
    BY <2>2, FS_CardinalityType
<1>3. Len(s) + 1 \notin ModelCallsIn(s)
  BY <1>1 DEF ModelCallsIn
<1>4. CASE l = "model"
  <2>1. ModelCallsIn(Append(s, l)) = ModelCallsIn(s) \cup {Len(s) + 1}
    BY <1>1, <1>4 DEF ModelCallsIn
  <2> QED
    BY <1>2, <1>3, <1>4, <2>1, FS_AddElement
<1>5. CASE l # "model"
  <2>1. ModelCallsIn(Append(s, l)) = ModelCallsIn(s)
    BY <1>1, <1>5 DEF ModelCallsIn
  <2> QED
    BY <1>2, <1>5, <2>1
<1> QED
  BY <1>2, <1>4, <1>5

(* The calls written are those in the log and at most the lines unread.    *)
LEMMA UnreadCalls ==
  ASSUME NEW w \in Seq(Lines), NEW f \in Seq(Lines), Len(f) <= Len(w),
         \A i \in 1 .. Len(f) : f[i] = w[i]
  PROVE  Cardinality(ModelCallsIn(w)) <= Cardinality(ModelCallsIn(f)) + (Len(w) - Len(f))
<1>1. Len(w) \in Nat /\ Len(f) \in Nat
  BY LenProperties
<1>2. IsFiniteSet(ModelCallsIn(f)) /\ Cardinality(ModelCallsIn(f)) \in Nat
  BY OneLineMore DEF Lines
<1> DEFINE U == Len(f) + 1 .. Len(w)
<1>3. IsFiniteSet(U) /\ Cardinality(U) = Len(w) - Len(f)
  <2>1. /\ IsFiniteSet(U)
        /\ Cardinality(U) = IF Len(f) + 1 > Len(w) THEN 0 ELSE Len(w) - (Len(f) + 1) + 1
    <3>1. Len(f) + 1 \in Int /\ Len(w) \in Int
      BY <1>1
    <3> QED
      BY <3>1, FS_Interval
  <2> HIDE DEF U
  <2> QED
    BY <1>1, <2>1
<1>4. ModelCallsIn(w) \subseteq ModelCallsIn(f) \cup U
  BY <1>1 DEF ModelCallsIn
<1> HIDE DEF U
<1>5. /\ IsFiniteSet(ModelCallsIn(f) \cup U) /\ IsFiniteSet(ModelCallsIn(f) \cap U)
      /\ Cardinality(ModelCallsIn(f) \cup U) =
           Cardinality(ModelCallsIn(f)) + Cardinality(U) - Cardinality(ModelCallsIn(f) \cap U)
  BY <1>2, <1>3, FS_Union, FS_Intersection
<1>6. Cardinality(ModelCallsIn(w)) <= Cardinality(ModelCallsIn(f) \cup U)
  BY <1>4, <1>5, FS_Subset
<1>7. /\ Cardinality(ModelCallsIn(f) \cap U) \in Nat
      /\ Cardinality(ModelCallsIn(f) \cup U) \in Nat /\ IsFiniteSet(ModelCallsIn(w))
  BY <1>4, <1>5, FS_CardinalityType, FS_Subset
<1>8. Cardinality(ModelCallsIn(w)) \in Nat
  BY <1>7, FS_CardinalityType
<1> QED
  BY <1>1, <1>2, <1>3, <1>5, <1>6, <1>7, <1>8

(* Spending is the number of model calls written.                          *)
LEMMA SpendingIs == Spending = Cardinality(ModelCallsIn(written))
BY DEF Spending, ModelCallsIn

(* The budget.  A line is written only by a runner that lives, so with the *)
(* tokens not out, or just out and run() in kill(); a line is read only    *)
(* when they are not out or the runner has gone.                           *)
LEMMA BudgetStep ==
  ASSUME SandboxInv, [SandboxNext]_sandboxVars
  PROVE  Booked' /\ RunsOutOnce' /\ PipeHolds' /\ OverspendIsBounded'
<1>0. /\ SandboxTypes /\ KillsByReason /\ LogIsPrefix /\ Booked /\ RunsOutOnce /\ PipeHolds
      /\ written \in Seq(Lines) /\ forwarded \in Seq(Lines) /\ spent \in Nat
      /\ Len(written) \in Nat /\ Len(forwarded) \in Nat
      /\ RunTokens \in Nat /\ PipeCap \in Nat
      /\ Cardinality(ModelCallsIn(forwarded)) \in Nat /\ Cardinality(ModelCallsIn(written)) \in Nat
  BY LenProperties, SandboxAssumption, OneLineMore DEF SandboxInv, SandboxTypes, Lines
<1>1. rung = "process" => Cardinality(ModelCallsIn(written)) <= RunTokens + 1 + PipeCap
  BY SpendingIs DEF SandboxInv, OverspendIsBounded
<1>s. Spending' = Cardinality(ModelCallsIn(written'))
  BY DEF Spending, ModelCallsIn
<1>2. CASE RunnerNext
  <2>1. /\ UNCHANGED <<rung, run, forwarded, spent>> /\ ~Gone
        /\ \/ written' = written
           \/ HasRoom /\ \E l \in Lines : written' = Append(written, l)
    BY <1>0, <1>2, RunnerSteps
  <2>2. Booked'
    BY <1>0, <2>1 DEF Booked, Looking, At
  <2>3. spent + Looking <= RunTokens + 1
    BY <1>0, <2>1 DEF RunsOutOnce, Looking, At
  <2>4. RunsOutOnce'
    BY <1>0, <2>1 DEF RunsOutOnce, At
  <2>5. CASE written' = written
    BY <1>0, <1>1, <1>s, <2>1, <2>2, <2>4, <2>5 DEF PipeHolds, OverspendIsBounded
  <2>6. ASSUME NEW l \in Lines, HasRoom, written' = Append(written, l)
        PROVE  PipeHolds' /\ OverspendIsBounded'
    <3>1. /\ Len(written') = Len(written) + 1 /\ written' \in Seq(Lines)
          /\ \A i \in 1 .. Len(written) : written'[i] = written[i]
      BY <1>0, <2>6, AppendProperties
    <3>2. rung = "process" => Len(written) - Len(forwarded) < PipeCap
      BY <1>0, <2>6, ReadsNext DEF HasRoom, LogIsPrefix
    <3>3. /\ Len(forwarded) <= Len(written')
          /\ \A i \in 1 .. Len(forwarded) : forwarded[i] = written'[i]
      BY <1>0, <3>1 DEF LogIsPrefix
    <3>4. Cardinality(ModelCallsIn(written')) <=
            Cardinality(ModelCallsIn(forwarded)) + (Len(written') - Len(forwarded))
      BY <1>0, <3>1, <3>3, UnreadCalls
    <3>5. Cardinality(ModelCallsIn(written')) \in Nat
      BY <3>1, OneLineMore DEF Lines
    <3>6. Cardinality(ModelCallsIn(forwarded)) <= RunTokens + 1
      BY <1>0, <2>3 DEF Booked, Looking
    <3>7. PipeHolds'
      BY <1>0, <2>1, <3>1, <3>2 DEF PipeHolds
    <3>8. rung = "process" => Cardinality(ModelCallsIn(written')) <= RunTokens + 1 + PipeCap
      BY <1>0, <3>1, <3>2, <3>4, <3>5, <3>6
    <3> QED
      BY <1>s, <2>1, <3>7, <3>8 DEF OverspendIsBounded
  <2> QED
    BY <2>1, <2>2, <2>4, <2>5, <2>6
<1>3. CASE ReadLine
  <2> DEFINE l == written[Len(forwarded) + 1]
  <2>1. /\ l \in Lines /\ forwarded' = Append(forwarded, l) /\ Len(forwarded) < Len(written)
        /\ UNCHANGED <<rung, runner, written, spent>>
        /\ run.pc = "read" /\ run'.pc = "observe" /\ run'.line = l
    BY <1>0, <1>3, ReadsNext
       DEF ReadLine, LogIsPrefix, piping, reporting, governing, SandboxTypes, RunRecord, At
  <2> HIDE DEF l
  <2>2. /\ Len(forwarded') = Len(forwarded) + 1
        /\ Cardinality(ModelCallsIn(forwarded')) =
             Cardinality(ModelCallsIn(forwarded)) + (IF l = "model" THEN 1 ELSE 0)
    BY <1>0, <2>1, AppendProperties, OneLineMore
  <2>3. Booked'
    BY <1>0, <2>1, <2>2 DEF Booked, Looking, At
  <2>4. RunsOutOnce'
    BY <1>0, <2>1 DEF RunsOutOnce, At, Gone
  <2>5. PipeHolds'
    BY <1>0, <2>1, <2>2 DEF PipeHolds
  <2>6. OverspendIsBounded'
    BY <1>1, <1>s, <2>1 DEF OverspendIsBounded
  <2> QED
    BY <2>3, <2>4, <2>5, <2>6
<1>4. CASE Observe
  <2>1. /\ UNCHANGED <<rung, runner, written, forwarded>>
        /\ run.pc = "observe" /\ spent' = spent + Looking
        /\ \/ run'.pc = "kill"
           \/ run'.pc = "read" /\ ~Exceeds(run.line)
    BY <1>0, <1>4 DEF Observe, To, piping, reporting, At, Looking, SandboxTypes, RunRecord
  <2>2. Looking \in {0, 1} /\ (run'.pc = "read" /\ Looking = 1 => spent' <= RunTokens)
    BY <1>0, <2>1 DEF Looking, Exceeds, At
  <2>3. Booked'
    BY <1>0, <2>1, <2>2 DEF Booked, Looking, At
  <2>4. RunsOutOnce'
    BY <1>0, <2>1, <2>2 DEF RunsOutOnce, At, Gone
  <2>5. PipeHolds' /\ OverspendIsBounded'
    BY <1>0, <1>1, <1>s, <2>1 DEF PipeHolds, OverspendIsBounded
  <2> QED
    BY <2>3, <2>4, <2>5
<1>5. CASE Idles
  <2>1. /\ UNCHANGED <<rung, written, forwarded, spent>>
        /\ run' = run \/ (run.pc # "observe" /\ run'.pc # "observe")
        /\ spent > RunTokens => (Gone => Gone') /\ (At("kill") => At("kill")' \/ Gone')
    BY <1>5 DEF Idles
  <2>2. Booked'
    BY <1>0, <2>1 DEF Booked, Looking, At
  <2>3. RunsOutOnce'
    BY <1>0, <2>1 DEF RunsOutOnce
  <2>4. PipeHolds' /\ OverspendIsBounded'
    BY <1>0, <1>1, <1>s, <2>1 DEF PipeHolds, OverspendIsBounded
  <2> QED
    BY <2>2, <2>3, <2>4
<1> QED
  BY <1>2, <1>3, <1>4, <1>5, ControlStep DEF StaysOrderly

---------------------------------------------------------------------------
(* The invariant holds initially.                                          *)
LEMMA SandboxBegins ==
  ASSUME SandboxInit
  PROVE  SandboxInv
<1>1. /\ written = <<>> /\ forwarded = <<>> /\ Len(<<>>) = 0 /\ <<>> \in Seq(Lines)
      /\ rung \in {"process", "docker"} /\ RunTokens \in Nat /\ PipeCap \in Nat /\ ErrCap \in Nat
  BY SandboxAssumption DEF SandboxInit
<1>2. SandboxTypes
  <2>1. run \in RunRecord /\ runner \in RunnerRecord /\ watch \in WatchRecord
    BY <1>1 DEF SandboxInit, RunRecord, RunnerRecord, WatchRecord
  <2> QED
    <3>1. /\ err \in 0 .. ErrCap /\ spent \in Nat /\ seen \in [Tools -> Nat]
          /\ kills \in [Killers -> {"idle", "lock", "poll", "mark", "term", "grace"}]
      BY <1>1 DEF SandboxInit
    <3> QED
      BY <1>1, <2>1, <3>1 DEF SandboxInit, SandboxTypes
<1>3. NothingYet /\ KillsByReason /\ GoneAtTheEnd /\ RunsOutOnce
  <2>1. /\ run.pc = "new" /\ runner.pc = "none" /\ runner.term = FALSE /\ watch.pc = "off"
        /\ \A k \in Killers : kills[k] = "idle"
    BY DEF SandboxInit
  <2> QED
    BY <1>1, <2>1
       DEF SandboxInit, NothingYet, KillsByReason, GoneAtTheEnd, UnkilledWasLeftAlone,
                      RunsOutOnce, Gone, None, Killers
<1>4. LogIsPrefix /\ PipeHolds
  BY <1>1 DEF SandboxInit, LogIsPrefix, PipeHolds
<1>5. ModelCallsIn(<<>>) = {} /\ Cardinality(ModelCallsIn(<<>>)) = 0
  BY <1>1, FS_EmptySet DEF ModelCallsIn
<1>6. Booked /\ OverspendIsBounded
  BY <1>1, <1>5, SpendingIs DEF SandboxInit, Booked, Looking, At, OverspendIsBounded
<1> QED
  BY <1>2, <1>3, <1>4, <1>6 DEF SandboxInv

(* Every reachable state satisfies it.                                     *)
LEMMA SandboxHolds == SandboxSpec => []SandboxInv
<1>1. SandboxInv /\ [SandboxNext]_sandboxVars => SandboxInv'
  BY TypesStep, ControlStep, LogStep, BudgetStep DEF StaysOrderly, SandboxInv
<1> QED
  BY <1>1, SandboxBegins, PTL DEF SandboxSpec

(* UnkilledWasLeftAlone: whatever is not reported killed was never         *)
(* signalled by the governor, the detector or the watchdog.                *)
THEOREM UnkilledWereLeftAlone == SandboxSpec => []UnkilledWasLeftAlone
<1>1. SandboxInv => UnkilledWasLeftAlone
  BY DEF SandboxInv, GoneAtTheEnd
<1> QED
  BY <1>1, SandboxHolds, PTL

(* EveryLineIsLogged: what was written before a run ended is in its log,   *)
(* in its order, unless the stream of a container broke off.               *)
THEOREM EveryLineGetsLogged == SandboxSpec => []EveryLineIsLogged
<1>1. ASSUME SandboxInv
      PROVE  EveryLineIsLogged
  <2>1. SUFFICES ASSUME run.pc \in {"wait", "report", "return", "done"} /\ ~broken
                 PROVE  forwarded = written
    BY DEF EveryLineIsLogged
  <2>2. /\ Len(forwarded) = Len(written)
        /\ \A i \in 1 .. Len(forwarded) : forwarded[i] = written[i]
    BY <1>1, <2>1 DEF SandboxInv, LogIsPrefix
  <2> QED
    BY <1>1, <2>2, SeqEqual DEF SandboxInv, SandboxTypes
<1> QED
  BY <1>1, SandboxHolds, PTL

(* OverspendIsBounded: the calls that a process pays for beyond its budget *)
(* are one and those its pipe holds.                                       *)
THEOREM OverspendStaysBounded == SandboxSpec => []OverspendIsBounded
<1>1. SandboxInv => OverspendIsBounded
  BY DEF SandboxInv
<1> QED
  BY <1>1, SandboxHolds, PTL

============================
