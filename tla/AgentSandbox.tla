---------------------------- MODULE AgentSandbox ----------------------------
(***************************************************************************)
(* One agent in a sandbox under live governance: Orchestrator.start_run    *)
(* (src/plnt/control/orchestrator.py) with its budget governor and loop    *)
(* detector, over ProcessSandbox or DockerSandbox                          *)
(* (src/plnt/execution/sandbox/), and the runner inside                    *)
(* (src/plnt/execution/runner.py).                                         *)
(*                                                                         *)
(* Three threads of control meet: run() reads the runner's lines and may   *)
(* kill it between two of them, reading nothing while it does; a watchdog  *)
(* kills it when its time is up; the runner works, blocks on a full pipe,  *)
(* or ends by itself.  Time is the choice of when the watchdog's deadline  *)
(* and the grace of a kill are over.                                       *)
(***************************************************************************)
EXTENDS Naturals, Sequences, FiniteSets

CONSTANTS
  Rungs,      \* "process" and "docker"
  Tools,      \* signatures of tool calls
  PipeCap,    \* lines the stdout pipe of a process holds
  ErrCap,     \* writes its stderr pipe holds, which nobody reads meanwhile
  RunTokens,  \* tokens of the run; a model call costs one
  Repeats,    \* ACCMonitor.LOOP_THRESHOLD
  MaxCalls    \* bound on the model and tool calls of the runner

ASSUME SandboxAssumption ==
  /\ Rungs \subseteq {"process", "docker"}
  /\ PipeCap \in Nat \ {0} /\ ErrCap \in Nat /\ RunTokens \in Nat
  /\ Repeats \in Nat \ {0} /\ MaxCalls \in Nat

VARIABLES
  rung,
  run,       \* where run() is: pc, the line it looks at, the last output, exit code
  runner,    \* the child: pc, lines it is going to write before it exits, its
             \* exit code, a pending SIGTERM
  written,   \* history: the lines the runner wrote
  forwarded, \* the runner's lines in the run's event log
  err,       \* writes in the stderr pipe
  spent, seen,  \* the governor's tokens, the detector's counts
  kills,     \* progress of kill() in each thread that may call it
  holder,    \* of _kill_lock
  reason,    \* _kill_reason
  watch,     \* the watchdog, and the event that stops it
  report,    \* status in the finished event
  signalled, \* history: a signal reached a living runner
  broken     \* history: the stream of a container's log broke off

sandboxVars == <<rung, run, runner, written, forwarded, err, spent, seen, kills,
                 holder, reason, watch, report, signalled, broken>>

Killers == {"run", "watchdog"}
Work    == {"model"} \cup Tools
None    == "none"

SandboxInit ==
  /\ rung \in Rungs
  /\ run = [pc |-> "new", line |-> None, output |-> None, code |-> 0]
  /\ runner = [pc |-> "none", todo |-> <<>>, code |-> 0, term |-> FALSE]
  /\ written = <<>> /\ forwarded = <<>> /\ err = 0
  /\ spent = 0 /\ seen = [t \in Tools |-> 0]
  /\ kills = [k \in Killers |-> "idle"] /\ holder = None /\ reason = None
  /\ watch = [pc |-> "off", stop |-> FALSE]
  /\ report = None /\ signalled = FALSE /\ broken = FALSE

At(pc)   == run.pc = pc
To(pc)   == run' = [run EXCEPT !.pc = pc]
Unread   == SubSeq(written, Len(forwarded) + 1, Len(written))
Exited   == runner.pc = "dead"
Ended    == run.pc \in {"done", "raised", "refused"}
HasRoom  == rung = "docker" \/ Len(Unread) < PipeCap
Calls    == Cardinality({i \in 1 .. Len(written) : written[i] \in Work})
Spending == Cardinality({i \in 1 .. Len(written) : written[i] = "model"})

governing == <<spent, seen>>
killing   == <<kills, holder, reason, signalled>>
reporting == <<report, broken>>
piping    == <<written, err>>

---------------------------------------------------------------------------
(* The runner: main() around run_spec().                                   *)

Runner(r)  == runner' = r
Write(l)   == HasRoom /\ written' = Append(written, l)
RunnerOnly == UNCHANGED <<rung, run, forwarded, governing, killing, watch, reporting>>

(* The specification is read from stdin and "started" is the first line.   *)
RunnerStarts ==
  /\ runner.pc = "boot" /\ ~runner.term
  /\ Write("started") /\ Runner([runner EXCEPT !.pc = "work"])
  /\ RunnerOnly /\ UNCHANGED err

(* A model call or a tool call of the loop, each followed by its event.    *)
RunnerCalls ==
  /\ runner.pc = "work" /\ ~runner.term /\ Calls < MaxCalls
  /\ \E l \in Work : Write(l)
  /\ RunnerOnly /\ UNCHANGED <<runner, err>>

(* Warnings go to stderr, a pipe only of a process; when it is full, or in *)
(* a call that does not come back, the runner is stuck.                    *)
RunnerWarns ==
  /\ runner.pc = "work" /\ rung = "process" /\ err < ErrCap
  /\ err' = err + 1
  /\ RunnerOnly /\ UNCHANGED <<runner, written>>

RunnerSticks ==
  /\ runner.pc = "work"
  /\ Runner([runner EXCEPT !.pc = "stuck"])
  /\ RunnerOnly /\ UNCHANGED piping

Ending(lines, code) ==
  Runner([pc |-> "ending", todo |-> lines, code |-> code, term |-> FALSE])

(* Every outcome of the skill is a result with an answer: the model's, or  *)
(* a summary of the transcript when it failed or the steps ran out.        *)
RunnerAnswers ==
  /\ runner.pc = "work" /\ ~runner.term
  /\ Ending(<<"result", "finished">>, 0)
  /\ RunnerOnly /\ UNCHANGED piping

(* The outermost handler turns an exception into an error and a result.    *)
RunnerRaises ==
  /\ runner.pc = "work" /\ ~runner.term
  /\ Ending(<<"error", "result", "finished">>, 1)
  /\ RunnerOnly /\ UNCHANGED piping

RunnerEnds ==
  /\ runner.pc = "ending" /\ ~runner.term
  /\ IF runner.todo = <<>>
     THEN Runner([runner EXCEPT !.pc = "dead"]) /\ UNCHANGED written
     ELSE Write(Head(runner.todo)) /\ Runner([runner EXCEPT !.todo = Tail(@)])
  /\ RunnerOnly /\ UNCHANGED err

(* SIGTERM.  Before the handler is installed it is fatal.  The handler     *)
(* reports what there is and exits, which runs the finally as well; when   *)
(* it interrupts a write to the full pipe its own write is refused as a    *)
(* re-entrant one, and the outermost handler takes over.                   *)
RunnerTerminated ==
  /\ runner.term
  /\ CASE runner.pc \in {"fork", "boot"} ->
            Runner([runner EXCEPT !.pc = "dead", !.code = 15, !.term = FALSE])
       [] runner.pc \in {"work", "stuck", "ending"} ->
            \/ /\ runner.pc = "work" /\ Calls = 0
               /\ Runner([runner EXCEPT !.pc = "dead", !.code = 15, !.term = FALSE])
            \/ Ending(<<"partial", "finished", "finished">>, 143)
            \/ ~HasRoom /\ Ending(<<"error", "result", "finished">>, 1)
  /\ RunnerOnly /\ UNCHANGED piping

(* It dies on its own: a failing import, the memory limit, the CPU limit.  *)
RunnerDies ==
  /\ runner.pc \notin {"none", "dead"}
  /\ Runner([runner EXCEPT !.pc = "dead", !.code = 9, !.term = FALSE])
  /\ RunnerOnly /\ UNCHANGED piping

---------------------------------------------------------------------------
(* run().                                                                  *)

(* check_spawn, in start_run.                                              *)
Launch(tokens) ==
  /\ At("new")
  /\ IF tokens > RunTokens THEN To("refused") ELSE To("start")
  /\ UNCHANGED <<rung, runner, piping, forwarded, governing, killing, watch, reporting>>

(* A process that does not start raises.                                   *)
StartProcess ==
  /\ At("start") /\ rung = "process"
  /\ \/ To("send") /\ Runner([runner EXCEPT !.pc = "fork"])
     \/ To("raised") /\ UNCHANGED runner
  /\ UNCHANGED <<rung, piping, forwarded, governing, killing, watch, reporting>>

(* A container that cannot be created is an error and a finished.          *)
CreateContainer ==
  /\ At("start") /\ rung = "docker"
  /\ \/ To("send") /\ Runner([runner EXCEPT !.pc = "fork"]) /\ UNCHANGED report
     \/ run' = [run EXCEPT !.pc = "done", !.code = 1] /\ report' = "ok" /\ UNCHANGED runner
  /\ UNCHANGED <<rung, piping, forwarded, governing, killing, watch, broken>>

(* The specification goes to stdin and the watchdog starts.  A process     *)
(* that has died breaks the pipe, and the exception leaves run().          *)
SendSpec ==
  /\ At("send") /\ rung = "process"
  /\ IF Exited THEN To("raised") /\ UNCHANGED <<runner, watch>>
     ELSE To("read") /\ Runner([runner EXCEPT !.pc = "boot"]) /\ watch' = [watch EXCEPT !.pc = "armed"]
  /\ UNCHANGED <<rung, piping, forwarded, governing, killing, reporting>>

(* Of a container every error is logged, and the reading starts anyway.    *)
StartContainer ==
  /\ At("send") /\ rung = "docker" /\ To("read")
  /\ \/ Runner([runner EXCEPT !.pc = IF Exited THEN "dead" ELSE "boot"])
     \/ Runner([runner EXCEPT !.pc = "dead", !.code = 1])
  /\ watch' = [watch EXCEPT !.pc = "armed"]
  /\ UNCHANGED <<rung, piping, forwarded, governing, killing, reporting>>

(* Each line goes to the log before anybody looks at it.                   *)
ReadLine ==
  /\ At("read") /\ Unread # <<>>
  /\ LET l == Head(Unread) IN
     /\ forwarded' = Append(forwarded, l)
     /\ run' = [run EXCEPT !.pc = "observe", !.line = l,
                           !.output = IF l \in {"result", "partial"} THEN l ELSE @]
  /\ UNCHANGED <<rung, runner, piping, governing, killing, watch, reporting>>

(* Variant: the tokens are compared before the new ones are added.         *)
ExceedsBefore(l) ==
  \/ l = "model" /\ spent > RunTokens
  \/ l \in Tools /\ seen[l] + 1 >= Repeats

(* The run's budget is exceeded, or a tool call repeated too often.        *)
Exceeds(l) ==
  \/ l = "model" /\ spent + 1 > RunTokens
  \/ l \in Tools /\ seen[l] + 1 >= Repeats

(* on_event: the detector counts, the governor books; either may call      *)
(* kill(), in this thread.                                                 *)
Observe ==
  /\ At("observe")
  /\ LET l == run.line IN
     /\ spent' = IF l = "model" THEN spent + 1 ELSE spent
     /\ seen'  = IF l \in Tools THEN [seen EXCEPT ![l] = @ + 1] ELSE seen
     /\ IF Exceeds(l) THEN To("kill") /\ kills' = [kills EXCEPT !["run"] = "lock"]
        ELSE To("read") /\ UNCHANGED kills
  /\ UNCHANGED <<rung, runner, piping, forwarded, holder, reason, signalled, watch, reporting>>

(* Variant: reading ends with the runner, not with its pipe.               *)
StopsWithRunner ==
  /\ At("read") /\ Exited /\ To("wait")
  /\ UNCHANGED <<rung, runner, piping, forwarded, governing, killing, watch, reporting>>

(* The end of the stream: the runner has gone and its pipe is empty.       *)
EndOfStream ==
  /\ At("read") /\ Exited /\ Unread = <<>> /\ To("wait")
  /\ UNCHANGED <<rung, runner, piping, forwarded, governing, killing, watch, reporting>>

StreamBreaks ==
  /\ At("read") /\ rung = "docker" /\ To("wait") /\ broken' = TRUE
  /\ UNCHANGED <<rung, runner, piping, forwarded, governing, killing, watch, report>>

(* The exit code; then the watchdog is told to stop.                       *)
Wait ==
  /\ At("wait") /\ rung = "process" /\ Exited
  /\ run' = [run EXCEPT !.pc = "report", !.code = runner.code]
  /\ watch' = [watch EXCEPT !.stop = TRUE]
  /\ UNCHANGED <<rung, runner, piping, forwarded, governing, killing, reporting>>

(* A container is waited for only so long; then it is removed.             *)
WaitContainer ==
  /\ At("wait") /\ rung = "docker"
  /\ run' = [run EXCEPT !.pc = "report", !.code = IF Exited THEN runner.code ELSE 1]
  /\ Runner([runner EXCEPT !.pc = "dead", !.term = FALSE])
  /\ watch' = [watch EXCEPT !.stop = TRUE]
  /\ UNCHANGED <<rung, piping, forwarded, governing, killing, reporting>>

(* The finished event.  A clean exit without files and without a result is *)
(* silent.                                                                 *)
Report(files) ==
  /\ At("report") /\ rung = "process" /\ To("return")
  /\ report' = IF reason # None THEN "killed"
               ELSE IF run.code = 0 /\ ~files /\ run.output = None THEN "silent" ELSE "ok"
  /\ UNCHANGED <<rung, runner, piping, forwarded, governing, killing, watch, broken>>

ReportContainer ==
  /\ At("report") /\ rung = "docker" /\ To("return")
  /\ report' = IF reason # None THEN "killed" ELSE "ok"
  /\ UNCHANGED <<rung, runner, piping, forwarded, governing, killing, watch, broken>>

Return ==
  /\ At("return") /\ To("done")
  /\ UNCHANGED <<rung, runner, piping, forwarded, governing, killing, watch, reporting>>

---------------------------------------------------------------------------
(* kill(), in either thread.                                               *)

KillStep(k, pc) == kills' = [kills EXCEPT ![k] = pc]
KillOnly == UNCHANGED <<rung, written, forwarded, err, governing, reporting>>

(* Back to the line after the one that was looked at; the watchdog ends.   *)
KillReturns(k) ==
  /\ holder' = None /\ KillStep(k, "idle")
  /\ IF k = "run" THEN To("read") /\ UNCHANGED watch
     ELSE watch' = [watch EXCEPT !.pc = "over"] /\ UNCHANGED run

KillLocks(k) ==
  /\ kills[k] = "lock" /\ holder = None
  /\ holder' = k /\ KillStep(k, "poll")
  /\ KillOnly /\ UNCHANGED <<run, runner, reason, signalled, watch>>

(* A process that has exited, or been forgotten, is left alone.            *)
KillPolls(k) ==
  /\ kills[k] = "poll" /\ rung = "process"
  /\ IF Exited \/ Ended THEN KillReturns(k)
     ELSE KillStep(k, "mark") /\ UNCHANGED <<run, holder, watch>>
  /\ KillOnly /\ UNCHANGED <<runner, reason, signalled>>

(* Of a container nothing is asked but that it has been created.           *)
KillFinds(k) ==
  /\ kills[k] = "poll" /\ rung = "docker" /\ KillStep(k, "mark")
  /\ KillOnly /\ UNCHANGED <<run, runner, holder, reason, signalled, watch>>

(* Variant: the reason is noted when the signal has been sent.             *)
KillSignalsFirst(k) ==
  /\ kills[k] = "mark"
  /\ KillStep(k, "grace")
  /\ Runner([runner EXCEPT !.term = runner.pc \notin {"none", "dead"}])
  /\ signalled' = (signalled \/ runner.pc \notin {"none", "dead"})
  /\ KillOnly /\ UNCHANGED <<run, holder, reason, watch>>

(* The reason first, with the killed event, and the signal after it.       *)
KillMarks(k) ==
  /\ kills[k] = "mark"
  /\ reason' = k /\ KillStep(k, "term")
  /\ KillOnly /\ UNCHANGED <<run, runner, holder, signalled, watch>>

KillTerminates(k) ==
  /\ kills[k] = "term" /\ KillStep(k, "grace")
  /\ IF runner.pc \in {"none", "dead"} THEN UNCHANGED <<runner, signalled>>
     ELSE Runner([runner EXCEPT !.term = TRUE]) /\ signalled' = TRUE
  /\ KillOnly /\ UNCHANGED <<run, holder, reason, watch>>

(* Variant: SIGTERM and nothing after it.                                  *)
KillOnlyAsks(k) ==
  /\ kills[k] = "grace" /\ KillReturns(k)
  /\ KillOnly /\ UNCHANGED <<runner, reason, signalled>>

(* It exits within five seconds, or is killed.                             *)
KillWaits(k) ==
  /\ kills[k] = "grace" /\ rung = "process" /\ KillReturns(k)
  /\ Runner([runner EXCEPT !.pc = "dead", !.term = FALSE, !.code = IF Exited THEN @ ELSE 9])
  /\ KillOnly /\ UNCHANGED <<reason, signalled>>

(* stop() does the same for a container, which is removed as well.         *)
StopContainer(k) ==
  /\ kills[k] = "grace" /\ rung = "docker" /\ KillReturns(k)
  /\ Runner([runner EXCEPT !.pc = "dead", !.term = FALSE, !.code = IF Exited THEN @ ELSE 9])
  /\ KillOnly /\ UNCHANGED <<reason, signalled>>

WatchdogFires ==
  /\ watch.pc = "armed" /\ ~watch.stop
  /\ watch' = [watch EXCEPT !.pc = "firing"] /\ KillStep("watchdog", "lock")
  /\ KillOnly /\ UNCHANGED <<run, runner, holder, reason, signalled>>

WatchdogStops ==
  /\ watch.pc = "armed" /\ watch.stop
  /\ watch' = [watch EXCEPT !.pc = "over"]
  /\ KillOnly /\ UNCHANGED <<run, runner, kills, holder, reason, signalled>>

---------------------------------------------------------------------------
RunnerNext == RunnerStarts \/ RunnerCalls \/ RunnerWarns \/ RunnerSticks \/ RunnerAnswers
              \/ RunnerRaises \/ RunnerEnds \/ RunnerTerminated \/ RunnerDies
RunStep  == \/ \E n \in {RunTokens, RunTokens + 1} : Launch(n)
            \/ StartProcess \/ CreateContainer \/ SendSpec \/ StartContainer
            \/ ReadLine \/ Observe \/ EndOfStream \/ Wait \/ WaitContainer
            \/ \E f \in BOOLEAN : Report(f)
            \/ ReportContainer \/ Return
KillNext(k) == \/ KillLocks(k) \/ KillPolls(k) \/ KillFinds(k) \/ KillMarks(k)
               \/ KillTerminates(k) \/ KillWaits(k) \/ StopContainer(k)
Watchdog    == WatchdogFires \/ WatchdogStops

SandboxNext == RunnerNext \/ RunStep \/ StreamBreaks \/ Watchdog \/ \E k \in Killers : KillNext(k)

(* The threads of the orchestrator go on and deadlines pass.  Nothing is   *)
(* asked of the runner.                                                    *)
SandboxSpec ==
  /\ SandboxInit /\ [][SandboxNext]_sandboxVars
  /\ WF_sandboxVars(RunStep) /\ WF_sandboxVars(Watchdog)
  /\ \A k \in Killers : WF_sandboxVars(KillNext(k))

---------------------------------------------------------------------------

(* process.py, docker.py: a run that is not reported killed was never      *)
(* signalled: whatever ended it, it was not the governor, the detector or  *)
(* the watchdog.                                                           *)
UnkilledWasLeftAlone == report \in {"ok", "silent"} => ~signalled

(* The event log holds every line the runner wrote, in its order, also of  *)
(* a runner killed between two of them; only a broken stream of a          *)
(* container may lose some.                                                *)
EveryLineIsLogged ==
  run.pc \in {"wait", "report", "return", "done"} /\ ~broken => forwarded = written

(* orchestrator.py: the calls a process reports exceed the run's tokens by *)
(* one, and by what its pipe holds while kill() keeps run() from reading.  *)
OverspendIsBounded ==
  rung = "process" => Spending <= RunTokens + 1 + PipeCap

(* Whatever the runner does, hangs or writes, run() comes to an end.       *)
EveryRunReturns == ~At("new") ~> Ended

=============================================================================
