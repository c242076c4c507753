------------------------------- MODULE Visits -------------------------------
(***************************************************************************)
(* The public playground (src/plnt/server/playground.py): visitors open    *)
(* sessions, each on a copy of a demo workspace of its own, and send       *)
(* messages, whose tokens a thread per message books on the day's budget   *)
(* when the run is over.                                                   *)
(*                                                                         *)
(* Handlers, turns and accounting run in threads of their own.  The folder *)
(* of a session (src/plnt/tenancy/workspace.py) is swept by the handler of *)
(* another once it looks a day old; of the turn only what the accounting   *)
(* sees is kept, its events and its end.                                   *)
(***************************************************************************)
EXTENDS Naturals, Sequences, FiniteSets

CONSTANTS
  Visitors,    \* sessions
  Messages,    \* messages, one request each
  PageSize,    \* events that one query of the log returns
  DailyTokens, \* a run costs one
  MaxDays      \* bound on the midnights

ASSUME VisitAssumption ==
  /\ PageSize \in Nat \ {0} /\ DailyTokens \in Nat /\ MaxDays \in Nat

VARIABLES
  opening,  \* progress of each session's handler
  folder,   \* the session's working folder: none, part, whole or gone
  looksOld, \* its modification time is older than the sweep's limit
  isOld,    \* and so is the session
  seenOld,  \* <<session, folder>>: folders a sweep found old and will remove
  caught,   \* history: folders found old before they had their own time
  row,      \* sessions in the database
  log,      \* of each session: its events
  current,  \* the run registered last in each session, or NoRun
  rushed,   \* history: sessions where a run replaced one not yet started
  message,  \* of each message: its session and how far its handler is
  turn,     \* the thread of each message's run
  account,  \* the accounting thread: pc, cursor, run waited for, used read, and
            \* the bill: where in the page its finished runs not yet booked are
  late,     \* history: messages whose run was not over within the 300 s
  today,      \* the day
  budget,     \* day_tokens: its day, and the bookings that add up to its used,
              \* each <<accounting, run>>
  past,       \* history: what was booked on the days that are over
  overlapped  \* history: messages whose booking was written while another
              \* accounting stood between its own read and write

openVars  == <<opening, folder, looksOld, isOld, seenOld, caught, row>>
runVars   == <<log, current, rushed, message, turn>>
billVars  == <<account, late, today, budget, past, overlapped>>
spendVars == <<runVars, billVars>>
visitVars == <<openVars, spendVars>>

NoRun == "none"
ASSUME NoRunAssumption == NoRun \notin Messages

NoAccount == [pc |-> "off", cursor |-> 0, waits |-> NoRun, bill |-> {}, read |-> {}]

(* With some sessions open already.                                        *)
VisitStart(open) ==
  /\ opening = [s \in Visitors |-> IF s \in open THEN "open" ELSE "idle"]
  /\ folder = [s \in Visitors |-> IF s \in open THEN "whole" ELSE "none"] /\ row = open
  /\ looksOld = {} /\ isOld = {} /\ seenOld = {} /\ caught = {}
  /\ log = [s \in Visitors |-> <<>>] /\ current = [s \in Visitors |-> NoRun]
  /\ message = [m \in Messages |-> [pc |-> "idle", session |-> NoRun]]
  /\ turn = [m \in Messages |-> "none"] /\ account = [m \in Messages |-> NoAccount]
  /\ rushed = {} /\ late = {} /\ overlapped = {}
  /\ today = 0 /\ budget = [day |-> 0, booked |-> {}] /\ past = {}

---------------------------------------------------------------------------
(* POST /sessions: sweep_workdirs, then start_session.                     *)

OpeningStep(s, from, to) == opening[s] = from /\ opening' = [opening EXCEPT ![s] = to]

(* The limiter lets the visitor in.                                        *)
Visit(s) ==
  /\ OpeningStep(s, "idle", "sweep")
  /\ UNCHANGED <<folder, looksOld, isOld, seenOld, caught, row, spendVars>>

(* sweep_workdirs looks at the time of a folder ...                        *)
SeeOld(s, d) ==
  /\ opening[s] = "sweep" /\ folder[d] \in {"part", "whole"} /\ d \in looksOld
  /\ seenOld' = seenOld \cup {<<s, d>>}
  /\ caught' = IF opening[d] = "stamp" THEN caught \cup {d} ELSE caught
  /\ UNCHANGED <<opening, folder, looksOld, isOld, row, spendVars>>

(* ... and removes it.                                                     *)
Remove(s, d) ==
  /\ <<s, d>> \in seenOld /\ seenOld' = seenOld \ {<<s, d>>}
  /\ folder' = [folder EXCEPT ![d] = "gone"]
  /\ UNCHANGED <<opening, looksOld, isOld, caught, row, spendVars>>

(* The agents are there, and materialize makes the folder.                 *)
MakeFolder(s) ==
  /\ OpeningStep(s, "sweep", "copy") /\ \A d \in Visitors : <<s, d>> \notin seenOld
  /\ folder' = [folder EXCEPT ![s] = "part"]
  /\ UNCHANGED <<looksOld, isOld, seenOld, caught, row, spendVars>>

(* copytree ends by giving the copy the time of its source, a file of the  *)
(* distribution.                                                           *)
CopyTree(s) ==
  /\ OpeningStep(s, "copy", "stamp")
  /\ folder' = [folder EXCEPT ![s] = "whole"]
  /\ looksOld' = looksOld \cup {s}
  /\ UNCHANGED <<isOld, seenOld, caught, row, spendVars>>

(* "The copy's age must be its own"; of a folder that has gone the time    *)
(* cannot be set, which is an error.                                       *)
Stamp(s) ==
  /\ IF folder[s] = "gone" THEN OpeningStep(s, "stamp", "failed") /\ UNCHANGED looksOld
     ELSE OpeningStep(s, "stamp", "row") /\ looksOld' = looksOld \ {s}
  /\ UNCHANGED <<folder, isOld, seenOld, caught, row, spendVars>>

(* create_session_with_id, the audit line and the answer.                  *)
InsertSession(s) ==
  /\ OpeningStep(s, "row", "open") /\ row' = row \cup {s}
  /\ UNCHANGED <<folder, looksOld, isOld, seenOld, caught, spendVars>>

(* A day goes by without a change of the folder.                           *)
GrowOld(s) ==
  /\ opening[s] = "open" /\ s \notin isOld
  /\ isOld' = isOld \cup {s} /\ looksOld' = looksOld \cup {s}
  /\ UNCHANGED <<opening, folder, seenOld, caught, row, spendVars>>

---------------------------------------------------------------------------
(* POST /sessions/{sid}/messages.                                          *)

Put(m, pc, s) == message' = [message EXCEPT ![m] = [pc |-> pc, session |-> s]]
Session(m)    == message[m].session
Acc(m, a)     == account' = [account EXCEPT ![m] = a]
Append1(s, kind, m) == log' = [log EXCEPT ![s] = Append(@, [kind |-> kind, run |-> m])]
PageAfter(s, n) == {i \in DOMAIN log[s] : n < i /\ i <= n + PageSize}
FinishedIn(s, page) == {i \in page : log[s][i].kind = "run_finished"}
First(S) == CHOOSE i \in S : \A j \in S : i <= j

Booked == IF budget.day = today THEN budget.booked ELSE {}
Used   == Cardinality(Booked)

(* tokens_used_today starts anew on another day.                           *)
UsedToday ==
  /\ budget' = [day |-> today, booked |-> Booked]
  /\ past' = past \cup (budget.booked \ Booked)

Admit(m, s) ==
  /\ message[m].pc = "idle" /\ s \in row
  /\ UsedToday
  /\ Put(m, IF Used >= DailyTokens THEN "refused" ELSE "cursor", s)
  /\ UNCHANGED <<openVars, log, current, rushed, turn, account, late, today, overlapped>>

(* before = events_since(...): the cursor is the last of the first page.   *)
ReadCursor(m) ==
  /\ message[m].pc = "cursor" /\ Put(m, "send", Session(m))
  /\ LET end == Len(log[Session(m)]) IN
       Acc(m, [account[m] EXCEPT !.cursor = IF end < PageSize THEN end ELSE PageSize])
  /\ UNCHANGED <<openVars, log, current, rushed, turn, late, today, budget, past, overlapped>>

Unstarted == {"registered", "threaded"}
Alive(s) == current[s] # NoRun /\ turn[current[s]] \in {"started", "logged", "finished"}

(* send() refuses a session whose thread is alive ...                      *)
Refuse(m) ==
  /\ message[m].pc = "send" /\ Alive(Session(m))
  /\ Put(m, "refused", Session(m))
  /\ UNCHANGED <<openVars, log, current, rushed, turn, billVars>>

(* ... or registers a run under the lock, also where one is registered     *)
(* whose thread has not started yet.                                       *)
Register(m) ==
  /\ message[m].pc = "send" /\ ~Alive(Session(m))
  /\ LET s == Session(m) IN
       /\ Put(m, "sending", s)
       /\ current' = [current EXCEPT ![s] = m]
       /\ rushed' = IF current[s] # NoRun /\ turn[current[s]] \in Unstarted
                   THEN rushed \cup {s} ELSE rushed
  /\ turn' = [turn EXCEPT ![m] = "registered"]
  /\ UNCHANGED <<openVars, log, billVars>>

(* state.thread = t, the lock released ...                                 *)
SetThread(m) ==
  /\ turn[m] = "registered" /\ turn' = [turn EXCEPT ![m] = "threaded"]
  /\ UNCHANGED <<openVars, log, current, rushed, message, billVars>>

(* ... and t.start().                                                      *)
StartTurn(m) ==
  /\ turn[m] = "threaded" /\ turn' = [turn EXCEPT ![m] = "started"]
  /\ Put(m, "sent", Session(m))
  /\ UNCHANGED <<openVars, log, current, rushed, billVars>>

(* Variant: the accounting thread reads the log's end when it starts.      *)
AccountFromNow(m) ==
  /\ message[m].pc = "sent" /\ Put(m, "answered", Session(m))
  /\ Acc(m, [account[m] EXCEPT !.pc = "join", !.cursor = Len(log[Session(m)])])
  /\ UNCHANGED <<openVars, log, current, rushed, turn, late, today, budget, past, overlapped>>

StartAccount(m) ==
  /\ message[m].pc = "sent" /\ Put(m, "answered", Session(m))
  /\ Acc(m, [account[m] EXCEPT !.pc = "join"])
  /\ UNCHANGED <<openVars, log, current, rushed, turn, late, today, budget, past, overlapped>>

---------------------------------------------------------------------------
(* The turn, as far as the accounting sees it.                             *)

TurnStep(m) ==
  LET s == Session(m) IN
  /\ \/ turn[m] = "started" /\ turn' = [turn EXCEPT ![m] = "logged"] /\ Append1(s, "user_message", m)
     \/ turn[m] = "logged" /\ turn' = [turn EXCEPT ![m] = "finished"] /\ Append1(s, "run_finished", m)
     \/ turn[m] = "finished" /\ turn' = [turn EXCEPT ![m] = "dead"] /\ UNCHANGED log
  /\ UNCHANGED <<openVars, current, rushed, message, billVars>>

---------------------------------------------------------------------------
(* account().                                                              *)

(* executor.wait looks up the session's run of the moment: one without a   *)
(* thread is not waited for, and join() raises for a thread that has not   *)
(* started, which ends the accounting ...                                  *)
Join(m) ==
  /\ account[m].pc = "join"
  /\ LET run == current[Session(m)] IN
       \/ turn[run] = "registered" /\ Acc(m, [account[m] EXCEPT !.pc = "events"])
       \/ turn[run] = "threaded" /\ Acc(m, [account[m] EXCEPT !.pc = "failed"])
       \/ turn[run] \notin Unstarted /\ Acc(m, [account[m] EXCEPT !.pc = "wait", !.waits = run])
  /\ UNCHANGED <<openVars, runVars, late, today, budget, past, overlapped>>

(* ... and joins its thread, for 300 seconds.                              *)
WaitOver(m, timeout) ==
  /\ account[m].pc = "wait" /\ (timeout = (turn[account[m].waits] # "dead"))
  /\ Acc(m, [account[m] EXCEPT !.pc = "events"])
  /\ late' = IF timeout THEN late \cup {m} ELSE late
  /\ UNCHANGED <<openVars, runVars, today, budget, past, overlapped>>

(* add_usage: the finished runs behind the cursor, one page of events.     *)
ReadEvents(m) ==
  /\ account[m].pc = "events"
  /\ Acc(m, [account[m] EXCEPT !.pc = "add",
             !.bill = FinishedIn(Session(m), PageAfter(Session(m), account[m].cursor))])
  /\ UNCHANGED <<openVars, runVars, late, today, budget, past, overlapped>>

(* used += tokens is a read ...                                            *)
ReadUsed(m) ==
  /\ account[m].pc = "add"
  /\ IF account[m].bill = {}
     THEN Acc(m, [account[m] EXCEPT !.pc = "over"]) /\ UNCHANGED <<budget, past>>
     ELSE UsedToday /\ Acc(m, [account[m] EXCEPT !.pc = "store", !.read = Booked])
  /\ UNCHANGED <<openVars, runVars, late, today, overlapped>>

(* ... and a write: what others have written since the read is lost.       *)
StoreUsed(m) ==
  /\ account[m].pc = "store"
  /\ LET i == First(account[m].bill) IN
       /\ budget' = [budget EXCEPT !.booked =
                       account[m].read \cup {<<m, log[Session(m)][i].run>>}]
       /\ Acc(m, [account[m] EXCEPT !.pc = "add", !.bill = @ \ {i}, !.read = {}])
  /\ overlapped' = IF \E n \in Messages \ {m} : account[n].pc = "store"
                   THEN overlapped \cup {m} ELSE overlapped
  /\ UNCHANGED <<openVars, runVars, late, today, past>>

Midnight ==
  /\ today < MaxDays /\ today' = today + 1
  /\ UNCHANGED <<openVars, runVars, account, late, budget, past, overlapped>>

---------------------------------------------------------------------------
AccountStep(m) == Join(m) \/ WaitOver(m, FALSE) \/ ReadEvents(m) \/ ReadUsed(m) \/ StoreUsed(m)

OpenNext ==
  \E s \in Visitors :
    \/ Visit(s) \/ MakeFolder(s) \/ CopyTree(s) \/ Stamp(s) \/ InsertSession(s) \/ GrowOld(s)
    \/ \E d \in Visitors : SeeOld(s, d) \/ Remove(s, d)

SpendNext ==
  \/ Midnight
  \/ \E m \in Messages :
       \/ \E s \in Visitors : Admit(m, s)
       \/ ReadCursor(m) \/ Refuse(m) \/ Register(m) \/ SetThread(m) \/ StartTurn(m)
       \/ StartAccount(m) \/ TurnStep(m)
       \/ AccountStep(m) \/ WaitOver(m, TRUE)

VisitSpec == VisitStart({}) /\ [][OpenNext \/ SpendNext]_visitVars

---------------------------------------------------------------------------
Lost(s) == opening[s] = "open" /\ s \notin isOld /\ folder[s] # "whole"

(* workspace.py:108 "the copy's age must be its own": the folder of a      *)
(* session less than a day old is swept only when the sweep of another     *)
(* looked at it between the copying and the setting of its time.  (Proved  *)
(* in PlatformProofs.)                                                     *)
LostOnlyToARace == \A s \in Visitors : Lost(s) => s \in caught

(* Each message's run is on the budget of its day by the time its own      *)
(* accounting is over, also when other messages of the session and their   *)
(* accounting overtake it.  What the code does not promise is excepted: a  *)
(* run longer than 300 s; a log longer than one page; a session where a    *)
(* second message was sent before the thread of the first had started, so  *)
(* that the wait may be for the wrong run; a booking written while another *)
(* accounting was between its read and write of used, which loses it; and  *)
(* an accounting that died in wait(), which is not "over".                 *)
FinishedRunsAreCounted ==
  \A m \in Messages :
    /\ account[m].pc = "over"
    /\ m \notin late \cup overlapped /\ Session(m) \notin rushed
    /\ Len(log[Session(m)]) <= PageSize
    => <<m, m>> \in budget.booked \cup past

=============================================================================
