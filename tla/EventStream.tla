---------------------------- MODULE EventStream ----------------------------
(***************************************************************************)
(* The event log of one session and the streams that read it:              *)
(* plnt/tenancy/db.py (append, events_since), the SSE generators of        *)
(* plnt/server/app.py and plnt/server/playground.py, and the pages that    *)
(* consume them.                                                           *)
(*                                                                         *)
(* Events are written by the threads of the session's runs, each with the  *)
(* next seq, under the lock of the database file.  A stream reads pages of *)
(* committed events behind its cursor and sends them one by one; what was  *)
(* sent may be lost when the connection breaks.  A visitor's browser then  *)
(* reconnects to the URL it was given, cursor included, so that events are *)
(* sent again; a waiter (curl, the smoke test) opens a stream once, with   *)
(* until_idle.                                                             *)
(***************************************************************************)
EXTENDS Naturals, Sequences, SequencesExt

CONSTANTS
  Writers,    \* threads that append
  Visitors,   \* readers that reconnect
  Waiters,    \* readers with until_idle
  NoWriter,   \* nobody holds the lock
  Page,       \* limit of events_since
  MaxEvents,  \* bound on the length of the log
  MaxBreaks   \* bound on the connections that end before their time

ASSUME StreamAssumption ==
  /\ Visitors \cap Waiters = {}
  /\ NoWriter \notin Writers
  /\ Page \in Nat \ {0}
  /\ MaxEvents \in Nat
  /\ MaxBreaks \in Nat

Readers == Visitors \cup Waiters

VARIABLES
  log,     \* the events table: the kind of the event of each seq
  lock,    \* the writer that holds the lock
  wpc,     \* where each writer is
  seq,     \* the seq each writer has computed, a local of append
  conn,    \* the generator of each reader's stream
  url,     \* the cursor in the URL of the reader's stream
  last,    \* the generator's cursor
  page,    \* seqs the generator has read and not sent yet
  wire,    \* seqs sent and not received yet
  view,    \* seqs the reader has, in the order they arrived
  breaks   \* number of connections that ended before their time

writeVars == <<log, lock, wpc, seq>>
readVars  == <<conn, url, last, page, wire, view, breaks>>
vars      == <<writeVars, readVars>>

Kinds == {"event", "run_finished"}

Init ==
  /\ log    = <<>>
  /\ lock   = NoWriter
  /\ wpc    = [w \in Writers |-> "idle"]
  /\ seq    = [w \in Writers |-> 0]
  /\ conn   = [r \in Readers |-> "closed"]
  /\ url    = [r \in Readers |-> 0]
  /\ last   = [r \in Readers |-> 0]
  /\ page   = [r \in Readers |-> <<>>]
  /\ wire   = [r \in Readers |-> <<>>]
  /\ view   = [r \in Readers |-> <<>>]
  /\ breaks = 0

---------------------------------------------------------------------------
(* append().                                                               *)

(* with self._lock                                                         *)
Acquire(w) ==
  /\ wpc[w] = "idle"
  /\ lock = NoWriter
  /\ Len(log) < MaxEvents
  /\ lock' = w
  /\ wpc' = [wpc EXCEPT ![w] = "locked"]
  /\ UNCHANGED <<log, seq, readVars>>

(* SELECT MAX(seq)                                                         *)
ReadMax(w) ==
  /\ wpc[w] = "locked"
  /\ seq' = [seq EXCEPT ![w] = Len(log) + 1]
  /\ wpc' = [wpc EXCEPT ![w] = "read"]
  /\ UNCHANGED <<log, lock, readVars>>

(* INSERT, which the primary key lets pass only for a new seq, COMMIT, and *)
(* the lock is released.                                                   *)
Insert(w) ==
  /\ wpc[w] = "read"
  /\ seq[w] = Len(log) + 1
  /\ \E kind \in Kinds : log' = Append(log, kind)
  /\ lock' = NoWriter
  /\ wpc' = [wpc EXCEPT ![w] = "idle"]
  /\ seq' = [seq EXCEPT ![w] = 0]
  /\ UNCHANGED readVars

---------------------------------------------------------------------------
(* The generator of a stream.                                              *)

Goto(r, point) == conn' = [conn EXCEPT ![r] = point]

(* Variant: nobody who has received something asks again.                  *)
ConnectOnce(r) ==
  /\ conn[r] = "closed"
  /\ wire[r] = <<>>
  /\ view[r] = <<>>
  /\ Goto(r, "fetch")
  /\ last' = [last EXCEPT ![r] = url[r]]
  /\ UNCHANGED <<writeVars, url, page, wire, view, breaks>>

(* GET .../stream?after=url: a new generator.  A waiter that has received   *)
(* something does not ask again.                                           *)
Connect(r) ==
  /\ conn[r] = "closed"
  /\ wire[r] = <<>>
  /\ r \in Waiters => view[r] = <<>>
  /\ Goto(r, "fetch")
  /\ last' = [last EXCEPT ![r] = url[r]]
  /\ UNCHANGED <<writeVars, url, page, wire, view, breaks>>

(* events_since(sid, last): the next Page events, by seq.                  *)
NextPage(r) ==
  LET upto == IF Len(log) > last[r] + Page THEN last[r] + Page ELSE Len(log)
  IN  [i \in 1 .. upto - last[r] |-> last[r] + i]

(* An empty page only makes the generator sleep.                           *)
Fetch(r) ==
  /\ conn[r] = "fetch"
  /\ last[r] < Len(log)
  /\ page' = [page EXCEPT ![r] = NextPage(r)]
  /\ Goto(r, "send")
  /\ UNCHANGED <<writeVars, url, last, wire, view, breaks>>

(* Variant: the stream looks for the end of the run before it sends it.    *)
SendChecksFirst(r) ==
  LET e == Head(page[r])
  IN
  /\ conn[r] = "send"
  /\ last' = [last EXCEPT ![r] = e]
  /\ IF r \in Waiters /\ log[e] = "run_finished"
     THEN /\ Goto(r, "ended")
          /\ page' = [page EXCEPT ![r] = <<>>]
          /\ UNCHANGED wire
     ELSE /\ Goto(r, IF Len(page[r]) = 1 THEN "fetch" ELSE "send")
          /\ page' = [page EXCEPT ![r] = Tail(@)]
          /\ wire' = [wire EXCEPT ![r] = Append(@, e)]
  /\ UNCHANGED <<writeVars, url, view, breaks>>

(* yield; with until_idle the first run_finished ends the stream and drops *)
(* the rest of the page.                                                   *)
Send(r) ==
  LET e == Head(page[r])
  IN
  /\ conn[r] = "send"
  /\ last' = [last EXCEPT ![r] = e]
  /\ wire' = [wire EXCEPT ![r] = Append(@, e)]
  /\ \/ /\ r \in Waiters /\ log[e] = "run_finished"
        /\ Goto(r, "ended")
        /\ page' = [page EXCEPT ![r] = <<>>]
     \/ /\ ~(r \in Waiters /\ log[e] = "run_finished")
        /\ Goto(r, IF Len(page[r]) = 1 THEN "fetch" ELSE "send")
        /\ page' = [page EXCEPT ![r] = Tail(@)]
  /\ UNCHANGED <<writeVars, url, view, breaks>>

(* The playground's streams end after ten minutes, between two pages.  The *)
(* visitor still receives what was sent.                                   *)
Deadline(r) ==
  /\ r \in Visitors
  /\ conn[r] = "fetch"
  /\ breaks < MaxBreaks
  /\ breaks' = breaks + 1
  /\ Goto(r, "closed")
  /\ UNCHANGED <<writeVars, url, last, page, wire, view>>

---------------------------------------------------------------------------
(* The network and the readers.                                            *)

(* The connection breaks: what is under way is lost.                       *)
Break(r) ==
  /\ conn[r] \in {"fetch", "send"}
  /\ breaks < MaxBreaks
  /\ breaks' = breaks + 1
  /\ Goto(r, "closed")
  /\ page' = [page EXCEPT ![r] = <<>>]
  /\ wire' = [wire EXCEPT ![r] = <<>>]
  /\ UNCHANGED <<writeVars, url, last, view>>

(* The visitor opens another session and comes back: the page closes its   *)
(* stream and opens one with the last seq it has as the cursor.            *)
Reopen(r) ==
  /\ r \in Visitors
  /\ breaks < MaxBreaks
  /\ breaks' = breaks + 1
  /\ Goto(r, "closed")
  /\ page' = [page EXCEPT ![r] = <<>>]
  /\ wire' = [wire EXCEPT ![r] = <<>>]
  /\ url'  = [url EXCEPT ![r] = IF view[r] = <<>> THEN 0 ELSE Last(view[r])]
  /\ UNCHANGED <<writeVars, last, view>>

(* Variant: every event that arrives is shown.                             *)
DeliverAll(r) ==
  /\ wire[r] # <<>>
  /\ wire' = [wire EXCEPT ![r] = Tail(@)]
  /\ view' = [view EXCEPT ![r] = Append(@, Head(wire[r]))]
  /\ UNCHANGED <<writeVars, conn, url, last, page, breaks>>

(* An event arrives; the page drops the ones it has.                       *)
Deliver(r) ==
  /\ wire[r] # <<>>
  /\ wire' = [wire EXCEPT ![r] = Tail(@)]
  /\ view' = [view EXCEPT ![r] =
                IF Contains(@, Head(wire[r])) THEN @
                ELSE Append(@, Head(wire[r]))]
  /\ UNCHANGED <<writeVars, conn, url, last, page, breaks>>

Write(w) == Acquire(w) \/ ReadMax(w) \/ Insert(w)
Serve(r) == Connect(r) \/ Fetch(r) \/ Send(r) \/ Deliver(r)
Cut(r)   == Deadline(r) \/ Break(r) \/ Reopen(r)

Next == \/ \E w \in Writers : Write(w)
        \/ \E r \in Readers : Serve(r) \/ Cut(r)

(* The server's event loop and the browser go on; nobody has to write, and *)
(* no connection has to break.                                             *)
Fairness ==
  \A r \in Readers :
    WF_vars(Connect(r)) /\ WF_vars(Fetch(r) \/ Send(r)) /\ WF_vars(Deliver(r))

Spec == Init /\ [][Next]_vars /\ Fairness

---------------------------------------------------------------------------
(* Properties.                                                             *)

Points == {"closed", "fetch", "send", "ended"}

StreamTypeOK ==
  /\ log    \in Seq(Kinds)
  /\ lock   \in Writers \cup {NoWriter}
  /\ wpc    \in [Writers -> {"idle", "locked", "read"}]
  /\ seq    \in [Writers -> Nat]
  /\ conn   \in [Readers -> Points]
  /\ url    \in [Readers -> Nat]
  /\ last   \in [Readers -> Nat]
  /\ page   \in [Readers -> Seq(Nat)]
  /\ wire   \in [Readers -> Seq(Nat)]
  /\ view   \in [Readers -> Seq(Nat)]
  /\ breaks \in Nat

(* events.md: seq increases by one within a session.  The seq a writer has *)
(* read is still free when it inserts: no INSERT meets the primary key.    *)
SeqsAreFree == \A w \in Writers : wpc[w] = "read" => seq[w] = Len(log) + 1

(* http-api.md: until_idle=1 closes after the next run_finished.  What a   *)
(* waiter is sent holds one run_finished at most, as the last event, and   *)
(* a stream that ended has sent it.                                        *)
WaiterGetsOneRun ==
  \A r \in Waiters :
    LET sent == view[r] \o wire[r] IN
    /\ \A i \in 1 .. Len(sent) :
         log[sent[i]] = "run_finished" => i = Len(sent) /\ conn[r] # "fetch"
    /\ conn[r] = "ended" => sent # <<>> /\ log[Last(sent)] = "run_finished"

(* Whatever breaks, a visitor ends up with every event of the log.         *)
EveryEventArrives ==
  \A r \in Visitors : \A n \in 1 .. MaxEvents :
    Len(log) >= n ~> Len(view[r]) >= n

Feed == INSTANCE EventFeed WITH length <- Len(log)

(* Readers see the log in order, without gaps and without repetitions,     *)
(* whatever was lost or sent twice on the way.                             *)
ReadersFollowTheLog == Feed!Spec

===========================================================================
