----------------------------- MODULE RunEvents -----------------------------
(***************************************************************************)
(* The events of one run of the single-user server: its threads append     *)
(* lines to events.jsonl (plnt/execution/blackboard.py), and browsers      *)
(* follow the file by offset (stream_run of plnt/surface/server.py).       *)
(*                                                                         *)
(* An event is the number of its line.  A line longer than a page may be   *)
(* seen in part: the file is a sequence of pieces, and what a read finds   *)
(* of a line that is not whole does not parse.                             *)
(***************************************************************************)
EXTENDS Integers, Sequences, FiniteSets

CONSTANTS
  Writers,   \* threads of the run
  Pages,     \* browsers that follow it
  MaxEvents, \* bound: events
  MaxOpens   \* bound: streams each browser opens

ASSUME RunEventsAssumption ==
  MaxEvents \in Nat /\ MaxOpens \in Nat /\ "none" \notin Writers

(* "finished" is the run's own, "closed" the one of an agent, which has    *)
(* the agent's id; after a crash of the swarm a second one may follow.     *)
Endings == {"note", "closed", "finished"}

VARIABLES
  lines,   \* the kind of each event begun so far
  pieces,  \* events.jsonl
  writer,  \* the thread that holds Blackboard._lock, and what it writes
  stream   \* the stream of each browser

eventVars == <<lines, pieces, writer, stream>>

Piece(e, part) == [of |-> e, part |-> part]
NoStream == [at |-> "closed", offset |-> 0, got |-> <<>>, missed |-> {},
             opens |-> 0]

EventsInit ==
  /\ lines = <<>> /\ pieces = <<>> /\ writer = "none"
  /\ stream = [p \in Pages |-> NoStream]

---------------------------------------------------------------------------
(* emit                                                                    *)

(* A short line, whole.                                                    *)
EmitLine ==
  /\ writer = "none"
  /\ Len(lines) < MaxEvents
  /\ \E kind \in Endings : lines' = Append(lines, kind)
  /\ pieces' = Append(pieces, Piece(Len(lines) + 1, "whole"))
  /\ UNCHANGED <<writer, stream>>

(* A long one, under the lock until all of it is written.                  *)
EmitHead(w) ==
  /\ writer = "none"
  /\ Len(lines) < MaxEvents
  /\ lines' = Append(lines, "note")
  /\ pieces' = Append(pieces, Piece(Len(lines) + 1, "head"))
  /\ writer' = w
  /\ UNCHANGED stream

EmitRest(w) ==
  /\ writer = w
  /\ pieces' = Append(pieces, Piece(Len(lines), "rest"))
  /\ writer' = "none"
  /\ UNCHANGED <<lines, stream>>

---------------------------------------------------------------------------
(* stream_run                                                              *)

(* The events of a part of the file: whole lines, and long ones of which   *)
(* both pieces are there.  read_all, of get_run, parses the whole file so. *)
Ends(part) ==
  {i \in DOMAIN part :
     \/ part[i].part = "whole"
     \/ part[i].part = "rest" /\ i > 1 /\ part[i - 1] = Piece(part[i].of, "head")}

InOrder(s) == \A i, j \in DOMAIN s : i < j => s[i] < s[j]
Parsed(part) ==
  LET ends == CHOOSE s \in [1 .. Cardinality(Ends(part)) -> Ends(part)] : InOrder(s)
  IN  [i \in DOMAIN ends |-> part[ends[i]].of]

Members(s) == {s[i] : i \in DOMAIN s}

(* Those it has a part of, and that do not parse.                          *)
Torn(part) ==
  {part[i].of : i \in DOMAIN part} \ Members(Parsed(part))

(* Variant: the stream ends with whatever finishes first.                  *)
EndsWithAgent(e) == lines[e] \in {"closed", "finished"}

(* "End the stream ONLY on the run-level finished event".                  *)
EndsStream(e) == lines[e] = "finished"

(* A request for the stream begins at the start of the file.               *)
Open(p) ==
  /\ stream[p].at = "closed"
  /\ stream[p].opens < MaxOpens
  /\ stream' = [stream EXCEPT ![p] =
       [NoStream EXCEPT !.at = "open", !.opens = stream[p].opens + 1]]
  /\ UNCHANGED <<lines, pieces, writer>>

(* One round of the generator: what is new in the file, up to the event    *)
(* that ends the stream.                                                   *)
Poll(p) ==
  LET s    == stream[p]
      part == SubSeq(pieces, s.offset + 1, Len(pieces))
      new  == Parsed(part)
      end  == {i \in DOMAIN new : EndsStream(new[i])}
      sent == IF end = {} THEN new
              ELSE SubSeq(new, 1, CHOOSE i \in end : \A j \in end : i <= j)
  IN
  /\ s.at = "open"
  /\ part # <<>>
  /\ stream' = [stream EXCEPT ![p] =
       [s EXCEPT !.at = IF end = {} THEN "open" ELSE "done",
                 !.offset = Len(pieces), !.got = @ \o sent,
                 !.missed = @ \cup Torn(part)]]
  /\ UNCHANGED <<lines, pieces, writer>>

(* The stream has lasted 300 s, or the connection breaks.                  *)
Expire(p) ==
  /\ stream[p].at = "open"
  /\ stream' = [stream EXCEPT ![p].at = "closed"]
  /\ UNCHANGED <<lines, pieces, writer>>

EventsNext ==
  \/ EmitLine
  \/ \E w \in Writers : EmitHead(w) \/ EmitRest(w)
  \/ \E p \in Pages : Open(p) \/ Poll(p) \/ Expire(p)

EventsSpec == EventsInit /\ [][EventsNext]_eventVars

---------------------------------------------------------------------------
(* Properties.                                                             *)

(* A stream that has ended with "finished" has sent every event up to it,  *)
(* in the order of the log and none of them twice, however its polls fell  *)
(* between the writes; only a line that a poll saw in part can be missing, *)
(* and the log itself, read when nobody writes, has them all.              *)
EndedStreamIsComplete ==
  /\ writer = "none" => Parsed(pieces) = [e \in DOMAIN lines |-> e]
  /\ \A p \in Pages : stream[p].at = "done" =>
       LET got  == stream[p].got
           last == got[Len(got)]
       IN  /\ lines[last] = "finished"
           /\ InOrder(got) /\ Members(got) = (1 .. last) \ stream[p].missed

===========================================================================
