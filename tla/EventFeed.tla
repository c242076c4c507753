----------------------------- MODULE EventFeed -----------------------------
(***************************************************************************)
(* What the event log promises its readers: events are numbered 1, 2, ...  *)
(* as they are committed, and each reader receives them one by one, in     *)
(* that order, without gaps and without repetitions.                       *)
(***************************************************************************)
EXTENDS Naturals, Sequences

CONSTANT Readers

VARIABLES
  length,  \* number of events committed
  view     \* the seqs each reader has received, in the order of arrival

Init == length = 0 /\ view = [r \in Readers |-> <<>>]

Publish == length' = length + 1 /\ UNCHANGED view

Receive(r) ==
  /\ Len(view[r]) < length
  /\ view' = [view EXCEPT ![r] = Append(@, Len(@) + 1)]
  /\ UNCHANGED length

Next == Publish \/ \E r \in Readers : Receive(r)

Spec == Init /\ [][Next]_<<length, view>>

===========================================================================
