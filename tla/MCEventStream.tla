--------------------------- MODULE MCEventStream ---------------------------
(* Two writers, a visitor and a waiter; a page of two events and a log of  *)
(* up to three, so that a stream needs a second page; three breaks.        *)
EXTENDS EventStream

CONSTANTS w1, w2, visitor, waiter

WritersVal  == {w1, w2}
VisitorsVal == {visitor}
WaitersVal  == {waiter}

===========================================================================
