---------------------------- MODULE MCWebChannel ----------------------------
(* One slot on offer and one that never is, and three messages in one or   *)
(* two runs of the workflow: an offer, a saga and a second saga for the    *)
(* same slot.  One thing goes astray, anywhere: the call of a given-up     *)
(* attempt, a call with arguments of the model's own, or a booking_id it   *)
(* made up.                                                                *)
EXTENDS WebChannel

CONSTANTS s1

SlotsVal  == {s1}
TextsVal  == {Invented, Plain}
OffersVal == {<<s1>>}

===========================================================================
