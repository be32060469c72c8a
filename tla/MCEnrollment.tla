---------------------------- MODULE MCEnrollment ----------------------------
(* Instances of Enrollment for TLC. *)
EXTENDS Enrollment

OneTier == {"t"}
OneSeat == [t \in Tiers |-> 1]
Paid == [t \in Tiers |-> 2]

=============================================================================
