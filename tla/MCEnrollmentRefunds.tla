------------------------ MODULE MCEnrollmentRefunds ------------------------
(* Instances of EnrollmentRefunds for TLC. *)
EXTENDS EnrollmentRefunds

OneTier == {"t"}
TwoSeats == [t \in Tiers |-> 2]
Paid == [t \in Tiers |-> 2]

=============================================================================
