----------------------- MODULE MCEnrollmentScenarios -----------------------
(***************************************************************************)
(* Three events in one run of TLC, each with its own constants.  They have *)
(* the same variables; a behaviour stays in one scenario.                  *)
(*                                                                         *)
(*   queue   the constants of the configuration: three users, one free     *)
(*           seat;                                                         *)
(*   lock    a free seat, transactions that wait for the event lock, an    *)
(*           organizer who invites, and the end of registration;           *)
(*   codes   a paid tier that a code makes free beside a free tier sold by *)
(*           invitation, questions, and no payment provider.               *)
(*                                                                         *)
(* The scenarios share the constants the properties depend on: the seats,  *)
(* the prices, the units of the code (which nobody can use where           *)
(* TotalAvailable is 0), the dates of registration and the missing         *)
(* provider.  Public tiers matter to queues that can be promoted, which    *)
(* "codes" has not: its queue is for a paid tier.  So each property says   *)
(* the same in every scenario.                                             *)
(***************************************************************************)
EXTENDS Enrollment

TwoTiers == {"s", "t"}
FreeTier == {"s"}
OneSeat == [t \in Tiers |-> 1]
Prices == [s |-> 0, t |-> 2]

Lock == INSTANCE Enrollment WITH
    Users <- {1, 2}, Invitees <- {2}, EndsAt <- 3, MaxLockWait <- 1, MaxTime <- 2

Discounted == INSTANCE Enrollment WITH
    Users <- {1, 2}, Invitees <- {2}, Public <- {"t"},
    TotalAvailable <- 1, HasQuestions <- TRUE, MaxTime <- 2, MaxPurchases <- 2

VARIABLE scenario

ScenarioInit ==
    \/ scenario = "queue" /\ Init
    \/ scenario = "lock" /\ Lock!Init
    \/ scenario = "codes" /\ Discounted!Init

ScenarioNext ==
    \/ scenario = "queue" /\ Next /\ UNCHANGED scenario
    \/ scenario = "lock" /\ Lock!Next /\ UNCHANGED scenario
    \/ scenario = "codes" /\ Discounted!Next /\ UNCHANGED scenario

ScenarioSpec == ScenarioInit /\ [][ScenarioNext]_<<scenario, vars>>
=============================================================================
