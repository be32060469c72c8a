------------------------------ MODULE MCRequests ------------------------------
(* Web requests: about events, about one checkout, about the dashboards, or  *)
(* the creation of a series, one of the four in each behaviour.  No          *)
(* definition tells two events, requests, tabs, members or visits apart.     *)
EXTENDS EventLifecycle, CheckoutSession, DashboardAccess, EventSeries, TLC

VARIABLE part

CommunityOfGroups == [g \in Groups |-> "c1"]

\* Summer time of 2024 and 2025 in central Europe.
SummersInMadrid ==
    {[from |-> 24 * (FirstDay(14) + 30) + 1, to |-> 24 * (FirstDay(21) + 26) + 1],
     [from |-> 24 * (FirstDay(26) + 29) + 1, to |-> 24 * (FirstDay(33) + 25) + 1]}

\* At two in the morning, the hour that the two changes skip and repeat:
\* every day of December 2023 (its fifth Sunday reaches the change of March),
\* a week before each change, and the fifth Sunday of June 2024.
SeriesForms ==
    LET days == {FirstDay(11) + d : d \in 0..30} \cup {FirstDay(14) + 23, FirstDay(17) + 29, FirstDay(21) + 19}
        at(local) == CHOOSE i \in Instants(local) : TRUE
    IN {[pattern |-> p, additional |-> n, start |-> start, ends |-> start + 3,
         window |-> <<at(start - 50), at(start)>>] :
            p \in {"weekly", "biweekly", "monthly"}, n \in {12, 13}, start \in {24 * d + 2 : d \in days}}
       \cup {[pattern |-> p, additional |-> 0, start |-> 0, ends |-> 1, window |-> <<0, 1>>] :
            p \in {"just-once", "weekly"}}

\* A part that is not asked about starts in one of its states.
MCInit ==
    /\ part \in {"events", "checkout", "access", "series"}
    /\ LifecycleInit
    /\ part # "events" => sponsor = None /\ \A e \in Events : ~event[e].paid /\ ~event[e].published
    /\ CheckoutInit
    /\ AccessInit
    /\ part # "access" => team = [t \in Teams |-> [u \in Members |-> [role |-> "admin", accepted |-> TRUE]]]
    /\ SeriesInit
    /\ part # "series" => form.pattern = "just-once"

MCNext ==
    \/ part = "events" /\ LifecycleNext /\ UNCHANGED <<part, checkoutVars, accessVars, seriesVars>>
    \/ part = "checkout" /\ CheckoutNext /\ UNCHANGED <<part, lifecycleVars, accessVars, seriesVars>>
    \/ part = "access" /\ AccessNext /\ UNCHANGED <<part, lifecycleVars, checkoutVars, seriesVars>>
    \/ part = "series" /\ SeriesNext /\ UNCHANGED <<part, lifecycleVars, checkoutVars, accessVars>>

MCSpec == MCInit /\ [][MCNext]_<<part, lifecycleVars, checkoutVars, accessVars, seriesVars>>

Symmetric ==
    Permutations(Events) \cup Permutations(Requests) \cup Permutations(Tabs)
    \cup Permutations(Members) \cup Permutations(Visits)
=============================================================================
