--------------------------- MODULE ActivityTracker ---------------------------
(***************************************************************************)
(* Counting of page views: request handlers queue views on a bounded       *)
(* channel, the aggregator counts them in memory and hands a copy of its   *)
(* counters to the flusher at every tick, and the flusher adds them to the *)
(* database, one table per kind.  On shutdown the server stops first, then *)
(* the aggregator, which sends what is left, then the flusher.             *)
(*                                                                         *)
(* A view is an identity; a counter is the set of the views it counts, so  *)
(* that a view counted twice or not at all can be told.                    *)
(***************************************************************************)
EXTENDS Integers, Sequences, FiniteSets

CONSTANTS
    Views, CommunityViews, EventViews,   \* the rest are views of groups
    QueueSize,    \* of the channel of activities: 100
    BatchesSize   \* of the channel of batches: 5

ASSUME TrackerAssumption ==
    /\ CommunityViews \cup EventViews \subseteq Views
    /\ CommunityViews \cap EventViews = {}
    /\ {QueueSize, BatchesSize} \subseteq Nat \ {0}

VARIABLES
    server,       \* the HTTP server and the cancellation of the workers
    asked,        \* views whose request has not been answered
    tracked,      \* views whose handler queued them
    activities,   \* the channel of activities
    aggregator,   \* where the aggregator is
    batch,        \* its counters
    batches,      \* the channel of batches
    flusher,      \* [at, batch]: what the flusher writes next, and what it took
    written,      \* how often a view was added to the database
    unwritten     \* views whose table could not be written

trackerVars ==
    <<server, asked, tracked, activities, aggregator, batch, batches, flusher, written, unwritten>>

-----------------------------------------------------------------------------
(* The server *)

\* track_view; the send waits for room.  The client may also be gone first.
Track(v) ==
    /\ server = "serving" /\ v \in asked
    /\ asked' = asked \ {v}
    /\ \/ Len(activities) < QueueSize /\ activities' = Append(activities, v) /\ tracked' = tracked \cup {v}
       \/ UNCHANGED <<activities, tracked>>
    /\ UNCHANGED <<server, aggregator, batch, batches, flusher, written, unwritten>>

\* The server answers what it accepted before the workers are told to stop.
Shutdown ==
    /\ server = "serving"
    /\ server' = "stopped"
    /\ asked' = {}
    /\ UNCHANGED <<tracked, activities, aggregator, batch, batches, flusher, written, unwritten>>

-----------------------------------------------------------------------------
(* The aggregator *)

\* A tick with counters to hand over; the aggregator waits for room.
FlushTick ==
    /\ aggregator = "waiting" /\ batch # {}
    /\ aggregator' = "sending"
    /\ UNCHANGED <<server, asked, tracked, activities, batch, batches, flusher, written, unwritten>>

SendBatch_KeepsCounters ==   \* mutant: the counters are not cleared
    /\ aggregator = "sending" /\ Len(batches) < BatchesSize
    /\ batches' = Append(batches, batch) /\ aggregator' = "waiting"
    /\ UNCHANGED <<server, asked, tracked, activities, batch, flusher, written, unwritten>>

\* A copy is sent, and the counters are cleared once it was taken.
SendBatch ==
    /\ aggregator = "sending" /\ Len(batches) < BatchesSize
    /\ batches' = Append(batches, batch) /\ aggregator' = "waiting"
    /\ batch' = {}
    /\ UNCHANGED <<server, asked, tracked, activities, flusher, written, unwritten>>

AggregateActivity ==
    /\ aggregator = "waiting" /\ activities # <<>>
    /\ batch' = batch \cup {Head(activities)}
    /\ activities' = Tail(activities)
    /\ UNCHANGED <<server, asked, tracked, aggregator, batches, flusher, written, unwritten>>

DrainQueuedActivities == batch \cup {activities[i] : i \in DOMAIN activities}

\* The token is polled after the channel, which the runtime may report as
\* empty although it is not, when the task has used up its budget.
Cancelled ==
    /\ server = "stopped" /\ aggregator = "waiting"
    /\ batch' = DrainQueuedActivities
    /\ activities' = <<>>
    /\ aggregator' = IF batch' = {} THEN "ended" ELSE "sendingLast"
    /\ UNCHANGED <<server, asked, tracked, batches, flusher, written, unwritten>>

SendLast ==
    /\ aggregator = "sendingLast" /\ Len(batches) < BatchesSize
    /\ batches' = Append(batches, batch) /\ batch' = {} /\ aggregator' = "ended"
    /\ UNCHANGED <<server, asked, tracked, activities, flusher, written, unwritten>>

-----------------------------------------------------------------------------
(* The flusher *)

TakeBatch ==
    /\ flusher.at = "waiting" /\ batches # <<>>
    /\ flusher' = [at |-> "community", batch |-> Head(batches)]
    /\ batches' = Tail(batches)
    /\ UNCHANGED <<server, asked, tracked, activities, aggregator, batch, written, unwritten>>

\* The views of the kind the flusher writes next.
Due ==
    CASE flusher.at = "community" -> flusher.batch \cap CommunityViews
      [] flusher.at = "event" -> flusher.batch \cap EventViews
      [] flusher.at = "group" -> flusher.batch \ (CommunityViews \cup EventViews)

After == [community |-> "event", event |-> "group", group |-> "waiting"]

\* A failed write is logged, its counts are gone, and the next kind follows.
WriteViews ==
    /\ flusher.at \in DOMAIN After
    /\ flusher' = [at |-> After[flusher.at], batch |-> flusher.batch \ Due]
    /\ \/ written' = [v \in Views |-> written[v] + IF v \in Due THEN 1 ELSE 0] /\ UNCHANGED unwritten
       \/ Due # {} /\ unwritten' = unwritten \cup Due /\ UNCHANGED written
    /\ UNCHANGED <<server, asked, tracked, activities, aggregator, batch, batches>>

\* The channel is closed and empty.
FlusherEnds ==
    /\ flusher.at = "waiting" /\ batches = <<>> /\ aggregator = "ended"
    /\ flusher' = [flusher EXCEPT !.at = "ended"]
    /\ UNCHANGED <<server, asked, tracked, activities, aggregator, batch, batches, written, unwritten>>

-----------------------------------------------------------------------------
TrackerInit ==
    /\ server = "serving" /\ asked = Views /\ tracked = {}
    /\ activities = <<>> /\ aggregator = "waiting" /\ batch = {} /\ batches = <<>>
    /\ flusher = [at |-> "waiting", batch |-> {}]
    /\ written = [v \in Views |-> 0] /\ unwritten = {}

TrackerNext ==
    \/ \E v \in Views : Track(v)
    \/ Shutdown
    \/ FlushTick \/ SendBatch \/ AggregateActivity \/ Cancelled \/ SendLast
    \/ TakeBatch \/ WriteViews \/ FlusherEnds

TrackerSpec == TrackerInit /\ [][TrackerNext]_trackerVars

-----------------------------------------------------------------------------
(* Properties *)

\* Places that will still count a view, or counted it, or reported the loss.
Places(v) ==
    Cardinality({i \in DOMAIN activities : activities[i] = v})
    + Cardinality({i \in DOMAIN batches : v \in batches[i]})
    + Cardinality({p \in {"batch", "flusher"} : v \in IF p = "batch" THEN batch ELSE flusher.batch})
    + written[v] + IF v \in unwritten THEN 1 ELSE 0

\* A view that was accepted is counted once: it is on its way, written or
\* reported as unwritten, in exactly one of these, and nothing is on its way
\* when the tracker has stopped (Aggregator::run, Flusher::run).
ViewsCountedOnce ==
    /\ \A v \in tracked : Places(v) = 1
    /\ flusher.at = "ended" => \A v \in tracked : written[v] = 1 \/ v \in unwritten
=============================================================================
