------------------------------ MODULE History ------------------------------
(***************************************************************************)
(* RollingHistory (history.rs): what a watcher retains of the objects it   *)
(* listed, what it reports as changed, and the statistics it derives.  All *)
(* of it is computed from the retained objects alone, so this module has   *)
(* operators and no state; Polling and Service use them.                   *)
(*                                                                         *)
(* A history maps the key of an object to the object: its key (a number,   *)
(* for the order of keys), the tick it was last modified at, its size.     *)
(* Durations are in quarters of a tick, so that the median of two of them  *)
(* and one and a half times a duration are integers.                       *)
(***************************************************************************)
EXTENDS Integers, FiniteSets, Sequences, SequencesExt

CONSTANTS
  Capacity,             \* max_history, validated to be positive
  MinSizeObservations   \* MIN_SIZE_OBSERVATIONS

ASSUME HistoryAssumption ==
  /\ Capacity \in Nat \ {0}
  /\ MinSizeObservations \in Nat

\* An Option without a value, where the values are natural numbers
Missing == -1

Objects(history) == {history[k] : k \in DOMAIN history}

NewestFirst(a, b) == a.at > b.at \/ (a.at = b.at /\ a.key < b.key)
OldestFirst_ByKey(a, b) == a.key < b.key

OldestFirst(a, b) == a.at < b.at \/ (a.at = b.at /\ a.key < b.key)

\* The objects as a sequence, by an order that no two of them share
Ordered(objects, Before(_, _)) ==
  [i \in 1..Cardinality(objects) |->
     CHOOSE o \in objects : Cardinality({p \in objects : Before(p, o)}) = i - 1]

\* The first n of the objects, by an order
First(n, objects, Before(_, _)) ==
  {o \in objects : Cardinality({p \in objects : Before(p, o)}) < n}

-----------------------------------------------------------------------------
(* Reconciling a listing *)

\* The last observation of each key in the listing counts.
Incoming(listing) ==
  [k \in {listing[i].key : i \in DOMAIN listing} |->
     listing[Max({i \in DOMAIN listing : listing[i].key = k})]]

\* A map with the entries of another one replaced or added
Overlay(new, old) ==
  [k \in DOMAIN new \cup DOMAIN old |-> IF k \in DOMAIN new THEN new[k] ELSE old[k]]

\* What is known after the listing, before the capacity is enforced
Merged(history, listing) == Overlay(Incoming(listing), history)

Retained(merged) ==
  LET kept == First(Capacity, Objects(merged), NewestFirst)
  IN  [k \in {o.key : o \in kept} |-> merged[k]]

\* The keys a listing brings news of
Changed(history, listing) ==
  LET incoming == Incoming(listing)
  IN  {k \in DOMAIN incoming :
         k \in DOMAIN history => history[k] # incoming[k]}

\* Only changes of what is retained are reported, and only what was retained
\* before can be evicted.
Upsert(history, listing) ==
  LET merged   == Merged(history, listing)
      retained == Retained(merged)
  IN  [history |-> retained,
       changes |-> {[kind     |-> IF k \in DOMAIN history THEN "updated" ELSE "added",
                     object   |-> merged[k],
                     previous |-> IF k \in DOMAIN history THEN {history[k]} ELSE {}] :
                      k \in Changed(history, listing) \cap DOMAIN retained},
       evicted |-> {merged[k] : k \in DOMAIN history \ DOMAIN retained}]

-----------------------------------------------------------------------------
(* Statistics *)

SecondsBetween(earlier, later) == 4 * Max({0, later - earlier})

IntervalsFor(history) ==
  LET objects == Ordered(Objects(history), OldestFirst)
  IN  [i \in 1..Max({0, Len(objects) - 1}) |->
         [previousKey |-> objects[i].key, key |-> objects[i + 1].key,
          seconds |-> SecondsBetween(objects[i].at, objects[i + 1].at)]]

\* Equal values keep their order.
Ascending(values) ==
  LET Before(a, b) == a[1] < b[1] \/ (a[1] = b[1] /\ a[2] < b[2])
      sorted == Ordered({<<values[i], i>> : i \in DOMAIN values}, Before)
  IN  [i \in DOMAIN values |-> sorted[i][1]]

Median(sorted) ==
  LET n == Len(sorted)
  IN  CASE n = 0     -> Missing
        [] n % 2 = 1 -> sorted[n \div 2 + 1]
        [] OTHER     -> (sorted[n \div 2] + sorted[n \div 2 + 1]) \div 2

Percentile95_RankDown(sorted) ==
  IF sorted = <<>> THEN Missing ELSE sorted[Max({1, (95 * Len(sorted)) \div 100})]

\* The nearest rank of the 95th percentile is 0.95 n, rounded up.
Percentile95(sorted) ==
  IF sorted = <<>> THEN Missing ELSE sorted[(95 * Len(sorted) + 99) \div 100]

\* The median distance from the median, of the sizes on one side of it
Deviation(side, sizes, median) ==
  LET Distance(v) == IF v < median THEN median - v ELSE v - median
      ranks == {i \in DOMAIN sizes : (sizes[i] - median) * side >= 0}
  IN  Median(Ascending([j \in 1..Cardinality(ranks) |-> Distance(sizes[Min(ranks) + j - 1])]))

\* The scale is 1.4826 deviations or a tenth of the median, an outlier is 3.5 scales
\* away.
Outlier(distance, deviation, median) ==
  LET scale == Max({14826 * deviation, 1000 * median})
  IN  CASE distance * 100000 <= -35 * scale -> "small"
        [] distance * 100000 >= 35 * scale -> "large"
        [] OTHER -> "normal"

\* The size of the newest object against the median size and the median absolute
\* deviation on its side of it
ClassifySize(newest, sizes, median) ==
  CASE newest = 0 -> IF median > 0 /\ Len(sizes) >= 2 THEN "empty" ELSE "normal"
    [] newest > 0 /\ (Len(sizes) < MinSizeObservations \/ median = 0) -> "unknown"
    [] OTHER ->
         Outlier(newest - median, Deviation(IF newest < median THEN -1 ELSE 1, sizes, median), median)

\* Of simultaneous objects the one with the last key is the newest.
ClassifyNewestSize(objects) ==
  LET sizes == Ascending([i \in DOMAIN objects |-> 4 * objects[i].size])
  IN  IF objects = <<>> THEN "unknown" ELSE ClassifySize(4 * Last(objects).size, sizes, Median(sizes))

Rank == [unknown |-> 0, ok |-> 1, warning |-> 2, critical |-> 3]

SeverityOf(status, size) ==
  LET timing == [unknown |-> "unknown", healthy |-> "ok", late |-> "warning"][status]
      bySize == [unknown |-> "unknown", normal |-> "ok", large |-> "warning",
                 small |-> "warning", empty |-> "critical"][size]
  IN  IF Rank[timing] > Rank[bySize] THEN timing ELSE bySize

LateSince_Recorded(last, lateAfter, asOf) == 4 * asOf

\* Derived from the newest object, not recorded when the lateness is noticed
LateSince(last, lateAfter, asOf) == 4 * last + lateAfter

\* The configured cadence, in ticks, or the one learned from two intervals or more
\* (MIN_INTERVALS_TO_LEARN_CADENCE)
Expected(configured, count, median) ==
  IF configured > 0 THEN 4 * configured
  ELSE IF count >= 2 /\ median > 0 THEN median ELSE Missing

\* A feed is late after one and a half times the cadence (DEFAULT_LATE_MULTIPLIER).
LateAfter(expected) == IF expected = Missing THEN Missing ELSE (3 * expected) \div 2

Timing(last, gap, lateAfter, asOf) ==
  CASE Missing \in {gap, lateAfter} ->
         [status |-> "unknown", lateSince |-> Missing, overdue |-> Missing]
    [] Missing \notin {gap, lateAfter} /\ gap > lateAfter ->
         [status |-> "late", lateSince |-> LateSince(last, lateAfter, asOf), overdue |-> gap - lateAfter]
    [] OTHER ->
         [status |-> "healthy", lateSince |-> Missing, overdue |-> Missing]

Total(values) == FoldSeq(+, 0, values)

\* The statistics of these objects, oldest first, with these intervals between them
Measured(objects, values, median, asOf, configured) ==
  LET n        == Len(objects)
      gap      == IF n = 0 THEN Missing ELSE SecondsBetween(Min({objects[n].at, asOf}), asOf)
      expected == Expected(configured, Len(values), median)
      timing   == Timing(IF n = 0 THEN 0 ELSE objects[n].at, gap, LateAfter(expected), asOf)
      size     == ClassifyNewestSize(objects)
  IN  [objectCount |-> n,
       total       |-> Total(values),     \* the mean times the count
       span        |-> IF n = 0 THEN 0 ELSE SecondsBetween(objects[1].at, objects[n].at),
       median      |-> median,
       p95         |-> Percentile95(values),
       largest     |-> IF values = <<>> THEN Missing ELSE values[Len(values)],
       gap         |-> gap,
       expected    |-> expected,
       status      |-> timing.status,
       lateSince   |-> timing.lateSince,
       overdue     |-> timing.overdue,
       size        |-> size,
       severity    |-> SeverityOf(timing.status, size)]

Seconds(intervals) == [i \in DOMAIN intervals |-> intervals[i].seconds]

StatisticsFor(history, asOf, configured) ==
  LET values == Ascending(Seconds(IntervalsFor(history)))
  IN  Measured(Ordered(Objects(history), OldestFirst), values, Median(values), asOf, configured)
=============================================================================
