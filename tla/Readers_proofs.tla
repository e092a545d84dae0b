--------------------------- MODULE Readers_proofs ---------------------------
(* Machine-checked proofs about what is read of a history: for any objects, *)
(* times and cadences that the statistics of a watcher mean what they say   *)
(* and that an episode of lateness keeps its identity (Service); for any    *)
(* target and any instants of our era that a template is resolved to the    *)
(* right periods (Targets) and the commands show the newest objects (Cli).  *)
EXTENDS Service, Cli, History_proofs

-----------------------------------------------------------------------------
(* The session *)

SessionInv ==
  /\ now \in Nat
  /\ watcher = None \/ watcher.expected \in Cadences \cup {Missing, 0}
  /\ snapshot = None \/ /\ watcher # None
                        /\ IsStore(snapshot.history) /\ snapshot.asOf \in Nat
                        /\ Cardinality(Objects(snapshot.history)) <= Capacity

LEMMA CurrentIsStore ==
  ASSUME SessionInv
  PROVE  IsStore(Current)
<1>1. CASE snapshot = None
  <2>1. Current = [k \in {} |-> 0] BY <1>1 DEF Current
  <2>2. DOMAIN Current = {} BY <2>1
  <2>3. QED BY <2>2, FS_EmptySet DEF IsStore
<1>2. CASE snapshot # None BY <1>2 DEF SessionInv, Current
<1>3. QED BY <1>1, <1>2

\* A poll stores what it listed as a map from keys to objects.
LEMMA PollKeeps ==
  ASSUME SessionInv, NEW listing \in Seq(Observations), PollCompletes(listing)
  PROVE  SessionInv'
<1>1. IsStore(Upsert(Current, listing).history)
  <2>1. IsStore(Merged(Current, listing))
    BY CurrentIsStore, IncomingIsLast, OverlayIsStore DEF Merged
  <2>2. IsStore(Retained(Merged(Current, listing))) BY <2>1, RetainedIsStore
  <2>3. QED BY <2>2 DEF Upsert
<1>2. Cardinality(Objects(Upsert(Current, listing).history)) <= Capacity
  <2>1. IsStore(Merged(Current, listing))
    BY CurrentIsStore, IncomingIsLast, OverlayIsStore DEF Merged
  <2>2. Cardinality(Objects(Retained(Merged(Current, listing)))) <= Capacity BY <2>1, RetainedFits
  <2>3. QED BY <2>2 DEF Upsert
<1>3. /\ snapshot'.history = Upsert(Current, listing).history /\ snapshot'.asOf = now
      /\ now' = now /\ watcher' = watcher /\ watcher # None
  BY DEF PollCompletes
<1>4. QED BY <1>1, <1>2, <1>3 DEF SessionInv

LEMMA SessionInvariant == Spec => []SessionInv
<1>1. Init => SessionInv BY DEF Init, SessionInv
<1>2. SessionInv /\ [Next]_vars => SessionInv'
  <2> SUFFICES ASSUME SessionInv, [Next]_vars PROVE SessionInv' OBVIOUS
  <2>1. ASSUME NEW d \in Definitions, WatchStart(d) PROVE SessionInv'
    <3>1. d.expected \in Cadences \cup {Missing, 0} BY DEF Definitions
    <3>2. QED BY <2>1, <3>1 DEF WatchStart, SessionInv
  <2>2. CASE WatchStop BY <2>2 DEF WatchStop, SessionInv
  <2>3. CASE Tick BY <2>3 DEF Tick, SessionInv
  <2>4. ASSUME NEW k \in Keys, NEW s \in Sizes,
               PollCompletes(<<[key |-> k, at |-> now, size |-> s]>>)
        PROVE  SessionInv'
    <3>1. [key |-> k, at |-> now, size |-> s] \in Observations
      BY ServiceAssumption DEF SessionInv, Observations
    <3>2. <<[key |-> k, at |-> now, size |-> s]>> \in Seq(Observations) BY <3>1
    <3>3. QED BY <2>4, <3>2, PollKeeps
  <2>5. CASE PollCompletes(<<>>)
    <3>1. <<>> \in Seq(Observations) OBVIOUS
    <3>2. QED BY <2>5, <3>1, PollKeeps
  <2>6. ASSUME NEW f \in Failures, PollFails(f) PROVE SessionInv'
    BY <2>6 DEF PollFails, SessionInv
  <2>7. CASE UNCHANGED vars BY <2>7 DEF vars, SessionInv
  <2>8. QED BY <2>1, <2>2, <2>3, <2>4, <2>5, <2>6, <2>7 DEF Next
<1>3. QED BY <1>1, <1>2, PTL DEF Spec

-----------------------------------------------------------------------------
(* What is measured *)

OldestObjects(h) == Ordered(Objects(h), OldestFirst)
Values(h) == Seconds(IntervalsFor(h))
Latest(h) == IF OldestObjects(h) = <<>> THEN 0 ELSE OldestObjects(h)[Len(OldestObjects(h))].at
Threshold(h, configured) ==
  LateAfter(Expected(configured, Len(Ascending(Values(h))), Median(Ascending(Values(h)))))

\* Intervals are whole numbers, not below zero.
LEMMA ValuesAreNumbers ==
  ASSUME NEW h, IsStore(h)
  PROVE  Values(h) \in Seq(Int) /\ \A i \in 1..Len(Values(h)) : Values(h)[i] >= 0
<1>1. /\ OldestObjects(h) \in Seq(Objects(h))
      /\ \A o \in Objects(h) : o.at \in Nat
  BY StoreObjects, OldestOrdered DEF OldestObjects, Keyed
<1>2. PICK n \in Nat : n = Len(OldestObjects(h)) BY <1>1
<1>3. PICK m \in Nat : m = Max({0, n - 1}) /\ (m = 0 \/ m = n - 1)
  <2>1. Max({0, n - 1}) = IF n - 1 > 0 THEN n - 1 ELSE 0 BY <1>2 DEF Max
  <2>2. QED BY <1>2, <2>1
<1>4. \A i \in 1..m : /\ OldestObjects(h)[i].at \in Nat
                      /\ OldestObjects(h)[i + 1].at \in Nat
  <2> TAKE i \in 1..m
  <2>1. i \in 1..n /\ i + 1 \in 1..n BY <1>2, <1>3
  <2>2. OldestObjects(h)[i] \in Objects(h) /\ OldestObjects(h)[i + 1] \in Objects(h)
    BY <1>1, <1>2, <2>1
  <2>3. QED BY <1>1, <2>2
<1>5. \A a, b \in Nat : SecondsBetween(a, b) \in Nat
  <2>1. \A a, b \in Nat : Max({0, b - a}) = IF b - a > 0 THEN b - a ELSE 0 BY DEF Max
  <2>2. \A a, b \in Nat : SecondsBetween(a, b) = 4 * (IF b - a > 0 THEN b - a ELSE 0)
    BY <2>1 DEF SecondsBetween
  <2>3. QED BY <2>2
<1>6. /\ DOMAIN IntervalsFor(h) = 1..m
      /\ \A i \in 1..m : IntervalsFor(h)[i].seconds
                           = SecondsBetween(OldestObjects(h)[i].at, OldestObjects(h)[i + 1].at)
  BY <1>2, <1>3 DEF IntervalsFor, OldestObjects
<1>7. Values(h) \in [1..m -> Nat] BY <1>4, <1>5, <1>6 DEF Values, Seconds
<1>8. QED BY <1>7

Gap(h, asOf) ==
  IF OldestObjects(h) = <<>> THEN Missing ELSE SecondsBetween(Min({Latest(h), asOf}), asOf)
Lateness(h, asOf, configured) ==
  Timing(Latest(h), Gap(h, asOf), Threshold(h, configured), asOf)

\* The statistics by their parts
LEMMA StatisticsByPart ==
  ASSUME NEW h, IsStore(h), NEW asOf, NEW configured,
         NEW s, s = StatisticsFor(h, asOf, configured),
         NEW w, w = Ascending(Values(h))
  PROVE  /\ s.median = Median(w) /\ s.p95 = Percentile95(w)
         /\ s.largest = IF w = <<>> THEN Missing ELSE w[Len(w)]
         /\ s.status = Lateness(h, asOf, configured).status
         /\ s.lateSince = Lateness(h, asOf, configured).lateSince
         /\ s.overdue = Lateness(h, asOf, configured).overdue
         /\ s.size = ClassifyNewestSize(OldestObjects(h))
         /\ s.severity = SeverityOf(s.status, s.size)
<1>1. Ascending(Seconds(IntervalsFor(h))) = w BY DEF Values
<1>2. s = Measured(OldestObjects(h), w, Median(w), asOf, configured)
  BY <1>1 DEF StatisticsFor, OldestObjects
<1>3. Len(OldestObjects(h)) = 0 <=> OldestObjects(h) = <<>>
  BY StoreObjects, OldestOrdered DEF OldestObjects
<1>4. Lateness(h, asOf, configured)
        = Timing(IF Len(OldestObjects(h)) = 0 THEN 0
                 ELSE OldestObjects(h)[Len(OldestObjects(h))].at,
                 IF Len(OldestObjects(h)) = 0 THEN Missing
                 ELSE SecondsBetween(Min({OldestObjects(h)[Len(OldestObjects(h))].at, asOf}), asOf),
                 LateAfter(Expected(configured, Len(w), Median(w))), asOf)
  BY <1>3 DEF Lateness, Latest, Gap, Threshold
<1>5. QED BY <1>2, <1>4 DEF Measured

LEMMA ThresholdIsNumber ==
  ASSUME NEW h, IsStore(h), NEW configured \in Int
  PROVE  Threshold(h, configured) \in Nat \cup {Missing}
<1> DEFINE w == Ascending(Values(h))
<1>1. Rising(w) BY ValuesAreNumbers, AscendingSorts
<1> HIDE DEF w
<1>2. Len(w) \in Nat BY <1>1 DEF Rising
<1>3. Median(w) \in Int
  <2>1. CASE w = <<>>
    <3>1. Len(w) = 0 BY <2>1
    <3>2. Median(w) = Missing BY <3>1 DEF Median
    <3>3. QED BY <3>2 DEF Missing
  <2>2. QED BY <1>1, <2>1, MedianIsCentral
<1>4. Expected(configured, Len(w), Median(w)) \in Nat \cup {Missing}
  BY <1>2, <1>3 DEF Expected
<1>5. \A e \in Nat \cup {Missing} : LateAfter(e) \in Nat \cup {Missing}
  BY DEF LateAfter, Missing
<1>6. QED BY <1>4, <1>5 DEF Threshold, w

\* A feed is late when the newest object is older than the threshold, and since the
\* moment at which it became so.
LEMMA LateIsPastTheThreshold ==
  ASSUME NEW h, IsStore(h), NEW asOf \in Nat, NEW configured \in Int,
         NEW s, s = StatisticsFor(h, asOf, configured),
         NEW after, after = Threshold(h, configured)
  PROVE  /\ after \in Nat \cup {Missing} /\ Latest(h) \in Nat
         /\ s.status \in {"unknown", "healthy", "late"}
         /\ s.status = "late" <=> /\ OldestObjects(h) # <<>> /\ after # Missing
                                  /\ 4 * (asOf - Latest(h)) > after
         /\ s.status = "late" => /\ s.lateSince = 4 * Latest(h) + after
                                 /\ s.overdue = 4 * (asOf - Latest(h)) - after
         /\ s.status # "late" => s.lateSince = Missing
<1>1. /\ OldestObjects(h) \in Seq(Objects(h))
      /\ \A o \in Objects(h) : o.at \in Nat
  BY StoreObjects, OldestOrdered DEF OldestObjects, Keyed
<1>2. PICK n \in Nat : n = Len(OldestObjects(h)) /\ (n = 0 <=> OldestObjects(h) = <<>>)
  BY <1>1
<1>3. Latest(h) \in Nat
  <2>1. CASE n > 0
    <3>1. OldestObjects(h)[n] \in Objects(h) BY <1>1, <1>2, <2>1
    <3>2. Latest(h) = OldestObjects(h)[n].at BY <1>2, <2>1 DEF Latest
    <3>3. QED BY <1>1, <3>1, <3>2
  <2>2. QED BY <1>2, <2>1 DEF Latest
<1>4. PICK last \in Nat : last = Latest(h) BY <1>3
<1>5. PICK gap : gap = Gap(h, asOf) OBVIOUS
<1>6. IF n = 0 THEN gap = Missing
      ELSE gap \in Nat /\ gap = (IF last < asOf THEN 4 * (asOf - last) ELSE 0)
  <2>1. Min({last, asOf}) = IF last < asOf THEN last ELSE asOf BY DEF Min
  <2>2. \A a \in Nat : Max({0, asOf - a}) = IF asOf - a > 0 THEN asOf - a ELSE 0 BY DEF Max
  <2>3. SecondsBetween(Min({last, asOf}), asOf) = IF last < asOf THEN 4 * (asOf - last) ELSE 0
    BY <2>1, <2>2 DEF SecondsBetween
  <2>4. gap = IF n = 0 THEN Missing ELSE SecondsBetween(Min({last, asOf}), asOf)
    BY <1>2, <1>4, <1>5 DEF Gap
  <2>5. QED BY <2>3, <2>4
<1>7. PICK timing : timing = Timing(last, gap, after, asOf) OBVIOUS
<1>8. s.status = timing.status /\ s.lateSince = timing.lateSince /\ s.overdue = timing.overdue
  <2>1. timing = Lateness(h, asOf, configured) BY <1>4, <1>5, <1>7 DEF Lateness
  <2>2. QED BY <2>1, StatisticsByPart
<1>9. after \in Nat \cup {Missing} BY ThresholdIsNumber
<1>10. /\ timing.status \in {"unknown", "healthy", "late"}
       /\ timing.status = "late" <=> n # 0 /\ after # Missing /\ 4 * (asOf - last) > after
       /\ timing.status = "late" => /\ timing.lateSince = 4 * last + after
                                    /\ timing.overdue = 4 * (asOf - last) - after
       /\ timing.status # "late" => timing.lateSince = Missing
  <2>1. CASE gap = Missing \/ after = Missing
    <3>1. timing = [status |-> "unknown", lateSince |-> Missing, overdue |-> Missing]
      BY <1>7, <2>1 DEF Timing
    <3>2. n = 0 \/ after = Missing BY <1>6, <2>1 DEF Missing
    <3>3. QED BY <3>1, <3>2
  <2>2. CASE gap # Missing /\ after # Missing
    <3>1. n # 0 /\ after \in Nat /\ gap \in Nat BY <1>6, <1>9, <2>2
    <3>2. gap > after <=> 4 * (asOf - last) > after BY <1>6, <3>1
    <3>3. CASE gap > after
      <4>1. timing = [status |-> "late", lateSince |-> 4 * last + after, overdue |-> gap - after]
        BY <1>7, <2>2, <3>3 DEF Timing, LateSince
      <4>2. gap = 4 * (asOf - last) BY <1>6, <3>1, <3>3
      <4>3. QED BY <2>2, <3>1, <3>2, <3>3, <4>1, <4>2
    <3>4. CASE ~(gap > after)
      <4>1. timing = [status |-> "healthy", lateSince |-> Missing, overdue |-> Missing]
        BY <1>7, <2>2, <3>4 DEF Timing
      <4>2. QED BY <3>2, <3>4, <4>1
    <3>5. QED BY <3>3, <3>4
  <2>3. QED BY <2>1, <2>2
<1>11. QED BY <1>2, <1>4, <1>8, <1>9, <1>10

Timings == {"unknown", "healthy", "late"}
SizeClasses == {"unknown", "normal", "large", "small", "empty"}

LEMMA SizeIsClass ==
  ASSUME NEW objects
  PROVE  ClassifyNewestSize(objects) \in SizeClasses
<1>1. \A distance, deviation, median : Outlier(distance, deviation, median) \in SizeClasses
  BY DEF Outlier, SizeClasses
<1>2. \A newest, sizes, median : ClassifySize(newest, sizes, median) \in SizeClasses
  BY <1>1 DEF ClassifySize, SizeClasses
<1>3. QED BY <1>2 DEF ClassifyNewestSize, SizeClasses

\* The worse of the two decides.
LEMMA SeverityIsTheWorse ==
  ASSUME NEW punctual \in Timings, NEW size \in SizeClasses,
         punctual = "late" \/ size \in {"empty", "small", "large"}
  PROVE  Rank[SeverityOf(punctual, size)] >= Rank["warning"]
<1>1. /\ Rank["unknown"] = 0 /\ Rank["ok"] = 1 /\ Rank["warning"] = 2 /\ Rank["critical"] = 3
  BY DEF Rank
<1>2. PICK timing : timing = [unknown |-> "unknown", healthy |-> "ok", late |-> "warning"][punctual]
  OBVIOUS
<1>3. PICK bySize : bySize = [unknown |-> "unknown", normal |-> "ok", large |-> "warning",
                              small |-> "warning", empty |-> "critical"][size]
  OBVIOUS
<1>4. SeverityOf(punctual, size) = IF Rank[timing] > Rank[bySize] THEN timing ELSE bySize
  BY <1>2, <1>3 DEF SeverityOf
<1>5. timing \in {"unknown", "ok", "warning"} /\ (punctual = "late" => timing = "warning")
  BY <1>2 DEF Timings
<1>6. /\ bySize \in {"unknown", "ok", "warning", "critical"}
      /\ size \in {"small", "large"} => bySize = "warning"
      /\ size = "empty" => bySize = "critical"
  BY <1>3 DEF SizeClasses
<1>7. QED BY <1>1, <1>4, <1>5, <1>6

-----------------------------------------------------------------------------
(* An episode keeps its beginning *)

LEMMA EpisodeFollows == SessionInv => EpisodeKeepsItsBeginning
<1> SUFFICES ASSUME SessionInv, snapshot # None
             PROVE  LET At(t) == StatisticsFor(snapshot.history, t, watcher.expected)
                        first == At(snapshot.asOf)
                    IN  first.status = "late" =>
                          \A t \in (snapshot.asOf + 1)..(MaxTime + 2) :
                            LET then == At(t)
                            IN  /\ then.status = "late" /\ then.lateSince = first.lateSince
                                /\ then.overdue > first.overdue /\ then.size = first.size
  BY DEF EpisodeKeepsItsBeginning
<1>1. PICK h : h = snapshot.history OBVIOUS
<1>2. PICK asOf \in Nat : asOf = snapshot.asOf BY DEF SessionInv
<1>3. PICK c \in Int : c = watcher.expected
  <2>1. watcher.expected \in Cadences \cup {Missing, 0} BY DEF SessionInv
  <2>2. \A n \in Cadences \cup {Missing, 0} : n \in Int BY ServiceAssumption DEF Missing
  <2>3. QED BY <2>1, <2>2
<1>4. IsStore(h) BY <1>1 DEF SessionInv
<1>5. PICK first : first = StatisticsFor(h, asOf, c) OBVIOUS
<1>6. ASSUME NEW t \in Nat, t > asOf, first.status = "late",
             NEW then, then = StatisticsFor(h, t, c)
      PROVE  /\ then.status = "late" /\ then.lateSince = first.lateSince
             /\ then.overdue > first.overdue /\ then.size = first.size
  <2>1. PICK after : after = Threshold(h, c) OBVIOUS
  <2>2. /\ after \in Nat \cup {Missing} /\ Latest(h) \in Nat
        /\ OldestObjects(h) # <<>> /\ after # Missing
        /\ 4 * (asOf - Latest(h)) > after
        /\ first.lateSince = 4 * Latest(h) + after
        /\ first.overdue = 4 * (asOf - Latest(h)) - after
    BY <1>4, <1>5, <1>6, <2>1, LateIsPastTheThreshold
  <2>3. 4 * (t - Latest(h)) > 4 * (asOf - Latest(h)) BY <1>6, <2>2
  <2>4. 4 * (t - Latest(h)) > after BY <1>6, <2>2, <2>3
  <2>5. then.status = "late" <=> /\ OldestObjects(h) # <<>> /\ after # Missing
                                 /\ 4 * (t - Latest(h)) > after
    BY <1>4, <1>6, <2>1, LateIsPastTheThreshold
  <2>6. then.status = "late" BY <2>2, <2>4, <2>5
  <2>7. then.lateSince = 4 * Latest(h) + after /\ then.overdue = 4 * (t - Latest(h)) - after
    BY <1>4, <1>6, <2>1, <2>6, LateIsPastTheThreshold
  <2>8. then.size = ClassifyNewestSize(OldestObjects(h))
    BY <1>4, <1>6, StatisticsByPart
  <2>9. first.size = ClassifyNewestSize(OldestObjects(h))
    BY <1>4, <1>5, StatisticsByPart
  <2>10. then.overdue > first.overdue BY <1>6, <2>2, <2>3, <2>7
  <2>11. QED BY <2>2, <2>6, <2>7, <2>8, <2>9, <2>10
<1>7. \A t \in (asOf + 1)..(MaxTime + 2) : t \in Nat /\ t > asOf BY ServiceAssumption
<1>8. first.status = "late" =>
        \A t \in (asOf + 1)..(MaxTime + 2) :
          /\ StatisticsFor(h, t, c).status = "late"
          /\ StatisticsFor(h, t, c).lateSince = first.lateSince
          /\ StatisticsFor(h, t, c).overdue > first.overdue
          /\ StatisticsFor(h, t, c).size = first.size
  BY <1>6, <1>7
<1>9. QED BY <1>1, <1>2, <1>3, <1>5, <1>8

\* The episode by which clients tell late feeds apart, for any history and any cadence,
\* configured or learned: without new objects it begins when it began, and lasts.
THEOREM EpisodesKeepTheirBeginning == Spec => []EpisodeKeepsItsBeginning
BY SessionInvariant, EpisodeFollows, PTL

-----------------------------------------------------------------------------
(* The statistics mean what they say *)

CountBelow(v, x) == Cardinality({i \in 1..Len(v) : v[i] <= x})
CountAbove(v, x) == Cardinality({i \in 1..Len(v) : v[i] >= x})

\* Counting the sorted values counts the values.
LEMMA SortedCounts ==
  ASSUME NEW v \in Seq(Int), NEW x \in Int
  PROVE  CountBelow(Ascending(v), x) = CountBelow(v, x) /\ CountAbove(Ascending(v), x) = CountAbove(v, x)
<1> DEFINE w == Ascending(v)
<1>1. /\ w \in Seq(Int) /\ Len(w) = Len(v)
      /\ \A S : Cardinality(Places(v, S)) = Cardinality(Places(w, S))
  BY AscendingSorts DEF Rising
<1> HIDE DEF w
<1>2. /\ {i \in 1..Len(v) : v[i] <= x} = Places(v, {y \in Int : y <= x})
      /\ {i \in 1..Len(v) : v[i] >= x} = Places(v, {y \in Int : y >= x})
  BY DEF Places
<1>3. /\ {i \in 1..Len(w) : w[i] <= x} = Places(w, {y \in Int : y <= x})
      /\ {i \in 1..Len(w) : w[i] >= x} = Places(w, {y \in Int : y >= x})
  BY <1>1 DEF Places
<1>4. QED BY <1>1, <1>2, <1>3 DEF CountBelow, CountAbove, w

\* Median, 95th percentile and largest, of any numbers
LEMMA MeasuresAreRight ==
  ASSUME NEW v \in Seq(Int), v # <<>>,
         NEW median, median = Median(Ascending(v)),
         NEW p95, p95 = Percentile95(Ascending(v)),
         NEW largest, largest = Ascending(v)[Len(v)]
  PROVE  /\ median \in Int /\ p95 \in Int /\ largest \in Int
         /\ 2 * CountBelow(v, median) >= Len(v) /\ 2 * CountAbove(v, median) >= Len(v)
         /\ p95 \in ToSet(v) /\ 100 * CountBelow(v, p95) >= 95 * Len(v)
         /\ \A x \in Int : x < p95 => 100 * CountBelow(v, x) < 95 * Len(v)
         /\ median <= largest /\ CountBelow(v, largest) = Len(v)
<1> DEFINE w == Ascending(v)
<1>1. /\ Rising(w) /\ Len(w) = Len(v)
      /\ \A i \in 1..Len(v) : \E j \in 1..Len(v) : w[i] = v[j]
  BY AscendingSorts
<1>2. PICK n \in Nat : n = Len(v) /\ n > 0 BY DEF ToSet
<1>3. median = Median(w) /\ p95 = Percentile95(w) /\ largest = w[n] BY <1>2
<1> HIDE DEF w
<1>4. w \in Seq(Int) /\ Len(w) = n /\ w # <<>> BY <1>1, <1>2 DEF Rising
<1>5. /\ median \in Int /\ median <= largest
      /\ 2 * CountBelow(w, median) >= n /\ 2 * CountAbove(w, median) >= n
  BY <1>1, <1>3, <1>4, MedianIsCentral DEF CountBelow, CountAbove
<1>6. /\ \E k \in 1..n : p95 = w[k]
      /\ 100 * CountBelow(w, p95) >= 95 * n
      /\ \A x \in Int : x < p95 => 100 * CountBelow(w, x) < 95 * n
  BY <1>1, <1>3, <1>4, PercentileIsLeast DEF CountBelow
<1>7. p95 \in Int /\ largest \in Int BY <1>2, <1>3, <1>4, <1>6
<1>8. p95 \in ToSet(v)
  <2>1. PICK k \in 1..n : p95 = w[k] BY <1>6
  <2>2. PICK j \in 1..n : w[k] = v[j] BY <1>1, <1>2
  <2>3. DOMAIN v = 1..n BY <1>2
  <2>4. QED BY <2>1, <2>2, <2>3 DEF ToSet
<1>9. CountBelow(w, largest) = n
  <2>1. \A i \in 1..n : w[i] <= w[n]
    <3> TAKE i \in 1..n
    <3>1. n \in 1..n /\ w[i] \in Int /\ w[n] \in Int BY <1>2, <1>4
    <3>2. i < n => w[i] <= w[n] BY <1>1, <1>2, <3>1 DEF Rising
    <3>3. QED BY <3>1, <3>2
  <2>2. {i \in 1..Len(w) : w[i] <= largest} = 1..n BY <1>3, <1>4, <2>1
  <2>3. 1 \in Int /\ n \in Int /\ 1 <= n + 1 /\ n - 1 + 1 = n OBVIOUS
  <2>4. Cardinality(1..n) = n - 1 + 1 BY ONLY <2>3, RangeSize
  <2>5. QED BY <2>2, <2>3, <2>4 DEF CountBelow
<1>10. \A x \in Int : CountBelow(w, x) = CountBelow(v, x) /\ CountAbove(w, x) = CountAbove(v, x)
  BY SortedCounts DEF w
<1>11. QED BY <1>2, <1>5, <1>6, <1>7, <1>8, <1>9, <1>10

LEMMA StatisticsFollow == SessionInv => StatisticsAgree
<1> SUFFICES ASSUME SessionInv, snapshot # None PROVE StatisticsAgree
  BY DEF StatisticsAgree
<1> DEFINE s == Statistics
           v == Seconds(IntervalsFor(snapshot.history))
           n == Len(v)
<1>1. PICK h : h = snapshot.history OBVIOUS
<1>2. PICK asOf \in Nat : asOf = snapshot.asOf BY DEF SessionInv
<1>3. PICK c \in Int : c = watcher.expected
  <2>1. watcher.expected \in Cadences \cup {Missing, 0} BY DEF SessionInv
  <2>2. \A m \in Cadences \cup {Missing, 0} : m \in Int BY ServiceAssumption DEF Missing
  <2>3. QED BY <2>1, <2>2
<1>4. IsStore(h) BY <1>1 DEF SessionInv
<1>5. s = StatisticsFor(h, asOf, c) BY <1>1, <1>2, <1>3 DEF Statistics
<1>6. v = Values(h) BY <1>1 DEF Values
<1> HIDE DEF s, v
<1>7. v \in Seq(Int) BY <1>4, <1>6, ValuesAreNumbers
<1>8. n \in Nat /\ (n = 0 <=> v = <<>>) BY <1>7
<1> HIDE DEF n
<1>9. /\ s.median = Median(Ascending(v)) /\ s.p95 = Percentile95(Ascending(v))
      /\ s.largest = IF Ascending(v) = <<>> THEN Missing ELSE Ascending(v)[Len(Ascending(v))]
      /\ s.severity = SeverityOf(s.status, s.size)
      /\ s.size = ClassifyNewestSize(OldestObjects(h))
  BY <1>4, <1>5, <1>6, StatisticsByPart
<1>10. /\ Len(Ascending(v)) = n /\ (Ascending(v) = <<>> <=> n = 0)
  <2>1. Ascending(v) \in Seq(Int) /\ Len(Ascending(v)) = n
    BY <1>7, AscendingSorts DEF Rising, n
  <2>2. QED BY <2>1
<1>11. n = 0 => {s.median, s.p95, s.largest} = {Missing}
  BY <1>9, <1>10 DEF Median, Percentile95
<1>12. n > 0 =>
         /\ 2 * CountBelow(v, s.median) >= n /\ 2 * CountAbove(v, s.median) >= n
         /\ s.p95 \in ToSet(v) /\ 100 * CountBelow(v, s.p95) >= 95 * n
         /\ \A x \in Int : x < s.p95 => 100 * CountBelow(v, x) < 95 * n
         /\ s.median <= s.largest /\ CountBelow(v, s.largest) = n
  BY <1>7, <1>8, <1>9, <1>10, MeasuresAreRight DEF n
<1>13. \A x \in ToSet(v) : x \in Int BY <1>7 DEF ToSet
<1>14. /\ s.lateSince # Missing <=> s.status = "late"
       /\ s.status = "late" => s.overdue > 0 /\ s.lateSince + s.overdue = 4 * asOf
       /\ s.status \in Timings
  <2>1. PICK after : after = Threshold(h, c) OBVIOUS
  <2>2. /\ after \in Nat \cup {Missing} /\ Latest(h) \in Nat
        /\ s.status \in {"unknown", "healthy", "late"}
        /\ s.status = "late" => /\ after # Missing /\ 4 * (asOf - Latest(h)) > after
        /\ s.status = "late" => /\ s.lateSince = 4 * Latest(h) + after
                                /\ s.overdue = 4 * (asOf - Latest(h)) - after
        /\ s.status # "late" => s.lateSince = Missing
    BY <1>4, <1>5, <2>1, LateIsPastTheThreshold
  <2>3. CASE s.status = "late"
    <3>1. after \in Nat BY <2>2, <2>3
    <3>2. QED BY <2>2, <2>3, <3>1 DEF Missing, Timings
  <2>4. CASE s.status # "late" BY <2>2, <2>4 DEF Timings
  <2>5. QED BY <2>3, <2>4
<1>15. s.status = "late" \/ s.size \in {"empty", "small", "large"} =>
         Rank[s.severity] >= Rank["warning"]
  <2>1. s.size \in SizeClasses BY <1>9, SizeIsClass
  <2>2. QED BY <1>9, <1>14, <2>1, SeverityIsTheWorse
<1>16. n > 0 => \A x \in ToSet(v) : x < s.p95 => 100 * CountBelow(v, x) < 95 * n
  BY <1>12, <1>13
<1>17. s.status = "late" => s.overdue > 0 /\ s.lateSince + s.overdue = 4 * snapshot.asOf
  BY <1>2, <1>14
<1>18. QED BY <1>11, <1>12, <1>14, <1>15, <1>16, <1>17
       DEF StatisticsAgree, CountBelow, CountAbove, s, v, n

\* For any history the median, the 95th percentile and the largest interval are what
\* these words mean, and lateness, its beginning and the severity fit together.
THEOREM StatisticsMeanWhatTheySay == Spec => []StatisticsAgree
BY SessionInvariant, StatisticsFollow, PTL

-----------------------------------------------------------------------------
(* What is read *)

LEMMA CurrentFits ==
  ASSUME SessionInv
  PROVE  Cardinality(Objects(Current)) <= Capacity
<1>1. CASE snapshot = None
  <2>1. Current = [k \in {} |-> 0] BY <1>1 DEF Current
  <2>2. Objects(Current) = {} BY <2>1 DEF Objects
  <2>3. QED BY <2>2, FS_EmptySet, HistoryAssumption
<1>2. CASE snapshot # None BY <1>2 DEF SessionInv, Current
<1>3. QED BY <1>1, <1>2

\* Up to a limit the newest objects are listed first to last, and their history is
\* told from the oldest of them on.
LEMMA ViewsOfOneLimit ==
  ASSUME SessionInv, NEW limit \in 1..MaxResponseObjects
  PROVE  ViewsAgree(ObjectsList(limit), StatisticsHistory(limit))
<1> DEFINE A == Objects(Current)
           N == Cardinality(A)
           F == First(limit, A, NewestFirst)
           D == Ordered(A, NewestFirst)
           U == Ordered(A, OldestFirst)
           list == ObjectsList(limit)
           view == StatisticsHistory(limit)
<1>0. limit \in Nat /\ limit >= 1 /\ limit <= MaxResponseObjects BY ServiceAssumption
<1>1. /\ IsFiniteSet(A) /\ Keyed(A) /\ N \in Nat /\ N <= Capacity
      /\ \A o \in A : o.at \in Nat
  <2>1. IsFiniteSet(A) /\ Keyed(A) BY CurrentIsStore, StoreObjects
  <2>2. QED BY <2>1, CurrentFits, FS_CardinalityType DEF Keyed
<1>2. PICK m \in Nat : m = (IF limit <= N THEN limit ELSE N) BY <1>0, <1>1
<1>3. /\ F \in SUBSET A /\ IsFiniteSet(F) /\ Keyed(F) /\ Cardinality(F) = m
      /\ \A o \in F : Newer(F, o) = Newer(A, o)
  BY <1>0, <1>1, <1>2, FirstKeepsRanks
<1>4. /\ D \in Seq(A) /\ Len(D) = N
      /\ \A i \in 1..Len(D) : Cardinality(Newer(A, D[i])) = i - 1
  BY <1>1, OrderedKeeps
<1>5. list = Ordered(F, NewestFirst) BY DEF ObjectsList
<1> HIDE DEF F, list
<1>6. /\ list \in Seq(F) /\ Len(list) = m
      /\ \A i \in 1..Len(list) : Cardinality(Newer(F, list[i])) = i - 1
  <2>1. /\ Ordered(F, NewestFirst) \in Seq(F) /\ Len(Ordered(F, NewestFirst)) = Cardinality(F)
        /\ \A i \in 1..Len(Ordered(F, NewestFirst)) :
             Cardinality(Newer(F, Ordered(F, NewestFirst)[i])) = i - 1
    BY <1>3, OrderedKeeps
  <2>2. QED BY <1>3, <1>5, <2>1
<1> HIDE DEF D
<1>7. \A o, p \in A : Cardinality(Newer(A, o)) = Cardinality(Newer(A, p)) => o = p
  BY <1>1, ObjectsAreOrdered, RanksAreExact
<1> HIDE DEF A, N
<1>8. \A i \in 1..m : list[i] = D[i] /\ D[i] \in A
  <2> TAKE i \in 1..m
  <2>1. list[i] \in F /\ Cardinality(Newer(F, list[i])) = i - 1 BY <1>6
  <2>2. list[i] \in A /\ Cardinality(Newer(A, list[i])) = i - 1 BY <1>3, <2>1
  <2>3. i \in 1..N BY <1>1, <1>2
  <2>4. D[i] \in A /\ Cardinality(Newer(A, D[i])) = i - 1 BY <1>4, <2>3
  <2>5. QED BY <1>7, <2>2, <2>4
<1>9. /\ U \in Seq(A) /\ Len(U) = N
      /\ \A i, j \in 1..Len(U) : i < j => U[i].at <= U[j].at
  BY <1>1, OldestOrdered DEF A, N
<1>10. \A j \in 1..N : D[j].at = U[N - j + 1].at BY <1>1, OppositeOrders DEF A, N, D
<1> DEFINE kept == SubSeq(U, Max({0, Len(U) - limit}) + 1, Len(U))
<1>11. view = [i \in DOMAIN kept |->
                 [key |-> kept[i].key, at |-> kept[i].at,
                  interval |-> IF i = 1 THEN Missing ELSE 4 * (kept[i].at - kept[i - 1].at)]]
  BY DEF StatisticsHistory, A, U
<1> HIDE DEF U, view
<1>12. Max({0, Len(U) - limit}) = N - m
  <2>1. Max({0, N - limit}) = IF N - limit > 0 THEN N - limit ELSE 0 BY <1>0, <1>1 DEF Max
  <2>2. QED BY <1>0, <1>1, <1>2, <1>9, <2>1
<1>13. /\ DOMAIN kept = 1..m
       /\ \A i \in 1..m : kept[i] = U[N - m + i] /\ kept[i].at \in Nat
  <2>1. m <= N BY <1>0, <1>1, <1>2
  <2>2. kept = SubSeq(U, N - m + 1, N) BY <1>9, <1>12
  <2>3. \A i \in N - m + 1..N : i \in 1..N /\ U[i] \in A BY <1>1, <1>2, <1>9, <2>1
  <2>4. /\ DOMAIN kept = 1..m
        /\ \A i \in 1..m : kept[i] = U[N - m + i]
    <3> DEFINE low == N - m + 1
    <3>1. low \in Int /\ N \in Int /\ N - low + 1 = m /\ (low <= N <=> m # 0)
      BY <1>1, <1>2, <2>1
    <3>2. \A i \in low..N : U[i] \in A BY <2>3
    <3>3. kept = SubSeq(U, low, N) BY <2>2
    <3> HIDE DEF low, kept
    <3>4. /\ kept \in Seq(A) /\ Len(kept) = IF low <= N THEN N - low + 1 ELSE 0
          /\ \A i \in 1..(N - low + 1) : kept[i] = U[low + i - 1]
      BY <3>1, <3>2, <3>3, SubSeqProperties
    <3>5. Len(kept) = m BY <1>2, <3>1, <3>4
    <3>6. \A i \in 1..m : low + i - 1 = N - m + i BY <1>1, <1>2 DEF low
    <3>7. QED BY <3>1, <3>4, <3>5, <3>6
  <2>5. \A i \in 1..m : N - m + i \in N - m + 1..N BY <1>1, <1>2, <2>1
  <2>6. QED BY <1>1, <2>3, <2>4, <2>5
<1> HIDE DEF kept
<1>14. Len(view) = m /\ \A i \in 1..m : view[i].at = kept[i].at
  <2>1. DOMAIN view = 1..m BY <1>11, <1>13
  <2>2. view = [i \in 1..m |-> view[i]] BY <1>11, <1>13
  <2>3. Len(view) = m
    <3>1. PICK T : T = {view[i] : i \in 1..m} OBVIOUS
    <3>2. view \in [1..m -> T] BY <2>2, <3>1
    <3>3. view \in Seq(T) BY <3>2
    <3>4. QED BY <2>1, <3>3
  <2>4. QED BY <1>11, <1>13, <2>3
<1>15. \A i \in 1..m : view[i].at = list[m + 1 - i].at
  <2> TAKE i \in 1..m
  <2>1. m + 1 - i \in 1..m /\ m + 1 - i \in 1..N BY <1>1, <1>2
  <2>2. D[m + 1 - i].at = U[N - (m + 1 - i) + 1].at BY <1>10, <2>1
  <2>3. N - (m + 1 - i) + 1 = N - m + i BY <1>1, <1>2
  <2>4. QED BY <1>8, <1>13, <1>14, <2>1, <2>2, <2>3
<1>16. \A i \in 2..m : view[i].interval >= 0
  <2> TAKE i \in 2..m
  <2>1. /\ i \in 1..m /\ i - 1 \in 1..m /\ i # 1
        /\ N - m + i \in 1..N /\ N - m + (i - 1) \in 1..N /\ N - m + (i - 1) < N - m + i
    BY <1>1, <1>2
  <2>2. kept[i].at >= kept[i - 1].at /\ kept[i].at \in Nat /\ kept[i - 1].at \in Nat
    BY <1>9, <1>13, <2>1
  <2>3. view[i].interval = 4 * (kept[i].at - kept[i - 1].at) BY <1>11, <1>13, <2>1
  <2>4. QED BY <2>2, <2>3
<1>17. m <= Min({MaxResponseObjects, Capacity})
  <2>1. MaxResponseObjects \in Nat /\ Capacity \in Nat
    BY ServiceAssumption, HistoryAssumption
  <2>2. Min({MaxResponseObjects, Capacity})
          = IF MaxResponseObjects <= Capacity THEN MaxResponseObjects ELSE Capacity
    BY <2>1 DEF Min
  <2>3. QED BY <1>0, <1>1, <1>2, <2>1, <2>2
<1>18. QED BY <1>6, <1>14, <1>15, <1>16, <1>17 DEF ViewsAgree, list, view

\* What the two views and the status answer
LEMMA Asked ==
  ASSUME SessionInv, NEW limit \in Int, NEW shown,
         shown = IF limit = Missing THEN MaxResponseObjects ELSE limit
  PROVE  /\ shown \notin 1..MaxResponseObjects =>
              /\ Ask("objects.list", limit) = Error("invalidParams")
              /\ Ask("statistics.history", limit) = Error("invalidParams")
         /\ shown \in 1..MaxResponseObjects /\ watcher = None =>
              /\ Ask("objects.list", limit) = Error("watcherNotFound")
              /\ Ask("statistics.history", limit) = Error("watcherNotFound")
         /\ shown \in 1..MaxResponseObjects /\ watcher # None =>
              /\ Ask("objects.list", limit) = [objects |-> ObjectsList(shown)]
              /\ Ask("statistics.history", limit) = [samples |-> StatisticsHistory(shown)]
<1> DEFINE list == [method |-> "objects.list", id |-> "known", limit |-> limit]
           view == [method |-> "statistics.history", id |-> "known", limit |-> limit]
<1>1. Limit(list) = shown /\ Limit(view) = shown BY DEF Limit
<1>2. /\ InvalidParams(list) <=> shown \notin 1..MaxResponseObjects
      /\ InvalidParams(view) <=> shown \notin 1..MaxResponseObjects
  BY <1>1 DEF InvalidParams
<1>3. list.method \in Methods /\ view.method \in Methods BY DEF Methods
<1>4. CASE shown \notin 1..MaxResponseObjects
  <2>1. Answer(list) = Error("invalidParams") BY <1>2, <1>3, <1>4 DEF Answer
  <2>2. Answer(view) = Error("invalidParams") BY <1>2, <1>3, <1>4 DEF Answer
  <2>3. QED BY <1>4, <2>1, <2>2 DEF Ask
<1>5. CASE shown \in 1..MaxResponseObjects /\ watcher = None
  <2>1. Answer(list) = Error("watcherNotFound") BY <1>2, <1>3, <1>5 DEF Answer
  <2>2. Answer(view) = Error("watcherNotFound") BY <1>2, <1>3, <1>5 DEF Answer
  <2>3. QED BY <1>5, <2>1, <2>2 DEF Ask
<1>6. CASE shown \in 1..MaxResponseObjects /\ watcher # None
  <2>1. Answer(list) = [objects |-> ObjectsList(shown)]
    BY <1>1, <1>2, <1>3, <1>6 DEF Answer
  <2>2. Answer(view) = [samples |-> StatisticsHistory(shown)]
    BY <1>1, <1>2, <1>3, <1>6 DEF Answer
  <2>3. QED BY <1>6, <2>1, <2>2 DEF Ask
<1>7. QED BY <1>4, <1>5, <1>6

\* The status says the same of one watcher as of all of them.
LEMMA StatusAsked ==
  ASSUME watcher # None, NEW limit
  PROVE  Answer([method |-> "watch.status", id |-> "none", limit |-> Missing])
           = Ask("watch.status", limit)
<1> DEFINE all == [method |-> "watch.status", id |-> "none", limit |-> Missing]
           one == [method |-> "watch.status", id |-> "known", limit |-> limit]
<1>1. /\ ~InvalidParams(all) /\ ~InvalidParams(one)
      /\ all.method \in Methods /\ one.method \in Methods
  BY DEF InvalidParams, Methods
<1>2. Answer(all) = [watchers |-> {WatchStatus}] BY <1>1 DEF Answer
<1>3. Answer(one) = [watchers |-> {WatchStatus}] BY <1>1 DEF Answer
<1>4. QED BY <1>2, <1>3 DEF Ask

\* The two views of one limit are refused alike or show the same arrivals in opposite
\* orders, of as many objects as are retained and may be shown, at whatever limit.
THEOREM ViewsOfOneStateAgree == Spec => []ReadsAgree
<1>1. SessionInv => ReadsAgree
  <2> SUFFICES ASSUME SessionInv, NEW limit \in {Missing} \cup 0..(MaxResponseObjects + 1)
               PROVE  LET list == Ask("objects.list", limit)
                          view == Ask("statistics.history", limit)
                      IN  IF IsError(list) THEN view = list
                          ELSE /\ ViewsAgree(list.objects, view.samples)
                               /\ Answer([method |-> "watch.status", id |-> "none",
                                          limit |-> Missing])
                                    = Ask("watch.status", limit)
    BY DEF ReadsAgree
  <2>1. limit \in Int BY DEF Missing
  <2>2. PICK shown : shown = IF limit = Missing THEN MaxResponseObjects ELSE limit OBVIOUS
  <2>3. CASE shown \notin 1..MaxResponseObjects
    <3>1. Ask("objects.list", limit) = Error("invalidParams")
          /\ Ask("statistics.history", limit) = Error("invalidParams")
      BY <2>1, <2>2, <2>3, Asked
    <3>2. IsError(Error("invalidParams")) BY DEF IsError, Error
    <3>3. QED BY <3>1, <3>2
  <2>4. CASE shown \in 1..MaxResponseObjects /\ watcher = None
    <3>1. Ask("objects.list", limit) = Error("watcherNotFound")
          /\ Ask("statistics.history", limit) = Error("watcherNotFound")
      BY <2>1, <2>2, <2>4, Asked
    <3>2. IsError(Error("watcherNotFound")) BY DEF IsError, Error
    <3>3. QED BY <3>1, <3>2
  <2>5. CASE shown \in 1..MaxResponseObjects /\ watcher # None
    <3>1. Ask("objects.list", limit) = [objects |-> ObjectsList(shown)]
          /\ Ask("statistics.history", limit) = [samples |-> StatisticsHistory(shown)]
      BY <2>1, <2>2, <2>5, Asked
    <3>2. ViewsAgree(ObjectsList(shown), StatisticsHistory(shown)) BY <2>5, ViewsOfOneLimit
    <3>3. Answer([method |-> "watch.status", id |-> "none", limit |-> Missing])
            = Ask("watch.status", limit)
      BY <2>5, StatusAsked
    <3>4. ~IsError(Ask("objects.list", limit)) BY <3>1 DEF IsError
    <3>5. ViewsAgree(Ask("objects.list", limit).objects, Ask("statistics.history", limit).samples)
      BY <3>1, <3>2
    <3>6. QED BY <3>3, <3>4, <3>5
  <2>6. QED BY <2>3, <2>4, <2>5
<1>2. QED BY <1>1, SessionInvariant, PTL

-----------------------------------------------------------------------------
(* The totals *)

\* The intervals are the steps of the arrivals, so that they add up to the span.
AddUp(v, U, n) ==
  /\ n \in Nat /\ \A i \in 1..n : U[i].at \in Nat
  /\ DOMAIN v = 1..(IF n = 0 THEN 0 ELSE n - 1)
  /\ \A i \in 1..(n - 1) : v[i] = 4 * (U[i + 1].at - U[i].at)
  /\ Total(v) = IF n = 0 THEN 0 ELSE SecondsBetween(U[1].at, U[n].at)

LEMMA IntervalsAddUp ==
  ASSUME NEW h, IsStore(h), NEW U, U = OldestObjects(h), NEW n, n = Len(U)
  PROVE  AddUp(Values(h), U, n)
<1>1. /\ U \in Seq(Objects(h)) /\ \A o \in Objects(h) : o.at \in Nat
      /\ \A i, j \in 1..n : i < j => U[i].at <= U[j].at
  <2>1. IsFiniteSet(Objects(h)) /\ Keyed(Objects(h)) BY StoreObjects
  <2>2. /\ U \in Seq(Objects(h)) /\ \A i, j \in 1..Len(U) : i < j => U[i].at <= U[j].at
    BY <2>1, OldestOrdered DEF OldestObjects
  <2>3. QED BY <2>1, <2>2 DEF Keyed
<1>2. n \in Nat BY <1>1
<1>3. \A i \in 1..n : U[i].at \in Nat BY <1>1
<1>4. ASSUME NEW a \in Nat, NEW b \in Nat, a <= b PROVE SecondsBetween(a, b) = 4 * (b - a)
  <2>1. Max({0, b - a}) = b - a BY <1>4 DEF Max
  <2>2. QED BY <2>1 DEF SecondsBetween
<1>5. PICK m \in Nat : m = IF n = 0 THEN 0 ELSE n - 1 BY <1>2
<1>6. Max({0, n - 1}) = m
  <2>1. Max({0, n - 1}) = IF n - 1 > 0 THEN n - 1 ELSE 0 BY <1>2 DEF Max
  <2>2. QED BY <1>2, <1>5, <2>1
<1>7. /\ DOMAIN Values(h) = 1..m
      /\ \A i \in 1..m : Values(h)[i] = SecondsBetween(U[i].at, U[i + 1].at)
  BY <1>6 DEF Values, Seconds, IntervalsFor, OldestObjects
<1>8. \A i \in 1..m : Values(h)[i] = 4 * (U[i + 1].at - U[i].at)
  <2> TAKE i \in 1..m
  <2>1. i \in 1..n /\ i + 1 \in 1..n /\ i < i + 1 BY <1>2, <1>5
  <2>2. U[i].at \in Nat /\ U[i + 1].at \in Nat /\ U[i].at <= U[i + 1].at BY <1>1, <1>3, <2>1
  <2>3. QED BY <1>4, <1>7, <2>2
<1>9. CASE n = 0
  <2>1. m = 0 /\ DOMAIN Values(h) = {} BY <1>5, <1>7, <1>9
  <2>2. Total(Values(h)) = 0 BY <2>1, TotalIsSum, SumOfNone
  <2>3. QED BY <1>3, <1>5, <1>7, <1>8, <1>9, <2>2 DEF AddUp
<1>10. CASE n # 0
  <2> DEFINE v == [i \in 1..n |-> 4 * U[i].at]
             d == Values(h)
  <2>1. m + 1 = n /\ n \in 1..n /\ 1 \in 1..n BY <1>2, <1>5, <1>10
  <2>2. \A i \in 1..(m + 1) : v[i] = 4 * U[i].at /\ v[i] \in Int BY <1>3, <2>1
  <2> HIDE DEF v
  <2>3. \A i \in 1..m : d[i] = v[i + 1] - v[i]
    <3> TAKE i \in 1..m
    <3>1. i \in 1..(m + 1) /\ i + 1 \in 1..(m + 1) /\ i \in 1..n /\ i + 1 \in 1..n BY <2>1
    <3>2. v[i] = 4 * U[i].at /\ v[i + 1] = 4 * U[i + 1].at
          /\ U[i].at \in Nat /\ U[i + 1].at \in Nat
      BY <1>3, <2>2, <3>1
    <3>3. d[i] = 4 * (U[i + 1].at - U[i].at) BY <1>8
    <3>4. QED BY <3>2, <3>3
  <2>4. SumFunctionOnSet(d, 1..m) = v[m + 1] - v[1] BY <2>2, <2>3, SumOfSteps
  <2>5. Total(d) = SumFunctionOnSet(d, 1..m) BY <1>7, TotalIsSum
  <2>6. U[1].at \in Nat /\ U[n].at \in Nat /\ U[1].at <= U[n].at
    <3>1. U[1].at \in Nat /\ U[n].at \in Nat BY <1>3, <2>1
    <3>2. 1 < n => U[1].at <= U[n].at BY <1>1, <2>1
    <3>3. 1 < n \/ n = 1 BY <2>1, <1>2
    <3>4. QED BY <3>1, <3>2, <3>3
  <2>7. v[m + 1] - v[1] = 4 * (U[n].at - U[1].at) BY <2>1, <2>2, <2>6
  <2>8. SecondsBetween(U[1].at, U[n].at) = 4 * (U[n].at - U[1].at) BY <1>4, <2>6
  <2>9. Total(Values(h)) = SecondsBetween(U[1].at, U[n].at) BY <2>4, <2>5, <2>7, <2>8
  <2> HIDE DEF d
  <2>10. QED BY <1>2, <1>3, <1>5, <1>7, <1>8, <1>10, <2>9 DEF AddUp, d
<1>11. QED BY <1>9, <1>10

\* A view that leaves nothing out
LEMMA WholeView ==
  ASSUME NEW U, U = Ordered(Objects(Current), OldestFirst), NEW T, U \in Seq(T),
         NEW limit \in Nat, NEW view, view = StatisticsHistory(limit)
  PROVE  /\ Len(view) = IF limit < Len(U) THEN limit ELSE Len(U)
         /\ limit >= Len(U) =>
              /\ DOMAIN view = 1..Len(U)
              /\ \A i \in 2..Len(U) : view[i].interval = 4 * (U[i].at - U[i - 1].at)
<1> DEFINE N == Len(U)
           low == (IF limit < N THEN N - limit ELSE 0) + 1
           kept == SubSeq(U, low, N)
<1>1. N \in Nat /\ DOMAIN U = 1..N BY SMT
<1>2. Max({0, N - limit}) + 1 = low
  <2>1. Max({0, N - limit}) = IF N - limit > 0 THEN N - limit ELSE 0 BY <1>1 DEF Max
  <2>2. QED BY <1>1, <2>1
<1>3. view = [i \in DOMAIN kept |->
                [key |-> kept[i].key, at |-> kept[i].at,
                 interval |-> IF i = 1 THEN Missing ELSE 4 * (kept[i].at - kept[i - 1].at)]]
  BY <1>2 DEF StatisticsHistory
<1>4. low \in Nat /\ low >= 1 /\ low <= N + 1 BY <1>1
<1>5. \A i \in low..N : U[i] \in T BY <1>1, <1>4
<1>6. PICK l : l = N - low + 1 OBVIOUS
<1>7. l \in Nat /\ (low <= N <=> l # 0)
  <2>1. PICK a \in Nat : a = low /\ a <= N + 1 BY <1>4
  <2> HIDE DEF low
  <2>2. l = N - a + 1 BY <1>6, <2>1
  <2>3. QED BY <1>1, <2>1, <2>2
<1>13. l = IF limit < N THEN limit ELSE N
  <2>1. CASE limit < N BY <2>1, <1>1, <1>6
  <2>2. CASE ~(limit < N) BY <2>2, <1>1, <1>6
  <2>3. QED BY <2>1, <2>2
<1>14. limit >= N => low = 1 BY <1>1
<1> HIDE DEF low
<1>8. /\ kept \in Seq(T) /\ Len(kept) = l
      /\ \A i \in 1..l : kept[i] = U[low + i - 1]
  <2>1. low \in Int /\ N \in Int BY <1>1, <1>4
  <2>2. /\ kept \in Seq(T) /\ Len(kept) = IF low <= N THEN N - low + 1 ELSE 0
        /\ \A i \in 1..(N - low + 1) : kept[i] = U[low + i - 1]
    BY <1>5, <2>1, SubSeqProperties
  <2>3. QED BY <1>6, <1>7, <2>2
<1> HIDE DEF kept
<1>9. DOMAIN kept = 1..l BY <1>8
<1>10. Len(view) = l
  <2>1. PICK V : V = {view[i] : i \in 1..l} OBVIOUS
  <2>2. view = [i \in 1..l |-> view[i]] BY <1>3, <1>9
  <2>3. view \in [1..l -> V] BY <2>1, <2>2
  <2>4. view \in Seq(V) BY <1>7, <2>3
  <2>5. DOMAIN view = 1..l BY <2>2
  <2>6. QED BY <1>7, <2>4, <2>5
<1>11. ASSUME limit >= N
       PROVE  /\ DOMAIN view = 1..N
              /\ \A i \in 2..N : view[i].interval = 4 * (U[i].at - U[i - 1].at)
  <2>1. l = N /\ low = 1 BY <1>1, <1>6, <1>11, <1>14
  <2>2. \A i \in 1..N : kept[i] = U[i] BY <1>1, <1>8, <2>1
  <2>3. DOMAIN view = 1..N BY <1>3, <1>9, <2>1
  <2>4. ASSUME NEW i \in 2..N PROVE view[i].interval = 4 * (U[i].at - U[i - 1].at)
    <3>1. i \in 1..N /\ i - 1 \in 1..N /\ i # 1 BY <1>1
    <3>2. view[i].interval = 4 * (kept[i].at - kept[i - 1].at) BY <1>3, <1>9, <2>1, <3>1
    <3>3. QED BY <2>2, <3>1, <3>2
  <2>5. QED BY <2>3, <2>4
<1>12. QED BY <1>10, <1>11, <1>13

\* The frequency statistics are asked of the watcher that has them.
LEMMA FrequencyAsked ==
  ASSUME watcher # None, snapshot # None
  PROVE  Ask("statistics.frequency", Missing).statistics = Statistics
<1> DEFINE request == [method |-> "statistics.frequency", id |-> "known", limit |-> Missing]
<1>1. ~InvalidParams(request) /\ request.method \in Methods BY DEF InvalidParams, Methods
<1>2. Answer(request) = [statistics |-> Statistics] BY <1>1 DEF Answer
<1>3. QED BY <1>2 DEF Ask

\* The totals of the two ways in which the intervals are told, for any history: the
\* statistics add up to the span, and so do the intervals of a complete view.
THEOREM TotalsOfOneStateAgree == Spec => []TotalsAgree
<1>1. SessionInv => TotalsAgree
  <2> SUFFICES ASSUME SessionInv, snapshot # None PROVE TotalsAgree BY DEF TotalsAgree
  <2> DEFINE samples == Ask("statistics.history", Missing).samples
             statistics == Ask("statistics.frequency", Missing).statistics
             intervals == [i \in 1..Max({0, Len(samples) - 1}) |-> samples[i + 1].interval]
  <2>1. PICK h : h = snapshot.history OBVIOUS
  <2>2. IsStore(h) /\ Current = h /\ watcher # None BY <2>1 DEF SessionInv, Current
  <2>3. PICK U : U = OldestObjects(h) OBVIOUS
  <2>4. U \in Seq(Objects(h))
    <3>1. IsFiniteSet(Objects(h)) /\ Keyed(Objects(h)) BY <2>2, StoreObjects
    <3>2. QED BY <2>3, <3>1, OldestOrdered DEF OldestObjects
  <2>5. PICK n : n = Len(U) OBVIOUS
  <2>6. /\ n \in Nat /\ \A i \in 1..n : U[i].at \in Nat
        /\ DOMAIN Values(h) = 1..(IF n = 0 THEN 0 ELSE n - 1)
        /\ \A i \in 1..(n - 1) : Values(h)[i] = 4 * (U[i + 1].at - U[i].at)
        /\ Total(Values(h)) = IF n = 0 THEN 0 ELSE SecondsBetween(U[1].at, U[n].at)
    <3>1. AddUp(Values(h), U, n) BY <2>2, <2>3, <2>5, IntervalsAddUp
    <3>2. QED BY <3>1 DEF AddUp
  <2>7. Values(h) \in Seq(Int) BY <2>2, ValuesAreNumbers
  <2>8. PICK w : w = Ascending(Values(h)) OBVIOUS
  <2>9. w \in Seq(Int) /\ Len(w) = Len(Values(h)) /\ Total(w) = Total(Values(h))
    BY <2>7, <2>8, AscendingSorts, AscendingTotal DEF Rising
  <2>10. /\ statistics.objectCount = n /\ statistics.total = Total(w)
         /\ statistics.span = IF n = 0 THEN 0 ELSE SecondsBetween(U[1].at, U[n].at)
         /\ statistics.largest = IF w = <<>> THEN Missing ELSE w[Len(w)]
    <3>1. statistics = StatisticsFor(h, snapshot.asOf, watcher.expected)
      BY <2>1, <2>2, FrequencyAsked DEF Statistics
    <3>2. StatisticsFor(h, snapshot.asOf, watcher.expected)
            = Measured(U, w, Median(w), snapshot.asOf, watcher.expected)
      BY <2>3, <2>8 DEF StatisticsFor, OldestObjects, Values
    <3> HIDE DEF statistics
    <3>3. QED BY <2>5, <3>1, <3>2 DEF Measured
  <2>11. statistics.total = statistics.span BY <2>6, <2>9, <2>10
  <2>12. samples = StatisticsHistory(MaxResponseObjects)
    <3>1. MaxResponseObjects \in 1..MaxResponseObjects BY ServiceAssumption
    <3>2. Missing \in Int BY DEF Missing
    <3>3. Ask("statistics.history", Missing) = [samples |-> StatisticsHistory(MaxResponseObjects)]
      BY <2>2, <3>1, <3>2, Asked
    <3>4. QED BY <3>3
  <2>13. /\ Len(samples) = IF MaxResponseObjects < n THEN MaxResponseObjects ELSE n
         /\ MaxResponseObjects >= n =>
              \A i \in 2..n : samples[i].interval = 4 * (U[i].at - U[i - 1].at)
    <3>1. U = Ordered(Objects(Current), OldestFirst) BY <2>2, <2>3 DEF OldestObjects
    <3>2. MaxResponseObjects \in Nat BY ServiceAssumption
    <3> HIDE DEF samples
    <3>3. QED BY <2>4, <2>5, <2>12, <3>1, <3>2, WholeView
  <2> HIDE DEF samples, statistics
  <2>14. ASSUME statistics.objectCount = Len(samples) PROVE intervals = Values(h)
    <3>1. MaxResponseObjects >= n /\ Len(samples) = n
      BY <2>6, <2>10, <2>13, <2>14, ServiceAssumption
    <3>2. PICK m \in Nat : m = IF n = 0 THEN 0 ELSE n - 1 BY <2>6
    <3>3. Max({0, Len(samples) - 1}) = m
      <4>1. Max({0, n - 1}) = IF n - 1 > 0 THEN n - 1 ELSE 0 BY <2>6 DEF Max
      <4>2. QED BY <2>6, <3>1, <3>2, <4>1
    <3>4. \A i \in 1..m : samples[i + 1].interval = Values(h)[i]
      <4> TAKE i \in 1..m
      <4>1. i + 1 \in 2..n /\ i \in 1..(n - 1) /\ (i + 1) - 1 = i BY <2>6, <3>2
      <4>2. samples[i + 1].interval = 4 * (U[i + 1].at - U[i].at) BY <2>13, <3>1, <4>1
      <4>3. QED BY <2>6, <4>1, <4>2
    <3>5. DOMAIN Values(h) = 1..m /\ Values(h) = [i \in 1..m |-> Values(h)[i]]
      BY <2>6, <2>7, <3>2
    <3>6. intervals = [i \in 1..m |-> samples[i + 1].interval] BY <3>3
    <3> HIDE DEF intervals
    <3>7. QED BY <3>4, <3>5, <3>6
  <2> HIDE DEF intervals
  <2>15. ASSUME statistics.objectCount = Len(samples)
         PROVE  /\ Total(intervals) = statistics.total
                /\ intervals # <<>> => statistics.largest = Last(Ascending(intervals))
    <3>1. intervals = Values(h) BY <2>14, <2>15
    <3>2. intervals # <<>> => w # <<>> BY <2>7, <2>9, <3>1
    <3>3. w # <<>> => statistics.largest = Last(w) BY <2>10 DEF Last
    <3>4. QED BY <2>8, <2>9, <2>10, <3>1, <3>2, <3>3
  <2>16. QED BY <2>11, <2>15 DEF TotalsAgree, samples, statistics, intervals
<1>2. QED BY <1>1, SessionInvariant, PTL

-----------------------------------------------------------------------------
(* The objects of a feed *)

\* The objects of a feed are known by the instant at which they were written.
Arrivals == {[key |-> i, at |-> i, size |-> 1] : i \in Nat}

LEMMA ArrivalsAreKnown ==
  /\ Arrivals \subseteq Observations
  /\ \A o, p \in Arrivals : o.key = p.key => o = p
  /\ \A A \in SUBSET Arrivals : Keyed(A)
<1>1. \A o \in Arrivals : o \in Observations /\ o.key \in Nat /\ o.at = o.key /\ o.at \in Nat
  BY DEF Arrivals, Observations
<1>2. \A o, p \in Arrivals : o.key = p.key => o = p BY DEF Arrivals
<1>3. QED BY <1>1, <1>2 DEF Keyed

\* What a listing of arrivals adds to a history of arrivals
LEMMA MergedObjects ==
  ASSUME NEW f, IsStore(f), Objects(f) \subseteq Arrivals, NEW s \in Seq(Arrivals)
  PROVE  /\ s \in Seq(Observations) /\ IsStore(Merged(f, s))
         /\ \A o : o \in Objects(Merged(f, s)) <=> o \in Objects(f) \/ Holds(s, o)
<1>1. s \in Seq(Observations) BY ArrivalsAreKnown
<1> DEFINE g == Incoming(s)
           m == Merged(f, s)
<1>2. /\ IsStore(g) /\ DOMAIN g = {s[i].key : i \in 1..Len(s)}
      /\ \A k \in DOMAIN g : \E i \in 1..Len(s) : s[i].key = k /\ g[k] = s[i]
  BY <1>1, IncomingIsLast
<1>3. IsStore(m) BY <1>2, OverlayIsStore DEF Merged
<1>4. /\ DOMAIN m = DOMAIN g \cup DOMAIN f
      /\ \A k \in DOMAIN m : m[k] = IF k \in DOMAIN g THEN g[k] ELSE f[k]
  BY DEF Merged, Overlay
<1>5. \A i \in 1..Len(s) : s[i] \in Arrivals OBVIOUS
<1> HIDE DEF g, m
<1>6. ASSUME NEW o \in Objects(m) PROVE o \in Objects(f) \/ Holds(s, o)
  <2>1. PICK k \in DOMAIN m : o = m[k] BY DEF Objects
  <2>2. CASE k \in DOMAIN g BY <1>2, <1>4, <2>1, <2>2 DEF Holds
  <2>3. CASE k \notin DOMAIN g BY <1>4, <2>1, <2>3 DEF Objects
  <2>4. QED BY <2>2, <2>3
<1>7. ASSUME NEW o, Holds(s, o) PROVE o \in Objects(m)
  <2>1. PICK i \in 1..Len(s) : s[i] = o BY <1>7 DEF Holds
  <2>2. o.key \in DOMAIN g BY <1>2, <2>1
  <2>3. g[o.key] = o
    <3>1. PICK j \in 1..Len(s) : s[j].key = o.key /\ g[o.key] = s[j] BY <1>2, <2>2
    <3>2. QED BY <1>5, <2>1, <3>1, ArrivalsAreKnown
  <2>4. QED BY <1>4, <2>2, <2>3 DEF Objects
<1>8. ASSUME NEW o \in Objects(f) PROVE o \in Objects(m)
  <2>1. PICK k \in DOMAIN f : o = f[k] BY DEF Objects
  <2>2. o.key = k BY <2>1 DEF IsStore
  <2>3. CASE k \in DOMAIN g
    <3>1. PICK j \in 1..Len(s) : s[j].key = k /\ g[k] = s[j] BY <1>2, <2>3
    <3>2. o \in Arrivals OBVIOUS
    <3>3. g[k] = o BY <1>5, <2>2, <3>1, <3>2, ArrivalsAreKnown
    <3>4. QED BY <1>4, <2>3, <3>3 DEF Objects
  <2>4. CASE k \notin DOMAIN g BY <1>4, <2>1, <2>4 DEF Objects
  <2>5. QED BY <2>3, <2>4
<1>9. QED BY <1>1, <1>3, <1>6, <1>7, <1>8 DEF m

-----------------------------------------------------------------------------
(* The commands *)

\* The tokens of texts and keys, none of them the control character; the provers need
\* to be told that digits are strings.
Plain == STRING \ {Control}
Token == Plain \cup Digits \cup {"f"}

BucketInv ==
  /\ IsFiniteSet(DOMAIN bucket) /\ DOMAIN bucket \subseteq Nat
  /\ \A i \in DOMAIN bucket : bucket[i] \in Seq(Token)

LEMMA UnderIsFinite ==
  ASSUME BucketInv, NEW prefix
  PROVE  Under(prefix) \in SUBSET Arrivals /\ IsFiniteSet(Under(prefix))
<1> DEFINE J == {j \in DOMAIN bucket : IsPrefix(prefix, bucket[j])}
           Arrival(i) == [key |-> i, at |-> i, size |-> 1]
           f == [i \in J |-> Arrival(i)]
<1>1. J \in SUBSET DOMAIN bucket /\ J \in SUBSET Nat BY DEF BucketInv
<1>2. Under(prefix) = {Arrival(i) : i \in J} BY DEF Under
<1> HIDE DEF J
<1>3. f \in Surjection(J, Under(prefix)) BY <1>2 DEF Surjection
<1>4. IsFiniteSet(J) BY <1>1, FS_Subset DEF BucketInv
<1>5. IsFiniteSet(Under(prefix)) BY <1>3, <1>4, FS_Surjection
<1>6. \A i \in J : Arrival(i) \in Arrivals BY <1>1 DEF Arrivals
<1>7. QED BY <1>2, <1>5, <1>6

\* The newest of some objects, in their order
LEMMA NewestIsFirst ==
  ASSUME NEW A, IsFiniteSet(A), A \in SUBSET Arrivals, NEW limit \in Nat
  PROVE  /\ Newest(limit, A) \in Seq(Arrivals) /\ Once(Newest(limit, A))
         /\ \A o : Holds(Newest(limit, A), o) <=> o \in First(limit, A, NewestFirst)
<1> DEFINE F == First(limit, A, NewestFirst)
<1>1. F \in SUBSET A BY DEF First
<1>2. IsFiniteSet(F) /\ Keyed(F) /\ F \in SUBSET Arrivals
  BY <1>1, FS_Subset, ArrivalsAreKnown
<1>3. PICK s : s = Ordered(F, NewestFirst) OBVIOUS
<1>4. Newest(limit, A) = s BY <1>3 DEF Newest
<1> HIDE DEF F
<1>5. /\ s \in Seq(F) /\ \A o \in F : \E i \in 1..Len(s) : s[i] = o
      /\ \A i, j \in 1..Len(s) : s[i] = s[j] => i = j
  BY <1>2, <1>3, OrderedKeeps
<1>6. s \in Seq(Arrivals)
  <2>1. \A i \in 1..Len(s) : s[i] \in Arrivals BY <1>2, <1>5
  <2>2. QED BY <1>5, <2>1
<1>7. \A o : Holds(s, o) <=> o \in F BY <1>5 DEF Holds
<1>8. QED BY <1>4, <1>5, <1>6, <1>7 DEF Once, F

\* What there is under some prefixes, and what of it is listed
LEMMA FoundIsFinite ==
  ASSUME BucketInv, NEW X, NEW prefixes \in Seq(X)
  PROVE  /\ Found(prefixes) \in SUBSET Arrivals /\ IsFiniteSet(Found(prefixes))
         /\ Keyed(Found(prefixes))
<1> DEFINE A == {[key |-> i, at |-> i, size |-> 1] : i \in DOMAIN bucket}
           f == [i \in DOMAIN bucket |-> [key |-> i, at |-> i, size |-> 1]]
<1>1. f \in Surjection(DOMAIN bucket, A) BY DEF Surjection
<1>2. IsFiniteSet(A) BY <1>1, FS_Surjection DEF BucketInv
<1>3. \A p \in DOMAIN prefixes : Under(prefixes[p]) \in SUBSET A BY DEF Under
<1>4. \A p \in DOMAIN prefixes : Under(prefixes[p]) \in SUBSET Arrivals BY UnderIsFinite
<1> HIDE DEF A
<1>5. Found(prefixes) \in SUBSET A /\ Found(prefixes) \in SUBSET Arrivals
  BY <1>3, <1>4 DEF Found
<1>6. QED BY <1>2, <1>5, FS_Subset, ArrivalsAreKnown

Shown(prefixes, limit) ==
  {o \in Found(prefixes) :
     \E p \in DOMAIN prefixes : o \in First(limit, Under(prefixes[p]), NewestFirst)}

Lists(prefixes, limit) == [p \in DOMAIN prefixes |-> Newest(limit, Under(prefixes[p]))]

LEMMA ListedAreShown ==
  ASSUME BucketInv, NEW X, NEW prefixes \in Seq(X), NEW limit \in Nat
  PROVE  /\ ListResolved(prefixes, limit) \in Seq(Arrivals)
         /\ \A o : Holds(ListResolved(prefixes, limit), o) <=> o \in Shown(prefixes, limit)
<1>1. PICK n \in Nat : n = Len(prefixes) OBVIOUS
<1>2. DOMAIN prefixes = 1..n BY <1>1
<1>3. PICK s : s = Lists(prefixes, limit) OBVIOUS
<1>4. DOMAIN s = 1..n /\ \A p \in 1..n : s[p] = Newest(limit, Under(prefixes[p]))
  BY <1>2, <1>3 DEF Lists
<1>5. \A p \in 1..n : /\ s[p] \in Seq(Arrivals)
                      /\ \A o : Holds(s[p], o) <=> o \in First(limit, Under(prefixes[p]), NewestFirst)
  <2> TAKE p \in 1..n
  <2>1. IsFiniteSet(Under(prefixes[p])) /\ Under(prefixes[p]) \in SUBSET Arrivals
    BY UnderIsFinite
  <2>2. QED BY <1>4, <2>1, NewestIsFirst
<1>6. s \in Seq(Seq(Arrivals)) /\ Len(s) = n
  <2>1. PICK T : T = Seq(Arrivals) OBVIOUS
  <2>2. s = [p \in 1..n |-> s[p]] BY <1>2, <1>3 DEF Lists
  <2>3. s \in [1..n -> T] BY <1>5, <2>1, <2>2
  <2>4. s \in Seq(T) /\ Len(s) = n BY <1>4, <2>3
  <2>5. QED BY <2>1, <2>4
<1>7. PICK F : Joins(F, s, Arrivals) /\ FlattenSeq(s) = F[Len(s)] BY <1>6, FlattenJoins
<1>8. PICK r : r = ListResolved(prefixes, limit) OBVIOUS
<1>9. r = F[n] BY <1>3, <1>6, <1>7, <1>8 DEF ListResolved, Lists
<1>10. r \in Seq(Arrivals)
  <2>1. PICK T : T = Seq(Arrivals) OBVIOUS
  <2>2. F \in [0..n -> T] BY <1>6, <1>7, <2>1 DEF Joins
  <2>3. QED BY <1>9, <2>1, <2>2
<1>11. \A o : Holds(r, o) <=> \E p \in 1..n : Holds(s[p], o)
  <2> TAKE o
  <2>1. n \in 0..Len(s) BY <1>6
  <2>2. Holds(F[n], o) <=> \E p \in 1..n : Holds(s[p], o) BY <1>6, <1>7, <2>1, JoinsElements
  <2>3. QED BY <1>9, <2>2
<1>12. \A o : Holds(r, o) <=>
          \E p \in 1..n : o \in First(limit, Under(prefixes[p]), NewestFirst)
  BY <1>5, <1>11
<1>13. \A o : \A p \in 1..n : o \in First(limit, Under(prefixes[p]), NewestFirst) => o \in Found(prefixes)
  BY <1>2 DEF First, Found
<1>14. \A o : Holds(r, o) <=> o \in Shown(prefixes, limit) BY <1>2, <1>12, <1>13 DEF Shown
<1>15. QED BY <1>8, <1>10, <1>14

\* Cutting the list of every prefix loses none of the newest of all, since any time.
Since(A, cutoff) == {o \in A : o.at >= cutoff}

LEMMA ShownHasTheNewest ==
  ASSUME BucketInv, NEW X, NEW prefixes \in Seq(X), NEW limit \in Nat, NEW cutoff \in Int
  PROVE  /\ Shown(prefixes, limit) \in SUBSET Found(prefixes)
         /\ First(limit, Since(Shown(prefixes, limit), cutoff), NewestFirst)
              = First(limit, Since(Found(prefixes), cutoff), NewestFirst)
<1>1. PICK A : A = Since(Found(prefixes), cutoff) OBVIOUS
<1>2. PICK B : B = Since(Shown(prefixes, limit), cutoff) OBVIOUS
<1>3. A \in SUBSET Found(prefixes) BY <1>1 DEF Since
<1>4. IsFiniteSet(A) /\ A \in SUBSET Arrivals /\ Keyed(A)
  BY <1>3, FoundIsFinite, FS_Subset, ArrivalsAreKnown
<1>5. Shown(prefixes, limit) \in SUBSET Found(prefixes) BY DEF Shown
<1>6. B \in SUBSET A BY <1>1, <1>2, <1>5 DEF Since
<1>7. ASSUME NEW o \in First(limit, A, NewestFirst) PROVE o \in B
  <2>1. o \in A /\ o.at >= cutoff /\ o \in Found(prefixes) BY <1>1, <1>3 DEF First, Since
  <2>2. PICK p \in DOMAIN prefixes : o \in Under(prefixes[p]) BY <2>1 DEF Found
  <2>3. PICK U : U = Under(prefixes[p]) OBVIOUS
  <2>4. Since(U, cutoff) \in SUBSET A BY <1>1, <2>2, <2>3 DEF Since, Found
  <2>5. o \in Since(U, cutoff) BY <2>1, <2>2, <2>3 DEF Since
  <2>6. o \in First(limit, Since(U, cutoff), NewestFirst) BY <1>4, <2>4, <2>5, FirstInPart
  <2>7. Newer(Since(U, cutoff), o) = Newer(U, o)
    <3>1. U \in SUBSET Arrivals BY <2>3, UnderIsFinite
    <3>2. \A q \in U : q.at \in Nat BY <3>1 DEF Arrivals
    <3>3. o.at \in Nat BY <2>2, <2>3, <3>2
    <3>4. ASSUME NEW q \in U, NewestFirst(q, o) PROVE q.at >= cutoff
      <4>1. q.at > o.at \/ q.at = o.at BY <3>4 DEF NewestFirst
      <4>2. q.at \in Nat BY <3>2
      <4>3. PICK a \in Int, b \in Int : a = q.at /\ b = o.at BY <3>3, <4>2
      <4>4. QED BY <2>1, <4>1, <4>3
    <3>5. QED BY <3>4 DEF Newer, Since
  <2>8. o \in First(limit, U, NewestFirst)
    <3>1. Cardinality(Newer(U, o)) < limit BY <2>6, <2>7, FirstByRank
    <3>2. QED BY <2>2, <2>3, <3>1, FirstByRank
  <2>9. o \in Shown(prefixes, limit) BY <2>1, <2>2, <2>3, <2>8 DEF Shown
  <2>10. QED BY <1>2, <2>1, <2>9 DEF Since
<1>8. First(limit, B, NewestFirst) = First(limit, A, NewestFirst)
  <2>1. First(limit, A, NewestFirst) \subseteq B BY <1>7
  <2>2. QED BY <1>4, <1>6, <2>1, FirstOfPart
<1>9. QED BY <1>1, <1>2, <1>5, <1>8

-----------------------------------------------------------------------------
(* Sorting and cutting what was listed *)

LEMMA RankIsUnique ==
  ASSUME NEW A, IsFiniteSet(A), Keyed(A), NEW o \in A, NEW p \in A,
         Cardinality(Newer(A, o)) = Cardinality(Newer(A, p))
  PROVE  o = p
<1>1. Orders(NewestOrder(A), A) BY ObjectsAreOrdered
<1>2. RankIn(NewestOrder(A), A, o) = RankIn(NewestOrder(A), A, p) BY ObjectsAreOrdered
<1>3. QED BY <1>1, <1>2, RanksAreExact

\* Sorting a list of different objects puts them in their order.
LEMMA SortRecentSorts ==
  ASSUME NEW A, IsFiniteSet(A), A \in SUBSET Arrivals, NEW s \in Seq(Arrivals), Once(s),
         \A o : Holds(s, o) <=> o \in A
  PROVE  SortRecent(s) = Ordered(A, NewestFirst)
<1> DEFINE Ahead(j) == {i \in DOMAIN s : \/ NewestFirst(s[i], s[j])
                                         \/ ~NewestFirst(s[j], s[i]) /\ i < j}
           place == [k \in 1..Cardinality(DOMAIN s) |->
                       CHOOSE j \in DOMAIN s : Cardinality(Ahead(j)) = k - 1]
<1>1. SortRecent(s) = [i \in DOMAIN s |-> s[place[i]]] BY DEF SortRecent, Ordered
<1>2. Keyed(A) BY ArrivalsAreKnown
<1>3. PICK n \in Nat : n = Len(s) /\ DOMAIN s = 1..n OBVIOUS
<1>4. /\ \A i \in 1..n : s[i] \in A
      /\ \A o \in A : \E i \in 1..n : s[i] = o
      /\ \A i, j \in 1..n : s[i] = s[j] => i = j
  BY <1>3 DEF Holds, Once
<1>5. IsFiniteSet(1..n) /\ Cardinality(1..n) = n BY FS_Interval
<1>6. Cardinality(A) = n
  <2> DEFINE f == [i \in 1..n |-> s[i]]
  <2>1. f \in Bijection(1..n, A)
    <3>1. f \in [1..n -> A] /\ \A i \in 1..n : f[i] = s[i] BY <1>4
    <3> HIDE DEF f
    <3>2. QED BY <1>4, <3>1 DEF Bijection, Injection, Surjection, IsInjective
  <2>2. ExistsBijection(1..n, A) BY <2>1 DEF ExistsBijection
  <2>3. QED BY <1>5, <2>2, FS_Bijection
<1>7. ASSUME NEW j \in 1..n PROVE Cardinality(Ahead(j)) = Cardinality(Newer(A, s[j]))
  <2>1. \A i \in 1..n : i \in Ahead(j) <=> NewestFirst(s[i], s[j])
    <3> TAKE i \in 1..n
    <3>1. CASE i = j BY <1>2, <1>3, <1>4, <3>1 DEF NewestFirst, Keyed
    <3>2. CASE i # j
      <4>1. s[i] # s[j] /\ s[i] \in A /\ s[j] \in A BY <1>4, <3>2
      <4>2. NewestFirst(s[i], s[j]) \/ NewestFirst(s[j], s[i])
        <5>1. Orders(NewestOrder(A), A) BY <1>2, ObjectsAreOrdered
        <5>2. <<s[i], s[j]>> \in NewestOrder(A) \/ <<s[j], s[i]>> \in NewestOrder(A)
          BY <4>1, <5>1 DEF Orders
        <5>3. QED BY <5>2 DEF NewestOrder
      <4>3. QED BY <1>3, <4>2
    <3>3. QED BY <3>1, <3>2
  <2>2. Ahead(j) \in SUBSET (1..n) BY <1>3
  <2> HIDE DEF Ahead
  <2> DEFINE f == [i \in Ahead(j) |-> s[i]]
  <2>3. IsFiniteSet(Ahead(j)) BY <1>5, <2>2, FS_Subset
  <2>4. f \in Bijection(Ahead(j), Newer(A, s[j]))
    <3>1. \A i \in Ahead(j) : f[i] = s[i] /\ f[i] \in Newer(A, s[j])
      BY <1>4, <2>1, <2>2 DEF Newer
    <3>2. f \in [Ahead(j) -> Newer(A, s[j])] BY <3>1
    <3>3. \A i, m \in Ahead(j) : f[i] = f[m] => i = m BY <1>4, <2>2, <3>1
    <3>4. \A o \in Newer(A, s[j]) : \E i \in Ahead(j) : f[i] = o
      <4> TAKE o \in Newer(A, s[j])
      <4>1. o \in A /\ NewestFirst(o, s[j]) BY DEF Newer
      <4>2. PICK i \in 1..n : s[i] = o BY <1>4, <4>1
      <4>3. QED BY <2>1, <3>1, <4>1, <4>2
    <3> HIDE DEF f
    <3>5. QED BY <3>2, <3>3, <3>4 DEF Bijection, Injection, Surjection, IsInjective
  <2>5. ExistsBijection(Ahead(j), Newer(A, s[j])) BY <2>4 DEF ExistsBijection
  <2>6. QED BY <2>3, <2>5, FS_Bijection
<1>8. PICK t : t = Ordered(A, NewestFirst) OBVIOUS
<1>9. /\ t \in Seq(A) /\ Len(t) = n
      /\ \A k \in 1..n : Cardinality(Newer(A, t[k])) = k - 1
  BY <1>2, <1>6, <1>8, OrderedKeeps
<1>10. \A k \in 1..n : place[k] = CHOOSE j \in 1..n : Cardinality(Ahead(j)) = k - 1
  BY <1>3, <1>5
<1>11. PICK q : q = place OBVIOUS
<1>12. SortRecent(s) = [i \in 1..n |-> s[q[i]]] BY <1>1, <1>3, <1>11
<1> HIDE DEF place, Ahead
<1>13. ASSUME NEW k \in 1..n PROVE s[q[k]] = t[k]
  <2>1. t[k] \in A BY <1>9
  <2>2. PICK i \in 1..n : s[i] = t[k] BY <1>4, <2>1
  <2>3. Cardinality(Ahead(i)) = k - 1 BY <1>7, <1>9, <2>2
  <2>4. q[k] = CHOOSE j \in 1..n : Cardinality(Ahead(j)) = k - 1 BY <1>10, <1>11
  <2>5. q[k] \in 1..n /\ Cardinality(Ahead(q[k])) = k - 1 BY <2>3, <2>4
  <2>6. Cardinality(Newer(A, s[q[k]])) = Cardinality(Newer(A, t[k])) BY <1>7, <1>9, <2>5
  <2>7. s[q[k]] \in A BY <1>4, <2>5
  <2>8. QED BY <1>2, <2>1, <2>6, <2>7, RankIsUnique
<1>14. t = [i \in 1..n |-> t[i]] BY <1>9
<1>15. QED BY <1>8, <1>12, <1>13, <1>14

\* Cutting the sorted objects leaves the newest.
LEMMA TruncateKeepsNewest ==
  ASSUME NEW A, IsFiniteSet(A), A \in SUBSET Arrivals, NEW limit \in Nat
  PROVE  Truncate(Ordered(A, NewestFirst), limit) = Newest(limit, A)
<1> DEFINE F == First(limit, A, NewestFirst)
<1>1. Keyed(A) /\ Cardinality(A) \in Nat BY ArrivalsAreKnown, FS_CardinalityType
<1>2. PICK n \in Nat : n = Cardinality(A) BY <1>1
<1>3. PICK m \in Nat : m = IF limit <= n THEN limit ELSE n OBVIOUS
<1>4. /\ F \in SUBSET A /\ IsFiniteSet(F) /\ Keyed(F) /\ Cardinality(F) = m
      /\ \A o \in F : Newer(F, o) = Newer(A, o)
  BY <1>1, <1>2, <1>3, FirstKeepsRanks
<1>5. PICK s : s = Ordered(A, NewestFirst) OBVIOUS
<1>6. PICK t : t = Ordered(F, NewestFirst) OBVIOUS
<1>7. Newest(limit, A) = t BY <1>6 DEF Newest
<1> HIDE DEF F
<1>8. s \in Seq(A) /\ Len(s) = n /\ \A i \in 1..n : Cardinality(Newer(A, s[i])) = i - 1
  BY <1>1, <1>2, <1>5, OrderedKeeps
<1>9. t \in Seq(F) /\ Len(t) = m /\ \A i \in 1..m : Cardinality(Newer(F, t[i])) = i - 1
  BY <1>4, <1>6, OrderedKeeps
<1>10. m <= n /\ \A i \in 1..m : i \in 1..n BY <1>3
<1>11. ASSUME NEW i \in 1..m PROVE t[i] = s[i]
  <2>1. t[i] \in F /\ t[i] \in A BY <1>4, <1>9
  <2>2. i \in 1..n BY <1>10
  <2>3. s[i] \in A BY <1>8, <2>2
  <2>4. Cardinality(Newer(A, t[i])) = i - 1 BY <1>4, <1>9, <2>1
  <2>5. Cardinality(Newer(A, s[i])) = i - 1 BY <1>8, <2>2
  <2>6. QED BY <1>1, <2>1, <2>3, <2>4, <2>5, RankIsUnique
<1>12. Min({limit, n}) = m
  <2>1. CASE limit <= n BY <1>3, <2>1 DEF Min
  <2>2. CASE ~(limit <= n) BY <1>3, <2>2 DEF Min
  <2>3. QED BY <2>1, <2>2
<1>13. Truncate(s, limit) = SubSeq(s, 1, m) BY <1>8, <1>12 DEF Truncate
<1>14. SubSeq(s, 1, m) = [i \in 1..m |-> s[i]]
  <2>1. \A i \in 1..m : s[i] \in A BY <1>8, <1>10
  <2>2. SubSeq(s, 1, m) \in Seq(A) /\ Len(SubSeq(s, 1, m)) = m
        /\ \A i \in 1..m : SubSeq(s, 1, m)[i] = s[i]
    BY <1>8, <1>10
  <2>3. QED BY <2>2
<1>15. t = [i \in 1..m |-> t[i]] BY <1>9
<1>16. QED BY <1>5, <1>7, <1>11, <1>13, <1>14, <1>15

\* What is kept of a list since some time
LEMMA RetainKeeps ==
  ASSUME NEW s \in Seq(Arrivals), Once(s), NEW cutoff \in Int
  PROVE  /\ Retain(s, cutoff) \in Seq(Arrivals) /\ Once(Retain(s, cutoff))
         /\ \A o : Holds(Retain(s, cutoff), o) <=> Holds(s, o) /\ o.at >= cutoff
<1>1. PICK n \in Nat : n = Len(s) /\ DOMAIN s = 1..n OBVIOUS
<1>2. PICK r : r = [i \in 1..n |-> IF s[i].at >= cutoff THEN <<s[i]>> ELSE <<>>] OBVIOUS
<1>3. Retain(s, cutoff) = FlattenSeq(r) BY <1>1, <1>2 DEF Retain
<1>4. \A i \in 1..n : s[i] \in Arrivals BY <1>1
<1>5. \A i \in 1..n : /\ r[i] \in Seq(Arrivals) /\ Len(r[i]) = IF s[i].at >= cutoff THEN 1 ELSE 0
                      /\ s[i].at >= cutoff => r[i][1] = s[i]
  <2> TAKE i \in 1..n
  <2>1. s[i] \in Arrivals BY <1>4
  <2>2. <<s[i]>> \in Seq(Arrivals) /\ Len(<<s[i]>>) = 1 /\ <<s[i]>>[1] = s[i] BY <2>1
  <2>3. CASE s[i].at >= cutoff BY <1>2, <2>2, <2>3
  <2>4. CASE ~(s[i].at >= cutoff) BY <1>2, <2>4
  <2>5. QED BY <2>3, <2>4
<1>6. DOMAIN r = 1..n BY <1>2
<1>7. r \in Seq(Seq(Arrivals)) /\ Len(r) = n
  <2>1. PICK T : T = Seq(Arrivals) OBVIOUS
  <2>2. r = [i \in 1..n |-> r[i]] BY <1>2
  <2>3. r \in [1..n -> T] BY <1>5, <2>1, <2>2
  <2>4. r \in Seq(T) /\ Len(r) = n BY <1>6, <2>3
  <2>5. QED BY <2>1, <2>4
<1>8. PICK F : Joins(F, r, Arrivals) /\ FlattenSeq(r) = F[Len(r)] BY <1>7, FlattenJoins
<1>9. PICK y : y = FlattenSeq(r) OBVIOUS
<1>10. y = F[n] BY <1>7, <1>8, <1>9
<1>11. y \in Seq(Arrivals)
  <2>1. PICK T : T = Seq(Arrivals) OBVIOUS
  <2>2. F \in [0..n -> T] BY <1>7, <1>8, <2>1 DEF Joins
  <2>3. QED BY <1>10, <2>1, <2>2
<1>12. \A i \in 1..n : \A o : Holds(r[i], o) <=> o = s[i] /\ s[i].at >= cutoff
  <2> TAKE i \in 1..n
  <2> TAKE o
  <2>1. CASE s[i].at >= cutoff
    <3>1. Len(r[i]) = 1 /\ r[i][1] = s[i] BY <1>5, <2>1
    <3>2. QED BY <2>1, <3>1 DEF Holds
  <2>2. CASE ~(s[i].at >= cutoff)
    <3>1. Len(r[i]) = 0 BY <1>5, <2>2
    <3>2. QED BY <2>2, <3>1 DEF Holds
  <2>3. QED BY <2>1, <2>2
<1>13. \A o : Holds(y, o) <=> Holds(s, o) /\ o.at >= cutoff
  <2> TAKE o
  <2>1. n \in 0..Len(r) BY <1>7
  <2>2. Holds(F[n], o) <=> \E i \in 1..n : Holds(r[i], o) BY <1>7, <1>8, <2>1, JoinsElements
  <2>3. Holds(s, o) <=> \E i \in 1..n : s[i] = o BY <1>1 DEF Holds
  <2>4. QED BY <1>10, <1>12, <2>2, <2>3
<1>14. Separate(r)
  <2>1. ASSUME NEW i \in 1..n PROVE Once(r[i])
    <3>1. Len(r[i]) = 1 \/ Len(r[i]) = 0 BY <1>5
    <3>2. QED BY <3>1 DEF Once
  <2>2. ASSUME NEW i \in 1..n, NEW j \in 1..n, i # j,
               NEW k \in 1..Len(r[i]), NEW m \in 1..Len(r[j])
        PROVE  r[i][k] # r[j][m]
    <3>1. Holds(r[i], r[i][k]) /\ Holds(r[j], r[j][m]) BY DEF Holds
    <3>2. r[i][k] = s[i] /\ r[j][m] = s[j] BY <1>12, <3>1
    <3>3. s[i] # s[j] BY <1>1, <2>2 DEF Once
    <3>4. QED BY <3>2, <3>3
  <2>3. QED BY <1>7, <2>1, <2>2 DEF Separate
<1>15. Once(y)
  <2>1. Once(F[Len(r)]) BY <1>7, <1>8, <1>14, JoinsOnce
  <2>2. QED BY <1>7, <1>10, <2>1
<1>16. QED BY <1>3, <1>9, <1>11, <1>13, <1>15

\* Of two prefixes of one key one is a prefix of the other.
LEMMA PrefixesOfOneKey ==
  ASSUME NEW T, NEW a \in Seq(T), NEW b \in Seq(T), NEW k \in Seq(T),
         IsPrefix(a, k), IsPrefix(b, k), Len(a) <= Len(b)
  PROVE  IsPrefix(a, b)
<1>1. PICK l \in Nat, m \in Nat, n \in Nat : l = Len(a) /\ m = Len(b) /\ n = Len(k) OBVIOUS
<1>2. l <= m /\ m <= n BY <1>1 DEF IsPrefix
<1>3. /\ SubSeq(a, 1, l) = SubSeq(k, 1, l) /\ SubSeq(b, 1, m) = SubSeq(k, 1, m)
  BY <1>1 DEF IsPrefix
<1>4. \A i \in 1..l : i \in 1..m /\ i \in 1..n BY <1>2
<1>5. \A i \in 1..l : SubSeq(b, 1, l)[i] = b[i] /\ SubSeq(k, 1, l)[i] = k[i]
  BY <1>1, <1>2
<1>6. \A i \in 1..m : SubSeq(b, 1, m)[i] = b[i] /\ SubSeq(k, 1, m)[i] = k[i]
  BY <1>1, <1>2
<1>7. \A i \in 1..l : b[i] = k[i] BY <1>3, <1>4, <1>6
<1>8. SubSeq(b, 1, l) = SubSeq(k, 1, l)
  <2>1. SubSeq(b, 1, l) = [i \in 1..l |-> b[i]] BY <1>1, <1>2
  <2>2. SubSeq(k, 1, l) = [i \in 1..l |-> k[i]] BY <1>1, <1>2
  <2>3. QED BY <1>7, <2>1, <2>2
<1>9. QED BY <1>1, <1>3, <1>8 DEF IsPrefix

\* Under prefixes none of which covers another, nothing is listed twice.
LEMMA ListedOnce ==
  ASSUME BucketInv, NEW prefixes \in Seq(Seq(Token)), Apart(prefixes), NEW limit \in Nat
  PROVE  Once(ListResolved(prefixes, limit))
<1>1. PICK X : X = Seq(Token) OBVIOUS
<1>2. PICK n \in Nat : n = Len(prefixes) /\ DOMAIN prefixes = 1..n OBVIOUS
<1>3. \A p \in 1..n : prefixes[p] \in X
  <2>1. prefixes \in Seq(X) BY <1>1
  <2>2. QED BY <1>2, <2>1
<1>4. PICK s : s = Lists(prefixes, limit) OBVIOUS
<1>5. /\ DOMAIN s = 1..n /\ s = [p \in 1..n |-> s[p]]
      /\ \A p \in 1..n : s[p] = Newest(limit, Under(prefixes[p]))
  BY <1>2, <1>4 DEF Lists
<1>6. \A p \in 1..n : /\ s[p] \in Seq(Arrivals) /\ Once(s[p])
                      /\ \A o : Holds(s[p], o) => o \in Under(prefixes[p])
  <2> TAKE p \in 1..n
  <2>1. IsFiniteSet(Under(prefixes[p])) /\ Under(prefixes[p]) \in SUBSET Arrivals
    BY UnderIsFinite
  <2>2. /\ s[p] \in Seq(Arrivals) /\ Once(s[p])
        /\ \A o : Holds(s[p], o) <=> o \in First(limit, Under(prefixes[p]), NewestFirst)
    BY <1>5, <2>1, NewestIsFirst
  <2>3. First(limit, Under(prefixes[p]), NewestFirst) \subseteq Under(prefixes[p]) BY DEF First
  <2>4. QED BY <2>2, <2>3
<1>7. s \in Seq(Seq(Arrivals)) /\ Len(s) = n
  <2>1. PICK T : T = Seq(Arrivals) OBVIOUS
  <2>2. s \in [1..n -> T] BY <1>5, <1>6, <2>1
  <2>3. s \in Seq(T) /\ Len(s) = n BY <1>5, <2>2
  <2>4. QED BY <2>1, <2>3
<1>8. ASSUME NEW p \in 1..n, NEW q \in 1..n, NEW o, o \in Under(prefixes[p]), o \in Under(prefixes[q])
      PROVE  p = q
  <2>1. PICK i \in DOMAIN bucket : o.key = i /\ IsPrefix(prefixes[p], bucket[i])
    BY <1>8 DEF Under
  <2>2. IsPrefix(prefixes[q], bucket[i]) BY <1>8, <2>1 DEF Under
  <2>3. PICK a \in Seq(Token), b \in Seq(Token) : a = prefixes[p] /\ b = prefixes[q]
    BY <1>1, <1>3
  <2>4. bucket[i] \in Seq(Token) BY <2>1 DEF BucketInv
  <2>5. Len(a) <= Len(b) \/ Len(b) <= Len(a) BY <2>3
  <2>6. IsPrefix(a, b) \/ IsPrefix(b, a) BY <2>1, <2>2, <2>3, <2>4, <2>5, PrefixesOfOneKey
  <2>7. QED BY <1>2, <2>3, <2>6 DEF Apart
<1>9. Separate(s)
  <2>1. ASSUME NEW p \in 1..n, NEW q \in 1..n, p # q,
               NEW i \in 1..Len(s[p]), NEW j \in 1..Len(s[q])
        PROVE  s[p][i] # s[q][j]
    <3>1. Holds(s[p], s[p][i]) /\ Holds(s[q], s[q][j]) BY DEF Holds
    <3>2. s[p][i] \in Under(prefixes[p]) /\ s[q][j] \in Under(prefixes[q]) BY <1>6, <3>1
    <3>3. QED BY <1>8, <2>1, <3>2
  <2>2. QED BY <1>6, <1>7, <2>1 DEF Separate
<1>10. PICK F : Joins(F, s, Arrivals) /\ FlattenSeq(s) = F[Len(s)] BY <1>7, FlattenJoins
<1>11. Once(F[Len(s)]) BY <1>7, <1>9, <1>10, JoinsOnce
<1>12. ListResolved(prefixes, limit) = FlattenSeq(s) BY <1>4 DEF ListResolved, Lists
<1>13. QED BY <1>10, <1>11, <1>12

-----------------------------------------------------------------------------
(* The segments of a text *)

Segment == [literal : Plain] \cup [field : DOMAIN Fields]
Parsed == Seq(Segment) \cup {Invalid}

LEMMA PrependIsParsed ==
  ASSUME NEW segment \in Segment, NEW rest \in Parsed
  PROVE  Prepend(segment, rest) \in Parsed
<1>1. CASE rest = Invalid BY <1>1 DEF Prepend, Parsed
<1>2. CASE rest # Invalid
  <2>1. rest \in Seq(Segment) BY <1>2 DEF Parsed
  <2>2. <<segment>> \in Seq(Segment) OBVIOUS
  <2>3. <<segment>> \o rest \in Seq(Segment) BY <2>1, <2>2
  <2>4. QED BY <1>2, <2>3 DEF Prepend, Parsed
<1>3. QED BY <1>1, <1>2

\* What ParsedFrom needs of the later segments, and what it makes of them
LEMMA ParsedFromLooksAhead ==
  ASSUME NEW prefix \in Seq(Plain), NEW i \in 1..Len(prefix),
         NEW f \in [1..(Len(prefix) + 1) -> Parsed]
  PROVE  /\ ParsedFrom(prefix, i, f) \in Parsed
         /\ \A g : (\A j \in (i + 1)..(Len(prefix) + 1) : f[j] = g[j]) =>
                     ParsedFrom(prefix, i, f) = ParsedFrom(prefix, i, g)
<1>0. PICK n \in Nat : n = Len(prefix) OBVIOUS
<1> DEFINE doubled == i < Len(prefix) /\ prefix[i + 1] = prefix[i]
           close == {j \in (i + 1)..Len(prefix) : prefix[j] = "}"}
           named == close # {} /\ Min(close) = i + 2 /\ prefix[i + 1] \in DOMAIN Fields
<1>1. ASSUME NEW g
      PROVE ParsedFrom(prefix, i, g) =
        CASE prefix[i] \in {"{", "}"} /\ doubled -> Prepend(Literal(prefix[i]), g[i + 2])
          [] prefix[i] = "{" /\ ~doubled /\ named -> Prepend(Field(prefix[i + 1]), g[i + 3])
          [] prefix[i] \notin {"{", "}"} -> Prepend(Literal(prefix[i]), g[i + 1])
          [] OTHER -> Invalid
  BY DEF ParsedFrom
<1>2. doubled => i + 2 \in (i + 1)..(n + 1) BY <1>0
<1>10. close \in SUBSET Nat /\ IsFiniteSet(close) /\ \A m \in close : m \in (i + 1)..n
  <2>1. \A j \in close : j \in (i + 1)..n BY <1>0
  <2>2. close \in SUBSET ((i + 1)..n) BY <2>1, Zenon
  <2>3. IsFiniteSet((i + 1)..n)
    <3>1. i + 1 \in Int /\ n \in Int /\ i + 1 <= n + 1 BY <1>0
    <3>2. QED BY <3>1, RangeSize
  <2>4. (i + 1)..n \in SUBSET Nat BY <1>0
  <2> HIDE DEF close
  <2>5. QED BY <2>2, <2>3, <2>4, FS_Subset
<1>11. named => close # {} /\ Min(close) = i + 2 /\ prefix[i + 1] \in DOMAIN Fields OBVIOUS
<1>12. i \in 1..n BY <1>0
<1>3. named => i + 3 \in (i + 1)..(n + 1) /\ Field(prefix[i + 1]) \in Segment
  <2> HIDE DEF close, named
  <2> SUFFICES ASSUME named PROVE i + 3 \in (i + 1)..(n + 1) /\ Field(prefix[i + 1]) \in Segment
    OBVIOUS
  <2>1. Min(close) \in close BY <1>10, <1>11, LeastNumber
  <2>2. i + 2 \in (i + 1)..n BY <1>10, <1>11, <2>1
  <2>3. i + 3 \in (i + 1)..(n + 1) BY <1>12, <2>2
  <2>4. Field(prefix[i + 1]) \in Segment BY <1>11 DEF Segment, Field
  <2>5. QED BY <2>3, <2>4
<1>4. i + 1 \in (i + 1)..(n + 1) BY <1>0
<1>5. Literal(prefix[i]) \in Segment BY DEF Segment, Literal
<1>6. \A j \in (i + 1)..(n + 1) : j \in 1..(n + 1) OBVIOUS
<1>7. Invalid \in Parsed BY DEF Parsed
<1> HIDE DEF doubled, named
<1>8. ParsedFrom(prefix, i, f) \in Parsed
  <2>1. \A j \in (i + 1)..(n + 1) : f[j] \in Parsed BY <1>0, <1>6
  <2>2. doubled => Prepend(Literal(prefix[i]), f[i + 2]) \in Parsed
    BY <1>2, <1>5, <2>1, PrependIsParsed
  <2>3. named => Prepend(Field(prefix[i + 1]), f[i + 3]) \in Parsed
    BY <1>3, <2>1, PrependIsParsed
  <2>4. Prepend(Literal(prefix[i]), f[i + 1]) \in Parsed
    BY <1>4, <1>5, <2>1, PrependIsParsed
  <2>5. QED BY <1>1, <1>7, <2>2, <2>3, <2>4
<1>9. ASSUME NEW g, \A j \in (i + 1)..(Len(prefix) + 1) : f[j] = g[j]
      PROVE  ParsedFrom(prefix, i, f) = ParsedFrom(prefix, i, g)
  <2>1. f[i + 1] = g[i + 1] BY <1>0, <1>4, <1>9
  <2>2. doubled => f[i + 2] = g[i + 2] BY <1>0, <1>2, <1>9
  <2>3. named => f[i + 3] = g[i + 3] BY <1>0, <1>3, <1>9
  <2>4. QED BY <1>1, <2>1, <2>2, <2>3
<1>13. QED BY <1>8, <1>9

\* A text is parsed to segments with known fields, or refused.
LEMMA SegmentsAreParsed ==
  ASSUME NEW prefix \in Seq(Plain)
  PROVE  Segments(prefix) \in Parsed
<1>1. PICK n \in Nat : n = Len(prefix) OBVIOUS
<1>2. PICK Y : Y = [1..(n + 1) -> Parsed] OBVIOUS
<1> DEFINE Step == [i \in 1..n |-> [f \in Y |-> ParsedFrom(prefix, i, f)]]
           Is(f) == f = [i \in 1..(Len(prefix) + 1) |->
                           IF i > Len(prefix) THEN <<>> ELSE ParsedFrom(prefix, i, f)]
           from == CHOOSE f : Is(f)
<1>3. \A i \in 1..n : \A f \in Y :
        /\ ParsedFrom(prefix, i, f) \in Parsed
        /\ \A g \in Y : (\A j \in (i + 1)..(n + 1) : f[j] = g[j]) =>
                          ParsedFrom(prefix, i, f) = ParsedFrom(prefix, i, g)
  BY <1>1, <1>2, ParsedFromLooksAhead
<1>4. Step \in [1..n -> [Y -> Parsed]] BY <1>3
<1>5. \A i \in 1..n : \A f \in Y : Step[i][f] = ParsedFrom(prefix, i, f) OBVIOUS
<1>6. PICK step : step = Step OBVIOUS
<1> HIDE DEF Step
<1>7. LooksAhead(n, Parsed, step) BY <1>2, <1>3, <1>5, <1>6 DEF LooksAhead
<1>8. PICK e \in Parsed : e = <<>>
  <2>1. <<>> \in Seq(Segment) OBVIOUS
  <2>2. QED BY <2>1 DEF Parsed
<1>9. PICK F : Backward(F, n, Parsed, e, step)
  <2>1. step \in [1..n -> [[1..(n + 1) -> Parsed] -> Parsed]] BY <1>2, <1>4, <1>6
  <2>2. QED BY <1>7, <2>1, BackwardExists
<1>10. F \in Y /\ F[n + 1] = e /\ \A i \in 1..n : F[i] = ParsedFrom(prefix, i, F)
  BY <1>2, <1>5, <1>6, <1>9 DEF Backward
<1>11. Is(F)
  <2>1. F = [i \in 1..(n + 1) |-> F[i]] BY <1>2, <1>10
  <2>2. \A i \in 1..(n + 1) : F[i] = IF i > n THEN <<>> ELSE ParsedFrom(prefix, i, F)
    <3> TAKE i \in 1..(n + 1)
    <3>1. CASE i > n
      <4>1. i = n + 1 BY <3>1
      <4>2. QED BY <1>8, <1>10, <3>1, <4>1
    <3>2. CASE ~(i > n)
      <4>1. i \in 1..n BY <3>2
      <4>2. QED BY <1>10, <3>2, <4>1
    <3>3. QED BY <3>1, <3>2
  <2>3. QED BY <1>1, <2>1, <2>2
<1>12. Is(from) BY <1>11
<1>13. Segments(prefix) = from[1] BY DEF Segments
<1>14. \A i \in 1..(n + 1) : from[i] = IF i > n THEN <<>> ELSE ParsedFrom(prefix, i, from)
  BY <1>1, <1>12
<1> DEFINE S == {i \in 1..(n + 1) : from[i] = F[i]}
<1> HIDE DEF from, Is
<1>15. n + 1 \in S BY <1>8, <1>10, <1>14
<1>16. ASSUME NEW i \in 1..n, \A j \in (i + 1)..(n + 1) : j \in S PROVE i \in S
  <2>1. \A j \in (i + 1)..(n + 1) : F[j] = from[j] BY <1>16
  <2>2. i \in 1..(n + 1) /\ ~(i > n) OBVIOUS
  <2>3. F[i] = ParsedFrom(prefix, i, F) BY <1>10
  <2>4. ParsedFrom(prefix, i, F) = ParsedFrom(prefix, i, from)
    BY <1>1, <1>2, <1>10, <2>1, ParsedFromLooksAhead
  <2>5. QED BY <1>14, <2>2, <2>3, <2>4
<1>17. 1..(n + 1) \subseteq S
  <2> HIDE DEF S
  <2>1. QED BY <1>15, <1>16, Downward
<1>18. 1 \in 1..(n + 1) BY <1>1
<1>19. from[1] = F[1] /\ F[1] \in Parsed BY <1>2, <1>10, <1>17, <1>18
<1>20. QED BY <1>13, <1>19

-----------------------------------------------------------------------------
(* The calendar *)

Leap(year) == IF IsLeap(year) THEN 1 ELSE 0

LEMMA YearsAreApart ==
  ASSUME NEW y \in Nat, y >= 1
  PROVE  /\ DaysBefore(y) \in Int
         /\ 365 * (y - 1) <= DaysBefore(y) /\ DaysBefore(y) <= 366 * (y - 1)
         /\ DaysBefore(y + 1) = DaysBefore(y) + 365 + Leap(y)
         /\ \A k \in Nat : DaysBefore(y) <= DaysBefore(y + k)
<1>1. /\ DaysBefore(y) = 365 * (y - 1) + (y - 1) \div 4 - (y - 1) \div 100 + (y - 1) \div 400
      /\ DaysBefore(y + 1) = 365 * y + y \div 4 - y \div 100 + y \div 400
  BY DEF DaysBefore
<1>2. PICK b \in Nat : b = y - 1 /\ y = b + 1 OBVIOUS
<1>3. PICK p \in Nat, q \in Nat, r \in Nat : p = b \div 4 /\ q = b \div 100 /\ r = b \div 400
  <2>1. b \div 4 \in Nat /\ b \div 100 \in Nat /\ b \div 400 \in Nat OBVIOUS
  <2>2. QED BY <2>1
<1>4. DaysBefore(y) = 365 * b + p - q + r BY <1>1, <1>2, <1>3
<1>5. q <= p /\ p <= b + q /\ r <= q /\ p - q + r <= b BY <1>3
<1>6. /\ y \div 4 = IF y % 4 = 0 THEN p + 1 ELSE p
      /\ y \div 100 = IF y % 100 = 0 THEN q + 1 ELSE q
      /\ y \div 400 = IF y % 400 = 0 THEN r + 1 ELSE r
  BY <1>2, <1>3
<1>7. (y % 100 = 0 => y % 4 = 0) /\ (y % 400 = 0 => y % 100 = 0) OBVIOUS
<1>8. DaysBefore(y + 1) = DaysBefore(y) + 365 + Leap(y)
  BY <1>1, <1>2, <1>4, <1>6, <1>7 DEF Leap, IsLeap
<1>9. ASSUME NEW k \in Nat PROVE DaysBefore(y) <= DaysBefore(y + k)
  <2>1. DaysBefore(y + k) = 365 * (b + k) + (b + k) \div 4 - (b + k) \div 100 + (b + k) \div 400
    <3>1. (y + k) - 1 = b + k BY <1>2
    <3>2. QED BY <3>1 DEF DaysBefore
  <2>2. (b + k) \div 4 >= p /\ (b + k) \div 100 <= q + k /\ (b + k) \div 400 >= r BY <1>3
  <2>3. PICK p1 \in Nat, q1 \in Nat, r1 \in Nat :
          p1 = (b + k) \div 4 /\ q1 = (b + k) \div 100 /\ r1 = (b + k) \div 400
    <3>1. b + k \in Nat OBVIOUS
    <3>2. (b + k) \div 4 \in Nat /\ (b + k) \div 100 \in Nat /\ (b + k) \div 400 \in Nat BY <3>1
    <3>3. QED BY <3>2
  <2>4. QED BY <1>4, <2>1, <2>2, <2>3
<1>10. QED BY <1>2, <1>4, <1>5, <1>8, <1>9

\* The day on which a month begins, from the first of the year
LEMMA SumOfLast ==
  ASSUME NEW n \in Nat, NEW f, \A i \in 1..(n + 1) : f[i] \in Int
  PROVE  SumFunctionOnSet(f, 1..(n + 1)) = SumFunctionOnSet(f, 1..n) + f[n + 1]
         /\ SumFunctionOnSet(f, 1..n) \in Int
<1>1. IsFiniteSet(1..(n + 1)) /\ IsFiniteSet(1..n) BY FS_Interval
<1>2. n + 1 \in 1..(n + 1) /\ (1..(n + 1)) \ {n + 1} = 1..n OBVIOUS
<1>3. SumFunctionOnSet(f, 1..(n + 1)) = f[n + 1] + SumFunctionOnSet(f, (1..(n + 1)) \ {n + 1})
  BY <1>1, <1>2, SumOfOne
<1>4. SumFunctionOnSet(f, 1..n) \in Int
  <2>1. \A i \in 1..n : f[i] \in Int OBVIOUS
  <2>2. QED BY <1>1, <2>1, SumOfOne
<1>5. f[n + 1] \in Int BY <1>2
<1>6. SumFunctionOnSet(f, 1..(n + 1)) = f[n + 1] + SumFunctionOnSet(f, 1..n)
  BY <1>2, <1>3, Zenon
<1>7. PICK a \in Int, b \in Int : a = SumFunctionOnSet(f, 1..n) /\ b = f[n + 1]
  BY <1>4, <1>5
<1>8. b + a = a + b OBVIOUS
<1>9. QED BY <1>4, <1>6, <1>7, <1>8

\* Days before a month of a year
Cumulative(y) ==
  <<0, 31, 59 + Leap(y), 90 + Leap(y), 120 + Leap(y), 151 + Leap(y), 181 + Leap(y),
    212 + Leap(y), 243 + Leap(y), 273 + Leap(y), 304 + Leap(y), 334 + Leap(y), 365 + Leap(y)>>

LEMMA MonthStarts ==
  ASSUME NEW y \in Nat
  PROVE  \A m \in 1..12 : SumFunctionOnSet(Lengths(y), 1..(m - 1)) = Cumulative(y)[m]
<1> DEFINE Sum(n) == SumFunctionOnSet(Lengths(y), 1..n)
<1>1. PICK l \in {0, 1} : l = Leap(y) BY DEF Leap
<1>2. PICK f : f = <<31, 28 + l, 31, 30, 31, 30, 31, 31, 30, 31, 30, 31>> OBVIOUS
<1>3. Lengths(y) = f BY <1>1, <1>2 DEF Lengths, Leap
<1>4. \A i \in 1..12 : f[i] \in Int BY <1>2
<1>5. ASSUME NEW n \in 0..11 PROVE Sum(n + 1) = Sum(n) + f[n + 1] /\ Sum(n) \in Int
  <2>1. \A i \in 1..(n + 1) : f[i] \in Int BY <1>4
  <2>2. QED BY <1>3, <2>1, SumOfLast
<1>6. Sum(0) = 0
  <2>1. 1..0 = {} OBVIOUS
  <2>2. QED BY <2>1, SumOfNone
<1> HIDE DEF Sum
<1>7. Sum(1) = Sum(0) + 31 BY <1>2, <1>5
<1>8. Sum(2) = Sum(1) + 28 + l BY <1>2, <1>5
<1>9. Sum(3) = Sum(2) + 31 BY <1>2, <1>5
<1>10. Sum(4) = Sum(3) + 30 BY <1>2, <1>5
<1>11. Sum(5) = Sum(4) + 31 BY <1>2, <1>5
<1>12. Sum(6) = Sum(5) + 30 BY <1>2, <1>5
<1>13. Sum(7) = Sum(6) + 31 BY <1>2, <1>5
<1>14. Sum(8) = Sum(7) + 31 BY <1>2, <1>5
<1>15. Sum(9) = Sum(8) + 30 BY <1>2, <1>5
<1>16. Sum(10) = Sum(9) + 31 BY <1>2, <1>5
<1>17. Sum(11) = Sum(10) + 30 BY <1>2, <1>5
<1>18. /\ Sum(1) = 31 /\ Sum(2) = 59 + l /\ Sum(3) = 90 + l /\ Sum(4) = 120 + l
       /\ Sum(5) = 151 + l /\ Sum(6) = 181 + l /\ Sum(7) = 212 + l /\ Sum(8) = 243 + l
       /\ Sum(9) = 273 + l /\ Sum(10) = 304 + l /\ Sum(11) = 334 + l
  BY <1>6, <1>7, <1>8, <1>9, <1>10, <1>11, <1>12, <1>13, <1>14, <1>15, <1>16, <1>17
<1>19. ASSUME NEW m \in 1..12 PROVE Sum(m - 1) = Cumulative(y)[m]
  BY <1>1, <1>6, <1>18 DEF Cumulative
<1>20. QED BY <1>19 DEF Sum

\* The dates of our era after its first year, and their numbers
IsDate(y, m, d) == y \in Nat /\ y >= 2 /\ m \in 1..12 /\ d \in 1..Lengths(y)[m]

LEMMA DaysAreNumbered ==
  ASSUME NEW y \in Nat, y >= 1, NEW m \in 1..12, NEW d \in Int
  PROVE  DayNumber(y, m, d) = DaysBefore(y) + Cumulative(y)[m] + d
BY MonthStarts DEF DayNumber

LEMMA MonthsFit ==
  ASSUME NEW y \in Nat, y >= 1, NEW m \in 1..12
  PROVE  /\ DaysBefore(y) \in Int /\ Cumulative(y)[m] \in Int /\ Lengths(y)[m] \in Nat
         /\ Cumulative(y)[m + 1] = Cumulative(y)[m] + Lengths(y)[m]
         /\ 0 <= Cumulative(y)[m] /\ Cumulative(y)[m] + Lengths(y)[m] <= 365 + Leap(y)
<1>1. PICK l \in {0, 1} : l = Leap(y) BY DEF Leap
<1>2. PICK f : f = <<31, 28 + l, 31, 30, 31, 30, 31, 31, 30, 31, 30, 31>> OBVIOUS
<1>3. Lengths(y) = f BY <1>1, <1>2 DEF Lengths, Leap
<1>4. PICK c : c = <<0, 31, 59 + l, 90 + l, 120 + l, 151 + l, 181 + l, 212 + l, 243 + l,
                     273 + l, 304 + l, 334 + l, 365 + l>>
  OBVIOUS
<1>5. Cumulative(y) = c BY <1>1, <1>4 DEF Cumulative
<1>6. DaysBefore(y) \in Int /\ DaysBefore(y + 1) = DaysBefore(y) + 365 + Leap(y)
  BY YearsAreApart
<1>8. /\ c[m] \in Int /\ f[m] \in Nat /\ c[m + 1] = c[m] + f[m]
      /\ 0 <= c[m] /\ c[m] + f[m] <= 365 + l
  BY <1>2, <1>4
<1>9. QED BY <1>1, <1>3, <1>5, <1>6, <1>8

LEMMA MonthsFollow ==
  ASSUME NEW y \in Nat, NEW k \in 1..12, NEW m \in 1..12, k < m
  PROVE  Cumulative(y)[k] + Lengths(y)[k] <= Cumulative(y)[m]
<1>1. PICK l \in {0, 1} : l = Leap(y) BY DEF Leap
<1>2. PICK f : f = <<31, 28 + l, 31, 30, 31, 30, 31, 31, 30, 31, 30, 31>> OBVIOUS
<1>3. PICK c : c = <<0, 31, 59 + l, 90 + l, 120 + l, 151 + l, 181 + l, 212 + l, 243 + l,
                     273 + l, 304 + l, 334 + l, 365 + l>>
  OBVIOUS
<1>4. Lengths(y) = f /\ Cumulative(y) = c
  BY <1>1, <1>2, <1>3 DEF Lengths, Cumulative, Leap
<1>5. c[k] + f[k] <= c[m] BY <1>2, <1>3
<1>6. QED BY <1>4, <1>5

\* Every day has a date.
LEMMA DateExists ==
  ASSUME NEW number \in Nat, number >= 366
  PROVE  \E y, m, d : /\ IsDate(y, m, d) /\ number = DayNumber(y, m, d)
                      /\ number <= 366 * y
<1>1. PICK a \in Nat, b \in Nat : a = number \div 366 /\ b = number \div 365 + 1
  <2>1. number \div 366 \in Nat /\ number \div 365 + 1 \in Nat OBVIOUS
  <2>2. QED BY <2>1
<1>2. 1 <= a /\ a <= b /\ 366 * a <= number /\ number < 365 * b BY <1>1
<1>3. \A y \in a..b : y \in Nat /\ y >= 1 /\ DaysBefore(y) \in Int /\ DaysBefore(y + 1) \in Int
  <2> TAKE y \in a..b
  <2>1. y \in Nat /\ y >= 1 /\ y + 1 \in Nat /\ y + 1 >= 1 BY <1>2
  <2>2. QED BY <2>1, YearsAreApart
<1> DEFINE S == {y \in a..b : number <= DaysBefore(y + 1)}
<1>4. b \in S
  <2>1. b + 1 \in Nat /\ b + 1 >= 1 /\ (b + 1) - 1 = b BY <1>2
  <2>2. 365 * b <= DaysBefore(b + 1) BY <2>1, YearsAreApart
  <2>3. b \in a..b BY <1>2
  <2>4. QED BY <1>2, <1>3, <2>2, <2>3
<1>5. S \in SUBSET Nat /\ IsFiniteSet(S)
  <2>1. IsFiniteSet(a..b) BY <1>2, RangeSize
  <2>2. QED BY <1>3, <2>1, FS_Subset
<1>6. PICK y \in S : \A z \in S : y <= z BY <1>4, <1>5, LeastNumber
<1>7. y \in a..b /\ y \in Nat /\ y >= 1 /\ number <= DaysBefore(y + 1) BY <1>3, <1>6
<1>8. DaysBefore(y) < number
  <2>1. CASE y = a
    <3>1. DaysBefore(y) <= 366 * (y - 1) BY <1>7, YearsAreApart
    <3>2. QED BY <1>2, <1>3, <1>7, <2>1, <3>1
  <2>2. CASE y # a
    <3>1. y - 1 \in a..b /\ (y - 1) + 1 = y BY <1>7, <2>2
    <3>2. y - 1 \notin S BY <1>6, <1>7
    <3>3. ~(number <= DaysBefore(y)) BY <3>1, <3>2
    <3>4. QED BY <1>3, <1>7, <3>3
  <2>3. QED BY <2>1, <2>2
<1>9. y >= 2 /\ number <= 366 * y
  <2>1. y + 1 >= 1 /\ (y + 1) - 1 = y BY <1>7
  <2>2. DaysBefore(y + 1) <= 366 * y BY <1>7, <2>1, YearsAreApart
  <2>3. CASE y = 1
    <3>1. DaysBefore(2) = 365 BY DEF DaysBefore
    <3>2. DaysBefore(y + 1) = 365 BY <2>3, <3>1
    <3>3. QED BY <1>7, <3>2
  <2>4. QED BY <1>3, <1>7, <2>2, <2>3
<1>10. PICK D \in Int : D = DaysBefore(y) BY <1>3, <1>7
<1>11. PICK l \in {0, 1} : l = Leap(y) BY DEF Leap
<1>12. PICK e \in Int : e = number - D OBVIOUS
<1>13. 1 <= e /\ e <= 365 + l
  <2>1. DaysBefore(y + 1) = D + 365 + l BY <1>7, <1>10, <1>11, YearsAreApart
  <2>2. QED BY <1>7, <1>8, <1>10, <1>12, <2>1
<1>14. PICK f : f = <<31, 28 + l, 31, 30, 31, 30, 31, 31, 30, 31, 30, 31>> OBVIOUS
<1>15. PICK c : c = <<0, 31, 59 + l, 90 + l, 120 + l, 151 + l, 181 + l, 212 + l, 243 + l,
                      273 + l, 304 + l, 334 + l, 365 + l>>
  OBVIOUS
<1>16. Lengths(y) = f /\ Cumulative(y) = c
  BY <1>11, <1>14, <1>15 DEF Lengths, Cumulative, Leap
<1>17. PICK m \in 1..12 : c[m] < e /\ e <= c[m] + f[m]
  <2>1. /\ c[1] = 0 /\ c[2] = 31 /\ c[3] = 59 + l /\ c[4] = 90 + l /\ c[5] = 120 + l
        /\ c[6] = 151 + l /\ c[7] = 181 + l /\ c[8] = 212 + l /\ c[9] = 243 + l
        /\ c[10] = 273 + l /\ c[11] = 304 + l /\ c[12] = 334 + l
    BY <1>15
  <2>2. /\ f[1] = 31 /\ f[2] = 28 + l /\ f[3] = 31 /\ f[4] = 30 /\ f[5] = 31 /\ f[6] = 30
        /\ f[7] = 31 /\ f[8] = 31 /\ f[9] = 30 /\ f[10] = 31 /\ f[11] = 30 /\ f[12] = 31
    BY <1>14
  <2>3. CASE e <= 181 + l
    <3>1. \E m \in {1, 2, 3, 4, 5, 6} : c[m] < e /\ e <= c[m] + f[m] BY <1>13, <2>1, <2>2, <2>3
    <3>2. QED BY <3>1
  <2>4. CASE ~(e <= 181 + l)
    <3>1. \E m \in {7, 8, 9, 10, 11, 12} : c[m] < e /\ e <= c[m] + f[m]
      BY <1>13, <2>1, <2>2, <2>4
    <3>2. QED BY <3>1
  <2>5. QED BY <2>3, <2>4
<1>18. PICK d \in Int : d = e - c[m] /\ c[m] \in Int /\ f[m] \in Int BY <1>14, <1>15
<1>19. 1 <= d /\ d <= f[m] BY <1>17, <1>18
<1>20. IsDate(y, m, d) BY <1>7, <1>9, <1>16, <1>18, <1>19 DEF IsDate
<1>21. DayNumber(y, m, d) = D + c[m] + d BY <1>7, <1>10, <1>16, DaysAreNumbered
<1>22. number = D + c[m] + d BY <1>12, <1>18
<1>23. QED BY <1>9, <1>20, <1>21, <1>22

\* And the functions of the calendar find it.
LEMMA DateIsFound ==
  ASSUME NEW y, NEW m, NEW d, IsDate(y, m, d)
  PROVE  /\ DayNumber(y, m, d) \in Nat /\ DayNumber(y, m, d) >= 366
         /\ DayNumber(y, m, d) <= 366 * y
         /\ DayAt(DayNumber(y, m, d), YearOf(DayNumber(y, m, d))) = [year |-> y, month |-> m, day |-> d]
<1>1. y \in Nat /\ y >= 2 /\ y >= 1 /\ m \in 1..12 /\ d \in 1..Lengths(y)[m] BY DEF IsDate
<1>2. PICK D \in Int, c \in Int, l \in Nat :
        D = DaysBefore(y) /\ c = Cumulative(y)[m] /\ l = Lengths(y)[m]
  BY <1>1, MonthsFit
<1>3. d \in Int /\ 1 <= d /\ d <= l BY <1>1, <1>2
<1>4. PICK N \in Int : N = D + c + d BY <1>3
<1>5. DayNumber(y, m, d) = N BY <1>1, <1>2, <1>3, <1>4, DaysAreNumbered
<1>6. PICK p \in {0, 1} : p = Leap(y) BY DEF Leap
<1>7. 0 <= c /\ c + l <= 365 + p /\ DaysBefore(y + 1) = D + 365 + p
  <2>1. 0 <= c /\ c + l <= 365 + p
    <3>1. 0 <= Cumulative(y)[m] /\ Cumulative(y)[m] + Lengths(y)[m] <= 365 + Leap(y)
      BY <1>1, MonthsFit
    <3>2. QED BY <1>2, <1>6, <3>1
  <2>2. DaysBefore(y + 1) = DaysBefore(y) + 365 + Leap(y) BY <1>1, YearsAreApart
  <2>3. QED BY <1>2, <1>6, <2>1, <2>2
<1>8. D < N /\ N <= DaysBefore(y + 1) BY <1>3, <1>4, <1>7
<1>9. 365 * (y - 1) <= D /\ DaysBefore(y + 1) <= 366 * y
  <2>1. y + 1 \in Nat /\ y + 1 >= 1 /\ (y + 1) - 1 = y BY <1>1
  <2>2. QED BY <1>1, <1>2, <2>1, YearsAreApart
<1>10. PICK E \in Int : E = DaysBefore(y + 1) BY <1>7
<1>11. N \in Nat /\ N >= 366 /\ N <= 366 * y BY <1>1, <1>4, <1>8, <1>9, <1>10
<1>12. YearOf(N) = y
  <2>1. y \in (N \div 366)..(N \div 365 + 1)
    <3>1. N > 365 * (y - 1) BY <1>1, <1>8, <1>9
    <3>2. QED BY <1>1, <1>11, <3>1
  <2>2. ASSUME NEW z \in (N \div 366)..(N \div 365 + 1),
               DaysBefore(z) < N, N <= DaysBefore(z + 1)
        PROVE  z = y
    <3>1. z \in Nat /\ z >= 1
      <4>1. N \div 366 >= 1 /\ N \div 366 \in Nat /\ N \div 365 \in Nat BY <1>11
      <4>2. QED BY <4>1
    <3>2. PICK Dz \in Int, Ez \in Int : Dz = DaysBefore(z) /\ Ez = DaysBefore(z + 1)
      <4>1. DaysBefore(z) \in Int BY <3>1, YearsAreApart
      <4>2. z + 1 \in Nat /\ z + 1 >= 1 BY <3>1
      <4>3. DaysBefore(z + 1) \in Int BY <4>2, YearsAreApart
      <4>4. QED BY <4>1, <4>3
    <3>3. ~(z < y)
      <4> SUFFICES ASSUME z < y PROVE FALSE OBVIOUS
      <4>1. z + 1 \in Nat /\ z + 1 >= 1 /\ y - (z + 1) \in Nat /\ (z + 1) + (y - (z + 1)) = y
        BY <1>1, <3>1
      <4>2. DaysBefore(z + 1) <= DaysBefore((z + 1) + (y - (z + 1))) BY <4>1, YearsAreApart
      <4>3. Ez <= D BY <1>2, <3>2, <4>1, <4>2
      <4>4. QED BY <1>8, <2>2, <3>2, <4>3
    <3>4. ~(y < z)
      <4> SUFFICES ASSUME y < z PROVE FALSE OBVIOUS
      <4>1. y + 1 \in Nat /\ y + 1 >= 1 /\ z - (y + 1) \in Nat /\ (y + 1) + (z - (y + 1)) = z
        BY <1>1, <3>1
      <4>2. DaysBefore(y + 1) <= DaysBefore((y + 1) + (z - (y + 1))) BY <4>1, YearsAreApart
      <4>3. E <= Dz BY <1>10, <3>2, <4>1, <4>2
      <4>4. QED BY <1>8, <1>10, <2>2, <3>2, <4>3
    <3>5. QED BY <1>1, <3>1, <3>3, <3>4
  <2>3. QED BY <1>2, <1>8, <2>1, <2>2 DEF YearOf
<1>13. \A k \in 1..12 : DayNumber(y, k, 0) = D + Cumulative(y)[k] /\ Cumulative(y)[k] \in Int
  <2> TAKE k \in 1..12
  <2>1. PICK ck \in Int : ck = Cumulative(y)[k] BY <1>1, MonthsFit
  <2>2. PICK z \in Int : z = 0 OBVIOUS
  <2>3. DayNumber(y, k, z) = DaysBefore(y) + Cumulative(y)[k] + z BY <1>1, DaysAreNumbered
  <2>4. QED BY <1>2, <2>1, <2>2, <2>3
<1>14. MonthOf(N, y) = m
  <2>1. 1 <= N - DayNumber(y, m, 0) /\ N - DayNumber(y, m, 0) <= Lengths(y)[m]
    BY <1>1, <1>2, <1>3, <1>4, <1>13
  <2>2. ASSUME NEW k \in 1..12, 1 <= N - DayNumber(y, k, 0), N - DayNumber(y, k, 0) <= Lengths(y)[k]
        PROVE  k = m
    <3>1. PICK ck \in Int, lk \in Nat : ck = Cumulative(y)[k] /\ lk = Lengths(y)[k]
      BY <1>1, MonthsFit
    <3>2. 1 <= (c + d) - ck /\ (c + d) - ck <= lk BY <1>3, <1>4, <1>13, <2>2, <3>1
    <3>3. k < m => ck + lk <= c BY <1>1, <1>2, <3>1, MonthsFollow
    <3>4. m < k => c + l <= ck BY <1>1, <1>2, <3>1, MonthsFollow
    <3>5. QED BY <1>1, <1>3, <3>2, <3>3, <3>4
  <2>3. QED BY <1>1, <2>1, <2>2 DEF MonthOf
<1>15. N - DayNumber(y, m, 0) = d BY <1>1, <1>2, <1>3, <1>4, <1>13
<1>16. QED BY <1>5, <1>11, <1>12, <1>14, <1>15 DEF DayAt, DateOf

-----------------------------------------------------------------------------
(* Resolving a template *)

\* What is left of a list when repetitions are left out
LEMMA EachOnceKeeps ==
  ASSUME NEW T, NEW s \in Seq(T)
  PROVE  /\ EachOnce(s) \in Seq(T) /\ Once(EachOnce(s))
         /\ \A x : Holds(EachOnce(s), x) <=> Holds(s, x)
         /\ Len(s) >= 1 => Len(EachOnce(s)) >= 1 /\ EachOnce(s)[1] = s[1]
<1>1. PICK n \in Nat : n = Len(s) /\ DOMAIN s = 1..n OBVIOUS
<1> DEFINE Seen(i) == \E j \in 1..(i - 1) : s[j] = s[i]
<1>2. PICK r : r = [i \in 1..n |-> IF Seen(i) THEN <<>> ELSE <<s[i]>>] OBVIOUS
<1>3. EachOnce(s) = FlattenSeq(r) BY <1>1, <1>2 DEF EachOnce
<1>4. \A i \in 1..n : s[i] \in T BY <1>1
<1>5. \A i \in 1..n : /\ r[i] \in Seq(T) /\ Len(r[i]) = IF Seen(i) THEN 0 ELSE 1
                      /\ ~Seen(i) => r[i][1] = s[i]
  <2> TAKE i \in 1..n
  <2>1. s[i] \in T BY <1>4
  <2>2. <<s[i]>> \in Seq(T) /\ Len(<<s[i]>>) = 1 /\ <<s[i]>>[1] = s[i] BY <2>1
  <2>3. r[i] = IF Seen(i) THEN <<>> ELSE <<s[i]>> BY <1>2
  <2> HIDE DEF Seen
  <2>4. CASE Seen(i) BY <2>3, <2>4
  <2>5. CASE ~Seen(i) BY <2>2, <2>3, <2>5
  <2>6. QED BY <2>4, <2>5
<1>6. DOMAIN r = 1..n BY <1>2
<1>7. r \in Seq(Seq(T)) /\ Len(r) = n
  <2>1. PICK X : X = Seq(T) OBVIOUS
  <2>2. r = [i \in 1..n |-> r[i]] BY <1>2
  <2>3. r \in [1..n -> X] BY <1>5, <2>1, <2>2
  <2>4. r \in Seq(X) /\ Len(r) = n BY <1>6, <2>3
  <2>5. QED BY <2>1, <2>4
<1>8. PICK F : Joins(F, r, T) /\ FlattenSeq(r) = F[Len(r)] BY <1>7, FlattenJoins
<1>9. PICK y : y = FlattenSeq(r) OBVIOUS
<1>10. y = F[n] BY <1>7, <1>8, <1>9
<1>11. y \in Seq(T)
  <2>1. PICK X : X = Seq(T) OBVIOUS
  <2>2. F \in [0..n -> X] BY <1>7, <1>8, <2>1 DEF Joins
  <2>3. QED BY <1>10, <2>1, <2>2
<1>12. \A i \in 1..n : \A x : Holds(r[i], x) <=> x = s[i] /\ ~Seen(i)
  <2> TAKE i \in 1..n
  <2> TAKE x
  <2> HIDE DEF Seen
  <2>1. CASE ~Seen(i)
    <3>1. Len(r[i]) = 1 /\ r[i][1] = s[i] BY <1>5, <2>1
    <3>2. QED BY <2>1, <3>1 DEF Holds
  <2>2. CASE Seen(i)
    <3>1. Len(r[i]) = 0 BY <1>5, <2>2
    <3>2. QED BY <2>2, <3>1 DEF Holds
  <2>3. QED BY <2>1, <2>2
<1>13. \A x : Holds(y, x) <=> \E i \in 1..n : s[i] = x /\ ~Seen(i)
  <2> TAKE x
  <2>1. n \in 0..Len(r) BY <1>7
  <2>2. Holds(F[n], x) <=> \E i \in 1..n : Holds(r[i], x) BY <1>7, <1>8, <2>1, JoinsElements
  <2> HIDE DEF Seen
  <2>3. QED BY <1>10, <1>12, <2>2
<1>14. \A x : Holds(s, x) => \E i \in 1..n : s[i] = x /\ ~Seen(i)
  <2> SUFFICES ASSUME NEW x, Holds(s, x) PROVE \E i \in 1..n : s[i] = x /\ ~Seen(i) OBVIOUS
  <2> DEFINE S == {i \in 1..n : s[i] = x}
  <2>1. S \in SUBSET Nat /\ IsFiniteSet(S) /\ S # {}
    <3>1. IsFiniteSet(1..n) BY FS_Interval
    <3>2. S \in SUBSET (1..n) OBVIOUS
    <3>3. S # {} BY <1>1 DEF Holds
    <3>4. 1..n \in SUBSET Nat OBVIOUS
    <3> HIDE DEF S
    <3>5. QED BY <3>1, <3>2, <3>3, <3>4, FS_Subset
  <2>2. PICK i \in S : \A j \in S : i <= j BY <2>1, LeastNumber
  <2>3. i \in 1..n /\ s[i] = x OBVIOUS
  <2>4. ASSUME NEW j \in 1..(i - 1) PROVE s[j] # s[i]
    <3>1. j \in 1..n /\ ~(i <= j) BY <2>3
    <3>2. QED BY <2>2, <2>3, <3>1
  <2>5. QED BY <2>3, <2>4
<1>15. \A x : Holds(y, x) <=> Holds(s, x)
  <2>1. \A x : (\E i \in 1..n : s[i] = x) => Holds(s, x) BY <1>1 DEF Holds
  <2> HIDE DEF Seen
  <2>2. QED BY <1>13, <1>14, <2>1
<1>16. Separate(r)
  <2>1. ASSUME NEW i \in 1..n PROVE Once(r[i])
    <3> HIDE DEF Seen
    <3>1. Len(r[i]) = 1 \/ Len(r[i]) = 0 BY <1>5
    <3>2. QED BY <3>1 DEF Once
  <2>2. ASSUME NEW i \in 1..n, NEW j \in 1..n, i # j, ~Seen(i), ~Seen(j) PROVE s[i] # s[j]
    <3>1. i \in 1..(j - 1) \/ j \in 1..(i - 1) BY <2>2
    <3>2. QED BY <2>2, <3>1
  <2>3. ASSUME NEW i \in 1..n, NEW j \in 1..n, i # j,
               NEW k \in 1..Len(r[i]), NEW m \in 1..Len(r[j])
        PROVE  r[i][k] # r[j][m]
    <3> HIDE DEF Seen
    <3>1. Holds(r[i], r[i][k]) /\ Holds(r[j], r[j][m]) BY DEF Holds
    <3>2. r[i][k] = s[i] /\ r[j][m] = s[j] /\ ~Seen(i) /\ ~Seen(j) BY <1>12, <3>1
    <3>3. s[i] # s[j] BY <2>2, <2>3, <3>2
    <3>4. QED BY <3>2, <3>3
  <2>4. QED BY <1>7, <2>1, <2>3 DEF Separate
<1>17. Once(y)
  <2>1. Once(F[Len(r)]) BY <1>7, <1>8, <1>16, JoinsOnce
  <2>2. QED BY <1>7, <1>10, <2>1
<1>18. ASSUME n >= 1 PROVE Len(y) >= 1 /\ y[1] = s[1]
  <2>1. 1 \in 0..Len(r) /\ 1 \in 1..Len(r) /\ 1 \in 1..n BY <1>7, <1>18
  <2>2. ~Seen(1) OBVIOUS
  <2> HIDE DEF Seen
  <2>3. Len(r[1]) = 1 /\ r[1][1] = s[1] /\ r[1] \in Seq(T) BY <1>5, <2>1, <2>2
  <2>4. F[1] = <<>> \o r[1]
    <3>1. F[1] = F[1 - 1] \o r[1] /\ F[0] = <<>> BY <1>8, <2>1 DEF Joins
    <3>2. F[1 - 1] = F[0] OBVIOUS
    <3>3. QED BY <3>1, <3>2
  <2>5. F[1] = r[1] BY <2>3, <2>4
  <2>6. /\ Len(F[1]) <= Len(F[Len(r)])
        /\ \A i \in 1..Len(F[1]) : F[Len(r)][i] = F[1][i]
    BY <1>7, <1>8, <2>1, JoinsGrow
  <2>7. QED BY <1>7, <1>10, <1>11, <2>3, <2>5, <2>6
<1>19. QED BY <1>1, <1>3, <1>9, <1>11, <1>15, <1>17, <1>18

-----------------------------------------------------------------------------
(* Rendering *)

\* A moment of our era after its first year has a date.
IsMoment(moment) == moment \in Nat /\ moment >= 24 * 366

LEMMA MomentHasDate ==
  ASSUME NEW moment, IsMoment(moment)
  PROVE  \E y, m, d : /\ IsDate(y, m, d) /\ DateAt(moment) = [year |-> y, month |-> m, day |-> d]
                      /\ moment \div 24 = DayNumber(y, m, d) /\ moment \div 24 <= 366 * y
                      /\ HourOf(moment) \in 0..23
<1>1. PICK N \in Nat : N = moment \div 24
  <2>1. moment \div 24 \in Nat BY DEF IsMoment
  <2>2. QED BY <2>1
<1>2. N >= 366 /\ moment % 24 \in 0..23 BY <1>1 DEF IsMoment
<1>3. PICK y, m, d : IsDate(y, m, d) /\ N = DayNumber(y, m, d) /\ N <= 366 * y
  BY <1>2, DateExists
<1>4. DayAt(N, YearOf(N)) = [year |-> y, month |-> m, day |-> d] BY <1>3, DateIsFound
<1>5. DateAt(moment) = [year |-> y, month |-> m, day |-> d] BY <1>1, <1>4 DEF DateAt
<1>6. QED BY <1>1, <1>2, <1>3, <1>5 DEF HourOf

\* The digits of a number
LEMMA NumeralsAreDigits ==
  ASSUME NEW value \in Nat, NEW width \in {1, 2, 4}
  PROVE  /\ Numeral(value, width) \in Seq(Token) /\ Len(Numeral(value, width)) = width
         /\ \A i \in 1..width : Numeral(value, width)[i] \in Digits
<1>1. PICK w \in Nat : w = width /\ w <= 4 OBVIOUS
<1>2. PICK p : p = <<1, 10, 100, 1000>> OBVIOUS
<1>3. ASSUME NEW i \in 1..w PROVE ((value \div p[w + 1 - i]) % 10) + 1 \in 1..10
  <2>1. w + 1 - i \in 1..4 BY <1>1
  <2>2. p[w + 1 - i] \in {1, 10, 100, 1000} BY <1>2, <2>1
  <2>3. PICK q \in Nat : q = p[w + 1 - i] /\ q >= 1 BY <2>2
  <2>4. value \div q \in Nat
    <3>1. CASE q = 1 BY <3>1
    <3>2. CASE q = 10 BY <3>2
    <3>3. CASE q = 100 BY <3>3
    <3>4. CASE q = 1000 BY <3>4
    <3>5. QED BY <2>2, <2>3, <3>1, <3>2, <3>3, <3>4
  <2>5. PICK v \in Nat : v = value \div q BY <2>4
  <2>6. (v % 10) + 1 \in 1..10 OBVIOUS
  <2>7. QED BY <2>3, <2>5, <2>6
<1>4. PICK digit : digit = Digit OBVIOUS
<1>6. \A j \in 1..10 : Digit[j] \in Digits
  <2>1. DOMAIN Digit = 1..10 BY DEF Digit
  <2>2. QED BY <2>1 DEF Digits, ToSet
<1>7. PICK s : s = Numeral(value, width) OBVIOUS
<1>8. s = [i \in 1..w |-> digit[((value \div p[w + 1 - i]) % 10) + 1]]
  BY <1>1, <1>2, <1>4, <1>7 DEF Numeral
<1>9. \A i \in 1..w : s[i] \in Token /\ s[i] \in Digits
  BY <1>3, <1>4, <1>6, <1>8 DEF Token
<1>10. s \in Seq(Token) /\ Len(s) = w
  <2>1. s = [i \in 1..w |-> s[i]] BY <1>8
  <2>2. s \in [1..w -> Token] BY <1>9, <2>1
  <2>3. QED BY <1>1, <2>2
<1>11. QED BY <1>1, <1>7, <1>9, <1>10

\* What a field is rendered to: digits, as many as the field may have
LEMMA FieldsAreDigits ==
  ASSUME NEW name \in DOMAIN Fields, NEW moment, IsMoment(moment)
  PROVE  LET s == RenderField(name, DateAt(moment), HourOf(moment))
         IN  /\ s \in Seq(Token) /\ Len(s) \in ToSet(Fields[name].widths)
             /\ \A i \in 1..Len(s) : s[i] \in Digits
<1>1. PICK y, m, d : /\ IsDate(y, m, d) /\ DateAt(moment) = [year |-> y, month |-> m, day |-> d]
                     /\ HourOf(moment) \in 0..23
  BY MomentHasDate
<1>2. PICK date : date = DateAt(moment) OBVIOUS
<1>3. PICK hour \in 0..23 : hour = HourOf(moment) BY <1>1
<1>4. date.year \in Nat /\ date.month \in Nat /\ date.day \in Nat
  <2>1. y \in Nat /\ m \in 1..12 /\ d \in Nat BY <1>1 DEF IsDate
  <2>2. QED BY <1>1, <1>2, <2>1
<1>5. date.year % 100 \in Nat BY <1>4
<1> DEFINE Fine(s, widths) == /\ s \in Seq(Token) /\ Len(s) \in widths
                              /\ \A i \in 1..Len(s) : s[i] \in Digits
<1>6. \A value \in Nat : /\ Fine(Numeral(value, 2), {2}) /\ Fine(Numeral(value, 4), {4})
                         /\ Fine(Unpadded(value), {2, 1})
  <2> TAKE value \in Nat
  <2>1. Fine(Numeral(value, 2), {2}) BY NumeralsAreDigits
  <2>2. Fine(Numeral(value, 4), {4}) BY NumeralsAreDigits
  <2>3. Fine(Numeral(value, 1), {1}) BY NumeralsAreDigits
  <2>4. Fine(Unpadded(value), {2, 1}) BY <2>1, <2>3 DEF Unpadded
  <2>5. QED BY <2>1, <2>2, <2>4
<1> DEFINE R(f) == RenderField(f, date, hour)
           W(f) == ToSet(Fields[f].widths)
<1>7. /\ W("yyyy") = {4} /\ W("yy") = {2} /\ W("MM") = {2} /\ W("M") = {2, 1}
      /\ W("dd") = {2} /\ W("d") = {2, 1} /\ W("HH") = {2} /\ W("H") = {2, 1}
  BY DEF Fields, ToSet
<1>8. /\ R("yyyy") = Numeral(date.year, 4) /\ R("yy") = Numeral(date.year % 100, 2)
      /\ R("MM") = Numeral(date.month, 2) /\ R("M") = Unpadded(date.month)
      /\ R("dd") = Numeral(date.day, 2) /\ R("d") = Unpadded(date.day)
      /\ R("HH") = Numeral(hour, 2) /\ R("H") = Unpadded(hour)
  BY DEF RenderField
<1>9. name \in {"yyyy", "yy", "MM", "M", "dd", "d", "HH", "H"} BY DEF Fields
<1>10. hour \in Nat OBVIOUS
<1> HIDE DEF R, W, Fine
<1>11. Fine(R("yyyy"), W("yyyy")) /\ Fine(R("yy"), W("yy")) BY <1>4, <1>5, <1>6, <1>7, <1>8
<1>12. Fine(R("MM"), W("MM")) /\ Fine(R("M"), W("M")) BY <1>4, <1>6, <1>7, <1>8
<1>13. Fine(R("dd"), W("dd")) /\ Fine(R("d"), W("d")) BY <1>4, <1>6, <1>7, <1>8
<1>14. Fine(R("HH"), W("HH")) /\ Fine(R("H"), W("H")) BY <1>6, <1>7, <1>8, <1>10
<1>15. Fine(R(name), W(name)) BY <1>9, <1>11, <1>12, <1>13, <1>14
<1>16. QED BY <1>2, <1>3, <1>15 DEF R, W, Fine

\* What the segments are rendered to, one by one
Parts(segments, moment) ==
  [k \in DOMAIN segments |->
     IF IsField(segments[k])
     THEN RenderField(segments[k].field, DateAt(moment), HourOf(moment))
     ELSE <<segments[k].literal>>]

LEMMA SegmentIsOneOf ==
  ASSUME NEW s \in Segment
  PROVE  /\ IsField(s) => s.field \in DOMAIN Fields
         /\ ~IsField(s) => s.literal \in Plain
<1>1. CASE s \in [literal : Plain]
  <2>1. s.literal \in Plain /\ DOMAIN s = {"literal"} BY <1>1
  <2>2. ~IsField(s) BY <2>1 DEF IsField
  <2>3. QED BY <2>1, <2>2
<1>2. CASE s \in [field : DOMAIN Fields]
  <2>1. s.field \in DOMAIN Fields /\ DOMAIN s = {"field"} BY <1>2
  <2>2. IsField(s) BY <2>1 DEF IsField
  <2>3. QED BY <2>1, <2>2
<1>3. QED BY <1>1, <1>2 DEF Segment

LEMMA PartsAreText ==
  ASSUME NEW segments \in Seq(Segment), NEW moment, IsMoment(moment)
  PROVE  /\ Parts(segments, moment) \in Seq(Seq(Token))
         /\ Len(Parts(segments, moment)) = Len(segments)
         /\ \A k \in 1..Len(segments) :
              LET s == Parts(segments, moment)[k]
              IN  /\ s \in Seq(Token)
                  /\ IsField(segments[k]) =>
                       /\ Len(s) \in ToSet(Fields[segments[k].field].widths)
                       /\ \A i \in 1..Len(s) : s[i] \in Digits
                  /\ ~IsField(segments[k]) => Len(s) = 1 /\ s[1] = segments[k].literal
<1>1. PICK n \in Nat : n = Len(segments) /\ DOMAIN segments = 1..n OBVIOUS
<1>2. PICK parts : parts = Parts(segments, moment) OBVIOUS
<1>3. parts = [k \in 1..n |-> parts[k]] /\ DOMAIN parts = 1..n BY <1>1, <1>2 DEF Parts
<1>4. ASSUME NEW k \in 1..n
      PROVE  /\ parts[k] \in Seq(Token)
             /\ IsField(segments[k]) =>
                  /\ Len(parts[k]) \in ToSet(Fields[segments[k].field].widths)
                  /\ \A i \in 1..Len(parts[k]) : parts[k][i] \in Digits
             /\ ~IsField(segments[k]) => Len(parts[k]) = 1 /\ parts[k][1] = segments[k].literal
  <2>1. PICK s \in Segment : s = segments[k] BY <1>1
  <2>2. CASE IsField(s)
    <3>1. parts[k] = RenderField(s.field, DateAt(moment), HourOf(moment))
      BY <1>1, <1>2, <2>1, <2>2 DEF Parts
    <3>2. s.field \in DOMAIN Fields BY <2>2, SegmentIsOneOf
    <3>3. PICK p : p = RenderField(s.field, DateAt(moment), HourOf(moment)) OBVIOUS
    <3>4. /\ p \in Seq(Token) /\ Len(p) \in ToSet(Fields[s.field].widths)
          /\ \A i \in 1..Len(p) : p[i] \in Digits
      BY <3>2, <3>3, FieldsAreDigits
    <3>5. QED BY <2>1, <2>2, <3>1, <3>3, <3>4
  <2>3. CASE ~IsField(s)
    <3>1. parts[k] = <<s.literal>> BY <1>1, <1>2, <2>1, <2>3 DEF Parts
    <3>2. s.literal \in Token BY <2>3, SegmentIsOneOf DEF Token
    <3>3. QED BY <2>1, <2>3, <3>1, <3>2
  <2>4. QED BY <2>2, <2>3
<1>5. parts \in Seq(Seq(Token)) /\ Len(parts) = n
  <2>1. PICK X : X = Seq(Token) OBVIOUS
  <2>2. parts \in [1..n -> X] BY <1>3, <1>4, <2>1
  <2>3. parts \in Seq(X) /\ Len(parts) = n BY <1>3, <2>2
  <2>4. QED BY <2>1, <2>3
<1>6. QED BY <1>1, <1>2, <1>4, <1>5

LEMMA RenderIsText ==
  ASSUME NEW segments \in Seq(Segment), NEW moment, IsMoment(moment)
  PROVE  Render(segments, moment) \in Seq(Token)
<1>1. PICK s \in Seq(Seq(Token)) : s = Parts(segments, moment) BY PartsAreText
<1>2. PICK F : Joins(F, s, Token) /\ FlattenSeq(s) = F[Len(s)] BY FlattenJoins
<1>3. F[Len(s)] \in Seq(Token)
  <2>1. PICK X : X = Seq(Token) OBVIOUS
  <2>2. F \in [0..Len(s) -> X] /\ Len(s) \in 0..Len(s) BY <1>2, <2>1 DEF Joins
  <2>3. QED BY <2>1, <2>2
<1>4. Render(segments, moment) = FlattenSeq(s) BY <1>1 DEF Render, Parts
<1>5. QED BY <1>2, <1>3, <1>4

\* The finest unit of the fields of a template
Unit(segments) ==
  Max({Fields[segments[k].field].unit : k \in {j \in DOMAIN segments : IsField(segments[j])}})

LEMMA UnitIsFinest ==
  ASSUME NEW segments \in Seq(Segment), IsTemplate(segments)
  PROVE  /\ Unit(segments) \in 1..4 /\ Granularity(segments) = Granularities[Unit(segments)]
         /\ \A k \in 1..Len(segments) :
              IsField(segments[k]) => Fields[segments[k].field].unit <= Unit(segments)
<1>1. PICK n \in Nat : n = Len(segments) /\ DOMAIN segments = 1..n OBVIOUS
<1> DEFINE J == {j \in DOMAIN segments : IsField(segments[j])}
           U == {Fields[segments[k].field].unit : k \in J}
<1>2. \A name \in DOMAIN Fields : Fields[name].unit \in 1..4
  <2>1. /\ Fields["yyyy"].unit = 1 /\ Fields["yy"].unit = 1 /\ Fields["MM"].unit = 2
        /\ Fields["M"].unit = 2 /\ Fields["dd"].unit = 3 /\ Fields["d"].unit = 3
        /\ Fields["HH"].unit = 4 /\ Fields["H"].unit = 4
    BY DEF Fields
  <2>2. DOMAIN Fields = {"yyyy", "yy", "MM", "M", "dd", "d", "HH", "H"} BY DEF Fields
  <2>3. QED BY <2>1, <2>2
<1>3. \A k \in J : segments[k].field \in DOMAIN Fields BY <1>1, SegmentIsOneOf
<1>4. J # {} BY DEF IsTemplate
<1>5. Granularity(segments) = Granularities[Max(U)] /\ Unit(segments) = Max(U)
  BY DEF Granularity, Unit
<1>6. \A k \in J : Fields[segments[k].field].unit \in U OBVIOUS
<1>7. \A u \in U : \E k \in J : u = Fields[segments[k].field].unit OBVIOUS
<1>8. \A k \in 1..n : IsField(segments[k]) => k \in J BY <1>1
<1> HIDE DEF J, U
<1>9. U \in SUBSET (1..4) /\ U # {} BY <1>2, <1>3, <1>4, <1>6, <1>7
<1>10. IsFiniteSet(U)
  <2>1. PICK a \in Int, b \in Int : a = 1 /\ b = 4 /\ a <= b + 1 OBVIOUS
  <2>2. IsFiniteSet(a..b) BY <2>1, RangeSize, Zenon
  <2>3. QED BY <1>9, <2>1, <2>2, FS_Subset
<1>11. U \in SUBSET Nat BY <1>9
<1>12. Max(U) \in U /\ \A u \in U : u <= Max(U) BY <1>9, <1>10, <1>11, GreatestNumber
<1>13. QED BY <1>1, <1>5, <1>6, <1>8, <1>9, <1>12

\* Moments whose dates agree as far as the fields go are rendered alike.
SameTo(unit, a, b) ==
  /\ DateAt(a).year = DateAt(b).year
  /\ unit >= 2 => DateAt(a).month = DateAt(b).month
  /\ unit >= 3 => DateAt(a).day = DateAt(b).day
  /\ unit >= 4 => HourOf(a) = HourOf(b)

LEMMA RenderedAlike ==
  ASSUME NEW segments \in Seq(Segment), IsTemplate(segments), NEW a, NEW b,
         SameTo(Unit(segments), a, b)
  PROVE  Render(segments, a) = Render(segments, b)
<1>1. PICK n \in Nat : n = Len(segments) /\ DOMAIN segments = 1..n OBVIOUS
<1>2. PICK u \in 1..4 : u = Unit(segments) BY UnitIsFinest
<1>3. ASSUME NEW name \in DOMAIN Fields, Fields[name].unit <= u
      PROVE  RenderField(name, DateAt(a), HourOf(a)) = RenderField(name, DateAt(b), HourOf(b))
  <2>1. /\ Fields["yyyy"].unit = 1 /\ Fields["yy"].unit = 1 /\ Fields["MM"].unit = 2
        /\ Fields["M"].unit = 2 /\ Fields["dd"].unit = 3 /\ Fields["d"].unit = 3
        /\ Fields["HH"].unit = 4 /\ Fields["H"].unit = 4
    BY DEF Fields
  <2>2. name \in {"yyyy", "yy", "MM", "M", "dd", "d", "HH", "H"} BY DEF Fields
  <2>3. CASE name \in {"yyyy", "yy"} BY <1>2, <2>3 DEF RenderField, SameTo
  <2>4. CASE name \in {"MM", "M"}
    <3>1. u >= 2 BY <1>3, <2>1, <2>4
    <3>2. QED BY <1>2, <2>4, <3>1 DEF RenderField, SameTo
  <2>5. CASE name \in {"dd", "d"}
    <3>1. u >= 3 BY <1>3, <2>1, <2>5
    <3>2. QED BY <1>2, <2>5, <3>1 DEF RenderField, SameTo
  <2>6. CASE name \in {"HH", "H"}
    <3>1. u >= 4 BY <1>3, <2>1, <2>6
    <3>2. QED BY <1>2, <2>6, <3>1 DEF RenderField, SameTo
  <2>7. QED BY <2>2, <2>3, <2>4, <2>5, <2>6
<1>4. ASSUME NEW k \in 1..n PROVE Parts(segments, a)[k] = Parts(segments, b)[k]
  <2>1. PICK s \in Segment : s = segments[k] BY <1>1
  <2>2. CASE IsField(s)
    <3>1. s.field \in DOMAIN Fields BY <2>2, SegmentIsOneOf
    <3>2. Fields[s.field].unit <= u BY <1>1, <1>2, <2>1, <2>2, UnitIsFinest
    <3>3. RenderField(s.field, DateAt(a), HourOf(a)) = RenderField(s.field, DateAt(b), HourOf(b))
      BY <1>3, <3>1, <3>2
    <3>4. QED BY <1>1, <2>1, <2>2, <3>3 DEF Parts
  <2>3. CASE ~IsField(s) BY <1>1, <2>1, <2>3 DEF Parts
  <2>4. QED BY <2>2, <2>3
<1>5. Parts(segments, a) = Parts(segments, b)
  <2>1. /\ Parts(segments, a) = [k \in 1..n |-> Parts(segments, a)[k]]
        /\ Parts(segments, b) = [k \in 1..n |-> Parts(segments, b)[k]]
    BY <1>1 DEF Parts
  <2>2. QED BY <1>4, <2>1
<1>6. QED BY <1>5 DEF Render, Parts

-----------------------------------------------------------------------------
(* Steps back *)

LEMMA MomentOfDate ==
  ASSUME NEW y, NEW m, NEW d, IsDate(y, m, d), NEW h \in 0..23, NEW a, a = 24 * DayNumber(y, m, d) + h
  PROVE  IsMoment(a) /\ DateAt(a) = [year |-> y, month |-> m, day |-> d] /\ HourOf(a) = h
<1>1. PICK N \in Nat : N = DayNumber(y, m, d) /\ N >= 366 BY DateIsFound
<1>2. a = 24 * N + h BY <1>1
<1>3. a \div 24 = N /\ a % 24 = h /\ a \in Nat /\ a >= 24 * 366
  <2>1. PICK x \in Nat : x = a BY <1>2
  <2>2. x = 24 * N + h BY <1>2, <2>1
  <2>3. x \div 24 = N BY <2>2
  <2>4. x % 24 = h BY <2>2
  <2>5. x >= 24 * 366 BY <1>1, <2>2
  <2>6. QED BY <2>1, <2>3, <2>4, <2>5
<1>4. DateAt(a) = [year |-> y, month |-> m, day |-> d] BY <1>1, <1>3, DateIsFound DEF DateAt
<1>5. QED BY <1>3, <1>4 DEF IsMoment, HourOf

\* Stepping back by months stays at a date of the month that is meant.
LEMMA MonthsBack ==
  ASSUME NEW moment, IsMoment(moment), NEW date, date = DateAt(moment), NEW months \in Nat,
         NEW t \in Nat, t = 12 * date.year + date.month - 1 - months, t >= 24
  PROVE  LET a == SameDayBack(date, months, moment)
         IN  /\ IsMoment(a)
             /\ DateAt(a).year = t \div 12 /\ DateAt(a).month = (t % 12) + 1
<1>1. PICK y, m, d : /\ IsDate(y, m, d) /\ DateAt(moment) = [year |-> y, month |-> m, day |-> d]
                     /\ HourOf(moment) \in 0..23
  BY MomentHasDate
<1>2. PICK Y \in Nat, M \in 1..12 : Y = t \div 12 /\ M = (t % 12) + 1
  <2>1. t \div 12 \in Nat /\ (t % 12) + 1 \in 1..12 OBVIOUS
  <2>2. QED BY <2>1
<1>3. Y >= 2 BY <1>2
<1>4. PICK h \in 0..23 : h = HourOf(moment) BY <1>1
<1>5. SameDayBack(date, months, moment) = SameDay(d, Y, M, moment)
  <2>1. date.day = d BY <1>1
  <2>2. QED BY <1>2, <2>1 DEF SameDayBack
<1>6. PICK l \in Nat : l = Lengths(Y)[M] /\ DaysInMonth(Y, M) = l /\ l >= 1
  <2>1. Lengths(Y)[M] \in Nat /\ DaysInMonth(Y, M) = Lengths(Y)[M] /\ Lengths(Y)[M] >= 1
    BY DEF Lengths, DaysInMonth
  <2>2. QED BY <2>1
<1>7. d \in Nat /\ d >= 1
  <2>1. y \in Nat /\ y >= 1 /\ m \in 1..12 /\ d \in 1..Lengths(y)[m] BY <1>1 DEF IsDate
  <2>2. Lengths(y)[m] \in Nat BY <2>1, MonthsFit
  <2>3. QED BY <2>1, <2>2
<1>8. PICK c \in 1..l : c = Min({d, l})
  <2>1. CASE d <= l BY <1>7, <2>1 DEF Min
  <2>2. CASE ~(d <= l) BY <1>6, <1>7, <2>2 DEF Min
  <2>3. QED BY <2>1, <2>2
<1>9. SameDay(d, Y, M, moment) = OnDay(Y, M, c, moment)
  <2>1. ClampedDay(d, Y, M) = c BY <1>6, <1>8 DEF ClampedDay
  <2>2. c <= Lengths(Y)[M] BY <1>6, <1>8
  <2>3. QED BY <2>1, <2>2 DEF SameDay, Naive
<1>10. OnDay(Y, M, c, moment) = 24 * DayNumber(Y, M, c) + h BY <1>4 DEF OnDay
<1>11. IsDate(Y, M, c) BY <1>3, <1>6, <1>8 DEF IsDate
<1>12. PICK a : a = 24 * DayNumber(Y, M, c) + h OBVIOUS
<1>13. IsMoment(a) /\ DateAt(a) = [year |-> Y, month |-> M, day |-> c]
  BY <1>11, <1>12, MomentOfDate
<1>14. QED BY <1>2, <1>5, <1>9, <1>10, <1>12, <1>13

\* A step back lands in the period that many before, whatever its length.
LEMMA StepsLandInPeriods ==
  ASSUME NEW l \in Nat, NEW moment \in Nat, 24 * 366 * (l + 2) <= moment, NEW i \in 0..l,
         NEW unit \in 1..4
  PROVE  LET g == Granularities[unit]
         IN  /\ IsMoment(StepBack(g, moment, i))
             /\ SameTo(unit, StepBack(g, moment, i), FirstMoment(g, Period(g, moment) - i))
<1>1. IsMoment(moment) BY DEF IsMoment
<1>2. PICK y, m, d : /\ IsDate(y, m, d) /\ DateAt(moment) = [year |-> y, month |-> m, day |-> d]
                     /\ moment \div 24 <= 366 * y /\ HourOf(moment) \in 0..23
  BY <1>1, MomentHasDate
<1>3. y \in Nat /\ m \in 1..12 /\ y >= l + 2
  <2>1. y \in Nat /\ m \in 1..12 BY <1>2 DEF IsDate
  <2>2. 366 * (l + 2) <= moment \div 24 BY <1>1
  <2>3. QED BY <1>2, <2>1, <2>2
<1>4. PICK date : date = DateAt(moment) OBVIOUS
<1>5. date.year = y /\ date.month = m BY <1>2, <1>4
<1>6. CASE unit = 4
  <2>1. Granularities[unit] = "hour" BY <1>6 DEF Granularities
  <2>2. /\ StepBack("hour", moment, i) = moment - i
        /\ FirstMoment("hour", Period("hour", moment) - i) = moment - i
    BY DEF StepBack, FirstMoment, Period
  <2>3. IsMoment(moment - i) BY DEF IsMoment
  <2>4. QED BY <2>1, <2>2, <2>3 DEF SameTo
<1>7. CASE unit = 3
  <2>1. Granularities[unit] = "day" BY <1>7 DEF Granularities
  <2>2. PICK N \in Nat : N = moment \div 24
    <3>1. moment \div 24 \in Nat OBVIOUS
    <3>2. QED BY <3>1
  <2>3. /\ StepBack("day", moment, i) = moment - 24 * i
        /\ FirstMoment("day", Period("day", moment) - i) = 24 * (N - i)
    BY <2>2 DEF StepBack, FirstMoment, Period
  <2>4. IsMoment(moment - 24 * i) BY DEF IsMoment
  <2>5. (moment - 24 * i) \div 24 = N - i /\ (24 * (N - i)) \div 24 = N - i
    <3>1. PICK x \in Nat, z \in Nat : x = moment - 24 * i /\ z = N - i
      <4>1. moment - 24 * i \in Nat /\ N - i \in Nat BY <2>2
      <4>2. QED BY <4>1
    <3>2. x \div 24 = z BY <2>2, <3>1
    <3>3. (24 * z) \div 24 = z OBVIOUS
    <3>4. QED BY <3>1, <3>2, <3>3
  <2>6. DateAt(moment - 24 * i) = DateAt(24 * (N - i)) BY <2>5 DEF DateAt
  <2>7. QED BY <1>7, <2>1, <2>3, <2>4, <2>6 DEF SameTo
<1>8. CASE unit = 2
  <2>1. Granularities[unit] = "month" BY <1>8 DEF Granularities
  <2>2. PICK t \in Nat : t = 12 * y + m - 1 - i
    <3>1. 12 * y + m - 1 - i \in Nat BY <1>3
    <3>2. QED BY <3>1
  <2>3. t >= 24 BY <1>3, <2>2
  <2>4. PICK a : a = SameDayBack(date, i, moment) OBVIOUS
  <2>5. IsMoment(a) /\ DateAt(a).year = t \div 12 /\ DateAt(a).month = (t % 12) + 1
    BY <1>1, <1>4, <1>5, <2>2, <2>3, <2>4, MonthsBack
  <2>6. StepBack("month", moment, i) = a BY <1>4, <2>4 DEF StepBack
  <2>7. Period("month", moment) - i = t
    <3>1. Period("month", moment) = 12 * date.year + date.month - 1 BY <1>4 DEF Period
    <3>2. Period("month", moment) = 12 * y + m - 1 BY <1>5, <3>1
    <3>3. QED BY <1>3, <2>2, <3>2
  <2>8. PICK b : b = FirstMoment("month", t) OBVIOUS
  <2>9. PICK Y \in Nat, M \in 1..12 : Y = t \div 12 /\ M = (t % 12) + 1
    <3>1. t \div 12 \in Nat /\ (t % 12) + 1 \in 1..12 OBVIOUS
    <3>2. QED BY <3>1
  <2>10. IsDate(Y, M, 1)
    <3>1. 1 \in 1..Lengths(Y)[M] BY DEF Lengths
    <3>2. QED BY <2>3, <2>9, <3>1 DEF IsDate
  <2>11. b = 24 * DayNumber(Y, M, 1) BY <2>8, <2>9 DEF FirstMoment
  <2>12. DayNumber(Y, M, 1) \in Nat BY <2>10, DateIsFound
  <2>13. b = 24 * DayNumber(Y, M, 1) + 0 BY <2>11, <2>12
  <2>14. DateAt(b) = [year |-> Y, month |-> M, day |-> 1]
    <3>1. 0 \in 0..23 OBVIOUS
    <3>2. QED BY <2>10, <2>13, <3>1, MomentOfDate
  <2>15. QED BY <1>8, <2>1, <2>5, <2>6, <2>7, <2>8, <2>9, <2>14 DEF SameTo
<1>9. CASE unit = 1
  <2>1. Granularities[unit] = "year" BY <1>9 DEF Granularities
  <2>2. PICK t \in Nat : t = 12 * y + m - 1 - 12 * i
    <3>1. 12 * y + m - 1 - 12 * i \in Nat BY <1>3
    <3>2. QED BY <3>1
  <2>3. t >= 24 /\ t \div 12 = y - i BY <1>3, <2>2
  <2>4. PICK a : a = SameDayBack(date, 12 * i, moment) OBVIOUS
  <2>5. IsMoment(a) /\ DateAt(a).year = t \div 12
    <3>1. PICK k \in Nat : k = 12 * i OBVIOUS
    <3>2. a = SameDayBack(date, k, moment) /\ t = 12 * date.year + date.month - 1 - k
      BY <1>5, <2>2, <2>4, <3>1
    <3>3. QED BY <1>1, <1>4, <2>3, <3>2, MonthsBack
  <2>6. StepBack("year", moment, i) = a BY <1>4, <2>4 DEF StepBack
  <2>7. PICK Y \in Nat : Y = y - i /\ Y >= 2
    <3>1. y - i \in Nat /\ y - i >= 2 BY <1>3
    <3>2. QED BY <3>1
  <2>8. Period("year", moment) - i = Y BY <1>4, <1>5, <2>7 DEF Period
  <2>9. PICK b : b = FirstMoment("year", Y) OBVIOUS
  <2>10. IsDate(Y, 1, 1)
    <3>1. 1 \in 1..Lengths(Y)[1] BY DEF Lengths
    <3>2. QED BY <2>7, <3>1 DEF IsDate
  <2>11. b = 24 * DayNumber(Y, 1, 1) BY <2>9 DEF FirstMoment
  <2>12. DayNumber(Y, 1, 1) \in Nat BY <2>10, DateIsFound
  <2>13. b = 24 * DayNumber(Y, 1, 1) + 0 BY <2>11, <2>12
  <2>14. DateAt(b) = [year |-> Y, month |-> 1, day |-> 1]
    <3>1. 0 \in 0..23 OBVIOUS
    <3>2. QED BY <2>10, <2>13, <3>1, MomentOfDate
  <2>15. QED BY <1>9, <2>1, <2>3, <2>5, <2>6, <2>7, <2>8, <2>9, <2>14 DEF SameTo
<1>10. QED BY <1>6, <1>7, <1>8, <1>9

-----------------------------------------------------------------------------
(* What a target is resolved to *)

\* What a template is resolved to: the rendering of every step back, each once, the
\* one of the moment itself first
LEMMA ResolveIsText ==
  ASSUME NEW segments \in Seq(Segment), IsTemplate(segments), NEW l \in Nat, NEW instant, NEW offset,
         NEW moment \in Nat, moment = instant + offset, 24 * 366 * (l + 2) <= moment,
         NEW g, g = Granularity(segments), NEW s, s = Resolve(segments, instant, l, offset)
  PROVE  /\ s \in Seq(Seq(Token)) /\ Once(s) /\ Len(s) >= 1
         /\ s[1] = Render(segments, StepBack(g, moment, 0))
         /\ \A x : Holds(s, x) <=> \E i \in 0..l : x = Render(segments, StepBack(g, moment, i))
         /\ \A i \in 0..l : IsMoment(StepBack(g, moment, i))
<1> DEFINE R(i) == Render(segments, StepBack(g, moment, i))
<1>1. ASSUME NEW i \in 0..l PROVE IsMoment(StepBack(g, moment, i))
  <2>1. PICK u \in 1..4 : g = Granularities[u] BY UnitIsFinest
  <2>2. QED BY <2>1, StepsLandInPeriods
<1>2. ASSUME NEW i \in 0..l PROVE R(i) \in Seq(Token) BY <1>1, RenderIsText
<1>3. PICK X : X = Seq(Token) OBVIOUS
<1>4. PICK list : list = [i \in 1..(l + 1) |-> R(i - 1)] OBVIOUS
<1>5. s = EachOnce(list) BY <1>4 DEF Resolve
<1> HIDE DEF R
<1>6. \A i \in 1..(l + 1) : i - 1 \in 0..l /\ list[i] = R(i - 1) BY <1>4
<1>7. list \in [1..(l + 1) -> X] BY <1>2, <1>3, <1>4, <1>6
<1>8. list \in Seq(X) /\ Len(list) = l + 1 BY <1>4, <1>7
<1>9. /\ s \in Seq(X) /\ Once(s)
      /\ \A x : Holds(s, x) <=> Holds(list, x)
      /\ Len(s) >= 1 /\ s[1] = list[1]
  BY <1>5, <1>8, EachOnceKeeps
<1>10. list[1] = R(0)
  <2>1. 1 \in 1..(l + 1) /\ 1 - 1 = 0 OBVIOUS
  <2>2. list[1] = R(1 - 1) BY <1>6, <2>1
  <2>3. QED BY <2>1, <2>2
<1>11. \A x : Holds(list, x) <=> \E i \in 0..l : x = R(i)
  <2> TAKE x
  <2>1. ASSUME NEW i \in 0..l, x = R(i) PROVE \E j \in 1..(l + 1) : list[j] = x
    <3>1. i + 1 \in 1..(l + 1) /\ (i + 1) - 1 = i OBVIOUS
    <3>2. QED BY <1>6, <2>1, <3>1
  <2>2. QED BY <1>6, <1>8, <2>1 DEF Holds
<1>12. QED BY <1>1, <1>3, <1>9, <1>10, <1>11 DEF R

TargetInv ==
  /\ text \in Seq(Plain) /\ Segments(text) # Invalid
  /\ zone \in Zones /\ lookback \in Lookbacks /\ clock \in Instants

LEMMA TargetIsKept ==
  /\ TargetInit => TargetInv
  /\ TargetInv /\ Pass => TargetInv'
  /\ TargetInv /\ UNCHANGED targetVars => TargetInv'
<1>0. Instants \in SUBSET Nat /\ Instants # {} /\ IsFiniteSet(Instants) BY TargetsAssumption
<1>1. TargetInit => TargetInv
  <2> SUFFICES ASSUME TargetInit PROVE TargetInv OBVIOUS
  <2>1. Min(Instants) \in Instants BY <1>0, LeastNumber
  <2>2. PICK t \in Texts : ValidUri(t.bucket, t.prefix) /\ text = t.prefix
    <3>1. text \in {t.prefix : t \in {u \in Texts : ValidUri(u.bucket, u.prefix)}}
      BY DEF TargetInit
    <3>2. QED BY <3>1
  <2>3. t.prefix \in Seq(STRING) BY TargetsAssumption
  <2>4. Control \notin ToSet(t.prefix) BY <2>2 DEF ValidUri
  <2>6. \A i \in 1..Len(t.prefix) : t.prefix[i] \in Plain
    <3>1. DOMAIN t.prefix = 1..Len(t.prefix) BY <2>3
    <3>2. \A i \in 1..Len(t.prefix) : t.prefix[i] # Control BY <2>4, <3>1 DEF ToSet
    <3>3. \A i \in 1..Len(t.prefix) : t.prefix[i] \in STRING BY <2>3
    <3>4. QED BY <3>2, <3>3 DEF Plain
  <2>7. t.prefix \in Seq(Plain) BY <2>3, <2>6
  <2>5. QED BY <2>1, <2>2, <2>7 DEF TargetInit, TargetInv
<1>2. TargetInv /\ Pass => TargetInv'
  <2> SUFFICES ASSUME TargetInv, Pass PROVE TargetInv' OBVIOUS
  <2> DEFINE later == {i \in Instants : i > clock}
  <2>1. clock \in Instants /\ clock # Max(Instants) /\ clock' = Min(later)
    BY DEF TargetInv, Pass
  <2>2. later \in SUBSET Nat /\ IsFiniteSet(later)
    <3>1. later \in SUBSET Instants OBVIOUS
    <3> HIDE DEF later
    <3>2. IsFiniteSet(later) BY <1>0, <3>1, FS_Subset
    <3>3. QED BY <1>0, <3>1, <3>2
  <2>3. later # {}
    <3>1. Max(Instants) \in Instants /\ \A i \in Instants : i <= Max(Instants)
      BY <1>0, GreatestNumber
    <3>2. PICK a \in Nat, b \in Nat : a = Max(Instants) /\ b = clock
      <4>1. Max(Instants) \in Nat /\ clock \in Nat BY <1>0, <2>1, <3>1
      <4>2. QED BY <4>1
    <3>3. a > b BY <2>1, <3>1, <3>2
    <3>4. a \in later BY <3>1, <3>2, <3>3
    <3>5. QED BY <3>4
  <2>4. \A i \in later : i \in Instants OBVIOUS
  <2> HIDE DEF later
  <2>5. clock' \in Instants BY <2>1, <2>2, <2>3, <2>4, LeastNumber
  <2>6. QED BY <2>5 DEF TargetInv, Pass
<1>3. TargetInv /\ UNCHANGED targetVars => TargetInv' BY DEF TargetInv, targetVars
<1>4. QED BY <1>1, <1>2, <1>3

\* The segments of the target, and its moments in a zone
LEMMA TargetIsParsed ==
  ASSUME TargetInv, NEW offset \in Zones
  PROVE  /\ Segments(text) \in Seq(Segment) /\ lookback \in Nat
         /\ clock + offset \in Nat /\ 24 * 366 * (lookback + 2) <= clock + offset
<1> USE TargetsAssumption
<1>1. Segments(text) \in Seq(Segment) BY SegmentsAreParsed DEF TargetInv, Parsed
<1>2. lookback \in Nat /\ clock \in Nat /\ offset \in Int BY DEF TargetInv
<1>3. 24 * 366 * (lookback + 2) <= clock + offset BY DEF TargetInv
<1>4. clock + offset \in Nat BY <1>2, <1>3
<1>5. QED BY <1>1, <1>2, <1>3, <1>4

LEMMA TargetsAreText ==
  ASSUME TargetInv, NEW offset \in Zones
  PROVE  ResolveTargets(text, clock, lookback, offset) \in Seq(Seq(Token))
<1>1. CASE IsTemplate(Segments(text))
  <2>1. ResolveTargets(text, clock, lookback, offset) = Resolve(Segments(text), clock, lookback, offset)
    BY <1>1 DEF ResolveTargets, Resolved
  <2>2. QED BY <1>1, <2>1, TargetIsParsed, ResolveIsText
<1>2. CASE ~IsTemplate(Segments(text))
  <2>1. ResolveTargets(text, clock, lookback, offset) = <<text>>
    BY <1>2 DEF ResolveTargets, Resolved
  <2>2. text \in Seq(Token)
    <3>1. text \in Seq(Plain) BY DEF TargetInv
    <3>2. \A i \in 1..Len(text) : text[i] \in Token BY <3>1 DEF Token
    <3>3. QED BY <3>1, <3>2
  <2>3. PICK X : X = Seq(Token) OBVIOUS
  <2>4. <<text>> \in Seq(X) BY <2>2, <2>3
  <2>5. QED BY <2>1, <2>3, <2>4
<1>3. QED BY <1>1, <1>2

LEMMA PeriodsAreResolved == TargetInv => ResolvesThePeriods
<1> SUFFICES ASSUME TargetInv, IsTemplate(Segments(text))
             PROVE  Resolves(ResolveTargets(text, clock, lookback, zone), Segments(text),
                             Granularity(Segments(text)))
  BY DEF ResolvesThePeriods
<1>1. zone \in Zones BY DEF TargetInv
<1>2. PICK segments \in Seq(Segment) : segments = Segments(text) BY <1>1, TargetIsParsed
<1>3. IsTemplate(segments) BY <1>2
<1>4. PICK l \in Nat, moment \in Nat :
        l = lookback /\ moment = clock + zone /\ 24 * 366 * (l + 2) <= moment
  BY <1>1, TargetIsParsed
<1>5. PICK g : g = Granularity(segments) OBVIOUS
<1>6. PICK s : s = Resolve(segments, clock, l, zone) OBVIOUS
<1>7. ResolveTargets(text, clock, lookback, zone) = s
  BY <1>2, <1>3, <1>4, <1>6 DEF ResolveTargets, Resolved
<1> DEFINE Wanted(i) == Render(segments, FirstMoment(g, Period(g, moment) - i))
           Got(i) == Render(segments, StepBack(g, moment, i))
<1>8. /\ s \in Seq(Seq(Token)) /\ Once(s) /\ Len(s) >= 1 /\ s[1] = Got(0)
      /\ \A x : Holds(s, x) <=> \E i \in 0..l : x = Got(i)
  BY <1>3, <1>4, <1>5, <1>6, ResolveIsText
<1>9. ASSUME NEW i \in 0..l PROVE Got(i) = Wanted(i)
  <2>1. PICK u \in 1..4 : u = Unit(segments) /\ g = Granularities[u] BY <1>3, <1>5, UnitIsFinest
  <2>2. SameTo(u, StepBack(g, moment, i), FirstMoment(g, Period(g, moment) - i))
    BY <1>4, <2>1, StepsLandInPeriods
  <2>3. QED BY <1>3, <2>1, <2>2, RenderedAlike
<1>10. Resolves(s, segments, g) =
         LET W(i) == Render(segments, FirstMoment(g, Period(g, moment) - i))
         IN  ToSet(s) = {W(i) : i \in 0..l} /\ s[1] = W(0) /\ IsInjective(s)
  BY <1>4 DEF Resolves
<1> HIDE DEF Wanted, Got
<1>11. DOMAIN s = 1..Len(s) BY <1>8
<1>12. ToSet(s) = {Wanted(i) : i \in 0..l}
  <2>1. \A x : x \in ToSet(s) <=> Holds(s, x) BY <1>11 DEF ToSet, Holds
  <2>2. \A x : x \in {Wanted(i) : i \in 0..l} <=> \E i \in 0..l : x = Wanted(i) OBVIOUS
  <2>3. QED BY <1>8, <1>9, <2>1, <2>2
<1>13. s[1] = Wanted(0)
  <2>1. 0 \in 0..l OBVIOUS
  <2>2. QED BY <1>8, <1>9, <2>1
<1>14. IsInjective(s) BY <1>8, <1>11 DEF IsInjective, Once
<1>15. Resolves(s, segments, g) BY <1>10, <1>12, <1>13, <1>14 DEF Wanted
<1>16. QED BY <1>2, <1>5, <1>7, <1>15

-----------------------------------------------------------------------------
(* Keys of a template *)

\* The places from which each segment and the later ones match
MatchesFrom(G, segments, key) ==
  \A k \in 1..(Len(segments) + 1) :
    G[k] = IF k > Len(segments) THEN 1..(Len(key) + 1) ELSE MatchingFrom(segments[k], key, G[k + 1])

LEMMA PlacesExist ==
  ASSUME NEW segments \in Seq(Segment), NEW X, NEW key \in Seq(X)
  PROVE  \E G : MatchesFrom(G, segments, key) /\ (Matches(segments, key) <=> 1 \in G[1])
<1>1. PICK n \in Nat : n = Len(segments) OBVIOUS
<1>2. PICK C : C = SUBSET (1..(Len(key) + 1)) OBVIOUS
<1>3. PICK Y : Y = [1..(n + 1) -> C] OBVIOUS
<1> DEFINE Step == [k \in 1..n |-> [f \in Y |-> MatchingFrom(segments[k], key, f[k + 1])]]
           Is(f) == f = [k \in 1..(Len(segments) + 1) |->
                           IF k > Len(segments) THEN 1..(Len(key) + 1)
                           ELSE MatchingFrom(segments[k], key, f[k + 1])]
           from == CHOOSE f : Is(f)
<1>4. \A k \in 1..n : \A f \in Y : MatchingFrom(segments[k], key, f[k + 1]) \in C
  <2> TAKE k \in 1..n
  <2> TAKE f \in Y
  <2>1. PICK L \in Nat : L = Len(key) OBVIOUS
  <2>2. 1..L \subseteq 1..(L + 1) OBVIOUS
  <2>3. QED BY <1>2, <2>1, <2>2 DEF MatchingFrom
<1>5. Step \in [1..n -> [Y -> C]] BY <1>4
<1>6. \A k \in 1..n : \A f \in Y : Step[k][f] = MatchingFrom(segments[k], key, f[k + 1]) OBVIOUS
<1>7. PICK step : step = Step OBVIOUS
<1> HIDE DEF Step
<1>8. LooksAhead(n, C, step)
  <2> SUFFICES ASSUME NEW k \in 1..n, NEW f \in Y, NEW g \in Y,
                      \A j \in (k + 1)..(n + 1) : f[j] = g[j]
               PROVE  step[k][f] = step[k][g]
    BY <1>3 DEF LooksAhead
  <2>1. k + 1 \in (k + 1)..(n + 1) OBVIOUS
  <2>2. f[k + 1] = g[k + 1] BY <2>1
  <2>3. QED BY <1>6, <1>7, <2>2
<1>9. PICK e \in C : e = 1..(Len(key) + 1) BY <1>2
<1>10. PICK F : Backward(F, n, C, e, step)
  <2>1. step \in [1..n -> [[1..(n + 1) -> C] -> C]] BY <1>3, <1>5, <1>7
  <2>2. QED BY <1>8, <2>1, BackwardExists
<1>11. /\ F \in Y /\ F[n + 1] = e
       /\ \A k \in 1..n : F[k] = MatchingFrom(segments[k], key, F[k + 1])
  BY <1>3, <1>6, <1>7, <1>10 DEF Backward
<1>12. Is(F)
  <2>1. F = [k \in 1..(n + 1) |-> F[k]] BY <1>3, <1>11
  <2>2. \A k \in 1..(n + 1) :
          F[k] = IF k > n THEN 1..(Len(key) + 1) ELSE MatchingFrom(segments[k], key, F[k + 1])
    <3> TAKE k \in 1..(n + 1)
    <3>1. CASE k > n
      <4>1. k = n + 1 BY <3>1
      <4>2. QED BY <1>9, <1>11, <3>1, <4>1
    <3>2. CASE ~(k > n)
      <4>1. k \in 1..n BY <3>2
      <4>2. QED BY <1>11, <3>2, <4>1
    <3>3. QED BY <3>1, <3>2
  <2>3. QED BY <1>1, <2>1, <2>2
<1>13. Is(from) BY <1>12
<1>14. Matches(segments, key) <=> 1 \in from[1] BY DEF Matches
<1>15. MatchesFrom(from, segments, key) BY <1>1, <1>13 DEF MatchesFrom
<1>16. QED BY <1>14, <1>15

\* A template matches every key under what it is rendered to.
LEMMA RenderedMatches ==
  ASSUME NEW segments \in Seq(Segment), NEW moment, IsMoment(moment), NEW T, Token \subseteq T,
         NEW suffix \in Seq(T)
  PROVE  Matches(segments, Render(segments, moment) \o suffix)
<1>1. PICK n \in Nat : n = Len(segments) OBVIOUS
<1>2. PICK s \in Seq(Seq(Token)) : s = Parts(segments, moment) /\ Len(s) = n
  BY <1>1, PartsAreText
<1>3. PICK F : Joins(F, s, Token) /\ FlattenSeq(s) = F[n] BY <1>2, FlattenJoins
<1>4. \A k \in 0..n : F[k] \in Seq(Token)
  <2>1. PICK X : X = Seq(Token) OBVIOUS
  <2>2. F \in [0..n -> X] BY <1>2, <1>3, <2>1 DEF Joins
  <2>3. QED BY <2>1, <2>2
<1>5. PICK prefix \in Seq(Token) : prefix = F[n] /\ prefix = Render(segments, moment)
  <2>1. Render(segments, moment) = FlattenSeq(s) BY <1>2 DEF Render, Parts
  <2>2. QED BY <1>3, <1>4, <2>1
<1>6. prefix \in Seq(T)
  <2>1. \A i \in 1..Len(prefix) : prefix[i] \in T OBVIOUS
  <2>2. QED BY <2>1
<1>7. PICK key \in Seq(T) : key = prefix \o suffix
  <2>1. prefix \o suffix \in Seq(T) BY <1>6, JoinOfTwo
  <2>2. QED BY <2>1
<1>8. PICK L \in Nat : L = Len(key) OBVIOUS
<1>9. Len(prefix) <= L /\ \A i \in 1..Len(prefix) : key[i] = prefix[i]
  <2>1. PICK a \in Seq(T), b \in Seq(T) : a = prefix /\ b = suffix BY <1>6
  <2>2. Len(a \o b) = Len(a) + Len(b) /\ \A i \in 1..Len(a) : (a \o b)[i] = a[i] BY JoinOfTwo
  <2>3. Len(a) <= L BY <1>7, <1>8, <2>1, <2>2
  <2>4. QED BY <1>7, <2>1, <2>2, <2>3
<1>10. PICK G : MatchesFrom(G, segments, key) /\ (Matches(segments, key) <=> 1 \in G[1])
  BY PlacesExist
<1> DEFINE S == {k \in 1..(n + 1) : Len(F[k - 1]) + 1 \in G[k]}
<1>11. n + 1 \in S
  <2>1. G[n + 1] = 1..(L + 1)
    <3>1. n + 1 \in 1..(Len(segments) + 1) /\ n + 1 > Len(segments) BY <1>1
    <3>2. QED BY <1>8, <1>10, <3>1 DEF MatchesFrom
  <2>2. (n + 1) - 1 = n BY <1>1
  <2>3. PICK l \in Nat : l = Len(prefix) OBVIOUS
  <2>4. l + 1 \in 1..(L + 1) BY <1>9, <2>3
  <2>5. Len(F[(n + 1) - 1]) + 1 \in G[n + 1] BY <1>5, <2>1, <2>2, <2>3, <2>4
  <2>6. n + 1 \in 1..(n + 1) OBVIOUS
  <2>7. QED BY <2>5, <2>6
<1>12. ASSUME NEW k \in 1..n, \A j \in (k + 1)..(n + 1) : j \in S PROVE k \in S
  <2>1. k - 1 \in 0..n /\ k \in 0..n /\ k + 1 \in (k + 1)..(n + 1) /\ (k + 1) - 1 = k OBVIOUS
  <2>2. PICK p \in Nat, q \in Nat, w \in Nat :
          p = Len(F[k - 1]) /\ q = Len(F[k]) /\ w = Len(s[k])
    <3>1. F[k - 1] \in Seq(Token) /\ F[k] \in Seq(Token) /\ s[k] \in Seq(Token)
      BY <1>2, <1>3, JoinsStep
    <3>2. QED BY <3>1
  <2>3. q = p + w /\ \A j \in 1..w : F[k][p + j] = s[k][j]
    <3>1. PICK a \in Seq(Token), b \in Seq(Token) : a = F[k - 1] /\ b = s[k] /\ F[k] = a \o b
      <4>1. PICK m \in 1..Len(s) : m = k BY <1>2
      <4>2. F[m - 1] \in Seq(Token) /\ s[m] \in Seq(Token) /\ F[m] = F[m - 1] \o s[m]
        BY <1>3, JoinsStep, Zenon
      <4>3. QED BY <4>1, <4>2
    <3>2. Len(a \o b) = Len(a) + Len(b) /\ \A j \in 1..Len(b) : (a \o b)[Len(a) + j] = b[j]
      BY JoinOfTwo
    <3>3. QED BY <2>2, <3>1, <3>2
  <2>4. q <= Len(prefix) /\ \A i \in 1..q : prefix[i] = F[k][i]
    <3>1. Len(F[k]) <= Len(F[Len(s)]) /\ \A i \in 1..Len(F[k]) : F[Len(s)][i] = F[k][i]
      <4>1. PICK m \in 0..Len(s) : m = k BY <1>2, <2>1
      <4>2. Len(F[m]) <= Len(F[Len(s)]) /\ \A i \in 1..Len(F[m]) : F[Len(s)][i] = F[m][i]
        BY <1>3, JoinsGrow
      <4>3. QED BY <4>1, <4>2
    <3>2. QED BY <1>2, <1>5, <2>2, <3>1
  <2>5. q + 1 \in G[k + 1]
    <3>1. k + 1 \in S BY <1>12, <2>1
    <3>2. QED BY <2>1, <2>2, <3>1
  <2>6. q <= L /\ \A j \in 1..w : key[p + j] = s[k][j]
    <3>1. PICK l \in Nat : l = Len(prefix) OBVIOUS
    <3>2. q <= l /\ l <= L BY <1>9, <2>4, <3>1
    <3>3. ASSUME NEW j \in 1..w PROVE key[p + j] = s[k][j]
      <4>1. p + j \in 1..q /\ p + j \in 1..l BY <2>3, <3>2
      <4>2. QED BY <1>9, <2>3, <2>4, <3>1, <4>1
    <3>4. QED BY <3>2, <3>3
  <2>7. PICK segment \in Segment : segment = segments[k] BY <1>1
  <2>8. G[k] = MatchingFrom(segment, key, G[k + 1])
    <3>1. k \in 1..(Len(segments) + 1) /\ ~(k > Len(segments)) BY <1>1
    <3>2. QED BY <1>10, <2>7, <3>1 DEF MatchesFrom
  <2>9. CASE IsField(segment)
    <3>1. w \in ToSet(Fields[segment.field].widths) /\ \A j \in 1..w : s[k][j] \in Digits
      BY <1>1, <1>2, <2>2, <2>7, <2>9, PartsAreText
    <3>2. \A j \in (p + 1)..(p + 1 + w - 1) : key[j] \in Digits
      <4> TAKE j \in (p + 1)..(p + 1 + w - 1)
      <4>1. PICK i \in 1..w : i = j - p
        <5>1. j - p \in 1..w OBVIOUS
        <5>2. QED BY <5>1
      <4>2. j = p + i BY <4>1
      <4>3. QED BY <2>6, <3>1, <4>2
    <3>3. (p + 1) + w = q + 1 /\ (p + 1) + w <= L + 1 BY <2>3, <2>6
    <3>4. q + 1 \in FieldEnds(segment.field, key, p + 1)
      <4>1. w \in {v \in ToSet(Fields[segment.field].widths) :
                     (p + 1) + v <= Len(key) + 1 /\ \A j \in (p + 1)..((p + 1) + v - 1) : key[j] \in Digits}
        BY <1>8, <3>1, <3>2, <3>3
      <4>2. QED BY <3>3, <4>1 DEF FieldEnds
    <3>5. p + 1 \in 1..(Len(key) + 1) BY <1>8, <3>3
    <3>6. FieldEnds(segment.field, key, p + 1) \cap G[k + 1] # {} BY <2>5, <3>4
    <3>7. p + 1 \in G[k] BY <2>8, <2>9, <3>5, <3>6 DEF MatchingFrom
    <3>8. QED BY <2>2, <3>7
  <2>10. CASE ~IsField(segment)
    <3>1. w = 1 /\ s[k][1] = segment.literal
      <4>1. k \in 1..Len(segments) /\ ~IsField(segments[k]) BY <1>1, <2>7, <2>10
      <4>2. PICK part : part = Parts(segments, moment)[k] OBVIOUS
      <4>3. Len(part) = 1 /\ part[1] = segments[k].literal BY <4>1, <4>2, PartsAreText
      <4>4. QED BY <1>2, <2>2, <2>7, <4>2, <4>3
    <3>2. key[p + 1] = segment.literal /\ q = p + 1 /\ p + 1 \in 1..Len(key)
      BY <1>8, <2>3, <2>6, <3>1
    <3>3. (p + 1) + 1 \in G[k + 1] BY <2>5, <3>2
    <3>4. p + 1 \in G[k] BY <2>8, <2>10, <3>2, <3>3 DEF MatchingFrom
    <3>5. QED BY <2>2, <3>4
  <2>11. QED BY <2>9, <2>10
<1>13. 1..(n + 1) \subseteq S
  <2> HIDE DEF S
  <2>1. QED BY <1>11, <1>12, Downward
<1>14. 1 \in G[1]
  <2>1. 1 \in S /\ 1 - 1 = 0 BY <1>13
  <2>2. Len(F[0]) = 0 BY <1>3 DEF Joins
  <2>3. QED BY <2>1, <2>2
<1>15. QED BY <1>5, <1>7, <1>10, <1>14

LEMMA TokensAreNoControl == Control \notin Token
<1>1. Control \notin Digits BY DEF Control, Digits, Digit, ToSet
<1>2. Control # "f" BY DEF Control
<1>3. QED BY <1>1, <1>2 DEF Token, Plain

LEMMA ListedCanBeDownloaded == TargetInv => ListedIsDownloadable
<1> SUFFICES ASSUME TargetInv, NEW prefix \in ToSet(ResolveTargets(text, clock, lookback, zone)),
                    NEW suffix \in Names, Control \notin ToSet(suffix)
             PROVE  Downloadable(text, "bucket", prefix \o suffix)
  BY DEF ListedIsDownloadable
<1>1. zone \in Zones BY DEF TargetInv
<1>2. PICK list : list = ResolveTargets(text, clock, lookback, zone) OBVIOUS
<1>3. list \in Seq(Seq(Token)) BY <1>1, <1>2, TargetsAreText
<1>4. PICK X : X = Seq(Token) OBVIOUS
<1>5. prefix \in Seq(Token) /\ Holds(list, prefix)
  <2>1. list \in Seq(X) BY <1>3, <1>4
  <2>2. PICK i \in 1..Len(list) : prefix = list[i] BY <1>2, <2>1 DEF ToSet
  <2>3. QED BY <1>4, <2>1, <2>2 DEF Holds
<1>6. PICK T : T = Token \cup STRING OBVIOUS
<1>7. suffix \in Seq(T) /\ \A i \in 1..Len(suffix) : suffix[i] # Control
  <2>1. suffix \in Seq(STRING) BY TargetsAssumption
  <2>2. \A i \in 1..Len(suffix) : suffix[i] \in T BY <1>6, <2>1
  <2>3. suffix \in Seq(T) BY <2>1, <2>2
  <2>4. DOMAIN suffix = 1..Len(suffix) BY <2>1
  <2>5. \A i \in 1..Len(suffix) : suffix[i] # Control BY <2>4 DEF ToSet
  <2>6. QED BY <2>3, <2>5
<1>8. prefix \in Seq(T)
  <2>1. \A i \in 1..Len(prefix) : prefix[i] \in T BY <1>5, <1>6
  <2>2. QED BY <1>5, <2>1
<1>9. PICK a \in Seq(T), b \in Seq(T) : a = prefix /\ b = suffix BY <1>7, <1>8
<1>10. ValidUri("bucket", a \o b)
  <2>1. /\ a \o b \in Seq(T) /\ Len(a \o b) = Len(a) + Len(b)
        /\ \A i \in 1..Len(a) : (a \o b)[i] = a[i]
        /\ \A i \in 1..Len(b) : (a \o b)[Len(a) + i] = b[i]
        /\ \A i \in 1..(Len(a) + Len(b)) : i <= Len(a) \/ i - Len(a) \in 1..Len(b)
    BY JoinOfTwo
  <2>2. \A i \in 1..Len(a) : a[i] # Control
    <3>1. \A i \in 1..Len(a) : a[i] \in Token BY <1>5, <1>9
    <3>2. QED BY <3>1, TokensAreNoControl
  <2>3. \A i \in 1..Len(b) : b[i] # Control BY <1>7, <1>9
  <2>4. ASSUME NEW i \in 1..(Len(a) + Len(b)) PROVE (a \o b)[i] # Control
    <3>1. CASE i <= Len(a) BY <2>1, <2>2, <3>1
    <3>2. CASE ~(i <= Len(a))
      <4>1. i - Len(a) \in 1..Len(b) BY <2>1, <3>2
      <4>2. PICK l \in Nat, j \in 1..Len(b) : l = Len(a) /\ j = i - l BY <4>1
      <4>3. i = l + j BY <4>2
      <4>4. QED BY <2>1, <2>3, <4>2, <4>3
    <3>3. QED BY <3>1, <3>2
  <2>5. DOMAIN (a \o b) = 1..(Len(a) + Len(b)) BY <2>1
  <2>6. Control \notin ToSet(a \o b) BY <2>4, <2>5 DEF ToSet
  <2>7. "bucket" \notin {"", Control} BY DEF Control
  <2>8. QED BY <2>6, <2>7 DEF ValidUri
<1>11. PICK segments \in Seq(Segment) : segments = Segments(text) BY <1>1, TargetIsParsed
<1>12. CASE IsTemplate(segments)
  <2>1. PICK l \in Nat, moment \in Nat :
          l = lookback /\ moment = clock + zone /\ 24 * 366 * (l + 2) <= moment
    BY <1>1, TargetIsParsed
  <2>2. PICK g : g = Granularity(segments) OBVIOUS
  <2>3. list = Resolve(segments, clock, l, zone)
    BY <1>2, <1>11, <1>12, <2>1 DEF ResolveTargets, Resolved
  <2>4. /\ \A x : Holds(list, x) <=> \E i \in 0..l : x = Render(segments, StepBack(g, moment, i))
        /\ \A i \in 0..l : IsMoment(StepBack(g, moment, i))
    BY <1>12, <2>1, <2>2, <2>3, ResolveIsText
  <2>5. PICK at : IsMoment(at) /\ prefix = Render(segments, at) BY <1>5, <2>4
  <2>6. Token \subseteq T BY <1>6
  <2>7. Matches(segments, Render(segments, at) \o suffix) BY <1>7, <2>5, <2>6, RenderedMatches
  <2>8. QED BY <1>9, <1>10, <1>11, <1>12, <2>5, <2>7 DEF Downloadable
<1>13. CASE ~IsTemplate(segments)
  <2>1. list = <<text>> BY <1>2, <1>11, <1>13 DEF ResolveTargets, Resolved
  <2>2. prefix = text BY <1>5, <2>1 DEF Holds
  <2>3. IsPrefix(a, a \o b)
    <3>1. PICK k \in Seq(T) : k = a \o b /\ Len(k) = Len(a) + Len(b) /\ \A i \in 1..Len(a) : k[i] = a[i]
      <4>1. a \o b \in Seq(T) /\ Len(a \o b) = Len(a) + Len(b)
            /\ \A i \in 1..Len(a) : (a \o b)[i] = a[i]
        BY JoinOfTwo
      <4>2. QED BY <4>1
    <3>2. PICK l \in Nat, m \in Nat : l = Len(a) /\ m = Len(k) /\ l <= m
      <4>1. Len(a) \in Nat /\ Len(b) \in Nat /\ Len(k) \in Nat OBVIOUS
      <4>2. QED BY <3>1, <4>1
    <3>3. SubSeq(a, 1, l) = [i \in 1..l |-> a[i]] BY <3>2
    <3>4. SubSeq(k, 1, l) = [i \in 1..l |-> k[i]] BY <3>2
    <3>5. SubSeq(a, 1, l) = SubSeq(k, 1, l) BY <3>1, <3>2, <3>3, <3>4
    <3>6. QED BY <3>1, <3>2, <3>5 DEF IsPrefix
  <2>4. QED BY <1>9, <1>10, <1>11, <1>13, <2>2, <2>3 DEF Downloadable
<1>14. QED BY <1>12, <1>13

-----------------------------------------------------------------------------
(* What the commands show *)

LEMMA ListedIsText ==
  ASSUME TargetInv, NEW command
  PROVE  Listed(command) \in Seq(Seq(Token))
<1>1. zone \in Zones /\ 0 \in Zones BY TargetsAssumption DEF TargetInv
<1>2. PICK offset \in Zones : offset = IF command \in {"list", "history"} THEN zone ELSE 0 BY <1>1
<1>3. Listed(command) = ResolveTargets(text, clock, lookback, offset)
  BY <1>2 DEF Listed, CommandTargets
<1>4. QED BY <1>3, TargetsAreText

LEMMA NewestAreListed ==
  ASSUME TargetInv, BucketInv, NEW prefixes \in Seq(Seq(Token))
  PROVE  NewestListed(prefixes, Found(prefixes))
<1> SUFFICES ASSUME Apart(prefixes), NEW limit \in Limits
             PROVE  /\ List(prefixes, limit) = Newest(limit, Found(prefixes))
                    /\ \A window \in Windows :
                         HistoryOf(prefixes, limit, window)
                           = Newest(limit, {o \in Found(prefixes) : o.at >= clock - window})
  BY DEF NewestListed
<1>1. limit \in Nat BY CliAssumption
<1>2. PICK s \in Seq(Arrivals) : s = ListResolved(prefixes, limit) /\ Once(s)
  BY <1>1, ListedAreShown, ListedOnce
<1>3. PICK B : B = Shown(prefixes, limit) OBVIOUS
<1>4. PICK A : A = Found(prefixes) OBVIOUS
<1>5. \A o : Holds(s, o) <=> o \in B BY <1>1, <1>2, <1>3, ListedAreShown
<1>6. A \in SUBSET Arrivals /\ IsFiniteSet(A) BY <1>4, FoundIsFinite
<1>7. B \in SUBSET A BY <1>3, <1>4 DEF Shown
<1>8. \A o \in A : o.at \in Nat BY <1>6 DEF Arrivals
<1>9. ASSUME NEW C, NEW D, NEW cutoff \in Int, C = Since(A, cutoff), D = Since(B, cutoff),
             NEW t \in Seq(Arrivals), Once(t), \A o : Holds(t, o) <=> o \in D
      PROVE  Truncate(SortRecent(t), limit) = Newest(limit, C)
  <2>1. C \in SUBSET A /\ D \in SUBSET A BY <1>7, <1>9 DEF Since
  <2>2. C \in SUBSET Arrivals /\ IsFiniteSet(C) /\ D \in SUBSET Arrivals /\ IsFiniteSet(D)
    BY <1>6, <2>1, FS_Subset
  <2>3. SortRecent(t) = Ordered(D, NewestFirst) BY <1>9, <2>2, SortRecentSorts
  <2>4. Truncate(Ordered(D, NewestFirst), limit) = Newest(limit, D)
    BY <1>1, <2>2, TruncateKeepsNewest
  <2>5. First(limit, D, NewestFirst) = First(limit, C, NewestFirst)
    BY <1>1, <1>3, <1>4, <1>9, ShownHasTheNewest
  <2>6. Newest(limit, D) = Newest(limit, C) BY <2>5 DEF Newest
  <2>7. QED BY <2>3, <2>4, <2>6
<1>10. List(prefixes, limit) = Newest(limit, A)
  <2>1. Since(A, 0) = A /\ Since(B, 0) = B BY <1>7, <1>8 DEF Since
  <2>2. PICK z \in Int : z = 0 OBVIOUS
  <2>3. A = Since(A, z) /\ B = Since(B, z) BY <2>1, <2>2
  <2>4. Truncate(SortRecent(s), limit) = Newest(limit, A) BY <1>2, <1>5, <1>9, <2>3
  <2>5. QED BY <1>2, <2>4 DEF List
<1>11. ASSUME NEW window \in Windows
       PROVE  HistoryOf(prefixes, limit, window)
                = Newest(limit, {o \in A : o.at >= clock - window})
  <2>1. PICK cutoff \in Int : cutoff = clock - window
    <3>1. window \in Int BY CliAssumption
    <3>2. clock \in Nat BY TargetsAssumption DEF TargetInv
    <3>3. clock - window \in Int BY <3>1, <3>2
    <3>4. QED BY <3>3
  <2>2. PICK t : t = Retain(s, cutoff) OBVIOUS
  <2>3. t \in Seq(Arrivals) /\ Once(t) /\ \A o : Holds(t, o) <=> Holds(s, o) /\ o.at >= cutoff
    BY <1>2, <2>2, RetainKeeps
  <2>4. \A o : Holds(t, o) <=> o \in Since(B, cutoff) BY <1>5, <2>3 DEF Since
  <2>5. PICK C, D : C = Since(A, cutoff) /\ D = Since(B, cutoff) OBVIOUS
  <2>6. Truncate(SortRecent(t), limit) = Newest(limit, C) BY <1>9, <2>3, <2>4, <2>5
  <2>7. HistoryOf(prefixes, limit, window) = Truncate(SortRecent(t), limit)
    BY <1>2, <2>1, <2>2 DEF HistoryOf
  <2>8. QED BY <2>1, <2>5, <2>6, <2>7 DEF Since
<1>12. QED BY <1>4, <1>10, <1>11

\* The objects of a history after a listing of arrivals
LEMMA UpsertKeepsNewest ==
  ASSUME NEW f, IsStore(f), Objects(f) \subseteq Arrivals, NEW s \in Seq(Arrivals),
         NEW S, \A o : Holds(s, o) <=> o \in S, NEW h, h = Upsert(f, s).history
  PROVE  /\ IsStore(h) /\ Objects(h) = First(Capacity, Objects(f) \cup S, NewestFirst)
         /\ Objects(f) \cup S \subseteq Arrivals
<1>1. PICK m : m = Merged(f, s) OBVIOUS
<1>2. IsStore(m) /\ \A o : o \in Objects(m) <=> o \in Objects(f) \/ Holds(s, o)
  BY <1>1, MergedObjects
<1>3. Objects(m) = Objects(f) \cup S BY <1>2
<1>4. h = Retained(m) BY <1>1 DEF Upsert
<1>5. IsStore(h) BY <1>2, <1>4, RetainedIsStore
<1>6. Objects(h) = First(Capacity, Objects(m), NewestFirst) BY <1>2, <1>4, RetainedObjects
<1>7. \A o \in S : o \in Arrivals BY DEF Holds
<1>8. QED BY <1>3, <1>5, <1>6, <1>7

LEMMA NothingIsStored == IsStore(NoObjects) /\ Objects(NoObjects) = {}
BY FS_EmptySet DEF NoObjects, IsStore, Objects

LEMMA FoundAreCounted ==
  ASSUME BucketInv, NEW prefixes \in Seq(Seq(Token))
  PROVE  Stats(prefixes).objectCount = Min({Capacity, Cardinality(Found(prefixes))})
<1>0. Capacity \in Nat BY HistoryAssumption
<1>1. PICK s \in Seq(Arrivals) : s = ListResolved(prefixes, Capacity) BY <1>0, ListedAreShown
<1>2. PICK B : B = Shown(prefixes, Capacity) OBVIOUS
<1>3. PICK A : A = Found(prefixes) OBVIOUS
<1>4. \A o : Holds(s, o) <=> o \in B BY <1>0, <1>1, <1>2, ListedAreShown
<1>5. A \in SUBSET Arrivals /\ IsFiniteSet(A) /\ Keyed(A) BY <1>3, FoundIsFinite
<1>6. PICK h : h = Upsert(NoObjects, s).history OBVIOUS
<1>7. PICK n : n = NoObjects OBVIOUS
<1>8. IsStore(h) /\ Objects(h) = First(Capacity, B, NewestFirst)
  <2>1. IsStore(n) /\ Objects(n) = {} BY <1>7, NothingIsStored
  <2>2. Objects(n) \subseteq Arrivals BY <2>1
  <2>3. IsStore(h) /\ Objects(h) = First(Capacity, Objects(n) \cup B, NewestFirst)
    BY <1>4, <1>6, <1>7, <2>1, <2>2, UpsertKeepsNewest
  <2>4. Objects(n) \cup B = B BY <2>1
  <2>5. QED BY <2>3, <2>4
<1>9. First(Capacity, B, NewestFirst) = First(Capacity, A, NewestFirst)
  <2>1. B \in SUBSET A BY <1>2, <1>3 DEF Shown
  <2>2. \A o \in A : o.at \in Nat BY <1>5 DEF Arrivals
  <2>3. Since(A, 0) = A /\ Since(B, 0) = B BY <2>1, <2>2 DEF Since
  <2>4. PICK z \in Int : z = 0 OBVIOUS
  <2>5. First(Capacity, Since(B, z), NewestFirst) = First(Capacity, Since(A, z), NewestFirst)
    BY <1>0, <1>2, <1>3, ShownHasTheNewest
  <2>6. QED BY <2>3, <2>4, <2>5
<1>10. PICK c \in Nat : c = Cardinality(A) BY <1>5, FS_CardinalityType
<1>11. Cardinality(Objects(h)) = IF Capacity <= c THEN Capacity ELSE c
  BY <1>0, <1>5, <1>8, <1>9, <1>10, FirstKeepsRanks
<1>12. Min({Capacity, c}) = IF Capacity <= c THEN Capacity ELSE c
  <2>1. CASE Capacity <= c BY <1>0, <2>1 DEF Min
  <2>2. CASE ~(Capacity <= c) BY <1>0, <2>2 DEF Min
  <2>3. QED BY <2>1, <2>2
<1>13. Stats(prefixes).objectCount = Len(Ordered(Objects(h), OldestFirst))
  BY <1>1, <1>6 DEF Stats, StatisticsFor, Measured
<1>14. Len(Ordered(Objects(h), OldestFirst)) = Cardinality(Objects(h))
  BY <1>8, StoreObjects, OldestOrdered
<1>15. QED BY <1>3, <1>10, <1>11, <1>12, <1>13, <1>14

-----------------------------------------------------------------------------
(* The loop of watch *)

LEMMA KeyIsText ==
  ASSUME TargetInv, NEW i \in Instants
  PROVE  Key(i) \in Seq(Token)
<1>1. zone \in Zones /\ text \in Seq(Plain) BY DEF TargetInv
<1>2. PICK segments \in Seq(Segment) : segments = Segments(text) BY <1>1, TargetIsParsed
<1>3. <<"f">> \in Seq(Token)
  <2>1. "f" \in Token BY DEF Token
  <2>2. PICK f \in Token : f = "f" BY <2>1
  <2>3. <<f>> \in Seq(Token) OBVIOUS
  <2>4. QED BY <2>2, <2>3
<1>4. CASE IsTemplate(segments)
  <2>1. PICK l \in Nat, moment \in Nat :
          l = Late(i) /\ moment = i + zone /\ 24 * 366 * (l + 2) <= moment
    <3>1. Late(i) \in Nat /\ 24 * 366 * (Late(i) + 2) <= i + zone BY <1>1, CliAssumption
    <3>2. i \in Int /\ zone \in Int BY <1>1, TargetsAssumption
    <3>3. PICK l \in Nat, moment \in Int : l = Late(i) /\ moment = i + zone BY <3>1, <3>2
    <3>4. 24 * 366 * (l + 2) <= moment BY <3>1, <3>3
    <3>5. moment \in Nat BY <3>4
    <3>6. QED BY <3>3, <3>4, <3>5
  <2>10. PICK g : g = Granularity(segments) OBVIOUS
  <2>2. PICK u \in 1..4 : g = Granularities[u] BY <1>4, <2>10, UnitIsFinest
  <2>3. l \in 0..l OBVIOUS
  <2>4. IsMoment(StepBack(Granularities[u], moment, l)) BY <2>1, <2>3, StepsLandInPeriods
  <2>5. Render(segments, StepBack(g, moment, l)) \in Seq(Token) BY <2>2, <2>4, RenderIsText
  <2>6. Key(i) = Render(segments, StepBack(g, moment, l)) \o <<"f">>
    BY <1>2, <1>4, <2>1, <2>10 DEF Key, KeyAt
  <2>7. PICK a \in Seq(Token), b \in Seq(Token) :
          a = Render(segments, StepBack(g, moment, l)) /\ b = <<"f">>
    BY <1>3, <2>5
  <2>8. a \o b \in Seq(Token) OBVIOUS
  <2>9. QED BY <2>6, <2>7, <2>8
<1>5. CASE ~IsTemplate(segments)
  <2>1. Key(i) = text \o <<"f">> BY <1>2, <1>5 DEF Key, KeyAt
  <2>2. text \in Seq(Token)
    <3>1. \A j \in 1..Len(text) : text[j] \in Token BY <1>1 DEF Token
    <3>2. QED BY <1>1, <3>1
  <2>3. PICK a \in Seq(Token), b \in Seq(Token) : a = text /\ b = <<"f">> BY <1>3, <2>2
  <2>4. a \o b \in Seq(Token) OBVIOUS
  <2>5. QED BY <2>1, <2>3, <2>4
<1>6. QED BY <1>4, <1>5

\* The keys of the bucket are text, and the prints of watch belong to its history.
CliInv ==
  /\ TargetInv /\ BucketInv
  /\ IsStore(known) /\ Objects(known) \subseteq Arrivals
  /\ printed \in Seq(Arrivals) /\ PrintsOnce

LEMMA NothingIsFirst == First(Capacity, {}, NewestFirst) = {}
BY DEF First

LEMMA CliStarts == CliInit => CliInv
<1> SUFFICES ASSUME CliInit PROVE CliInv OBVIOUS
<1>1. TargetInv BY TargetIsKept DEF CliInit
<1>2. clock \in Instants /\ clock \in Nat BY <1>1, TargetsAssumption DEF TargetInv
<1>3. BucketInv
  <2>1. DOMAIN bucket = {clock} /\ bucket[clock] = Key(clock) BY DEF CliInit
  <2>2. IsFiniteSet({clock}) BY FS_Singleton
  <2>3. Key(clock) \in Seq(Token) BY <1>1, <1>2, KeyIsText
  <2>4. QED BY <1>2, <2>1, <2>2, <2>3 DEF BucketInv
<1>4. IsStore(known) /\ Objects(known) = {} BY NothingIsStored DEF CliInit
<1>5. printed = <<>> BY DEF CliInit
<1>6. printed \in Seq(Arrivals) /\ ToSet(printed) = {} /\ IsInjective(printed)
  BY <1>5 DEF ToSet, IsInjective
<1>7. PrintsOnce BY <1>4, <1>6, NothingIsFirst DEF PrintsOnce
<1>8. QED BY <1>1, <1>3, <1>4, <1>6, <1>7 DEF CliInv

LEMMA SleepKeepsTheBucket ==
  ASSUME TargetInv, BucketInv, Sleep
  PROVE  TargetInv' /\ BucketInv'
<1>1. Pass BY DEF Sleep
<1>2. TargetInv' BY <1>1, TargetIsKept
<1>3. PICK c \in Nat : c = clock' /\ c \in Instants
  BY <1>2, TargetsAssumption DEF TargetInv
<1>4. Key(c) \in Seq(Token) BY <1>3, KeyIsText
<1>5. bucket' = [i \in DOMAIN bucket \cup {c} |-> IF i = c THEN Key(i) ELSE bucket[i]]
  BY <1>3 DEF Sleep
<1>6. DOMAIN bucket' = DOMAIN bucket \cup {c}
      /\ \A i \in DOMAIN bucket' : bucket'[i] = IF i = c THEN Key(i) ELSE bucket[i]
  BY <1>5
<1>7. IsFiniteSet(DOMAIN bucket \cup {c}) BY FS_AddElement DEF BucketInv
<1>8. BucketInv' BY <1>4, <1>6, <1>7 DEF BucketInv
<1>9. QED BY <1>2, <1>8

\* A poll prints nothing that was printed before: an object that was printed and is no
\* longer retained is too old to be retained again.
LEMMA PollPrintsOnce ==
  ASSUME CliInv, Poll
  PROVE  /\ IsStore(known') /\ Objects(known') \subseteq Arrivals
         /\ printed' \in Seq(Arrivals) /\ PrintsOnce'
<1>0. Capacity \in Nat /\ TargetInv /\ BucketInv BY HistoryAssumption DEF CliInv
<1>1. PICK prefixes \in Seq(Seq(Token)) : prefixes = Listed("watch") BY <1>0, ListedIsText
<1>2. PICK S : S = Shown(prefixes, Capacity) OBVIOUS
<1>3. PICK s \in Seq(Arrivals) :
        s = ListResolved(prefixes, Capacity) /\ \A o : Holds(s, o) <=> o \in S
  BY <1>0, <1>2, ListedAreShown
<1>4. PICK f, update : f = known /\ update = Upsert(f, s) OBVIOUS
<1>5. PICK h : h = update.history OBVIOUS
<1>6. PICK O : O = Objects(f) OBVIOUS
<1>7. IsStore(f) /\ O \subseteq Arrivals BY <1>4, <1>6 DEF CliInv
<1>8. IsStore(h) /\ Objects(h) = First(Capacity, O \cup S, NewestFirst)
      /\ O \cup S \subseteq Arrivals
  <2>1. h = Upsert(f, s).history BY <1>4, <1>5
  <2>2. Objects(f) \subseteq Arrivals BY <1>6, <1>7
  <2>3. /\ IsStore(h) /\ Objects(h) = First(Capacity, Objects(f) \cup S, NewestFirst)
        /\ Objects(f) \cup S \subseteq Arrivals
    BY <1>3, <1>7, <2>1, <2>2, UpsertKeepsNewest
  <2>4. QED BY <1>6, <2>3
<1>9. PICK D : D = Objects(h) \ O OBVIOUS
<1>10. {c.object : c \in update.changes} = D
  <2>1. s \in Seq(Observations) BY <1>7, <1>6, MergedObjects
  <2>2. QED BY <1>4, <1>5, <1>6, <1>7, <1>9, <2>1, UpsertReportsTheDifference
<1>11. PICK P : P = ToSet(printed) OBVIOUS
<1>12. printed \in Seq(Arrivals) /\ P \in SUBSET Arrivals /\ IsFiniteSet(P)
  <2>1. printed \in Seq(Arrivals) BY DEF CliInv
  <2>2. DOMAIN printed = 1..Len(printed) /\ Len(printed) \in Nat BY <2>1
  <2>3. P \in SUBSET Arrivals BY <1>11, <2>1, <2>2 DEF ToSet
  <2>4. printed \in Surjection(1..Len(printed), P) BY <1>11, <2>1, <2>2 DEF ToSet, Surjection
  <2>5. IsFiniteSet(1..Len(printed)) BY <2>2, FS_Interval
  <2>6. QED BY <2>1, <2>3, <2>4, <2>5, FS_Surjection
<1>13. O = First(Capacity, P, NewestFirst) /\ IsInjective(printed)
  BY <1>4, <1>6, <1>11 DEF CliInv, PrintsOnce
<1>14. PICK W : W = P \cup S OBVIOUS
<1>15. W \in SUBSET Arrivals /\ IsFiniteSet(W) /\ Keyed(W) /\ O \cup S \in SUBSET W
  <2>1. S \in SUBSET Found(prefixes) BY <1>2 DEF Shown
  <2>2. IsFiniteSet(S) BY <1>0, <2>1, FoundIsFinite, FS_Subset
  <2>3. IsFiniteSet(W) BY <1>12, <1>14, <2>2, FS_Union
  <2>4. O \in SUBSET P BY <1>13 DEF First
  <2>5. W \in SUBSET Arrivals BY <1>8, <1>12, <1>14
  <2>6. QED BY <1>14, <2>3, <2>4, <2>5, ArrivalsAreKnown
<1>16. First(Capacity, W, NewestFirst) \subseteq O \cup S
  <2> SUFFICES ASSUME NEW o \in First(Capacity, W, NewestFirst), o \notin S PROVE o \in O
    OBVIOUS
  <2>1. o \in P BY <1>14 DEF First
  <2>2. P \in SUBSET W BY <1>14
  <2>3. o \in First(Capacity, P, NewestFirst) BY <1>0, <1>15, <2>1, <2>2, FirstInPart
  <2>4. QED BY <1>13, <2>3
<1>17. Objects(h) = First(Capacity, W, NewestFirst)
  BY <1>0, <1>8, <1>15, <1>16, FirstOfPart
<1>18. D \cap P = {}
  <2> SUFFICES ASSUME NEW o \in D, o \in P PROVE FALSE OBVIOUS
  <2>1. o \in First(Capacity, W, NewestFirst) BY <1>9, <1>17
  <2>2. P \in SUBSET W BY <1>14
  <2>3. o \in First(Capacity, P, NewestFirst) BY <1>0, <1>15, <2>1, <2>2, FirstInPart
  <2>4. QED BY <1>9, <1>13, <2>3
<1>19. First(Capacity, P \cup D, NewestFirst) = Objects(h)
  <2>1. Objects(h) \in SUBSET W BY <1>17 DEF First
  <2>2. PICK B \in SUBSET W : B = P \cup D BY <1>9, <1>14, <2>1
  <2>3. O \in SUBSET P BY <1>13 DEF First
  <2>4. First(Capacity, W, NewestFirst) \subseteq B BY <1>9, <1>17, <2>2, <2>3
  <2>5. QED BY <1>0, <1>15, <1>17, <2>2, <2>4, FirstOfPart
<1>20. PICK t : t = Ordered(D, OldestFirst) OBVIOUS
<1>21. /\ t \in Seq(D) /\ \A o \in D : \E i \in 1..Len(t) : t[i] = o
       /\ \A i, j \in 1..Len(t) : t[i] = t[j] => i = j
  <2>1. D \in SUBSET W BY <1>9, <1>17 DEF First
  <2>2. IsFiniteSet(D) /\ Keyed(D) BY <1>15, <2>1, FS_Subset, ArrivalsAreKnown
  <2>3. QED BY <1>20, <2>2, OldestOrdered
<1>22. t \in Seq(Arrivals)
  <2>1. D \in SUBSET Arrivals BY <1>9, <1>15, <1>17 DEF First
  <2>2. \A i \in 1..Len(t) : t[i] \in Arrivals BY <1>21, <2>1
  <2>3. QED BY <1>21, <2>2
<1>23. PICK p \in Seq(Arrivals) : p = printed BY <1>12
<1>24. known' = h /\ printed' = p \o t
  BY <1>1, <1>3, <1>4, <1>5, <1>10, <1>20, <1>23 DEF Poll
<1>25. PICK q \in Seq(Arrivals) : q = p \o t BY <1>22, JoinOfTwo
<1>26. \A o : Holds(p, o) <=> o \in P
  BY <1>11, <1>23 DEF Holds, ToSet
<1>27. \A o : Holds(t, o) <=> o \in D BY <1>21 DEF Holds
<1>28. \A i, j \in 1..Len(p) : p[i] = p[j] => i = j BY <1>13, <1>23 DEF IsInjective
<1>29. \A i \in 1..Len(p), j \in 1..Len(t) : p[i] # t[j]
  BY <1>18, <1>26, <1>27 DEF Holds
<1>30. \A i \in 1..Len(q) :
         \/ i \in 1..Len(p) /\ q[i] = p[i]
         \/ i - Len(p) \in 1..Len(t) /\ q[i] = t[i - Len(p)]
  <2> TAKE i \in 1..Len(q)
  <2>1. i \in 1..(Len(p) + Len(t)) BY <1>22, <1>25, JoinOfTwo
  <2>2. CASE i <= Len(p) BY <1>22, <1>25, <2>1, <2>2, JoinOfTwo
  <2>3. CASE ~(i <= Len(p))
    <3>1. PICK j \in 1..Len(t) : j = i - Len(p) BY <1>22, <2>1, <2>3, JoinOfTwo
    <3>2. i = Len(p) + j BY <3>1
    <3>3. q[i] = t[j] BY <1>22, <1>25, <3>2, JoinOfTwo
    <3>4. QED BY <3>1, <3>3
  <2>4. QED BY <2>2, <2>3
<1>31. IsInjective(q)
  <2>1. ASSUME NEW i \in 1..Len(q), NEW j \in 1..Len(q), q[i] = q[j] PROVE i = j
    <3>1. PICK x : x = i - Len(p) OBVIOUS
    <3>2. PICK y : y = j - Len(p) OBVIOUS
    <3>3. \/ i \in 1..Len(p) /\ q[i] = p[i]
          \/ x \in 1..Len(t) /\ i = Len(p) + x /\ q[i] = t[x]
      BY <1>30, <3>1
    <3>4. \/ j \in 1..Len(p) /\ q[j] = p[j]
          \/ y \in 1..Len(t) /\ j = Len(p) + y /\ q[j] = t[y]
      BY <1>30, <3>2
    <3>5. QED BY <1>21, <1>28, <1>29, <2>1, <3>3, <3>4
  <2>2. DOMAIN q = 1..Len(q) OBVIOUS
  <2>3. QED BY <2>1, <2>2 DEF IsInjective
<1>32. ToSet(q) = P \cup D
  <2>0. DOMAIN q = 1..Len(q) OBVIOUS
  <2>1. \A o : o \in ToSet(q) <=> Holds(q, o) BY <2>0 DEF ToSet, Holds
  <2>2. \A o : Holds(q, o) => o \in P \cup D
    <3> SUFFICES ASSUME NEW i \in 1..Len(q) PROVE q[i] \in P \cup D BY DEF Holds
    <3>1. QED BY <1>26, <1>27, <1>30 DEF Holds
  <2>3. \A o \in P : Holds(q, o)
    <3> SUFFICES ASSUME NEW i \in 1..Len(p) PROVE Holds(q, p[i]) BY <1>26 DEF Holds
    <3>1. i \in 1..Len(q) /\ q[i] = p[i] BY <1>22, <1>25, JoinOfTwo
    <3>2. QED BY <3>1 DEF Holds
  <2>4. \A o \in D : Holds(q, o)
    <3> SUFFICES ASSUME NEW i \in 1..Len(t) PROVE Holds(q, t[i]) BY <1>27 DEF Holds
    <3>1. Len(p) + i \in 1..Len(q) /\ q[Len(p) + i] = t[i] BY <1>22, <1>25, JoinOfTwo
    <3>2. QED BY <3>1 DEF Holds
  <2>5. QED BY <2>1, <2>2, <2>3, <2>4
<1>33. printed' = q BY <1>24, <1>25
<1>34. IsInjective(printed') /\ Objects(known') = First(Capacity, ToSet(printed'), NewestFirst)
  BY <1>19, <1>24, <1>31, <1>32, <1>33
<1>35. Objects(known') \subseteq Arrivals BY <1>15, <1>17, <1>24 DEF First
<1>36. QED BY <1>8, <1>24, <1>33, <1>34, <1>35 DEF PrintsOnce

LEMMA CliIsKept == CliInv /\ [CliNext]_cliVars => CliInv'
<1> SUFFICES ASSUME CliInv, [CliNext]_cliVars PROVE CliInv' OBVIOUS
<1>1. CASE Poll
  <2>1. TargetInv' /\ BucketInv' BY <1>1, SleepKeepsTheBucket DEF CliInv, Poll
  <2>2. QED BY <1>1, <2>1, PollPrintsOnce DEF CliInv
<1>2. CASE PollError
  <2>1. TargetInv' /\ BucketInv' BY <1>2, SleepKeepsTheBucket DEF CliInv, PollError
  <2>2. known' = known /\ printed' = printed BY <1>2 DEF PollError
  <2>3. PrintsOnce' BY <2>2 DEF CliInv, PrintsOnce, Objects
  <2>4. QED BY <2>1, <2>2, <2>3 DEF CliInv, Objects
<1>3. CASE UNCHANGED cliVars
  <2>1. UNCHANGED <<targetVars, bucket, known, printed>> BY <1>3 DEF cliVars
  <2>2. TargetInv' BY <2>1, TargetIsKept DEF CliInv
  <2>3. BucketInv' BY <2>1 DEF CliInv, BucketInv
  <2>4. PrintsOnce' BY <2>1 DEF CliInv, PrintsOnce, Objects
  <2>5. QED BY <2>1, <2>2, <2>3, <2>4 DEF CliInv, Objects
<1>4. QED BY <1>1, <1>2, <1>3 DEF CliNext

\* In every state the bucket holds text, and what watch printed belongs to what it
\* retains.
THEOREM CliInvariant == CliSpec => []CliInv
<1>1. CliInit => CliInv BY CliStarts
<1>2. CliInv /\ [CliNext]_cliVars => CliInv' BY CliIsKept
<1>3. QED BY <1>1, <1>2, PTL DEF CliSpec

\* Whatever the date and the zone, a template is resolved to the current period and the
\* ones just before it.
THEOREM TargetsResolveThePeriods == CliSpec => []ResolvesThePeriods
<1>1. CliInv => ResolvesThePeriods BY PeriodsAreResolved DEF CliInv
<1>2. QED BY <1>1, CliInvariant, PTL

\* An object under a prefix that a target was resolved to can be downloaded, unless its
\* key has a control character.
THEOREM ListedObjectsAreDownloadable == CliSpec => []ListedIsDownloadable
<1>1. CliInv => ListedIsDownloadable BY ListedCanBeDownloaded DEF CliInv
<1>2. QED BY <1>1, CliInvariant, PTL

\* list, history, stats and watch show the newest objects of all prefixes together,
\* although each prefix is listed and cut to the limit by itself; watch prints each
\* object it retains once.
THEOREM CommandsAlwaysShowTheNewest == CliSpec => []CommandsShowTheNewest
<1>1. CliInv => CommandsShowTheNewest
  <2> SUFFICES ASSUME CliInv PROVE CommandsShowTheNewest OBVIOUS
  <2>1. TargetInv /\ BucketInv /\ PrintsOnce BY DEF CliInv
  <2>2. ListsTheNewest BY <2>1, ListedIsText, NewestAreListed DEF ListsTheNewest
  <2>3. CountsWhatIsFound BY <2>1, ListedIsText, FoundAreCounted DEF CountsWhatIsFound
  <2>4. QED BY <2>1, <2>2, <2>3 DEF CommandsShowTheNewest
<1>2. QED BY <1>1, CliInvariant, PTL
=============================================================================
