-------------------------- MODULE AlertEngine_proofs --------------------------
(* Machine-checked proofs about AlertEngine, for any feeds, settings, number *)
(* of confirmations, cooldown and threshold of lateness.                     *)
EXTENDS AlertEngine, TLAPS

\* Notifications
Statistics(health) == [type |-> "statistics", health |-> health]
Failure(retryable) == [type |-> "error", retryable |-> retryable]

\* The episode of a feed that is late since its arrival at time a
LateEpisode(a) == [kind |-> "late", of |-> "since", at |-> a + LateAfter]

-----------------------------------------------------------------------------
(* The invariant, for one feed *)

\* What polls have shown; only a problem is due to be told.
Sightings ==
  {s \in [problem : Problems \cup {None}, polls : 0..Confirm, due : BOOLEAN] :
     s.due => s.problem # None}

\* What is known and remembered of a feed is well formed.
Shaped(f) ==
  /\ arrival[f] \in [at : Times, size : Sizes] /\ arrival[f].at <= now
  /\ polling[f] \in {"off", "running", "error"}
  /\ facts[f] = None \/ facts[f] \in FeedFacts
  /\ memory[f] = None \/ memory[f] \in FeedMemory
  /\ seen[f] \in Sightings
  /\ told[f] \in [times : [Problems -> 0..2], last : Times \cup {None}]

\* The latest health the feed is known to have had
Known(f) == IF facts[f] = None THEN None ELSE facts[f].health

\* A health the server computed from an arrival of the feed, up to now
Computed(f, health) ==
  /\ health \in Healths /\ health.arrived <= arrival[f].at
  /\ health.late => now - health.arrived > LateAfter

\* Arrivals are told in order, and a late feed is late until the next one.
Follows(f, health) ==
  /\ Computed(f, health)
  /\ Known(f) # None =>
       /\ Known(f).arrived <= health.arrived
       /\ Known(f).arrived = health.arrived /\ Known(f).late => health.late

\* The notifications under way end with the server's status of the feed.
Announced(f) ==
  \/ /\ outbox[f] = <<>>
     /\ facts[f] # None => facts[f].state = polling[f]
  \/ outbox[f] = <<Status("running")>> /\ polling[f] = "running"
  \/ outbox[f] = <<Status("stopped")>> /\ polling[f] = "off"
  \/ /\ outbox[f] = <<Status("error")>> /\ polling[f] = "error"
     /\ seen[f].problem # None /\ seen[f].problem[1] = "error"
  \/ \E health \in Healths :
       /\ outbox[f] \in {<<Statistics(health)>>, <<Status("running"), Statistics(health)>>}
       /\ polling[f] = "running" /\ Follows(f, health)
  \/ \E retryable \in BOOLEAN :
       outbox[f] = <<Failure(retryable), Status("error")>> /\ polling[f] = "error"

\* Facts and memory are kept together, and told[f] agrees with the memory.
Remembered(f) ==
  /\ facts[f] = None <=> memory[f] = None
  /\ facts[f] # None => /\ memory[f].severity = SeverityOf(facts[f])
                        /\ memory[f].lastAlertAt = told[f].last
  /\ facts[f] = None => seen[f] = Unseen /\ told[f] = Untold
  /\ Known(f) # None => Computed(f, Known(f))

\* An alert to lateness is remembered as long as the feed is late, or a later arrival
\* has ended it.
ToldOfLateness(f) ==
  \A t \in Times :
    LET times == told[f].times[<<"late", t>>] IN
    /\ times <= 1
    /\ times = 1 => /\ Known(f) # None
                    /\ \/ Known(f).arrived > t
                       \/ /\ Known(f).arrived = t /\ Known(f).late
                          /\ memory[f].notified = LateEpisode(t)
    /\ memory[f] # None /\ memory[f].notified = LateEpisode(t) => times = 1

\* The polls that showed the lateness have been counted by the engine, whatever status
\* notifications came between them.
SeenLate(f) ==
  \A t \in Times :
    seen[f].problem = <<"late", t>> =>
      /\ Known(f) # None /\ Known(f).arrived = t /\ Known(f).late
      /\ facts[f].state = "running"
      /\ seen[f].polls > 0 => /\ memory[f].pending = LateEpisode(t)
                              /\ memory[f].consecutive >= seen[f].polls
      /\ seen[f].due /\ seen[f].polls >= Confirm => told[f].times[<<"late", t>>] = 1

FeedInv(f) ==
  Shaped(f) /\ Announced(f) /\ Remembered(f) /\ ToldOfLateness(f) /\ SeenLate(f)

\* Each feed has an entry in every map.
IsMap(map) == map = [f \in Feeds |-> map[f]]

Maps ==
  /\ now \in Times /\ policy \in Policies
  /\ IsMap(arrival) /\ IsMap(polling) /\ IsMap(outbox)
  /\ IsMap(facts) /\ IsMap(memory) /\ IsMap(seen) /\ IsMap(told)

AlertInv == Maps /\ \A f \in Feeds : FeedInv(f)

-----------------------------------------------------------------------------
(* What the engine computes from facts *)

LEMMA KindFacts ==
  ASSUME NEW fact \in FeedFacts
  PROVE  /\ KindOf(fact) \in Kinds \cup {None}
         /\ KindOf(fact) = "error" <=> fact.state = "error"
         /\ KindOf(fact) = "late" <=>
              fact.state = "running" /\ fact.health # None /\ fact.health.late
         /\ fact.health # None => fact.health \in Healths
         /\ KindOf(fact) = "size" =>
              fact.health # None /\ fact.health.size \notin {"normal", "unknown"}
<1>1. None \notin Kinds BY AlertAssumption
<1>2. /\ fact.state \in {"running", "error"} /\ fact.health \in Healths \cup {None}
  BY DEF FeedFacts
<1>3. fact.health # None => fact.health.late \in BOOLEAN BY <1>2 DEF Healths
<1>4. QED BY <1>1, <1>2, <1>3 DEF KindOf, Kinds

LEMMA EpisodeFacts ==
  ASSUME NEW fact \in FeedFacts, KindOf(fact) # None
  PROVE  /\ EpisodeOf(fact) \in Episodes /\ EpisodeOf(fact) # None
         /\ EpisodeOf(fact).kind = KindOf(fact)
         /\ KindOf(fact) = "late" => EpisodeOf(fact) = LateEpisode(fact.health.arrived)
<1> USE AlertAssumption
<1>1. fact.health # None =>
        /\ fact.health.arrived \in Nat /\ fact.health.gap \in Times /\ fact.health.size \in Sizes
        /\ fact.health.arrived + LateAfter \in Nat
  BY KindFacts DEF Healths, Times
<1>2. CASE KindOf(fact) = "error"
  <2>1. fact.error \in {"failure", None} BY DEF FeedFacts
  <2>2. EpisodeOf(fact) = [kind |-> "error", at |-> 0,
                           of |-> IF fact.error = None THEN "unknown" ELSE fact.error]
    BY <1>2 DEF EpisodeOf
  <2>3. QED BY <1>2, <2>1, <2>2 DEF Episodes
<1>3. CASE KindOf(fact) = "late"
  <2>1. EpisodeOf(fact) = LateEpisode(fact.health.arrived) BY <1>3 DEF EpisodeOf, LateEpisode
  <2>2. fact.health # None BY <1>3, KindFacts
  <2>3. QED BY <1>1, <1>3, <2>1, <2>2 DEF Episodes, LateEpisode
<1>4. CASE KindOf(fact) = "size"
  <2>1. EpisodeOf(fact) = [kind |-> "size", of |-> fact.health.size, at |-> fact.health.gap]
    BY <1>4 DEF EpisodeOf
  <2>2. fact.health # None BY <1>4, KindFacts
  <2>3. QED BY <1>1, <1>4, <2>1, <2>2 DEF Episodes
<1>5. QED BY <1>2, <1>3, <1>4, KindFacts DEF Kinds

\* The key of an episode of lateness names the arrival before it.
LEMMA LateEpisodes ==
  ASSUME NEW s \in Times, NEW t \in Times
  PROVE  LateEpisode(s) = LateEpisode(t) <=> s = t
<1>1. s \in Nat /\ t \in Nat /\ LateAfter \in Nat BY AlertAssumption DEF Times
<1>2. LateEpisode(s).at = s + LateAfter /\ LateEpisode(t).at = t + LateAfter BY DEF LateEpisode
<1>3. QED BY <1>1, <1>2

LEMMA ProblemFacts ==
  ASSUME NEW f, Shaped(f), Maps, NEW fact \in FeedFacts
  PROVE  /\ KindOf(fact) = None => ProblemOf(f, fact) = None
         /\ KindOf(fact) # None => /\ ProblemOf(f, fact) \in Problems
                                   /\ ProblemOf(f, fact) # None
                                   /\ ProblemOf(f, fact)[1] = KindOf(fact)
         /\ KindOf(fact) = "late" => ProblemOf(f, fact) = <<"late", fact.health.arrived>>
<1>1. None \notin Problems /\ None \notin {"late", "size", "error"} BY AlertAssumption DEF Kinds
<1>2. CASE KindOf(fact) = None BY <1>1, <1>2 DEF ProblemOf
<1>3. CASE KindOf(fact) = "error"
  <2>1. ProblemOf(f, fact) = IF seen[f].problem # None /\ seen[f].problem[1] = "error"
                             THEN seen[f].problem ELSE <<"error", now>>
    BY <1>1, <1>3 DEF ProblemOf
  <2>2. seen[f].problem \in Problems \cup {None} BY DEF Shaped, Sightings
  <2>3. <<"error", now>> \in Problems /\ <<"error", now>>[1] = "error" BY DEF Maps, Problems, Kinds
  <2>4. QED BY <1>1, <1>3, <2>1, <2>2, <2>3
<1>4. CASE KindOf(fact) \in {"late", "size"}
  <2>1. ProblemOf(f, fact) = <<KindOf(fact), fact.health.arrived>> BY <1>1, <1>4 DEF ProblemOf
  <2>2. fact.health.arrived \in Times BY <1>4, KindFacts DEF Healths
  <2>3. ProblemOf(f, fact) \in Problems BY <1>4, <2>1, <2>2 DEF Problems, Kinds
  <2>4. QED BY <1>1, <1>4, <2>1, <2>3
<1>5. QED BY <1>2, <1>3, <1>4, KindFacts DEF Kinds

LEMMA SeverityFacts ==
  ASSUME NEW fact PROVE SeverityOf(fact) \in {"unknown", "ok", "warning", "critical"}
BY DEF SeverityOf

LEMMA EntryFacts ==
  ASSUME NEW f, Shaped(f), NEW fact
  PROVE  /\ Entry(f, fact) \in FeedMemory
         /\ Entry(f, fact).severity = SeverityOf(fact)
         /\ memory[f] # None =>
              /\ Entry(f, fact).notified = memory[f].notified
              /\ Entry(f, fact).pending = memory[f].pending
              /\ Entry(f, fact).consecutive = memory[f].consecutive
              /\ Entry(f, fact).lastAlertAt = memory[f].lastAlertAt
         /\ memory[f] = None => /\ Entry(f, fact).notified = None
                                /\ Entry(f, fact).lastAlertAt = None
<1> DEFINE old == IF memory[f] = None THEN NewMemory ELSE memory[f]
<1>1. 0 \in 0..Confirm BY AlertAssumption
<1>2. NewMemory \in FeedMemory BY <1>1 DEF NewMemory, FeedMemory
<1>3. old \in FeedMemory BY <1>2 DEF Shaped
<1>4. Entry(f, fact) = [old EXCEPT !.severity = SeverityOf(fact)] BY DEF Entry
<1>5. memory[f] = None => old.notified = None /\ old.lastAlertAt = None BY DEF NewMemory
<1>6. memory[f] # None => old = memory[f] OBVIOUS
<1> HIDE DEF old
<1>7. QED BY <1>3, <1>4, <1>5, <1>6, SeverityFacts DEF FeedMemory

\* The three things an observation makes of the entry of a feed
LEMMA EntrySteps ==
  ASSUME Maps, NEW entry \in FeedMemory, NEW episode \in Episodes
  PROVE  /\ Cleared(entry) \in FeedMemory
         /\ Cleared(entry).notified = None /\ Cleared(entry).lastAlertAt = entry.lastAlertAt
         /\ Cleared(entry).severity = entry.severity
         /\ Counted(entry, episode) \in FeedMemory
         /\ Counted(entry, episode).notified = entry.notified
         /\ Counted(entry, episode).lastAlertAt = entry.lastAlertAt
         /\ Counted(entry, episode).severity = entry.severity
         /\ Counted(entry, episode).pending = episode
         /\ Counted(entry, episode).consecutive \in 1..Confirm
         /\ entry.pending = episode /\ entry.consecutive < Confirm
              => Counted(entry, episode).consecutive = entry.consecutive + 1
         /\ entry.pending = episode /\ entry.consecutive >= Confirm
              => Counted(entry, episode).consecutive = entry.consecutive
         /\ Notified(entry, episode) \in FeedMemory
         /\ Notified(entry, episode).notified = episode
         /\ Notified(entry, episode).lastAlertAt = now
         /\ Notified(entry, episode).severity = entry.severity
         /\ Notified(entry, episode).pending = entry.pending
         /\ Notified(entry, episode).consecutive = entry.consecutive
<1>1. Confirm \in Nat \ {0} /\ entry.consecutive \in 0..Confirm BY AlertAssumption DEF FeedMemory
<1>2. 0 \in 0..Confirm /\ 1 \in 0..Confirm BY <1>1
<1>3. now \in Times BY DEF Maps
<1> DEFINE next == IF entry.pending # episode THEN 1
                   ELSE IF entry.consecutive < Confirm THEN entry.consecutive + 1
                   ELSE entry.consecutive
<1>4. next \in 1..Confirm /\ next \in 0..Confirm BY <1>1
<1>5. Counted(entry, episode) = [entry EXCEPT !.pending = episode, !.consecutive = next]
  BY DEF Counted
<1>6. /\ entry.pending = episode /\ entry.consecutive < Confirm => next = entry.consecutive + 1
      /\ entry.pending = episode /\ entry.consecutive >= Confirm => next = entry.consecutive
  BY <1>1
<1> HIDE DEF next
<1>7. /\ Counted(entry, episode) \in FeedMemory
      /\ Counted(entry, episode).notified = entry.notified
      /\ Counted(entry, episode).lastAlertAt = entry.lastAlertAt
      /\ Counted(entry, episode).severity = entry.severity
      /\ Counted(entry, episode).pending = episode
      /\ Counted(entry, episode).consecutive = next
  BY <1>4, <1>5 DEF FeedMemory
<1>8. /\ Cleared(entry) \in FeedMemory
      /\ Cleared(entry).notified = None /\ Cleared(entry).lastAlertAt = entry.lastAlertAt
      /\ Cleared(entry).severity = entry.severity
  BY <1>2 DEF Cleared, FeedMemory
<1>9. /\ Notified(entry, episode) \in FeedMemory
      /\ Notified(entry, episode).notified = episode
      /\ Notified(entry, episode).lastAlertAt = now
      /\ Notified(entry, episode).severity = entry.severity
      /\ Notified(entry, episode).pending = entry.pending
      /\ Notified(entry, episode).consecutive = entry.consecutive
  BY <1>3 DEF Notified, FeedMemory
<1>10. QED BY <1>4, <1>6, <1>7, <1>8, <1>9

-----------------------------------------------------------------------------
(* An observation *)

Accounts == [times : [Problems -> 0..2], last : Times \cup {None}]

LEMMA AlertedFacts ==
  ASSUME Maps, NEW account \in Accounts, NEW problem \in Problems
  PROVE  /\ Alerted(account, problem) \in Accounts
         /\ Alerted(account, problem).last = now
         /\ account.times[problem] = 0 => Alerted(account, problem).times[problem] = 1
         /\ \A p \in Problems \ {problem} :
              Alerted(account, problem).times[p] =
                IF problem[1] = "error" THEN 0 ELSE account.times[p]
<1> DEFINE times == [p \in Problems |->
                       IF p = problem THEN IF account.times[p] < 2 THEN account.times[p] + 1 ELSE 2
                       ELSE IF problem[1] = "error" THEN 0 ELSE account.times[p]]
<1>1. \A p \in Problems : account.times[p] \in 0..2 BY DEF Accounts
<1>2. times \in [Problems -> 0..2] BY <1>1
<1>3. Alerted(account, problem) = [times |-> times, last |-> now] BY DEF Alerted
<1>4. account.times[problem] = 0 => times[problem] = 1 BY <1>1
<1>5. \A p \in Problems \ {problem} :
        times[p] = IF problem[1] = "error" THEN 0 ELSE account.times[p]
  OBVIOUS
<1> HIDE DEF times
<1>6. QED BY <1>2, <1>3, <1>4, <1>5 DEF Accounts, Maps

\* What the entry and the account of a feed become with an observation
Entered(f, fact, entry, account) ==
  LET counted == Counted(Entry(f, fact), EpisodeOf(fact))
  IN  \/ KindOf(fact) = None /\ entry = Cleared(Entry(f, fact)) /\ account = told[f]
      \/ /\ KindOf(fact) # None /\ KindOf(fact) \notin policy
         /\ entry = Entry(f, fact) /\ account = told[f]
      \/ /\ KindOf(fact) \in policy /\ ~Alerts(counted, EpisodeOf(fact))
         /\ entry = counted /\ account = told[f]
      \/ /\ KindOf(fact) \in policy /\ Alerts(counted, EpisodeOf(fact))
         /\ entry = Notified(counted, EpisodeOf(fact))
         /\ account = Alerted(told[f], ProblemOf(f, fact))

LEMMA LearnsStep ==
  ASSUME Maps, NEW f \in Feeds, NEW type, NEW fact, Learns(f, type, fact)
  PROVE  /\ UNCHANGED <<now, arrival, polling, policy>>
         /\ outbox'[f] = Tail(outbox[f]) /\ facts'[f] = fact
         /\ Entered(f, fact, memory'[f], told'[f])
         /\ \A g \in Feeds \ {f} :
              /\ outbox'[g] = outbox[g] /\ facts'[g] = facts[g]
              /\ memory'[g] = memory[g] /\ told'[g] = told[g]
         /\ IsMap(outbox)' /\ IsMap(facts)' /\ IsMap(memory)' /\ IsMap(told)'
<1>1. /\ UNCHANGED <<now, arrival, polling, policy>>
      /\ outbox' = [outbox EXCEPT ![f] = Tail(@)] /\ facts' = [facts EXCEPT ![f] = fact]
      /\ Observe(f, fact)
  BY DEF Learns, envVars
<1>2. \E entry, account :
        /\ memory' = [memory EXCEPT ![f] = entry] /\ told' = [told EXCEPT ![f] = account]
        /\ Entered(f, fact, entry, account)
  <2>1. told = [told EXCEPT ![f] = told[f]] BY DEF Maps, IsMap
  <2> DEFINE counted == Counted(Entry(f, fact), EpisodeOf(fact))
  <2>2. CASE /\ KindOf(fact) = None
             /\ memory' = [memory EXCEPT ![f] = Cleared(Entry(f, fact))] /\ told' = told
    BY <2>1, <2>2 DEF Entered
  <2>3. CASE /\ KindOf(fact) # None /\ KindOf(fact) \notin policy
             /\ memory' = [memory EXCEPT ![f] = Entry(f, fact)] /\ told' = told
    BY <2>1, <2>3 DEF Entered
  <2>4. CASE /\ KindOf(fact) \in policy /\ ~Alerts(counted, EpisodeOf(fact))
             /\ memory' = [memory EXCEPT ![f] = counted] /\ told' = told
    BY <2>1, <2>4 DEF Entered
  <2>5. CASE /\ KindOf(fact) \in policy /\ Alerts(counted, EpisodeOf(fact))
             /\ memory' = [memory EXCEPT ![f] = Notified(counted, EpisodeOf(fact))]
             /\ told' = [told EXCEPT ![f] = Alerted(told[f], ProblemOf(f, fact))]
    BY <2>5 DEF Entered
  <2>6. QED BY <1>1, <2>2, <2>3, <2>4, <2>5 DEF Observe
<1>3. PICK entry, account :
        /\ memory' = [memory EXCEPT ![f] = entry] /\ told' = [told EXCEPT ![f] = account]
        /\ Entered(f, fact, entry, account)
  BY <1>2
<1>4. DOMAIN outbox = Feeds /\ DOMAIN facts = Feeds /\ DOMAIN memory = Feeds /\ DOMAIN told = Feeds
  BY DEF Maps, IsMap
<1>5. memory'[f] = entry /\ told'[f] = account BY <1>3, <1>4
<1>6. IsMap(outbox)' /\ IsMap(facts)' /\ IsMap(memory)' /\ IsMap(told)'
  BY <1>1, <1>3, <1>4 DEF IsMap
<1>7. QED BY <1>1, <1>3, <1>4, <1>5, <1>6

LEMMA AlertsMeans ==
  ASSUME NEW entry, NEW episode
  PROVE  Alerts(entry, episode) <=> /\ entry.notified # episode /\ entry.consecutive >= Confirm
                                    /\ Cool(entry.lastAlertAt)
BY DEF Alerts

\* The facts an observation is made of do not go back behind what was known.
Continues(f, fact) ==
  /\ fact \in FeedFacts
  /\ fact.health # None => Follows(f, fact.health)
  /\ Known(f) # None => fact.health # None

\* An alert is counted, once, for the problem it is about.
LEMMA EnteredKeeps ==
  ASSUME Maps, NEW f \in Feeds, FeedInv(f), NEW fact, Continues(f, fact),
         NEW entry, NEW account, Entered(f, fact, entry, account)
  PROVE  /\ entry \in FeedMemory /\ account \in Accounts
         /\ entry.severity = SeverityOf(fact) /\ entry.lastAlertAt = account.last
         /\ \A t \in Times :
              /\ account.times[<<"late", t>>] <= 1
              /\ account.times[<<"late", t>>] = 1 =>
                   /\ fact.health # None
                   /\ \/ fact.health.arrived > t
                      \/ /\ fact.health.arrived = t /\ fact.health.late
                         /\ entry.notified = LateEpisode(t)
              /\ entry.notified = LateEpisode(t) => account.times[<<"late", t>>] = 1
<1> DEFINE old == Entry(f, fact)
           episode == EpisodeOf(fact)
           counted == Counted(old, episode)
           problem == ProblemOf(f, fact)
<1>1. /\ Shaped(f) /\ Remembered(f) /\ ToldOfLateness(f) /\ fact \in FeedFacts
      /\ told[f] \in Accounts
  BY DEF FeedInv, Continues, Shaped, Accounts
<1>2. /\ old \in FeedMemory /\ old.severity = SeverityOf(fact)
      /\ memory[f] # None => old.notified = memory[f].notified /\ old.lastAlertAt = memory[f].lastAlertAt
      /\ memory[f] = None => old.notified = None /\ old.lastAlertAt = None
  BY <1>1, EntryFacts
<1>3. old.lastAlertAt = told[f].last
  BY <1>1, <1>2 DEF Remembered, Untold
<1>4. \A t \in Times : LateEpisode(t) # None /\ LateEpisode(t).kind = "late"
  <2> TAKE t \in Times
  <2>1. t + LateAfter \in Nat BY AlertAssumption DEF Times
  <2>2. LateEpisode(t) \in Episodes BY <2>1 DEF LateEpisode, Episodes
  <2>3. QED BY <2>2, AlertAssumption DEF LateEpisode
\* What was known of lateness before the observation
<1>5. ASSUME NEW t \in Times
      PROVE  /\ <<"late", t>> \in Problems
             /\ told[f].times[<<"late", t>>] \in 0..1
             /\ told[f].times[<<"late", t>>] = 1 =>
                  /\ fact.health # None /\ fact.health.arrived \in Nat
                  /\ \/ fact.health.arrived > t
                     \/ /\ fact.health.arrived = t /\ fact.health.late
                        /\ old.notified = LateEpisode(t)
             /\ old.notified = LateEpisode(t) => told[f].times[<<"late", t>>] = 1
  <2>1. <<"late", t>> \in Problems BY DEF Problems, Kinds
  <2>2. told[f].times[<<"late", t>>] \in 0..1
    BY <1>1, <2>1 DEF Accounts, ToldOfLateness
  <2>3. ASSUME told[f].times[<<"late", t>>] = 1
        PROVE  /\ fact.health # None /\ fact.health.arrived \in Nat
               /\ \/ fact.health.arrived > t
                  \/ /\ fact.health.arrived = t /\ fact.health.late
                     /\ old.notified = LateEpisode(t)
    <3>1. /\ Known(f) # None
          /\ \/ Known(f).arrived > t
             \/ /\ Known(f).arrived = t /\ Known(f).late /\ memory[f].notified = LateEpisode(t)
      BY <1>1, <2>3 DEF ToldOfLateness
    <3>2. /\ fact.health # None /\ fact.health \in Healths /\ Known(f) \in Healths
          /\ Known(f).arrived <= fact.health.arrived
          /\ Known(f).arrived = fact.health.arrived /\ Known(f).late => fact.health.late
      BY <1>1, <3>1 DEF Continues, Follows, Computed, Remembered
    <3>3. memory[f] # None BY <1>1, <3>1 DEF Remembered, Known
    <3>4. t \in Nat /\ fact.health.arrived \in Nat /\ Known(f).arrived \in Nat
      BY <3>2, AlertAssumption DEF Healths, Times
    <3>5. QED BY <1>2, <3>1, <3>2, <3>3, <3>4
  <2>4. ASSUME old.notified = LateEpisode(t) PROVE told[f].times[<<"late", t>>] = 1
    <3>1. memory[f] # None /\ memory[f].notified = LateEpisode(t) BY <1>2, <1>4, <2>4
    <3>2. QED BY <1>1, <3>1 DEF ToldOfLateness
  <2>5. QED BY <2>1, <2>2, <2>3, <2>4
<1>6. Known(f) # None /\ KindOf(fact) = None => ~fact.health.late
  <2>1. KindOf(fact) = None => KindOf(fact) # "error" /\ KindOf(fact) # "late"
    BY AlertAssumption DEF Kinds
  <2>2. fact.state \in {"running", "error"} BY <1>1 DEF FeedFacts
  <2>3. QED BY <1>1, <2>1, <2>2, KindFacts DEF Continues
<1>7. CASE KindOf(fact) = None /\ entry = Cleared(old) /\ account = told[f]
  <2>1. /\ entry \in FeedMemory /\ entry.notified = None
        /\ entry.lastAlertAt = old.lastAlertAt /\ entry.severity = old.severity
    <3>1. PICK e \in Episodes : TRUE
      <4>1. [kind |-> "error", of |-> "failure", at |-> 0] \in Episodes BY DEF Episodes
      <4>2. QED BY <4>1
    <3>2. QED BY <1>2, <1>7, <3>1, EntrySteps
  <2>2. \A t \in Times : told[f].times[<<"late", t>>] = 1 => fact.health # None /\ ~fact.health.late
    BY <1>1, <1>6, <1>7 DEF ToldOfLateness, Continues
  <2>3. QED BY <1>1, <1>2, <1>3, <1>4, <1>5, <1>7, <2>1, <2>2
<1>8. CASE KindOf(fact) # None /\ KindOf(fact) \notin policy /\ entry = old /\ account = told[f]
  BY <1>1, <1>2, <1>3, <1>5, <1>8
<1>9. ASSUME KindOf(fact) \in policy
      PROVE  /\ KindOf(fact) # None /\ episode \in Episodes
             /\ episode.kind = KindOf(fact)
             /\ KindOf(fact) = "late" => episode = LateEpisode(fact.health.arrived)
             /\ problem \in Problems /\ problem[1] = KindOf(fact)
             /\ KindOf(fact) = "late" => problem = <<"late", fact.health.arrived>>
             /\ counted \in FeedMemory /\ counted.notified = old.notified
             /\ counted.lastAlertAt = old.lastAlertAt /\ counted.severity = old.severity
             /\ Notified(counted, episode) \in FeedMemory
             /\ Notified(counted, episode).notified = episode
             /\ Notified(counted, episode).lastAlertAt = now
             /\ Notified(counted, episode).severity = counted.severity
  <2>1. KindOf(fact) # None BY <1>9, AlertAssumption DEF Maps
  <2>2. /\ episode \in Episodes /\ episode.kind = KindOf(fact)
        /\ KindOf(fact) = "late" => episode = LateEpisode(fact.health.arrived)
    BY <1>1, <2>1, EpisodeFacts
  <2>3. /\ problem \in Problems /\ problem[1] = KindOf(fact)
        /\ KindOf(fact) = "late" => problem = <<"late", fact.health.arrived>>
    BY <1>1, <2>1, ProblemFacts
  <2> HIDE DEF episode, problem
  <2>4. /\ counted \in FeedMemory /\ counted.notified = old.notified
        /\ counted.lastAlertAt = old.lastAlertAt /\ counted.severity = old.severity
    BY <1>1, <1>2, <2>2, EntrySteps
  <2> HIDE DEF counted
  <2>5. /\ Notified(counted, episode) \in FeedMemory
        /\ Notified(counted, episode).notified = episode
        /\ Notified(counted, episode).lastAlertAt = now
        /\ Notified(counted, episode).severity = counted.severity
    BY <1>1, <2>2, <2>4, EntrySteps
  <2>6. QED BY <2>1, <2>2, <2>3, <2>4, <2>5
<1>10. CASE KindOf(fact) \in policy /\ ~Alerts(counted, episode) /\ entry = counted /\ account = told[f]
  BY <1>1, <1>2, <1>3, <1>5, <1>9, <1>10
<1>11. CASE /\ KindOf(fact) \in policy /\ Alerts(counted, episode)
            /\ entry = Notified(counted, episode) /\ account = Alerted(told[f], problem)
  <2>1. old.notified # episode BY <1>9, <1>11, AlertsMeans
  <2>2. /\ account \in Accounts /\ account.last = now
        /\ told[f].times[problem] = 0 => account.times[problem] = 1
        /\ \A p \in Problems \ {problem} :
             account.times[p] = IF problem[1] = "error" THEN 0 ELSE told[f].times[p]
    BY <1>1, <1>9, <1>11, AlertedFacts
  <2>3. KindOf(fact) = "late" => /\ fact.health # None /\ fact.health.late
                                 /\ fact.health.arrived \in Times
    BY <1>1, KindFacts DEF Healths
  <2>4. ASSUME NEW t \in Times
        PROVE  /\ account.times[<<"late", t>>] <= 1
               /\ account.times[<<"late", t>>] = 1 =>
                    /\ fact.health # None
                    /\ \/ fact.health.arrived > t
                       \/ /\ fact.health.arrived = t /\ fact.health.late
                          /\ episode = LateEpisode(t)
               /\ episode = LateEpisode(t) => account.times[<<"late", t>>] = 1
    <3>1. CASE KindOf(fact) = "late" /\ t = fact.health.arrived
      <4>1. told[f].times[problem] = 0 BY <1>5, <1>9, <1>11, <2>1, <3>1
      <4>2. QED BY <1>9, <1>11, <2>2, <2>3, <3>1, <4>1
    <3>2. CASE ~(KindOf(fact) = "late" /\ t = fact.health.arrived)
      <4>1. <<"late", t>> \in Problems /\ <<"late", t>> # problem
        <5>1. <<"late", t>>[1] = "late" /\ <<"late", t>>[2] = t OBVIOUS
        <5>2. QED BY <1>5, <1>9, <1>11, <3>2, <5>1
      <4>2. episode # LateEpisode(t) BY <1>4, <1>9, <1>11, <2>3, <3>2, LateEpisodes
      <4>3. account.times[<<"late", t>>] =
              IF KindOf(fact) = "error" THEN 0 ELSE told[f].times[<<"late", t>>]
        BY <1>9, <1>11, <2>2, <4>1
      <4>4. ASSUME KindOf(fact) # "error", told[f].times[<<"late", t>>] = 1
            PROVE  fact.health # None /\ fact.health.arrived > t
        <5>1. fact.state = "running" BY <1>1, <4>4, KindFacts DEF FeedFacts
        <5>2. /\ fact.health # None
              /\ \/ fact.health.arrived > t
                 \/ fact.health.arrived = t /\ fact.health.late
          BY <1>5, <4>4
        <5>3. QED BY <1>1, <3>2, <5>1, <5>2, KindFacts
      <4>5. QED BY <1>5, <4>2, <4>3, <4>4
    <3>3. QED BY <3>1, <3>2
  <2>5. QED BY <1>2, <1>9, <1>11, <2>2, <2>4
<1>12. QED BY <1>7, <1>8, <1>10, <1>11 DEF Entered

-----------------------------------------------------------------------------
(* The steps about one feed *)

\* A step that leaves a feed alone
Untouched(g) ==
  /\ now' = now /\ arrival'[g] = arrival[g] /\ polling'[g] = polling[g] /\ outbox'[g] = outbox[g]
  /\ facts'[g] = facts[g] /\ memory'[g] = memory[g] /\ seen'[g] = seen[g] /\ told'[g] = told[g]

LEMMA Frame ==
  ASSUME NEW g, FeedInv(g), Untouched(g)
  PROVE  FeedInv(g)'
<1>1. Shaped(g)' BY DEF FeedInv, Untouched, Shaped
<1>2. Known(g)' = Known(g) BY DEF Untouched, Known
<1>3. \A health : Follows(g, health)' <=> Follows(g, health)
  BY <1>2 DEF Untouched, Follows, Computed
<1>4. Announced(g)' BY <1>3 DEF FeedInv, Untouched, Announced
<1>5. Remembered(g)' BY <1>2 DEF FeedInv, Untouched, Remembered, Computed
<1>6. ToldOfLateness(g)' BY <1>2 DEF FeedInv, Untouched, ToldOfLateness
<1>7. SeenLate(g)' BY <1>2 DEF FeedInv, Untouched, SeenLate
<1>8. QED BY <1>1, <1>4, <1>5, <1>6, <1>7 DEF FeedInv

LEMMA OneFeed ==
  ASSUME AlertInv, NEW f \in Feeds, \A g \in Feeds \ {f} : Untouched(g), FeedInv(f)', Maps'
  PROVE  AlertInv'
<1>1. \A g \in Feeds \ {f} : FeedInv(g)' BY Frame DEF AlertInv
<1>2. QED BY <1>1 DEF AlertInv

\* What a notification of facts leaves to show
LEMMA LearnsKeeps ==
  ASSUME AlertInv, NEW f \in Feeds, NEW type, NEW fact, Learns(f, type, fact), Continues(f, fact),
         Announced(f)', SeenLate(f)', \A g \in Feeds \ {f} : seen'[g] = seen[g],
         seen'[f] \in Sightings,
         IsMap(seen)'
  PROVE  AlertInv'
<1>1. Maps /\ FeedInv(f) /\ Shaped(f) BY DEF AlertInv, FeedInv
<1>2. /\ UNCHANGED <<now, arrival, polling, policy>>
      /\ facts'[f] = fact /\ Entered(f, fact, memory'[f], told'[f])
      /\ \A g \in Feeds \ {f} : /\ outbox'[g] = outbox[g] /\ facts'[g] = facts[g]
                                /\ memory'[g] = memory[g] /\ told'[g] = told[g]
      /\ IsMap(outbox)' /\ IsMap(facts)' /\ IsMap(memory)' /\ IsMap(told)'
  BY <1>1, LearnsStep
<1>3. /\ memory'[f] \in FeedMemory /\ told'[f] \in Accounts
      /\ memory'[f].severity = SeverityOf(fact) /\ memory'[f].lastAlertAt = told'[f].last
      /\ \A t \in Times :
           /\ told'[f].times[<<"late", t>>] <= 1
           /\ told'[f].times[<<"late", t>>] = 1 =>
                /\ fact.health # None
                /\ \/ fact.health.arrived > t
                   \/ /\ fact.health.arrived = t /\ fact.health.late
                      /\ memory'[f].notified = LateEpisode(t)
           /\ memory'[f].notified = LateEpisode(t) => told'[f].times[<<"late", t>>] = 1
  BY <1>1, <1>2, EnteredKeeps
<1>4. fact \in FeedFacts /\ fact # None /\ memory'[f] # None
  BY <1>3, AlertAssumption DEF Continues
<1>5. Known(f)' = fact.health BY <1>2, <1>4 DEF Known
<1>6. Shaped(f)' BY <1>1, <1>2, <1>3, <1>4 DEF Shaped, Accounts
<1>7. Remembered(f)'
  <2>1. fact.health # None => Computed(f, fact.health)' BY <1>2 DEF Continues, Follows, Computed
  <2>2. QED BY <1>2, <1>3, <1>4, <1>5, <2>1 DEF Remembered
<1>8. ToldOfLateness(f)' BY <1>3, <1>4, <1>5 DEF ToldOfLateness
<1>9. FeedInv(f)' BY <1>6, <1>7, <1>8 DEF FeedInv
<1>10. \A g \in Feeds \ {f} : Untouched(g) BY <1>2 DEF Untouched
<1>11. Maps' BY <1>1, <1>2 DEF Maps, IsMap
<1>12. QED BY <1>9, <1>10, <1>11, OneFeed

-----------------------------------------------------------------------------
(* The notifications *)

LEMMA FactsFacts ==
  ASSUME NEW f, Shaped(f)
  PROVE  Facts(f) \in FeedFacts /\ Facts(f).health = Known(f)
BY DEF Facts, NoFacts, FeedFacts, Known, Shaped

\* What a late observation makes of the entry
LEMMA EnteredLate ==
  ASSUME Maps, NEW f \in Feeds, FeedInv(f), NEW fact \in FeedFacts, KindOf(fact) = "late",
         NEW entry, NEW account, Entered(f, fact, entry, account),
         NEW episode, episode = LateEpisode(fact.health.arrived)
  PROVE  /\ "late" \notin policy => entry = Entry(f, fact) /\ account = told[f]
         /\ "late" \in policy =>
              /\ entry.pending = episode /\ entry.consecutive \in 1..Confirm
              /\ Entry(f, fact).pending = episode =>
                   /\ Entry(f, fact).consecutive < Confirm
                        => entry.consecutive = Entry(f, fact).consecutive + 1
                   /\ Entry(f, fact).consecutive >= Confirm
                        => entry.consecutive = Entry(f, fact).consecutive
              /\ entry.consecutive >= Confirm /\ Cool(told[f].last) => entry.notified = episode
              /\ account = told[f] \/ entry.notified = episode
<1> DEFINE old == Entry(f, fact)
           counted == Counted(old, episode)
<1>1. /\ Shaped(f) /\ Remembered(f) /\ "late" # None
  BY AlertAssumption DEF FeedInv, Kinds
<1>2. EpisodeOf(fact) = episode /\ episode \in Episodes BY <1>1, EpisodeFacts
<1>3. old \in FeedMemory /\ old.lastAlertAt = told[f].last
  BY <1>1, EntryFacts DEF Remembered, Untold
<1>4. \/ "late" \notin policy /\ entry = old /\ account = told[f]
      \/ "late" \in policy /\ ~Alerts(counted, episode) /\ entry = counted /\ account = told[f]
      \/ "late" \in policy /\ Alerts(counted, episode) /\ entry = Notified(counted, episode)
  BY <1>1, <1>2 DEF Entered
<1>5. /\ counted \in FeedMemory /\ counted.lastAlertAt = old.lastAlertAt
      /\ counted.pending = episode /\ counted.consecutive \in 1..Confirm
      /\ old.pending = episode /\ old.consecutive < Confirm
           => counted.consecutive = old.consecutive + 1
      /\ old.pending = episode /\ old.consecutive >= Confirm
           => counted.consecutive = old.consecutive
  BY <1>2, <1>3, EntrySteps
<1>6. /\ Notified(counted, episode).notified = episode
      /\ Notified(counted, episode).pending = counted.pending
      /\ Notified(counted, episode).consecutive = counted.consecutive
  BY <1>2, <1>5, EntrySteps
<1>7. ~Alerts(counted, episode) /\ counted.consecutive >= Confirm /\ Cool(counted.lastAlertAt)
        => counted.notified = episode
  BY AlertsMeans
<1> HIDE DEF counted, old
<1>8. QED BY <1>3, <1>4, <1>5, <1>6, <1>7 DEF old

LEMMA SeenFacts ==
  ASSUME Maps, NEW f, Shaped(f), NEW fact \in FeedFacts
  PROVE  SeenAfter(f, fact) \in Sightings
<1>1. ProblemOf(f, fact) \in Problems \cup {None} BY ProblemFacts
<1>2. seen[f].polls \in 0..Confirm /\ Confirm \in Nat \ {0} BY AlertAssumption DEF Shaped, Sightings
<1> DEFINE before == IF seen[f].problem = ProblemOf(f, fact) THEN seen[f].polls ELSE 0
           polls == IF KindOf(fact) \in policy /\ before < Confirm THEN before + 1 ELSE before
           due == KindOf(fact) \in policy /\ Cool(told[f].last)
<1>3. before \in 0..Confirm BY <1>2
<1>4. polls \in 0..Confirm BY <1>2, <1>3
<1>5. due \in BOOLEAN /\ (due => ProblemOf(f, fact) # None)
  <2>1. KindOf(fact) \in policy => KindOf(fact) # None BY AlertAssumption DEF Maps
  <2>2. QED BY <2>1, ProblemFacts DEF Cool
<1>6. SeenAfter(f, fact) = [problem |-> ProblemOf(f, fact), polls |-> polls, due |-> due]
  BY DEF SeenAfter
<1> HIDE DEF polls, due
<1>7. QED BY <1>1, <1>4, <1>5, <1>6 DEF Sightings

\* The first of the notifications under way
LEMMA FirstNotification ==
  ASSUME NEW f, Announced(f), outbox[f] # <<>>
  PROVE  /\ Head(outbox[f]).type = "statistics" =>
              /\ outbox[f] = <<Head(outbox[f])>>
              /\ polling[f] = "running" /\ Follows(f, Head(outbox[f]).health)
         /\ Head(outbox[f]).type = "status" =>
              \/ /\ Head(outbox[f]) = Status("running")
                 /\ polling[f] = "running"
                 /\ \/ Tail(outbox[f]) = <<>>
                    \/ \E health \in Healths :
                         Tail(outbox[f]) = <<Statistics(health)>> /\ Follows(f, health)
              \/ Head(outbox[f]) = Status("stopped") /\ polling[f] = "off" /\ Tail(outbox[f]) = <<>>
              \/ /\ Head(outbox[f]) = Status("error") /\ polling[f] = "error"
                 /\ seen[f].problem # None /\ seen[f].problem[1] = "error"
                 /\ Tail(outbox[f]) = <<>>
         /\ Head(outbox[f]).type = "error" =>
              \E retryable \in BOOLEAN :
                /\ Head(outbox[f]) = Failure(retryable) /\ polling[f] = "error"
                /\ Tail(outbox[f]) = <<Status("error")>>
<1>1. CASE outbox[f] = <<Status("running")>> /\ polling[f] = "running" BY <1>1 DEF Status
<1>2. CASE outbox[f] = <<Status("stopped")>> /\ polling[f] = "off" BY <1>2 DEF Status
<1>3. CASE /\ outbox[f] = <<Status("error")>> /\ polling[f] = "error"
           /\ seen[f].problem # None /\ seen[f].problem[1] = "error"
  BY <1>3 DEF Status
<1>4. CASE \E health \in Healths :
             /\ outbox[f] \in {<<Statistics(health)>>, <<Status("running"), Statistics(health)>>}
             /\ polling[f] = "running" /\ Follows(f, health)
  <2>1. PICK health \in Healths :
             /\ outbox[f] \in {<<Statistics(health)>>, <<Status("running"), Statistics(health)>>}
             /\ polling[f] = "running" /\ Follows(f, health)
    BY <1>4
  <2>2. CASE outbox[f] = <<Statistics(health)>> BY <2>1, <2>2 DEF Statistics
  <2>3. CASE outbox[f] = <<Status("running"), Statistics(health)>>
    <3>1. Head(outbox[f]) = Status("running") /\ Tail(outbox[f]) = <<Statistics(health)>>
      BY <2>3
    <3>2. Head(outbox[f]).type = "status" BY <3>1 DEF Status
    <3>3. QED BY <2>1, <3>1, <3>2
  <2>4. QED BY <2>1, <2>2, <2>3
<1>5. CASE \E retryable \in BOOLEAN :
             outbox[f] = <<Failure(retryable), Status("error")>> /\ polling[f] = "error"
  <2>1. PICK retryable \in BOOLEAN :
             outbox[f] = <<Failure(retryable), Status("error")>> /\ polling[f] = "error"
    BY <1>5
  <2>2. Head(outbox[f]) = Failure(retryable) /\ Tail(outbox[f]) = <<Status("error")>> BY <2>1
  <2>3. Head(outbox[f]).type = "error" BY <2>2 DEF Failure
  <2>4. QED BY <2>1, <2>2, <2>3
<1>6. QED BY <1>1, <1>2, <1>3, <1>4, <1>5 DEF Announced

LEMMA StatisticsKeep ==
  ASSUME AlertInv, NEW f \in Feeds, HandleStatistics(f) PROVE AlertInv'
<1> DEFINE health == Head(outbox[f]).health
           fact == [Facts(f) EXCEPT !.health = health, !.state = "running", !.error = None]
<1>1. /\ Maps /\ FeedInv(f) /\ Shaped(f) /\ Announced(f) /\ SeenLate(f)
      /\ outbox[f] # <<>> /\ Head(outbox[f]).type = "statistics"
      /\ Learns(f, "statistics", fact) /\ seen' = [seen EXCEPT ![f] = SeenAfter(f, fact)]
  BY DEF AlertInv, FeedInv, HandleStatistics
<1>2. outbox[f] = <<Head(outbox[f])>> /\ polling[f] = "running" /\ Follows(f, health)
  BY <1>1, FirstNotification
<1>3. health \in Healths /\ health # None BY <1>2, AlertAssumption DEF Follows, Computed
<1>4. fact \in FeedFacts /\ fact.health = health /\ fact.state = "running"
  <2>1. Facts(f) \in FeedFacts BY <1>1, FactsFacts
  <2> HIDE DEF health
  <2>2. QED BY <1>3, <2>1 DEF FeedFacts
<1> HIDE DEF health, fact
<1>5. Continues(f, fact) BY <1>2, <1>3, <1>4 DEF Continues
<1>6. /\ UNCHANGED <<now, arrival, polling, policy>>
      /\ outbox'[f] = Tail(outbox[f]) /\ facts'[f] = fact
      /\ Entered(f, fact, memory'[f], told'[f])
  BY <1>1, LearnsStep
<1>7. DOMAIN seen = Feeds BY <1>1 DEF Maps, IsMap
<1>8. /\ seen'[f] = SeenAfter(f, fact) /\ \A g \in Feeds \ {f} : seen'[g] = seen[g]
      /\ IsMap(seen)'
  BY <1>1, <1>7 DEF IsMap
<1>9. seen'[f] \in Sightings
  BY <1>1, <1>4, <1>8, SeenFacts
<1>10. outbox'[f] = <<>>
  <2>1. \E message : outbox[f] = <<message>> BY <1>2
  <2>2. Tail(outbox[f]) = <<>> BY <2>1
  <2>3. QED BY <1>6, <2>2
<1>11. Announced(f)' BY <1>2, <1>4, <1>6, <1>10 DEF Announced
<1>12. SeenLate(f)'
  <2> SUFFICES ASSUME NEW t \in Times, seen'[f].problem = <<"late", t>>
               PROVE  /\ Known(f)' # None /\ Known(f)'.arrived = t /\ Known(f)'.late
                      /\ facts'[f].state = "running"
                      /\ seen'[f].polls > 0 => /\ memory'[f].pending = LateEpisode(t)
                                               /\ memory'[f].consecutive >= seen'[f].polls
                      /\ seen'[f].due /\ seen'[f].polls >= Confirm
                           => told'[f].times[<<"late", t>>] = 1
    BY DEF SeenLate
  <2>1. seen'[f].problem = ProblemOf(f, fact) BY <1>8 DEF SeenAfter
  <2>2. KindOf(fact) = "late"
    <3>1. <<"late", t>> \in Problems BY DEF Problems, Kinds
    <3>2. KindOf(fact) # None BY <1>1, <1>4, <2>1, <3>1, ProblemFacts, AlertAssumption
    <3>3. QED BY <1>1, <1>4, <2>1, <3>2, ProblemFacts
  <2>3. t = health.arrived
    <3>1. <<"late", t>> = <<"late", health.arrived>> BY <1>1, <1>4, <2>1, <2>2, ProblemFacts
    <3>2. QED BY <3>1
  <2>4. health.late BY <1>4, <2>2, KindFacts
  <2>5. Known(f)' = health BY <1>3, <1>4, <1>6, AlertAssumption DEF Known
  <2> DEFINE old == Entry(f, fact)
             episode == LateEpisode(t)
             before == IF seen[f].problem = <<"late", t>> THEN seen[f].polls ELSE 0
  <2>6. /\ "late" \notin policy => memory'[f] = old /\ told'[f] = told[f]
        /\ "late" \in policy =>
             /\ memory'[f].pending = episode /\ memory'[f].consecutive \in 1..Confirm
             /\ old.pending = episode =>
                  /\ old.consecutive < Confirm => memory'[f].consecutive = old.consecutive + 1
                  /\ old.consecutive >= Confirm => memory'[f].consecutive = old.consecutive
             /\ memory'[f].consecutive >= Confirm /\ Cool(told[f].last)
                  => memory'[f].notified = episode
    BY <1>1, <1>4, <1>6, <2>2, <2>3, EnteredLate
  <2>7. /\ seen'[f].polls = IF "late" \in policy /\ before < Confirm THEN before + 1 ELSE before
        /\ seen'[f].due => "late" \in policy /\ Cool(told[f].last)
    <3> DEFINE due == "late" \in policy /\ Cool(told[f].last)
               polls == IF "late" \in policy /\ before < Confirm THEN before + 1 ELSE before
    <3>1. ProblemOf(f, fact) = <<"late", t>> BY <2>1
    <3>2. SeenAfter(f, fact) = [problem |-> <<"late", t>>, polls |-> polls, due |-> due]
      BY <2>2, <3>1 DEF SeenAfter
    <3> HIDE DEF due, polls
    <3>3. seen'[f].polls = polls /\ seen'[f].due = due BY <1>8, <3>2
    <3>4. seen'[f].due => due BY <3>3
    <3>5. QED BY <3>3, <3>4 DEF due, polls
  <2>8. before > 0 => old.pending = episode /\ old.consecutive >= before
    <3>1. before > 0 => /\ Known(f) # None /\ memory[f].pending = episode
                        /\ memory[f].consecutive >= before
      <4>1. CASE seen[f].problem = <<"late", t>> BY <1>1, <4>1 DEF SeenLate
      <4>2. CASE seen[f].problem # <<"late", t>>
        <5>1. before = 0 BY <4>2
        <5> HIDE DEF before
        <5>2. QED BY <5>1
      <4>3. QED BY <4>1, <4>2
    <3>2. Known(f) # None => memory[f] # None BY <1>1 DEF Known, FeedInv, Remembered
    <3>3. QED BY <1>1, <3>1, <3>2, EntryFacts
  <2>9. /\ before \in 0..Confirm /\ Confirm \in Nat \ {0}
        /\ old.consecutive \in 0..Confirm
    BY <1>1, EntryFacts, AlertAssumption DEF Shaped, Sightings, FeedMemory
  <2> HIDE DEF old, before, episode
  <2>10. seen'[f].polls > 0 => /\ memory'[f].pending = episode
                               /\ memory'[f].consecutive >= seen'[f].polls
    <3>1. CASE "late" \in policy
      <4>1. CASE before = 0 BY <2>6, <2>7, <2>9, <3>1, <4>1
      <4>2. CASE before > 0 BY <2>6, <2>7, <2>8, <2>9, <3>1, <4>2
      <4>3. QED BY <2>9, <4>1, <4>2
    <3>2. CASE "late" \notin policy BY <2>6, <2>7, <2>8, <2>9, <3>2
    <3>3. QED BY <3>1, <3>2
  <2>11. ASSUME seen'[f].due, seen'[f].polls >= Confirm
         PROVE  told'[f].times[<<"late", t>>] = 1
    <3>1. memory'[f].consecutive >= Confirm
      BY <2>6, <2>7, <2>9, <2>10, <2>11
    <3>2. memory'[f].notified = LateEpisode(t) BY <2>6, <2>7, <2>11, <3>1 DEF episode
    <3>3. QED BY <1>1, <1>5, <1>6, <3>2, EnteredKeeps
  <2>12. QED BY <1>3, <1>4, <1>6, <2>3, <2>4, <2>5, <2>10, <2>11 DEF episode
<1>13. QED BY <1>1, <1>5, <1>8, <1>9, <1>11, <1>12, LearnsKeeps

LEMMA StatusKeeps ==
  ASSUME AlertInv, NEW f \in Feeds, HandleStatus(f) PROVE AlertInv'
<1> DEFINE status == Head(outbox[f]).status
           fact == [Facts(f) EXCEPT !.state = status, !.error = None,
                                    !.retryable = IF status = "error" THEN @ ELSE None]
<1>1. /\ Maps /\ FeedInv(f) /\ Shaped(f) /\ Announced(f) /\ SeenLate(f) /\ Remembered(f)
      /\ outbox[f] # <<>> /\ Head(outbox[f]).type = "status" /\ status # "stopped"
      /\ Learns(f, "status", fact) /\ seen' = seen
  BY DEF AlertInv, FeedInv, HandleStatus
<1>2. \/ /\ status = "running" /\ polling[f] = "running"
         /\ \/ Tail(outbox[f]) = <<>>
            \/ \E health \in Healths :
                 Tail(outbox[f]) = <<Statistics(health)>> /\ Follows(f, health)
      \/ /\ status = "error" /\ polling[f] = "error" /\ Tail(outbox[f]) = <<>>
         /\ seen[f].problem # None /\ seen[f].problem[1] = "error"
  BY <1>1, FirstNotification DEF Status
<1>3. fact \in FeedFacts /\ fact.health = Known(f) /\ fact.state = status
  <2>1. Facts(f) \in FeedFacts /\ Facts(f).health = Known(f) BY <1>1, FactsFacts
  <2>2. status \in {"running", "error"} BY <1>2
  <2>3. Facts(f).retryable \in BOOLEAN \cup {None} BY <2>1 DEF FeedFacts
  <2> HIDE DEF status
  <2>4. QED BY <2>1, <2>2, <2>3 DEF FeedFacts
<1> HIDE DEF status, fact
<1>4. Known(f) # None => Computed(f, Known(f)) /\ Known(f) \in Healths
  BY <1>1 DEF Remembered, Computed
<1>5. Continues(f, fact)
  <2>1. Known(f) # None => Known(f).arrived <= Known(f).arrived
    BY <1>4, AlertAssumption DEF Healths, Times
  <2>2. QED BY <1>3, <1>4, <2>1 DEF Continues, Follows
<1>6. /\ UNCHANGED <<now, arrival, polling, policy>>
      /\ outbox'[f] = Tail(outbox[f]) /\ facts'[f] = fact
      /\ Entered(f, fact, memory'[f], told'[f])
  BY <1>1, LearnsStep
<1>7. fact # None /\ Known(f)' = Known(f) BY <1>3, <1>6, AlertAssumption DEF Known
<1>8. \A health : Follows(f, health)' <=> Follows(f, health)
  BY <1>6, <1>7 DEF Follows, Computed
<1>9. Announced(f)'
  <2>1. CASE Tail(outbox[f]) = <<>> BY <1>2, <1>3, <1>6, <2>1 DEF Announced
  <2>2. CASE \E health \in Healths :
               Tail(outbox[f]) = <<Statistics(health)>> /\ Follows(f, health)
    BY <1>2, <1>6, <1>8, <2>2 DEF Announced
  <2>3. QED BY <1>2, <2>1, <2>2
<1>10. SeenLate(f)'
  <2> SUFFICES ASSUME NEW t \in Times, seen[f].problem = <<"late", t>>
               PROVE  /\ Known(f)' # None /\ Known(f)'.arrived = t /\ Known(f)'.late
                      /\ facts'[f].state = "running"
                      /\ seen[f].polls > 0 => /\ memory'[f].pending = LateEpisode(t)
                                              /\ memory'[f].consecutive >= seen[f].polls
                      /\ seen[f].due /\ seen[f].polls >= Confirm
                           => told'[f].times[<<"late", t>>] = 1
    BY <1>1 DEF SeenLate
  <2>1. status = "running"
    <3>1. <<"late", t>>[1] = "late" OBVIOUS
    <3>2. QED BY <1>2, <3>1
  <2>2. /\ Known(f) # None /\ Known(f).arrived = t /\ Known(f).late
        /\ seen[f].polls > 0 => /\ memory[f].pending = LateEpisode(t)
                                /\ memory[f].consecutive >= seen[f].polls
        /\ seen[f].due /\ seen[f].polls >= Confirm => told[f].times[<<"late", t>>] = 1
    BY <1>1 DEF SeenLate
  <2>3. KindOf(fact) = "late" /\ fact.health.arrived = t
    BY <1>3, <2>1, <2>2, KindFacts
  <2> DEFINE old == Entry(f, fact)
             episode == LateEpisode(t)
  <2>4. /\ "late" \notin policy => memory'[f] = old /\ told'[f] = told[f]
        /\ "late" \in policy =>
             /\ memory'[f].pending = episode /\ memory'[f].consecutive \in 1..Confirm
             /\ old.pending = episode =>
                  /\ old.consecutive < Confirm => memory'[f].consecutive = old.consecutive + 1
                  /\ old.consecutive >= Confirm => memory'[f].consecutive = old.consecutive
             /\ told'[f] = told[f] \/ memory'[f].notified = episode
    BY <1>1, <1>3, <1>6, <2>3, EnteredLate
  <2>5. memory[f] # None BY <1>1, <2>2 DEF Known, Remembered
  <2>6. old.pending = memory[f].pending /\ old.consecutive = memory[f].consecutive
    BY <1>1, <2>5, EntryFacts
  <2>7. seen[f].polls \in 0..Confirm /\ old.consecutive \in 0..Confirm /\ Confirm \in Nat
    BY <1>1, EntryFacts, AlertAssumption DEF Shaped, Sightings, FeedMemory
  <2> HIDE DEF old
  <2>8. seen[f].polls > 0 => /\ memory'[f].pending = LateEpisode(t)
                             /\ memory'[f].consecutive >= seen[f].polls
    BY <2>2, <2>4, <2>6, <2>7
  <2>9. memory'[f].notified = LateEpisode(t) => told'[f].times[<<"late", t>>] = 1
    BY <1>1, <1>5, <1>6, EnteredKeeps
  <2>10. QED BY <1>3, <1>6, <1>7, <2>1, <2>2, <2>4, <2>8, <2>9
<1>11. IsMap(seen)' BY <1>1 DEF Maps, IsMap
<1>12. QED BY <1>1, <1>5, <1>9, <1>10, <1>11, LearnsKeeps DEF Shaped

LEMMA ErrorKeeps ==
  ASSUME AlertInv, NEW f \in Feeds, HandleError(f) PROVE AlertInv'
<1> DEFINE reason == Head(outbox[f]).retryable
           fact == [Facts(f) EXCEPT !.state = "error", !.error = "failure", !.retryable = reason]
<1>1. /\ Maps /\ FeedInv(f) /\ Shaped(f) /\ Announced(f) /\ Remembered(f)
      /\ outbox[f] # <<>> /\ Head(outbox[f]).type = "error"
      /\ Learns(f, "error", fact) /\ seen' = [seen EXCEPT ![f] = SeenAfter(f, fact)]
  BY DEF AlertInv, FeedInv, HandleError
<1>2. reason \in BOOLEAN /\ polling[f] = "error" /\ Tail(outbox[f]) = <<Status("error")>>
  <2>1. PICK r \in BOOLEAN : /\ Head(outbox[f]) = Failure(r) /\ polling[f] = "error"
                             /\ Tail(outbox[f]) = <<Status("error")>>
    BY <1>1, FirstNotification
  <2>2. QED BY <2>1 DEF Failure
<1>3. fact \in FeedFacts /\ fact.health = Known(f) /\ fact.state = "error"
  <2>1. Facts(f) \in FeedFacts /\ Facts(f).health = Known(f) BY <1>1, FactsFacts
  <2> HIDE DEF reason
  <2>2. QED BY <1>2, <2>1 DEF FeedFacts
<1> HIDE DEF reason, fact
<1>4. Continues(f, fact)
  <2>1. Known(f) # None => Computed(f, Known(f)) /\ Known(f) \in Healths
    BY <1>1 DEF Remembered, Computed
  <2>2. Known(f) # None => Known(f).arrived <= Known(f).arrived
    BY <2>1, AlertAssumption DEF Healths, Times
  <2>3. QED BY <1>3, <2>1, <2>2 DEF Continues, Follows
<1>5. UNCHANGED polling /\ outbox'[f] = Tail(outbox[f]) BY <1>1, LearnsStep
<1>6. DOMAIN seen = Feeds BY <1>1 DEF Maps, IsMap
<1>7. /\ seen'[f] = SeenAfter(f, fact) /\ \A g \in Feeds \ {f} : seen'[g] = seen[g]
      /\ IsMap(seen)'
  BY <1>1, <1>6 DEF IsMap
<1>8. seen'[f] \in Sightings
  BY <1>1, <1>3, <1>7, SeenFacts
<1>9. seen'[f].problem # None /\ seen'[f].problem[1] = "error"
  <2>1. seen'[f].problem = ProblemOf(f, fact) BY <1>7 DEF SeenAfter
  <2>2. KindOf(fact) = "error" /\ "error" # None BY <1>3, KindFacts, AlertAssumption DEF Kinds
  <2>3. QED BY <1>1, <1>3, <2>1, <2>2, ProblemFacts
<1>10. Announced(f)' BY <1>2, <1>5, <1>9 DEF Announced
<1>11. SeenLate(f)'
  <2>1. \A t : <<"late", t>>[1] # "error" OBVIOUS
  <2>2. QED BY <1>9, <2>1 DEF SeenLate
<1>12. QED BY <1>1, <1>4, <1>7, <1>8, <1>10, <1>11, LearnsKeeps

\* A stopped feed is forgotten altogether.
LEMMA StoppedKeeps ==
  ASSUME AlertInv, NEW f \in Feeds, HandleStopped(f) PROVE AlertInv'
<1>1. /\ Maps /\ FeedInv(f) /\ Shaped(f) /\ Announced(f)
      /\ outbox[f] # <<>> /\ Head(outbox[f]) = Status("stopped")
      /\ outbox' = [outbox EXCEPT ![f] = Tail(@)]
      /\ facts' = [facts EXCEPT ![f] = None] /\ memory' = [memory EXCEPT ![f] = None]
      /\ seen' = [seen EXCEPT ![f] = Unseen] /\ told' = [told EXCEPT ![f] = Untold]
      /\ UNCHANGED <<now, arrival, polling, policy>>
  BY DEF AlertInv, FeedInv, HandleStopped, envVars
<1>2. polling[f] = "off" /\ Tail(outbox[f]) = <<>> BY <1>1, FirstNotification DEF Status
<1>3. /\ DOMAIN outbox = Feeds /\ DOMAIN facts = Feeds /\ DOMAIN memory = Feeds
      /\ DOMAIN seen = Feeds /\ DOMAIN told = Feeds
  BY <1>1 DEF Maps, IsMap
<1>4. /\ outbox'[f] = <<>> /\ facts'[f] = None /\ memory'[f] = None
      /\ seen'[f] = Unseen /\ told'[f] = Untold
  BY <1>1, <1>2, <1>3
<1>5. \A g \in Feeds \ {f} : Untouched(g) BY <1>1 DEF Untouched
<1>6. Maps' BY <1>1, <1>3 DEF Maps, IsMap
<1>7. Known(f)' = None BY <1>4 DEF Known
<1>8. Shaped(f)'
  <2>1. Unseen \in Sightings
    BY AlertAssumption DEF Unseen, Sightings
  <2>2. Untold \in [times : [Problems -> 0..2], last : Times \cup {None}] BY DEF Untold
  <2>3. QED BY <1>1, <1>4, <2>1, <2>2 DEF Shaped
<1>9. Announced(f)' BY <1>4 DEF Announced
<1>10. Remembered(f)' BY <1>4, <1>7 DEF Remembered
<1>11. ToldOfLateness(f)'
  <2>1. \A t \in Times : <<"late", t>> \in Problems BY DEF Problems, Kinds
  <2>2. told'[f].times = [p \in Problems |-> 0] BY <1>4 DEF Untold
  <2>3. ASSUME NEW t \in Times
        PROVE  /\ told'[f].times[<<"late", t>>] <= 1 /\ told'[f].times[<<"late", t>>] # 1
               /\ memory'[f] = None
    <3>1. told'[f].times[<<"late", t>>] = 0 BY <2>1, <2>2
    <3>2. QED BY <1>4, <3>1
  <2>4. QED BY <2>3 DEF ToldOfLateness
<1>12. SeenLate(f)'
  <2>1. \A t \in Times : <<"late", t>> \in Problems BY DEF Problems, Kinds
  <2>2. seen'[f].problem = None BY <1>4 DEF Unseen
  <2>3. QED BY <2>1, <2>2, AlertAssumption DEF SeenLate
<1>13. FeedInv(f)' BY <1>8, <1>9, <1>10, <1>11, <1>12 DEF FeedInv
<1>14. QED BY <1>5, <1>6, <1>13, OneFeed

-----------------------------------------------------------------------------
(* The feeds and the server *)

\* A step that leaves alone what the client knows, and the status of the feed or what
\* announces it
ClientWaits(f) ==
  /\ facts'[f] = facts[f] /\ memory'[f] = memory[f]
  /\ seen'[f] = seen[f] /\ told'[f] = told[f]

LEMMA EnvironmentKeeps ==
  ASSUME NEW f, FeedInv(f), Shaped(f)', ClientWaits(f), Announced(f)',
         Known(f) # None => Computed(f, Known(f))'
  PROVE  FeedInv(f)'
<1>1. Known(f)' = Known(f) BY DEF ClientWaits, Known
<1>2. Remembered(f)'
  BY <1>1 DEF FeedInv, Remembered, ClientWaits
<1>3. ToldOfLateness(f)' BY <1>1 DEF FeedInv, ToldOfLateness, ClientWaits
<1>4. SeenLate(f)' BY <1>1 DEF FeedInv, SeenLate, ClientWaits
<1>5. QED BY <1>2, <1>3, <1>4 DEF FeedInv

\* The clock and the arrivals go forward.
LEMMA ComputedStays ==
  ASSUME NEW f, NEW health, Shaped(f), Shaped(f)', Maps, Maps', Computed(f, health),
         now <= now', arrival[f].at <= arrival'[f].at
  PROVE  Computed(f, health)'
<1>1. /\ now \in Nat /\ now' \in Nat /\ LateAfter \in Nat
      /\ arrival[f].at \in Nat /\ arrival'[f].at \in Nat
  BY AlertAssumption DEF Maps, Shaped, Times
<1>2. /\ health \in Healths /\ health.arrived \in Nat /\ health.arrived <= arrival[f].at
      /\ health.late => now - health.arrived > LateAfter
  BY AlertAssumption DEF Computed, Healths, Times
<1>3. QED BY <1>1, <1>2 DEF Computed

LEMMA AnnouncedStays ==
  ASSUME NEW f, Announced(f), outbox'[f] = outbox[f], polling'[f] = polling[f], ClientWaits(f),
         \A health : Follows(f, health) => Follows(f, health)'
  PROVE  Announced(f)'
BY DEF Announced, ClientWaits

LEMMA TimePasses ==
  ASSUME AlertInv, Maps', now <= now', \A f \in Feeds : arrival[f].at <= arrival'[f].at,
         \A f \in Feeds : Shaped(f)', UNCHANGED <<polling, outbox, clientVars>>
  PROVE  AlertInv'
<1> SUFFICES ASSUME NEW f \in Feeds PROVE FeedInv(f)' BY DEF AlertInv
<1>1. /\ FeedInv(f) /\ Shaped(f) /\ Maps /\ Remembered(f) /\ Announced(f)
  BY DEF AlertInv, FeedInv
<1>2. ClientWaits(f) /\ Known(f)' = Known(f) BY DEF ClientWaits, clientVars, Known
<1>3. \A health : Computed(f, health) => Computed(f, health)'
  BY <1>1, ComputedStays DEF AlertInv
<1>4. \A health : Follows(f, health) => Follows(f, health)' BY <1>2, <1>3 DEF Follows
<1>5. Announced(f)' BY <1>1, <1>2, <1>4, AnnouncedStays
<1>6. QED BY <1>1, <1>2, <1>3, <1>5, EnvironmentKeeps DEF Remembered

LEMMA TickKeeps == AlertInv /\ Tick => AlertInv'
<1> SUFFICES ASSUME AlertInv, Tick PROVE AlertInv' OBVIOUS
<1>1. /\ now' = now + 1 /\ now < MaxTime
      /\ UNCHANGED <<arrival, polling, outbox, policy, clientVars>>
  BY DEF Tick
<1>2. Maps /\ now \in Nat /\ MaxTime \in Nat /\ now' \in Times /\ now <= now'
  BY <1>1, AlertAssumption DEF AlertInv, Maps, Times
<1>3. Maps' BY <1>1, <1>2 DEF Maps, IsMap, clientVars
<1>4. ASSUME NEW f \in Feeds PROVE Shaped(f)' /\ arrival[f].at <= arrival'[f].at
  <2>1. Shaped(f) /\ arrival[f].at \in Nat BY AlertAssumption DEF AlertInv, FeedInv, Shaped, Times
  <2>2. QED BY <1>1, <1>2, <2>1 DEF Shaped, clientVars
<1>5. QED BY <1>1, <1>2, <1>3, <1>4, TimePasses

LEMMA ArriveKeeps ==
  ASSUME AlertInv, NEW f \in Feeds, NEW size \in Sizes, Arrive(f, size) PROVE AlertInv'
<1>1. /\ arrival' = [arrival EXCEPT ![f] = [at |-> now, size |-> size]]
      /\ UNCHANGED <<now, polling, outbox, policy, clientVars>>
  BY DEF Arrive
<1>2. Maps /\ now \in Nat /\ now \in Times /\ now <= now' /\ DOMAIN arrival = Feeds
  BY <1>1, AlertAssumption DEF AlertInv, Maps, Times, IsMap
<1>3. Maps' BY <1>1, <1>2 DEF Maps, IsMap, clientVars
<1>4. ASSUME NEW g \in Feeds PROVE Shaped(g)' /\ arrival[g].at <= arrival'[g].at
  <2>1. Shaped(g) /\ arrival[g].at \in Nat /\ arrival[g].at <= now
    BY AlertAssumption DEF AlertInv, FeedInv, Shaped, Times
  <2>2. /\ g # f => arrival'[g] = arrival[g]
        /\ g = f => arrival'[g] = [at |-> now, size |-> size]
    BY <1>1, <1>2
  <2>3. /\ arrival'[g] \in [at : Times, size : Sizes] /\ arrival'[g].at <= now
        /\ arrival[g].at <= arrival'[g].at
    BY <1>2, <2>1, <2>2 DEF Shaped
  <2>4. QED BY <1>1, <2>1, <2>3 DEF Shaped, clientVars
<1>5. QED BY <1>1, <1>2, <1>3, <1>4, TimePasses

\* Messages that announce the status they come with keep the invariant.
LEMMA SendsKeep ==
  ASSUME AlertInv, NEW f \in Feeds, NEW status \in {"off", "running", "error"}, NEW messages,
         Sends(f, status, messages),
         outbox'[f] = messages /\ polling'[f] = status => Announced(f)'
  PROVE  AlertInv'
<1>1. /\ polling' = [polling EXCEPT ![f] = status] /\ outbox' = [outbox EXCEPT ![f] = messages]
      /\ UNCHANGED <<now, arrival, policy, clientVars>>
  BY DEF Sends
<1>2. Maps /\ FeedInv(f) /\ Shaped(f) /\ Remembered(f) BY DEF AlertInv, FeedInv
<1>3. DOMAIN outbox = Feeds /\ DOMAIN polling = Feeds BY <1>2 DEF Maps, IsMap
<1>4. polling'[f] = status /\ outbox'[f] = messages BY <1>1, <1>3
<1>5. \A g \in Feeds \ {f} : Untouched(g) BY <1>1 DEF Untouched, clientVars
<1>6. Maps' BY <1>1, <1>2, <1>3 DEF Maps, IsMap, clientVars
<1>7. ClientWaits(f) /\ Known(f)' = Known(f) BY <1>1 DEF ClientWaits, clientVars, Known
<1>8. Shaped(f)' BY <1>1, <1>2, <1>4 DEF Shaped, clientVars
<1>9. Known(f) # None => Computed(f, Known(f))'
  BY <1>1, <1>2, <1>7 DEF Remembered, Computed
<1>10. FeedInv(f)' BY <1>2, <1>4, <1>7, <1>8, <1>9, EnvironmentKeeps
<1>11. QED BY <1>5, <1>6, <1>10, OneFeed

LEMMA HealthFollows ==
  ASSUME AlertInv, NEW f \in Feeds
  PROVE  HealthNow(f) \in Healths /\ Follows(f, HealthNow(f))
<1>1. Maps /\ Shaped(f) /\ Remembered(f) BY DEF AlertInv, FeedInv
<1>2. /\ now \in Nat /\ now <= MaxTime /\ LateAfter \in Nat /\ MaxTime \in Nat
      /\ arrival[f].at \in Times /\ arrival[f].at \in Nat /\ arrival[f].at <= now
      /\ arrival[f].size \in Sizes
  BY <1>1, AlertAssumption DEF Maps, Shaped, Times
<1> DEFINE gap == now - arrival[f].at
           late == gap > LateAfter
<1>3. gap \in Times BY <1>2 DEF Times
<1>4. late \in BOOLEAN OBVIOUS
<1>5. HealthNow(f) = [late |-> late, arrived |-> arrival[f].at, gap |-> gap, size |-> arrival[f].size]
  BY DEF HealthNow
<1> HIDE DEF late
<1>6. /\ HealthNow(f) \in Healths /\ HealthNow(f).arrived = arrival[f].at
      /\ HealthNow(f).late = late
  BY <1>2, <1>3, <1>4, <1>5 DEF Healths
<1>7. Computed(f, HealthNow(f))
  <2>1. HealthNow(f).late => late BY <1>6
  <2>2. HealthNow(f).late => now - HealthNow(f).arrived > LateAfter BY <1>6, <2>1 DEF late
  <2>3. HealthNow(f).arrived <= arrival[f].at BY <1>2, <1>6
  <2>4. QED BY <1>6, <2>2, <2>3 DEF Computed
<1>8. ASSUME Known(f) # None
      PROVE  /\ Known(f).arrived <= HealthNow(f).arrived
             /\ Known(f).arrived = HealthNow(f).arrived /\ Known(f).late => HealthNow(f).late
  <2>1. Computed(f, Known(f)) BY <1>1, <1>8 DEF Remembered
  <2>2. QED BY <1>6, <2>1 DEF Computed, late
<1>9. QED BY <1>6, <1>7, <1>8 DEF Follows

LEMMA ServerKeeps ==
  ASSUME AlertInv, NEW f \in Feeds,
         \/ WatchStarts(f) \/ WatchStops(f) \/ PollOk(f)
         \/ \E retryable \in BOOLEAN : PollFails(f, retryable)
  PROVE  AlertInv'
<1>1. CASE WatchStarts(f)
  <2>1. Sends(f, "running", <<Status("running")>>) BY <1>1 DEF WatchStarts
  <2>2. outbox'[f] = <<Status("running")>> /\ polling'[f] = "running" => Announced(f)'
    BY DEF Announced
  <2>3. QED BY <2>1, <2>2, SendsKeep
<1>2. CASE WatchStops(f)
  <2>1. Sends(f, "off", <<Status("stopped")>>) BY <1>2 DEF WatchStops
  <2>2. outbox'[f] = <<Status("stopped")>> /\ polling'[f] = "off" => Announced(f)'
    BY DEF Announced
  <2>3. QED BY <2>1, <2>2, SendsKeep
<1>3. CASE PollOk(f)
  <2> DEFINE health == HealthNow(f)
             messages == IF polling[f] = "error" THEN <<Status("running"), Statistics(health)>>
                                                 ELSE <<Statistics(health)>>
  <2>1. Sends(f, "running", messages) BY <1>3 DEF PollOk, Statistics
  <2>2. health \in Healths /\ Follows(f, health) BY HealthFollows
  <2>3. Follows(f, health)' <=> Follows(f, health)
    <3>1. UNCHANGED <<now, arrival, facts>> BY <2>1 DEF Sends, clientVars
    <3>2. Known(f)' = Known(f) /\ health' = health BY <3>1 DEF Known, HealthNow
    <3> HIDE DEF health
    <3>3. QED BY <3>1, <3>2 DEF Follows, Computed
  <2>4. health' = health BY <2>1 DEF Sends, HealthNow
  <2>5. messages \in {<<Statistics(health)>>, <<Status("running"), Statistics(health)>>}
    OBVIOUS
  <2> HIDE DEF health, messages
  <2>6. outbox'[f] = messages /\ polling'[f] = "running" => Announced(f)'
    BY <2>2, <2>3, <2>4, <2>5 DEF Announced
  <2>7. QED BY <2>1, <2>6, SendsKeep
<1>4. CASE \E retryable \in BOOLEAN : PollFails(f, retryable)
  <2>1. PICK retryable \in BOOLEAN : PollFails(f, retryable) BY <1>4
  <2>2. Sends(f, "error", <<Failure(retryable), Status("error")>>)
    BY <2>1 DEF PollFails, Failure
  <2>3. outbox'[f] = <<Failure(retryable), Status("error")>> /\ polling'[f] = "error"
          => Announced(f)'
    BY DEF Announced
  <2>4. QED BY <2>2, <2>3, SendsKeep
<1>5. QED BY <1>1, <1>2, <1>3, <1>4

LEMMA RestartKeeps == AlertInv /\ ServerRestarts => AlertInv'
<1> SUFFICES ASSUME AlertInv, ServerRestarts PROVE AlertInv' OBVIOUS
<1>1. /\ polling' = [f \in Feeds |-> IF polling[f] = "off" THEN "off" ELSE "running"]
      /\ outbox' = [f \in Feeds |-> IF polling[f] = "off" THEN outbox[f] ELSE <<Status("running")>>]
      /\ UNCHANGED <<now, arrival, policy, facts, memory, seen, told>>
  BY DEF ServerRestarts, clientVars
<1>2. Maps /\ Maps' BY <1>1 DEF AlertInv, Maps, IsMap
<1>3. ASSUME NEW f \in Feeds PROVE FeedInv(f)'
  <2>1. FeedInv(f) /\ Shaped(f) BY DEF AlertInv, FeedInv
  <2>2. CASE polling[f] = "off"
    <3>1. Untouched(f) BY <1>1, <2>2 DEF Untouched
    <3>2. QED BY <2>1, <3>1, Frame
  <2>3. CASE polling[f] # "off"
    <3>1. polling'[f] = "running" /\ outbox'[f] = <<Status("running")>> BY <1>1, <2>3
    <3>2. Announced(f)' BY <3>1 DEF Announced
    <3>3. ClientWaits(f) /\ Known(f)' = Known(f) BY <1>1 DEF ClientWaits, Known
    <3>4. Shaped(f)' BY <1>1, <2>1, <3>1 DEF Shaped
    <3>5. Known(f) # None => Computed(f, Known(f))'
      BY <1>1, <2>1, <3>3 DEF FeedInv, Remembered, Computed
    <3>6. QED BY <2>1, <3>2, <3>3, <3>4, <3>5, EnvironmentKeeps
  <2>4. QED BY <2>2, <2>3
<1>4. QED BY <1>2, <1>3 DEF AlertInv

LEMMA PolicyKeeps ==
  ASSUME AlertInv, \/ \E enabled \in Policies : SetPolicy(enabled)
                   \/ UNCHANGED vars
  PROVE  AlertInv'
<1>1. /\ UNCHANGED <<now, arrival, polling, outbox, facts, memory, seen, told>>
      /\ policy' \in Policies
  BY DEF AlertInv, Maps, SetPolicy, envVars, clientVars, vars
<1>2. Maps' BY <1>1 DEF AlertInv, Maps, IsMap
<1>3. \A f \in Feeds : FeedInv(f)' BY <1>1, Frame DEF AlertInv, Untouched
<1>4. QED BY <1>2, <1>3 DEF AlertInv

LEMMA InitIsSound == Init => AlertInv
<1> SUFFICES ASSUME Init PROVE AlertInv OBVIOUS
<1> USE AlertAssumption
<1>1. Maps
  <2>1. now \in Times BY DEF Init, Times
  <2>2. QED BY <2>1 DEF Init, Maps, IsMap
<1> SUFFICES ASSUME NEW f \in Feeds PROVE FeedInv(f) BY <1>1 DEF AlertInv
<1>2. /\ arrival[f] \in [at : {0}, size : Sizes] /\ polling[f] = "off" /\ outbox[f] = <<>>
      /\ facts[f] = None /\ memory[f] = None /\ seen[f] = Unseen /\ told[f] = Untold /\ now = 0
  BY DEF Init
<1>3. Known(f) = None BY <1>2 DEF Known
<1>4. Shaped(f)
  <2>1. Unseen \in Sightings
    BY DEF Unseen, Sightings
  <2>2. Untold \in [times : [Problems -> 0..2], last : Times \cup {None}] BY DEF Untold
  <2>3. arrival[f] \in [at : Times, size : Sizes] /\ arrival[f].at <= now BY <1>2 DEF Times
  <2>4. QED BY <1>2, <2>1, <2>2, <2>3 DEF Shaped
<1>5. Announced(f) /\ Remembered(f) BY <1>2, <1>3 DEF Announced, Remembered
<1>6. \A t \in Times : <<"late", t>> \in Problems BY DEF Problems, Kinds
<1>7. ToldOfLateness(f)
  <2>1. told[f].times = [p \in Problems |-> 0] BY <1>2 DEF Untold
  <2>2. ASSUME NEW t \in Times
        PROVE  /\ told[f].times[<<"late", t>>] <= 1 /\ told[f].times[<<"late", t>>] # 1
               /\ memory[f] = None
    <3>1. told[f].times[<<"late", t>>] = 0 BY <1>6, <2>1
    <3>2. QED BY <1>2, <3>1
  <2>3. QED BY <2>2 DEF ToldOfLateness
<1>8. SeenLate(f)
  <2>1. seen[f].problem = None BY <1>2 DEF Unseen
  <2>2. QED BY <1>6, <2>1 DEF SeenLate
<1>9. QED BY <1>4, <1>5, <1>7, <1>8 DEF FeedInv

LEMMA AlertInvariant == Spec => []AlertInv
<1>1. AlertInv /\ [Next]_vars => AlertInv'
  <2> SUFFICES ASSUME AlertInv, [Next]_vars PROVE AlertInv' OBVIOUS
  <2>1. CASE Tick \/ ServerRestarts BY <2>1, TickKeeps, RestartKeeps
  <2>2. ASSUME NEW f \in Feeds, NEW size \in Sizes, Arrive(f, size) PROVE AlertInv'
    BY <2>2, ArriveKeeps
  <2>3. ASSUME NEW f \in Feeds,
               \/ WatchStarts(f) \/ WatchStops(f) \/ PollOk(f)
               \/ \E retryable \in BOOLEAN : PollFails(f, retryable)
        PROVE  AlertInv'
    BY <2>3, ServerKeeps
  <2>4. ASSUME NEW f \in Feeds, HandleStatistics(f) \/ HandleStatus(f) PROVE AlertInv'
    BY <2>4, StatisticsKeep, StatusKeeps
  <2>5. ASSUME NEW f \in Feeds, HandleError(f) \/ HandleStopped(f) PROVE AlertInv'
    BY <2>5, ErrorKeeps, StoppedKeeps
  <2>6. CASE (\E enabled \in Policies : SetPolicy(enabled)) \/ UNCHANGED vars
    BY <2>6, PolicyKeeps
  <2>7. QED BY <2>1, <2>2, <2>3, <2>4, <2>5, <2>6 DEF Next
<1>2. QED BY <1>1, InitIsSound, PTL DEF Spec

-----------------------------------------------------------------------------
(* The theorems *)

\* A feed that is late is alerted on once, whatever restarts, stale observations and
\* changes of the settings come in between (notifiedEpisode and lateSince).
THEOREM LateFeedAlertsOnce == Spec => []LateAlertsOnce
<1>1. AlertInv => LateAlertsOnce BY DEF AlertInv, FeedInv, ToldOfLateness, LateAlertsOnce
<1>2. QED BY <1>1, AlertInvariant, PTL

\* A lateness that enough polls in a row have shown, the last of them outside the cooldown,
\* has been told (consecutive and pendingEpisode of observe).
THEOREM LateFeedIsTold == Spec => []LateIsTold
<1>1. AlertInv => LateIsTold
  <2> SUFFICES ASSUME AlertInv, NEW f \in Feeds, seen[f].due, seen[f].polls >= Confirm,
                      seen[f].problem[1] = "late"
               PROVE  told[f].times[seen[f].problem] >= 1
    BY DEF LateIsTold, IsTold
  <2>1. FeedInv(f) /\ Shaped(f) /\ SeenLate(f) /\ Remembered(f) BY DEF AlertInv, FeedInv
  <2>2. seen[f].polls > 0
    <3>1. seen[f].polls \in Nat /\ Confirm \in Nat \ {0} BY <2>1, AlertAssumption DEF Shaped, Sightings
    <3>2. QED BY <3>1
  <2>3. seen[f].problem \in Problems \cup {None} BY <2>1 DEF Shaped, Sightings
  <2>4. CASE seen[f].problem \in Problems
    <3>1. PICK t \in Times : seen[f].problem = <<"late", t>> BY <2>4 DEF Problems
    <3>2. QED BY <2>1, <3>1 DEF SeenLate
  <2>5. seen[f].problem # None BY <2>1 DEF Shaped, Sightings
  <2>6. QED BY <2>3, <2>4, <2>5
<1>2. QED BY <1>1, AlertInvariant, PTL

\* Once its notifications are handled, the roll-up has a feed as the server has it, and a
\* stopped feed has left it (#feeds of the controller, #memory of the engine).
THEOREM RollUpFollowsServer == Spec => []RollUpIsCurrent
<1>1. AlertInv => RollUpIsCurrent
  <2> SUFFICES ASSUME AlertInv, NEW f \in Feeds
               PROVE  /\ facts[f] = None <=> memory[f] = None
                      /\ outbox[f] = <<>> /\ polling[f] = "off" => facts[f] = None
                      /\ outbox[f] = <<>> /\ facts[f] # None
                           => /\ facts[f].state = polling[f]
                              /\ memory[f].severity = SeverityOf(facts[f])
    BY DEF RollUpIsCurrent
  <2>1. Shaped(f) /\ Announced(f) /\ Remembered(f) BY DEF AlertInv, FeedInv
  <2>2. ASSUME outbox[f] = <<>>, facts[f] # None PROVE facts[f].state = polling[f]
    <3>1. \A a, b : outbox[f] # <<a>> /\ outbox[f] # <<a, b>> BY <2>2
    <3>2. QED BY <2>1, <2>2, <3>1 DEF Announced
  <2>3. facts[f] # None => facts[f].state \in {"running", "error"}
    BY <2>1 DEF Shaped, FeedFacts
  <2>4. QED BY <2>1, <2>2, <2>3 DEF Remembered
<1>2. QED BY <1>1, AlertInvariant, PTL

=============================================================================
