--------------------------- MODULE Polling_proofs ---------------------------
(* Machine-checked proofs about Polling, for any keys, prefixes, page size, *)
(* capacity and any course of the bucket.                                   *)
EXTENDS Polling, History_proofs

\* The state is well formed, and no observation is later than the last write of its
\* key or than the clock.
PollShape ==
  /\ now \in 1..MaxTime
  /\ bucket \in [Keys -> 0..now]
  /\ targets \in Seq(DOMAIN Under)
  /\ cursor \in Nat
  /\ newest \subseteq Observations /\ IsFiniteSet(newest)
  /\ listing \in Seq(Observations)
  /\ pc = "list" => targets # <<>>
  /\ pc = "reconcile" => newest = {}

-----------------------------------------------------------------------------
(* A page of a listing *)

Left == {k \in Under[Head(targets)] : k > cursor /\ bucket[k] > 0}
PageKeys == First(PageSize, Left, <)
Page == {Object(k) : k \in PageKeys}
KeptOfPage == RetainNewest(newest, Page)

LEMMA PageStep ==
  ASSUME ReadPage
  PROVE  /\ pc = "list"
         /\ pages' = Overlay([k \in PageKeys |-> Object(k)], pages)
         /\ \/ /\ Left \ PageKeys # {}
               /\ cursor' = Max(PageKeys) /\ newest' = KeptOfPage
               /\ UNCHANGED <<targets, listing, pc>>
            \/ /\ listing' = listing \o Ordered(KeptOfPage, NewestFirst)
               /\ targets' = Tail(targets) /\ cursor' = 0 /\ newest' = {}
               /\ pc' = IF targets' = <<>> THEN "reconcile" ELSE "list"
         /\ UNCHANGED <<envVars, keptVars, event, linkVars>>
BY DEF ReadPage, Left, PageKeys, Page, KeptOfPage

\* A page holds the first keys behind the cursor, and at least one if there is any.
LEMMA PageFacts ==
  ASSUME PollShape, targets # <<>>
  PROVE  /\ PageKeys \subseteq Left /\ Left \subseteq Keys
         /\ IsFiniteSet(PageKeys)
         /\ \A k \in Left : k \in Nat /\ k > cursor /\ bucket[k] > 0
         /\ Left # {} => Max(PageKeys) \in PageKeys /\ \A k \in PageKeys : k <= Max(PageKeys)
<1> USE PollingAssumption
<1>1. Head(targets) \in DOMAIN Under BY DEF PollShape
<1>2. Left \subseteq Keys BY <1>1 DEF Left
<1>3. Left \in SUBSET Nat /\ IsFiniteSet(Left) BY <1>2, FS_Subset
<1>4. PageKeys = {k \in Left : Cardinality({j \in Left : j < k}) < PageSize}
  BY DEF PageKeys, First
<1>5. PageKeys \in SUBSET Left BY <1>4
<1>6. IsFiniteSet(PageKeys) /\ PageKeys \in SUBSET Nat BY <1>3, <1>5, FS_Subset
<1>7. ASSUME Left # {} PROVE PageKeys # {}
  <2>1. PICK k \in Left : Cardinality({j \in Left : j < k}) = 0
    BY <1>3, <1>7, SomeNumberIsFirst
  <2>2. QED BY <1>4, <2>1
<1>8. \A k \in Left : k \in Nat /\ k > cursor /\ bucket[k] > 0 BY <1>3 DEF Left
<1>9. QED BY <1>2, <1>5, <1>6, <1>7, <1>8, GreatestNumber

LEMMA KeptFacts ==
  ASSUME PollShape, targets # <<>>
  PROVE  /\ KeptOfPage = {o \in newest \cup Page : Cardinality(Newer(newest \cup Page, o)) < Capacity}
         /\ KeptOfPage \subseteq Observations /\ IsFiniteSet(KeptOfPage)
         /\ Page \subseteq Observations /\ IsFiniteSet(newest \cup Page)
<1> DEFINE f == [k \in PageKeys |-> Object(k)]
<1>1. f \in Surjection(PageKeys, Page) BY DEF Surjection, Page
<1>2. IsFiniteSet(Page) BY <1>1, PageFacts, FS_Surjection
<1>3. IsFiniteSet(newest \cup Page) BY <1>2, FS_Union DEF PollShape
<1>4. KeptOfPage = {o \in newest \cup Page : Cardinality(Newer(newest \cup Page, o)) < Capacity}
  BY FirstByRank DEF KeptOfPage, RetainNewest
<1>5. Page \subseteq Observations
  <2> SUFFICES ASSUME NEW k \in PageKeys PROVE Object(k) \in Observations BY DEF Page
  <2>1. k \in Keys /\ k \in Nat BY PageFacts
  <2>2. bucket[k] \in Nat BY <2>1 DEF PollShape
  <2>3. QED BY <2>1, <2>2 DEF Object, Observations
<1>6. KeptOfPage \in SUBSET (newest \cup Page) BY <1>4
<1>7. IsFiniteSet(KeptOfPage) BY <1>3, <1>6, FS_Subset
<1>8. QED BY <1>3, <1>4, <1>5, <1>6, <1>7 DEF PollShape

\* Sorting what was kept makes a listing of it.
LEMMA KeptAsListing ==
  ASSUME PollShape, targets # <<>>, Keyed(KeptOfPage)
  PROVE  /\ Ordered(KeptOfPage, NewestFirst) \in Seq(KeptOfPage)
         /\ Ordered(KeptOfPage, NewestFirst) \in Seq(Observations)
         /\ listing \o Ordered(KeptOfPage, NewestFirst) \in Seq(Observations)
<1>1. Ordered(KeptOfPage, NewestFirst) \in Seq(KeptOfPage) BY KeptFacts, OrderedKeeps
<1>2. Ordered(KeptOfPage, NewestFirst) \in Seq(Observations) BY <1>1, KeptFacts
<1>3. QED BY <1>1, <1>2 DEF PollShape

-----------------------------------------------------------------------------
(* What a poll has observed, and what it still holds of it *)

NotLate(f) ==
  /\ IsStore(f) /\ DOMAIN f \subseteq Keys
  /\ \A k \in DOMAIN f : f[k].at <= now /\ (bucket[k] > 0 => f[k].at <= bucket[k])

Times ==
  /\ NotLate(pages) /\ NotLate(seen)
  /\ \A k \in DOMAIN pages \cap DOMAIN seen : seen[k].at <= pages[k].at

\* o was observed in this poll, not later than the last observation of its key.
Observed(o) == o.key \in DOMAIN pages /\ o.at <= pages[o.key].at

\* In the listing in progress keys are in order and listed once.
Collected ==
  /\ Keyed(newest)
  /\ \A o \in newest : Observed(o) /\ o.key <= cursor
  /\ \A i \in 1..Len(listing) : Observed(listing[i])

\* The last observation of k will be what the history is told of it.
IsLastOf(k, seq, o) ==
  \E i \in 1..Len(seq) : /\ seq[i] = o
                         /\ \A j \in 1..Len(seq) : j > i => seq[j].key # k

Delivered(k) ==
  \/ pages[k] \in newest
  \/ (\A o \in newest : o.key # k) /\ IsLastOf(k, listing, pages[k])

\* Only what has Capacity newer observations may be dropped.
NewestDelivered ==
  \A k \in DOMAIN pages :
    Cardinality(Newer(Objects(pages), pages[k])) < Capacity => Delivered(k)

PollInv == PollShape /\ Times /\ Collected /\ NewestDelivered

LEMMA PageKeyed ==
  ASSUME PollShape, Collected, targets # <<>>
  PROVE  Keyed(newest \cup Page) /\ Keyed(KeptOfPage)
<1>1. \A o \in Page : o.key \in PageKeys /\ o = Object(o.key) BY DEF Page, Object
<1>2. \A o \in newest \cup Page : o.key \in Nat /\ o.at \in Nat
  BY KeptFacts DEF PollShape, Observations
<1>3. \A o \in newest, p \in Page : o.key # p.key
  <2> TAKE o \in newest, p \in Page
  <2>1. o.key <= cursor /\ o.key \in Nat /\ cursor \in Nat
    BY <1>2 DEF Collected, PollShape
  <2>2. p.key > cursor /\ p.key \in Nat BY <1>1, PageFacts
  <2>3. QED BY <2>1, <2>2
<1>4. \A o, p \in newest : o.key = p.key => o = p BY DEF Collected, Keyed
<1>5. Keyed(newest \cup Page) BY <1>1, <1>2, <1>3, <1>4 DEF Keyed
<1>6. QED BY <1>5, KeptFacts DEF Keyed

\* Reading a page observes its keys at the time they were last written, which is not
\* before any observation of them.
LEMMA PageObserved ==
  ASSUME PollShape, Times, Collected, ReadPage
  PROVE  /\ NotLate(pages)'
         /\ \A k \in PageKeys : k \in DOMAIN pages' /\ pages'[k] = Object(k)
         /\ \A k \in DOMAIN pages' \ PageKeys : k \in DOMAIN pages /\ pages'[k] = pages[k]
         /\ \A k \in DOMAIN pages : k \in DOMAIN pages' /\ pages[k].at <= pages'[k].at
         /\ \A k \in DOMAIN pages' \cap DOMAIN seen : seen[k].at <= pages'[k].at
         /\ \A o : Observed(o) /\ o.at \in Nat => Observed(o)'
         /\ \A o \in newest \cup Page : Observed(o)'
<1> DEFINE f == [k \in PageKeys |-> Object(k)]
<1>1. /\ targets # <<>> /\ pages' = Overlay(f, pages)
      /\ UNCHANGED <<now, bucket, seen>>
  BY PageStep DEF PollShape, envVars, keptVars
<1>2. \A k \in PageKeys : /\ k \in Keys /\ k \in Nat /\ bucket[k] > 0
                          /\ bucket[k] \in Nat /\ bucket[k] <= now
  BY <1>1, PageFacts DEF PollShape
<1>3. IsStore(f) BY <1>1, <1>2, PageFacts DEF IsStore, Object
<1>4. DOMAIN f = PageKeys /\ \A k \in PageKeys : f[k] = Object(k) /\ f[k].at = bucket[k]
  BY DEF Object
<1> HIDE DEF f
<1>5. IsStore(pages') BY <1>1, <1>3, OverlayIsStore DEF Times, NotLate
<1>6. /\ DOMAIN pages' = PageKeys \cup DOMAIN pages
      /\ \A k \in PageKeys : pages'[k] = Object(k) /\ pages'[k].at = bucket[k]
      /\ \A k \in DOMAIN pages \ PageKeys : pages'[k] = pages[k]
  BY <1>1, <1>4 DEF Overlay
<1>7. NotLate(pages)'
  <2>1. \A k \in DOMAIN pages' : pages'[k].at <= now /\ (bucket[k] > 0 => pages'[k].at <= bucket[k])
    BY <1>2, <1>6 DEF Times, NotLate
  <2>2. DOMAIN pages' \subseteq Keys BY <1>2, <1>6 DEF Times, NotLate
  <2>3. QED BY <1>1, <1>5, <2>1, <2>2 DEF NotLate
<1>8. \A k \in DOMAIN pages : k \in DOMAIN pages' /\ pages[k].at <= pages'[k].at
  <2> TAKE k \in DOMAIN pages
  <2>1. pages[k].at \in Nat BY DEF Times, NotLate, IsStore
  <2>2. k \in PageKeys => pages[k].at <= pages'[k].at
    BY <1>2, <1>6 DEF Times, NotLate
  <2>3. QED BY <1>6, <2>1, <2>2
<1>9. \A k \in DOMAIN pages' \cap DOMAIN seen : seen[k].at <= pages'[k].at
  BY <1>2, <1>6 DEF Times, NotLate
<1>10. ASSUME NEW o, Observed(o), o.at \in Nat PROVE Observed(o)'
  <2>1. pages[o.key].at \in Nat /\ pages'[o.key].at \in Nat
    BY <1>5, <1>8, <1>10 DEF Observed, Times, NotLate, IsStore
  <2>2. QED BY <1>8, <1>10, <2>1 DEF Observed
<1>11. ASSUME NEW o \in newest \cup Page PROVE Observed(o)'
  <2>1. CASE o \in newest
    BY <1>10, <2>1 DEF Collected, PollShape, Observations
  <2>2. CASE o \in Page
    <3>1. PICK k \in PageKeys : o = Object(k) BY <2>2 DEF Page
    <3>2. o.key = k /\ o.at = bucket[k] BY <3>1 DEF Object
    <3>3. QED BY <1>2, <1>6, <3>2 DEF Observed
  <2>3. QED BY <2>1, <2>2
<1>12. QED BY <1>6, <1>7, <1>8, <1>9, <1>10, <1>11

\* The newest of everything observed survive the cut at Capacity after each page.
LEMMA KeptHasNewest ==
  ASSUME PollInv, ReadPage, NEW k \in DOMAIN pages',
         Cardinality(Newer(Objects(pages'), pages'[k])) < Capacity
  PROVE  \/ pages'[k] \in KeptOfPage
         \/ (\A o \in KeptOfPage : o.key # k) /\ IsLastOf(k, listing, pages'[k])
<1> DEFINE U == newest \cup Page
           o == pages'[k]
<1> USE HistoryAssumption
<1>1. PollShape /\ Times /\ Collected /\ NewestDelivered /\ targets # <<>>
  BY PageStep DEF PollInv, PollShape
<1>2. IsStore(pages') /\ IsStore(pages) BY <1>1, PageObserved DEF NotLate, Times
<1>3. Keyed(U) BY <1>1, PageKeyed
<1>4. o.key = k /\ o.at \in Nat BY <1>2 DEF IsStore
<1>5. ASSUME NEW A, Keyed(A),
             \A p \in A : p.key \in DOMAIN pages' /\ p.at <= pages'[p.key].at
      PROVE  Cardinality(Newer(A, o)) < Capacity
  <2>1. \A p \in A : NewestFirst(p, o) => NewestFirst(pages'[p.key], o)
    <3> SUFFICES ASSUME NEW p \in A, NewestFirst(p, o) PROVE NewestFirst(pages'[p.key], o)
      OBVIOUS
    <3> DEFINE q == pages'[p.key]
    <3>1. /\ q.key = p.key /\ p.at <= q.at /\ p.at \in Nat /\ q.at \in Nat /\ o.at \in Nat
          /\ p.key \in Nat /\ o.key \in Nat
      BY <1>2, <1>4, <1>5 DEF IsStore, Keyed
    <3> HIDE DEF q, o
    <3>2. NewestFirst(q, o) BY <3>1 DEF NewestFirst
    <3>3. QED BY <3>2 DEF q
  <2> HIDE DEF o
  <2>2. /\ IsFiniteSet(Newer(A, o))
        /\ Cardinality(Newer(A, o)) <= Cardinality(Newer(Objects(pages'), o))
    BY <1>2, <1>5, <2>1, NewerGrows
  <2>3. IsFiniteSet(Newer(Objects(pages'), o))
    BY <1>2, StoreObjects, FS_Subset DEF Newer
  <2>4. Cardinality(Newer(Objects(pages'), o)) < Capacity BY DEF o
  <2>5. /\ Cardinality(Newer(A, o)) \in Nat
        /\ Cardinality(Newer(Objects(pages'), o)) \in Nat
    BY <2>2, <2>3, FS_CardinalityType
  <2>6. QED BY <2>2, <2>4, <2>5
<1>6. Cardinality(Newer(U, o)) < Capacity
  BY <1>1, <1>3, <1>5, PageObserved DEF Observed
<1>7. o \in U => o \in KeptOfPage BY <1>1, <1>6, KeptFacts
<1>8. CASE k \in PageKeys
  <2>1. o \in Page BY <1>1, <1>8, PageObserved DEF Page
  <2>2. QED BY <1>7, <2>1
<1>9. CASE k \notin PageKeys
  <2>1. k \in DOMAIN pages /\ o = pages[k] BY <1>1, <1>9, PageObserved
  <2>2. Keyed(Objects(pages)) BY <1>2, StoreObjects
  <2>3. \A p \in Objects(pages) : p.key \in DOMAIN pages' /\ p.at <= pages'[p.key].at
    BY <1>1, <1>2, PageObserved DEF Objects, IsStore
  <2>4. Cardinality(Newer(Objects(pages), o)) < Capacity BY <1>5, <2>2, <2>3
  <2>5. Delivered(k) BY <1>1, <2>1, <2>4 DEF NewestDelivered
  <2>6. CASE o \in newest BY <1>7, <2>6
  <2>7. CASE (\A p \in newest : p.key # k) /\ IsLastOf(k, listing, o)
    <3>1. \A p \in Page : p.key # k BY <1>9 DEF Page, Object
    <3>2. \A p \in KeptOfPage : p.key # k BY <1>1, <2>7, <3>1, KeptFacts
    <3>3. QED BY <2>7, <3>2
  <2>8. QED BY <2>1, <2>5, <2>6, <2>7 DEF Delivered
<1>10. QED BY <1>8, <1>9

LEMMA LastOfConcatenation ==
  ASSUME NEW s \in Seq(Observations), NEW t \in Seq(Observations), NEW k, NEW o
  PROVE  /\ IsLastOf(k, s, o) /\ (\A i \in 1..Len(t) : t[i].key # k) => IsLastOf(k, s \o t, o)
         /\ IsLastOf(k, t, o) => IsLastOf(k, s \o t, o)
<1>1. /\ Len(s) \in Nat /\ Len(t) \in Nat /\ Len(s \o t) = Len(s) + Len(t)
      /\ \A i \in 1..Len(s) : (s \o t)[i] = s[i]
      /\ \A i \in 1..Len(t) : (s \o t)[Len(s) + i] = t[i]
      /\ \A j \in 1..(Len(s) + Len(t)) :
           j > Len(s) => j - Len(s) \in 1..Len(t) /\ (s \o t)[j] = t[j - Len(s)]
  OBVIOUS
<1> DEFINE u == s \o t
<1> HIDE DEF u
<1>2. ASSUME IsLastOf(k, s, o), \A i \in 1..Len(t) : t[i].key # k
      PROVE  IsLastOf(k, u, o)
  <2>1. PICK i \in 1..Len(s) : s[i] = o /\ \A j \in 1..Len(s) : j > i => s[j].key # k
    BY <1>2 DEF IsLastOf
  <2>2. i \in 1..Len(u) /\ u[i] = o BY <1>1, <2>1 DEF u
  <2>3. ASSUME NEW j \in 1..Len(u), j > i PROVE u[j].key # k
    <3>1. CASE j <= Len(s) BY <1>1, <2>1, <2>3, <3>1 DEF u
    <3>2. CASE j > Len(s) BY <1>1, <1>2, <3>2 DEF u
    <3>3. QED BY <1>1, <3>1, <3>2 DEF u
  <2>4. QED BY <2>2, <2>3 DEF IsLastOf
<1>3. ASSUME IsLastOf(k, t, o) PROVE IsLastOf(k, u, o)
  <2>1. PICK i \in 1..Len(t) : t[i] = o /\ \A j \in 1..Len(t) : j > i => t[j].key # k
    BY <1>3 DEF IsLastOf
  <2>2. Len(s) + i \in 1..Len(u) /\ u[Len(s) + i] = o BY <1>1, <2>1 DEF u
  <2>3. ASSUME NEW j \in 1..Len(u), j > Len(s) + i PROVE u[j].key # k
    <3>1. j > Len(s) /\ j - Len(s) > i /\ j \in 1..(Len(s) + Len(t)) BY <1>1, <2>1, <2>3 DEF u
    <3>2. j - Len(s) \in 1..Len(t) /\ u[j] = t[j - Len(s)] BY <1>1, <3>1 DEF u
    <3>3. QED BY <2>1, <3>1, <3>2
  <2>4. QED BY <2>2, <2>3 DEF IsLastOf
<1>4. QED BY <1>2, <1>3 DEF u

LEMMA ReadPageKeeps == PollInv /\ ReadPage => PollInv'
<1> SUFFICES ASSUME PollInv, ReadPage PROVE PollInv' OBVIOUS
<1> USE PollingAssumption
<1> DEFINE kept == KeptOfPage
           sorted == Ordered(KeptOfPage, NewestFirst)
           Goes == /\ Left \ PageKeys # {}
                   /\ cursor' = Max(PageKeys) /\ newest' = kept
                   /\ UNCHANGED <<targets, listing, pc>>
           Ends == /\ listing' = listing \o sorted
                   /\ targets' = Tail(targets) /\ cursor' = 0 /\ newest' = {}
                   /\ pc' = IF targets' = <<>> THEN "reconcile" ELSE "list"
<1>1. /\ PollShape /\ Times /\ Collected /\ NewestDelivered /\ targets # <<>> /\ pc = "list"
      /\ UNCHANGED <<now, bucket, seen>>
  BY PageStep DEF PollInv, PollShape, envVars, keptVars
<1>2. Goes \/ Ends BY PageStep
<1>3. /\ Keyed(kept) /\ kept \subseteq Observations /\ IsFiniteSet(kept)
      /\ kept \subseteq newest \cup Page
  BY <1>1, PageKeyed, KeptFacts
<1>4. /\ sorted \in Seq(kept) /\ sorted \in Seq(Observations)
      /\ listing \in Seq(Observations) /\ listing \o sorted \in Seq(Observations)
      /\ \A o \in kept : \E i \in 1..Len(sorted) : sorted[i] = o
      /\ \A i, j \in 1..Len(sorted) : sorted[i] = sorted[j] => i = j
  BY <1>1, <1>3, KeptAsListing, OrderedKeeps DEF PollShape
<1>5. NotLate(pages)' BY <1>1, PageObserved
<1>6. \A o \in kept : Observed(o)' BY <1>1, <1>3, PageObserved
<1>7. \A o : (\E i \in 1..Len(listing) : listing[i] = o) => Observed(o)'
  <2>1. \A i \in 1..Len(listing) : listing[i] \in Observations BY <1>4
  <2>2. \A i \in 1..Len(listing) : listing[i].at \in Nat BY <2>1 DEF Observations
  <2>3. QED BY <1>1, <2>2, PageObserved DEF Collected
<1>8. Times'
  <2>1. NotLate(seen)' BY <1>1 DEF Times, NotLate
  <2>2. QED BY <1>1, <1>5, <2>1, PageObserved DEF Times
<1> HIDE DEF kept, sorted
<1>9. CASE Goes
  <2>1. /\ Max(PageKeys) \in PageKeys /\ \A k \in PageKeys : k <= Max(PageKeys)
        /\ \A k \in PageKeys : k \in Nat /\ k > cursor
    BY <1>1, <1>9, PageFacts
  <2>2. PollShape' BY <1>1, <1>3, <1>9, <2>1 DEF PollShape
  <2>3. \A o \in kept : o.key <= cursor'
    <3> TAKE o \in kept
    <3>1. CASE o \in newest
      <4>1. o.key <= cursor /\ o.key \in Nat /\ cursor \in Nat
        BY <1>1, <3>1 DEF Collected, PollShape, Observations
      <4>2. QED BY <1>9, <2>1, <4>1
    <3>2. CASE o \in Page BY <1>9, <2>1, <3>2 DEF Page, Object
    <3>3. QED BY <1>3, <3>1, <3>2
  <2>4. Collected' BY <1>3, <1>6, <1>7, <1>9, <2>3 DEF Collected, Observed
  <2>5. ASSUME NEW k \in DOMAIN pages',
               Cardinality(Newer(Objects(pages'), pages'[k])) < Capacity
        PROVE  Delivered(k)'
    <3>1. \/ pages'[k] \in kept
          \/ (\A o \in kept : o.key # k) /\ IsLastOf(k, listing, pages'[k])
      BY <2>5, KeptHasNewest DEF kept
    <3>2. QED BY <1>9, <3>1 DEF Delivered
  <2>6. NewestDelivered' BY <2>5 DEF NewestDelivered
  <2>7. QED BY <1>8, <2>2, <2>4, <2>6 DEF PollInv
<1>10. CASE Ends
  <2>1. PollShape'
    <3>1. targets' \in Seq(DOMAIN Under) BY <1>1, <1>10 DEF PollShape
    <3>2. QED BY <1>1, <1>4, <1>10, <3>1, FS_EmptySet DEF PollShape
  <2>2. \A o : (\E i \in 1..Len(listing') : listing'[i] = o) => Observed(o)'
    <3>1. ASSUME NEW i \in 1..Len(listing \o sorted)
          PROVE  \/ \E j \in 1..Len(listing) : (listing \o sorted)[i] = listing[j]
                 \/ \E j \in 1..Len(sorted) : (listing \o sorted)[i] = sorted[j]
      <4>1. CASE i <= Len(listing) BY <1>4, <3>1, <4>1
      <4>2. CASE i > Len(listing)
        <5>1. i - Len(listing) \in 1..Len(sorted)
              /\ (listing \o sorted)[i] = sorted[i - Len(listing)]
          BY <1>4, <3>1, <4>2
        <5>2. QED BY <5>1
      <4>3. QED BY <1>4, <4>1, <4>2
    <3>2. \A j \in 1..Len(sorted) : sorted[j] \in kept BY <1>4
    <3>3. QED BY <1>6, <1>7, <1>10, <3>1, <3>2
  <2>3. Collected' BY <1>10, <2>2 DEF Collected, Keyed, Observed
  <2>4. ASSUME NEW k \in DOMAIN pages',
               Cardinality(Newer(Objects(pages'), pages'[k])) < Capacity
        PROVE  Delivered(k)'
    <3> DEFINE o == pages'[k]
    <3>1. o.key = k BY <1>5 DEF NotLate, IsStore
    <3>2. \/ o \in kept
          \/ (\A p \in kept : p.key # k) /\ IsLastOf(k, listing, o)
      BY <2>4, KeptHasNewest DEF kept
    <3> HIDE DEF o
    <3>3. ASSUME o \in kept PROVE IsLastOf(k, sorted, o)
      <4>1. PICK i \in 1..Len(sorted) : sorted[i] = o BY <1>4, <3>3
      <4>2. ASSUME NEW j \in 1..Len(sorted), j > i PROVE sorted[j].key # k
        <5>1. sorted[j] # sorted[i]
          <6>1. Len(sorted) \in Nat BY <1>4
          <6>2. i # j BY <4>2, <6>1
          <6>3. QED BY <1>4, <6>2
        <5>2. sorted[j] \in kept BY <1>4
        <5>3. QED BY <1>3, <3>1, <3>3, <4>1, <5>1, <5>2 DEF Keyed
      <4>3. QED BY <4>1, <4>2 DEF IsLastOf
    <3>4. ASSUME \A p \in kept : p.key # k
          PROVE  \A i \in 1..Len(sorted) : sorted[i].key # k
      BY <1>4, <3>4
    <3>5. IsLastOf(k, listing \o sorted, o)
      BY <1>4, <3>2, <3>3, <3>4, LastOfConcatenation
    <3>6. QED BY <1>10, <3>5 DEF Delivered, o
  <2>5. NewestDelivered' BY <2>4 DEF NewestDelivered
  <2>6. QED BY <1>8, <2>1, <2>3, <2>5 DEF PollInv
<1>11. QED BY <1>2, <1>9, <1>10

-----------------------------------------------------------------------------
(* The invariant *)

LEMMA InitHolds == Init => PollInv
<1> SUFFICES ASSUME Init PROVE PollInv OBVIOUS
<1> USE PollingAssumption
<1>1. IsStore(Nothing) /\ DOMAIN Nothing = {} BY FS_EmptySet DEF IsStore, Nothing
<1>2. PollShape BY FS_EmptySet DEF Init, PollShape
<1>3. Times BY <1>1 DEF Init, Times, NotLate
<1>4. Collected /\ NewestDelivered BY <1>1 DEF Init, Collected, Keyed, NewestDelivered
<1>5. QED BY <1>2, <1>3, <1>4 DEF PollInv

LEMMA BeginPollKeeps == PollInv /\ BeginPoll => PollInv'
<1> SUFFICES ASSUME PollInv, BeginPoll PROVE PollInv' OBVIOUS
<1> USE PollingAssumption
<1>1. IsStore(Nothing) /\ DOMAIN Nothing = {} BY FS_EmptySet DEF IsStore, Nothing
<1>2. /\ PollShape /\ Times /\ pc' = "list" /\ targets' = TargetsAt[now]
      /\ cursor' = 0 /\ newest' = {} /\ listing' = <<>> /\ pages' = Nothing
      /\ UNCHANGED <<now, bucket, seen>>
  BY DEF BeginPoll, PollInv, envVars, keptVars
<1>3. PollShape'
  <2>1. targets' \in Seq(DOMAIN Under) /\ targets' # <<>> BY <1>2 DEF PollShape
  <2>2. QED BY <1>2, <2>1, FS_EmptySet DEF PollShape
<1>4. Times' BY <1>1, <1>2 DEF Times, NotLate
<1>5. Collected' /\ NewestDelivered' BY <1>1, <1>2 DEF Collected, Keyed, NewestDelivered
<1>6. QED BY <1>3, <1>4, <1>5 DEF PollInv

\* What a poll has collected depends on the listing alone.
LEMMA CollectedStays ==
  ASSUME Collected, NewestDelivered, UNCHANGED pollVars
  PROVE  Collected' /\ NewestDelivered'
BY DEF Collected, NewestDelivered, pollVars, Observed, Delivered, IsLastOf

LEMMA ReconcileKeeps == PollInv /\ Reconcile => PollInv'
<1> SUFFICES ASSUME PollInv, Reconcile PROVE PollInv' OBVIOUS
<1>1. /\ PollShape /\ Times /\ Collected /\ NewestDelivered
      /\ seen' = Overlay(pages, seen) /\ pc' = "send"
      /\ UNCHANGED pollVars /\ UNCHANGED <<now, bucket>>
  BY DEF Reconcile, PollInv, Send, envVars
<1>2. UNCHANGED <<targets, cursor, newest, listing, pages>> BY <1>1 DEF pollVars
<1>3. PollShape' BY <1>1, <1>2 DEF PollShape
<1>4. Collected' /\ NewestDelivered' BY <1>1, CollectedStays
<1>5. Times'
  <2>1. IsStore(seen') BY <1>1, OverlayIsStore DEF Times, NotLate
  <2>2. /\ DOMAIN seen' = DOMAIN pages \cup DOMAIN seen
        /\ \A k \in DOMAIN seen' : seen'[k] = IF k \in DOMAIN pages THEN pages[k] ELSE seen[k]
    BY <1>1 DEF Overlay
  <2>3. NotLate(seen)' BY <1>1, <1>2, <2>1, <2>2 DEF Times, NotLate
  <2>4. NotLate(pages)' BY <1>1, <1>2 DEF Times, NotLate
  <2>5. \A k \in DOMAIN pages' \cap DOMAIN seen' : seen'[k].at <= pages'[k].at
    BY <1>1, <1>2, <2>2 DEF Times, NotLate, IsStore
  <2>6. QED BY <2>3, <2>4, <2>5 DEF Times
<1>6. QED BY <1>3, <1>4, <1>5 DEF PollInv

\* Steps of the loop and of its supervisor read nothing of the bucket.
LEMMA OthersKeep ==
  ASSUME PollInv, UNCHANGED <<envVars, pollVars, seen>>,
         pc' \notin {"list", "reconcile"} \/ pc' = pc
  PROVE  PollInv'
<1>1. /\ PollShape /\ Times /\ Collected /\ NewestDelivered
      /\ UNCHANGED <<now, bucket, targets, cursor, newest, listing, pages, seen>>
  BY DEF PollInv, envVars, pollVars
<1>2. PollShape' BY <1>1 DEF PollShape
<1>3. Times' BY <1>1 DEF Times, NotLate
<1>4. Collected' /\ NewestDelivered' BY <1>1, CollectedStays DEF pollVars
<1>5. QED BY <1>2, <1>3, <1>4 DEF PollInv

\* What was observed stays not later than the clock and the bucket.
LEMMA WritersKeep ==
  ASSUME PollInv, Tick \/ \E k \in Keys : Put(k) \/ Delete(k)
  PROVE  PollInv'
<1> USE PollingAssumption
<1>1. /\ PollShape /\ Times /\ Collected /\ NewestDelivered
      /\ UNCHANGED <<pc, targets, cursor, newest, listing, pages, seen>> /\ UNCHANGED pollVars
  BY DEF PollInv, Tick, Put, Delete, pollVars, keptVars
<1>2. /\ now' \in 1..MaxTime /\ now <= now'
      /\ bucket' \in [Keys -> 0..now']
      /\ \A k \in Keys : bucket'[k] \in {0, now, bucket[k]}
  BY <1>1 DEF PollShape, Tick, Put, Delete
<1>3. PollShape' BY <1>1, <1>2 DEF PollShape
<1>4. ASSUME NEW f, NotLate(f)
      PROVE  \A k \in DOMAIN f : f[k].at <= now' /\ (bucket'[k] > 0 => f[k].at <= bucket'[k])
  <2> TAKE k \in DOMAIN f
  <2>1. /\ k \in Keys /\ f[k].at \in Nat /\ f[k].at <= now
        /\ (bucket[k] > 0 => f[k].at <= bucket[k])
    BY <1>4 DEF NotLate, IsStore
  <2>2. now \in Nat /\ now' \in Nat /\ now <= now' BY <1>1, <1>2 DEF PollShape
  <2>3. bucket'[k] \in {0, now, bucket[k]} BY <1>2, <2>1
  <2>4. QED BY <2>1, <2>2, <2>3
<1>5. Times'
  <2>1. NotLate(pages)' BY <1>1, <1>4 DEF Times, NotLate
  <2>2. NotLate(seen)' BY <1>1, <1>4 DEF Times, NotLate
  <2>3. QED BY <1>1, <2>1, <2>2 DEF Times
<1>6. Collected' /\ NewestDelivered' BY <1>1, CollectedStays
<1>7. QED BY <1>3, <1>5, <1>6 DEF PollInv

LEMMA PollInvariant == Spec => []PollInv
<1>1. PollInv /\ [Next]_vars => PollInv'
  <2> SUFFICES ASSUME PollInv, [Next]_vars PROVE PollInv' OBVIOUS
  <2>1. CASE BeginPoll BY <2>1, BeginPollKeeps
  <2>2. CASE ReadPage BY <2>2, ReadPageKeeps
  <2>3. CASE Reconcile BY <2>3, ReconcileKeeps
  <2>4. CASE ListFails BY <2>4, OthersKeep DEF ListFails, Send, keptVars
  <2>5. CASE SeeCancelled BY <2>5, OthersKeep DEF SeeCancelled, Send, keptVars
  <2>6. CASE Wake \/ SendFails BY <2>6, OthersKeep DEF Wake, SendFails, keptVars
  <2>7. CASE Sent
    <3>1. UNCHANGED <<envVars, pollVars, seen>> BY <2>7 DEF Sent, keptVars
    <3>2. pc' \in {"done", "send", "poll", "sleep"} BY <2>7 DEF Sent, Send
    <3>3. QED BY <3>1, <3>2, OthersKeep
  <2>8. CASE Receive \/ Close \/ Cancel
    BY <2>8, OthersKeep DEF Receive, Close, Cancel, keptVars
  <2>9. CASE Tick \/ \E k \in Keys : Put(k) \/ Delete(k) BY <2>9, WritersKeep
  <2>10. CASE UNCHANGED vars BY <2>10, OthersKeep DEF vars, keptVars
  <2>11. QED
    BY <2>1, <2>2, <2>3, <2>4, <2>5, <2>6, <2>7, <2>8, <2>9, <2>10 DEF Next, Run
<1>2. QED BY <1>1, InitHolds, PTL DEF Spec

-----------------------------------------------------------------------------
(* The theorems *)

\* The history is rebuilt from what is left of the listings, and comes out as if nothing
\* had been dropped from them.
LEMMA ReconcileRetains == PollInv /\ RetainedIsNewest /\ Reconcile => RetainedIsNewest'
<1> SUFFICES ASSUME PollInv, RetainedIsNewest, Reconcile PROVE RetainedIsNewest' OBVIOUS
<1> DEFINE incoming == Incoming(listing)
           f == Merged(history, listing)
           g == Overlay(pages, seen)
<1>1. /\ PollShape /\ Times /\ Collected /\ NewestDelivered /\ newest = {}
      /\ history = Retained(seen)
      /\ history' = Retained(f) /\ seen' = g
  BY DEF Reconcile, Upsert, PollInv, PollShape, RetainedIsNewest
<1>2. IsStore(pages) /\ IsStore(seen) BY <1>1 DEF Times, NotLate
<1>3. IsStore(history) /\ history = [k \in Kept(seen) |-> seen[k]]
  BY <1>1, <1>2, RetainedIsStore, RetainedIsKept
<1>4. /\ IsStore(incoming)
      /\ DOMAIN incoming = {listing[i].key : i \in 1..Len(listing)}
      /\ \A k \in DOMAIN incoming : \E i \in 1..Len(listing) :
           /\ listing[i].key = k /\ incoming[k] = listing[i]
           /\ \A j \in 1..Len(listing) : listing[j].key = k => j <= i
  BY <1>1, IncomingIsLast DEF PollShape
<1>5. IsStore(f) /\ IsStore(g) BY <1>2, <1>3, <1>4, OverlayIsStore DEF Merged
<1>6. /\ DOMAIN f = DOMAIN incoming \cup DOMAIN history
      /\ \A k \in DOMAIN f : f[k] = IF k \in DOMAIN incoming THEN incoming[k] ELSE history[k]
  BY DEF Merged, Overlay
<1>7. /\ DOMAIN g = DOMAIN pages \cup DOMAIN seen
      /\ \A k \in DOMAIN g : g[k] = IF k \in DOMAIN pages THEN pages[k] ELSE seen[k]
  BY DEF Overlay
<1> HIDE DEF incoming, f, g
<1>8. \A k \in DOMAIN incoming : k \in DOMAIN pages /\ incoming[k].at <= pages[k].at
  <2> TAKE k \in DOMAIN incoming
  <2>1. PICK i \in 1..Len(listing) : listing[i].key = k /\ incoming[k] = listing[i] BY <1>4
  <2>2. QED BY <1>1, <2>1 DEF Collected, Observed
<1>9. \A k \in DOMAIN history : k \in Kept(seen) /\ k \in DOMAIN seen /\ history[k] = seen[k]
  BY <1>3 DEF Kept
<1>10. \A k \in DOMAIN pages : k \in DOMAIN g /\ g[k] = pages[k] BY <1>7
<1>11. \A k \in DOMAIN seen : k \in DOMAIN g /\ seen[k].at <= g[k].at
  <2> TAKE k \in DOMAIN seen
  <2>1. seen[k].at \in Nat BY <1>2 DEF IsStore
  <2>2. QED BY <1>1, <1>7, <2>1 DEF Times
<1>12. \A k \in DOMAIN f : k \in DOMAIN g /\ f[k].at <= g[k].at
  BY <1>6, <1>8, <1>9, <1>10, <1>11
<1>13. \A k \in Kept(g) : k \in DOMAIN f /\ f[k] = g[k]
  <2> SUFFICES ASSUME NEW k \in Kept(g) PROVE k \in DOMAIN f /\ f[k] = g[k] OBVIOUS
  <2>1. k \in DOMAIN g /\ Cardinality(Newer(Objects(g), g[k])) < Capacity BY DEF Kept
  <2>2. ASSUME NEW h, IsStore(h), \A j \in DOMAIN h : j \in DOMAIN g /\ h[j].at <= g[j].at
        PROVE  Cardinality(Newer(Objects(h), g[k])) < Capacity
    <3>1. Keyed(Objects(h)) BY <2>2, StoreObjects
    <3>2. \A p \in Objects(h) : NewestFirst(p, g[k]) => p.key \in DOMAIN g /\ NewestFirst(g[p.key], g[k])
      <4> SUFFICES ASSUME NEW j \in DOMAIN h, NewestFirst(h[j], g[k])
                   PROVE  j \in DOMAIN g /\ NewestFirst(g[j], g[k])
        BY <2>2 DEF Objects, IsStore
      <4>1. j \in DOMAIN g /\ h[j].at <= g[j].at BY <2>2
      <4>2. /\ h[j].at \in Nat /\ g[j].at \in Nat /\ g[k].at \in Nat
            /\ h[j].key = j /\ g[j].key = j /\ g[k].key = k /\ j \in Nat /\ k \in Nat
        BY <1>5, <2>1, <2>2, <4>1 DEF IsStore
      <4>3. QED BY <4>1, <4>2 DEF NewestFirst
    <3>3. /\ IsFiniteSet(Newer(Objects(h), g[k]))
          /\ Cardinality(Newer(Objects(h), g[k])) <= Cardinality(Newer(Objects(g), g[k]))
      BY <1>5, <3>1, <3>2, NewerGrows
    <3>4. IsFiniteSet(Newer(Objects(g), g[k])) BY <1>5, StoreObjects, FS_Subset DEF Newer
    <3>5. /\ Cardinality(Newer(Objects(h), g[k])) \in Nat
          /\ Cardinality(Newer(Objects(g), g[k])) \in Nat
      BY <3>3, <3>4, FS_CardinalityType
    <3>6. QED BY <2>1, <3>3, <3>5, HistoryAssumption
  <2>3. CASE k \in DOMAIN pages
    <3>1. g[k] = pages[k] /\ pages[k].key = k BY <1>2, <1>10, <2>3 DEF IsStore
    <3>2. \A j \in DOMAIN pages : j \in DOMAIN g /\ pages[j].at <= g[j].at
      BY <1>2, <1>10 DEF IsStore
    <3>3. Cardinality(Newer(Objects(pages), pages[k])) < Capacity
      BY <1>2, <2>2, <3>1, <3>2
    <3>4. IsLastOf(k, listing, pages[k])
      BY <1>1, <2>3, <3>3 DEF NewestDelivered, Delivered
    <3>5. PICK i \in 1..Len(listing) :
            listing[i] = pages[k] /\ \A j \in 1..Len(listing) : j > i => listing[j].key # k
      BY <3>4 DEF IsLastOf
    <3>6. k \in DOMAIN incoming BY <1>4, <3>1, <3>5
    <3>7. PICK m \in 1..Len(listing) :
            /\ listing[m].key = k /\ incoming[k] = listing[m]
            /\ \A j \in 1..Len(listing) : listing[j].key = k => j <= m
      BY <1>4, <3>6
    <3>8. m = i BY <3>1, <3>5, <3>7
    <3>9. QED BY <1>6, <3>1, <3>5, <3>6, <3>7, <3>8
  <2>4. CASE k \notin DOMAIN pages
    <3>1. k \in DOMAIN seen /\ g[k] = seen[k] BY <1>7, <2>1, <2>4
    <3>2. Cardinality(Newer(Objects(seen), seen[k])) < Capacity
      BY <1>2, <1>11, <2>2, <3>1
    <3>3. k \in DOMAIN history /\ history[k] = seen[k] BY <1>3, <3>1, <3>2 DEF Kept
    <3>4. k \notin DOMAIN incoming BY <1>8, <2>4
    <3>5. QED BY <1>6, <3>1, <3>3, <3>4
  <2>5. QED BY <2>3, <2>4
<1>14. Retained(f) = Retained(g) BY <1>5, <1>12, <1>13, SameRetained
<1>15. QED BY <1>1, <1>14 DEF RetainedIsNewest

\* What the watcher retains of the pages, targets and polls it went through is what it
\* would retain had it kept every object ever listed and dropped the rest only now
\* (retain_newest_objects, poll_once and upsert_many cut the same way).
THEOREM HistoryKeepsTheNewest == Spec => []RetainedIsNewest
<1>1. Init => RetainedIsNewest
  <2>1. IsStore(Nothing) /\ DOMAIN Nothing = {} BY FS_EmptySet DEF IsStore, Nothing
  <2>2. Retained(Nothing) = [k \in Kept(Nothing) |-> Nothing[k]] /\ Kept(Nothing) = {}
    BY <2>1, RetainedIsKept DEF Kept
  <2>3. Retained(Nothing) = Nothing BY <2>1, <2>2 DEF Nothing
  <2>4. QED BY <2>3 DEF Init, RetainedIsNewest
<1>2. PollInv /\ RetainedIsNewest /\ [Next]_vars => RetainedIsNewest'
  <2> SUFFICES ASSUME PollInv, RetainedIsNewest, [Next]_vars PROVE RetainedIsNewest' OBVIOUS
  <2>1. CASE Reconcile BY <2>1, ReconcileRetains
  <2>2. CASE ~Reconcile
    <3>1. UNCHANGED keptVars
      BY <2>2 DEF Next, Run, vars, BeginPoll, ReadPage, ListFails, SeeCancelled, Wake, Sent,
                  SendFails, Tick, Receive, Close, Cancel, Put, Delete
    <3>2. QED BY <3>1 DEF keptVars, RetainedIsNewest
  <2>3. QED BY <2>1, <2>2
<1>3. QED BY <1>1, <1>2, PollInvariant, PTL DEF Spec

\* A poll that completes, and nothing else, changes the history, and its event names
\* exactly what was added, updated and evicted (HistoryUpdate of upsert_many).
THEOREM EventsTellTheDifference == Spec => ChangesAreTheDifference
<1> DEFINE News == history' # history \/ (event'.type = "completed" /\ event' # event)
           Told == /\ event'.type = "completed"
                   /\ {c.object : c \in event'.changes} = Objects(history') \ Objects(history)
                   /\ \A c \in event'.changes : c.previous \cup {c.object} =
                        {h[c.object.key] : h \in {g \in {history, history'} : c.object.key \in DOMAIN g}}
                   /\ {o.key : o \in event'.evicted} = DOMAIN history \ DOMAIN history'
<1>1. PollInv /\ RetainedIsNewest /\ [Next]_vars => [News => Told]_vars
  <2> SUFFICES ASSUME PollInv, RetainedIsNewest, [Next]_vars, News PROVE Told OBVIOUS
  <2>1. CASE Reconcile
    <3> DEFINE update == Upsert(history, listing)
    <3>1. /\ history' = update.history
          /\ event' = Event("completed", update.changes, update.evicted)
      BY <2>1 DEF Reconcile, Send
    <3>2. IsStore(history) /\ listing \in Seq(Observations)
      BY RetainedIsStore DEF PollInv, PollShape, Times, NotLate, RetainedIsNewest
    <3>3. /\ {c.object : c \in update.changes} = Objects(update.history) \ Objects(history)
          /\ \A c \in update.changes :
               /\ c.object.key \in DOMAIN update.history
               /\ update.history[c.object.key] = c.object
               /\ c.previous = IF c.object.key \in DOMAIN history
                               THEN {history[c.object.key]} ELSE {}
          /\ {o.key : o \in update.evicted} = DOMAIN history \ DOMAIN update.history
      BY <3>2, UpsertReportsTheDifference
    <3> HIDE DEF update
    <3>4. /\ event'.type = "completed" /\ event'.changes = update.changes
          /\ event'.evicted = update.evicted
      BY <3>1 DEF Event
    <3>5. ASSUME NEW c \in event'.changes
          PROVE  c.previous \cup {c.object} =
                   {h[c.object.key] : h \in {g \in {history, history'} : c.object.key \in DOMAIN g}}
      BY <3>1, <3>3, <3>4, <3>5
    <3>6. QED BY <3>1, <3>3, <3>4, <3>5
  <2>2. CASE ~Reconcile
    <3>1. history' = history
      BY <2>2 DEF Next, Run, vars, keptVars, BeginPoll, ReadPage, ListFails, SeeCancelled, Wake,
                  Sent, SendFails, Tick, Receive, Close, Cancel, Put, Delete
    <3>2. CASE Sent
      <4>1. event' = event \/ event' = Event("stopped", {}, {}) BY <3>2 DEF Sent, Send
      <4>2. QED BY <3>1, <4>1 DEF Event
    <3>3. CASE ListFails \/ SeeCancelled
      <4>1. event'.type \in {"failed", "stopped"}
        BY <3>3 DEF ListFails, SeeCancelled, Send, Event
      <4>2. QED BY <3>1, <4>1
    <3>4. CASE ~(Sent \/ ListFails \/ SeeCancelled)
      <4>1. event' = event
        BY <2>2, <3>4 DEF Next, Run, vars, BeginPoll, ReadPage, Wake, SendFails, Tick, Receive,
                          Close, Cancel, Put, Delete
      <4>2. QED BY <3>1, <4>1
    <3>5. QED BY <3>2, <3>3, <3>4
  <2>3. QED BY <2>1, <2>2
<1>2. QED
  BY <1>1, PollInvariant, HistoryKeepsTheNewest, PTL DEF Spec, ChangesAreTheDifference

=============================================================================
