------------------------------ MODULE Polling ------------------------------
(***************************************************************************)
(* PollingWatcher (watcher.rs) over AwsS3Store::list_objects (store.rs):   *)
(* the loop that polls, sleeps and is cancelled, a poll that lists every   *)
(* target page by page while others write to the bucket, and the one       *)
(* history all the listings are reconciled with.                           *)
(*                                                                         *)
(* One action is the code between two awaits: a LIST request, the lock of  *)
(* the history, the send of an event, the sleep.                           *)
(***************************************************************************)
EXTENDS History

CONSTANTS
  Keys,             \* keys of the bucket, in S3's order
  Under,            \* Under[p]: the keys under prefix p; prefixes may overlap
  TargetsAt,        \* TargetsAt[t]: the prefixes resolve_targets gives at tick t
  PageSize,         \* objects S3 puts on a page
  ChannelCapacity,  \* of the event channel
  MaxTime, MaxPuts  \* bounds: ticks, and writes to the bucket

ASSUME PollingAssumption ==
  /\ Keys \subseteq Nat \ {0} /\ IsFiniteSet(Keys)
  /\ \A p \in DOMAIN Under : Under[p] \subseteq Keys
  /\ MaxTime \in Nat \ {0}
  /\ \A t \in 1..MaxTime : TargetsAt[t] \in Seq(DOMAIN Under) \ {<<>>}
  /\ PageSize \in Nat \ {0} /\ ChannelCapacity \in Nat \ {0}

VARIABLES
  now, bucket,      \* bucket[k]: the tick k was last written at, 0 if absent
  puts,             \* writes so far
  pc,               \* where the future of run is
  targets, cursor,  \* prefixes left to list; last key of the pages read of the first
  newest,           \* the RankedObjects of the listing in progress
  listing,          \* objects of the targets listed so far in this poll
  history,          \* RollingHistory::by_key
  event,            \* the event being sent, or the last one sent
  channel, closed,  \* the event channel and whether its receiver is gone
  cancelled,        \* the watcher's token
  pages, seen       \* history variables: every observation of this poll, and of
                    \* the completed ones, before anything was dropped

pollVars == <<targets, cursor, newest, listing, pages>>
keptVars == <<history, seen>>
envVars == <<now, bucket, puts>>
linkVars == <<channel, closed, cancelled>>
vars == <<envVars, pc, pollVars, keptVars, event, linkVars>>

Nothing == [k \in {} |-> 0]

Object(k) == [key |-> k, at |-> bucket[k], size |-> 1]

Event(type, changes, evicted) == [type |-> type, changes |-> changes, evicted |-> evicted]

Init ==
  /\ now = 1 /\ bucket = [k \in Keys |-> 0] /\ puts = 0
  /\ pc = "send" /\ event = Event("started", {}, {})
  /\ targets = <<>> /\ cursor = 0 /\ newest = {} /\ listing = <<>> /\ pages = Nothing
  /\ history = Nothing /\ seen = Nothing
  /\ channel = <<>> /\ closed = FALSE /\ cancelled = FALSE

-----------------------------------------------------------------------------
(* A poll *)

BeginPoll ==
  /\ pc = "poll" /\ pc' = "list"
  /\ targets' = TargetsAt[now] /\ cursor' = 0 /\ newest' = {} /\ listing' = <<>>
  /\ pages' = Nothing
  /\ UNCHANGED <<envVars, keptVars, event, linkVars>>

\* What is kept of a listing when a page is added to it
RetainNewest_Unordered(kept, page) ==
  First(Capacity, kept \cup page, LAMBDA a, b : a.key < b.key)

RetainNewest(kept, page) == First(Capacity, kept \cup page, NewestFirst)

\* One page of ListObjectsV2; after the last one of a prefix comes the next
\* prefix, after the last prefix the history.
ReadPage ==
  LET left  == {k \in Under[Head(targets)] : k > cursor /\ bucket[k] > 0}
      keys  == First(PageSize, left, <)
      page  == {Object(k) : k \in keys}
      kept  == RetainNewest(newest, page)
  IN  /\ pc = "list"
      /\ pages' = Overlay([k \in keys |-> Object(k)], pages)
      /\ \/ /\ left \ keys # {}
            /\ cursor' = Max(keys) /\ newest' = kept
            /\ UNCHANGED <<targets, listing, pc>>
         \/ /\ left \ keys = {}
            /\ listing' = listing \o Ordered(kept, NewestFirst)
            /\ targets' = Tail(targets) /\ cursor' = 0 /\ newest' = {}
            /\ pc' = IF targets' = <<>> THEN "reconcile" ELSE "list"
      /\ UNCHANGED <<envVars, keptVars, event, linkVars>>

Send(e) == pc' = "send" /\ event' = e

\* A request fails, or its answer is invalid: the objects of the targets listed
\* before are dropped with the poll.
ListFails_KeepsOthers ==
  /\ pc = "list" /\ Send(Event("failed", {}, {}))
  /\ history' = Upsert(history, listing).history
  /\ UNCHANGED <<envVars, pollVars, seen, linkVars>>

ListFails ==
  /\ pc = "list" /\ Send(Event("failed", {}, {}))
  /\ UNCHANGED <<envVars, pollVars, keptVars, linkVars>>

\* The history is locked: the listing and the snapshot are one step.
Reconcile ==
  LET update == Upsert(history, listing)
  IN  /\ pc = "reconcile"
      /\ history' = update.history
      /\ seen' = Overlay(pages, seen)
      /\ Send(Event("completed", update.changes, update.evicted))
      /\ UNCHANGED <<envVars, pollVars, linkVars>>

-----------------------------------------------------------------------------
(* The loop *)

\* Cancellation drops the poll, or ends the sleep.
SeeCancelled_AsleepOnly ==
  /\ pc = "sleep" /\ cancelled
  /\ Send(Event("stopped", {}, {}))
  /\ UNCHANGED <<envVars, pollVars, keptVars, linkVars>>

SeeCancelled ==
  /\ pc \in {"poll", "list", "reconcile", "sleep"} /\ cancelled
  /\ Send(Event("stopped", {}, {}))
  /\ UNCHANGED <<envVars, pollVars, keptVars, linkVars>>

Wake ==
  /\ pc = "sleep" /\ pc' = "poll"
  /\ UNCHANGED <<envVars, pollVars, keptVars, event, linkVars>>

\* send_event: waits for room, whether cancelled or not. A watcher cancelled
\* before it started to poll stops without polling.
Sent ==
  /\ pc = "send" /\ ~closed /\ Len(channel) < ChannelCapacity
  /\ channel' = Append(channel, event.type)
  /\ CASE event.type = "stopped" -> pc' = "done" /\ UNCHANGED event
       [] event.type = "started" /\ cancelled -> Send(Event("stopped", {}, {}))
       [] event.type = "started" /\ ~cancelled -> pc' = "poll" /\ UNCHANGED event
       [] OTHER -> pc' = "sleep" /\ UNCHANGED event
  /\ UNCHANGED <<envVars, pollVars, keptVars, closed, cancelled>>

SendFails ==
  /\ pc = "send" /\ closed /\ pc' = "failed"
  /\ UNCHANGED <<envVars, pollVars, keptVars, event, linkVars>>

-----------------------------------------------------------------------------
(* The writers of the bucket, the clock, and the supervisor *)

Put(k) ==
  /\ puts < MaxPuts /\ bucket[k] # now
  /\ bucket' = [bucket EXCEPT ![k] = now] /\ puts' = puts + 1
  /\ UNCHANGED <<now, pc, pollVars, keptVars, event, linkVars>>

Delete(k) ==
  /\ bucket[k] > 0 /\ bucket' = [bucket EXCEPT ![k] = 0]
  /\ UNCHANGED <<now, puts, pc, pollVars, keptVars, event, linkVars>>

Tick ==
  /\ now < MaxTime /\ now' = now + 1
  /\ UNCHANGED <<bucket, puts, pc, pollVars, keptVars, event, linkVars>>

Receive ==
  /\ channel # <<>> /\ channel' = Tail(channel)
  /\ UNCHANGED <<envVars, pc, pollVars, keptVars, event, closed, cancelled>>

Close ==
  /\ ~closed /\ closed' = TRUE /\ channel' = <<>>
  /\ UNCHANGED <<envVars, pc, pollVars, keptVars, event, cancelled>>

Cancel ==
  /\ ~cancelled /\ cancelled' = TRUE
  /\ UNCHANGED <<envVars, pc, pollVars, keptVars, event, channel, closed>>

Run == \/ BeginPoll \/ ReadPage \/ ListFails \/ Reconcile
       \/ SeeCancelled \/ Wake \/ Sent \/ SendFails

Next ==
  \/ Run \/ Tick \/ Receive \/ Close \/ Cancel
  \/ \E k \in Keys : Put(k) \/ Delete(k)

Spec == Init /\ [][Next]_vars

\* The future is polled when it is woken, and the receiver takes events.  select!
\* polls its branches in a random order, so a cancellation that is seen again and
\* again wins in the end.  Nothing is assumed of S3, of the lock or of the timer.
FairSpec == Spec /\ SF_vars(SeeCancelled) /\ WF_vars(Sent \/ SendFails) /\ WF_vars(Receive)

-----------------------------------------------------------------------------
(* Properties *)

\* Dropping objects page by page, target by target and poll by poll leaves what
\* dropping them once would: the newest of everything ever listed.
RetainedIsNewest == history = Retained(seen)

\* The history changes only with a completed poll, and what that reports as
\* added, updated and evicted is exactly the difference to the poll before.
ChangesAreTheDifference ==
  [][history' # history \/ (event'.type = "completed" /\ event' # event) =>
       /\ event'.type = "completed"
       /\ {c.object : c \in event'.changes} = Objects(history') \ Objects(history)
       /\ \A c \in event'.changes : c.previous \cup {c.object} =
            {h[c.object.key] : h \in {g \in {history, history'} : c.object.key \in DOMAIN g}}
       /\ {o.key : o \in event'.evicted} = DOMAIN history \ DOMAIN history']_vars

\* A cancelled watcher ends even if S3 does not answer, as long as its events are
\* received or their receiver is gone.
CancelledRunEnds == cancelled ~> pc \in {"done", "failed"}
=============================================================================
