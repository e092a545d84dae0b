-------------------------------- MODULE Cli --------------------------------
(***************************************************************************)
(* The commands of the command line (app.rs) over a target of Targets and  *)
(* the history of History: list, history and stats, which read once, and   *)
(* the loop of watch.                                                      *)
(*                                                                         *)
(* A feed writes one object at every instant, in its own time zone, some   *)
(* of them into a period that is already over.  An object is known by the  *)
(* instant it was written at.  One step is a turn of watch's loop, from a  *)
(* poll to the end of its sleep; the other commands are asked in every     *)
(* state.  Ctrl-C ends the process, so watch may stop at any step.         *)
(***************************************************************************)
EXTENDS Targets, History

CONSTANTS
  Late(_),      \* how many periods late the object of an instant is written
  Limits,       \* values of --limit, Capacity among them
  Windows,      \* values of --last, in hours
  MaxFailures   \* bound: polls of watch that fail

\* An object is written into a period of our era.
ASSUME CliAssumption ==
  /\ Limits \subseteq Nat /\ Windows \subseteq Int
  /\ \A i \in Instants, z \in Zones : Late(i) \in Nat /\ 24 * 366 * (Late(i) + 2) <= i + z

VARIABLES
  bucket,       \* the keys written so far, by the instant of their object
  known,        \* the history of watch's PollingWatcher
  printed,      \* the arrivals watch printed, in order
  failures      \* polls that failed

cliVars == <<targetVars, bucket, known, printed, failures>>

-----------------------------------------------------------------------------
(* The bucket *)

KeyAt(segments, i) ==
  IF IsTemplate(segments)
  THEN Render(segments, StepBack(Granularity(segments), i + zone, Late(i))) \o <<"f">>
  ELSE text \o <<"f">>

Key(i) == KeyAt(Segments(text), i)

\* The objects under a prefix, and what list_objects keeps of them
Under(prefix) ==
  {[key |-> i, at |-> i, size |-> 1] : i \in {j \in DOMAIN bucket : IsPrefix(prefix, bucket[j])}}

Newest(limit, objects) == Ordered(First(limit, objects, NewestFirst), NewestFirst)

-----------------------------------------------------------------------------
(* Commands *)

Listed(command) == CommandTargets(command, text, clock, lookback, zone)

\* list_resolved, and the listing of a poll: every prefix up to the limit
ListResolved(prefixes, limit) ==
  FlattenSeq([p \in DOMAIN prefixes |-> Newest(limit, Under(prefixes[p]))])

SortRecent_AsListed(objects) == objects

\* Objects that are equal in the order keep their places.
SortRecent(objects) ==
  LET Before(i, j) ==
        \/ NewestFirst(objects[i], objects[j])
        \/ ~NewestFirst(objects[j], objects[i]) /\ i < j
  IN  [i \in DOMAIN objects |-> objects[Ordered(DOMAIN objects, Before)[i]]]

Truncate(objects, limit) == SubSeq(objects, 1, Min({limit, Len(objects)}))

\* list, and history with its window
List(prefixes, limit) == Truncate(SortRecent(ListResolved(prefixes, limit)), limit)

Retain(objects, cutoff) ==
  FlattenSeq([i \in DOMAIN objects |->
                IF objects[i].at >= cutoff THEN <<objects[i]>> ELSE <<>>])

HistoryOf(prefixes, limit, window) ==
  Truncate(SortRecent(Retain(ListResolved(prefixes, limit), clock - window)), limit)

NoObjects == [k \in {} |-> 0]

\* stats: one poll of a watcher that was just created
Stats(prefixes) ==
  StatisticsFor(Upsert(NoObjects, ListResolved(prefixes, Capacity)).history, clock, 0)

-----------------------------------------------------------------------------
(* watch *)

CliInit ==
  /\ TargetInit /\ bucket = [i \in {clock} |-> Key(i)]
  /\ known = NoObjects /\ printed = <<>> /\ failures = 0

\* The time until the next poll
Sleep ==
  /\ Pass
  /\ bucket' = [i \in DOMAIN bucket \cup {clock'} |-> IF i = clock' THEN Key(i) ELSE bucket[i]]

\* Changes are printed in the order of their arrival.
Poll ==
  LET update == Upsert(known, ListResolved(Listed("watch"), Capacity))
  IN  /\ Sleep
      /\ known' = update.history
      /\ printed' = printed \o Ordered({c.object : c \in update.changes}, OldestFirst)
      /\ UNCHANGED failures

\* An error is printed, and the loop goes on.
PollError ==
  /\ failures < MaxFailures /\ failures' = failures + 1
  /\ Sleep /\ UNCHANGED <<known, printed>>

CliNext == Poll \/ PollError

CliSpec == CliInit /\ [][CliNext]_cliVars

-----------------------------------------------------------------------------
(* Properties *)

\* What there is under some prefixes; no prefix covers another, where list and
\* history would show its objects twice
Found(prefixes) == UNION {Under(prefixes[p]) : p \in DOMAIN prefixes}
Apart(prefixes) == \A p, q \in DOMAIN prefixes : IsPrefix(prefixes[p], prefixes[q]) => p = q

NewestListed(prefixes, found) ==
  Apart(prefixes) =>
    \A limit \in Limits :
      /\ List(prefixes, limit) = Newest(limit, found)
      /\ \A window \in Windows :
           HistoryOf(prefixes, limit, window) = Newest(limit, {o \in found : o.at >= clock - window})

ListsTheNewest == NewestListed(Listed("list"), Found(Listed("list")))

CountsWhatIsFound ==
  Stats(Listed("stats")).objectCount = Min({Capacity, Cardinality(Found(Listed("stats")))})

PrintsOnce ==
  /\ IsInjective(printed)
  /\ Objects(known) = First(Capacity, ToSet(printed), NewestFirst)

\* Although every prefix is listed and cut to the limit by itself, each command
\* shows the newest objects of all of them: list and history up to the limit and
\* within the window, stats in its count; watch prints every object it retains
\* once, whatever polls fail and however often an object too old to be retained is
\* listed again.
CommandsShowTheNewest == ListsTheNewest /\ CountsWhatIsFound /\ PrintsOnce
=============================================================================
