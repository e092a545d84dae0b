---------------------------- MODULE AlertEngine ----------------------------
(***************************************************************************)
(* Which feed notifications interrupt the user: the AlertController folds  *)
(* notifications into facts about each feed (extension/src/alerts.ts), and *)
(* the AlertEngine decides what is new, confirmed and outside the cooldown *)
(* (extension/src/health.ts).  The feeds and the server that polls them    *)
(* are the environment; its messages arrive in order, and those of one     *)
(* poll are handled before the next poll of the feed.  The announcement of *)
(* recoveries, which is off by default, is left out.                       *)
(***************************************************************************)
EXTENDS Integers, Sequences

CONSTANTS
  Feeds,
  Sizes,         \* the size classifications arrivals get: SizeStatus
  Confirm,       \* confirmObservations
  Cooldown,      \* cooldownMs
  LateAfter,     \* lateAfterSeconds, from a configured cadence
  Policies,      \* the sets of alert kinds the settings may enable
  MaxTime,       \* bound of the clock
  None           \* undefined

Kinds == {"late", "size", "error"}

VARIABLES
  now,       \* the clock
  arrival,   \* when the latest object of the feed arrived, and its size
  polling,   \* the server's status of the feed: "off", "running" or "error"
  outbox,    \* notifications about the feed not handled yet
  policy,    \* the enabled kinds: #policy
  facts,     \* #feeds: what the controller knows of the feed
  memory,    \* #memory: the engine's FeedMemory
  seen,      \* the problem the last handled poll showed, and for how many polls
  told       \* how often, up to twice, the user was alerted to each problem since
             \* the last alert to failing polls, and when he was last alerted

envVars == <<now, arrival, polling>>
clientVars == <<facts, memory, seen, told>>
vars == <<envVars, outbox, policy, clientVars>>

Times == 0..MaxTime
Problems == Kinds \X Times

Healths == [late : BOOLEAN, arrived : Times, gap : Times, size : Sizes]
FeedFacts ==
  [state : {"running", "error"}, health : Healths \cup {None},
   error : {"failure", None}, retryable : BOOLEAN \cup {None}]
Episodes ==
  [kind : {"late"}, of : {"since"}, at : Nat]
    \cup [kind : {"size"}, of : Sizes, at : Times]
    \cup [kind : {"error"}, of : {"failure", "unknown"}, at : {0}]
FeedMemory ==
  [notified : Episodes \cup {None}, lastAlertAt : Times \cup {None},
   consecutive : 0..Confirm, pending : Episodes \cup {None},
   severity : {"unknown", "ok", "warning", "critical"}]

ASSUME AlertAssumption ==
  /\ Sizes \subseteq {"unknown", "normal", "empty", "small", "large"}
  /\ {Cooldown, LateAfter, MaxTime} \subseteq Nat
  /\ Confirm \in Nat \ {0}
  /\ Policies \subseteq SUBSET Kinds
  /\ None \notin BOOLEAN /\ None \notin Kinds /\ None \notin Times /\ None \notin Problems
  /\ None \notin Healths /\ None \notin FeedFacts
  /\ None \notin Episodes /\ None \notin FeedMemory

Messages ==
  [type : {"statistics"}, health : Healths]
    \cup [type : {"status"}, status : {"running", "error", "stopped"}]
    \cup [type : {"error"}, retryable : BOOLEAN]

TypeOK ==
  /\ now \in Times
  /\ arrival \in [Feeds -> [at : Times, size : Sizes]]
  /\ polling \in [Feeds -> {"off", "running", "error"}]
  /\ \A f \in Feeds : \A k \in 1..Len(outbox[f]) : outbox[f][k] \in Messages
  /\ policy \in Policies
  /\ \A f \in Feeds :
       /\ facts[f] = None \/ facts[f] \in FeedFacts
       /\ memory[f] = None \/ memory[f] \in FeedMemory

Unseen == [problem |-> None, polls |-> 0, due |-> FALSE]
Untold == [times |-> [p \in Problems |-> 0], last |-> None]

Init ==
  /\ now = 0
  /\ arrival \in [Feeds -> [at : {0}, size : Sizes]]
  /\ polling = [f \in Feeds |-> "off"]
  /\ outbox = [f \in Feeds |-> <<>>]
  /\ policy \in Policies
  /\ facts = [f \in Feeds |-> None]
  /\ memory = [f \in Feeds |-> None]
  /\ seen = [f \in Feeds |-> Unseen]
  /\ told = [f \in Feeds |-> Untold]

----------------------------------------------------------------------------
(* The feeds and the server *)

Tick ==
  /\ now < MaxTime
  /\ now' = now + 1
  /\ UNCHANGED <<arrival, polling, outbox, policy, clientVars>>

Arrive(f, size) ==
  /\ arrival' = [arrival EXCEPT ![f] = [at |-> now, size |-> size]]
  /\ UNCHANGED <<now, polling, outbox, policy, clientVars>>

Status(status) == [type |-> "status", status |-> status]

\* The server sends messages about a feed, and its status becomes the given one.
Sends(f, status, messages) ==
  /\ outbox[f] = <<>>
  /\ polling' = [polling EXCEPT ![f] = status]
  /\ outbox' = [outbox EXCEPT ![f] = messages]
  /\ UNCHANGED <<now, arrival, policy, clientVars>>

WatchStarts(f) == polling[f] = "off" /\ Sends(f, "running", <<Status("running")>>)
WatchStops(f) == polling[f] # "off" /\ Sends(f, "off", <<Status("stopped")>>)

\* A feed is late when the gap since its last arrival exceeds the threshold.
HealthNow(f) ==
  LET gap == now - arrival[f].at
  IN  [late |-> gap > LateAfter, arrived |-> arrival[f].at, gap |-> gap,
       size |-> arrival[f].size]

\* A poll that succeeds after one that failed announces the recovery first.
PollOk(f) ==
  LET statistics == [type |-> "statistics", health |-> HealthNow(f)] IN
  /\ polling[f] # "off"
  /\ Sends(f, "running", IF polling[f] = "error" THEN <<Status("running"), statistics>>
                                                ELSE <<statistics>>)

PollFails(f, retryable) ==
  /\ polling[f] # "off"
  /\ Sends(f, "error", <<[type |-> "error", retryable |-> retryable], Status("error")>>)

\* The server process dies with what it had not sent; the extension starts it
\* again and restores the watchers.
ServerRestarts ==
  /\ polling' = [f \in Feeds |-> IF polling[f] = "off" THEN "off" ELSE "running"]
  /\ outbox' = [f \in Feeds |-> IF polling[f] = "off" THEN outbox[f]
                                                     ELSE <<Status("running")>>]
  /\ UNCHANGED <<now, arrival, policy, clientVars>>

----------------------------------------------------------------------------
(* The engine *)

NewMemory == [notified |-> None, lastAlertAt |-> None, consecutive |-> 0,
              pending |-> None, severity |-> "unknown"]

KindOf(fact) ==
  IF fact.state = "error" THEN "error"
  ELSE IF fact.health = None THEN None
  ELSE IF fact.health.late THEN "late"
  ELSE IF fact.health.size \in {"normal", "unknown"} THEN None ELSE "size"

EpisodeOf_LateByGap(fact) ==
  LET kind == KindOf(fact)
      health == fact.health
  IN
  CASE kind = "error" -> [kind |-> kind, of |-> "unknown", at |-> 0]
    [] kind = "late" -> [kind |-> kind, of |-> "since", at |-> health.gap]
    [] kind = "size" -> [kind |-> kind, of |-> health.size, at |-> health.gap]

\* The identity of one continuous problem: lateSince for a late feed, the size
\* status with the gap at the time of the poll for a wrong size, the text of
\* the error, when there is one, for a failure.
EpisodeOf(fact) ==
  LET kind == KindOf(fact)
      health == fact.health
  IN
  CASE kind = "error" ->
         [kind |-> kind, at |-> 0,
          of |-> IF fact.error = None THEN "unknown" ELSE fact.error]
    [] kind = "late" -> [kind |-> kind, of |-> "since", at |-> health.arrived + LateAfter]
    [] kind = "size" -> [kind |-> kind, of |-> health.size, at |-> health.gap]

\* A failing feed is worse when it is not retried; a running one is as bad as
\* its timing and its size.
SeverityOf(fact) ==
  IF fact.state = "error"
  THEN IF fact.retryable = TRUE THEN "warning" ELSE "critical"
  ELSE IF fact.health = None THEN "unknown"
  ELSE IF fact.health.size = "empty" THEN "critical"
  ELSE IF fact.health.late \/ fact.health.size \in {"small", "large"} THEN "warning"
  ELSE "ok"

\* An observation without a problem.
Cleared(entry) ==
  [entry EXCEPT !.consecutive = 0, !.pending = None, !.notified = None]

\* One more observation of a problem; a new episode restarts confirmation.
Counted(entry, episode) ==
  [entry EXCEPT
     !.pending = episode,
     !.consecutive = IF entry.pending # episode THEN 1
                     ELSE IF @ < Confirm THEN @ + 1 ELSE @]

Cool(last) == IF last = None THEN TRUE ELSE now - last >= Cooldown

\* The problem is new, confirmed and outside the cooldown.
Alerts(entry, episode) ==
  /\ entry.notified # episode
  /\ entry.consecutive >= Confirm
  /\ Cool(entry.lastAlertAt)

Notified(entry, episode) ==
  [entry EXCEPT !.notified = episode, !.lastAlertAt = now]

\* The user is alerted to a problem.  An alert to failing polls ends the account of
\* the other problems: what is found after an outage is news again.
Alerted(account, problem) ==
  [times |-> [p \in Problems |->
                IF p = problem THEN IF account.times[p] < 2 THEN account.times[p] + 1 ELSE 2
                ELSE IF problem[1] = "error" THEN 0 ELSE account.times[p]],
   last  |-> now]

\* The problem the facts show, by what caused it rather than by its episode key:
\* the last arrival, or the first of the failures in a row.
ProblemOf(f, fact) ==
  CASE KindOf(fact) = None -> None
    [] KindOf(fact) = "error" ->
         IF seen[f].problem # None /\ seen[f].problem[1] = "error"
         THEN seen[f].problem ELSE <<"error", now>>
    [] OTHER -> <<KindOf(fact), fact.health.arrived>>

Entry_EnabledOnly(f, fact) ==
  LET entry == IF memory[f] = None THEN NewMemory ELSE memory[f]
  IN  IF KindOf(fact) \in policy \cup {None}
      THEN [entry EXCEPT !.severity = SeverityOf(fact)] ELSE entry

\* The feed's memory with the severity of these facts.
Entry(f, fact) ==
  [(IF memory[f] = None THEN NewMemory ELSE memory[f])
     EXCEPT !.severity = SeverityOf(fact)]

\* One observation.  One that shows a problem whose kind is disabled leaves the
\* episode in memory as it was.
Observe(f, fact) ==
  LET entry == Entry(f, fact)
      counted == Counted(entry, EpisodeOf(fact))
      problem == ProblemOf(f, fact)
  IN
  \/ /\ KindOf(fact) = None
     /\ memory' = [memory EXCEPT ![f] = Cleared(entry)]
     /\ UNCHANGED told
  \/ /\ KindOf(fact) # None /\ KindOf(fact) \notin policy
     /\ memory' = [memory EXCEPT ![f] = entry]
     /\ UNCHANGED told
  \/ /\ KindOf(fact) \in policy /\ ~Alerts(counted, EpisodeOf(fact))
     /\ memory' = [memory EXCEPT ![f] = counted]
     /\ UNCHANGED told
  \/ /\ KindOf(fact) \in policy /\ Alerts(counted, EpisodeOf(fact))
     /\ memory' = [memory EXCEPT ![f] = Notified(counted, EpisodeOf(fact))]
     /\ told' = [told EXCEPT ![f] = Alerted(told[f], problem)]

\* seen[f] after a poll: the same problem is seen again, or another, or none.
SeenAfter(f, fact) ==
  LET problem == ProblemOf(f, fact)
      counts == KindOf(fact) \in policy
      before == IF seen[f].problem = problem THEN seen[f].polls ELSE 0
  IN  [problem |-> problem,
       polls |-> IF counts /\ before < Confirm THEN before + 1 ELSE before,
       due |-> counts /\ Cool(told[f].last)]

----------------------------------------------------------------------------
(* The controller *)

NoFacts == [state |-> "running", health |-> None, error |-> None, retryable |-> None]
Facts(f) == IF facts[f] = None THEN NoFacts ELSE facts[f]

\* The next notification about f is of the given type and gives these facts.
Learns(f, type, fact) ==
  /\ outbox[f] # <<>> /\ Head(outbox[f]).type = type
  /\ outbox' = [outbox EXCEPT ![f] = Tail(@)]
  /\ facts' = [facts EXCEPT ![f] = fact]
  /\ Observe(f, fact)
  /\ UNCHANGED <<envVars, policy>>

HandleStatistics(f) ==
  /\ outbox[f] # <<>> /\ Head(outbox[f]).type = "statistics"
  /\ LET fact == [Facts(f) EXCEPT !.health = Head(outbox[f]).health,
                                  !.state = "running", !.error = None]
     IN  /\ Learns(f, "statistics", fact)
         /\ seen' = [seen EXCEPT ![f] = SeenAfter(f, fact)]

\* A status carries no error text: the runtime sends none.
HandleStatus(f) ==
  /\ outbox[f] # <<>> /\ Head(outbox[f]).type = "status"
  /\ LET status == Head(outbox[f]).status IN
     /\ status # "stopped"
     /\ Learns(f, "status",
               [Facts(f) EXCEPT !.state = status, !.error = None,
                                !.retryable = IF status = "error" THEN @ ELSE None])
  /\ UNCHANGED seen

HandleError(f) ==
  /\ outbox[f] # <<>> /\ Head(outbox[f]).type = "error"
  /\ LET fact == [Facts(f) EXCEPT !.state = "error", !.error = "failure",
                                  !.retryable = Head(outbox[f]).retryable]
     IN  /\ Learns(f, "error", fact)
         /\ seen' = [seen EXCEPT ![f] = SeenAfter(f, fact)]

HandleStopped_MemoryKept(f) ==
  /\ outbox[f] # <<>> /\ Head(outbox[f]) = Status("stopped")
  /\ outbox' = [outbox EXCEPT ![f] = Tail(@)]
  /\ facts' = [facts EXCEPT ![f] = None]
  /\ seen' = [seen EXCEPT ![f] = Unseen]
  /\ told' = [told EXCEPT ![f] = Untold]
  /\ UNCHANGED <<envVars, policy, memory>>

\* A stopped feed is forgotten: it leaves the roll-up, its memory goes with it.
HandleStopped(f) ==
  /\ outbox[f] # <<>> /\ Head(outbox[f]) = Status("stopped")
  /\ outbox' = [outbox EXCEPT ![f] = Tail(@)]
  /\ facts' = [facts EXCEPT ![f] = None]
  /\ memory' = [memory EXCEPT ![f] = None]
  /\ seen' = [seen EXCEPT ![f] = Unseen]
  /\ told' = [told EXCEPT ![f] = Untold]
  /\ UNCHANGED <<envVars, policy>>

SetPolicy(enabled) ==
  /\ enabled # policy
  /\ policy' = enabled
  /\ UNCHANGED <<envVars, outbox, clientVars>>

Next ==
  \/ Tick \/ ServerRestarts
  \/ \E f \in Feeds :
       \/ \E size \in Sizes : Arrive(f, size)
       \/ WatchStarts(f) \/ WatchStops(f) \/ PollOk(f)
       \/ \E retryable \in BOOLEAN : PollFails(f, retryable)
       \/ HandleStatistics(f) \/ HandleStatus(f) \/ HandleError(f)
       \/ HandleStopped(f)
  \/ \E enabled \in Policies : SetPolicy(enabled)

Spec == Init /\ [][Next]_vars

----------------------------------------------------------------------------
(* Properties *)

\* json-rpc.md calls lateSince "a durable identity for one lateness episode":
\* however long a feed stays late, and whatever restarts, failed polls and changes
\* of the settings come in between, it is alerted on once while it is watched,
\* unless the user was alerted to failing polls in between.
LateAlertsOnce ==
  \A f \in Feeds, t \in Times : told[f].times[<<"late", t>>] <= 1

\* If Confirm polls in a row found a problem of the kind, and the kind is
\* enabled and the cooldown was over at the last of them, then the user has been
\* alerted to it.
IsTold(kind) ==
  \A f \in Feeds :
    /\ outbox[f] = <<>> /\ seen[f].due /\ seen[f].polls >= Confirm
    /\ seen[f].problem[1] = kind
    => told[f].times[seen[f].problem] >= 1

LateIsTold == IsTold("late")

\* package.json: "Consecutive polls a problem must persist for before
\* alerting"; its list of alerts includes a feed whose polls fail.
ErrorIsTold == IsTold("error")

\* Once its notifications are handled, the status bar shows a watched feed in
\* the state the server has it in, and as severe as its latest facts, also when
\* alerts about it are disabled. A feed that was stopped has left both the facts
\* and the memory the count is taken from.
RollUpIsCurrent ==
  \A f \in Feeds :
    /\ facts[f] = None <=> memory[f] = None
    /\ outbox[f] = <<>> /\ polling[f] = "off" => facts[f] = None
    /\ outbox[f] = <<>> /\ facts[f] # None
         => /\ facts[f].state = polling[f]
            /\ memory[f].severity = SeverityOf(facts[f])
=============================================================================
