--------------------------- MODULE WatchRegistry ---------------------------
(***************************************************************************)
(* What the watcher supervisor promises, without its locks, tasks and      *)
(* await points: sessions take an id, poll, and give the id back.          *)
(* WatchRuntime implements it.                                             *)
(***************************************************************************)
EXTENDS Naturals, FiniteSets

CONSTANTS Sessions, Ids, Limit, NoSession

VARIABLES
  holder,  \* the session each id belongs to
  life,    \* each session: "new", "polling" or "ended"
  told     \* sessions told to stop

vars == <<holder, life, told>>

Holds(s) == \E i \in Ids : holder[i] = s
Taken == {i \in Ids : holder[i] # NoSession}

Init ==
  /\ holder = [i \in Ids |-> NoSession]
  /\ life = [s \in Sessions |-> "new"]
  /\ told = {}

\* A free id is taken, as long as fewer than Limit are.
Take(s, i) ==
  /\ holder[i] = NoSession /\ life[s] = "new" /\ ~Holds(s)
  /\ Cardinality(Taken) < Limit
  /\ holder' = [holder EXCEPT ![i] = s]
  /\ UNCHANGED <<life, told>>

\* A session begins to poll once, and only while it holds its id or after it was
\* told to stop, when it will see so before long.
Begin(s) ==
  /\ life[s] = "new" /\ (Holds(s) \/ s \in told)
  /\ life' = [life EXCEPT ![s] = "polling"]
  /\ UNCHANGED <<holder, told>>

\* Only the holder of an id is told to stop.
Tell(s) ==
  /\ Holds(s)
  /\ told' = told \cup {s}
  /\ UNCHANGED <<holder, life>>

\* A session stops polling only because it was told to.
End(s) ==
  /\ life[s] = "polling" /\ s \in told
  /\ life' = [life EXCEPT ![s] = "ended"]
  /\ UNCHANGED <<holder, told>>

\* An id is given back only by a session that was told to stop.
GiveBack(i) ==
  /\ holder[i] \in told
  /\ holder' = [holder EXCEPT ![i] = NoSession]
  /\ UNCHANGED <<life, told>>

Next ==
  \/ \E s \in Sessions : Begin(s) \/ Tell(s) \/ End(s)
  \/ \E s \in Sessions, i \in Ids : Take(s, i)
  \/ \E i \in Ids : GiveBack(i)

Spec == Init /\ [][Next]_vars
=============================================================================
