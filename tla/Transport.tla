----------------------------- MODULE Transport -----------------------------
(***************************************************************************)
(* The JSON-RPC connection: serve_with_limit, which reads one protocol     *)
(* line at a time, admits requests up to a limit, runs each in a task of   *)
(* its own, routes $/cancelRequest to the task's token and drains at EOF   *)
(* (crates/s3pulse-cli/src/rpc/transport.rs).                              *)
(*                                                                         *)
(* The client may use an id again at any time, before or after its answer, *)
(* and cancel any id.  Handlers may fail, ignore their token, or never     *)
(* return.                                                                 *)
(***************************************************************************)
EXTENDS Integers, FiniteSets, Sequences

CONSTANTS
  Reqs,           \* requests the client may send
  Ids,            \* request ids
  NoId,           \* the id of a JSON-RPC notification
  NoReq,          \* absence of a request
  MaxConcurrent,  \* max_concurrent_requests
  PipeCapacity    \* lines the client may have written ahead of the reader

ASSUME ConstantsAssumption ==
  /\ IsFiniteSet(Reqs)
  /\ NoId \notin Ids
  /\ NoReq \notin Reqs
  /\ MaxConcurrent \in Nat \ {0}
  /\ PipeCapacity \in Nat \ {0}

VARIABLES
  inbox,      \* protocol lines written by the client and not read yet
  closed,     \* whether the client closed its end of the input
  pipe,       \* whether the output can still be written
  phase,      \* where serve_with_limit is
  idOf,       \* the id of each request sent
  inFlight,   \* in_flight: the request whose token is stored under an id
  cancelled,  \* requests whose cancellation token has fired
  permits,    \* free permits of the semaphore
  task,       \* the life of each request
  result,     \* what the request is, or will be, answered with
  wanted      \* requests the client asked to cancel while unanswered

clientVars == <<inbox, closed, idOf, wanted>>
vars == <<clientVars, pipe, phase, inFlight, cancelled, permits, task, result>>

Lines == {<<"request", r>> : r \in Reqs} \cup {<<"cancel", i>> : i \in Ids}
           \cup {<<"malformed", NoReq>>}
Phases == {"reading", "draining", "cancelling", "ended", "failed"}
TaskSteps == {"running", "grace", "answer", "written"}
TaskStates == {"unsent", "sent", "refused", "done", "aborted"} \cup TaskSteps
Results == {"none", "ok", "error", "cancelled", "busy", "duplicate", "lost"}

Shape ==
  /\ inbox \in Seq(Lines)
  /\ closed \in BOOLEAN
  /\ pipe \in {"open", "broken"}
  /\ phase \in Phases
  /\ idOf \in [Reqs -> Ids \cup {NoId}]
  /\ inFlight \in [Ids -> Reqs \cup {NoReq}]
  /\ cancelled \subseteq Reqs
  /\ permits \in Int
  /\ task \in [Reqs -> TaskStates]
  /\ result \in [Reqs -> Results]
  /\ wanted \subseteq Reqs

TypeOK == Shape /\ permits \in 0..MaxConcurrent

Init ==
  /\ inbox = <<>>
  /\ closed = FALSE
  /\ pipe = "open"
  /\ phase = "reading"
  /\ idOf = [r \in Reqs |-> NoId]
  /\ inFlight = [i \in Ids |-> NoReq]
  /\ cancelled = {}
  /\ permits = MaxConcurrent
  /\ task = [r \in Reqs |-> "unsent"]
  /\ result = [r \in Reqs |-> "none"]
  /\ wanted = {}

\* Requests whose handler is running, or being given its grace.
Operating == {r \in Reqs : task[r] \in {"running", "grace"}}
\* Requests whose task has not ended.
Active == {r \in Reqs : task[r] \in TaskSteps}
\* The client has read the answer, or will never get one.
Answered(r) == task[r] \in {"refused", "written", "done"}
Unanswered(r) == task[r] # "unsent" /\ ~Answered(r)

----------------------------------------------------------------------------
(* The client *)

ClientWrites(line) ==
  /\ ~closed
  /\ Len(inbox) < PipeCapacity
  /\ inbox' = Append(inbox, line)
  /\ UNCHANGED closed

ClientSend(r, i) ==
  /\ task[r] = "unsent"
  /\ ClientWrites(<<"request", r>>)
  /\ idOf' = [idOf EXCEPT ![r] = i]
  /\ task' = [task EXCEPT ![r] = "sent"]
  /\ UNCHANGED <<wanted, pipe, phase, inFlight, cancelled, permits, result>>

\* The cancel is meant for every request that waits for an answer under the id.
ClientCancel(i) ==
  /\ wanted' = wanted \cup {r \in Reqs : idOf[r] = i /\ Unanswered(r)}
  /\ ClientWrites(<<"cancel", i>>)
  /\ UNCHANGED <<idOf, pipe, phase, inFlight, cancelled, permits, task, result>>

ClientGarbage ==
  /\ ClientWrites(<<"malformed", NoReq>>)
  /\ UNCHANGED <<idOf, wanted, pipe, phase, inFlight, cancelled, permits, task, result>>

ClientClose ==
  /\ ~closed
  /\ closed' = TRUE
  /\ UNCHANGED <<inbox, idOf, wanted, pipe, phase, inFlight, cancelled,
                 permits, task, result>>

\* The client is gone: whatever is written from now on fails.
PipeBreaks ==
  /\ closed /\ pipe = "open"
  /\ pipe' = "broken"
  /\ UNCHANGED <<clientVars, phase, inFlight, cancelled, permits, task, result>>

----------------------------------------------------------------------------
(* The reader loop *)

Reads(kind) ==
  /\ phase = "reading"
  /\ inbox # <<>>
  /\ Head(inbox)[1] = kind
  /\ inbox' = Tail(inbox)
  /\ UNCHANGED <<closed, idOf, wanted>>

\* serve_with_limit returns early and drops its JoinSet, which aborts every
\* task; the process ends with it.
Fails ==
  /\ phase' = "failed"
  /\ task' = [r \in Reqs |-> IF task[r] \in TaskSteps THEN "aborted" ELSE task[r]]
  /\ UNCHANGED <<inFlight, cancelled, permits, result>>

Refuse(r, why) ==
  /\ task' = [task EXCEPT ![r] = "refused"]
  /\ result' = [result EXCEPT ![r] = why]
  /\ UNCHANGED <<phase, inFlight, cancelled, permits>>

Admit(r) ==
  /\ permits' = permits - 1
  /\ inFlight' = IF idOf[r] = NoId THEN inFlight
                                   ELSE [inFlight EXCEPT ![idOf[r]] = r]
  /\ task' = [task EXCEPT ![r] = "running"]
  /\ UNCHANGED <<phase, cancelled, result>>

\* A request is refused when no permit is free (silently if it has no id), or
\* when its id is still in the in-flight map; a refusal that cannot be written
\* ends the connection.
ReadRequest ==
  LET r == Head(inbox)[2] IN
  /\ Reads("request")
  /\ \/ permits = 0 /\ (pipe = "open" \/ idOf[r] = NoId) /\ Refuse(r, "busy")
     \/ permits = 0 /\ pipe = "broken" /\ idOf[r] # NoId /\ Fails
     \/ permits > 0 /\ idOf[r] = NoId /\ Admit(r)
     \/ /\ permits > 0 /\ idOf[r] # NoId
        /\ \/ inFlight[idOf[r]] = NoReq /\ Admit(r)
           \/ /\ inFlight[idOf[r]] # NoReq
              /\ IF pipe = "open" THEN Refuse(r, "duplicate") ELSE Fails
  /\ UNCHANGED pipe

ReadCancel_Connection ==
  /\ Reads("cancel")
  /\ cancelled' = cancelled \cup Active
  /\ UNCHANGED <<pipe, phase, inFlight, permits, task, result>>

\* The token of the request in flight under the id fires, if there is one.
ReadCancel ==
  LET r == inFlight[Head(inbox)[2]] IN
  /\ Reads("cancel")
  /\ cancelled' = IF r = NoReq THEN cancelled ELSE cancelled \cup {r}
  /\ UNCHANGED <<pipe, phase, inFlight, permits, task, result>>

\* An oversized, unparsable or invalid line is answered with an error and
\* skipped.
ReadMalformed ==
  /\ Reads("malformed")
  /\ IF pipe = "open"
     THEN UNCHANGED <<phase, inFlight, cancelled, permits, task, result>>
     ELSE Fails
  /\ UNCHANGED pipe

ReadEof ==
  /\ phase = "reading" /\ inbox = <<>> /\ closed
  /\ phase' = "draining"
  /\ UNCHANGED <<clientVars, pipe, inFlight, cancelled, permits, task, result>>

ReadFails ==
  /\ phase = "reading"
  /\ Fails
  /\ UNCHANGED <<clientVars, pipe>>

----------------------------------------------------------------------------
(* The task of one request *)

\* The operation ends: its permit is released before the answer is written.
Decide(r, outcome) ==
  /\ task' = [task EXCEPT ![r] = "answer"]
  /\ result' = [result EXCEPT ![r] = outcome]
  /\ permits' = permits + 1
  /\ UNCHANGED <<clientVars, pipe, phase, inFlight, cancelled>>

HandlerReturns(r) ==
  /\ task[r] = "running"
  /\ \E outcome \in {"ok", "error"} : Decide(r, outcome)

SeeCancel_FreesPermit(r) ==
  /\ task[r] = "running" /\ r \in cancelled
  /\ task' = [task EXCEPT ![r] = "grace"]
  /\ permits' = permits + 1
  /\ UNCHANGED <<clientVars, pipe, phase, inFlight, cancelled, result>>

SeeCancel(r) ==
  /\ task[r] = "running" /\ r \in cancelled
  /\ task' = [task EXCEPT ![r] = "grace"]
  /\ UNCHANGED <<clientVars, pipe, phase, inFlight, cancelled, permits, result>>

\* A handler that ends within the grace: success is passed on, failure is
\* reported as a cancellation.
GraceReturns(r) ==
  /\ task[r] = "grace"
  /\ \E outcome \in {"ok", "cancelled"} : Decide(r, outcome)

GraceExpires_OnlyAtClose(r) ==
  /\ task[r] = "grace" /\ phase = "cancelling"
  /\ Decide(r, "cancelled")

GraceExpires(r) ==
  /\ task[r] = "grace"
  /\ Decide(r, "cancelled")

\* A notification has no answer; a failed write is only logged.
WriteAnswer(r) ==
  /\ task[r] = "answer"
  /\ task' = [task EXCEPT ![r] = IF idOf[r] = NoId THEN "done" ELSE "written"]
  /\ result' = [result EXCEPT ![r] = IF pipe = "open" \/ idOf[r] = NoId
                                  THEN @ ELSE "lost"]
  /\ UNCHANGED <<clientVars, pipe, phase, inFlight, cancelled, permits>>

Unregister_Skipped(r) ==
  /\ task[r] = "written"
  /\ task' = [task EXCEPT ![r] = "done"]
  /\ UNCHANGED <<clientVars, pipe, phase, inFlight, cancelled, permits, result>>

\* The id leaves the in-flight map only after its answer was written.
Unregister(r) ==
  /\ task[r] = "written"
  /\ task' = [task EXCEPT ![r] = "done"]
  /\ inFlight' = [inFlight EXCEPT ![idOf[r]] = NoReq]
  /\ UNCHANGED <<clientVars, pipe, phase, cancelled, permits, result>>

----------------------------------------------------------------------------
(* The end of the connection *)

CancelAll_NotChildren ==
  /\ phase = "draining"
  /\ phase' = "cancelling"
  /\ UNCHANGED <<clientVars, pipe, inFlight, cancelled, permits, task, result>>

\* When every task has ended or the grace has passed, the connection's token
\* fires, and with it the token of every request.
CancelAll ==
  /\ phase = "draining"
  /\ phase' = "cancelling"
  /\ cancelled' = cancelled \cup Active
  /\ UNCHANGED <<clientVars, pipe, inFlight, permits, task, result>>

End_NoJoin ==
  /\ phase = "cancelling"
  /\ phase' = "ended"
  /\ task' = [r \in Reqs |-> IF r \in Active THEN "aborted" ELSE task[r]]
  /\ UNCHANGED <<clientVars, pipe, inFlight, cancelled, permits, result>>

End ==
  /\ phase = "cancelling" /\ Active = {}
  /\ phase' = "ended"
  /\ UNCHANGED <<clientVars, pipe, inFlight, cancelled, permits, task, result>>

Over == phase \in {"ended", "failed"} /\ UNCHANGED vars

ClientNext ==
  \/ \E r \in Reqs, i \in Ids \cup {NoId} : ClientSend(r, i)
  \/ \E i \in Ids : ClientCancel(i)
  \/ ClientGarbage \/ ClientClose \/ PipeBreaks

ReaderNext ==
  \/ ReadRequest \/ ReadCancel \/ ReadMalformed \/ ReadEof \/ ReadFails
  \/ CancelAll \/ End

TaskNext(r) ==
  \/ HandlerReturns(r) \/ SeeCancel(r) \/ GraceReturns(r) \/ GraceExpires(r)
  \/ WriteAnswer(r) \/ Unregister(r)

Next == ClientNext \/ ReaderNext \/ (\E r \in Reqs : TaskNext(r)) \/ Over

Spec == Init /\ [][Next]_vars

(***************************************************************************)
(* Fairness.  The reader, the drain and each task's own steps are run by   *)
(* Tokio; the grace and shutdown timers fire.  Nothing is assumed of the   *)
(* client or of handlers: HandlerReturns and GraceReturns are not fair.    *)
(***************************************************************************)
Fairness ==
  /\ WF_vars(ReadRequest \/ ReadCancel \/ ReadMalformed \/ ReadEof)
  /\ WF_vars(CancelAll) /\ WF_vars(End)
  /\ \A r \in Reqs : /\ WF_vars(SeeCancel(r)) /\ WF_vars(GraceExpires(r))
                     /\ WF_vars(WriteAnswer(r)) /\ WF_vars(Unregister(r))

FairSpec == Spec /\ Fairness

----------------------------------------------------------------------------
(* The inductive strengthening of InFlightExact *)

\* A request line waiting in the input is that of a request sent once.
InboxSent ==
  \A k \in 1..Len(inbox) : inbox[k][1] = "request" =>
    /\ task[inbox[k][2]] = "sent"
    /\ \A l \in 1..Len(inbox) : inbox[l] = inbox[k] => l = k

----------------------------------------------------------------------------
(* Properties *)

\* While a request with an id is being worked on, the in-flight map holds it
\* under that id, so $/cancelRequest reaches exactly this request; and the map
\* holds nothing else.
InFlightExact ==
  phase # "failed" =>
    \A i \in Ids, r \in Reqs :
      inFlight[i] = r <=> idOf[r] = i /\ r \in Active

\* Permits are neither lost nor duplicated, whichever way a request ends.
PermitsConserved ==
  phase # "failed" => permits + Cardinality(Operating) = MaxConcurrent

\* A request is answered as cancelled only if the client asked for it, or the
\* connection is closing: a cancel for an earlier request with the same id, or
\* for another id, never hits it.
CancelHitsOnlyItsRequest ==
  \A r \in Reqs : result[r] = "cancelled" =>
    r \in wanted \/ phase \notin {"reading", "draining"}

\* A request is refused as busy only while the limit of operations is running:
\* an operation whose answer is still to be written holds no permit.
BusyOnlyAtLimit ==
  [][\A r \in Reqs : result'[r] = "busy" /\ result[r] # "busy"
       => Cardinality(Operating) = MaxConcurrent]_vars

\* A connection that ends in order has read every line sent before EOF and has
\* answered every request it admitted, unless the output was broken.
EndAnswersAll ==
  phase = "ended" =>
    \A r \in Reqs : /\ task[r] \in {"unsent", "refused", "done"}
                    /\ result[r] = "lost" => pipe = "broken"

\* A cancelled request ends, even if its handler ignores the token.
CancelledRequestEnds ==
  \A r \in Reqs : r \in cancelled ~> task[r] \in {"done", "aborted"}

\* After EOF the connection ends, even if handlers hang.
ServeEnds == closed ~> phase \in {"ended", "failed"}

=============================================================================
