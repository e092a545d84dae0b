------------------------------ MODULE Download ------------------------------
(***************************************************************************)
(* Downloads to one destination: object_download relays progress and runs  *)
(* download_object, which streams the object to a temporary file and       *)
(* installs it (crates/s3pulse-core/src/store.rs,                          *)
(* crates/s3pulse-cli/src/rpc/runtime.rs).                                 *)
(*                                                                         *)
(* File operations run on Tokio's blocking pool: an operation whose future *)
(* is dropped still happens.  A write is acknowledged when it is queued,   *)
(* and its error appears at the next operation on the file.                *)
(***************************************************************************)
EXTENDS Integers, Sequences

CONSTANTS
  Downloads,
  Overwrite,       \* the downloads that may replace the destination
  Length,          \* chunks the object has
  Declared,        \* the downloads whose GetObject answer says the length
  Capacity,        \* capacity of the progress channel
  RenameReplaces,  \* whether rename replaces a file: the answers of the platforms
  None

ASSUME DownloadAssumption ==
  /\ Overwrite \cup Declared \subseteq Downloads
  /\ Length \in Nat /\ Capacity \in Nat \ {0}
  /\ RenameReplaces \subseteq BOOLEAN
  /\ Downloads \cap {"nothing", "somebody"} = {}
  /\ None \notin {"stat", "open", "write", "sync", "link", "unlink", "rename", "clear",
                 "ok", "exists", "missing", "error", "failed", "cancelled"}

\* What a rename onto an existing file may do
MayReplace == TRUE \in RenameReplaces
MayRefuse == FALSE \in RenameReplaces

VARIABLES
  dest,       \* the destination: absent, a foreign file, or what was installed
  temp,       \* chunks in the temporary file of each download, or absent
  pool,       \* the file operation of each download on the blocking pool
  outcome,    \* what the last file operation came to
  pc,         \* where download_object is
  count,      \* bytes_transferred, in chunks
  channel,    \* progress samples sent and not relayed
  shown,      \* bytes_transferred of the last progress notification
  cancelled,  \* downloads whose token has fired
  reply,      \* the answer to object.download
  installed,  \* downloads whose file was installed
  kept        \* downloads whose guard could not remove the temporary file

fileVars == <<dest, temp, installed, kept>>
futureVars == <<pc, count, channel>>
vars == <<fileVars, futureVars, pool, outcome, shown, cancelled, reply>>

Absent == -1
NoFile == [of |-> "nothing", chunks |-> 0]
Foreign == [of |-> "somebody", chunks |-> 0]
\* The awaits of stream_download, all of which select on the token.
Streaming == {"get", "open", "read", "write", "flush", "sync"}
Installing == {"link", "unlink", "rename", "inspect", "clear", "rename again"}
Running == {"check"} \cup Streaming \cup Installing
\* Before the temporary file has its guard, and after the guard's drop
Unguarded == {"check", "failed", "done"}
Ended == {"failed", "over"}
Operations == {"stat", "open", "write", "sync", "link", "unlink", "rename", "clear"}

TypeOK ==
  /\ dest \in [of : Downloads \cup {"nothing", "somebody"}, chunks : 0..Length]
  /\ temp \in [Downloads -> Absent..Length]
  /\ pool \in [Downloads -> Operations \cup {None}]
  /\ outcome \in [Downloads -> {"ok", "exists", "missing", "error", None}]
  /\ pc \in [Downloads -> Running \cup {"idle", "failed", "done", "over"}]
  /\ count \in [Downloads -> 0..Length]
  /\ channel \in [Downloads -> Seq(0..Length)]
  /\ \A d \in Downloads : Len(channel[d]) <= Capacity
  /\ shown \in [Downloads -> 0..Length]
  /\ cancelled \subseteq Downloads
  /\ reply \in [Downloads -> {"ok", "failed", "cancelled", None}]
  /\ installed \subseteq Downloads /\ kept \subseteq Downloads

Init ==
  /\ dest \in {NoFile, Foreign}
  /\ temp = [d \in Downloads |-> Absent]
  /\ pool = [d \in Downloads |-> None]
  /\ outcome = [d \in Downloads |-> None]
  /\ pc = [d \in Downloads |-> "idle"]
  /\ count = [d \in Downloads |-> 0]
  /\ channel = [d \in Downloads |-> <<>>]
  /\ shown = [d \in Downloads |-> 0]
  /\ cancelled = {}
  /\ reply = [d \in Downloads |-> None]
  /\ installed = {}
  /\ kept = {}

----------------------------------------------------------------------------
(* The file system and the blocking pool *)

\* Somebody else creates a file at the destination.
OthersWrite ==
  /\ dest = NoFile
  /\ dest' = Foreign
  /\ UNCHANGED <<temp, installed, kept, futureVars, pool, outcome, shown, cancelled, reply>>

Content(d) == [of |-> d, chunks |-> temp[d]]

\* What the operation does to the files when it succeeds.
Succeeds(d, op) ==
  \/ /\ op = "open" /\ temp[d] = Absent
     /\ temp' = [temp EXCEPT ![d] = 0] /\ UNCHANGED <<dest, installed, kept>>
  \/ /\ op = "write"
     /\ temp' = [temp EXCEPT ![d] = IF @ = Absent THEN @ ELSE @ + 1]
     /\ UNCHANGED <<dest, installed, kept>>
  \/ op = "sync" /\ UNCHANGED fileVars
  \/ /\ op = "link" /\ temp[d] # Absent /\ dest = NoFile
     /\ dest' = Content(d) /\ installed' = installed \cup {d} /\ UNCHANGED <<temp, kept>>
  \/ /\ op = "unlink"
     /\ temp' = [temp EXCEPT ![d] = Absent] /\ UNCHANGED <<dest, installed, kept>>
  \/ /\ op = "rename" /\ temp[d] # Absent /\ (dest = NoFile \/ MayReplace)
     /\ dest' = Content(d) /\ temp' = [temp EXCEPT ![d] = Absent]
     /\ installed' = installed \cup {d} /\ UNCHANGED kept
  \/ /\ op = "clear" /\ dest # NoFile
     /\ dest' = NoFile /\ UNCHANGED <<temp, installed, kept>>

\* What the operation came to is the awaiting future's; nobody has it when that ended.
CameTo(d, result) ==
  outcome' = [outcome EXCEPT ![d] = IF pc[d] \in Ended THEN None ELSE result]

\* The pool performs the operation; it may also fail for reasons of its own.
Perform(d) ==
  /\ pool[d] # None
  /\ pool' = [pool EXCEPT ![d] = None]
  /\ \/ Succeeds(d, pool[d]) /\ CameTo(d, "ok")
     \/ /\ pool[d] = "stat" /\ UNCHANGED fileVars
        /\ CameTo(d, IF dest = NoFile THEN "missing" ELSE "exists")
     \/ /\ pool[d] = "link" \/ (pool[d] = "rename" /\ MayRefuse)
        /\ dest # NoFile /\ UNCHANGED fileVars
        /\ CameTo(d, "exists")
     \/ CameTo(d, "error") /\ UNCHANGED fileVars
  /\ UNCHANGED <<futureVars, shown, cancelled, reply>>

----------------------------------------------------------------------------
(* download_object *)

\* Awaits a file operation, the last one having come to the given outcome.
Resumes(d, step, result) ==
  pc[d] = step /\ pool[d] = None /\ outcome[d] = result

Issues(d, step, op) ==
  /\ pc' = [pc EXCEPT ![d] = step]
  /\ pool' = [pool EXCEPT ![d] = op]
  /\ outcome' = [outcome EXCEPT ![d] = None]

Cleanup_None(d) == UNCHANGED <<temp, kept>>

\* The guard's drop removes the temporary file if it exists at that moment; when
\* it cannot, it says so in the log and no more.
Cleanup(d) ==
  \/ temp' = [temp EXCEPT ![d] = Absent] /\ UNCHANGED kept
  \/ temp[d] # Absent /\ kept' = kept \cup {d} /\ UNCHANGED temp

\* An early return of an error, the guard being there.
Fails(d) ==
  /\ pc' = [pc EXCEPT ![d] = "failed"]
  /\ outcome' = [outcome EXCEPT ![d] = None]
  /\ Cleanup(d)
  /\ UNCHANGED <<dest, installed, count, channel, pool, shown, cancelled, reply>>

\* An early return of an error before the temporary file has a guard.
Refuses(d) ==
  /\ pc' = [pc EXCEPT ![d] = "failed"]
  /\ outcome' = [outcome EXCEPT ![d] = None]
  /\ UNCHANGED <<fileVars, count, channel, pool, shown, cancelled, reply>>

\* A source without a key is refused.  Only a download that may not overwrite
\* looks at the destination first.
Begin(d) ==
  /\ pc[d] = "idle"
  /\ \/ Refuses(d)
     \/ /\ d \in Overwrite
        /\ pc' = [pc EXCEPT ![d] = "get"]
        /\ UNCHANGED <<fileVars, count, channel, pool, outcome, shown,
                       cancelled, reply>>
     \/ /\ d \notin Overwrite /\ Issues(d, "check", "stat")
        /\ UNCHANGED <<fileVars, count, channel, shown, cancelled, reply>>

Check(d) ==
  \/ /\ Resumes(d, "check", "missing")
     /\ pc' = [pc EXCEPT ![d] = "get"]
     /\ UNCHANGED <<fileVars, count, channel, pool, outcome, shown, cancelled, reply>>
  \/ (Resumes(d, "check", "exists") \/ Resumes(d, "check", "error")) /\ Refuses(d)

\* GetObject is answered, or fails.
Get(d) ==
  /\ pc[d] = "get"
  /\ \/ /\ Issues(d, "open", "open")
        /\ UNCHANGED <<fileVars, count, channel, shown, cancelled, reply>>
     \/ Fails(d)

Open(d) ==
  \/ /\ Resumes(d, "open", "ok")
     /\ pc' = [pc EXCEPT ![d] = "read"]
     /\ UNCHANGED <<fileVars, count, channel, pool, outcome, shown, cancelled, reply>>
  \/ Resumes(d, "open", "error") /\ Fails(d)

\* The body yields a chunk, ends (early if the connection does), or fails.
Read(d) ==
  /\ pc[d] = "read"
  /\ \/ \E step \in {"write", "flush"} :
          /\ step = "write" => count[d] < Length
          /\ pc' = [pc EXCEPT ![d] = step]
          /\ UNCHANGED <<fileVars, count, channel, pool, outcome, shown,
                         cancelled, reply>>
     \/ Fails(d)

\* try_send: a sample that finds the channel full is dropped.
Sent(queue, sample) ==
  IF Len(queue) < Capacity THEN Append(queue, sample) ELSE queue

\* The write waits for the one before it and takes over its error.
Write(d) ==
  \/ /\ Resumes(d, "write", "ok")
     /\ Issues(d, "read", "write")
     /\ count' = [count EXCEPT ![d] = @ + 1]
     /\ channel' = [channel EXCEPT ![d] = Sent(@, count[d] + 1)]
     /\ UNCHANGED <<fileVars, shown, cancelled, reply>>
  \/ Resumes(d, "write", "error") /\ Fails(d)

\* flush waits for the last write.
Flush(d) ==
  \/ /\ Resumes(d, "flush", "ok")
     /\ Issues(d, "sync", "sync")
     /\ UNCHANGED <<fileVars, count, channel, shown, cancelled, reply>>
  \/ Resumes(d, "flush", "error") /\ Fails(d)

\* bytes_transferred is the declared length, if one was declared.
LengthMatches(d) == d \in Declared => count[d] = Length

Sync_NoLengthCheck(d) ==
  LET install == IF d \in Overwrite THEN "rename" ELSE "link" IN
  /\ Resumes(d, "sync", "ok")
  /\ Issues(d, install, install)
  /\ UNCHANGED <<fileVars, count, channel, shown, cancelled, reply>>

Sync_AlwaysRename(d) ==
  /\ Resumes(d, "sync", "ok") /\ LengthMatches(d)
  /\ Issues(d, "rename", "rename")
  /\ UNCHANGED <<fileVars, count, channel, shown, cancelled, reply>>

\* What was counted is compared with the declared length, if there is one, before
\* the file is installed.
Sync(d) ==
  LET install == IF d \in Overwrite THEN "rename" ELSE "link" IN
  \/ /\ Resumes(d, "sync", "ok") /\ LengthMatches(d)
     /\ Issues(d, install, install)
     /\ UNCHANGED <<fileVars, count, channel, shown, cancelled, reply>>
  \/ Resumes(d, "sync", "ok") /\ ~LengthMatches(d) /\ Fails(d)
  \/ Resumes(d, "sync", "error") /\ Fails(d)

\* The last sample goes out with the result; the guard is dropped.
Completes(d) ==
  /\ pc' = [pc EXCEPT ![d] = "done"]
  /\ channel' = [channel EXCEPT ![d] = Sent(@, count[d])]
  /\ Cleanup(d)
  /\ outcome' = [outcome EXCEPT ![d] = None]
  /\ UNCHANGED <<dest, installed, count, pool, shown, cancelled, reply>>

Link_AnyOutcome(d) ==
  /\ pc[d] = "link" /\ pool[d] = None
  /\ Issues(d, "unlink", "unlink")
  /\ UNCHANGED <<fileVars, count, channel, shown, cancelled, reply>>

\* install_without_overwrite
Link(d) ==
  \/ /\ Resumes(d, "link", "ok")
     /\ Issues(d, "unlink", "unlink")
     /\ UNCHANGED <<fileVars, count, channel, shown, cancelled, reply>>
  \/ (Resumes(d, "link", "exists") \/ Resumes(d, "link", "error")) /\ Fails(d)

Unlink(d) ==
  \/ Resumes(d, "unlink", "ok") /\ Completes(d)
  \/ Resumes(d, "unlink", "error") /\ Fails(d)

\* replace_file: where rename does not replace, the destination is inspected and
\* removed first.
Rename(d) ==
  \/ Resumes(d, "rename", "ok") /\ Completes(d)
  \/ /\ Resumes(d, "rename", "exists")
     /\ Issues(d, "inspect", "stat")
     /\ UNCHANGED <<fileVars, count, channel, shown, cancelled, reply>>
  \/ Resumes(d, "rename", "error") /\ Fails(d)

Inspect(d) ==
  \/ /\ Resumes(d, "inspect", "exists")
     /\ Issues(d, "clear", "clear")
     /\ UNCHANGED <<fileVars, count, channel, shown, cancelled, reply>>
  \/ (Resumes(d, "inspect", "missing") \/ Resumes(d, "inspect", "error")) /\ Fails(d)

Clear(d) ==
  \/ /\ Resumes(d, "clear", "ok")
     /\ Issues(d, "rename again", "rename")
     /\ UNCHANGED <<fileVars, count, channel, shown, cancelled, reply>>
  \/ Resumes(d, "clear", "error") /\ Fails(d)

RenameAgain(d) ==
  \/ Resumes(d, "rename again", "ok") /\ Completes(d)
  \/ (Resumes(d, "rename again", "exists") \/ Resumes(d, "rename again", "error"))
       /\ Fails(d)

SeeCancel_OpenOnly(d) ==
  /\ d \in cancelled /\ pc[d] \in {"get", "open"}
  /\ Fails(d)

\* Every await of stream_download selects on the token.
SeeCancel(d) ==
  /\ d \in cancelled /\ pc[d] \in Streaming
  /\ Fails(d)

----------------------------------------------------------------------------
(* object_download *)

\* The progress a sample carries reaches the client as a notification.
Relay(d) ==
  /\ pc[d] \in Running /\ channel[d] # <<>>
  /\ shown' = [shown EXCEPT ![d] = Head(channel[d])]
  /\ channel' = [channel EXCEPT ![d] = Tail(@)]
  /\ UNCHANGED <<fileVars, pc, count, pool, outcome, cancelled, reply>>

LastSample(d) ==
  IF channel[d] = <<>> THEN shown[d] ELSE channel[d][Len(channel[d])]

Finish_NotDrained(d) ==
  /\ pc[d] \in {"failed", "done"}
  /\ shown' = [shown EXCEPT ![d] = IF pc[d] = "done" THEN count[d] ELSE 0]
  /\ reply' = [reply EXCEPT ![d] = IF pc[d] = "done" THEN "ok" ELSE "failed"]
  /\ pc' = [pc EXCEPT ![d] = "over"]
  /\ channel' = [channel EXCEPT ![d] = <<>>]
  /\ UNCHANGED <<fileVars, count, pool, outcome, cancelled>>

\* The channel is drained into bytes_seen, the last notification carries the
\* byte count of the result or of the last sample, and the request is answered.
Finish(d) ==
  /\ pc[d] \in {"failed", "done"}
  /\ shown' = [shown EXCEPT ![d] = IF pc[d] = "done" THEN count[d] ELSE LastSample(d)]
  /\ reply' = [reply EXCEPT ![d] = IF pc[d] = "done" THEN "ok" ELSE "failed"]
  /\ pc' = [pc EXCEPT ![d] = "over"]
  /\ channel' = [channel EXCEPT ![d] = <<>>]
  /\ UNCHANGED <<fileVars, count, pool, outcome, cancelled>>

Cancel(d) ==
  /\ d \notin cancelled /\ pc[d] \notin {"idle", "over"}
  /\ cancelled' = cancelled \cup {d}
  /\ UNCHANGED <<fileVars, futureVars, pool, outcome, shown, reply>>

\* The cancellation grace ends: the transport drops the handler where it is.
\* The operation it had on the pool stays there; the guard goes with the handler.
Drop(d) ==
  /\ d \in cancelled /\ pc[d] \notin {"idle", "over"}
  /\ pc' = [pc EXCEPT ![d] = "over"]
  /\ reply' = [reply EXCEPT ![d] = "cancelled"]
  /\ channel' = [channel EXCEPT ![d] = <<>>]
  /\ IF pc[d] \in Unguarded THEN UNCHANGED <<temp, kept>> ELSE Cleanup(d)
  /\ outcome' = [outcome EXCEPT ![d] = None]
  /\ UNCHANGED <<dest, installed, count, pool, shown, cancelled>>

Advance(d) ==
  \/ Check(d) \/ Open(d) \/ Write(d) \/ Flush(d) \/ Sync(d) \/ Link(d)
  \/ Unlink(d) \/ Rename(d) \/ Inspect(d) \/ Clear(d) \/ RenameAgain(d) \/ Finish(d)

Over == \A d \in Downloads : pc[d] = "over" /\ pool[d] = None

DownloadNext(d) ==
  \/ Begin(d) \/ Get(d) \/ Read(d) \/ Advance(d) \/ SeeCancel(d)
  \/ Relay(d) \/ Perform(d) \/ Cancel(d) \/ Drop(d)

Next ==
  \/ \E d \in Downloads : DownloadNext(d)
  \/ OthersWrite
  \/ Over /\ UNCHANGED vars

Spec == Init /\ [][Next]_vars

(***************************************************************************)
(* Fairness.  The blocking pool performs what is queued and a future that  *)
(* is woken is polled again.  The network may stay silent (Get and Read    *)
(* are not fair), and the grace is not relied upon (Drop is not fair).     *)
(***************************************************************************)
Fairness ==
  \A d \in Downloads :
    WF_vars(Perform(d)) /\ WF_vars(Advance(d)) /\ WF_vars(SeeCancel(d))

FairSpec == Spec /\ Fairness

----------------------------------------------------------------------------
(* The inductive strengthening of the properties of the destination *)

Replacing == {"rename", "inspect", "clear", "rename again"}
\* The operation on the pool is the one the future awaits at its step; the last
\* write is awaited by the step after it, and a future that ended may have left
\* any behind.
PoolAt(d) ==
  /\ pc[d] \in {"read", "write", "flush"} => pool[d] \in {"write", None}
  /\ pool[d] = "stat" => pc[d] \in {"check", "inspect"} \cup Ended
  /\ pool[d] = "write" => pc[d] \in {"read", "write", "flush"} \cup Ended
  /\ pool[d] = "rename" => pc[d] \in {"rename", "rename again"} \cup Ended
  /\ pool[d] \in {"open", "sync", "link", "unlink", "clear"} =>
       pc[d] \in {pool[d]} \cup Ended

PoolFollows == \A d \in Downloads : PoolAt(d)

\* Only a download that may overwrite replaces the destination, and it removes it
\* first only where rename does not replace.
AllowedAt(d) ==
  /\ pc[d] \in Replacing \/ pool[d] \in {"rename", "clear"} => d \in Overwrite
  /\ pc[d] \in Replacing \ {"rename"} \/ pool[d] = "clear" => MayRefuse
  /\ pc[d] = "rename" /\ outcome[d] = "exists" => MayRefuse

ReplacingIsAllowed == \A d \in Downloads : AllowedAt(d)

\* The temporary file holds what was counted, the chunk on its way excepted, and
\* all of it when it can be installed; when the future has ended it is gone, but for
\* an empty one or one that the guard could not remove.
TempAt(d) ==
  /\ pc[d] \in {"idle", "check", "get"} => temp[d] = Absent
  /\ pc[d] \in {"idle", "check", "get", "open"} =>
       count[d] = 0 /\ temp[d] \in {Absent, 0}
  /\ pc[d] \in {"read", "write", "flush", "sync"} =>
       \/ pool[d] # "write" /\ temp[d] \in {Absent, count[d]}
       \/ /\ pool[d] = "write" \/ (pc[d] # "sync" /\ outcome[d] = "error")
          /\ temp[d] \in {Absent, count[d] - 1}
  /\ pc[d] \in Installing \/ pool[d] \in {"link", "rename"} =>
       temp[d] \in {Absent, count[d]} /\ LengthMatches(d)
  /\ pc[d] \in Ended /\ d \notin kept =>
       temp[d] \in {Absent, 0} /\ (pool[d] # None => temp[d] = Absent)
  /\ pc[d] = "write" => count[d] < Length

TempFollows == \A d \in Downloads : TempAt(d)

\* The future has installed its file when it says so, has removed the temporary
\* one when a step of it says so, and counts no more once it has installed.
InstalledAt(d) ==
  /\ pc[d] \in {"link", "rename", "rename again"} /\ outcome[d] = "ok" => d \in installed
  /\ pc[d] \in {"unlink", "rename", "rename again"} /\ outcome[d] = "ok" =>
       temp[d] = Absent
  /\ pc[d] \in {"unlink", "done"} => d \in installed
  /\ pc[d] = "done" => temp[d] = Absent /\ pool[d] = None
  /\ reply[d] = "ok" =>
       pc[d] = "over" /\ temp[d] = Absent /\ pool[d] = None /\ d \in installed
  /\ d \in installed => /\ pc[d] \in Installing \cup {"done"} \cup Ended
                        /\ LengthMatches(d)

InstalledFollows == \A d \in Downloads : InstalledAt(d)

----------------------------------------------------------------------------
(* Properties *)

\* Whatever fails, is cancelled or dropped, an installed file has every chunk that
\* its download counted and, when GetObject declared a length, all of that length.
\* (Without a declared length, a body that ends early cannot be told from a whole one.)
DestinationComplete ==
  dest.of \in Downloads =>
    /\ dest.chunks = count[dest.of]
    /\ dest.of \in Declared => dest.chunks = Length

\* A download that may not overwrite leaves an existing destination alone, even
\* one that appeared while it was streaming: whoever replaces it, or removes it
\* where rename does not replace, is a download that may overwrite.
NoClobber ==
  [][dest # NoFile /\ dest' # dest =>
       \E d \in Overwrite :
         \/ dest'.of = d
         \/ dest' = NoFile /\ MayRefuse /\ pool[d] = "clear" /\ pool'[d] = None]_vars

\* A download answered with success has installed its file and left no temporary
\* one; one that is over otherwise leaves partial data behind only when the guard
\* could not remove it, and at worst the empty file that an abandoned open creates
\* afterwards.
OutcomeIsTrue ==
  \A d \in Downloads :
    /\ reply[d] = "ok" => d \in installed /\ temp[d] = Absent
    /\ pc[d] = "over" => temp[d] <= 0 \/ d \in kept

\* The progress a client sees never runs backwards or past the object, the last
\* notification included, although samples may be dropped.
ProgressMonotone ==
  [][\A d \in Downloads : shown[d] <= shown'[d] /\ shown'[d] <= Length]_vars

\* A cancelled download ends, even if the network never answers.
CancelledEnds == \A d \in Downloads : d \in cancelled ~> pc[d] = "over"

=============================================================================
