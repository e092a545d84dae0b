-------------------------- MODULE Download_proofs --------------------------
(* Machine-checked proofs about Download, for any number of downloads and   *)
(* any length, whether or not rename replaces.                              *)
EXTENDS Download, TLAPS

\* The counters are integers and the rest are functions on the downloads.
Shape ==
  /\ temp \in [Downloads -> Int]
  /\ count \in [Downloads -> Int]
  /\ pool = [e \in Downloads |-> pool[e]]
  /\ outcome = [e \in Downloads |-> outcome[e]]
  /\ pc = [e \in Downloads |-> pc[e]]
  /\ reply = [e \in Downloads |-> reply[e]]

\* A failure leaves them in shape.
LEMMA FailingShape ==
  ASSUME Shape, NEW d \in Downloads, Fails(d)
  PROVE  Shape'
<1>1. temp' = [temp EXCEPT ![d] = Absent] \/ temp' = temp BY DEF Fails, Cleanup
<1>2. temp' \in [Downloads -> Int] BY <1>1 DEF Shape, Absent
<1>3. /\ pc' = [e \in Downloads |-> pc'[e]] /\ outcome' = [e \in Downloads |-> outcome'[e]]
      /\ UNCHANGED <<count, pool, reply>>
  BY DEF Fails, Shape
<1> QED BY <1>2, <1>3 DEF Shape

\* Every step leaves the variables in shape.
LEMMA ShapeCorrect == Spec => []Shape
<1>1. Init => Shape
  BY DEF Init, Shape, Absent
<1>2. ASSUME Shape, [Next]_vars PROVE Shape'
  <2> USE <1>2 DEF Shape, Absent
  <2>1. ASSUME NEW d \in Downloads, DownloadNext(d) PROVE Shape'
    <3>1. CASE Begin(d)
      BY <3>1 DEF Begin, Fails, Refuses, Cleanup, Completes, Resumes, Issues, futureVars, fileVars
    <3>2. CASE Check(d)
      BY <3>2 DEF Check, Fails, Refuses, Cleanup, Completes, Resumes, Issues, futureVars, fileVars
    <3>3. CASE Get(d)
      BY <3>3 DEF Get, Fails, Cleanup, Completes, Resumes, Issues, futureVars, fileVars
    <3>4. CASE Open(d)
      BY <3>4 DEF Open, Fails, Cleanup, Completes, Resumes, Issues, futureVars, fileVars
    <3>5. CASE Read(d)
      BY <3>5 DEF Read, Fails, Cleanup, Completes, Resumes, Issues, futureVars, fileVars
    <3>6. CASE Write(d)
      BY <3>6 DEF Write, Fails, Cleanup, Completes, Resumes, Issues, futureVars, fileVars
    <3>7. CASE Flush(d)
      BY <3>7 DEF Flush, Fails, Cleanup, Completes, Resumes, Issues, futureVars, fileVars
    <3>8. CASE Sync(d)
      BY <3>8 DEF Sync, Fails, Cleanup, Completes, Resumes, Issues, futureVars, fileVars
    <3>9. CASE Link(d)
      BY <3>9 DEF Link, Fails, Cleanup, Completes, Resumes, Issues, futureVars, fileVars
    <3>10. CASE Unlink(d)
      BY <3>10 DEF Unlink, Fails, Cleanup, Completes, Resumes, Issues, futureVars, fileVars
    <3>11. CASE Rename(d)
      BY <3>11 DEF Rename, Fails, Cleanup, Completes, Resumes, Issues, futureVars, fileVars
    <3>12. CASE Inspect(d)
      BY <3>12 DEF Inspect, Fails, Cleanup, Completes, Resumes, Issues, futureVars, fileVars
    <3>13. CASE Clear(d)
      <4>1. CASE Fails(d) BY <4>1, FailingShape
      <4>2. CASE ~Fails(d)
        BY <3>13, <4>2 DEF Clear, Completes, Cleanup, Resumes, Issues, fileVars
      <4> QED BY <4>1, <4>2
    <3>14. CASE RenameAgain(d)
      <4>1. temp' \in [Downloads -> Int]
        <5>1. temp' = [temp EXCEPT ![d] = Absent] \/ temp' = temp
          BY <3>14 DEF RenameAgain, Fails, Completes, Cleanup
        <5> QED BY <5>1
      <4>2. /\ pc' = [e \in Downloads |-> pc'[e]] /\ reply' = [e \in Downloads |-> reply'[e]]
            /\ outcome' = [e \in Downloads |-> outcome'[e]] /\ UNCHANGED <<count, pool>>
        BY <3>14 DEF RenameAgain, Fails, Completes
      <4> QED BY <4>1, <4>2
    <3>15. CASE Finish(d)
      BY <3>15 DEF Finish, Fails, Cleanup, Completes, Resumes, Issues, futureVars, fileVars
    <3>16. CASE SeeCancel(d)
      BY <3>16, FailingShape DEF SeeCancel
    <3>17. CASE Relay(d)
      BY <3>17 DEF Relay, Fails, Cleanup, Completes, Resumes, Issues, futureVars, fileVars
    <3>18. CASE Cancel(d)
      BY <3>18 DEF Cancel, Fails, Cleanup, Completes, Resumes, Issues, futureVars, fileVars
    <3>19. CASE Drop(d)
      <4>1. temp' \in [Downloads -> Int]
        BY <3>19 DEF Drop, Fails, Completes, Cleanup
      <4>2. /\ pc' = [e \in Downloads |-> pc'[e]] /\ reply' = [e \in Downloads |-> reply'[e]]
            /\ outcome' = [e \in Downloads |-> outcome'[e]] /\ UNCHANGED <<count, pool>>
        BY <3>19 DEF Drop, Fails, Completes
      <4> QED BY <4>1, <4>2
    <3>20. CASE Perform(d)
      <4>1. CASE UNCHANGED fileVars
        BY <3>20, <4>1 DEF Perform, CameTo, futureVars, fileVars
      <4>2. CASE Succeeds(d, pool[d])
        <5>1. temp' \in [Downloads -> Int]
          BY <3>20, <4>2 DEF Succeeds, fileVars
        <5> QED BY <3>20, <4>2, <5>1 DEF Perform, CameTo, futureVars
      <4> QED BY <3>20, <4>1, <4>2 DEF Perform
    <3> QED
      BY <2>1, <3>1, <3>2, <3>3, <3>4, <3>5, <3>6, <3>7, <3>8, <3>9, <3>10, <3>11,
         <3>12, <3>13, <3>14, <3>15, <3>16, <3>17, <3>18, <3>19, <3>20 DEF
         DownloadNext, Advance
  <2>2. CASE OthersWrite BY <2>2 DEF OthersWrite, futureVars
  <2>3. CASE UNCHANGED vars BY <2>3 DEF vars, futureVars, fileVars
  <2> QED BY <1>2, <2>1, <2>2, <2>3 DEF Next
<1> QED BY <1>1, <1>2, PTL DEF Spec

\* What one download has to keep for the destination to be sound, and what all
\* keep: every conjunct is an invariant, and each needs the others to be inductive.
SoundAt(d) == PoolAt(d) /\ AllowedAt(d) /\ TempAt(d) /\ InstalledAt(d)
FilesSound == \A d \in Downloads : SoundAt(d)

\* A step of one download leaves what belongs to another alone.
LEMMA Frame ==
  ASSUME Shape, NEW d \in Downloads, NEW e \in Downloads, e # d, DownloadNext(d)
  PROVE  /\ temp'[e] = temp[e] /\ pool'[e] = pool[e] /\ outcome'[e] = outcome[e]
         /\ pc'[e] = pc[e] /\ count'[e] = count[e] /\ reply'[e] = reply[e]
         /\ e \in installed' <=> e \in installed
         /\ e \in kept' <=> e \in kept
<1> USE DEF Shape
<1>1. CASE Begin(d)
  BY <1>1 DEF Begin, Fails, Refuses, Cleanup, Completes, Resumes, Issues, futureVars, fileVars
<1>2. CASE Check(d)
  BY <1>2 DEF Check, Fails, Refuses, Cleanup, Completes, Resumes, Issues, futureVars, fileVars
<1>3. CASE Get(d)
  BY <1>3 DEF Get, Fails, Cleanup, Completes, Resumes, Issues, futureVars, fileVars
<1>4. CASE Open(d)
  BY <1>4 DEF Open, Fails, Cleanup, Completes, Resumes, Issues, futureVars, fileVars
<1>5. CASE Read(d)
  BY <1>5 DEF Read, Fails, Cleanup, Completes, Resumes, Issues, futureVars, fileVars
<1>6. CASE Write(d)
  BY <1>6 DEF Write, Fails, Cleanup, Completes, Resumes, Issues, futureVars, fileVars
<1>7. CASE Flush(d)
  BY <1>7 DEF Flush, Fails, Cleanup, Completes, Resumes, Issues, futureVars, fileVars
<1>8. CASE Sync(d)
  BY <1>8 DEF Sync, Fails, Cleanup, Completes, Resumes, Issues, futureVars, fileVars
<1>9. CASE Link(d)
  BY <1>9 DEF Link, Fails, Cleanup, Completes, Resumes, Issues, futureVars, fileVars
<1>10. CASE Unlink(d)
  BY <1>10 DEF Unlink, Fails, Cleanup, Completes, Resumes, Issues, futureVars, fileVars
<1>11. CASE Rename(d)
  BY <1>11 DEF Rename, Fails, Cleanup, Completes, Resumes, Issues, futureVars, fileVars
<1>12. CASE Inspect(d)
  BY <1>12 DEF Inspect, Fails, Cleanup, Completes, Resumes, Issues, futureVars, fileVars
<1>13. CASE Clear(d)
  BY <1>13 DEF Clear, Fails, Cleanup, Completes, Resumes, Issues, futureVars, fileVars
<1>14. CASE RenameAgain(d)
  BY <1>14 DEF RenameAgain, Fails, Cleanup, Completes, Resumes, Issues, futureVars, fileVars
<1>15. CASE Finish(d)
  BY <1>15 DEF Finish, Fails, Cleanup, Completes, Resumes, Issues, futureVars, fileVars
<1>16. CASE SeeCancel(d)
  BY <1>16 DEF SeeCancel, Fails, Cleanup, Completes, Resumes, Issues, futureVars, fileVars
<1>17. CASE Relay(d)
  BY <1>17 DEF Relay, Fails, Cleanup, Completes, Resumes, Issues, futureVars, fileVars
<1>18. CASE Cancel(d)
  BY <1>18 DEF Cancel, Fails, Cleanup, Completes, Resumes, Issues, futureVars, fileVars
<1>19. CASE Drop(d)
  BY <1>19 DEF Drop, Fails, Cleanup, Completes, Resumes, Issues, futureVars, fileVars
<1>20. CASE Perform(d)
    <2>1. CASE UNCHANGED fileVars
      BY <1>20, <2>1 DEF Perform, CameTo, futureVars, fileVars
    <2>2. CASE Succeeds(d, pool[d])
      BY <1>20, <2>2 DEF Perform, CameTo, Succeeds, futureVars, fileVars
    <2> QED BY <1>20, <2>1, <2>2 DEF Perform
<1> QED
  BY <1>1, <1>2, <1>3, <1>4, <1>5, <1>6, <1>7, <1>8, <1>9, <1>10, <1>11, <1>12, <1>13,
     <1>14, <1>15, <1>16, <1>17, <1>18, <1>19, <1>20 DEF DownloadNext, Advance

\* A download whose part of the state stays as it is keeps its part of the
\* invariant.
LEMMA StayingKeeps ==
  ASSUME NEW d \in Downloads, SoundAt(d),
         temp'[d] = temp[d], pool'[d] = pool[d], outcome'[d] = outcome[d],
         pc'[d] = pc[d], count'[d] = count[d], reply'[d] = reply[d],
         d \in installed' <=> d \in installed, d \in kept' <=> d \in kept
  PROVE  SoundAt(d)'
<1> USE DEF SoundAt, Ended, Replacing, Absent, LengthMatches
<1>1. PoolAt(d)' BY DEF PoolAt
<1>2. AllowedAt(d)' BY DEF AllowedAt
<1>3. TempAt(d)' BY DEF TempAt
<1>4. InstalledAt(d)' BY DEF InstalledAt
<1> QED BY <1>1, <1>2, <1>3, <1>4

\* A download that fails keeps its part of the invariant: the guard removes what
\* it wrote, and the operation it may leave on the pool finds no file.
LEMMA FailingKeeps ==
  ASSUME Shape, NEW d \in Downloads, SoundAt(d), pc[d] \notin {"done", "over"},
         Fails(d) \/ (pc[d] \in {"idle", "check"} /\ Refuses(d))
  PROVE  SoundAt(d)'
<1>1. /\ pc'[d] = "failed" /\ pool'[d] = pool[d] /\ reply'[d] = reply[d]
      /\ outcome'[d] = None /\ count'[d] = count[d] /\ installed' = installed
      /\ temp'[d] = Absent \/ (temp'[d] = temp[d] /\ d \in kept')
  BY DEF Fails, Refuses, Cleanup, Shape, SoundAt, TempAt, fileVars
<1>2. LengthMatches(d)' <=> LengthMatches(d) BY <1>1 DEF LengthMatches
<1>3. PoolAt(d)' BY <1>1 DEF SoundAt, PoolAt, Ended
<1>4. AllowedAt(d)' BY <1>1 DEF SoundAt, AllowedAt, Replacing
<1>5. TempAt(d)'
  BY <1>1, <1>2 DEF SoundAt, TempAt, PoolAt, Ended, Installing, Absent
<1>6. InstalledAt(d)'
  BY <1>1, <1>2 DEF SoundAt, InstalledAt, Ended, Installing
<1> QED BY <1>3, <1>4, <1>5, <1>6 DEF SoundAt

\* A download that completes keeps its part of the invariant.
LEMMA CompletingKeeps ==
  ASSUME Shape, NEW d \in Downloads, SoundAt(d), pc[d] # "over", d \in installed,
         pool[d] = None, temp[d] = Absent, Completes(d)
  PROVE  SoundAt(d)'
<1>1. /\ pc'[d] = "done" /\ temp'[d] = Absent /\ pool'[d] = None /\ outcome'[d] = None
      /\ reply'[d] = reply[d] /\ installed' = installed /\ count'[d] = count[d]
  BY DEF Completes, Cleanup, Shape
<1>2. LengthMatches(d)' <=> LengthMatches(d) BY <1>1 DEF LengthMatches
<1> QED BY <1>1, <1>2, DownloadAssumption
    DEF SoundAt, PoolAt, AllowedAt, TempAt, InstalledAt, Ended, Replacing, Installing, Absent

\* A step of a download keeps its own part of the invariant.
LEMMA OwnStep ==
  ASSUME Shape, Shape', NEW d \in Downloads, SoundAt(d), DownloadNext(d)
  PROVE  SoundAt(d)'
<1> USE DownloadAssumption
    DEF Shape, SoundAt, PoolAt, AllowedAt, TempAt, InstalledAt, Ended, Replacing,
        Streaming, Installing, Absent, LengthMatches
<1>1. CASE Begin(d)
  <2>1. CASE Refuses(d)
    <3>1. pc[d] = "idle" BY <1>1 DEF Begin
    <3> QED BY <2>1, <3>1, FailingKeeps
  <2>2. CASE ~Refuses(d)
    <3>1. /\ pc[d] = "idle" /\ pc'[d] \in {"get", "check"}
          /\ \/ pool'[d] = pool[d] /\ outcome'[d] = outcome[d]
             \/ pool'[d] = "stat" /\ pc'[d] = "check" /\ outcome'[d] = None
          /\ temp'[d] = temp[d] /\ count'[d] = count[d] /\ reply'[d] = reply[d]
          /\ installed' = installed
      BY <1>1, <2>2 DEF Begin, Issues, fileVars
    <3>2. PoolAt(d)' BY <3>1 DEF SoundAt, PoolAt, Ended
    <3>3. AllowedAt(d)' BY <3>1 DEF SoundAt, AllowedAt, Replacing
    <3>4. TempAt(d)' BY <3>1 DEF SoundAt, PoolAt, TempAt, Ended, Installing, Absent
    <3>5. InstalledAt(d)' BY <3>1 DEF SoundAt, InstalledAt, Ended, Installing
    <3> QED BY <3>2, <3>3, <3>4, <3>5 DEF SoundAt
  <2> QED BY <2>1, <2>2
<1>2. CASE Check(d)
  <2>1. CASE Refuses(d)
    <3>1. pc[d] = "check" BY <1>2 DEF Check, Resumes
    <3> QED BY <2>1, <3>1, FailingKeeps
  <2>2. CASE ~Refuses(d)
    BY <1>2, <2>2 DEF Check, Resumes, Issues, fileVars
  <2> QED BY <1>2, <2>1, <2>2
<1>3. CASE Get(d)
  <2>1. CASE Fails(d)
    <3>1. pc[d] \notin {"done", "over"} BY <1>3 DEF Get, Resumes
    <3> QED BY <2>1, <3>1, FailingKeeps
  <2>2. CASE ~Fails(d)
    BY <1>3, <2>2 DEF Get, Resumes, Issues, fileVars
  <2> QED BY <1>3, <2>1, <2>2
<1>4. CASE Open(d)
  <2>1. CASE Fails(d)
    <3>1. pc[d] \notin {"done", "over"} BY <1>4 DEF Open, Resumes
    <3> QED BY <2>1, <3>1, FailingKeeps
  <2>2. CASE ~Fails(d)
    BY <1>4, <2>2 DEF Open, Resumes, Issues, fileVars
  <2> QED BY <1>4, <2>1, <2>2
<1>5. CASE Read(d)
  <2>1. CASE Fails(d)
    <3>1. pc[d] \notin {"done", "over"} BY <1>5 DEF Read, Resumes
    <3> QED BY <2>1, <3>1, FailingKeeps
  <2>2. CASE ~Fails(d)
    BY <1>5, <2>2 DEF Read, Resumes, Issues, fileVars
  <2> QED BY <1>5, <2>1, <2>2
<1>6. CASE Write(d)
  <2>1. CASE Fails(d)
    <3>1. pc[d] \notin {"done", "over"} BY <1>6 DEF Write, Resumes
    <3> QED BY <2>1, <3>1, FailingKeeps
  <2>2. CASE ~Fails(d)
    <3>1. PoolAt(d)' BY <1>6, <2>2 DEF PoolAt, Ended, Write, Resumes, Issues, fileVars
    <3>2. AllowedAt(d)'
      BY <1>6, <2>2 DEF AllowedAt, Replacing, Write, Resumes, Issues, fileVars
    <3>3. TempAt(d)'
      <4>1. /\ count[d] \in Int /\ count'[d] = count[d] + 1 /\ temp'[d] = temp[d]
            /\ pool'[d] = "write" /\ pool[d] = None /\ outcome[d] = "ok"
            /\ pc[d] = "write" /\ pc'[d] = "read"
        BY <1>6, <2>2 DEF Write, Resumes, Issues, fileVars
      <4> QED BY <4>1 DEF TempAt, PoolAt, Ended, Replacing, Absent
    <3>4. InstalledAt(d)'
      BY <1>6, <2>2 DEF InstalledAt, Absent, Write, Resumes, Issues, fileVars
    <3> QED BY <3>1, <3>2, <3>3, <3>4 DEF SoundAt
  <2> QED BY <1>6, <2>1, <2>2
<1>7. CASE Flush(d)
  <2>1. CASE Fails(d)
    <3>1. pc[d] \notin {"done", "over"} BY <1>7 DEF Flush, Resumes
    <3> QED BY <2>1, <3>1, FailingKeeps
  <2>2. CASE ~Fails(d)
    BY <1>7, <2>2 DEF Flush, Resumes, Issues, fileVars
  <2> QED BY <1>7, <2>1, <2>2
<1>8. CASE Sync(d)
  <2>1. CASE Fails(d)
    <3>1. pc[d] \notin {"done", "over"} BY <1>8 DEF Sync, Resumes
    <3> QED BY <2>1, <3>1, FailingKeeps
  <2>2. CASE ~Fails(d)
    BY <1>8, <2>2 DEF Sync, Resumes, Issues, fileVars
  <2> QED BY <1>8, <2>1, <2>2
<1>9. CASE Link(d)
  <2>1. CASE Fails(d)
    <3>1. pc[d] \notin {"done", "over"} BY <1>9 DEF Link, Resumes
    <3> QED BY <2>1, <3>1, FailingKeeps
  <2>2. CASE ~Fails(d)
    BY <1>9, <2>2 DEF Link, Resumes, Issues, fileVars
  <2> QED BY <1>9, <2>1, <2>2
<1>10. CASE Unlink(d)
  <2>1. CASE Fails(d)
    <3>1. pc[d] \notin {"done", "over"} BY <1>10 DEF Unlink, Resumes
    <3> QED BY <2>1, <3>1, FailingKeeps
  <2>2. CASE Completes(d)
    <3>1. pc[d] # "over" /\ pool[d] = None /\ d \in installed /\ temp[d] = Absent
      BY <1>10, <2>2 DEF Unlink, Resumes, Completes, Fails, Issues
    <3> QED BY <2>2, <3>1, CompletingKeeps
  <2> QED BY <1>10, <2>1, <2>2 DEF Unlink
<1>11. CASE Rename(d)
  <2>1. CASE Fails(d)
    <3>1. pc[d] \notin {"done", "over"} BY <1>11 DEF Rename, Resumes
    <3> QED BY <2>1, <3>1, FailingKeeps
  <2>2. CASE Completes(d)
    <3>1. pc[d] # "over" /\ pool[d] = None /\ d \in installed /\ temp[d] = Absent
      BY <1>11, <2>2 DEF Rename, Resumes, Completes, Fails, Issues
    <3> QED BY <2>2, <3>1, CompletingKeeps
  <2>3. CASE ~Fails(d) /\ ~Completes(d)
    BY <1>11, <2>3 DEF Rename, Resumes, Issues, fileVars
  <2> QED BY <1>11, <2>1, <2>2, <2>3
<1>12. CASE Inspect(d)
  <2>1. CASE Fails(d)
    <3>1. pc[d] \notin {"done", "over"} BY <1>12 DEF Inspect, Resumes
    <3> QED BY <2>1, <3>1, FailingKeeps
  <2>2. CASE ~Fails(d)
    BY <1>12, <2>2 DEF Inspect, Resumes, Issues, fileVars
  <2> QED BY <1>12, <2>1, <2>2
<1>13. CASE Clear(d)
  <2>1. CASE Fails(d)
    <3>1. pc[d] \notin {"done", "over"} BY <1>13 DEF Clear, Resumes
    <3> QED BY <2>1, <3>1, FailingKeeps
  <2>2. CASE ~Fails(d)
    BY <1>13, <2>2 DEF Clear, Resumes, Issues, fileVars
  <2> QED BY <1>13, <2>1, <2>2
<1>14. CASE RenameAgain(d)
  <2>1. CASE Fails(d)
    <3>1. pc[d] \notin {"done", "over"} BY <1>14 DEF RenameAgain, Resumes
    <3> QED BY <2>1, <3>1, FailingKeeps
  <2>2. CASE Completes(d)
    <3>1. pc[d] # "over" /\ pool[d] = None /\ d \in installed /\ temp[d] = Absent
      BY <1>14, <2>2 DEF RenameAgain, Resumes, Completes, Fails, Issues
    <3> QED BY <2>2, <3>1, CompletingKeeps
  <2> QED BY <1>14, <2>1, <2>2 DEF RenameAgain
<1>15. CASE Finish(d)
  <2>1. /\ pc[d] \in {"failed", "done"} /\ pc'[d] = "over"
        /\ reply'[d] = "ok" => pc[d] = "done"
        /\ UNCHANGED <<temp, pool, outcome, count, installed, kept>>
    BY <1>15 DEF Finish, fileVars
  <2>2. PoolAt(d)' BY <2>1 DEF SoundAt, PoolAt, Ended
  <2>3. AllowedAt(d)' BY <2>1 DEF SoundAt, AllowedAt, Replacing
  <2>4. TempAt(d)' BY <2>1 DEF SoundAt, InstalledAt, TempAt, Ended, Installing, Absent
  <2>5. InstalledAt(d)' BY <2>1 DEF SoundAt, InstalledAt, Ended, Installing
  <2> QED BY <2>2, <2>3, <2>4, <2>5 DEF SoundAt
<1>16. CASE SeeCancel(d)
  <2>1. CASE Fails(d)
    <3>1. pc[d] \notin {"done", "over"} BY <1>16 DEF SeeCancel, Resumes
    <3> QED BY <2>1, <3>1, FailingKeeps
  <2> QED BY <1>16, <2>1 DEF SeeCancel
<1>17. CASE Relay(d)
  <2> HIDE DEF SoundAt, PoolAt, AllowedAt, TempAt, InstalledAt, Shape
  <2> QED BY <1>17, StayingKeeps DEF Relay, futureVars, fileVars
<1>18. CASE Cancel(d)
  <2> HIDE DEF SoundAt, PoolAt, AllowedAt, TempAt, InstalledAt, Shape
  <2> QED BY <1>18, StayingKeeps DEF Cancel, futureVars, fileVars
<1>19. CASE Drop(d)
  <2>1. /\ pc[d] \notin {"idle", "over"} /\ pc'[d] = "over" /\ reply'[d] = "cancelled"
        /\ outcome'[d] = None /\ UNCHANGED <<pool, count, installed>>
    BY <1>19 DEF Drop
  <2>2. \/ temp'[d] = Absent
        \/ temp'[d] = temp[d] /\ d \in kept'
        \/ temp'[d] = temp[d] /\ kept' = kept /\ pc[d] \in {"check", "failed", "done"}
    <3>1. CASE pc[d] \in Unguarded BY <1>19, <3>1 DEF Drop, Unguarded
    <3>2. CASE pc[d] \notin Unguarded
      <4>1. Cleanup(d) BY <1>19, <3>2 DEF Drop
      <4>2. temp' = [temp EXCEPT ![d] = Absent] \/ (temp' = temp /\ kept' = kept \cup {d})
        BY <4>1 DEF Cleanup
      <4> QED BY <4>2
    <3> QED BY <3>1, <3>2
  <2>3. PoolAt(d)' BY <2>1 DEF SoundAt, PoolAt, Ended
  <2>4. AllowedAt(d)' BY <2>1 DEF SoundAt, AllowedAt, Replacing
  <2>5. TempAt(d)' BY <2>1, <2>2 DEF SoundAt, PoolAt, InstalledAt, TempAt, Ended, Installing, Absent
  <2>6. InstalledAt(d)' BY <2>1, <2>2 DEF SoundAt, InstalledAt, Ended, Installing
  <2> QED BY <2>3, <2>4, <2>5, <2>6 DEF SoundAt
<1>20. CASE Perform(d)
  <2>1. CASE UNCHANGED fileVars
    <3>1. PoolAt(d)'
      BY <1>20, <2>1 DEF PoolAt, Ended, Perform, CameTo, Succeeds, futureVars, fileVars,
         NoFile, Content
    <3>2. AllowedAt(d)'
      BY <1>20, <2>1 DEF AllowedAt, Replacing, Perform, CameTo, Succeeds, futureVars,
         fileVars, NoFile, Content
    <3>3. TempAt(d)'
      <4>1. /\ count'[d] = count[d] /\ temp'[d] = temp[d] /\ pool'[d] = None
            /\ pc'[d] = pc[d]
        BY <1>20, <2>1 DEF Perform, CameTo, futureVars, fileVars
      <4>2. outcome'[d] = "error" \/ pool[d] # "write" \/ temp[d] = Absent \/ pc[d] \in Ended
        <5>1. CASE CameTo(d, "error") BY <5>1 DEF CameTo
        <5>2. CASE Succeeds(d, pool[d]) /\ pool[d] = "write"
          <6>1. temp' = [temp EXCEPT ![d] = IF @ = Absent THEN @ ELSE @ + 1]
            BY <5>2 DEF Succeeds
          <6>2. temp[d] \in Int /\ temp'[d] = IF temp[d] = Absent THEN temp[d] ELSE temp[d] + 1
            BY <6>1
          <6> HIDE DEF SoundAt, Shape
          <6> QED BY <6>2, <4>1
        <5> QED BY <1>20, <5>1, <5>2 DEF Perform
      <4>3. /\ pc[d] \in {"read", "write", "flush"} => pool[d] = "write"
            /\ pool[d] = "write" => pc[d] \in {"read", "write", "flush", "failed", "over"}
        BY <1>20 DEF Perform, PoolAt, Ended
      <4>4. pool[d] # None BY <1>20 DEF Perform
      <4> HIDE DEF SoundAt, PoolAt, AllowedAt, InstalledAt, Shape
      <4>5. TempAt(d) BY DEF SoundAt
      <4>6. kept' = kept BY <2>1 DEF fileVars
      <4> QED BY <4>1, <4>2, <4>3, <4>4, <4>5, <4>6 DEF TempAt, Ended, Installing, Absent
    <3>4. InstalledAt(d)'
      BY <1>20, <2>1 DEF InstalledAt, Absent, Perform, CameTo, Succeeds, futureVars, fileVars
    <3> QED BY <3>1, <3>2, <3>3, <3>4 DEF SoundAt
  <2>2. CASE Succeeds(d, pool[d]) /\ pool[d] = "open" /\ CameTo(d, "ok")
    <3>1. PoolAt(d)'
      BY <1>20, <2>2 DEF PoolAt, Ended, Perform, CameTo, Succeeds, futureVars, fileVars,
         Content
    <3>2. AllowedAt(d)'
      BY <1>20, <2>2 DEF AllowedAt, Replacing, Perform, CameTo, Succeeds, futureVars,
         fileVars, Content
    <3>3. TempAt(d)'
      BY <1>20, <2>2 DEF TempAt, Ended, Replacing, Absent, Perform, Succeeds,
         futureVars, fileVars, Content
    <3>4. InstalledAt(d)'
      BY <1>20, <2>2 DEF InstalledAt, Absent, Perform, CameTo, Succeeds, futureVars, fileVars,
         Content
    <3> QED BY <3>1, <3>2, <3>3, <3>4 DEF SoundAt
  <2>3. CASE Succeeds(d, pool[d]) /\ pool[d] = "write" /\ CameTo(d, "ok")
    <3>1. PoolAt(d)'
      BY <1>20, <2>3 DEF PoolAt, Ended, Perform, CameTo, Succeeds, futureVars, fileVars,
         Content
    <3>2. AllowedAt(d)'
      BY <1>20, <2>3 DEF AllowedAt, Replacing, Perform, CameTo, Succeeds, futureVars,
         fileVars, Content
    <3>3. TempAt(d)'
      <4>1. /\ count'[d] = count[d] /\ pool'[d] = None /\ pc'[d] = pc[d]
        BY <1>20 DEF Perform, futureVars
      <4>2. temp' = [temp EXCEPT ![d] = IF @ = Absent THEN @ ELSE @ + 1]
        BY <2>3 DEF Succeeds
      <4>3. /\ count[d] \in Int /\ temp[d] \in Int
            /\ temp'[d] = IF temp[d] = Absent THEN Absent ELSE temp[d] + 1
        BY <4>2
      <4>4. pc[d] \in {"read", "write", "flush", "failed", "over"}
        BY <2>3 DEF PoolAt, Ended
      <4>5. /\ pc[d] \notin Ended => temp[d] \in {Absent, count[d] - 1}
            /\ pc[d] \in {"failed", "over"} /\ d \notin kept => temp[d] = Absent
            /\ pc[d] = "write" => count[d] < Length
        BY <2>3, <4>4 DEF TempAt, Ended, Absent
      <4>6. /\ pc[d] \notin Ended => temp'[d] \in {Absent, count[d]}
            /\ pc[d] \in {"failed", "over"} /\ d \notin kept => temp'[d] = Absent
        <5> HIDE DEF SoundAt, PoolAt, AllowedAt, TempAt, InstalledAt, Shape
        <5> QED BY <4>3, <4>5 DEF Absent
      <4>7. kept' = kept BY <2>3 DEF Succeeds
      <4> HIDE DEF SoundAt, PoolAt, AllowedAt, InstalledAt, Shape
      <4> QED BY <4>1, <4>4, <4>5, <4>6, <4>7 DEF TempAt, Ended, Replacing, Absent
    <3>4. InstalledAt(d)'
      BY <1>20, <2>3 DEF InstalledAt, Absent, Perform, CameTo, Succeeds, futureVars, fileVars,
         Content
    <3> QED BY <3>1, <3>2, <3>3, <3>4 DEF SoundAt
  <2>4. CASE Succeeds(d, pool[d]) /\ pool[d] = "sync" /\ CameTo(d, "ok")
    <3>1. PoolAt(d)'
      BY <1>20, <2>4 DEF PoolAt, Ended, Perform, CameTo, Succeeds, futureVars, fileVars,
         Content
    <3>2. AllowedAt(d)'
      BY <1>20, <2>4 DEF AllowedAt, Replacing, Perform, CameTo, Succeeds, futureVars,
         fileVars, Content
    <3>3. TempAt(d)'
      BY <1>20, <2>4 DEF TempAt, Ended, Replacing, Absent, Perform, Succeeds,
         futureVars, fileVars, Content
    <3>4. InstalledAt(d)'
      BY <1>20, <2>4 DEF InstalledAt, Absent, Perform, CameTo, Succeeds, futureVars, fileVars,
         Content
    <3> QED BY <3>1, <3>2, <3>3, <3>4 DEF SoundAt
  <2>5. CASE Succeeds(d, pool[d]) /\ pool[d] = "link" /\ CameTo(d, "ok")
    <3>1. PoolAt(d)'
      BY <1>20, <2>5 DEF PoolAt, Ended, Perform, CameTo, Succeeds, futureVars, fileVars,
         Content
    <3>2. AllowedAt(d)'
      BY <1>20, <2>5 DEF AllowedAt, Replacing, Perform, CameTo, Succeeds, futureVars,
         fileVars, Content
    <3>3. TempAt(d)'
      BY <1>20, <2>5 DEF TempAt, Ended, Replacing, Absent, Perform, Succeeds,
         futureVars, fileVars, Content
    <3>4. InstalledAt(d)'
      BY <1>20, <2>5 DEF InstalledAt, Absent, Perform, CameTo, Succeeds, futureVars, fileVars,
         Content
    <3> QED BY <3>1, <3>2, <3>3, <3>4 DEF SoundAt
  <2>6. CASE Succeeds(d, pool[d]) /\ pool[d] = "unlink" /\ CameTo(d, "ok")
    <3>1. PoolAt(d)'
      BY <1>20, <2>6 DEF PoolAt, Ended, Perform, CameTo, Succeeds, futureVars, fileVars,
         Content
    <3>2. AllowedAt(d)'
      BY <1>20, <2>6 DEF AllowedAt, Replacing, Perform, CameTo, Succeeds, futureVars,
         fileVars, Content
    <3>3. TempAt(d)'
      BY <1>20, <2>6 DEF TempAt, Ended, Replacing, Absent, Perform, Succeeds,
         futureVars, fileVars, Content
    <3>4. InstalledAt(d)'
      BY <1>20, <2>6 DEF InstalledAt, Absent, Perform, CameTo, Succeeds, futureVars, fileVars,
         Content
    <3> QED BY <3>1, <3>2, <3>3, <3>4 DEF SoundAt
  <2>7. CASE Succeeds(d, pool[d]) /\ pool[d] = "rename" /\ CameTo(d, "ok")
    <3>1. PoolAt(d)'
      BY <1>20, <2>7 DEF PoolAt, Ended, Perform, CameTo, Succeeds, futureVars, fileVars,
         Content
    <3>2. AllowedAt(d)'
      BY <1>20, <2>7 DEF AllowedAt, Replacing, Perform, CameTo, Succeeds, futureVars,
         fileVars, Content
    <3>3. TempAt(d)'
      BY <1>20, <2>7 DEF TempAt, Ended, Replacing, Absent, Perform, Succeeds,
         futureVars, fileVars, Content
    <3>4. InstalledAt(d)'
      BY <1>20, <2>7 DEF InstalledAt, Absent, Perform, CameTo, Succeeds, futureVars, fileVars,
         Content
    <3> QED BY <3>1, <3>2, <3>3, <3>4 DEF SoundAt
  <2>8. CASE Succeeds(d, pool[d]) /\ pool[d] = "clear" /\ CameTo(d, "ok")
    <3>1. PoolAt(d)'
      BY <1>20, <2>8 DEF PoolAt, Ended, Perform, CameTo, Succeeds, futureVars, fileVars,
         Content
    <3>2. AllowedAt(d)'
      BY <1>20, <2>8 DEF AllowedAt, Replacing, Perform, CameTo, Succeeds, futureVars,
         fileVars, Content
    <3>3. TempAt(d)'
      BY <1>20, <2>8 DEF TempAt, Ended, Replacing, Absent, Perform, Succeeds,
         futureVars, fileVars, Content
    <3>4. InstalledAt(d)'
      BY <1>20, <2>8 DEF InstalledAt, Absent, Perform, CameTo, Succeeds, futureVars, fileVars,
         Content
    <3> QED BY <3>1, <3>2, <3>3, <3>4 DEF SoundAt
  <2> QED
    BY <1>20, <2>1, <2>2, <2>3, <2>4, <2>5, <2>6, <2>7, <2>8 DEF Perform, Succeeds,
       fileVars
<1> QED
  BY <1>1, <1>2, <1>3, <1>4, <1>5, <1>6, <1>7, <1>8, <1>9, <1>10, <1>11, <1>12, <1>13,
     <1>14, <1>15, <1>16, <1>17, <1>18, <1>19, <1>20 DEF DownloadNext, Advance

\* The strengthened invariant: what is on the pool follows the step, replacing is
\* reserved, the temporary file follows the count, and a success was installed.
THEOREM FilesAreSound == Spec => []FilesSound
<1>1. Init => FilesSound
  BY DownloadAssumption DEF Init, FilesSound, SoundAt, PoolAt, AllowedAt, TempAt,
     InstalledAt, Ended, Replacing, Installing, Operations, Absent
<1>2. ASSUME Shape, Shape', FilesSound, [Next]_vars PROVE FilesSound'
  <2>1. ASSUME NEW d \in Downloads, DownloadNext(d), NEW e \in Downloads
        PROVE  SoundAt(e)'
    <3>1. CASE e = d BY <1>2, <2>1, <3>1, OwnStep DEF FilesSound
    <3>2. CASE e # d
      <4>1. SoundAt(e) BY <1>2 DEF FilesSound
      <4>2. /\ temp'[e] = temp[e] /\ pool'[e] = pool[e] /\ outcome'[e] = outcome[e]
            /\ pc'[e] = pc[e] /\ count'[e] = count[e] /\ reply'[e] = reply[e]
            /\ e \in installed' <=> e \in installed
            /\ e \in kept' <=> e \in kept
        BY <1>2, <2>1, <3>2, Frame
      <4> QED BY <4>1, <4>2, StayingKeeps
    <3> QED BY <3>1, <3>2
  <2>2. CASE OthersWrite
    BY <1>2, <2>2, StayingKeeps DEF OthersWrite, futureVars, FilesSound
  <2>3. CASE UNCHANGED vars
    BY <1>2, <2>3, StayingKeeps DEF vars, futureVars, fileVars, FilesSound
  <2> QED BY <1>2, <2>1, <2>2, <2>3 DEF Next, FilesSound
<1> QED BY <1>1, <1>2, ShapeCorrect, PTL DEF Spec

\* Only what the blocking pool performs changes the destination for a download.
LEMMA OnlyPoolInstalls ==
  ASSUME NEW d \in Downloads, DownloadNext(d)
  PROVE  UNCHANGED <<dest, installed>> \/ Perform(d)
<1> USE DEF Fails, Refuses, Completes, Resumes, Issues, fileVars
<1>1. CASE Begin(d) \/ Get(d) \/ Read(d) \/ SeeCancel(d) \/ Relay(d) \/ Cancel(d) \/ Drop(d)
  BY <1>1 DEF Begin, Get, Read, SeeCancel, Relay, Cancel, Drop
<1>2. CASE Check(d) \/ Open(d) \/ Write(d) \/ Flush(d) \/ Sync(d) \/ Link(d)
  BY <1>2 DEF Check, Open, Write, Flush, Sync, Link
<1>3. CASE Unlink(d) \/ Rename(d) \/ Inspect(d) \/ Clear(d) \/ RenameAgain(d) \/ Finish(d)
  BY <1>3 DEF Unlink, Rename, Inspect, Clear, RenameAgain, Finish
<1> QED BY <1>1, <1>2, <1>3 DEF DownloadNext, Advance

\* Only a download that is writing counts a chunk.
LEMMA OnlyWritersCount ==
  ASSUME NEW d \in Downloads, DownloadNext(d)
  PROVE  \/ UNCHANGED count
         \/ pc[d] = "write" /\ count' = [count EXCEPT ![d] = @ + 1]
<1> USE DEF Fails, Refuses, Completes, Resumes, Issues, futureVars
<1>1. CASE Begin(d) \/ Get(d) \/ Read(d) \/ SeeCancel(d) \/ Relay(d) \/ Cancel(d) \/ Drop(d)
  BY <1>1 DEF Begin, Get, Read, SeeCancel, Relay, Cancel, Drop
<1>2. CASE Check(d) \/ Open(d) \/ Write(d) \/ Flush(d) \/ Sync(d) \/ Link(d)
  BY <1>2 DEF Check, Open, Write, Flush, Sync, Link
<1>3. CASE Unlink(d) \/ Rename(d) \/ Inspect(d) \/ Clear(d) \/ RenameAgain(d) \/ Finish(d)
  BY <1>3 DEF Unlink, Rename, Inspect, Clear, RenameAgain, Finish
<1>4. CASE Perform(d) BY <1>4 DEF Perform
<1> QED BY <1>1, <1>2, <1>3, <1>4 DEF DownloadNext, Advance

\* What an installed download counted stands.
LEMMA InstalledCountStands ==
  ASSUME Shape, FilesSound, NEW d \in Downloads, DownloadNext(d),
         NEW e \in Downloads, e \in installed
  PROVE  count'[e] = count[e]
<1>1. pc[e] # "write"
  BY DEF FilesSound, SoundAt, InstalledAt, Installing, Ended
<1>2. CASE UNCHANGED count BY <1>2
<1>3. CASE pc[d] = "write" /\ count' = [count EXCEPT ![d] = @ + 1]
  BY <1>1, <1>3 DEF Shape
<1> QED BY <1>2, <1>3, OnlyWritersCount

\* What is installed stays marked as installed.
DestSound == /\ DestinationComplete
             /\ dest.of \in Downloads => dest.of \in installed

\* For any number of downloads and any length, an installed file has all that was
\* counted and, where a length was declared, all of it (stream_download's length
\* check and the two install paths), though operations outlive their downloads.
THEOREM InstallsAreComplete == Spec => []DestinationComplete
<1>1. Init => DestSound
  BY DownloadAssumption DEF Init, DestSound, DestinationComplete, NoFile, Foreign
<1>2. ASSUME Shape, FilesSound, DestSound, [Next]_vars
      PROVE  DestSound'
  <2>1. ASSUME NEW d \in Downloads, Perform(d) PROVE DestSound'
    <3>1. SoundAt(d) /\ UNCHANGED count BY <1>2, <2>1 DEF FilesSound, Perform, futureVars
    <3>2. CASE UNCHANGED fileVars
      BY <1>2, <3>1, <3>2 DEF DestSound, DestinationComplete, fileVars
    <3>3. CASE Succeeds(d, pool[d])
      <4>1. CASE pool[d] \in {"link", "rename"}
        <5>1. dest' = Content(d) /\ temp[d] # Absent /\ installed' = installed \cup {d}
          BY <3>3, <4>1 DEF Succeeds
        <5>2. temp[d] = count[d] /\ (d \in Declared => count[d] = Length)
          BY <3>1, <4>1, <5>1 DEF SoundAt, TempAt, LengthMatches
        <5> QED BY <3>1, <5>1, <5>2 DEF DestSound, DestinationComplete, Content
      <4>2. CASE pool[d] = "clear"
        BY <3>3, <4>2, DownloadAssumption
        DEF Succeeds, DestSound, DestinationComplete, NoFile
      <4>3. CASE pool[d] \notin {"link", "rename", "clear"}
        <5>1. UNCHANGED <<dest, installed>> BY <3>3, <4>3 DEF Succeeds, fileVars
        <5> QED BY <1>2, <3>1, <5>1 DEF DestSound, DestinationComplete
      <4> QED BY <4>1, <4>2, <4>3
    <3> QED BY <2>1, <3>2, <3>3 DEF Perform
  <2>2. CASE OthersWrite
    BY <2>2, DownloadAssumption DEF OthersWrite, DestSound, DestinationComplete, Foreign
  <2>3. CASE UNCHANGED vars
    BY <1>2, <2>3 DEF vars, fileVars, futureVars, DestSound, DestinationComplete
  <2>4. ASSUME NEW d \in Downloads, DownloadNext(d), UNCHANGED <<dest, installed>>
        PROVE  DestSound'
    BY <1>2, <2>4, InstalledCountStands DEF DestSound, DestinationComplete
  <2> QED BY <1>2, <2>1, <2>2, <2>3, <2>4, OnlyPoolInstalls DEF Next
<1>3. DestSound => DestinationComplete BY DEF DestSound
<1> QED BY <1>1, <1>2, <1>3, ShapeCorrect, FilesAreSound, PTL DEF Spec

\* A download that may not overwrite never replaces or removes what is at the
\* destination, whoever put it there and whenever (install_without_overwrite):
\* each change of an existing destination is the work of one that may.
THEOREM ExistingFilesSurvive == Spec => NoClobber
<1> DEFINE Spared == dest # NoFile /\ dest' # dest =>
                       \E d \in Overwrite :
                         \/ dest'.of = d
                         \/ dest' = NoFile /\ MayRefuse /\ pool[d] = "clear" /\ pool'[d] = None
<1>1. ASSUME Shape, FilesSound, [Next]_vars PROVE [Spared]_vars
  <2>1. ASSUME NEW d \in Downloads, Perform(d) PROVE Spared
    <3>1. AllowedAt(d) BY <1>1, <2>1 DEF FilesSound, SoundAt
    <3>2. pool'[d] = None BY <1>1, <2>1 DEF Perform, Shape
    <3>3. CASE UNCHANGED fileVars BY <3>3 DEF fileVars
    <3>4. CASE Succeeds(d, pool[d])
      <4>1. CASE pool[d] = "link" BY <3>4, <4>1 DEF Succeeds
      <4>2. CASE pool[d] = "rename"
        <5>1. d \in Overwrite /\ dest'.of = d
          BY <3>1, <3>4, <4>2 DEF Succeeds, AllowedAt, Content
        <5> QED BY <5>1
      <4>3. CASE pool[d] = "clear"
        <5>1. d \in Overwrite /\ dest' = NoFile /\ MayRefuse
          BY <3>1, <3>4, <4>3 DEF Succeeds, AllowedAt
        <5> QED BY <3>2, <4>3, <5>1
      <4>4. CASE pool[d] \notin {"link", "rename", "clear"}
        BY <3>4, <4>4 DEF Succeeds, fileVars
      <4> QED BY <4>1, <4>2, <4>3, <4>4
    <3> QED BY <2>1, <3>3, <3>4 DEF Perform
  <2>2. CASE OthersWrite BY <2>2 DEF OthersWrite
  <2>3. CASE UNCHANGED vars BY <2>3
  <2>4. CASE UNCHANGED <<dest, installed>> BY <2>4
  <2> QED BY <1>1, <2>1, <2>2, <2>3, <2>4, OnlyPoolInstalls DEF Next
<1> QED BY <1>1, ShapeCorrect, FilesAreSound, PTL DEF Spec, NoClobber

\* A request answered with success has installed its file and left no temporary
\* one, and any other leaves at worst an empty one unless the guard could not remove
\* it, whatever was cancelled, dropped or still on the blocking pool.
THEOREM SuccessIsInstalled == Spec => []OutcomeIsTrue
<1>1. FilesSound => OutcomeIsTrue
  <2> SUFFICES ASSUME FilesSound, NEW d \in Downloads
               PROVE  /\ reply[d] = "ok" => d \in installed /\ temp[d] = Absent
                      /\ pc[d] = "over" => temp[d] <= 0 \/ d \in kept
    BY DEF OutcomeIsTrue
  <2>1. InstalledAt(d) /\ TempAt(d) BY DEF FilesSound, SoundAt
  <2>2. reply[d] = "ok" => d \in installed /\ temp[d] = Absent BY <2>1 DEF InstalledAt
  <2>3. pc[d] = "over" => temp[d] <= 0 \/ d \in kept BY <2>1 DEF TempAt, Ended, Absent
  <2> QED BY <2>2, <2>3
<1> QED BY <1>1, FilesAreSound, PTL

-----------------------------------------------------------------------------
(* Progress *)

\* The samples on their way lie between what was shown and what was counted, in order.
ProgressAt(d) ==
  /\ 0 <= shown[d] /\ shown[d] <= count[d] /\ count[d] <= Length
  /\ \A i \in 1..Len(channel[d]) : shown[d] <= channel[d][i] /\ channel[d][i] <= count[d]
  /\ \A i, j \in 1..Len(channel[d]) : i < j => channel[d][i] <= channel[d][j]

ProgressInv ==
  /\ shown \in [Downloads -> Int] /\ count \in [Downloads -> Int]
  /\ channel \in [Downloads -> Seq(Int)]
  /\ \A d \in Downloads : ProgressAt(d)

Samples(d, new) == channel' = [channel EXCEPT ![d] = new]

\* What a step of a download does to its count, its samples and what was shown
LEMMA ProgressSteps ==
  ASSUME NEW d \in Downloads, DownloadNext(d)
  PROVE  \/ UNCHANGED <<count, channel, shown>>
         \/ /\ pc[d] = "write" /\ count' = [count EXCEPT ![d] = @ + 1]
            /\ Samples(d, Sent(channel[d], count[d] + 1)) /\ UNCHANGED shown
         \/ Samples(d, Sent(channel[d], count[d])) /\ UNCHANGED <<count, shown>>
         \/ Samples(d, <<>>) /\ UNCHANGED <<count, shown>>
         \/ Relay(d)
         \/ Finish(d)
<1> USE DEF Fails, Refuses, Completes, Resumes, Issues, futureVars, Samples
<1>1. CASE Begin(d) \/ Get(d) \/ Read(d) \/ SeeCancel(d) \/ Cancel(d)
  BY <1>1 DEF Begin, Get, Read, SeeCancel, Cancel
<1>2. CASE Check(d) \/ Open(d) \/ Flush(d) \/ Sync(d) \/ Link(d)
  BY <1>2 DEF Check, Open, Flush, Sync, Link
<1>3. CASE Inspect(d) \/ Clear(d) BY <1>3 DEF Inspect, Clear
<1>4. CASE Unlink(d) \/ Rename(d) \/ RenameAgain(d) BY <1>4 DEF Unlink, Rename, RenameAgain
<1>5. CASE Write(d) BY <1>5 DEF Write
<1>6. CASE Perform(d) BY <1>6 DEF Perform
<1>7. CASE Drop(d) BY <1>7 DEF Drop
<1>8. QED BY <1>1, <1>2, <1>3, <1>4, <1>5, <1>6, <1>7 DEF DownloadNext, Advance

\* A sample that is not below the last one may follow, or be dropped.
LEMMA SendingKeeps ==
  ASSUME NEW queue \in Seq(Int), NEW low \in Int, NEW high \in Int, NEW sample \in Int,
         \A i \in 1..Len(queue) : low <= queue[i] /\ queue[i] <= high,
         \A i, j \in 1..Len(queue) : i < j => queue[i] <= queue[j],
         low <= sample, high <= sample,
         NEW sent, sent = Sent(queue, sample)
  PROVE  /\ sent \in Seq(Int)
         /\ \A i \in 1..Len(sent) : low <= sent[i] /\ sent[i] <= sample
         /\ \A i, j \in 1..Len(sent) : i < j => sent[i] <= sent[j]
<1>1. \A i \in 1..Len(queue) : queue[i] \in Int OBVIOUS
<1>2. CASE sent = queue BY <1>1, <1>2
<1>3. CASE sent = Append(queue, sample)
  <2>1. sent \in Seq(Int) /\ Len(sent) = Len(queue) + 1 BY <1>3
  <2>2. \A i \in 1..Len(sent) :
          sent[i] = IF i \in 1..Len(queue) THEN queue[i] ELSE sample
    BY <1>3
  <2>3. \A i \in 1..Len(sent) : i \in 1..Len(queue) \/ i = Len(queue) + 1 BY <2>1
  <2>4. \A i \in 1..Len(queue) : low <= queue[i] /\ queue[i] <= sample BY <1>1
  <2>5. \A i \in 1..Len(sent) : low <= sent[i] /\ sent[i] <= sample BY <2>2, <2>4
  <2>6. ASSUME NEW i \in 1..Len(sent), NEW j \in 1..Len(sent), i < j
        PROVE  sent[i] <= sent[j]
    <3>1. i \in 1..Len(queue) BY <2>1, <2>6
    <3>2. QED BY <2>2, <2>4, <2>6, <3>1
  <2>7. QED BY <2>1, <2>5, <2>6
<1>4. QED BY <1>2, <1>3 DEF Sent

\* What is shown after a step of a download, and what is on its way
Progressed(d) == ProgressAt(d)' /\ shown[d] <= shown'[d]

LEMMA RelayProgresses ==
  ASSUME ProgressInv, NEW d \in Downloads, Relay(d)
  PROVE  /\ shown' \in [Downloads -> Int] /\ channel' \in [Downloads -> Seq(Int)]
         /\ Progressed(d)
<1> DEFINE queue == channel[d]
<1>1. queue \in Seq(Int) /\ queue # <<>> /\ ProgressAt(d) BY DEF ProgressInv, Relay
<1>2. PICK n \in Nat : n = Len(queue) /\ n > 0 BY <1>1
<1>3. /\ \A i \in 1..n : queue[i] \in Int /\ shown[d] <= queue[i] /\ queue[i] <= count[d]
      /\ \A i, j \in 1..n : i < j => queue[i] <= queue[j]
      /\ shown[d] \in Int /\ count[d] \in Int
  BY <1>1, <1>2 DEF ProgressAt, ProgressInv
<1>4. /\ Tail(queue) \in Seq(Int) /\ Len(Tail(queue)) = n - 1
      /\ \A i \in 1..(n - 1) : Tail(queue)[i] = queue[i + 1]
      /\ Head(queue) = queue[1]
  BY <1>1, <1>2
<1>5. /\ shown' = [shown EXCEPT ![d] = queue[1]] /\ channel' = [channel EXCEPT ![d] = Tail(queue)]
      /\ count' = count
  BY <1>4 DEF Relay, futureVars
<1> HIDE DEF queue
<1>6. /\ shown'[d] = queue[1] /\ channel'[d] = Tail(queue) /\ 1 \in 1..n
      /\ shown' \in [Downloads -> Int] /\ channel' \in [Downloads -> Seq(Int)]
  BY <1>2, <1>3, <1>4, <1>5 DEF ProgressInv
<1>7. \A i \in 1..(n - 1) : i + 1 \in 1..n /\ 1 \in 1..n /\ 1 < i + 1 BY <1>2
<1>8. \A i \in 1..(n - 1) : queue[1] <= Tail(queue)[i] /\ Tail(queue)[i] <= count[d]
  BY <1>3, <1>4, <1>7
<1>9. \A i, j \in 1..(n - 1) : i < j => Tail(queue)[i] <= Tail(queue)[j]
  BY <1>3, <1>4, <1>7
<1>10. 0 <= queue[1] /\ queue[1] <= count[d] /\ count[d] <= Length /\ shown[d] <= queue[1]
  <2>1. 0 <= shown[d] /\ count[d] <= Length BY <1>1 DEF ProgressAt
  <2>2. shown[d] <= queue[1] /\ queue[1] <= count[d] /\ queue[1] \in Int BY <1>2, <1>3
  <2>3. QED BY <1>3, <2>1, <2>2
<1>11. QED BY <1>4, <1>5, <1>6, <1>8, <1>9, <1>10 DEF Progressed, ProgressAt

LEMMA FinishProgresses ==
  ASSUME ProgressInv, NEW d \in Downloads, Finish(d)
  PROVE  /\ shown' \in [Downloads -> Int] /\ channel' \in [Downloads -> Seq(Int)]
         /\ Progressed(d)
<1>1. channel[d] \in Seq(Int) /\ ProgressAt(d) /\ shown[d] \in Int /\ count[d] \in Int
  BY DEF ProgressInv
<1>2. /\ LastSample(d) \in Int /\ shown[d] <= LastSample(d) /\ LastSample(d) <= count[d]
  <2>1. CASE channel[d] = <<>> BY <1>1, <2>1 DEF LastSample, ProgressAt
  <2>2. CASE channel[d] # <<>>
    <3>1. Len(channel[d]) \in 1..Len(channel[d]) BY <1>1, <2>2
    <3>2. LastSample(d) = channel[d][Len(channel[d])] BY <2>2 DEF LastSample
    <3>3. QED BY <1>1, <3>1, <3>2 DEF ProgressAt
  <2>3. QED BY <2>1, <2>2
<1>3. PICK last \in Int : /\ shown' = [shown EXCEPT ![d] = last]
                          /\ shown[d] <= last /\ last <= count[d]
  <2>1. PICK last : last = IF pc[d] = "done" THEN count[d] ELSE LastSample(d) OBVIOUS
  <2>2. shown' = [shown EXCEPT ![d] = last] BY <2>1 DEF Finish
  <2>3. shown[d] <= count[d] /\ count[d] <= count[d] BY <1>1 DEF ProgressAt
  <2>4. last \in Int /\ shown[d] <= last /\ last <= count[d] BY <1>1, <1>2, <2>1, <2>3
  <2>5. QED BY <2>2, <2>4
<1>4. channel' = [channel EXCEPT ![d] = <<>>] /\ count' = count BY DEF Finish
<1>5. /\ shown'[d] = last /\ channel'[d] = <<>>
      /\ shown' \in [Downloads -> Int] /\ channel' \in [Downloads -> Seq(Int)]
  BY <1>3, <1>4 DEF ProgressInv
<1>6. Len(channel'[d]) = 0 BY <1>5
<1>7. QED BY <1>1, <1>3, <1>4, <1>5, <1>6 DEF Progressed, ProgressAt

\* A step that sends a sample, and may count a chunk
LEMMA SampleProgresses ==
  ASSUME ProgressInv, NEW d \in Downloads, NEW sample \in Int,
         count[d] <= sample, sample <= Length,
         count' = [count EXCEPT ![d] = sample],
         Samples(d, Sent(channel[d], sample)), UNCHANGED shown
  PROVE  channel' \in [Downloads -> Seq(Int)] /\ Progressed(d)
<1>1. /\ channel[d] \in Seq(Int) /\ ProgressAt(d) /\ shown[d] \in Int /\ count[d] \in Int
      /\ count'[d] = sample /\ shown'[d] = shown[d]
  BY DEF ProgressInv
<1>2. /\ Sent(channel[d], sample) \in Seq(Int)
      /\ \A i \in 1..Len(Sent(channel[d], sample)) :
           shown[d] <= Sent(channel[d], sample)[i] /\ Sent(channel[d], sample)[i] <= sample
      /\ \A i, j \in 1..Len(Sent(channel[d], sample)) :
           i < j => Sent(channel[d], sample)[i] <= Sent(channel[d], sample)[j]
  <2>1. shown[d] <= sample /\ count[d] <= sample BY <1>1 DEF ProgressAt
  <2>2. QED BY <1>1, <2>1, SendingKeeps DEF ProgressAt
<1>3. /\ channel'[d] = Sent(channel[d], sample)
      /\ channel' \in [Downloads -> Seq(Int)]
  BY <1>2 DEF ProgressInv, Samples
<1>4. 0 <= shown[d] /\ shown[d] <= sample BY <1>1 DEF ProgressAt
<1>5. QED BY <1>1, <1>2, <1>3, <1>4 DEF Progressed, ProgressAt

LEMMA OwnProgress ==
  ASSUME ProgressInv, FilesSound, NEW d \in Downloads, DownloadNext(d)
  PROVE  /\ shown' \in [Downloads -> Int] /\ count' \in [Downloads -> Int]
         /\ channel' \in [Downloads -> Seq(Int)] /\ Progressed(d)
         /\ \A e \in Downloads \ {d} : /\ shown'[e] = shown[e] /\ count'[e] = count[e]
                                       /\ channel'[e] = channel[e]
<1>1. /\ ProgressAt(d) /\ shown[d] \in Int /\ count[d] \in Int
      /\ shown \in [Downloads -> Int] /\ count \in [Downloads -> Int]
      /\ channel \in [Downloads -> Seq(Int)]
  BY DEF ProgressInv
<1>2. CASE UNCHANGED <<count, channel, shown>> BY <1>1, <1>2 DEF Progressed, ProgressAt
<1>3. CASE /\ pc[d] = "write" /\ count' = [count EXCEPT ![d] = @ + 1]
           /\ Samples(d, Sent(channel[d], count[d] + 1)) /\ UNCHANGED shown
  <2>1. count[d] < Length BY <1>3 DEF FilesSound, SoundAt, TempAt
  <2>2. PICK sample \in Int : sample = count[d] + 1 BY <1>1
  <2>3. /\ count[d] <= sample /\ sample <= Length
        /\ count' = [count EXCEPT ![d] = sample]
        /\ Samples(d, Sent(channel[d], sample)) /\ UNCHANGED shown
    BY <1>1, <1>3, <2>1, <2>2, DownloadAssumption
  <2>4. channel' \in [Downloads -> Seq(Int)] /\ Progressed(d) BY <2>3, SampleProgresses
  <2>5. QED BY <1>1, <2>3, <2>4 DEF Samples
<1>4. CASE Samples(d, Sent(channel[d], count[d])) /\ UNCHANGED <<count, shown>>
  <2>1. /\ count[d] <= count[d] /\ count[d] <= Length /\ count' = [count EXCEPT ![d] = count[d]]
    BY <1>1, <1>4 DEF ProgressAt
  <2>2. channel' \in [Downloads -> Seq(Int)] /\ Progressed(d)
    BY <1>1, <1>4, <2>1, SampleProgresses
  <2>3. QED BY <1>1, <1>4, <2>2 DEF Samples
<1>5. CASE Samples(d, <<>>) /\ UNCHANGED <<count, shown>>
  <2>1. channel' = [channel EXCEPT ![d] = <<>>] BY <1>5 DEF Samples
  <2>2. channel' \in [Downloads -> Seq(Int)] /\ channel'[d] = <<>> BY <1>1, <2>1
  <2>3. Len(channel'[d]) = 0 BY <2>2
  <2>4. Progressed(d) BY <1>1, <1>5, <2>3 DEF Progressed, ProgressAt
  <2>5. QED BY <1>1, <1>5, <2>1, <2>2, <2>4
<1>6. CASE Relay(d)
  <2>1. UNCHANGED count /\ \A e \in Downloads \ {d} : shown'[e] = shown[e] /\ channel'[e] = channel[e]
    BY <1>1, <1>6 DEF Relay
  <2>2. QED BY <1>1, <1>6, <2>1, RelayProgresses
<1>7. CASE Finish(d)
  <2>1. UNCHANGED count /\ \A e \in Downloads \ {d} : shown'[e] = shown[e] /\ channel'[e] = channel[e]
    BY <1>1, <1>7 DEF Finish
  <2>2. QED BY <1>1, <1>7, <2>1, FinishProgresses
<1>8. QED BY <1>2, <1>3, <1>4, <1>5, <1>6, <1>7, ProgressSteps

LEMMA ProgressStep ==
  ASSUME ProgressInv, FilesSound, [Next]_vars
  PROVE  ProgressInv' /\ \A d \in Downloads : shown[d] <= shown'[d] /\ shown'[d] <= Length
<1>1. ASSUME UNCHANGED <<count, channel, shown>>
      PROVE  ProgressInv' /\ \A d \in Downloads : shown[d] <= shown'[d]
  BY <1>1 DEF ProgressInv, ProgressAt
<1>2. ASSUME NEW d \in Downloads, DownloadNext(d)
      PROVE  ProgressInv' /\ \A e \in Downloads : shown[e] <= shown'[e]
  <2>1. ASSUME NEW e \in Downloads PROVE ProgressAt(e)' /\ shown[e] <= shown'[e]
    <3>1. CASE e = d BY <1>2, <3>1, OwnProgress DEF Progressed
    <3>2. CASE e # d
      <4>1. /\ shown'[e] = shown[e] /\ count'[e] = count[e] /\ channel'[e] = channel[e]
        BY <1>2, <3>2, OwnProgress
      <4>2. ProgressAt(e) /\ shown[e] \in Int BY DEF ProgressInv
      <4>3. QED BY <4>1, <4>2 DEF ProgressAt
    <3>3. QED BY <3>1, <3>2
  <2>2. /\ shown' \in [Downloads -> Int] /\ count' \in [Downloads -> Int]
        /\ channel' \in [Downloads -> Seq(Int)]
    BY <1>2, OwnProgress
  <2>3. QED BY <2>1, <2>2 DEF ProgressInv
<1>3. ProgressInv' /\ \A d \in Downloads : shown[d] <= shown'[d]
  BY <1>1, <1>2 DEF Next, OthersWrite, vars, futureVars
<1>4. ASSUME ProgressInv', NEW d \in Downloads PROVE shown'[d] <= Length
  <2>1. shown'[d] \in Int /\ count'[d] \in Int BY <1>4 DEF ProgressInv
  <2>2. shown'[d] <= count'[d] /\ count'[d] <= Length BY <1>4 DEF ProgressInv, ProgressAt
  <2>3. QED BY <2>1, <2>2, DownloadAssumption
<1>5. QED BY <1>3, <1>4

\* Whatever samples are dropped, and whether a download completes, fails or is
\* cancelled, the progress shown never runs backwards or past the object
\* (object_download's last notification included).
THEOREM ProgressNeverRunsBack == Spec => ProgressMonotone
<1>1. Init => ProgressInv
  <2>1. Len(<<>>) = 0 /\ <<>> \in Seq(Int) OBVIOUS
  <2>2. QED BY <2>1, DownloadAssumption DEF Init, ProgressInv, ProgressAt
<1>2. ProgressInv /\ FilesSound /\ [Next]_vars => ProgressInv' BY ProgressStep
<1>3. ProgressInv /\ FilesSound /\ [Next]_vars =>
        [\A d \in Downloads : shown[d] <= shown'[d] /\ shown'[d] <= Length]_vars
  BY ProgressStep
<1>4. QED BY <1>1, <1>2, <1>3, FilesAreSound, PTL DEF Spec, ProgressMonotone

=============================================================================
