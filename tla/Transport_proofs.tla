-------------------------- MODULE Transport_proofs --------------------------
(* Machine-checked proofs about Transport, for any set of requests and ids, *)
(* any number of permits and any pipe capacity.                             *)
EXTENDS Transport, FiniteSetTheorems, SequenceTheorems, TLAPS

\* Facts about the two queue operations on a sequence of protocol lines.
LEMMA AppendFacts ==
  ASSUME NEW seq \in Seq(Lines), NEW line \in Lines
  PROVE  /\ Append(seq, line) \in Seq(Lines)
         /\ Len(Append(seq, line)) = Len(seq) + 1
         /\ \A k \in 1..Len(seq) : Append(seq, line)[k] = seq[k]
         /\ Append(seq, line)[Len(seq) + 1] = line
OBVIOUS

LEMMA TailFacts ==
  ASSUME NEW seq \in Seq(Lines), seq # <<>>
  PROVE  /\ Head(seq) = seq[1]
         /\ 1 \in 1..Len(seq)
         /\ Tail(seq) \in Seq(Lines)
         /\ Len(Tail(seq)) = Len(seq) - 1
         /\ \A k \in 1..Len(Tail(seq)) : Tail(seq)[k] = seq[k + 1] /\ k + 1 \in 1..Len(seq)
OBVIOUS

LEMMA LineFacts ==
  ASSUME NEW line \in Lines
  PROVE  /\ line[1] = "request" => line[2] \in Reqs /\ line = <<"request", line[2]>>
         /\ line[1] = "cancel" => line[2] \in Ids /\ line = <<"cancel", line[2]>>
         /\ line[1] = "malformed" => line[2] = NoReq
BY DEF Lines

\* The reader, the client and the tasks keep the connection well formed; in
\* particular no request takes a permit that is not free, and no sequence of
\* answers returns one twice.
LEMMA ShapeCorrect == Spec => []Shape
<1>1. Init => Shape
  <2> SUFFICES ASSUME Init PROVE Shape OBVIOUS
  <2>1. inbox \in Seq(Lines) BY DEF Init
  <2>2. permits \in Int BY ConstantsAssumption DEF Init
  <2>3. QED BY <2>1, <2>2 DEF Init, Shape, TaskStates, Results, Phases
<1>2. ASSUME Shape, [Next]_vars PROVE Shape'
  <2> USE <1>2, ConstantsAssumption DEF Shape, vars, clientVars, TaskStates, TaskSteps, Results, Phases
  <2>1. ASSUME ClientNext PROVE Shape'
    <3>1. ASSUME NEW line \in Lines, ClientWrites(line) PROVE inbox' \in Seq(Lines)
      BY <3>1, AppendFacts DEF ClientWrites
    <3>2. ASSUME NEW r \in Reqs, NEW i \in Ids \cup {NoId}, ClientSend(r, i)
          PROVE Shape'
      <4>1. <<"request", r>> \in Lines BY DEF Lines
      <4>2. QED BY <3>1, <3>2, <4>1 DEF ClientSend, ClientWrites
    <3>3. ASSUME NEW i \in Ids, ClientCancel(i) PROVE Shape'
      <4>1. <<"cancel", i>> \in Lines BY DEF Lines
      <4>2. QED BY <3>1, <3>3, <4>1 DEF ClientCancel, ClientWrites
    <3>4. CASE ClientGarbage
      <4>1. <<"malformed", NoReq>> \in Lines BY DEF Lines
      <4>2. QED BY <3>1, <3>4, <4>1 DEF ClientGarbage, ClientWrites
    <3>5. CASE ClientClose BY <3>5 DEF ClientClose
    <3>6. CASE PipeBreaks BY <3>6 DEF PipeBreaks
    <3> QED BY <2>1, <3>2, <3>3, <3>4, <3>5, <3>6 DEF ClientNext
  <2>2. ASSUME ReaderNext PROVE Shape'
    <3>1. ASSUME NEW kind, Reads(kind)
          PROVE  inbox' \in Seq(Lines) /\ Head(inbox) \in Lines
      BY <3>1, TailFacts DEF Reads
    <3>2. CASE ReadRequest
      <4>1. Head(inbox)[2] \in Reqs
        BY <3>1, <3>2, LineFacts DEF ReadRequest, Reads
      <4>2. UNCHANGED <<closed, idOf, wanted, pipe>> /\ inbox' \in Seq(Lines)
        BY <3>1, <3>2 DEF ReadRequest, Reads
      <4>3. ASSUME NEW why \in {"busy", "duplicate"}, Refuse(Head(inbox)[2], why)
            PROVE  Shape'
        BY <4>1, <4>2, <4>3 DEF Refuse
      <4>4. CASE Admit(Head(inbox)[2]) BY <4>1, <4>2, <4>4 DEF Admit
      <4>5. CASE Fails BY <4>2, <4>5 DEF Fails
      <4> QED BY <3>2, <4>3, <4>4, <4>5 DEF ReadRequest
    <3>3. CASE ReadCancel
      <4>1. Head(inbox)[2] \in Ids
        BY <3>1, <3>3, LineFacts DEF ReadCancel, Reads
      <4>2. QED BY <3>1, <3>3, <4>1 DEF ReadCancel, Reads
    <3>4. CASE ReadMalformed BY <3>1, <3>4 DEF ReadMalformed, Reads, Fails
    <3>5. CASE ReadEof BY <3>5 DEF ReadEof
    <3>6. CASE ReadFails BY <3>6 DEF ReadFails, Fails
    <3>7. CASE CancelAll BY <3>7 DEF CancelAll, Active
    <3>8. CASE End BY <3>8 DEF End
    <3> QED BY <2>2, <3>2, <3>3, <3>4, <3>5, <3>6, <3>7, <3>8 DEF ReaderNext
  <2>3. ASSUME NEW r \in Reqs, TaskNext(r) PROVE Shape'
    <3>1. CASE HandlerReturns(r) BY <3>1 DEF HandlerReturns, Decide
    <3>2. CASE SeeCancel(r) BY <3>2 DEF SeeCancel
    <3>3. CASE GraceReturns(r) BY <3>3 DEF GraceReturns, Decide
    <3>4. CASE GraceExpires(r) BY <3>4 DEF GraceExpires, Decide
    <3>5. CASE WriteAnswer(r) BY <3>5 DEF WriteAnswer
    <3>6. CASE Unregister(r) BY <3>6 DEF Unregister
    <3> QED BY <2>3, <3>1, <3>2, <3>3, <3>4, <3>5, <3>6 DEF TaskNext
  <2>4. CASE UNCHANGED vars BY <2>4
  <2>5. QED BY <2>1, <2>2, <2>3, <2>4 DEF Next, Over
<1>3. QED BY <1>1, <1>2, PTL DEF Spec

\* A request line in the input belongs to a request that was sent once and
\* has not been looked at by the reader.
LEMMA InboxInvariant == Spec => []InboxSent
<1>1. Init => InboxSent BY DEF Init, InboxSent
<1>2. ASSUME Shape, InboxSent, [Next]_vars PROVE InboxSent'
  <2> USE <1>2, ConstantsAssumption DEF Shape, InboxSent, TaskSteps, TaskStates
  <2>1. ASSUME UNCHANGED inbox,
               \A r \in Reqs : task[r] = "sent" => task'[r] = "sent"
        PROVE  InboxSent'
    BY <2>1, LineFacts
  <2>2. ASSUME ClientNext PROVE InboxSent'
    <3>1. ASSUME NEW line \in Lines, ClientWrites(line), UNCHANGED task,
                 line[1] # "request"
          PROVE  InboxSent'
      BY <3>1, AppendFacts, LineFacts DEF ClientWrites
    <3>2. ASSUME NEW r \in Reqs, NEW i \in Ids \cup {NoId}, ClientSend(r, i)
          PROVE InboxSent'
      <4> DEFINE line == <<"request", r>>
      <4>1. line \in Lines BY DEF Lines
      <4>2. inbox' = Append(inbox, line) /\ task' = [task EXCEPT ![r] = "sent"]
            /\ task[r] = "unsent"
        BY <3>2 DEF ClientSend, ClientWrites
      <4>3. \A k \in 1..Len(inbox) : inbox[k] # line BY <4>2
      <4> HIDE DEF line
      <4>4. /\ Len(inbox') = Len(inbox) + 1
            /\ \A k \in 1..Len(inbox) : inbox'[k] = inbox[k]
            /\ inbox'[Len(inbox) + 1] = line
        BY <4>1, <4>2, AppendFacts
      <4>5. line[1] = "request" /\ line[2] = r BY DEF line
      <4>6. ASSUME NEW k \in 1..Len(inbox'), inbox'[k][1] = "request"
            PROVE  /\ task'[inbox'[k][2]] = "sent"
                   /\ \A l \in 1..Len(inbox') : inbox'[l] = inbox'[k] => l = k
        <5>1. CASE k \in 1..Len(inbox)
          <6>1. inbox[k] \in Lines BY <5>1
          <6>2. inbox[k][2] \in Reqs BY <4>4, <4>6, <5>1, <6>1, LineFacts
          <6>3. QED BY <4>2, <4>3, <4>4, <4>6, <5>1, <6>2
        <5>2. CASE k = Len(inbox) + 1
          BY <4>2, <4>3, <4>4, <4>5, <5>2
        <5>3. QED BY <4>4, <5>1, <5>2
      <4>7. QED BY <4>6
    <3>3. ASSUME NEW i \in Ids, ClientCancel(i) PROVE InboxSent'
      <4>1. <<"cancel", i>> \in Lines BY DEF Lines
      <4>2. QED BY <3>1, <3>3, <4>1 DEF ClientCancel
    <3>4. CASE ClientGarbage
      <4>1. <<"malformed", NoReq>> \in Lines BY DEF Lines
      <4>2. QED BY <3>1, <3>4, <4>1 DEF ClientGarbage
    <3>5. CASE ClientClose BY <3>5, <2>1 DEF ClientClose
    <3>6. CASE PipeBreaks BY <3>6, <2>1 DEF PipeBreaks, clientVars
    <3> QED BY <2>2, <3>2, <3>3, <3>4, <3>5, <3>6 DEF ClientNext
  <2>3. ASSUME ReaderNext PROVE InboxSent'
    <3>1. ASSUME NEW kind, Reads(kind),
                 \A r \in Reqs : task[r] = "sent" =>
                   task'[r] = "sent" \/ Head(inbox) = <<"request", r>>
          PROVE  InboxSent'
      <4>1. /\ inbox # <<>> /\ Head(inbox) = inbox[1] /\ inbox' = Tail(inbox)
            /\ 1 \in 1..Len(inbox)
            /\ \A k \in 1..Len(inbox') :
                 inbox'[k] = inbox[k + 1] /\ k + 1 \in 1..Len(inbox)
        BY <3>1, TailFacts DEF Reads
      <4>2. ASSUME NEW k \in 1..Len(inbox'), inbox'[k][1] = "request"
            PROVE  /\ task'[inbox'[k][2]] = "sent"
                   /\ \A l \in 1..Len(inbox') : inbox'[l] = inbox'[k] => l = k
        <5>1. inbox[k + 1] \in Lines BY <4>1
        <5>2. /\ inbox[k + 1][2] \in Reqs
              /\ inbox[k + 1] = <<"request", inbox[k + 1][2]>>
          BY <4>1, <4>2, <5>1, LineFacts
        <5>3. inbox[1] # inbox[k + 1] BY <4>1, <4>2
        <5>4. task'[inbox'[k][2]] = "sent"
          <6>1. PICK r \in Reqs : r = inbox[k + 1][2] BY <5>2
          <6>2. task[r] = "sent" /\ inbox'[k][2] = r BY <4>1, <4>2, <6>1
          <6>3. Head(inbox) # <<"request", r>> BY <4>1, <5>2, <5>3, <6>1
          <6>4. QED BY <3>1, <6>2, <6>3
        <5>5. \A l \in 1..Len(inbox') : inbox'[l] = inbox'[k] => l = k
          BY <4>1, <4>2
        <5>6. QED BY <5>4, <5>5
      <4>3. QED BY <4>2
    <3>2. CASE ReadRequest
      <4>1. /\ Head(inbox) \in Lines /\ Reads("request")
            /\ Head(inbox) = <<"request", Head(inbox)[2]>>
            /\ Head(inbox)[2] \in Reqs
        BY <3>2, TailFacts, LineFacts DEF ReadRequest, Reads
      <4>2. \A r \in Reqs : task[r] = "sent" =>
              task'[r] = "sent" \/ Head(inbox) = <<"request", r>>
        BY <3>2, <4>1 DEF ReadRequest, Refuse, Admit, Fails
      <4>3. QED BY <3>1, <4>1, <4>2
    <3>3. CASE ReadCancel BY <3>1, <3>3 DEF ReadCancel
    <3>4. CASE ReadMalformed BY <3>1, <3>4 DEF ReadMalformed, Fails
    <3>5. CASE ReadEof BY <3>5, <2>1 DEF ReadEof, clientVars
    <3>6. CASE ReadFails BY <3>6, <2>1 DEF ReadFails, Fails, clientVars
    <3>7. CASE CancelAll BY <3>7, <2>1 DEF CancelAll, clientVars
    <3>8. CASE End BY <3>8, <2>1 DEF End, clientVars
    <3> QED BY <2>3, <3>2, <3>3, <3>4, <3>5, <3>6, <3>7, <3>8 DEF ReaderNext
  <2>4. ASSUME NEW r \in Reqs, TaskNext(r) PROVE InboxSent'
    BY <2>1, <2>4 DEF TaskNext, HandlerReturns, SeeCancel, GraceReturns,
       GraceExpires, WriteAnswer, Unregister, Decide, clientVars
  <2>5. CASE UNCHANGED vars BY <2>1, <2>5 DEF vars, clientVars
  <2>6. QED BY <2>2, <2>3, <2>4, <2>5 DEF Next, Over
<1>3. QED BY <1>1, <1>2, ShapeCorrect, PTL DEF Spec

\* The head of the input, when it is a request, is about to be admitted or
\* refused for the first time.
LEMMA HeadSent ==
  ASSUME Shape, InboxSent, Reads("request")
  PROVE  Head(inbox)[2] \in Reqs /\ task[Head(inbox)[2]] = "sent"
BY TailFacts, LineFacts DEF Shape, InboxSent, Reads

\* The in-flight map is exact: task.insert, task.remove and the refusals of
\* serve_with_limit keep every cancellable request reachable, under its own id.
THEOREM InFlightIsExact == Spec => []InFlightExact
<1>1. Init => InFlightExact
  BY ConstantsAssumption DEF Init, InFlightExact, Active, TaskSteps
<1>2. ASSUME Shape, InboxSent, InFlightExact, [Next]_vars PROVE InFlightExact'
  <2> USE <1>2, ConstantsAssumption
      DEF Shape, InFlightExact, Active, TaskSteps, clientVars
  <2>0. ASSUME UNCHANGED <<inFlight, idOf, task>>, phase = "failed" => phase' = "failed"
        PROVE  InFlightExact'
    BY <2>0
  <2>1. ASSUME ClientNext PROVE InFlightExact'
    <3>1. ASSUME NEW r \in Reqs, NEW i \in Ids \cup {NoId}, ClientSend(r, i)
          PROVE InFlightExact'
      BY <3>1 DEF ClientSend
    <3>2. QED
      BY <2>0, <2>1, <3>1 DEF ClientNext, ClientCancel, ClientGarbage, ClientClose,
         PipeBreaks, clientVars
  <2>2. ASSUME ReaderNext PROVE InFlightExact'
    <3>1. CASE ReadRequest
      <4> DEFINE r == Head(inbox)[2]
      <4>1. r \in Reqs /\ task[r] = "sent" BY <3>1, HeadSent DEF ReadRequest
      <4>2. UNCHANGED idOf BY <3>1 DEF ReadRequest, Reads
      <4> HIDE DEF r
      <4>3. ASSUME NEW why, Refuse(r, why) PROVE InFlightExact'
        BY <4>1, <4>2, <4>3 DEF Refuse
      <4>4. CASE idOf[r] = NoId /\ Admit(r) BY <4>1, <4>2, <4>4 DEF Admit
      <4>5. CASE idOf[r] # NoId /\ inFlight[idOf[r]] = NoReq /\ Admit(r)
        <5>1. /\ idOf[r] \in Ids
              /\ inFlight' = [inFlight EXCEPT ![idOf[r]] = r]
              /\ task' = [task EXCEPT ![r] = "running"]
          BY <4>1, <4>5 DEF Admit
        <5>2. QED BY <4>1, <4>2, <4>5, <5>1 DEF Admit
      <4>6. CASE Fails BY <4>6 DEF Fails
      <4>7. QED BY <3>1, <4>3, <4>4, <4>5, <4>6 DEF ReadRequest, r
    <3>2. CASE ReadMalformed BY <2>0, <3>2 DEF ReadMalformed, Reads, Fails
    <3>3. CASE ReadFails BY <3>3 DEF ReadFails, Fails
    <3>4. QED BY <2>0, <2>2, <3>1, <3>2, <3>3 DEF ReaderNext, ReadCancel, Reads,
                ReadEof, CancelAll, End
  <2>3. ASSUME NEW r \in Reqs, TaskNext(r) PROVE InFlightExact'
    <3>1. CASE HandlerReturns(r) BY <3>1 DEF HandlerReturns, Decide
    <3>2. CASE SeeCancel(r) BY <3>2 DEF SeeCancel
    <3>3. CASE GraceReturns(r) BY <3>3 DEF GraceReturns, Decide
    <3>4. CASE GraceExpires(r) BY <3>4 DEF GraceExpires, Decide
    <3>5. CASE WriteAnswer(r) BY <3>5 DEF WriteAnswer
    <3>6. CASE Unregister(r) BY <3>6 DEF Unregister
    <3> QED BY <2>3, <3>1, <3>2, <3>3, <3>4, <3>5, <3>6 DEF TaskNext
  <2>4. CASE UNCHANGED vars BY <2>0, <2>4 DEF vars
  <2>5. QED BY <2>1, <2>2, <2>3, <2>4 DEF Next, Over
<1>3. QED BY <1>1, <1>2, ShapeCorrect, InboxInvariant, PTL DEF Spec

\* Entering and leaving the set of operating requests, counted.
LEMMA OperatingCounts ==
  ASSUME Shape
  PROVE  /\ IsFiniteSet(Operating) /\ Cardinality(Operating) \in Nat
         /\ \A r \in Reqs : r \notin Operating =>
              Cardinality(Operating \cup {r}) = Cardinality(Operating) + 1
         /\ \A r \in Reqs : r \in Operating =>
              Cardinality(Operating \ {r}) = Cardinality(Operating) - 1
<1>1. IsFiniteSet(Operating)
  <2>1. Operating \subseteq Reqs BY DEF Operating
  <2>2. QED BY <2>1, FS_Subset, ConstantsAssumption
<1>2. Cardinality(Operating) \in Nat BY <1>1, FS_CardinalityType
<1>3. QED BY <1>1, <1>2, FS_AddElement, FS_RemoveElement

\* The reader takes a permit for every operation it admits and the operation
\* gives it back once, whether it returns, fails, or is cut off.
PermitInv ==
  /\ PermitsConserved
  /\ permits \in 0..MaxConcurrent

\* When serve_with_limit fails it drops its JoinSet, so no task outlives it.
FailedIsQuiet == phase = "failed" => Active = {}

LEMMA FailureAborts == Spec => []FailedIsQuiet
<1>1. Init => FailedIsQuiet BY DEF Init, FailedIsQuiet
<1>2. ASSUME Shape, InboxSent, FailedIsQuiet, [Next]_vars PROVE FailedIsQuiet'
  <2> USE <1>2 DEF Shape, FailedIsQuiet, Active, TaskSteps
  <2>1. ASSUME ClientNext PROVE FailedIsQuiet'
    BY <2>1 DEF ClientNext, ClientSend, ClientCancel, ClientGarbage, ClientClose,
       PipeBreaks, clientVars
  <2>2. ASSUME ReaderNext PROVE FailedIsQuiet'
    <3>1. CASE ReadRequest
      <4>1. Head(inbox)[2] \in Reqs /\ phase = "reading"
        BY <3>1, HeadSent DEF ReadRequest, Reads
      <4>2. QED BY <3>1, <4>1 DEF ReadRequest, Refuse, Admit, Fails
    <3>2. QED BY <2>2, <3>1 DEF ReaderNext, ReadCancel, ReadMalformed, ReadEof,
                ReadFails, Reads, Fails, CancelAll, End
  <2>3. ASSUME NEW r \in Reqs, TaskNext(r) PROVE FailedIsQuiet'
    BY <2>3 DEF TaskNext, HandlerReturns, SeeCancel, GraceReturns, GraceExpires,
       WriteAnswer, Unregister, Decide
  <2>4. CASE UNCHANGED vars BY <2>4 DEF vars
  <2>5. QED BY <2>1, <2>2, <2>3, <2>4 DEF Next, Over
<1>3. QED BY <1>1, <1>2, ShapeCorrect, InboxInvariant, PTL DEF Spec

LEMMA PermitInvariant == Spec => []PermitInv
<1>1. Init => PermitInv
  <2> SUFFICES ASSUME Init PROVE PermitInv OBVIOUS
  <2>1. Operating = {} BY DEF Init, Operating
  <2>2. QED BY <2>1, FS_EmptySet, ConstantsAssumption
            DEF Init, PermitInv, PermitsConserved
<1>2. ASSUME Shape, Shape', InboxSent, FailedIsQuiet, PermitInv, [Next]_vars
      PROVE  PermitInv'
  <2> USE <1>2, ConstantsAssumption DEF PermitInv, PermitsConserved
  <2>n. /\ Cardinality(Operating) \in Nat
        /\ Cardinality(Operating') \in Nat
    <3>1. Cardinality(Operating) \in Nat BY OperatingCounts
    <3>2. Operating' \subseteq Reqs BY DEF Operating
    <3>3. IsFiniteSet(Operating') BY <3>2, FS_Subset
    <3>4. QED BY <3>1, <3>3, FS_CardinalityType
  <2>0. ASSUME UNCHANGED permits, phase' # "failed" => UNCHANGED Operating,
               phase = "failed" => phase' = "failed"
        PROVE  PermitInv'
    BY <2>0
  <2>1. ASSUME ClientNext PROVE PermitInv'
    <3>1. ASSUME NEW r \in Reqs, NEW i \in Ids \cup {NoId}, ClientSend(r, i)
          PROVE PermitInv'
      <4>1. UNCHANGED Operating BY <3>1 DEF ClientSend, Operating, Shape
      <4>2. QED BY <2>0, <3>1, <4>1 DEF ClientSend
    <3>2. QED
      BY <2>0, <2>1, <3>1 DEF ClientNext, Operating, ClientCancel, ClientGarbage,
         ClientClose, PipeBreaks, clientVars
  <2>2. ASSUME ReaderNext PROVE PermitInv'
    <3>1. CASE ReadRequest
      <4> DEFINE r == Head(inbox)[2]
      <4>1. r \in Reqs /\ task[r] = "sent" BY <3>1, HeadSent DEF ReadRequest
      <4>p. phase = "reading" BY <3>1 DEF ReadRequest, Reads
      <4> HIDE DEF r
      <4>2. ASSUME NEW why, Refuse(r, why) PROVE PermitInv'
        <5>1. UNCHANGED Operating BY <4>1, <4>2 DEF Refuse, Operating, Shape
        <5>2. QED BY <2>0, <4>2, <5>1 DEF Refuse
      <4>3. CASE permits > 0 /\ Admit(r)
        <5>1. r \notin Operating BY <4>1 DEF Operating
        <5>2. Operating' = Operating \cup {r}
          BY <4>1, <4>3 DEF Admit, Operating, Shape
        <5>3. Cardinality(Operating') = Cardinality(Operating) + 1
          BY <4>1, <5>1, <5>2, OperatingCounts
        <5>4. permits' = permits - 1 /\ phase' = phase BY <4>3 DEF Admit
        <5>5. QED BY <2>n, <4>p, <4>3, <5>3, <5>4
      <4>4. CASE Fails BY <4>4 DEF Fails
      <4>5. QED BY <3>1, <4>2, <4>3, <4>4 DEF ReadRequest, r
    <3>2. CASE ReadMalformed
      BY <2>0, <3>2 DEF ReadMalformed, Reads, Fails, Operating
    <3>3. CASE ReadFails BY <3>3 DEF ReadFails, Fails
    <3>4. QED BY <2>0, <2>2, <3>1, <3>2, <3>3 DEF ReaderNext, ReadCancel, Reads,
                ReadEof, CancelAll, End, clientVars, Operating
  <2>3. ASSUME NEW r \in Reqs, TaskNext(r) PROVE PermitInv'
    <3>1. ASSUME NEW outcome, task[r] \in {"running", "grace"}, Decide(r, outcome)
          PROVE  PermitInv'
      <4>1. r \in Operating BY <3>1 DEF Operating
      <4>2. Operating' = Operating \ {r} BY <3>1 DEF Decide, Operating, Shape
      <4>3. Cardinality(Operating') = Cardinality(Operating) - 1
        BY <4>1, <4>2, OperatingCounts
      <4>4. permits' = permits + 1 /\ phase' = phase BY <3>1 DEF Decide
      <4>5. phase # "failed" BY <3>1 DEF FailedIsQuiet, Active, TaskSteps
      <4>6. QED BY <2>n, <4>3, <4>4, <4>5
    <3>2. CASE SeeCancel(r)
      <4>1. UNCHANGED Operating BY <3>2 DEF SeeCancel, Operating, Shape
      <4>2. QED BY <2>0, <3>2, <4>1 DEF SeeCancel
    <3>3. CASE WriteAnswer(r) \/ Unregister(r)
      <4>1. UNCHANGED Operating
        BY <3>3 DEF WriteAnswer, Unregister, Operating, Shape
      <4>2. QED BY <2>0, <3>3, <4>1 DEF WriteAnswer, Unregister
    <3>4. QED BY <2>3, <3>1, <3>2, <3>3
               DEF TaskNext, HandlerReturns, GraceReturns, GraceExpires
  <2>4. CASE UNCHANGED vars BY <2>0, <2>4 DEF vars, Operating
  <2>5. QED BY <2>1, <2>2, <2>3, <2>4 DEF Next, Over
<1>3. QED BY <1>1, <1>2, ShapeCorrect, InboxInvariant, FailureAborts, PTL DEF Spec

\* Permits are conserved (transport.rs, the semaphore of serve_with_limit).
THEOREM PermitsAreConserved == Spec => []PermitsConserved
<1>1. PermitInv => PermitsConserved BY DEF PermitInv
<1>2. QED BY <1>1, PermitInvariant, PTL

\* Type correctness, including the range of the semaphore.
THEOREM TypeCorrect == Spec => []TypeOK
<1>1. Shape /\ PermitInv => TypeOK BY DEF TypeOK, PermitInv
<1>2. QED BY <1>1, ShapeCorrect, PermitInvariant, PTL

\* SERVER_BUSY is answered only while the limit of operations is running.
THEOREM BusyMeansFull == Spec => BusyOnlyAtLimit
<1> DEFINE A == \A r \in Reqs : result'[r] = "busy" /\ result[r] # "busy"
                  => Cardinality(Operating) = MaxConcurrent
<1>1. ASSUME Shape, InboxSent, PermitInv, [Next]_vars PROVE [A]_vars
  <2> USE <1>1 DEF Shape
  <2>1. ASSUME NEW r \in Reqs, result'[r] = "busy", result[r] # "busy"
        PROVE  Cardinality(Operating) = MaxConcurrent
    <3>1. CASE permits = 0 /\ phase = "reading"
      <4>1. Cardinality(Operating) \in Nat BY OperatingCounts
      <4>2. QED BY <3>1, <4>1, ConstantsAssumption DEF PermitInv, PermitsConserved
    <3>2. CASE ReadRequest
      <4>1. phase = "reading" /\ Head(inbox)[2] \in Reqs
        BY <3>2, HeadSent DEF ReadRequest, Reads
      <4>2. permits = 0
        BY <2>1, <3>2, <4>1 DEF ReadRequest, Refuse, Admit, Fails
      <4>3. QED BY <3>1, <4>1, <4>2
    <3>3. ASSUME NEW s \in Reqs, TaskNext(s) PROVE FALSE
      BY <2>1, <3>3 DEF TaskNext, HandlerReturns, SeeCancel, GraceReturns,
         GraceExpires, WriteAnswer, Unregister, Decide
    <3>4. CASE UNCHANGED result BY <2>1, <3>4
    <3>5. QED BY <3>2, <3>3, <3>4 DEF Next, ClientNext, ReaderNext, Over, vars,
                ClientSend, ReadCancel, ReadMalformed, ReadEof, ReadFails, Fails,
                CancelAll, End, ClientCancel, ClientGarbage, ClientClose, PipeBreaks, clientVars
  <2>2. QED BY <2>1
<1>2. QED BY <1>1, ShapeCorrect, InboxInvariant, PermitInvariant, PTL
          DEF Spec, BusyOnlyAtLimit

-----------------------------------------------------------------------------
(* A cancellation hits only a request it is for: a request that the reader  *)
(* meets before a cancel line of its id was unanswered when the line was    *)
(* written, whatever ids the client uses again.                             *)

\* The reader meets the request before it meets line k of the input.
MetBefore(r, k) ==
  \/ task[r] \in {"running", "grace", "answer"}
  \/ \E l \in 1..(k - 1) : inbox[l] = <<"request", r>>

\* The unanswered request a waiting cancel line will find is the one it is for.
CancelLinesWanted ==
  phase # "failed" =>
    \A k \in 1..Len(inbox), r \in Reqs :
      inbox[k] = <<"cancel", idOf[r]>> /\ MetBefore(r, k) => r \in wanted

\* Until the connection closes, a token fires for a request the client wanted to
\* cancel, or for one that has its answer.
TokensWanted ==
  phase \in {"reading", "draining"} =>
    /\ \A r \in cancelled : r \in wanted \/ Answered(r)
    /\ \A r \in Reqs : task[r] = "grace" => r \in cancelled
    /\ \A r \in Reqs : result[r] = "cancelled" => r \in wanted

LEMMA CancelLineInvariant == Spec => []CancelLinesWanted
<1>1. Init => CancelLinesWanted BY DEF Init, CancelLinesWanted
<1>2. ASSUME Shape, InboxSent, CancelLinesWanted, [Next]_vars
      PROVE  CancelLinesWanted'
  <2> USE <1>2, ConstantsAssumption DEF Shape, CancelLinesWanted, TaskStates, TaskSteps
  <2> DEFINE Worked(r) == task[r] \in {"running", "grace", "answer"}
  <2>1. ASSUME UNCHANGED <<inbox, idOf>>, phase' # "failed" => phase # "failed",
               wanted \subseteq wanted',
               phase' # "failed" => \A r \in Reqs : Worked(r)' => Worked(r)
        PROVE  CancelLinesWanted'
    BY <2>1 DEF MetBefore
  <2>2. ASSUME ClientNext PROVE CancelLinesWanted'
    <3> SUFFICES ASSUME phase' # "failed",
                        NEW k \in 1..Len(inbox'), NEW r \in Reqs,
                        inbox'[k] = <<"cancel", idOf'[r]>>, MetBefore(r, k)'
                 PROVE  r \in wanted'
      OBVIOUS
    <3>1. ASSUME NEW line \in Lines, ClientWrites(line)
          PROVE  /\ Len(inbox') = Len(inbox) + 1 /\ inbox'[Len(inbox) + 1] = line
                 /\ \A l \in 1..Len(inbox) : inbox'[l] = inbox[l]
                 /\ \A l \in 1..(k - 1) : inbox'[l] = inbox[l] /\ l \in 1..Len(inbox)
      BY <3>1, AppendFacts DEF ClientWrites
    <3>2. ASSUME NEW s \in Reqs, NEW i \in Ids \cup {NoId}, ClientSend(s, i)
          PROVE  r \in wanted'
      <4>1. <<"request", s>> \in Lines BY DEF Lines
      <4>2. ClientWrites(<<"request", s>>) BY <3>2 DEF ClientSend
      <4>3. k \in 1..Len(inbox) /\ inbox[k] = inbox'[k] BY <3>1, <4>1, <4>2
      <4>4. r # s
        <5>1. ASSUME NEW l \in 1..Len(inbox), inbox[l] = <<"request", s>> PROVE FALSE
          <6>1. task[s] = "sent" BY <5>1 DEF InboxSent
          <6>2. QED BY <6>1, <3>2 DEF ClientSend
        <5>2. QED BY <3>1, <3>2, <4>1, <4>2, <5>1 DEF MetBefore, ClientSend
      <4>5. MetBefore(r, k) BY <3>1, <3>2, <4>1, <4>2, <4>4 DEF MetBefore, ClientSend
      <4>6. idOf'[r] = idOf[r] /\ UNCHANGED <<wanted, phase>> BY <3>2, <4>4 DEF ClientSend
      <4>7. QED BY <4>3, <4>5, <4>6
    <3>3. ASSUME NEW i \in Ids, ClientCancel(i) PROVE r \in wanted'
      <4>1. <<"cancel", i>> \in Lines BY DEF Lines
      <4>2. ClientWrites(<<"cancel", i>>) /\ UNCHANGED <<idOf, task, phase>>
        BY <3>3 DEF ClientCancel
      <4>3. MetBefore(r, k) BY <3>1, <4>1, <4>2 DEF MetBefore
      <4>4. wanted' = wanted \cup {s \in Reqs : idOf[s] = i /\ Unanswered(s)}
        BY <3>3 DEF ClientCancel
      <4>5. CASE k \in 1..Len(inbox)
        BY <3>1, <4>1, <4>2, <4>3, <4>4, <4>5
      <4>6. CASE k = Len(inbox) + 1
        <5>1. idOf[r] = i BY <3>1, <4>1, <4>2, <4>6
        <5>2. Unanswered(r)
          <6>1. CASE Worked(r) BY <6>1 DEF Unanswered, Answered
          <6>2. ASSUME NEW l \in 1..(k - 1), inbox[l] = <<"request", r>> PROVE Unanswered(r)
            <7>1. l \in 1..Len(inbox) BY <4>6
            <7>2. task[r] = "sent" BY <6>2, <7>1 DEF InboxSent
            <7>3. QED BY <7>2 DEF Unanswered, Answered
          <6>3. QED BY <4>3, <6>1, <6>2 DEF MetBefore
        <5>3. QED BY <4>4, <5>1, <5>2
      <4>7. QED BY <3>1, <4>1, <4>2, <4>5, <4>6
    <3>4. CASE ClientGarbage
      <4>1. <<"malformed", NoReq>> \in Lines BY DEF Lines
      <4>2. ClientWrites(<<"malformed", NoReq>>) /\ UNCHANGED <<idOf, task, phase, wanted>>
        BY <3>4 DEF ClientGarbage
      <4>3. MetBefore(r, k) BY <3>1, <4>1, <4>2 DEF MetBefore
      <4>4. k \in 1..Len(inbox) /\ inbox[k] = <<"cancel", idOf[r]>>
        <5>1. inbox'[Len(inbox) + 1] = <<"malformed", NoReq>> BY <3>1, <4>1, <4>2
        <5>2. k # Len(inbox) + 1 BY <5>1
        <5>3. QED BY <3>1, <4>1, <4>2, <5>2
      <4>5. QED BY <4>2, <4>3, <4>4
    <3>5. CASE ClientClose BY <2>1, <3>5 DEF ClientClose
    <3>6. CASE PipeBreaks BY <2>1, <3>6 DEF PipeBreaks, clientVars
    <3>7. QED BY <2>2, <3>2, <3>3, <3>4, <3>5, <3>6 DEF ClientNext
  <2>3. ASSUME ReaderNext PROVE CancelLinesWanted'
    <3>1. ASSUME NEW kind, Reads(kind),
                 phase' # "failed" =>
                   \A r \in Reqs : Worked(r)' => Worked(r) \/ Head(inbox) = <<"request", r>>
          PROVE  CancelLinesWanted'
      <4>1. /\ inbox # <<>> /\ Head(inbox) = inbox[1] /\ inbox' = Tail(inbox)
            /\ Len(inbox') = Len(inbox) - 1 /\ Len(inbox) \in Nat
            /\ \A k \in 1..Len(inbox') : inbox'[k] = inbox[k + 1] /\ k + 1 \in 1..Len(inbox)
        BY <3>1, TailFacts DEF Reads
      <4>2. phase # "failed" /\ UNCHANGED <<idOf, wanted>> BY <3>1 DEF Reads
      <4>3. SUFFICES ASSUME phase' # "failed",
                            NEW k \in 1..Len(inbox'), NEW r \in Reqs,
                            inbox'[k] = <<"cancel", idOf'[r]>>, MetBefore(r, k)'
                     PROVE  MetBefore(r, k + 1)
        BY <4>1, <4>2
      <4>4. CASE Worked(r)' BY <3>1, <4>1, <4>3, <4>4 DEF MetBefore
      <4>5. ASSUME NEW l \in 1..(k - 1), inbox'[l] = <<"request", r>>
            PROVE  MetBefore(r, k + 1)
        <5>1. inbox[l + 1] = <<"request", r>> /\ l + 1 \in 1..k BY <4>1, <4>5
        <5>2. QED BY <5>1 DEF MetBefore
      <4>6. QED BY <4>3, <4>4, <4>5 DEF MetBefore
    <3>2. CASE ReadRequest
      <4>1. /\ Reads("request") /\ Head(inbox)[2] \in Reqs
            /\ Head(inbox) = <<"request", Head(inbox)[2]>>
        BY <3>2, TailFacts, LineFacts DEF ReadRequest, Reads
      <4>2. QED BY <3>1, <3>2, <4>1 DEF ReadRequest, Refuse, Admit, Fails
    <3>3. CASE ReadCancel BY <3>1, <3>3 DEF ReadCancel
    <3>4. CASE ReadMalformed BY <3>1, <3>4 DEF ReadMalformed, Fails
    <3>5. CASE ReadEof \/ ReadFails \/ CancelAll \/ End
      BY <2>1, <3>5 DEF ReadEof, ReadFails, Fails, CancelAll, End, clientVars
    <3>6. QED BY <2>3, <3>2, <3>3, <3>4, <3>5 DEF ReaderNext
  <2>4. ASSUME NEW r \in Reqs, TaskNext(r) PROVE CancelLinesWanted'
    BY <2>1, <2>4 DEF TaskNext, HandlerReturns, SeeCancel, GraceReturns, GraceExpires,
       WriteAnswer, Unregister, Decide, clientVars
  <2>5. CASE UNCHANGED vars BY <2>1, <2>5 DEF vars, clientVars
  <2>6. QED BY <2>2, <2>3, <2>4, <2>5 DEF Next, Over
<1>3. QED BY <1>1, <1>2, ShapeCorrect, InboxInvariant, PTL DEF Spec

LEMMA TokenInvariant == Spec => []TokensWanted
<1>1. Init => TokensWanted BY DEF Init, TokensWanted
<1>2. ASSUME Shape, InboxSent, InFlightExact, CancelLinesWanted, TokensWanted, [Next]_vars
      PROVE  TokensWanted'
  <2> USE <1>2, ConstantsAssumption
      DEF Shape, TokensWanted, Answered, TaskStates, TaskSteps, Results, clientVars
  <2>1. ASSUME NEW r \in Reqs, NEW i \in Ids \cup {NoId}, ClientSend(r, i)
        PROVE  TokensWanted'
    BY <2>1 DEF ClientSend
  <2>2. CASE ClientNext
    BY <2>1, <2>2 DEF ClientNext, ClientCancel, ClientGarbage, ClientClose, PipeBreaks
  <2>3. CASE ReadRequest
    <3>1. Head(inbox)[2] \in Reqs /\ task[Head(inbox)[2]] = "sent" /\ phase = "reading"
      BY <2>3, HeadSent DEF ReadRequest, Reads
    <3>2. QED BY <2>3, <3>1 DEF ReadRequest, Reads, Refuse, Admit, Fails
  <2>4. CASE ReadCancel
    <3> DEFINE r == inFlight[Head(inbox)[2]]
    <3>1. /\ phase = "reading" /\ 1 \in 1..Len(inbox) /\ Head(inbox) = inbox[1]
          /\ Head(inbox)[2] \in Ids /\ Head(inbox) = <<"cancel", Head(inbox)[2]>>
      BY <2>4, TailFacts, LineFacts DEF ReadCancel, Reads
    <3>2. CASE r = NoReq BY <2>4, <3>1, <3>2 DEF ReadCancel, Reads
    <3>3. CASE r # NoReq
      <4>1. r \in Reqs /\ idOf[r] = Head(inbox)[2] /\ r \in Active
        BY <3>1, <3>3 DEF InFlightExact
      <4>2. r \in wanted \/ Answered(r)
        BY <3>1, <4>1 DEF CancelLinesWanted, MetBefore, Active
      <4>3. QED BY <2>4, <3>1, <3>3, <4>1, <4>2 DEF ReadCancel, Reads
    <3>4. QED BY <3>2, <3>3
  <2>5. CASE ReadMalformed \/ ReadFails \/ ReadEof \/ CancelAll \/ End
    BY <2>5 DEF ReadMalformed, ReadFails, Reads, Fails, ReadEof, CancelAll, End
  <2>6. ASSUME NEW r \in Reqs, TaskNext(r) PROVE TokensWanted'
    BY <2>6 DEF TaskNext, HandlerReturns, SeeCancel, GraceReturns, GraceExpires,
       WriteAnswer, Unregister, Decide
  <2>7. CASE UNCHANGED vars BY <2>7 DEF vars
  <2>8. QED BY <2>2, <2>3, <2>4, <2>5, <2>6, <2>7 DEF Next, ReaderNext, Over
<1>3. QED BY <1>1, <1>2, ShapeCorrect, InboxInvariant, InFlightIsExact,
          CancelLineInvariant, PTL DEF Spec

\* $/cancelRequest names an id, and ids are reused; still, until the connection
\* closes, only a request that the client asked to cancel is answered as cancelled
\* (transport.rs, cancel_request and the grace of the request's task).
THEOREM CancelsAreForTheirRequest == Spec => []CancelHitsOnlyItsRequest
<1>1. Shape /\ TokensWanted => CancelHitsOnlyItsRequest
  BY DEF Shape, Phases, TokensWanted, CancelHitsOnlyItsRequest
<1>2. QED BY <1>1, ShapeCorrect, TokenInvariant, PTL

-----------------------------------------------------------------------------
(* The end of the connection *)

\* The line of request r waits in the input.
Waits(r) == \E k \in 1..Len(inbox) : inbox[k] = <<"request", r>>

\* EOF is seen behind the last line, a request sent is in the input until the reader
\* takes it, a task is only cut off when serve_with_limit fails, and an answer is
\* only lost on a broken output.
EndInv ==
  /\ phase \in {"draining", "cancelling", "ended"} => inbox = <<>>
  /\ phase \in {"draining", "cancelling", "ended"} => closed
  /\ phase # "failed" => \A r \in Reqs : task[r] = "sent" => Waits(r)
  /\ phase # "failed" => \A r \in Reqs : task[r] # "aborted"
  /\ phase = "ended" => Active = {}
  /\ \A r \in Reqs : result[r] = "lost" => pipe = "broken"

LEMMA EndInvariant == Spec => []EndInv
<1>1. Init => EndInv BY DEF Init, EndInv, Active
<1>2. ASSUME Shape, InboxSent, EndInv, [Next]_vars PROVE EndInv'
  <2> USE <1>2, ConstantsAssumption
      DEF Shape, EndInv, TaskStates, TaskSteps, Results, Phases, Active, clientVars
  <2>1. ASSUME ClientNext PROVE EndInv'
    <3>1. ASSUME NEW line \in Lines, ClientWrites(line)
          PROVE  /\ phase # "failed" => phase = "reading"
                 /\ \A r \in Reqs : Waits(r) => Waits(r)'
                 /\ \A r \in Reqs : line = <<"request", r>> => Waits(r)'
      <4>1. /\ Len(inbox') = Len(inbox) + 1 /\ inbox'[Len(inbox) + 1] = line
            /\ \A k \in 1..Len(inbox) : inbox'[k] = inbox[k] /\ k \in 1..Len(inbox')
            /\ Len(inbox) + 1 \in 1..Len(inbox')
        BY <3>1, AppendFacts DEF ClientWrites
      <4>2. QED BY <3>1, <4>1 DEF ClientWrites, Waits
    <3>2. ASSUME NEW r \in Reqs, NEW i \in Ids \cup {NoId}, ClientSend(r, i) PROVE EndInv'
      <4>1. <<"request", r>> \in Lines /\ ClientWrites(<<"request", r>>)
        BY <3>2 DEF ClientSend, Lines
      <4>2. QED BY <3>1, <3>2, <4>1 DEF ClientSend, ClientWrites
    <3>3. ASSUME NEW i \in Ids, ClientCancel(i) PROVE EndInv'
      <4>1. <<"cancel", i>> \in Lines /\ ClientWrites(<<"cancel", i>>)
        BY <3>3 DEF ClientCancel, Lines
      <4>2. QED BY <3>1, <3>3, <4>1 DEF ClientCancel, ClientWrites
    <3>4. CASE ClientGarbage
      <4>1. <<"malformed", NoReq>> \in Lines /\ ClientWrites(<<"malformed", NoReq>>)
        BY <3>4 DEF ClientGarbage, Lines
      <4>2. QED BY <3>1, <3>4, <4>1 DEF ClientGarbage, ClientWrites
    <3>5. CASE ClientClose \/ PipeBreaks BY <3>5 DEF ClientClose, PipeBreaks, Waits
    <3>6. QED BY <2>1, <3>2, <3>3, <3>4, <3>5 DEF ClientNext
  <2>2. ASSUME NEW kind, Reads(kind)
        PROVE  /\ phase = "reading"
               /\ \A r \in Reqs : Waits(r) /\ Head(inbox) # <<"request", r>> => Waits(r)'
    <3>1. /\ Head(inbox) = inbox[1] /\ Len(inbox) \in Nat
          /\ Len(inbox') = Len(inbox) - 1
          /\ \A k \in 1..Len(inbox') : inbox'[k] = inbox[k + 1]
      BY <2>2, TailFacts DEF Reads
    <3>2. ASSUME NEW r \in Reqs, Waits(r), Head(inbox) # <<"request", r>> PROVE Waits(r)'
      <4>1. PICK k \in 1..Len(inbox) : inbox[k] = <<"request", r>> BY <3>2 DEF Waits
      <4>2. k # 1 BY <3>1, <3>2, <4>1
      <4>3. k - 1 \in 1..Len(inbox') /\ (k - 1) + 1 = k BY <3>1, <4>1, <4>2
      <4>4. inbox'[k - 1] = inbox[(k - 1) + 1] BY <3>1, <4>3
      <4>5. QED BY <4>1, <4>3, <4>4 DEF Waits
    <3>3. QED BY <2>2, <3>2 DEF Reads
  <2>3. CASE ReadRequest
    <3>1. /\ Reads("request") /\ Head(inbox)[2] \in Reqs /\ task[Head(inbox)[2]] = "sent"
          /\ Head(inbox) = <<"request", Head(inbox)[2]>>
      BY <2>3, HeadSent, TailFacts, LineFacts DEF ReadRequest, Reads
    <3>2. \A r \in Reqs : r # Head(inbox)[2] => Head(inbox) # <<"request", r>>
      BY <3>1
    <3>3. \A r \in Reqs : r # Head(inbox)[2] => (Waits(r) => Waits(r)')
      BY <2>2, <3>1, <3>2
    <3>4. phase = "reading" /\ phase' \in {"reading", "failed"}
      BY <2>2, <2>3, <3>1 DEF ReadRequest, Refuse, Admit, Fails
    <3>5. phase' = "reading" => /\ \A r \in Reqs : task'[r] = "sent" => Waits(r)'
                                /\ \A r \in Reqs : task'[r] # "aborted"
      BY <2>3, <3>1, <3>3, <3>4 DEF ReadRequest, Refuse, Admit, Fails
    <3>6. \A r \in Reqs : result'[r] = "lost" => pipe' = "broken"
      BY <2>3, <3>1 DEF ReadRequest, Refuse, Admit, Fails
    <3>7. QED BY <3>4, <3>5, <3>6
  <2>4. ASSUME NEW kind, Reads(kind), kind # "request"
        PROVE  phase = "reading" /\ \A r \in Reqs : Waits(r) => Waits(r)'
    <3>1. \A r \in Reqs : Head(inbox) # <<"request", r>> BY <2>4 DEF Reads
    <3>2. QED BY <2>2, <2>4, <3>1
  <2>5. CASE ReadCancel
    <3>1. phase = "reading" /\ \A r \in Reqs : Waits(r) => Waits(r)'
      BY <2>4, <2>5 DEF ReadCancel
    <3>2. QED BY <2>5, <3>1 DEF ReadCancel
  <2>6. CASE ReadMalformed
    <3>1. phase = "reading" /\ \A r \in Reqs : Waits(r) => Waits(r)'
      BY <2>4, <2>6 DEF ReadMalformed
    <3>2. QED BY <2>6, <3>1 DEF ReadMalformed, Fails
  <2>7. CASE ReadEof \/ ReadFails \/ CancelAll \/ End
    BY <2>7 DEF ReadEof, ReadFails, Fails, CancelAll, End, Waits
  <2>8. ASSUME NEW r \in Reqs, TaskNext(r) PROVE EndInv'
    BY <2>8 DEF TaskNext, HandlerReturns, SeeCancel, GraceReturns, GraceExpires,
       WriteAnswer, Unregister, Decide, Waits
  <2>9. CASE UNCHANGED vars BY <2>9 DEF vars, Waits
  <2>10. QED BY <2>1, <2>3, <2>5, <2>6, <2>7, <2>8, <2>9 DEF Next, ReaderNext, Over
<1>3. QED BY <1>1, <1>2, ShapeCorrect, InboxInvariant, PTL DEF Spec

\* An orderly end leaves no line unread and no admitted request unanswered
\* (transport.rs, the drain of serve_with_limit).
THEOREM EndLeavesNothing == Spec => []EndAnswersAll
<1>1. Shape /\ EndInv => EndAnswersAll
  BY DEF Shape, Waits, TaskStates, TaskSteps, EndInv, Active, EndAnswersAll
<1>2. QED BY <1>1, ShapeCorrect, EndInvariant, PTL

=============================================================================
