SPECIFICATION FairSpec
CONSTANTS
  Reqs = {r1, r2, r3}
  Ids = {a}
  NoId = NoId
  NoReq = NoReq
  MaxConcurrent = 2
  PipeCapacity = 1
INVARIANTS InFlightExact PermitsConserved CancelHitsOnlyItsRequest EndAnswersAll
PROPERTIES CancelledRequestEnds ServeEnds
