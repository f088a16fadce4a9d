SPECIFICATION Spec
CONSTANTS
  None = None
  Missing = Missing
  Omitted = Omitted
  DefaultLogic = "fast"
  Requests <- MCRequests
  Values <- MCValues
  Responses <- MCResponses
INVARIANTS
  TypeOK
  RequestKept
  FateKept
