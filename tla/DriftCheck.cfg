SPECIFICATION Spec
CONSTANTS
  Lower <- LowerCase
  Boundary = {" "}
  Cases <- AllCases
  Known <- Askable
  FirstPage = 0
  NoCursor = 9
  Codes = {200, 302, 404, 500}
CHECK_DEADLOCK FALSE
INVARIANTS
  DashboardsExact
  EvidenceIsTrue
  VersionsOrdered
