SPECIFICATION Spec
CONSTANTS
  d1 = d1
  d2 = d2
  d3 = d3
  Docs <- SomeDocs
  Services = {pay}
  Severities <- TwoSeverities
  a1 = a1
  a2 = a2
  a3 = a3
  Alerts <- SomeAlerts
  SeverityOf <- OneLow
  high = high
  low = low
  Jobs = {j1, j2}
  Scores <- SomeScores
  Global = Global
  BlankName = BlankName
  NoJob = NoJob
  Limit = 2
  MaxWrites = 6
SYMMETRY Alike
CHECK_DEADLOCK FALSE
INVARIANTS
  ReportAgrees
  NothingInvented
