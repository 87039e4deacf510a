CONSTANTS
  m_a = m_a
  m_b = m_b
  m_c = m_c
  m_d = m_d
  Models <- MCModels
  Minimal <- MCMinimal
  AllModels = TRUE
  CheckSols = TRUE
  EveryTime = FALSE
  PropLits = TRUE
  TimeLimit = TRUE
  MaxReports = 2
SPECIFICATION MCSpec
INVARIANTS ReportedOnce NothingLost ClausesServed FirstModelRight
PROPERTIES EnumerationEnds ImplementsCatalogue
CHECK_DEADLOCK FALSE
