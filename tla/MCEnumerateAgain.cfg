CONSTANTS
  m_a = m_a
  m_b = m_b
  m_c = m_c
  m_d = m_d
  Models <- MCModels
  Minimal <- MCMinimal
  AllModels = FALSE
  CheckSols = TRUE
  EveryTime = FALSE
  PropLits = FALSE
  TimeLimit = FALSE
  MaxReports = 2
SPECIFICATION Spec
INVARIANTS ReportedOnce
CHECK_DEADLOCK FALSE
