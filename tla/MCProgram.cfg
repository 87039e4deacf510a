SPECIFICATION ProgramSpec
CONSTANTS
  CommandLines <- TheLines
  Highest <- Sizes
  Models <- Counts
  Threads = {t1, t2}
  ParallelFrom = 4
INVARIANTS SearchesApart TotalIsSum DiagonalsRight
PROPERTY Terminates
