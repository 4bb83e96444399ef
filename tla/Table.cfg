SPECIFICATION FairSpec
CONSTANTS
  a = a
  b = b
  c = c
  Entries <- MCEntries
  MaxSize = 2
  Wild = Wild
INVARIANTS TypeOK TableSound TimeoutsExact CalmReport
PROPERTIES SetSpec SweepEnds ReportEnds
