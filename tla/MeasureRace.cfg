SPECIFICATION Spec
CONSTANTS
  a = a
  b = b
  c = c
  Entries <- MCEntries
  MaxSize = 2
  Wild = Wild
INVARIANT ReportFaithful
