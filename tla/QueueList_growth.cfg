SPECIFICATION QSpec
CONSTANTS
  Order = {a, b}
  Unset = Unset
  InitialCap = 2
  MaxCap = 4
  Backlog = 7
CONSTRAINT HistoryBound
INVARIANTS TypeOK NoGarbageOrder
PROPERTY OnlyStaleEndBreaks
