SPECIFICATION MCSpec
CONSTANTS
  BookingIds = {k1, k2, k3}
  Requests = {r1, r2, r3}
  Masters = {1, 2}
  Starts = {1, 2, 3, 4}
  Quotes <- MCQuotes
  Shifts <- MCTightShifts
  DayLength = 4
  LastNow = 1
  MaxRows = 3
  AloneRows = 2
  AloneMasters = {1}
  CreatesBases = {1}
SYMMETRY MCSymmetry
INVARIANTS
  CreatesExclude
  WorkingTimeAlone
  MidnightAlone
  ChainedAlone
PROPERTIES
  LegalAlone
