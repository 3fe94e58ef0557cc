SPECIFICATION Spec
CONSTANTS
  BookingIds = {b1, b2}
  Requests = {r1, r2}
  Masters = {1}
  Starts = {1, 2}
  Quotes <- MCQuote
  Shifts <- MCShifts
  DayLength = 4
  LastNow = 1
  MaxRows = 3
SYMMETRY MCSymmetry
INVARIANTS
  TypeOK
  SteadyExclusion
  JournalIsTrue
PROPERTIES
  ImplementsCalendar
