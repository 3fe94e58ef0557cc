SPECIFICATION Spec
CONSTANTS
  BookingIds = {b1, b2}
  Requests = {r1}
  Masters = {1}
  Starts = {1, 2}
  Quotes <- MCQuote
  Shifts <- MCShifts
  DayLength = 4
  LastNow = 0
  MaxRows = 3
SYMMETRY MCSymmetry
PROPERTIES
  InactiveStaysInactive
