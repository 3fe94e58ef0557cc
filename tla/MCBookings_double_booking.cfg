SPECIFICATION Spec
CONSTANTS
  BookingIds = {b1, b2}
  Requests = {r1, r2}
  Masters = {1}
  Starts = {1, 2, 3}
  Quotes <- MCShortQuote
  Shifts <- MCShifts
  DayLength = 4
  LastNow = 0
  MaxRows = 2
SYMMETRY MCSymmetry
INVARIANTS
  NoDoubleBooking
