SPECIFICATION Spec
CONSTANTS
  Masters = {m1, m2}
  Days = {1, 2}
  Breaks = {b1}
  Handlers = {h1, h2}
  MaxWeeks = 2
  None = None
  Gone = Gone
INVARIANTS
  OwnBreaksOnly
CHECK_DEADLOCK FALSE
