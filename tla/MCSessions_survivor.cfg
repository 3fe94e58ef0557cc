SPECIFICATION MCSpec
CONSTANTS
  Users = {u1}
  Tokens = {t1, t2, t3}
  Handlers = {h1}
  None = None
  MaxPassword = 2
SYMMETRY MCSymmetry
INVARIANTS
  SignedOutStaysOut
