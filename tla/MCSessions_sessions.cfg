SPECIFICATION MCSpec
CONSTANTS
  Users = {u1, u2}
  Tokens = {t1, t2, t3}
  Handlers = {h1, h2}
  None = None
  MaxPassword = 2
SYMMETRY MCSymmetry
INVARIANTS
  TypeOK
  ChainsAreSound
  OneEndAlone
  PasswordVouchesAlone
PROPERTIES
  ImplementsSignIns
