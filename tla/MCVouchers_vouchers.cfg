SPECIFICATION MCSpec
CONSTANTS
  customer = customer
  Codes = {v1, v2}
  Redemptions = {r1, r2, r3}
  Payments = {p1, p2}
  Bookings = {b1, b2}
  Users = {customer, partner}
  Partners = {partner}
  Handlers = {h1, h2}
  None = None
  Worth <- MCWorth
  MayRedeem <- MCMayRedeem
  MayPayWith <- MCMayPayWith
  Customer <- MCCustomer
  Price <- MCPrice
  MaxUses = 2
SYMMETRY MCSymmetry
INVARIANTS
  TypeOK
  CountsTellUses
  LimitBounded
  RepeatBounded
  LedgerPaysDiscounts
  OverdraftBounded
  OverchargeAlone
CHECK_DEADLOCK FALSE
