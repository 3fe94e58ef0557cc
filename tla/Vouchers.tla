------------------------------ MODULE Vouchers ------------------------------
(***************************************************************************)
(* VouchersService and PaymentsService: codes with a limited number of     *)
(* redemptions, the ledger of bonus credit, and the payments of bookings   *)
(* that codes discount.                                                    *)
(*                                                                         *)
(* A code is redeemed by itself (redeem), which grants credit if it is a   *)
(* BOOKING_CREDIT, or with a payment intent (resolveVoucherForBooking),    *)
(* which uses credit up.  Both test the code before they write.  All       *)
(* transactions run at READ COMMITTED and none locks what it tested:       *)
(*                                                                         *)
(*   redeem                      RedeemRead, RedeemCommit                  *)
(*   createBookingPaymentIntent  PayPlain, or PayRead, PayBalance,         *)
(*                               PayCommit                                 *)
(***************************************************************************)
EXTENDS Integers, FiniteSets, FiniteSetsExt

CONSTANTS
  Codes,          \* ids of VoucherCode rows
  Redemptions,    \* ids of VoucherRedemption rows
  Payments,       \* ids of BookingPayment rows
  Bookings,       \* bookings of salons
  Users,
  Partners,       \* the users of partner roles; the others are customers
  Handlers,       \* requests that can be in flight at once
  None,           \* the null of optional columns
  Worth,          \* code -> the amount it grants or takes off
  MayRedeem,      \* <<user, code>> that assignment and salon allow
  MayPayWith,     \* <<booking, code>> that assignment and scope allow
  Customer,       \* booking -> user
  Price,          \* booking -> total price
  MaxUses         \* bound: redemptions a code may allow

ASSUME NoneAssumption == None \notin Codes \cup Redemptions \cup Bookings
ASSUME HandlersAssumption == IsFiniteSet(Handlers) /\ Handlers # {}
ASSUME RedemptionsAssumption == IsFiniteSet(Redemptions)
ASSUME WorthAssumption == Worth \in [Codes -> Nat]
ASSUME BookingsAssumption ==
  /\ IsFiniteSet(Bookings) /\ Bookings # {}
  /\ Customer \in [Bookings -> Users \ Partners]
  /\ Price \in [Bookings -> Nat]
ASSUME BoundAssumption == MaxUses \in Nat \ {0}

VARIABLES
  code,         \* the VoucherCode table
  redemption,   \* the VoucherRedemption table, each row with the amount of the
                \* BonusCreditLedger row its transaction inserts, or 0
  payment,      \* the BookingPayment table
  req           \* the handlers in flight

vars == <<code, redemption, payment, req>>

Kinds == {"credit", "discount", "partner"}

-----------------------------------------------------------------------------
NoRow == [row |-> "absent"]

Idle == [op |-> "idle"]

Init ==
  /\ code = [v \in Codes |-> NoRow]
  /\ redemption = [r \in Redemptions |-> NoRow]
  /\ payment = [p \in Payments |-> NoRow]
  /\ req = [h \in Handlers |-> Idle]

Finish(h) == req' = [req EXCEPT ![h] = Idle]

Least(a, b) == IF a < b THEN a ELSE b

Redeemed == {r \in Redemptions : redemption[r] # NoRow}

\* Redemptions of code v, and those by user u for booking b (or for none).
Uses(v) == {r \in Redeemed : redemption[r].code = v}

UsesFor(v, u, b) ==
  {r \in Uses(v) : redemption[r].user = u /\ redemption[r].booking = b}

\* Mutant: the last use is not counted.
BelowLimitLate(v) == code[v].count <= code[v].max

BelowLimit(v) == code[v].count < code[v].max

\* The tests redeem and resolveVoucherForBooking begin with.
Usable(v) ==
  /\ code[v] # NoRow
  /\ ~code[v].revoked
  /\ code[v].life = "current"
  /\ BelowLimit(v)

\* Mutant: the counter is not incremented with a row that changes no credit.
UsedForCredit(v, user, booking, credit) ==
  \E r \in Redemptions :
    /\ redemption[r] = NoRow
    /\ booking # None => UsesFor(v, user, booking) = {}
    /\ redemption' = [redemption EXCEPT ![r] =
                        [code |-> v, user |-> user, booking |-> booking, credit |-> credit]]
    /\ code' = [code EXCEPT ![v].count = IF credit = 0 THEN @ ELSE @ + 1]

\* Mutant: there is no unique key.
UsedAgain(v, user, booking, credit) ==
  \E r \in Redemptions :
    /\ redemption[r] = NoRow
    /\ redemption' = [redemption EXCEPT ![r] =
                        [code |-> v, user |-> user, booking |-> booking, credit |-> credit]]
    /\ code' = [code EXCEPT ![v].count = @ + 1]

\* A redemption: its row, which is unique where it names a booking, the ledger
\* row, and the counter, incremented whatever it has become.
Used(v, user, booking, credit) ==
  \E r \in Redemptions :
    /\ redemption[r] = NoRow
    /\ booking # None => UsesFor(v, user, booking) = {}
    /\ redemption' = [redemption EXCEPT ![r] =
                        [code |-> v, user |-> user, booking |-> booking, credit |-> credit]]
    /\ code' = [code EXCEPT ![v].count = @ + 1]

-----------------------------------------------------------------------------
(* Codes.                                                                  *)

\* generateOne, and each code of generateBatch.
Generate(v) ==
  /\ code[v] = NoRow
  /\ \E kind \in Kinds, max \in 1 .. MaxUses, life \in {"early", "current"} :
       code' = [code EXCEPT ![v] = [kind |-> kind, max |-> max, count |-> 0,
                                    revoked |-> FALSE, life |-> life]]
  /\ UNCHANGED <<redemption, payment, req>>

\* revoke; nothing takes it back.
Revoke(v) ==
  /\ code[v] # NoRow
  /\ ~code[v].revoked
  /\ code' = [code EXCEPT ![v].revoked = TRUE]
  /\ UNCHANGED <<redemption, payment, req>>

\* validFrom or expiresAt passes.
Time(v) ==
  /\ code[v] # NoRow
  /\ \/ code[v].life = "early" /\ code' = [code EXCEPT ![v].life = "current"]
     \/ code[v].life = "current" /\ code' = [code EXCEPT ![v].life = "over"]
  /\ UNCHANGED <<redemption, payment, req>>

-----------------------------------------------------------------------------
(* Redeeming a code by itself.                                             *)

\* All that redeem reads: code, memberships, an earlier redemption.
RedeemRead(h) ==
  /\ req[h] = Idle
  /\ \E u \in Users, v \in Codes, b \in Bookings \cup {None} :
       /\ Usable(v)
       /\ code[v].kind = "partner" <=> u \in Partners
       /\ <<u, v>> \in MayRedeem
       /\ UsesFor(v, u, b) = {}
       /\ req' = [req EXCEPT ![h] = [op |-> "redeem", code |-> v, user |-> u, booking |-> b]]
  /\ UNCHANGED <<code, redemption, payment>>

RedeemCommit(h) ==
  /\ req[h].op = "redeem"
  /\ LET v == req[h].code
     IN Used(v, req[h].user, req[h].booking, IF code[v].kind = "credit" THEN Worth[v] ELSE 0)
  /\ Finish(h)
  /\ UNCHANGED payment

-----------------------------------------------------------------------------
(* Paying.                                                                 *)

\* Mutant: what a code granted is lost when the code is revoked.
CountsUnlessRevoked(r) ==
  \/ redemption[r].credit < 0
  \/ code[redemption[r].code].life # "over" /\ ~code[redemption[r].code].revoked

\* A ledger row counts until its code expires; what was used has no code's
\* date and counts for ever.
Counts(r) == redemption[r].credit < 0 \/ code[redemption[r].code].life # "over"

\* What redemptions rs of a table entered in the ledger.
Entered(table, rs) == MapThenSumSet(LAMBDA r : table[r].credit, rs)

\* getBonusBalance
Balance(u) == Entered(redemption, {r \in Redeemed : redemption[r].user = u /\ Counts(r)})

\* Mutant: the row does not say what was taken off.
IntentWithoutDiscount(b, r, discount) ==
  \E p \in Payments, status \in {"requires_action", "pending"} :
    /\ payment[p] = NoRow
    /\ payment' = [payment EXCEPT ![p] = [booking |-> b, redemption |-> r,
                                         discount |-> None, status |-> status]]

\* The row createBookingPaymentIntent inserts: "pending" to be paid in the
\* salon, else with an intent at a provider that requires action.
Intent(b, r, discount) ==
  \E p \in Payments, status \in {"requires_action", "pending"} :
    /\ payment[p] = NoRow
    /\ payment' = [payment EXCEPT ![p] = [booking |-> b, redemption |-> r,
                                         discount |-> discount, status |-> status]]

\* An intent without a code is one insert.
PayPlain(b) ==
  /\ Intent(b, None, 0)
  /\ UNCHANGED <<code, redemption, req>>

\* A code is tested inside the transaction; a discount is known at once.
PayRead(h) ==
  /\ req[h] = Idle
  /\ \E b \in Bookings, v \in Codes :
       /\ Usable(v)
       /\ code[v].kind \in {"credit", "discount"}
       /\ <<b, v>> \in MayPayWith
       /\ UsesFor(v, Customer[b], b) = {}
       /\ req' = [req EXCEPT ![h] =
                    IF code[v].kind = "credit"
                    THEN [op |-> "balance", code |-> v, booking |-> b]
                    ELSE [op |-> "pay", code |-> v, booking |-> b, discount |-> Worth[v]]]
  /\ UNCHANGED <<code, redemption, payment>>

\* Mutant: the balance does not bound what is used.
CreditUsedWhole(b) == Price[b]

\* What a credit pays of booking b: negative if the balance is.
CreditUsed(b) == Least(Balance(Customer[b]), Price[b])

\* The balance is another read.
PayBalance(h) ==
  /\ req[h].op = "balance"
  /\ req' = [req EXCEPT ![h] = [op |-> "pay", code |-> req[h].code,
                                booking |-> req[h].booking,
                                discount |-> CreditUsed(req[h].booking)]]
  /\ UNCHANGED <<code, redemption, payment>>

\* Mutant: a credit is not entered in the ledger where it pays all.
LedgerEntryPartial(v, b, discount) ==
  IF code[v].kind = "credit" /\ discount > 0 /\ discount < Price[b] THEN -discount ELSE 0

\* CREDIT_USED is entered where it is positive.
LedgerEntry(v, b, discount) ==
  IF code[v].kind = "credit" /\ discount > 0 THEN -discount ELSE 0

PayCommit(h) ==
  /\ req[h].op = "pay"
  /\ LET v == req[h].code
         b == req[h].booking
         discount == req[h].discount
     IN /\ Used(v, Customer[b], b, LedgerEntry(v, b, discount))
        /\ \E r \in Redemptions :
             /\ redemption'[r] # redemption[r]
             /\ Intent(b, r, Least(discount, Price[b]))
  /\ Finish(h)

\* handleDemoWebhook sets the status it is told, whatever it was; only payments
\* in the salon have no intent it could name.
Webhook(p, status) ==
  /\ payment[p] # NoRow
  /\ payment[p].status # "pending"
  /\ payment' = [payment EXCEPT ![p].status = status]
  /\ UNCHANGED <<code, redemption, req>>

\* A handler ends without a write: an error, a rollback, the process died.
Abandon(h) ==
  /\ req[h] # Idle
  /\ Finish(h)
  /\ UNCHANGED <<code, redemption, payment>>

Step(h) ==
  \/ RedeemRead(h)
  \/ RedeemCommit(h)
  \/ PayRead(h)
  \/ PayBalance(h)
  \/ PayCommit(h)
  \/ Abandon(h)

Next ==
  \/ \E h \in Handlers : Step(h)
  \/ \E v \in Codes : Generate(v) \/ Revoke(v) \/ Time(v)
  \/ \E b \in Bookings : PayPlain(b)
  \/ \E p \in Payments, status \in {"paid", "failed", "cancelled"} : Webhook(p, status)

Spec == Init /\ [][Next]_vars
-----------------------------------------------------------------------------
(* Types.                                                                  *)

Voucher == [kind : Kinds, max : 1 .. MaxUses, count : Nat,
            revoked : BOOLEAN, life : {"early", "current", "over"}]

Redemption == [code : Codes, user : Users, booking : Bookings \cup {None}, credit : Int]

Payment == [booking : Bookings, redemption : Redemptions \cup {None}, discount : Int,
            status : {"pending", "requires_action", "paid", "failed", "cancelled"}]

Request ==
  [op : {"redeem"}, code : Codes, user : Users, booking : Bookings \cup {None}] \cup
  [op : {"balance"}, code : Codes, booking : Bookings] \cup
  [op : {"pay"}, code : Codes, booking : Bookings, discount : Int]

\* The type invariant.
TypeOK ==
  /\ code \in [Codes -> Voucher \cup {NoRow}]
  /\ redemption \in [Redemptions -> Redemption \cup {NoRow}]
  /\ payment \in [Payments -> Payment \cup {NoRow}]
  /\ req \in [Handlers -> Request \cup {Idle}]

-----------------------------------------------------------------------------
(* What the tests before the writes are still worth.  With one handler at  *)
(* a time the bounds are exact: no code is used more often than allowed,   *)
(* or twice by a user for the same thing, and no credit is overdrawn.      *)

\* The counter of a code is the number of its redemptions.
CountsTellUses ==
  \A v \in Codes : code[v] # NoRow => code[v].count = Cardinality(Uses(v))

\* Handlers that found room below the limit before it was reached overshoot
\* it, each at most once.
LimitBounded ==
  \A v \in Codes : code[v] # NoRow => code[v].count < code[v].max + Cardinality(Handlers)

\* A code pays once for a booking; redeemed for no booking, the unique key is
\* silent and handlers that ran at once can each have granted it.
RepeatBounded ==
  \A v \in Codes, u \in Users, b \in Bookings \cup {None} :
    Cardinality(UsesFor(v, u, b)) <= IF b = None THEN Cardinality(Handlers) ELSE 1

\* A payment with a code has a redemption of its own, made for its booking and
\* customer, and what it takes off by credit is what the ledger lost.
LedgerPaysDiscounts ==
  \A p \in Payments :
    payment[p] # NoRow /\ payment[p].redemption # None =>
      LET r == payment[p].redemption
          discount == payment[p].discount
      IN /\ r \in Redeemed
         /\ redemption[r].booking = payment[p].booking
         /\ redemption[r].user = Customer[payment[p].booking]
         /\ code[redemption[r].code].kind = "credit" =>
              redemption[r].credit = IF discount > 0 THEN -discount ELSE 0
         /\ \A q \in Payments \ {p} : payment[q] # NoRow => payment[q].redemption # r

\* The most a booking costs.
MaxPrice == Max({Price[b] : b \in Bookings})

\* All a user was ever granted, less all ever used.
Ledger(u) == Entered(redemption, {r \in Redeemed : redemption[r].user = u})

\* Payments that read one balance overdraw it by one booking each, except the
\* first.
OverdraftBounded ==
  \A u \in Users : Ledger(u) >= -(Cardinality(Handlers) - 1) * MaxPrice

\* What user u was granted by codes that expired since.
Expired(u) ==
  Entered(redemption, {r \in Redeemed : /\ redemption[r].user = u
                                        /\ redemption[r].credit > 0
                                        /\ code[redemption[r].code].life = "over"})

\* A negative balance makes a payment dearer than its booking.  Credit that
\* expires after it was used leaves one behind; nothing else does, but for
\* the overdraft of n handlers that run at once.
OverchargeWithin(n) ==
  \A p \in Payments :
    payment[p] # NoRow =>
      -payment[p].discount <= Expired(Customer[payment[p].booking]) + (n - 1) * MaxPrice

\* However many requests run at once.
OverchargeBounded == OverchargeWithin(Cardinality(Handlers))
=============================================================================
