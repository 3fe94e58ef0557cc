--------------------------- MODULE VouchersProofs ---------------------------
(***************************************************************************)
(* For every set of codes, users, bookings and handlers: how far the       *)
(* handlers of Vouchers can overshoot what they tested, and overdraw what  *)
(* they read; and, last, that they overdraw nothing one at a time, the     *)
(* part "alone" of MCVouchers.                                             *)
(***************************************************************************)
EXTENDS MCVouchers, FiniteSetTheorems, TLAPS

(* The inductive invariant.                                                *)

\* Rows are what their tables say, as far as the counts depend on it.
RowsAreTyped ==
  /\ code \in [Codes -> Voucher \cup {NoRow}]
  /\ redemption = [r \in Redemptions |-> redemption[r]]
  /\ \A r \in Redeemed : /\ redemption[r].code \in Codes
                         /\ code[redemption[r].code] # NoRow

\* A handler that has tested a code and may still use it.
Tested(h, v) == req[h].op \in {"redeem", "balance", "pay"} /\ req[h].code = v

\* A handler that may still redeem code v for user u and no booking.
Redeems(h, v, u) ==
  Tested(h, v) /\ req[h].op = "redeem" /\ req[h].user = u /\ req[h].booking = None

RequestsAreTyped ==
  /\ req = [h \in Handlers |-> req[h]]
  /\ \A h \in Handlers :
       /\ req[h].op \in {"idle", "redeem", "balance", "pay"}
       /\ req[h].op # "idle" => req[h].code \in Codes /\ code[req[h].code] # NoRow
       /\ req[h].op = "redeem" => req[h].booking \in Bookings \cup {None}
       /\ req[h].op \in {"balance", "pay"} => req[h].booking \in Bookings

InFlight(v) == {h \in Handlers : Tested(h, v)}

Redeeming(v, u) == {h \in Handlers : Redeems(h, v, u)}

\* Even if all handlers in flight use the code, the overshoot is bounded.
RoomForAll ==
  \A v \in Codes :
    code[v] # NoRow =>
      code[v].count + Cardinality(InFlight(v)) < code[v].max + Cardinality(Handlers)

\* Even if all handlers in flight redeem, so are the repetitions.
RepeatsForAll ==
  \A v \in Codes, u \in Users :
    Cardinality(UsesFor(v, u, None)) + Cardinality(Redeeming(v, u)) <= Cardinality(Handlers)

\* The unique key.
OncePerBooking ==
  \A v \in Codes, u \in Users, b \in Bookings :
    \A r, s \in UsesFor(v, u, b) : r = s

IInv ==
  /\ RowsAreTyped
  /\ RequestsAreTyped
  /\ CountsTellUses
  /\ RoomForAll
  /\ RepeatsForAll
  /\ OncePerBooking

-----------------------------------------------------------------------------
(* Facts about the data.                                                   *)

LEMMA RowsExist == \A row \in Voucher : row # NoRow
  BY DEF Voucher, NoRow

LEMMA Finite ==
  /\ IsFiniteSet(Handlers) /\ Cardinality(Handlers) \in Nat \ {0}
  /\ \A v : IsFiniteSet(Uses(v)) /\ Cardinality(Uses(v)) \in Nat
  /\ \A v, u, b : IsFiniteSet(UsesFor(v, u, b)) /\ Cardinality(UsesFor(v, u, b)) \in Nat
  /\ \A v : /\ IsFiniteSet(InFlight(v)) /\ Cardinality(InFlight(v)) \in Nat
            /\ Cardinality(InFlight(v)) <= Cardinality(Handlers)
  /\ \A v, u : /\ IsFiniteSet(Redeeming(v, u)) /\ Cardinality(Redeeming(v, u)) \in Nat
               /\ Cardinality(Redeeming(v, u)) <= Cardinality(Handlers)
  <1>1. \A S \in SUBSET Handlers : /\ IsFiniteSet(S) /\ Cardinality(S) \in Nat
                                   /\ Cardinality(S) <= Cardinality(Handlers)
    BY HandlersAssumption, FS_Subset, FS_CardinalityType
  <1>2. \A S \in SUBSET Redemptions : IsFiniteSet(S) /\ Cardinality(S) \in Nat
    BY RedemptionsAssumption, FS_Subset, FS_CardinalityType
  <1>3. Cardinality(Handlers) # 0
    BY HandlersAssumption, FS_EmptySet
  <1>4. \A v : Uses(v) \in SUBSET Redemptions /\ InFlight(v) \in SUBSET Handlers
    BY DEF Uses, Redeemed, InFlight
  <1>5. \A v, u, b : UsesFor(v, u, b) \in SUBSET Redemptions
    BY DEF UsesFor, Uses, Redeemed
  <1>6. \A v, u : Redeeming(v, u) \in SUBSET Handlers
    BY DEF Redeeming
  <1>7. IsFiniteSet(Handlers) /\ Cardinality(Handlers) \in Nat
    BY <1>1
  <1> QED
    BY <1>1, <1>2, <1>3, <1>4, <1>5, <1>6, <1>7

LEMMA MaxPositive == \A row \in Voucher : row.max \in Nat /\ row.max >= 1 /\ row.count \in Nat
  BY BoundAssumption DEF Voucher

\* Without new redemptions the sets of uses stay the same.
LEMMA SameUses ==
  ASSUME UNCHANGED redemption
  PROVE  /\ \A v : Uses(v)' = Uses(v)
         /\ \A v, u, b : UsesFor(v, u, b)' = UsesFor(v, u, b)
         /\ Redeemed' = Redeemed
  BY DEF Uses, UsesFor, Redeemed

LEMMA SameRequests ==
  ASSUME UNCHANGED req
  PROVE  /\ \A v : InFlight(v)' = InFlight(v)
         /\ \A v, u : Redeeming(v, u)' = Redeeming(v, u)
  BY DEF InFlight, Redeeming, Redeems, Tested

LEMMA InitHolds == Init => IInv
  <1> SUFFICES ASSUME Init PROVE IInv
    OBVIOUS
  <1>1. RowsAreTyped /\ Redeemed = {}
    BY DEF Init, RowsAreTyped, Redeemed
  <1>2. RequestsAreTyped
    BY DEF Init, RequestsAreTyped, Idle
  <1>3. \A v, u, b : Uses(v) = {} /\ UsesFor(v, u, b) = {}
    BY <1>1 DEF Uses, UsesFor
  <1>4. \A v, u : InFlight(v) = {} /\ Redeeming(v, u) = {}
    BY DEF Init, InFlight, Redeeming, Redeems, Tested, Idle
  <1>5. CountsTellUses /\ RoomForAll
    BY DEF Init, CountsTellUses, RoomForAll
  <1>6. RepeatsForAll
    <2>1. \A v \in Codes, u \in Users :
            /\ Cardinality(UsesFor(v, u, None)) = 0
            /\ Cardinality(Redeeming(v, u)) = 0
      BY <1>3, <1>4, FS_EmptySet
    <2> QED
      BY <2>1, Finite DEF RepeatsForAll
  <1>7. OncePerBooking
    BY <1>3 DEF OncePerBooking
  <1> QED
    BY <1>1, <1>2, <1>5, <1>6, <1>7 DEF IInv

-----------------------------------------------------------------------------
(* Every step keeps the invariant.                                         *)

\* A new code, or one whose date passes or that is revoked: columns the counts
\* do not depend on.
LEMMA CodeKeeps ==
  ASSUME IInv, NEW v \in Codes, NEW row \in Voucher,
         code' = [code EXCEPT ![v] = row], UNCHANGED <<redemption, req>>,
         \/ code[v] = NoRow /\ row.count = 0
         \/ code[v] # NoRow /\ row.count = code[v].count /\ row.max = code[v].max
  PROVE  IInv'
  <1>1. /\ code' \in [Codes -> Voucher \cup {NoRow}] /\ code'[v] = row /\ row # NoRow
        /\ \A w \in Codes \ {v} : code'[w] = code[w]
    BY RowsExist DEF IInv, RowsAreTyped
  <1>2. \A w \in Codes : code[w] # NoRow => code'[w] # NoRow
    BY <1>1
  <1>3. RowsAreTyped'
    BY <1>1, <1>2, SameUses DEF IInv, RowsAreTyped
  <1>4. RequestsAreTyped'
    BY <1>2 DEF IInv, RequestsAreTyped
  <1>5. RepeatsForAll' /\ OncePerBooking'
    BY SameUses, SameRequests DEF IInv, RepeatsForAll, OncePerBooking
  <1>6. CASE code[v] # NoRow
    <2>1. \A w \in Codes :
            code'[w] # NoRow =>
              code[w] # NoRow /\ code'[w].count = code[w].count /\ code'[w].max = code[w].max
      BY <1>1, <1>6
    <2>2. CountsTellUses' /\ RoomForAll'
      BY <2>1, SameUses, SameRequests DEF IInv, CountsTellUses, RoomForAll
    <2> QED
      BY <1>3, <1>4, <1>5, <2>2 DEF IInv
  <1>7. CASE code[v] = NoRow
    <2>1. Uses(v) = {} /\ InFlight(v) = {}
      BY <1>7 DEF IInv, RowsAreTyped, RequestsAreTyped, Uses, InFlight, Tested
    <2>2. Cardinality(Uses(v)) = 0 /\ Cardinality(InFlight(v)) = 0
      BY <2>1, FS_EmptySet
    <2>3. row.max \in Nat /\ row.max >= 1 /\ row.count = 0
      BY <1>1, <1>7, MaxPositive
    <2>4. row.count + Cardinality(InFlight(v)) < row.max + Cardinality(Handlers)
      BY <2>2, <2>3, Finite
    <2>5. CountsTellUses'
      BY <1>1, <2>2, <2>3, SameUses DEF IInv, CountsTellUses
    <2>6. RoomForAll'
      BY <1>1, <2>4, SameRequests DEF IInv, RoomForAll
    <2> QED
      BY <1>3, <1>4, <1>5, <2>5, <2>6 DEF IInv
  <1> QED
    BY <1>6, <1>7

LEMMA CodesKeep ==
  ASSUME IInv, NEW v \in Codes, Generate(v) \/ Revoke(v) \/ Time(v)
  PROVE  IInv'
  <1>1. UNCHANGED <<redemption, req>>
    BY DEF Generate, Revoke, Time
  <1>2. CASE Generate(v)
    <2>1. PICK row \in Voucher : row.count = 0 /\ code' = [code EXCEPT ![v] = row]
      BY <1>2 DEF Generate, Voucher
    <2> QED
      BY <1>1, <1>2, <2>1, CodeKeeps DEF Generate
  <1>3. CASE Revoke(v) \/ Time(v)
    <2>1. code[v] \in Voucher /\ code[v] # NoRow
      BY <1>3 DEF IInv, RowsAreTyped, Revoke, Time
    <2>2. PICK row : /\ code' = [code EXCEPT ![v] = row]
                     /\ \/ row = [code[v] EXCEPT !.revoked = TRUE]
                        \/ \E life \in {"current", "over"} : row = [code[v] EXCEPT !.life = life]
      BY <1>3 DEF Revoke, Time
    <2>3. row \in Voucher /\ row.count = code[v].count /\ row.max = code[v].max
      BY <2>1, <2>2 DEF Voucher
    <2> QED
      BY <1>1, <2>1, <2>2, <2>3, CodeKeeps
  <1> QED
    BY <1>2, <1>3

\* A handler that turns from one request to another, or to none, is in flight
\* for at most one code more, and for the ones it was in flight for no longer.
LEMMA OneHandler ==
  ASSUME NEW h \in Handlers, NEW record, NEW v, NEW u,
         req'[h] = record, \A g \in Handlers \ {h} : req'[g] = req[g]
  PROVE  /\ InFlight(v)' = IF record.op \in {"redeem", "balance", "pay"} /\ record.code = v
                           THEN InFlight(v) \cup {h} ELSE InFlight(v) \ {h}
         /\ \/ record.op = "redeem" /\ record.code = v /\ record.user = u /\ record.booking = None
            \/ Redeeming(v, u)' = Redeeming(v, u) \ {h}
  <1>1. req'[h] = record /\ \A g \in Handlers \ {h} : req'[g] = req[g]
    OBVIOUS
  <1>2. InFlight(v)' = {g \in Handlers : req'[g].op \in {"redeem", "balance", "pay"}
                                          /\ req'[g].code = v}
    BY DEF InFlight, Tested
  <1>3. Redeeming(v, u)' = {g \in Handlers : req'[g].op = "redeem" /\ req'[g].code = v
                              /\ req'[g].user = u /\ req'[g].booking = None}
    BY DEF Redeeming, Redeems, Tested
  <1>4. InFlight(v)' = IF record.op \in {"redeem", "balance", "pay"} /\ record.code = v
                       THEN InFlight(v) \cup {h} ELSE InFlight(v) \ {h}
    BY <1>1, <1>2 DEF InFlight, Tested
  <1>5. \/ record.op = "redeem" /\ record.code = v /\ record.user = u /\ record.booking = None
        \/ Redeeming(v, u)' = Redeeming(v, u) \ {h}
    BY <1>1, <1>3 DEF Redeeming, Redeems, Tested
  <1> QED
    BY <1>4, <1>5

LEMMA FewerInFlight ==
  ASSUME NEW h, NEW v, NEW u
  PROVE  /\ Cardinality(InFlight(v) \ {h}) \in Nat
         /\ Cardinality(InFlight(v) \ {h}) <= Cardinality(InFlight(v))
         /\ h \in InFlight(v) =>
              Cardinality(InFlight(v) \ {h}) = Cardinality(InFlight(v)) - 1
         /\ Cardinality(Redeeming(v, u) \ {h}) \in Nat
         /\ Cardinality(Redeeming(v, u) \ {h}) <= Cardinality(Redeeming(v, u))
         /\ h \in Redeeming(v, u) =>
              Cardinality(Redeeming(v, u) \ {h}) = Cardinality(Redeeming(v, u)) - 1
  <1>1. ASSUME NEW S, IsFiniteSet(S), Cardinality(S) \in Nat
        PROVE  /\ Cardinality(S \ {h}) \in Nat
               /\ Cardinality(S \ {h}) <= Cardinality(S)
               /\ h \in S => Cardinality(S \ {h}) = Cardinality(S) - 1
    <2>1. /\ S \ {h} \in SUBSET S /\ IsFiniteSet(S \ {h})
          /\ Cardinality(S \ {h}) <= Cardinality(S)
      BY <1>1, FS_Subset
    <2>2. Cardinality(S \ {h}) \in Nat
      BY <2>1, FS_CardinalityType
    <2>3. h \in S => Cardinality(S \ {h}) = Cardinality(S) - 1
      BY <1>1, FS_RemoveElement
    <2> QED
      BY <2>1, <2>2, <2>3
  <1>2. IsFiniteSet(InFlight(v)) /\ Cardinality(InFlight(v)) \in Nat
    BY Finite
  <1>3. IsFiniteSet(Redeeming(v, u)) /\ Cardinality(Redeeming(v, u)) \in Nat
    BY Finite
  <1> QED
    BY <1>1, <1>2, <1>3

\* A handler moves on without a write.
LEMMA RequestKeeps ==
  ASSUME IInv, NEW h \in Handlers, NEW record, req' = [req EXCEPT ![h] = record],
         UNCHANGED <<code, redemption>>,
         record.op \in {"idle", "redeem", "balance", "pay"},
         record.op # "idle" => record.code \in Codes /\ code[record.code] # NoRow,
         record.op = "redeem" => record.booking \in Bookings \cup {None},
         record.op \in {"balance", "pay"} => record.booking \in Bookings,
         \* It was in flight for that code, or the code has room.
         record.op # "idle" =>
           Tested(h, record.code) \/ code[record.code].count < code[record.code].max,
         record.op = "redeem" => UsesFor(record.code, record.user, record.booking) = {}
  PROVE  IInv'
  <1>0. req'[h] = record /\ \A g \in Handlers \ {h} : req'[g] = req[g]
    BY DEF IInv, RequestsAreTyped
  <1>1. RowsAreTyped' /\ CountsTellUses' /\ OncePerBooking'
    BY SameUses DEF IInv, RowsAreTyped, CountsTellUses, OncePerBooking
  <1>2. RequestsAreTyped'
    BY DEF IInv, RequestsAreTyped
  <1>3. RoomForAll'
    <2> SUFFICES ASSUME NEW v \in Codes, code[v] # NoRow
                 PROVE  code[v].count + Cardinality(InFlight(v)')
                          < code[v].max + Cardinality(Handlers)
      BY DEF RoomForAll, InFlight, Tested
    <2>1. code[v] \in Voucher /\ code[v].max \in Nat /\ code[v].count \in Nat
      BY MaxPositive DEF IInv, RowsAreTyped
    <2>2. code[v].count + Cardinality(InFlight(v)) < code[v].max + Cardinality(Handlers)
      BY DEF IInv, RoomForAll
    <2>3. CASE ~(record.op # "idle" /\ record.code = v)
      <3>1. InFlight(v)' = InFlight(v) \ {h}
        BY <1>0, <2>3, OneHandler
      <3>2. /\ Cardinality(InFlight(v) \ {h}) \in Nat
            /\ Cardinality(InFlight(v) \ {h}) <= Cardinality(InFlight(v))
        BY FewerInFlight
      <3> QED
        BY <2>1, <2>2, <3>1, <3>2, Finite
    <2>4. CASE record.op # "idle" /\ record.code = v /\ Tested(h, v)
      <3>1. InFlight(v)' = InFlight(v) \cup {h}
        BY <1>0, <2>4, OneHandler
      <3>2. h \in InFlight(v)
        BY <2>4 DEF InFlight
      <3>3. InFlight(v)' = InFlight(v)
        BY <3>1, <3>2
      <3> QED
        BY <2>2, <3>3
    <2>5. CASE record.op # "idle" /\ record.code = v /\ code[v].count < code[v].max
      <3>1. InFlight(v)' \in SUBSET Handlers
        BY DEF InFlight
      <3>2. /\ Cardinality(InFlight(v)') \in Nat
            /\ Cardinality(InFlight(v)') <= Cardinality(Handlers)
        BY <3>1, HandlersAssumption, FS_Subset, FS_CardinalityType
      <3> QED
        BY <2>1, <2>5, <3>2, Finite
    <2> QED
      BY <2>3, <2>4, <2>5
  <1>4. RepeatsForAll'
    <2> SUFFICES ASSUME NEW v \in Codes, NEW u \in Users
                 PROVE  Cardinality(UsesFor(v, u, None)) + Cardinality(Redeeming(v, u)')
                          <= Cardinality(Handlers)
      BY SameUses DEF RepeatsForAll
    <2>1. Cardinality(UsesFor(v, u, None)) + Cardinality(Redeeming(v, u))
            <= Cardinality(Handlers)
      BY DEF IInv, RepeatsForAll
    <2>2. CASE ~(/\ record.op = "redeem" /\ record.code = v
                 /\ record.user = u /\ record.booking = None)
      <3>1. Redeeming(v, u)' = Redeeming(v, u) \ {h}
        BY <1>0, <2>2, OneHandler
      <3>2. /\ Cardinality(Redeeming(v, u) \ {h}) \in Nat
            /\ Cardinality(Redeeming(v, u) \ {h}) <= Cardinality(Redeeming(v, u))
        BY FewerInFlight
      <3>3. /\ Cardinality(UsesFor(v, u, None)) \in Nat
            /\ Cardinality(Redeeming(v, u)) \in Nat
            /\ Cardinality(Handlers) \in Nat
        BY Finite
      <3> QED
        BY <2>1, <3>1, <3>2, <3>3
    <2>3. CASE /\ record.op = "redeem" /\ record.code = v
               /\ record.user = u /\ record.booking = None
      <3>1. Cardinality(UsesFor(v, u, None)) = 0
        BY <2>3, FS_EmptySet
      <3>2. Redeeming(v, u)' \in SUBSET Handlers
        BY DEF Redeeming
      <3>3. /\ Cardinality(Redeeming(v, u)') \in Nat
            /\ Cardinality(Redeeming(v, u)') <= Cardinality(Handlers)
        BY <3>2, HandlersAssumption, FS_Subset, FS_CardinalityType
      <3> QED
        BY <3>1, <3>3
    <2> QED
      BY <2>2, <2>3
  <1> QED
    BY <1>1, <1>2, <1>3, <1>4 DEF IInv

LEMMA RedeemReadKeeps == \A h \in Handlers : IInv /\ RedeemRead(h) => IInv'
  <1> SUFFICES ASSUME NEW h \in Handlers, IInv, RedeemRead(h) PROVE IInv'
    OBVIOUS
  <1>1. PICK u \in Users, v \in Codes, b \in Bookings \cup {None} :
          /\ Usable(v) /\ UsesFor(v, u, b) = {}
          /\ req' = [req EXCEPT ![h] = [op |-> "redeem", code |-> v, user |-> u,
                                        booking |-> b]]
    BY DEF RedeemRead
  <1>2. PICK record : record = [op |-> "redeem", code |-> v, user |-> u, booking |-> b]
    OBVIOUS
  <1>3. code[v] # NoRow /\ code[v].count < code[v].max
    BY <1>1 DEF Usable, BelowLimit
  <1>4. req' = [req EXCEPT ![h] = record] /\ UNCHANGED <<code, redemption>>
    BY <1>1, <1>2 DEF RedeemRead
  <1>5. record.op = "redeem" /\ record.code = v /\ record.user = u /\ record.booking = b
    BY <1>2
  <1> QED
    BY <1>1, <1>3, <1>4, <1>5, RequestKeeps

LEMMA PayReadKeeps == \A h \in Handlers : IInv /\ PayRead(h) => IInv'
  <1> SUFFICES ASSUME NEW h \in Handlers, IInv, PayRead(h) PROVE IInv'
    OBVIOUS
  <1>1. PICK b \in Bookings, v \in Codes :
          /\ Usable(v)
          /\ req' = [req EXCEPT ![h] =
                       IF code[v].kind = "credit"
                       THEN [op |-> "balance", code |-> v, booking |-> b]
                       ELSE [op |-> "pay", code |-> v, booking |-> b,
                             discount |-> Worth[v]]]
    BY DEF PayRead
  <1>2. PICK record : /\ req' = [req EXCEPT ![h] = record]
                      /\ \/ record = [op |-> "balance", code |-> v, booking |-> b]
                         \/ record = [op |-> "pay", code |-> v, booking |-> b,
                                      discount |-> Worth[v]]
    BY <1>1
  <1>3. code[v] # NoRow /\ code[v].count < code[v].max
    BY <1>1 DEF Usable, BelowLimit
  <1>4. record.op \in {"balance", "pay"} /\ record.code = v /\ record.booking = b
    BY <1>2
  <1> QED
    BY <1>2, <1>3, <1>4, RequestKeeps DEF PayRead

LEMMA PayBalanceKeeps == \A h \in Handlers : IInv /\ PayBalance(h) => IInv'
  <1> SUFFICES ASSUME NEW h \in Handlers, IInv, PayBalance(h) PROVE IInv'
    OBVIOUS
  <1>1. PICK record : record = [op |-> "pay", code |-> req[h].code,
                                booking |-> req[h].booking,
                                discount |-> CreditUsed(req[h].booking)]
    OBVIOUS
  <1>2. /\ record.op = "pay" /\ record.code = req[h].code
        /\ record.booking = req[h].booking
    BY <1>1
  <1>3. req' = [req EXCEPT ![h] = record] /\ UNCHANGED <<code, redemption>>
    BY <1>1 DEF PayBalance
  <1>4. req[h].op = "balance" /\ Tested(h, record.code)
    BY <1>2 DEF PayBalance, Tested
  <1>5. /\ record.code \in Codes /\ code[record.code] # NoRow
        /\ record.booking \in Bookings
    BY <1>2, <1>4 DEF IInv, RequestsAreTyped
  <1> QED
    BY <1>2, <1>3, <1>4, <1>5, RequestKeeps

LEMMA AbandonKeeps == \A h \in Handlers : IInv /\ Abandon(h) => IInv'
  <1>1. Idle.op = "idle"
    BY DEF Idle
  <1> QED
    BY <1>1, RequestKeeps DEF Abandon, Finish

\* A handler that was in flight for a code redeems it, and is so no longer.
LEMMA UseKeeps ==
  ASSUME IInv, NEW h \in Handlers, NEW v \in Codes, NEW user, NEW booking, NEW credit,
         Used(v, user, booking, credit), Finish(h),
         code[v] # NoRow, Tested(h, v), booking = None => Redeems(h, v, user)
  PROVE  IInv'
  <1>1. PICK r \in Redemptions, row \in {[code |-> v, user |-> user, booking |-> booking,
                                          credit |-> credit]} :
          /\ redemption[r] = NoRow
          /\ booking # None => UsesFor(v, user, booking) = {}
          /\ redemption' = [redemption EXCEPT ![r] = row]
          /\ code' = [code EXCEPT ![v].count = @ + 1]
    BY DEF Used
  <1>2. row.code = v /\ row.user = user /\ row.booking = booking /\ row # NoRow
    BY <1>1 DEF NoRow
  <1>3. /\ redemption' = [s \in Redemptions |-> redemption'[s]] /\ redemption'[r] = row
        /\ \A s \in Redemptions \ {r} : redemption'[s] = redemption[s]
    BY <1>1 DEF IInv, RowsAreTyped
  <1>4. r \notin Redeemed /\ Redeemed' = Redeemed \cup {r}
    BY <1>1, <1>2, <1>3 DEF Redeemed
  <1>5. code[v] \in Voucher /\ code[v].count \in Nat
    BY MaxPositive DEF IInv, RowsAreTyped
  <1>6. /\ code'[v] = [code[v] EXCEPT !.count = @ + 1]
        /\ \A w \in Codes \ {v} : code'[w] = code[w]
        /\ code' = [w \in Codes |-> code'[w]]
    BY <1>1 DEF IInv, RowsAreTyped
  <1>7. /\ code'[v] \in Voucher /\ code'[v].count = code[v].count + 1
        /\ code'[v].max = code[v].max
    BY <1>5, <1>6 DEF Voucher
  <1>8. \A w \in Codes : code[w] # NoRow <=> code'[w] # NoRow
    BY <1>6, <1>7, RowsExist
  <1>9. RowsAreTyped'
    <2>1. code' \in [Codes -> Voucher \cup {NoRow}]
      BY <1>6, <1>7 DEF IInv, RowsAreTyped
    <2>2. \A s \in Redeemed' : redemption'[s].code \in Codes /\ code'[redemption'[s].code] # NoRow
      BY <1>2, <1>3, <1>4, <1>8 DEF IInv, RowsAreTyped, Redeemed
    <2> QED
      BY <1>3, <2>1, <2>2 DEF RowsAreTyped
  <1>10. RequestsAreTyped'
    BY <1>8 DEF IInv, RequestsAreTyped, Finish, Idle
  <1>11. /\ Uses(v)' = Uses(v) \cup {r} /\ r \notin Uses(v)
         /\ \A w \in Codes \ {v} : Uses(w)' = Uses(w)
    BY <1>2, <1>3, <1>4 DEF Uses, Redeemed
  <1>12. /\ UsesFor(v, user, booking)' = UsesFor(v, user, booking) \cup {r}
         /\ r \notin UsesFor(v, user, booking)
    BY <1>2, <1>3, <1>11 DEF UsesFor, Uses, Redeemed
  <1>13. \A w \in Codes : \A u, b :
           ~(w = v /\ u = user /\ b = booking) => UsesFor(w, u, b)' = UsesFor(w, u, b)
    BY <1>2, <1>3, <1>11 DEF UsesFor, Uses, Redeemed
  <1>14. \A w, u : InFlight(w)' = InFlight(w) \ {h} /\ Redeeming(w, u)' = Redeeming(w, u) \ {h}
    <2>1. req'[h] = Idle /\ \A g \in Handlers \ {h} : req'[g] = req[g]
      BY DEF Finish, IInv, RequestsAreTyped
    <2> QED
      BY <2>1, OneHandler DEF Idle
  <1>15. CountsTellUses'
    <2>1. Cardinality(Uses(v)') = Cardinality(Uses(v)) + 1
      BY <1>11, Finite, FS_AddElement
    <2> QED
      BY <1>6, <1>7, <1>8, <1>11, <2>1 DEF IInv, CountsTellUses
  <1>16. RoomForAll'
    <2> SUFFICES ASSUME NEW w \in Codes, code'[w] # NoRow
                 PROVE  code'[w].count + Cardinality(InFlight(w)')
                          < code'[w].max + Cardinality(Handlers)
      BY DEF RoomForAll
    <2>1. /\ code[w].max \in Nat /\ code[w].count \in Nat
          /\ code[w].count + Cardinality(InFlight(w)) < code[w].max + Cardinality(Handlers)
      BY <1>8, MaxPositive DEF IInv, RowsAreTyped, RoomForAll
    <2>2. /\ Cardinality(InFlight(w)') \in Nat
          /\ Cardinality(InFlight(w)') <= Cardinality(InFlight(w))
          /\ h \in InFlight(w) => Cardinality(InFlight(w)') = Cardinality(InFlight(w)) - 1
      BY <1>14, FewerInFlight
    <2>3. Cardinality(InFlight(w)) \in Nat /\ Cardinality(Handlers) \in Nat
      BY Finite
    <2>4. CASE w = v
      <3>1. h \in InFlight(w)
        BY <2>4 DEF InFlight
      <3> QED
        BY <1>7, <2>1, <2>2, <2>3, <2>4, <3>1
    <2>5. CASE w # v
      BY <1>6, <2>1, <2>2, <2>3, <2>5
    <2> QED
      BY <2>4, <2>5
  <1>17. RepeatsForAll'
    <2> SUFFICES ASSUME NEW w \in Codes, NEW u \in Users
                 PROVE  Cardinality(UsesFor(w, u, None)') + Cardinality(Redeeming(w, u)')
                          <= Cardinality(Handlers)
      BY DEF RepeatsForAll
    <2>1. Cardinality(UsesFor(w, u, None)) + Cardinality(Redeeming(w, u)) <= Cardinality(Handlers)
      BY DEF IInv, RepeatsForAll
    <2>2. /\ Cardinality(Redeeming(w, u)') \in Nat
          /\ Cardinality(Redeeming(w, u)') <= Cardinality(Redeeming(w, u))
          /\ h \in Redeeming(w, u) =>
               Cardinality(Redeeming(w, u)') = Cardinality(Redeeming(w, u)) - 1
      BY <1>14, FewerInFlight
    <2>3. /\ Cardinality(UsesFor(w, u, None)) \in Nat /\ Cardinality(Redeeming(w, u)) \in Nat
          /\ Cardinality(Handlers) \in Nat /\ IsFiniteSet(UsesFor(w, u, None))
      BY Finite
    <2>4. CASE w = v /\ u = user /\ None = booking
      <3>1. h \in Redeeming(w, u)
        BY <2>4 DEF Redeeming
      <3>2. Cardinality(UsesFor(w, u, None)') = Cardinality(UsesFor(w, u, None)) + 1
        BY <1>12, <2>3, <2>4, FS_AddElement
      <3> QED
        BY <2>1, <2>2, <2>3, <3>1, <3>2
    <2>5. CASE ~(w = v /\ u = user /\ None = booking)
      <3>1. UsesFor(w, u, None)' = UsesFor(w, u, None)
        BY <1>13, <2>5
      <3> QED
        BY <2>1, <2>2, <2>3, <3>1
    <2> QED
      BY <2>4, <2>5
  <1>18. OncePerBooking'
    <2> SUFFICES ASSUME NEW w \in Codes, NEW u \in Users, NEW b \in Bookings
                 PROVE  \A s, t \in UsesFor(w, u, b)' : s = t
      BY DEF OncePerBooking
    <2>1. b # None
      BY NoneAssumption
    <2>2. CASE w = v /\ u = user /\ b = booking
      BY <1>1, <1>12, <2>1, <2>2
    <2>3. CASE ~(w = v /\ u = user /\ b = booking)
      BY <1>13, <2>3 DEF IInv, OncePerBooking
    <2> QED
      BY <2>2, <2>3
  <1> QED
    BY <1>9, <1>10, <1>15, <1>16, <1>17, <1>18 DEF IInv

LEMMA RedeemCommitKeeps == \A h \in Handlers : IInv /\ RedeemCommit(h) => IInv'
  <1> SUFFICES ASSUME NEW h \in Handlers, IInv, RedeemCommit(h) PROVE IInv'
    OBVIOUS
  <1>1. PICK v, user, booking, credit :
          /\ v = req[h].code /\ user = req[h].user /\ booking = req[h].booking
          /\ Used(v, user, booking, credit)
    BY DEF RedeemCommit
  <1>2. req[h].op = "redeem" /\ Finish(h)
    BY DEF RedeemCommit
  <1>3. v \in Codes /\ code[v] # NoRow
    BY <1>1, <1>2 DEF IInv, RequestsAreTyped
  <1>4. Tested(h, v) /\ (booking = None => Redeems(h, v, user))
    BY <1>1, <1>2 DEF Tested, Redeems
  <1> QED
    BY <1>1, <1>2, <1>3, <1>4, UseKeeps

LEMMA PayCommitKeeps == \A h \in Handlers : IInv /\ PayCommit(h) => IInv'
  <1> SUFFICES ASSUME NEW h \in Handlers, IInv, PayCommit(h) PROVE IInv'
    OBVIOUS
  <1>1. PICK v, booking, user, credit :
          /\ v = req[h].code /\ booking = req[h].booking
          /\ Used(v, user, booking, credit)
    BY DEF PayCommit
  <1>2. req[h].op = "pay" /\ Finish(h)
    BY DEF PayCommit
  <1>3. v \in Codes /\ code[v] # NoRow /\ booking \in Bookings
    BY <1>1, <1>2 DEF IInv, RequestsAreTyped
  <1>4. Tested(h, v) /\ booking # None
    BY <1>1, <1>2, <1>3, NoneAssumption DEF Tested
  <1> QED
    BY <1>1, <1>2, <1>3, <1>4, UseKeeps

\* Payments, and steps that change nothing, leave all the invariant names alone.
LEMMA SameKeeps == IInv /\ UNCHANGED <<code, redemption, req>> => IInv'
  <1> SUFFICES ASSUME IInv, UNCHANGED <<code, redemption, req>> PROVE IInv'
    OBVIOUS
  <1>1. RowsAreTyped' /\ CountsTellUses' /\ OncePerBooking'
    BY SameUses DEF IInv, RowsAreTyped, CountsTellUses, OncePerBooking
  <1>2. RequestsAreTyped'
    BY DEF IInv, RequestsAreTyped
  <1>3. RoomForAll' /\ RepeatsForAll'
    BY SameUses, SameRequests DEF IInv, RoomForAll, RepeatsForAll
  <1> QED
    BY <1>1, <1>2, <1>3 DEF IInv

LEMMA NextKeeps == IInv /\ [Next]_vars => IInv'
  <1> SUFFICES ASSUME IInv, [Next]_vars PROVE IInv'
    OBVIOUS
  <1>1. CASE UNCHANGED vars
    BY <1>1, SameKeeps DEF vars
  <1>2. ASSUME NEW h \in Handlers, Step(h) PROVE IInv'
    BY <1>2, RedeemReadKeeps, RedeemCommitKeeps, PayReadKeeps, PayBalanceKeeps,
       PayCommitKeeps, AbandonKeeps DEF Step
  <1>3. ASSUME NEW v \in Codes, Generate(v) \/ Revoke(v) \/ Time(v) PROVE IInv'
    BY <1>3, CodesKeep
  <1>4. ASSUME NEW b \in Bookings, PayPlain(b) PROVE IInv'
    BY <1>4, SameKeeps DEF PayPlain
  <1>5. ASSUME NEW p \in Payments, NEW status, Webhook(p, status) PROVE IInv'
    BY <1>5, SameKeeps DEF Webhook
  <1> QED
    BY <1>1, <1>2, <1>3, <1>4, <1>5 DEF Next

-----------------------------------------------------------------------------
(* What the ledger says of the payments.                                   *)

\* What a handler is to take off by credit never exceeds the price.
PayersKnowTheirCredit ==
  \A h \in Handlers :
    req[h].op = "pay" /\ code[req[h].code].kind = "credit" =>
      Least(req[h].discount, Price[req[h].booking]) = req[h].discount

\* The bookkeeping of payments, with the invariant that keeps it.
LedgerInv ==
  /\ IInv
  /\ payment = [p \in Payments |-> payment[p]]
  /\ PayersKnowTheirCredit
  /\ LedgerPaysDiscounts

LEMMA LeastOfLeast == \A a, b : b \in Int => Least(Least(a, b), b) = Least(a, b)
  BY DEF Least

LEMMA LedgerInit == Init => LedgerInv
  <1> SUFFICES ASSUME Init PROVE LedgerInv
    OBVIOUS
  <1>1. payment = [p \in Payments |-> NoRow]
    BY DEF Init
  <1>2. payment = [p \in Payments |-> payment[p]] /\ LedgerPaysDiscounts
    BY <1>1 DEF LedgerPaysDiscounts
  <1>3. PayersKnowTheirCredit
    BY DEF Init, Idle, PayersKnowTheirCredit
  <1> QED
    BY <1>2, <1>3, InitHolds DEF LedgerInv

\* Payment p is one a code paid for.
ByCode(p) == payment[p] # NoRow /\ payment[p].redemption # None

\* What LedgerPaysDiscounts says of one payment.
Accounted(p) ==
  LET r == payment[p].redemption
      discount == payment[p].discount
  IN /\ r \in Redeemed
     /\ redemption[r].booking = payment[p].booking
     /\ redemption[r].user = Customer[payment[p].booking]
     /\ code[redemption[r].code].kind = "credit" =>
          redemption[r].credit = IF discount > 0 THEN -discount ELSE 0
     /\ \A q \in Payments \ {p} : payment[q] # NoRow => payment[q].redemption # r

LEMMA LedgerOfEach == LedgerPaysDiscounts <=> \A p \in Payments : ByCode(p) => Accounted(p)
  BY DEF LedgerPaysDiscounts, ByCode, Accounted

\* The kind of a code is written once.
KindsStay == \A v \in Codes : code[v] # NoRow => code'[v].kind = code[v].kind

LEMMA KindsAreFinal ==
  ASSUME IInv, NEW v \in Codes, Generate(v) \/ Revoke(v) \/ Time(v)
  PROVE  KindsStay
  <1>1. code \in [Codes -> Voucher \cup {NoRow}]
    BY DEF IInv, RowsAreTyped
  <1>2. CASE Generate(v)
    BY <1>1, <1>2 DEF Generate, KindsStay
  <1>3. CASE Revoke(v) \/ Time(v)
    <2>1. code[v] \in Voucher
      BY <1>1, <1>3 DEF Revoke, Time
    <2>2. PICK row : /\ code' = [code EXCEPT ![v] = row]
                     /\ \/ row = [code[v] EXCEPT !.revoked = TRUE]
                        \/ \E life \in {"current", "over"} : row = [code[v] EXCEPT !.life = life]
      BY <1>3 DEF Revoke, Time
    <2>3. row.kind = code[v].kind
      BY <2>1, <2>2 DEF Voucher
    <2> QED
      BY <1>1, <2>2, <2>3 DEF KindsStay
  <1> QED
    BY <1>2, <1>3

\* Steps that write no payment keep the accounts, as long as rows and kinds stay.
LEMMA AccountsKeep ==
  ASSUME LedgerInv, UNCHANGED payment, KindsStay,
         \A r \in Redeemed : r \in Redeemed' /\ redemption'[r] = redemption[r]
  PROVE  LedgerPaysDiscounts'
  <1> SUFFICES ASSUME NEW p \in Payments, ByCode(p) PROVE Accounted(p)'
    BY DEF LedgerPaysDiscounts, ByCode, Accounted
  <1>1. Accounted(p)
    BY LedgerOfEach DEF LedgerInv
  <1>2. PICK r \in Redeemed : r = payment[p].redemption
    BY <1>1 DEF Accounted
  <1>3. redemption[r].code \in Codes /\ code[redemption[r].code] # NoRow
    BY DEF LedgerInv, IInv, RowsAreTyped
  <1>4. /\ r \in Redeemed' /\ redemption'[r] = redemption[r]
        /\ code'[redemption[r].code].kind = code[redemption[r].code].kind
    BY <1>3 DEF KindsStay
  <1> QED
    BY <1>1, <1>2, <1>4 DEF Accounted

\* Handlers that stay, and have a code that exists, know what they knew.
LEMMA PayersKeep ==
  ASSUME LedgerInv, KindsStay,
         \A h \in Handlers : req'[h] = req[h] \/ req'[h].op # "pay"
  PROVE  PayersKnowTheirCredit'
  <1> SUFFICES ASSUME NEW h \in Handlers, req'[h].op = "pay",
                      code'[req'[h].code].kind = "credit"
               PROVE  Least(req'[h].discount, Price[req'[h].booking]) = req'[h].discount
    BY DEF PayersKnowTheirCredit
  <1>1. req'[h] = req[h] /\ req[h].op = "pay"
    OBVIOUS
  <1>2. req[h].code \in Codes /\ code[req[h].code] # NoRow
    BY <1>1 DEF LedgerInv, IInv, RequestsAreTyped
  <1>3. code[req[h].code].kind = "credit"
    BY <1>1, <1>2 DEF KindsStay
  <1> QED
    BY <1>1, <1>3 DEF LedgerInv, PayersKnowTheirCredit

\* A redemption writes one row that was not there, and keeps every kind.
LEMMA UseWrites ==
  ASSUME IInv, NEW v \in Codes, NEW user, NEW booking, NEW credit, code[v] # NoRow,
         Used(v, user, booking, credit)
  PROVE  /\ KindsStay
         /\ \E r \in Redemptions \ Redeemed :
              /\ redemption' = [redemption EXCEPT ![r] = redemption'[r]]
              /\ redemption'[r] # NoRow
              /\ redemption'[r].code = v /\ redemption'[r].user = user
              /\ redemption'[r].booking = booking /\ redemption'[r].credit = credit
              /\ Redeemed' = Redeemed \cup {r}
              /\ \A s \in Redemptions \ {r} : redemption'[s] = redemption[s]
  <1>1. PICK r \in Redemptions, row \in {[code |-> v, user |-> user, booking |-> booking,
                                          credit |-> credit]} :
          /\ redemption[r] = NoRow
          /\ redemption' = [redemption EXCEPT ![r] = row]
          /\ code' = [code EXCEPT ![v].count = @ + 1]
    BY DEF Used
  <1>2. /\ row.code = v /\ row.user = user /\ row.booking = booking /\ row.credit = credit
        /\ row # NoRow
    BY <1>1 DEF NoRow
  <1>3. /\ redemption'[r] = row /\ r \notin Redeemed
        /\ \A s \in Redemptions \ {r} : redemption'[s] = redemption[s]
    BY <1>1 DEF IInv, RowsAreTyped, Redeemed
  <1>4. Redeemed' = Redeemed \cup {r}
    BY <1>2, <1>3 DEF Redeemed
  <1>5. code[v] \in Voucher /\ code \in [Codes -> Voucher \cup {NoRow}]
    BY DEF IInv, RowsAreTyped
  <1>6. KindsStay
    BY <1>1, <1>5 DEF KindsStay, Voucher
  <1> QED
    BY <1>1, <1>2, <1>3, <1>4, <1>6

LEMMA PayCommitAccounts == \A h \in Handlers : LedgerInv /\ PayCommit(h) => LedgerInv'
  <1> SUFFICES ASSUME NEW h \in Handlers, LedgerInv, PayCommit(h) PROVE LedgerInv'
    OBVIOUS
  <1> DEFINE v == req[h].code
             b == req[h].booking
             discount == req[h].discount
  <1>1. /\ req[h].op = "pay"
        /\ Used(v, Customer[b], b, LedgerEntry(v, b, discount))
        /\ \E r \in Redemptions :
             /\ redemption'[r] # redemption[r]
             /\ Intent(b, r, Least(discount, Price[b]))
        /\ Finish(h)
    BY DEF PayCommit
  <1>2. v \in Codes /\ code[v] # NoRow /\ b \in Bookings /\ IInv
    BY <1>1 DEF LedgerInv, IInv, RequestsAreTyped
  <1>3. KindsStay
    BY <1>1, <1>2, UseWrites
  <1>4. PICK r \in Redemptions \ Redeemed :
          /\ redemption'[r] # NoRow
          /\ redemption'[r].code = v /\ redemption'[r].user = Customer[b]
          /\ redemption'[r].booking = b
          /\ redemption'[r].credit = LedgerEntry(v, b, discount)
          /\ Redeemed' = Redeemed \cup {r}
          /\ \A s \in Redemptions \ {r} : redemption'[s] = redemption[s]
    BY <1>1, <1>2, UseWrites
  <1>5. Intent(b, r, Least(discount, Price[b]))
    <2>1. PICK s \in Redemptions : /\ redemption'[s] # redemption[s]
                                   /\ Intent(b, s, Least(discount, Price[b]))
      BY <1>1
    <2>2. s = r
      BY <1>4, <2>1
    <2> QED
      BY <2>1, <2>2
  <1>6. PICK p \in Payments, status \in {"requires_action", "pending"} :
          /\ payment[p] = NoRow
          /\ payment' = [payment EXCEPT ![p] = [booking |-> b, redemption |-> r,
                             discount |-> Least(discount, Price[b]), status |-> status]]
    BY <1>5 DEF Intent
  <1>7. /\ payment' = [q \in Payments |-> payment'[q]]
        /\ payment'[p].booking = b /\ payment'[p].redemption = r
        /\ payment'[p].discount = Least(discount, Price[b])
        /\ \A q \in Payments \ {p} : payment'[q] = payment[q]
    BY <1>6 DEF LedgerInv
  <1>8. \A q \in Payments \ {p} : payment[q] # NoRow => payment[q].redemption # r
    <2> SUFFICES ASSUME NEW q \in Payments \ {p}, payment[q] # NoRow,
                        payment[q].redemption = r
                 PROVE  FALSE
      OBVIOUS
    <2>1. ByCode(q)
      BY NoneAssumption DEF ByCode
    <2>2. r \in Redeemed
      BY <2>1, LedgerOfEach DEF LedgerInv, Accounted
    <2> QED
      BY <2>2
  <1>9. code[v].kind = "credit" => Least(discount, Price[b]) = discount
    BY <1>1 DEF LedgerInv, PayersKnowTheirCredit
  <1>10. Accounted(p)'
    <2>1. code'[v].kind = code[v].kind
      BY <1>2, <1>3 DEF KindsStay
    <2>2. code[v].kind = "credit" =>
            redemption'[r].credit =
              IF payment'[p].discount > 0 THEN -payment'[p].discount ELSE 0
      BY <1>4, <1>7, <1>9 DEF LedgerEntry
    <2> QED
      BY <1>4, <1>7, <1>8, <2>1, <2>2 DEF Accounted
  <1>11. ASSUME NEW q \in Payments \ {p}, ByCode(q)' PROVE Accounted(q)'
    <2>1. ByCode(q) /\ payment'[q] = payment[q]
      BY <1>7, <1>11 DEF ByCode
    <2>2. Accounted(q)
      BY <2>1, LedgerOfEach DEF LedgerInv
    <2>3. PICK s \in Redeemed : s = payment[q].redemption
      BY <2>2 DEF Accounted
    <2>4. /\ s \in Redeemed' /\ redemption'[s] = redemption[s]
          /\ code'[redemption[s].code].kind = code[redemption[s].code].kind
      BY <1>3, <1>4 DEF Redeemed, LedgerInv, IInv, RowsAreTyped, KindsStay
    <2>5. \A o \in Payments \ {q} : payment'[o] # NoRow => payment'[o].redemption # s
      BY <1>4, <1>7, <2>2, <2>3 DEF Accounted
    <2> QED
      BY <2>1, <2>2, <2>3, <2>4, <2>5 DEF Accounted
  <1>12. LedgerPaysDiscounts'
    BY <1>10, <1>11 DEF LedgerPaysDiscounts, ByCode, Accounted
  <1>13. PayersKnowTheirCredit'
    <2>1. \A g \in Handlers : req'[g] = req[g] \/ req'[g].op # "pay"
      BY <1>1 DEF Finish, Idle, LedgerInv, IInv, RequestsAreTyped
    <2> QED
      BY <1>3, <2>1, PayersKeep
  <1> QED
    BY <1>2, <1>7, <1>12, <1>13, PayCommitKeeps DEF LedgerInv

LEMMA PayPlainAccounts == \A b \in Bookings : LedgerInv /\ PayPlain(b) => LedgerInv'
  <1> SUFFICES ASSUME NEW b \in Bookings, LedgerInv, PayPlain(b) PROVE LedgerInv'
    OBVIOUS
  <1>1. UNCHANGED <<code, redemption, req>> /\ Intent(b, None, 0)
    BY DEF PayPlain
  <1>2. PICK p \in Payments, status \in {"requires_action", "pending"} :
          /\ payment[p] = NoRow
          /\ payment' = [payment EXCEPT ![p] = [booking |-> b, redemption |-> None,
                                                discount |-> 0, status |-> status]]
    BY <1>1 DEF Intent
  <1>3. /\ payment' = [q \in Payments |-> payment'[q]]
        /\ payment'[p].redemption = None
        /\ \A q \in Payments \ {p} : payment'[q] = payment[q]
    BY <1>2 DEF LedgerInv
  <1>4. ASSUME NEW q \in Payments, ByCode(q)' PROVE Accounted(q)'
    <2>1. q # p /\ ByCode(q) /\ payment'[q] = payment[q]
      BY <1>3, <1>4 DEF ByCode
    <2>2. Accounted(q)
      BY <2>1, LedgerOfEach DEF LedgerInv
    <2>3. payment[q].redemption # None
      BY <2>1 DEF ByCode
    <2> QED
      BY <1>1, <1>3, <2>1, <2>2, <2>3 DEF Accounted, Redeemed
  <1>5. LedgerPaysDiscounts'
    BY <1>4 DEF LedgerPaysDiscounts, ByCode, Accounted
  <1>6. PayersKnowTheirCredit'
    BY <1>1 DEF LedgerInv, PayersKnowTheirCredit
  <1> QED
    BY <1>1, <1>3, <1>5, <1>6, SameKeeps DEF LedgerInv

LEMMA WebhookAccounts ==
  \A p \in Payments : \A status : LedgerInv /\ Webhook(p, status) => LedgerInv'
  <1> SUFFICES ASSUME NEW p \in Payments, NEW status, LedgerInv, Webhook(p, status)
               PROVE  LedgerInv'
    OBVIOUS
  <1>1. /\ UNCHANGED <<code, redemption, req>> /\ payment[p] # NoRow
        /\ payment' = [payment EXCEPT ![p].status = status]
    BY DEF Webhook
  <1>2. /\ payment' = [q \in Payments |-> payment'[q]]
        /\ payment'[p] = [payment[p] EXCEPT !.status = status]
        /\ \A q \in Payments \ {p} : payment'[q] = payment[q]
    BY <1>1 DEF LedgerInv
  <1>3. \A q \in Payments : payment'[q] # NoRow => payment[q] # NoRow
    BY <1>1, <1>2
  <1>4. /\ payment'[p].redemption = payment[p].redemption
        /\ payment'[p].booking = payment[p].booking
        /\ payment'[p].discount = payment[p].discount
    BY <1>2
  <1>5. ASSUME NEW q \in Payments, ByCode(q)' PROVE Accounted(q)'
    <2>1. /\ payment'[q].redemption = payment[q].redemption
          /\ payment'[q].booking = payment[q].booking
          /\ payment'[q].discount = payment[q].discount
      BY <1>2, <1>4
    <2>2. ByCode(q)
      BY <1>3, <1>5, <2>1 DEF ByCode
    <2>3. Accounted(q)
      BY <2>2, LedgerOfEach DEF LedgerInv
    <2>4. \A o \in Payments \ {q} :
            payment'[o] # NoRow => payment'[o].redemption # payment[q].redemption
      BY <1>2, <1>3, <1>4, <2>3 DEF Accounted
    <2> QED
      BY <1>1, <2>1, <2>3, <2>4 DEF Accounted, Redeemed
  <1>6. LedgerPaysDiscounts'
    BY <1>5 DEF LedgerPaysDiscounts, ByCode, Accounted
  <1>7. PayersKnowTheirCredit'
    BY <1>1 DEF LedgerInv, PayersKnowTheirCredit
  <1> QED
    BY <1>1, <1>2, <1>6, <1>7, SameKeeps DEF LedgerInv

\* A step of a handler that writes no payment: it redeems, reads or ends.
LEMMA StepAccounts == \A h \in Handlers : LedgerInv /\ Step(h) => LedgerInv'
  <1> SUFFICES ASSUME NEW h \in Handlers, LedgerInv, Step(h) PROVE LedgerInv'
    OBVIOUS
  <1>1. IInv'
    BY RedeemReadKeeps, RedeemCommitKeeps, PayReadKeeps, PayBalanceKeeps, PayCommitKeeps,
       AbandonKeeps DEF Step, LedgerInv
  <1>2. req = [g \in Handlers |-> req[g]]
    BY DEF LedgerInv, IInv, RequestsAreTyped
  <1>3. CASE RedeemRead(h) \/ Abandon(h)
    <2>1. UNCHANGED <<code, redemption, payment>>
      BY <1>3 DEF RedeemRead, Abandon
    <2>2. \A g \in Handlers : req'[g] = req[g] \/ req'[g].op # "pay"
      <3>1. PICK record : record.op # "pay" /\ req' = [req EXCEPT ![h] = record]
        <4>1. CASE RedeemRead(h)
          BY <4>1 DEF RedeemRead
        <4>2. CASE Abandon(h)
          BY <4>2 DEF Abandon, Finish, Idle
        <4> QED
          BY <1>3, <4>1, <4>2
      <3> QED
        BY <1>2, <3>1
    <2>3. KindsStay /\ \A r \in Redeemed : r \in Redeemed' /\ redemption'[r] = redemption[r]
      BY <2>1 DEF KindsStay, Redeemed
    <2> QED
      BY <1>1, <2>1, <2>2, <2>3, AccountsKeep, PayersKeep DEF LedgerInv
  <1>4. CASE RedeemCommit(h)
    <2>1. PICK v, user, booking, credit :
            /\ v = req[h].code /\ Used(v, user, booking, credit)
      BY <1>4 DEF RedeemCommit
    <2>2. UNCHANGED payment /\ v \in Codes /\ code[v] # NoRow
      BY <1>4, <2>1 DEF RedeemCommit, LedgerInv, IInv, RequestsAreTyped
    <2>3. KindsStay /\ \A r \in Redeemed : r \in Redeemed' /\ redemption'[r] = redemption[r]
      BY <2>1, <2>2, UseWrites DEF LedgerInv, Redeemed
    <2>4. \A g \in Handlers : req'[g] = req[g] \/ req'[g].op # "pay"
      BY <1>2, <1>4 DEF RedeemCommit, Finish, Idle
    <2> QED
      BY <1>1, <2>2, <2>3, <2>4, AccountsKeep, PayersKeep DEF LedgerInv
  <1>5. CASE PayRead(h) \/ PayBalance(h)
    <2>1. UNCHANGED <<code, redemption, payment>>
      BY <1>5 DEF PayRead, PayBalance
    <2>2. KindsStay /\ \A r \in Redeemed : r \in Redeemed' /\ redemption'[r] = redemption[r]
      BY <2>1 DEF KindsStay, Redeemed
    <2>3. LedgerPaysDiscounts'
      BY <2>1, <2>2, AccountsKeep
    <2>4. \A g \in Handlers \ {h} : req'[g] = req[g]
      BY <1>2, <1>5 DEF PayRead, PayBalance
    <2>5. req'[h].op = "pay" /\ code[req'[h].code].kind = "credit" =>
            Least(req'[h].discount, Price[req'[h].booking]) = req'[h].discount
      <3>1. CASE PayRead(h)
        BY <1>2, <3>1 DEF PayRead
      <3>2. CASE PayBalance(h)
        <4>1. /\ req'[h].booking = req[h].booking
              /\ req'[h].discount = CreditUsed(req[h].booking)
          BY <1>2, <3>2 DEF PayBalance
        <4>2. req[h].booking \in Bookings
          BY <3>2 DEF PayBalance, LedgerInv, IInv, RequestsAreTyped
        <4>3. Price[req[h].booking] \in Int
          BY <4>2, BookingsAssumption
        <4> QED
          BY <4>1, <4>3, LeastOfLeast DEF CreditUsed
      <3> QED
        BY <1>5, <3>1, <3>2
    <2>6. PayersKnowTheirCredit'
      BY <2>1, <2>4, <2>5 DEF LedgerInv, PayersKnowTheirCredit
    <2> QED
      BY <1>1, <2>1, <2>3, <2>6 DEF LedgerInv
  <1> QED
    BY <1>3, <1>4, <1>5, PayCommitAccounts DEF Step

LEMMA LedgerNext == LedgerInv /\ [Next]_vars => LedgerInv'
  <1> SUFFICES ASSUME LedgerInv, [Next]_vars PROVE LedgerInv'
    OBVIOUS
  <1>1. CASE UNCHANGED vars
    <2>1. UNCHANGED <<code, redemption, payment, req>>
      BY <1>1 DEF vars
    <2> QED
      BY <2>1, SameKeeps DEF LedgerInv, LedgerPaysDiscounts, PayersKnowTheirCredit, Redeemed
  <1>2. ASSUME NEW h \in Handlers, Step(h) PROVE LedgerInv'
    BY <1>2, StepAccounts
  <1>3. ASSUME NEW v \in Codes, Generate(v) \/ Revoke(v) \/ Time(v) PROVE LedgerInv'
    <2>1. UNCHANGED <<redemption, payment, req>>
      BY <1>3 DEF Generate, Revoke, Time
    <2>2. KindsStay
      BY <1>3, KindsAreFinal DEF LedgerInv
    <2>3. \A r \in Redeemed : r \in Redeemed' /\ redemption'[r] = redemption[r]
      BY <2>1 DEF Redeemed
    <2> QED
      BY <1>3, <2>1, <2>2, <2>3, AccountsKeep, PayersKeep, CodesKeep DEF LedgerInv
  <1>4. ASSUME NEW b \in Bookings, PayPlain(b) PROVE LedgerInv'
    BY <1>4, PayPlainAccounts
  <1>5. ASSUME NEW p \in Payments, NEW status, Webhook(p, status) PROVE LedgerInv'
    BY <1>5, WebhookAccounts
  <1> QED
    BY <1>1, <1>2, <1>3, <1>4, <1>5 DEF Next

-----------------------------------------------------------------------------
(* Sums over finite sets of rows.                                          *)

\* A set of subsets of a finite set has a smallest member: the form in which the
\* proofs below are by induction over finite sets.
LEMMA SmallestSet ==
  ASSUME NEW S, IsFiniteSet(S), NEW B \in SUBSET (SUBSET S), B # {}
  PROVE  \E s \in B : \A t \in B : t \subseteq s => t = s
  <1>1. IsWellFoundedOn(StrictSubsetOrdering(S), SUBSET S)
    BY FS_StrictSubsetOrderingWellFounded, FS_FiniteSubsetsOfFinite
  <1>2. \E s \in B : \A t \in B : ~(<<t, s>> \in StrictSubsetOrdering(S))
    BY <1>1, WFMin
  <1> QED
    BY <1>2 DEF StrictSubsetOrdering

\* h sums up the credit of the rows of each subset of S.
Additive(h, table, S) ==
  /\ \A x \in S : table[x].credit \in Int
  /\ h \in [SUBSET S -> Int]
  /\ h[{}] = 0
  /\ \A s \in SUBSET S : \A x \in s : h[s] = table[x].credit + h[s \ {x}]

LEMMA SumsExtend ==
  ASSUME NEW table, NEW S, NEW x, table[x].credit \in Int, x \notin S,
         NEW h, Additive(h, table, S)
  PROVE  \E g : Additive(g, table, S \cup {x})
  <1> DEFINE T == S \cup {x}
             g == [s \in SUBSET T |-> IF x \in s THEN table[x].credit + h[s \ {x}] ELSE h[s]]
  <1>1. \A s \in SUBSET T : s \ {x} \in SUBSET S
    OBVIOUS
  <1>2. \A s \in SUBSET T : x \notin s => s \in SUBSET S
    OBVIOUS
  <1>3. g \in [SUBSET T -> Int]
    BY <1>1, <1>2 DEF Additive
  <1>4. g[{}] = 0
    BY DEF Additive
  <1>5. ASSUME NEW s \in SUBSET T, NEW y \in s PROVE g[s] = table[y].credit + g[s \ {y}]
    <2>1. s \ {y} \in SUBSET T
      OBVIOUS
    <2>2. CASE y = x
      <3>1. g[s] = table[x].credit + h[s \ {x}]
        BY <2>2
      <3>2. g[s \ {y}] = h[s \ {x}]
        BY <2>1, <2>2
      <3> QED
        BY <2>2, <3>1, <3>2
    <2>3. CASE y # x /\ x \in s
      <3>1. g[s] = table[x].credit + h[s \ {x}]
        BY <2>3
      <3>2. g[s \ {y}] = table[x].credit + h[(s \ {y}) \ {x}]
        BY <2>1, <2>3
      <3>3. y \in s \ {x} /\ s \ {x} \in SUBSET S
        BY <1>1, <2>3
      <3>4. h[s \ {x}] = table[y].credit + h[(s \ {x}) \ {y}]
        BY <3>3 DEF Additive
      <3>5. (s \ {x}) \ {y} = (s \ {y}) \ {x}
        OBVIOUS
      <3>6. /\ h[s \ {x}] \in Int /\ h[(s \ {x}) \ {y}] \in Int
        BY <3>3 DEF Additive
      <3>7. g[s] = table[x].credit + (table[y].credit + h[(s \ {x}) \ {y}])
        BY <3>1, <3>4
      <3>8. g[s \ {y}] = table[x].credit + h[(s \ {x}) \ {y}]
        BY <3>2, <3>5
      <3>9. table[y].credit \in Int
        BY <3>3 DEF Additive
      <3> QED
        BY <3>6, <3>7, <3>8, <3>9
    <2>4. CASE x \notin s
      <3>1. g[s] = h[s] /\ g[s \ {y}] = h[s \ {y}] /\ s \in SUBSET S
        BY <1>2, <2>1, <2>4
      <3> QED
        BY <3>1 DEF Additive
    <2> QED
      BY <2>2, <2>3, <2>4
  <1>6. \A y \in T : table[y].credit \in Int
    BY DEF Additive
  <1> HIDE DEF g
  <1> QED
    BY <1>3, <1>4, <1>5, <1>6 DEF Additive

\* There is such a function,
LEMMA SumsExist ==
  ASSUME NEW table, NEW S, IsFiniteSet(S), \A x \in S : table[x].credit \in Int
  PROVE  \E h : Additive(h, table, S)
  <1> DEFINE B == {s \in SUBSET S : ~ \E h : Additive(h, table, s)}
  <1> SUFFICES ASSUME B # {} PROVE FALSE
    OBVIOUS
  <1>0. B \in SUBSET (SUBSET S)
    OBVIOUS
  <1> HIDE DEF B
  <1>1. PICK s \in B : \A t \in B : t \subseteq s => t = s
    BY <1>0, SmallestSet
  <1> USE DEF B
  <1>2. CASE s = {}
    <2> DEFINE h == [t \in SUBSET {} |-> 0]
    <2>1. Additive(h, table, {})
      BY DEF Additive
    <2> QED
      BY <1>2, <2>1
  <1>3. CASE s # {}
    <2>1. PICK x : x \in s
      BY <1>3
    <2>2. s \ {x} \in SUBSET S /\ s \ {x} \notin B
      BY <1>1, <2>1
    <2>3. PICK h : Additive(h, table, s \ {x})
      BY <2>2
    <2>4. \E g : Additive(g, table, (s \ {x}) \cup {x})
      BY <2>1, <2>3, SumsExtend
    <2>5. (s \ {x}) \cup {x} = s
      BY <2>1
    <2> QED
      BY <2>4, <2>5
  <1> QED
    BY <1>2, <1>3

\* and the fold of MapThenSumSet, whatever order it chooses, is its value.
LEMMA SumIsAdditive ==
  ASSUME NEW table, NEW S, IsFiniteSet(S), NEW h, Additive(h, table, S)
  PROVE  Entered(table, S) = h[S]
  <1> DEFINE Pick(s) == CHOOSE x \in s : TRUE
             Steps(f) == [s \in SUBSET S |->
                            IF s = {} THEN 0 ELSE table[Pick(s)].credit + f[s \ {Pick(s)}]]
  <1>1. PICK it : it = (CHOOSE f : f = Steps(f)) /\ Entered(table, S) = it[S]
    BY DEF Entered, MapThenSumSet, MapThenFoldSet
  <1>2. \A s \in SUBSET S : s # {} => Pick(s) \in s
    OBVIOUS
  <1>3. h = Steps(h)
    BY <1>2 DEF Additive
  <1>4. it = Steps(it)
    <2> HIDE DEF Steps
    <2>1. \E f : f = Steps(f)
      BY <1>3
    <2> QED
      BY <1>1, <2>1
  <1>5. it[{}] = 0 /\ \A s \in SUBSET S : s # {} => it[s] = table[Pick(s)].credit + it[s \ {Pick(s)}]
    BY <1>4
  <1> HIDE DEF Pick
  <1> DEFINE B == {s \in SUBSET S : it[s] # h[s]}
  <1>6. B = {}
    <2> SUFFICES ASSUME B # {} PROVE FALSE
      OBVIOUS
    <2>0. B \in SUBSET (SUBSET S)
      OBVIOUS
    <2> HIDE DEF B
    <2>1. PICK s \in B : \A t \in B : t \subseteq s => t = s
      BY <2>0, SmallestSet
    <2> USE DEF B
    <2>2. s # {}
      BY <1>5, <2>1 DEF Additive
    <2>3. Pick(s) \in s /\ s \ {Pick(s)} \in SUBSET S /\ s \ {Pick(s)} # s
      BY <1>2, <2>2
    <2>4. it[s \ {Pick(s)}] = h[s \ {Pick(s)}]
      BY <2>1, <2>3
    <2>5. h[s] = table[Pick(s)].credit + h[s \ {Pick(s)}]
      BY <2>3 DEF Additive
    <2> QED
      BY <1>5, <2>1, <2>2, <2>4, <2>5
  <1> QED
    BY <1>1, <1>6

\* Rows whose credit can be summed up.
Summable(table, S) == IsFiniteSet(S) /\ \A x \in S : table[x].credit \in Int

LEMMA SumType == ASSUME NEW table, NEW S, Summable(table, S) PROVE Entered(table, S) \in Int
  <1>1. PICK h : Additive(h, table, S)
    BY SumsExist DEF Summable
  <1>2. Entered(table, S) = h[S]
    BY <1>1, SumIsAdditive DEF Summable
  <1> QED
    BY <1>1, <1>2 DEF Additive

LEMMA SumEmpty == \A table : Entered(table, {}) = 0
  <1> SUFFICES ASSUME NEW table PROVE Entered(table, {}) = 0
    OBVIOUS
  <1>1. IsFiniteSet({})
    BY FS_EmptySet
  <1>2. PICK h : Additive(h, table, {})
    BY <1>1, SumsExist
  <1> QED
    BY <1>1, <1>2, SumIsAdditive DEF Additive

LEMMA SumAdd ==
  ASSUME NEW table, NEW S, NEW x, x \notin S, Summable(table, S), table[x].credit \in Int
  PROVE  Entered(table, S \cup {x}) = Entered(table, S) + table[x].credit
  <1> DEFINE T == S \cup {x}
  <1>1. IsFiniteSet(S) /\ IsFiniteSet(T) /\ \A y \in T : table[y].credit \in Int
    BY FS_AddElement DEF Summable
  <1>2. PICK h : Additive(h, table, T)
    BY <1>1, SumsExist
  <1>3. PICK g : g = [s \in SUBSET S |-> h[s]]
    OBVIOUS
  <1>4. Additive(g, table, S)
    BY <1>2, <1>3 DEF Additive
  <1>5. Entered(table, T) = h[T] /\ Entered(table, S) = g[S]
    BY <1>1, <1>2, <1>4, SumIsAdditive
  <1>6. h[T] = table[x].credit + h[T \ {x}] /\ h[T \ {x}] \in Int
    BY <1>2 DEF Additive
  <1>7. T \ {x} = S /\ g[S] = h[S]
    BY <1>3
  <1>8. Entered(table, T) = table[x].credit + Entered(table, S) /\ Entered(table, S) \in Int
    BY <1>5, <1>6, <1>7
  <1> HIDE DEF T
  <1>9. Entered(table, T) = Entered(table, S) + table[x].credit
    BY <1>8
  <1> QED
    BY <1>9 DEF T

\* A sum depends on the rows it is over alone.
LEMMA SumAgrees ==
  ASSUME NEW table, NEW other, NEW S, Summable(table, S), \A x \in S : other[x] = table[x]
  PROVE  Entered(other, S) = Entered(table, S)
  <1>1. PICK h : Additive(h, table, S)
    BY SumsExist DEF Summable
  <1>2. Additive(h, other, S)
    BY <1>1 DEF Additive
  <1> QED
    BY <1>1, <1>2, SumIsAdditive DEF Summable

LEMMA SumUnion ==
  ASSUME NEW table, NEW S, NEW T, S \cap T = {}, Summable(table, S), Summable(table, T)
  PROVE  Entered(table, S \cup T) = Entered(table, S) + Entered(table, T)
  <1> DEFINE B == {t \in SUBSET T : Entered(table, S \cup t) # Entered(table, S) + Entered(table, t)}
  <1> SUFFICES ASSUME B # {} PROVE FALSE
    OBVIOUS
  <1>1. B \in SUBSET (SUBSET T) /\ IsFiniteSet(T)
    BY DEF Summable
  <1> HIDE DEF B
  <1>2. PICK t \in B : \A o \in B : o \subseteq t => o = t
    BY <1>1, SmallestSet
  <1> USE DEF B
  <1>3. Entered(table, S) \in Int
    BY SumType
  <1>4. t # {}
    <2>1. S \cup {} = S
      OBVIOUS
    <2>2. Entered(table, {}) = 0
      BY SumEmpty
    <2>3. Entered(table, S \cup {}) = Entered(table, S) + Entered(table, {})
      BY <1>3, <2>1, <2>2
    <2> QED
      BY <1>2, <2>3
  <1>5. PICK x : x \in t
    BY <1>4
  <1> DEFINE o == t \ {x}
  <1>6. /\ o \in SUBSET T /\ o \notin B /\ x \notin o /\ x \notin S \cup o
        /\ o \cup {x} = t /\ (S \cup o) \cup {x} = S \cup t
    BY <1>2, <1>5
  <1>7. IsFiniteSet(o) /\ IsFiniteSet(S \cup o)
    BY <1>1, <1>6, FS_Subset, FS_Union DEF Summable
  <1>8. Summable(table, o) /\ Summable(table, S \cup o) /\ table[x].credit \in Int
    BY <1>5, <1>6, <1>7 DEF Summable
  <1>9. /\ Entered(table, t) = Entered(table, o) + table[x].credit
        /\ Entered(table, S \cup t) = Entered(table, S \cup o) + table[x].credit
    BY <1>6, <1>8, SumAdd
  <1>10. Entered(table, S \cup o) = Entered(table, S) + Entered(table, o)
    BY <1>6
  <1>11. Entered(table, o) \in Int
    BY <1>8, SumType
  <1>12. Entered(table, S \cup t) = Entered(table, S) + Entered(table, t)
    BY <1>3, <1>8, <1>9, <1>10, <1>11
  <1> QED
    BY <1>2, <1>12

LEMMA SumPositive ==
  ASSUME NEW table, NEW S, Summable(table, S), \A x \in S : table[x].credit >= 0
  PROVE  Entered(table, S) >= 0
  <1> DEFINE B == {s \in SUBSET S : ~ Entered(table, s) >= 0}
  <1> SUFFICES ASSUME B # {} PROVE FALSE
    OBVIOUS
  <1>1. B \in SUBSET (SUBSET S) /\ IsFiniteSet(S)
    BY DEF Summable
  <1> HIDE DEF B
  <1>2. PICK s \in B : \A t \in B : t \subseteq s => t = s
    BY <1>1, SmallestSet
  <1> USE DEF B
  <1>3. s # {}
    <2>1. Entered(table, {}) >= 0
      BY SumEmpty
    <2> QED
      BY <1>2, <2>1
  <1>4. PICK x : x \in s
    BY <1>3
  <1> DEFINE t == s \ {x}
  <1>5. t \in SUBSET S /\ t \notin B /\ x \notin t /\ t \cup {x} = s
    BY <1>2, <1>4
  <1>6. Summable(table, t) /\ table[x].credit \in Int /\ table[x].credit >= 0
    BY <1>1, <1>2, <1>4, FS_Subset DEF Summable
  <1>7. Entered(table, s) = Entered(table, t) + table[x].credit
    BY <1>5, <1>6, SumAdd
  <1>8. Entered(table, t) \in Int /\ Entered(table, t) >= 0
    BY <1>5, <1>6, SumType
  <1>9. Entered(table, s) >= 0
    BY <1>6, <1>7, <1>8
  <1> QED
    BY <1>2, <1>9

-----------------------------------------------------------------------------
(* Types: a balance is an integer because it is a sum of integers.         *)

LEMMA CreditsSum ==
  ASSUME TypeOK, NEW S \in SUBSET Redeemed
  PROVE  Summable(redemption, S)
  <1>1. IsFiniteSet(S)
    BY RedemptionsAssumption, FS_Subset DEF Redeemed
  <1>2. \A r \in Redeemed : redemption[r] \in Redemption
    BY DEF TypeOK, Redeemed
  <1>3. \A r \in S : redemption[r].credit \in Int
    BY <1>2 DEF Redemption
  <1> QED
    BY <1>1, <1>3 DEF Summable

LEMMA BalanceType ==
  ASSUME TypeOK, NEW u PROVE Balance(u) \in Int /\ Ledger(u) \in Int /\ Expired(u) \in Int
  <1>1. \A S \in SUBSET Redeemed : Entered(redemption, S) \in Int
    BY CreditsSum, SumType
  <1> QED
    BY <1>1 DEF Balance, Ledger, Expired

LEMMA UseTypes ==
  ASSUME TypeOK, NEW v \in Codes, NEW user \in Users, NEW booking \in Bookings \cup {None},
         NEW credit \in Int, code[v] # NoRow, Used(v, user, booking, credit)
  PROVE  /\ code' \in [Codes -> Voucher \cup {NoRow}]
         /\ redemption' \in [Redemptions -> Redemption \cup {NoRow}]
  <1>1. PICK r \in Redemptions, row \in {[code |-> v, user |-> user, booking |-> booking,
                                          credit |-> credit]} :
          /\ redemption' = [redemption EXCEPT ![r] = row]
          /\ code' = [code EXCEPT ![v].count = @ + 1]
    BY DEF Used
  <1>2. row \in Redemption
    BY <1>1 DEF Redemption
  <1>3. code[v] \in Voucher
    BY DEF TypeOK
  <1>4. [code[v] EXCEPT !.count = @ + 1] \in Voucher
    BY <1>3 DEF Voucher
  <1> QED
    BY <1>1, <1>2, <1>4 DEF TypeOK

LEMMA IntentTypes ==
  ASSUME TypeOK, NEW b \in Bookings, NEW r \in Redemptions \cup {None}, NEW discount \in Int,
         Intent(b, r, discount)
  PROVE  payment' \in [Payments -> Payment \cup {NoRow}]
  <1>1. PICK p \in Payments, status \in {"requires_action", "pending"} :
          payment' = [payment EXCEPT ![p] = [booking |-> b, redemption |-> r,
                                            discount |-> discount, status |-> status]]
    BY DEF Intent
  <1>2. [booking |-> b, redemption |-> r, discount |-> discount, status |-> status] \in Payment
    BY DEF Payment
  <1> QED
    BY <1>1, <1>2 DEF TypeOK

LEMMA RequestTypes ==
  ASSUME TypeOK, NEW h \in Handlers, NEW record \in Request \cup {Idle},
         req' = [req EXCEPT ![h] = record], UNCHANGED <<code, redemption, payment>>
  PROVE  TypeOK'
  BY DEF TypeOK

LEMMA StepTypes == \A h \in Handlers : IInv /\ TypeOK /\ Step(h) => TypeOK'
  <1> SUFFICES ASSUME NEW h \in Handlers, IInv, TypeOK, Step(h) PROVE TypeOK'
    OBVIOUS
  <1>1. CASE RedeemRead(h)
    <2>1. PICK u \in Users, v \in Codes, b \in Bookings \cup {None} :
            req' = [req EXCEPT ![h] = [op |-> "redeem", code |-> v, user |-> u, booking |-> b]]
      BY <1>1 DEF RedeemRead
    <2>2. [op |-> "redeem", code |-> v, user |-> u, booking |-> b] \in Request
      BY DEF Request
    <2> QED
      BY <1>1, <2>1, <2>2, RequestTypes DEF RedeemRead
  <1>2. CASE RedeemCommit(h)
    <2>1. req[h] \in [op : {"redeem"}, code : Codes, user : Users, booking : Bookings \cup {None}]
      BY <1>2 DEF RedeemCommit, TypeOK, Request, Idle
    <2>2. PICK v, user, booking, credit :
            /\ v = req[h].code /\ user = req[h].user /\ booking = req[h].booking
            /\ credit = (IF code[v].kind = "credit" THEN Worth[v] ELSE 0)
            /\ Used(v, user, booking, credit)
      BY <1>2 DEF RedeemCommit
    <2>3. v \in Codes /\ user \in Users /\ booking \in Bookings \cup {None} /\ code[v] # NoRow
      BY <2>1, <2>2 DEF IInv, RequestsAreTyped
    <2>4. credit \in Int
      BY <2>2, <2>3, WorthAssumption
    <2> QED
      BY <1>2, <2>2, <2>3, <2>4, UseTypes DEF RedeemCommit, Finish, TypeOK
  <1>3. CASE PayRead(h)
    <2>1. PICK b \in Bookings, v \in Codes :
            req' = [req EXCEPT ![h] =
                      IF code[v].kind = "credit"
                      THEN [op |-> "balance", code |-> v, booking |-> b]
                      ELSE [op |-> "pay", code |-> v, booking |-> b, discount |-> Worth[v]]]
      BY <1>3 DEF PayRead
    <2>2. PICK record : /\ req' = [req EXCEPT ![h] = record]
                        /\ \/ record = [op |-> "balance", code |-> v, booking |-> b]
                           \/ record = [op |-> "pay", code |-> v, booking |-> b,
                                        discount |-> Worth[v]]
      BY <2>1
    <2>3. record \in Request
      BY <2>2, WorthAssumption DEF Request
    <2> QED
      BY <1>3, <2>2, <2>3, RequestTypes DEF PayRead
  <1>4. CASE PayBalance(h)
    <2>1. req[h] \in [op : {"balance"}, code : Codes, booking : Bookings]
      BY <1>4 DEF PayBalance, TypeOK, Request, Idle
    <2>2. CreditUsed(req[h].booking) \in Int
      <3>1. Price[req[h].booking] \in Int /\ Balance(Customer[req[h].booking]) \in Int
        BY <2>1, BalanceType, BookingsAssumption
      <3> QED
        BY <3>1 DEF CreditUsed, Least
    <2>3. [op |-> "pay", code |-> req[h].code, booking |-> req[h].booking,
           discount |-> CreditUsed(req[h].booking)] \in Request
      BY <2>1, <2>2 DEF Request
    <2> QED
      BY <1>4, <2>3, RequestTypes DEF PayBalance
  <1>5. CASE PayCommit(h)
    <2> DEFINE v == req[h].code
               b == req[h].booking
               discount == req[h].discount
    <2>1. req[h] \in [op : {"pay"}, code : Codes, booking : Bookings, discount : Int]
      BY <1>5 DEF PayCommit, TypeOK, Request, Idle
    <2>2. /\ Used(v, Customer[b], b, LedgerEntry(v, b, discount))
          /\ \E r \in Redemptions : Intent(b, r, Least(discount, Price[b]))
          /\ Finish(h)
      BY <1>5 DEF PayCommit
    <2>3. v \in Codes /\ b \in Bookings /\ discount \in Int /\ code[v] # NoRow
      BY <2>1 DEF IInv, RequestsAreTyped
    <2>4. Customer[b] \in Users /\ Price[b] \in Int
      BY <2>3, BookingsAssumption
    <2>5. LedgerEntry(v, b, discount) \in Int /\ Least(discount, Price[b]) \in Int
      BY <2>3, <2>4 DEF LedgerEntry, Least
    <2> HIDE DEF v, b, discount
    <2>6. /\ code' \in [Codes -> Voucher \cup {NoRow}]
          /\ redemption' \in [Redemptions -> Redemption \cup {NoRow}]
      BY <2>2, <2>3, <2>4, <2>5, UseTypes
    <2>7. payment' \in [Payments -> Payment \cup {NoRow}]
      BY <2>2, <2>3, <2>5, IntentTypes
    <2> QED
      BY <2>2, <2>6, <2>7 DEF Finish, TypeOK
  <1>6. CASE Abandon(h)
    BY <1>6, RequestTypes DEF Abandon, Finish
  <1> QED
    BY <1>1, <1>2, <1>3, <1>4, <1>5, <1>6 DEF Step

LEMMA NextTypes == IInv /\ TypeOK /\ [Next]_vars => TypeOK'
  <1> SUFFICES ASSUME IInv, TypeOK, [Next]_vars PROVE TypeOK'
    OBVIOUS
  <1>1. CASE UNCHANGED vars
    BY <1>1 DEF vars, TypeOK
  <1>2. ASSUME NEW h \in Handlers, Step(h) PROVE TypeOK'
    BY <1>2, StepTypes
  <1>3. ASSUME NEW v \in Codes, Generate(v) \/ Revoke(v) \/ Time(v) PROVE TypeOK'
    <2>1. UNCHANGED <<redemption, payment, req>>
      BY <1>3 DEF Generate, Revoke, Time
    <2>2. IInv'
      BY <1>3, CodesKeep
    <2> QED
      BY <2>1, <2>2 DEF TypeOK, IInv, RowsAreTyped
  <1>4. ASSUME NEW b \in Bookings, PayPlain(b) PROVE TypeOK'
    BY <1>4, IntentTypes DEF PayPlain, TypeOK
  <1>5. ASSUME NEW p \in Payments, NEW status \in {"paid", "failed", "cancelled"},
               Webhook(p, status)
        PROVE  TypeOK'
    <2>1. payment[p] \in Payment
      BY <1>5 DEF Webhook, TypeOK
    <2>2. [payment[p] EXCEPT !.status = status] \in Payment
      BY <2>1 DEF Payment
    <2> QED
      BY <1>5, <2>2 DEF Webhook, TypeOK
  <1> QED
    BY <1>1, <1>2, <1>3, <1>4, <1>5 DEF Next

LEMMA InitTypes == Init => TypeOK
  BY DEF Init, TypeOK

-----------------------------------------------------------------------------
(* How far n handlers that pay at once can overdraw the ledger.            *)

\* Handlers about to take credit of user u.
Spenders(u) ==
  {h \in Handlers : /\ req[h].op = "pay" /\ code[req[h].code].kind = "credit"
                    /\ req[h].discount > 0 /\ Customer[req[h].booking] = u}

\* The credit k bookings can take.
Room(k) == k * MaxPrice

\* The last of the handlers in flight to have read the balance read enough of
\* it: only those that commit before it can overdraw what it takes.
Backed(u, n) ==
  /\ Spenders(u) = {} => Ledger(u) >= -Room(n - 1)
  /\ Spenders(u) # {} =>
       \E h \in Spenders(u) : Ledger(u) - req[h].discount >= -Room(n - Cardinality(Spenders(u)))

\* What a handler is to add to a price, or a payment has added, is explained by
\* credit that expired and by an overdraft.
Explained(discount, b, n) == -discount <= Expired(Customer[b]) + Room(n - 1)

Overdrawn(n) ==
  /\ \A u \in Users : Backed(u, n)
  /\ \A h \in Handlers : req[h].op = "pay" => Explained(req[h].discount, req[h].booking, n)
  /\ \A p \in Payments : payment[p] # NoRow => Explained(payment[p].discount, payment[p].booking, n)

LEMMA Prices == MaxPrice \in Nat /\ \A b \in Bookings : Price[b] \in Nat /\ Price[b] <= MaxPrice
  <1>1. \A b \in Bookings : Price[b] \in Nat
    BY BookingsAssumption
  <1> DEFINE Dearest(s, b) == b \in s /\ \A a \in s : Price[a] <= Price[b]
             B == {s \in SUBSET Bookings : s # {} /\ ~ \E b : Dearest(s, b)}
  <1>2. B = {}
    <2> SUFFICES ASSUME B # {} PROVE FALSE
      OBVIOUS
    <2>0. B \in SUBSET (SUBSET Bookings)
      OBVIOUS
    <2> HIDE DEF B
    <2>1. PICK s \in B : \A t \in B : t \subseteq s => t = s
      BY <2>0, BookingsAssumption, SmallestSet
    <2> USE DEF B
    <2>2. PICK x : x \in s
      BY <2>1
    <2> DEFINE t == s \ {x}
    <2>3. t \in SUBSET Bookings /\ t \notin B /\ x \in Bookings
      BY <2>1, <2>2
    <2>4. CASE t = {}
      <3>1. Dearest(s, x)
        BY <1>1, <2>2, <2>3, <2>4
      <3> QED
        BY <2>1, <3>1
    <2>5. CASE t # {}
      <3>1. PICK b : Dearest(t, b)
        BY <2>3, <2>5
      <3>2. \A a \in s : a = x \/ Price[a] <= Price[b]
        BY <3>1
      <3>3. Dearest(s, b) \/ Dearest(s, x)
        BY <1>1, <2>1, <2>2, <2>3, <3>1, <3>2
      <3> QED
        BY <2>1, <3>3
    <2> QED
      BY <2>4, <2>5
  <1>3. PICK b : Dearest(Bookings, b)
    BY <1>2, BookingsAssumption
  <1>4. \E x \in {Price[a] : a \in Bookings} : \A y \in {Price[a] : a \in Bookings} : x >= y
    BY <1>1, <1>3
  <1>5. /\ MaxPrice \in {Price[a] : a \in Bookings}
        /\ \A y \in {Price[a] : a \in Bookings} : MaxPrice >= y
    BY <1>4 DEF MaxPrice, Max
  <1> QED
    BY <1>1, <1>5

LEMMA Rooms ==
  /\ \A k \in Nat : Room(k) \in Nat /\ Room(k + 1) = Room(k) + MaxPrice
  /\ \A k, l \in Nat : k <= l => Room(k) <= Room(l)
  <1>1. ASSUME NEW k \in Nat PROVE Room(k) \in Nat /\ Room(k + 1) = Room(k) + MaxPrice
    BY Prices DEF Room
  <1>2. ASSUME NEW k \in Nat, NEW l \in Nat, k <= l PROVE Room(k) <= Room(l)
    <2>1. PICK m \in Nat : l = k + m
      <3>1. l - k \in Nat /\ l = k + (l - k)
        BY <1>2
      <3> QED
        BY <3>1
    <2>2. (k + m) * MaxPrice = k * MaxPrice + m * MaxPrice /\ m * MaxPrice \in Nat
      BY Prices
    <2>3. k * MaxPrice \in Nat
      BY Prices
    <2> QED
      BY <2>1, <2>2, <2>3 DEF Room
  <1> QED
    BY <1>1, <1>2

LEMMA SumZero ==
  ASSUME NEW table, NEW S, IsFiniteSet(S), \A x \in S : table[x].credit = 0
  PROVE  Entered(table, S) = 0
  <1> DEFINE h == [s \in SUBSET S |-> 0]
  <1>1. \A x \in S : table[x].credit \in Int
    OBVIOUS
  <1>2. \A s \in SUBSET S : \A x \in s : h[s] = table[x].credit + h[s \ {x}]
    OBVIOUS
  <1>3. h \in [SUBSET S -> Int] /\ h[{}] = 0 /\ h[S] = 0
    OBVIOUS
  <1> HIDE DEF h
  <1>4. Additive(h, table, S)
    BY <1>1, <1>2, <1>3 DEF Additive
  <1> QED
    BY <1>3, <1>4, SumIsAdditive

\* The balance is what is left of the ledger without credit that expired.
LEMMA BalanceAndLedger ==
  ASSUME TypeOK, NEW u
  PROVE  /\ Expired(u) >= 0
         /\ Ledger(u) = Balance(u) + Expired(u)
  <1> DEFINE R == {r \in Redeemed : redemption[r].user = u}
             A == {r \in Redeemed : redemption[r].user = u /\ Counts(r)}
             X == {r \in Redeemed : /\ redemption[r].user = u /\ redemption[r].credit > 0
                                    /\ code[redemption[r].code].life = "over"}
             Z == R \ (A \cup X)
  <1>1. \A r \in Redeemed : redemption[r].credit \in Int
    <2>1. \A r \in Redeemed : redemption[r] \in Redemption
      BY DEF TypeOK, Redeemed
    <2> QED
      BY <2>1 DEF Redemption
  <1>2. R \in SUBSET Redeemed /\ A \in SUBSET Redeemed /\ X \in SUBSET Redeemed
        /\ Z \in SUBSET Redeemed /\ A \cup X \in SUBSET Redeemed
    OBVIOUS
  <1>3. A \cap X = {} /\ (A \cup X) \cap Z = {} /\ (A \cup X) \cup Z = R
    BY <1>1 DEF Counts
  <1>4. \A r \in Z : redemption[r].credit = 0
    BY <1>1 DEF Counts
  <1>5. /\ Balance(u) = Entered(redemption, A) /\ Expired(u) = Entered(redemption, X)
        /\ Ledger(u) = Entered(redemption, R)
    BY DEF Balance, Expired, Ledger
  <1>6. \A r \in X : redemption[r].credit >= 0
    BY <1>1
  <1> HIDE DEF R, A, X, Z
  <1>7. /\ Summable(redemption, A) /\ Summable(redemption, X)
        /\ Summable(redemption, A \cup X) /\ Summable(redemption, Z)
    BY <1>2, CreditsSum
  <1>8. Entered(redemption, A \cup X) = Entered(redemption, A) + Entered(redemption, X)
    BY <1>3, <1>7, SumUnion
  <1>9. Entered(redemption, R) = Entered(redemption, A \cup X) + Entered(redemption, Z)
    BY <1>3, <1>7, SumUnion
  <1>10. Entered(redemption, Z) = 0
    BY <1>4, <1>7, SumZero DEF Summable
  <1>11. Entered(redemption, X) >= 0
    BY <1>6, <1>7, SumPositive
  <1>12. Entered(redemption, A \cup X) \in Int
    BY <1>7, SumType
  <1> QED
    BY <1>5, <1>8, <1>9, <1>10, <1>11, <1>12

\* Rows are not written again, and what expired stays so.
RowsStay ==
  /\ \A r \in Redeemed : r \in Redeemed' /\ redemption'[r] = redemption[r]
  /\ \A v \in Codes : code[v] # NoRow /\ code[v].life = "over" => code'[v].life = "over"

LEMMA ExpiredGrows ==
  ASSUME IInv, TypeOK, TypeOK', RowsStay, NEW u
  PROVE  Expired(u) <= Expired(u)'
  <1> DEFINE X == {r \in Redeemed : /\ redemption[r].user = u /\ redemption[r].credit > 0
                                    /\ code[redemption[r].code].life = "over"}
             Y == {r \in Redeemed' : /\ redemption'[r].user = u /\ redemption'[r].credit > 0
                                     /\ code'[redemption'[r].code].life = "over"}
             Z == Y \ X
  <1>1. X \in SUBSET Y /\ X \cup Z = Y /\ X \cap Z = {}
    BY DEF RowsStay, IInv, RowsAreTyped
  <1>2. Expired(u) = Entered(redemption, X) /\ Expired(u)' = Entered(redemption', Y)
    BY DEF Expired
  <1>3. X \in SUBSET Redeemed /\ Y \in SUBSET Redeemed'
    OBVIOUS
  <1>4. \A r \in X : redemption'[r] = redemption[r]
    BY DEF RowsStay
  <1>5. \A r \in Y : redemption'[r].credit > 0 /\ redemption'[r].credit \in Int
    <2>1. \A r \in Redeemed' : redemption'[r] \in Redemption
      BY DEF TypeOK, Redeemed
    <2> QED
      BY <2>1 DEF Redemption
  <1>6. IsFiniteSet(Y)
    BY <1>3, RedemptionsAssumption, FS_Subset DEF Redeemed
  <1> HIDE DEF X, Y
  <1>7. Summable(redemption', X) /\ Summable(redemption', Z) /\ \A r \in Z : redemption'[r].credit >= 0
    <2>1. IsFiniteSet(X) /\ IsFiniteSet(Z)
      BY <1>1, <1>6, FS_Subset
    <2> QED
      BY <1>1, <1>5, <2>1 DEF Summable
  <1>8. Entered(redemption', Y) = Entered(redemption', X) + Entered(redemption', Z)
    BY <1>1, <1>7, SumUnion
  <1>9. Summable(redemption, X)
    BY <1>3, CreditsSum
  <1>10. Entered(redemption', X) = Entered(redemption, X) /\ Entered(redemption, X) \in Int
    BY <1>4, <1>9, SumAgrees, SumType
  <1>11. Entered(redemption', Z) >= 0 /\ Entered(redemption', Z) \in Int
    BY <1>7, SumPositive, SumType
  <1> QED
    BY <1>2, <1>8, <1>10, <1>11

LEMMA LedgerMoves ==
  ASSUME TypeOK, TypeOK', NEW r \in Redemptions \ Redeemed, NEW u,
         Redeemed' = Redeemed \cup {r},
         \A s \in Redemptions \ {r} : redemption'[s] = redemption[s]
  PROVE  /\ redemption'[r].credit \in Int
         /\ Ledger(u)' = IF redemption'[r].user = u THEN Ledger(u) + redemption'[r].credit
                         ELSE Ledger(u)
  <1> DEFINE R == {s \in Redeemed : redemption[s].user = u}
             Q == {s \in Redeemed' : redemption'[s].user = u}
  <1>1. Ledger(u) = Entered(redemption, R) /\ Ledger(u)' = Entered(redemption', Q)
    BY DEF Ledger
  <1>2. /\ R \in SUBSET Redeemed /\ r \notin R /\ \A s \in R : redemption'[s] = redemption[s]
        /\ Q = IF redemption'[r].user = u THEN R \cup {r} ELSE R
    BY DEF Redeemed
  <1>3. redemption'[r].credit \in Int
    <2>1. redemption'[r] \in Redemption
      BY DEF TypeOK, Redeemed
    <2> QED
      BY <2>1 DEF Redemption
  <1> HIDE DEF R, Q
  <1>4. Summable(redemption, R)
    BY <1>2, CreditsSum
  <1>5. Summable(redemption', R) /\ Entered(redemption', R) = Entered(redemption, R)
    <2>1. Entered(redemption', R) = Entered(redemption, R)
      BY <1>2, <1>4, SumAgrees
    <2>2. Summable(redemption', R)
      BY <1>2, <1>4 DEF Summable
    <2> QED
      BY <2>1, <2>2
  <1>6. Entered(redemption', R \cup {r}) = Entered(redemption', R) + redemption'[r].credit
    BY <1>2, <1>3, <1>5, SumAdd
  <1> QED
    BY <1>1, <1>2, <1>3, <1>5, <1>6

LEMMA SpendersFinite == \A u : IsFiniteSet(Spenders(u)) /\ Cardinality(Spenders(u)) \in Nat
  BY HandlersAssumption, FS_Subset, FS_CardinalityType DEF Spenders

\* What a spender takes is an amount a booking can cost.
LEMMA SpendersTake ==
  ASSUME LedgerInv, TypeOK, NEW u, NEW h \in Spenders(u)
  PROVE  req[h].discount \in Nat /\ req[h].discount > 0 /\ req[h].discount <= MaxPrice
  <1>1. h \in Handlers /\ req[h].op = "pay" /\ code[req[h].code].kind = "credit"
        /\ req[h].discount > 0
    BY DEF Spenders
  <1>2. req[h] \in [op : {"pay"}, code : Codes, booking : Bookings, discount : Int]
    BY <1>1 DEF TypeOK, Request, Idle
  <1>3. Least(req[h].discount, Price[req[h].booking]) = req[h].discount
    BY <1>1 DEF LedgerInv, PayersKnowTheirCredit
  <1>4. req[h].discount \in Int /\ req[h].booking \in Bookings
    BY <1>2
  <1>5. Price[req[h].booking] \in Nat /\ Price[req[h].booking] <= MaxPrice /\ MaxPrice \in Nat
    BY <1>4, Prices
  <1>6. req[h].discount <= Price[req[h].booking]
    BY <1>3, <1>4, <1>5 DEF Least
  <1> QED
    BY <1>1, <1>4, <1>5, <1>6

LEMMA LedgerTypes ==
  /\ TypeOK => \A u : Ledger(u) \in Int /\ Expired(u) \in Int
  /\ TypeOK' => \A u : Ledger(u)' \in Int /\ Expired(u)' \in Int
  <1>1. TypeOK => \A u : Ledger(u) \in Int /\ Expired(u) \in Int
    BY BalanceType
  <1>2. (TypeOK => \A u : Ledger(u) \in Int /\ Expired(u) \in Int)'
    BY <1>1, PTL
  <1> QED
    BY <1>1, <1>2

\* Handlers that end, and credit that is granted, overdraw nothing.
LEMMA BackedWithFewer ==
  ASSUME LedgerInv, TypeOK, TypeOK', NEW u, NEW n \in Nat \ {0}, Backed(u, n),
         Cardinality(Spenders(u)) <= n,
         Spenders(u)' \subseteq Spenders(u), Ledger(u) <= Ledger(u)',
         \A h \in Spenders(u)' : req'[h] = req[h]
  PROVE  Backed(u, n)'
  <1> DEFINE P == Spenders(u)
             Q == Spenders(u)'
             p == Cardinality(P)
             q == Cardinality(Q)
  <1>1. Ledger(u) \in Int /\ Ledger(u)' \in Int
    BY LedgerTypes
  <1>2. IsFiniteSet(P) /\ IsFiniteSet(Q) /\ p \in Nat /\ q \in Nat /\ q <= p /\ p <= n
    BY SpendersFinite, FS_Subset, FS_CardinalityType
  <1>3. \A h \in P : req[h].discount \in Nat /\ req[h].discount > 0 /\ req[h].discount <= MaxPrice
    BY SpendersTake
  <1>4. \A h \in Q : h \in P /\ req'[h].discount = req[h].discount
    OBVIOUS
  <1>5. n - 1 \in Nat /\ n - p \in Nat /\ n - q \in Nat
    BY <1>2
  <1>6. /\ Room(n - 1) \in Nat /\ Room(n - p) \in Nat /\ Room(n - q) \in Nat
        /\ Room(n - p) <= Room(n - q)
    BY <1>2, <1>5, Rooms
  <1>7. MaxPrice \in Nat
    BY Prices
  <1>8. CASE P = {}
    <2>1. Q = {}
      BY <1>8
    <2>2. Ledger(u) >= -Room(n - 1)
      BY <1>8 DEF Backed
    <2>3. Ledger(u)' >= -Room(n - 1)
      BY <1>1, <1>6, <2>2
    <2> QED
      BY <2>1, <2>3 DEF Backed, Room, MaxPrice
  <1>9. CASE P # {}
    <2>1. PICK g \in P : Ledger(u) - req[g].discount >= -Room(n - p)
      BY <1>9 DEF Backed
    <2>2. p >= 1
      BY <1>2, <1>9, FS_EmptySet
    <2>3. Room(n - p) <= Room(n - 1)
      <3>1. n - p <= n - 1
        BY <1>2, <2>2
      <3> QED
        BY <1>5, <3>1, Rooms
    <2>4. CASE Q = {}
      <3>1. Ledger(u)' >= -Room(n - 1)
        BY <1>1, <1>3, <1>6, <2>1, <2>3
      <3> QED
        BY <2>4, <3>1 DEF Backed, Room, MaxPrice
    <2>5. CASE Q # {}
      <3>1. \E h \in Q : Ledger(u)' - req'[h].discount >= -Room(n - q)
        <4>1. CASE g \in Q
          <5>1. Ledger(u)' - req'[g].discount >= -Room(n - q)
            BY <1>1, <1>3, <1>4, <1>6, <2>1, <4>1
          <5> QED
            BY <4>1, <5>1
        <4>2. CASE g \notin Q
          <5>1. PICK h : h \in Q
            BY <2>5
          <5>2. Q \in SUBSET (P \ {g})
            BY <4>2
          <5>3. Cardinality(P \ {g}) = p - 1 /\ IsFiniteSet(P \ {g})
            BY <1>2, <2>1, FS_RemoveElement
          <5>4. q <= p - 1
            BY <5>2, <5>3, FS_Subset
          <5>5. n - p + 1 \in Nat /\ n - p + 1 <= n - q
            BY <1>2, <1>5, <5>4
          <5>6. Room(n - p + 1) = Room(n - p) + MaxPrice /\ Room(n - p + 1) <= Room(n - q)
            BY <1>5, <5>5, Rooms
          <5>7. req'[h].discount \in Nat /\ req'[h].discount <= MaxPrice
            BY <1>3, <1>4, <5>1
          <5>8. req[g].discount \in Nat
            BY <1>3, <2>1
          <5>9. Ledger(u)' - req'[h].discount >= -Room(n - q)
            BY <1>1, <1>6, <1>7, <2>1, <5>6, <5>7, <5>8
          <5> QED
            BY <5>1, <5>9
        <4> QED
          BY <4>1, <4>2
      <3> QED
        BY <2>5, <3>1 DEF Backed, Room, MaxPrice
    <2> QED
      BY <2>4, <2>5
  <1> QED
    BY <1>8, <1>9

\* A handler that has read the balance takes no more than the ledger holds.
LEMMA BackedByReader ==
  ASSUME LedgerInv, TypeOK, TypeOK', NEW u, NEW n \in Nat \ {0}, NEW h \in Spenders(u)',
         Cardinality(Spenders(u)') <= n, Ledger(u)' = Ledger(u),
         req'[h].discount \in Int, req'[h].discount <= Ledger(u)
  PROVE  Backed(u, n)'
  <1> DEFINE q == Cardinality(Spenders(u)')
  <1>1. IsFiniteSet(Spenders(u)') /\ q \in Nat
    <2>1. Spenders(u)' \in SUBSET Handlers
      BY DEF Spenders
    <2> QED
      BY <2>1, HandlersAssumption, FS_Subset, FS_CardinalityType
  <1>2. Room(n - q) \in Nat
    <2>1. n - q \in Nat
      BY <1>1
    <2> QED
      BY <2>1, Rooms
  <1>3. Ledger(u)' - req'[h].discount >= -Room(n - q)
    BY <1>2, LedgerTypes
  <1> QED
    BY <1>3 DEF Backed, Room, MaxPrice

\* A handler that takes its credit leaves the others less by no more than a price.
LEMMA BackedByPayer ==
  ASSUME LedgerInv, TypeOK, TypeOK', NEW u, NEW n \in Nat \ {0}, Backed(u, n),
         Cardinality(Spenders(u)) <= n, NEW h \in Spenders(u),
         Spenders(u)' = Spenders(u) \ {h}, Ledger(u)' = Ledger(u) - req[h].discount,
         \A g \in Spenders(u)' : req'[g] = req[g]
  PROVE  Backed(u, n)'
  <1> DEFINE P == Spenders(u)
             Q == Spenders(u)'
             p == Cardinality(P)
             q == Cardinality(Q)
  <1>1. Ledger(u) \in Int /\ Ledger(u)' \in Int /\ MaxPrice \in Nat
    BY LedgerTypes, Prices
  <1>2. \A g \in P : req[g].discount \in Nat /\ req[g].discount <= MaxPrice
    BY SpendersTake
  <1>3. p \in Nat /\ q \in Nat /\ q = p - 1
    <2>1. IsFiniteSet(P) /\ p \in Nat
      BY SpendersFinite
    <2>2. IsFiniteSet(Q) /\ q = p - 1
      BY <2>1, FS_RemoveElement
    <2>3. q \in Nat
      BY <2>2, FS_CardinalityType
    <2> QED
      BY <2>1, <2>2, <2>3
  <1>4. /\ n - p \in Nat /\ n - q = n - p + 1 /\ n - 1 \in Nat
    BY <1>3
  <1>5. Room(n - p) \in Nat /\ Room(n - q) = Room(n - p) + MaxPrice
    BY <1>4, Rooms
  <1>6. PICK g \in P : Ledger(u) - req[g].discount >= -Room(n - p)
    BY DEF Backed
  <1>7. req[g].discount \in Nat /\ req[h].discount \in Nat /\ req[h].discount <= MaxPrice
    BY <1>2
  <1>8. CASE Q = {}
    <2>1. g = h /\ P = {h}
      BY <1>8
    <2>2. p = 1
      BY <2>1, FS_Singleton
    <2>3. Ledger(u)' >= -Room(n - 1)
      BY <1>6, <2>1, <2>2
    <2> QED
      BY <1>8, <2>3 DEF Backed, Room, MaxPrice
  <1>9. CASE Q # {}
    <2>1. \E f \in Q : Ledger(u)' - req'[f].discount >= -Room(n - q)
      <3>1. CASE g = h
        <4>1. PICK f : f \in Q
          BY <1>9
        <4>2. req'[f].discount = req[f].discount /\ req[f].discount \in Nat
              /\ req[f].discount <= MaxPrice
          BY <1>2, <4>1
        <4>3. Ledger(u)' - req'[f].discount >= -Room(n - q)
          BY <1>1, <1>5, <1>6, <1>7, <3>1, <4>2
        <4> QED
          BY <4>1, <4>3
      <3>2. CASE g # h
        <4>1. g \in Q /\ req'[g].discount = req[g].discount
          BY <3>2
        <4>2. Ledger(u)' - req'[g].discount >= -Room(n - q)
          BY <1>1, <1>5, <1>6, <1>7, <4>1
        <4> QED
          BY <4>1, <4>2
      <3> QED
        BY <3>1, <3>2
    <2> QED
      BY <1>9, <2>1 DEF Backed, Room, MaxPrice
  <1> QED
    BY <1>8, <1>9

\* The ledger itself is overdrawn by one booking for each handler but one.
LEMMA LedgerBounded ==
  ASSUME LedgerInv, TypeOK, NEW u, NEW n \in Nat \ {0}, Backed(u, n),
         Cardinality(Spenders(u)) <= n
  PROVE  Ledger(u) >= -Room(n - 1)
  <1>1. CASE Spenders(u) = {}
    BY <1>1 DEF Backed
  <1>2. CASE Spenders(u) # {}
    <2> DEFINE p == Cardinality(Spenders(u))
    <2>1. PICK h \in Spenders(u) : Ledger(u) - req[h].discount >= -Room(n - p)
      BY <1>2 DEF Backed
    <2>2. p \in Nat /\ p >= 1
      BY <1>2, SpendersFinite, FS_EmptySet
    <2>3. n - p \in Nat /\ n - 1 \in Nat /\ n - p <= n - 1
      BY <2>2
    <2>4. Room(n - p) \in Nat /\ Room(n - 1) \in Nat /\ Room(n - p) <= Room(n - 1)
      BY <2>3, Rooms
    <2>5. req[h].discount \in Nat /\ Ledger(u) \in Int
      BY SpendersTake, LedgerTypes
    <2> QED
      BY <2>1, <2>4, <2>5
  <1> QED
    BY <1>1, <1>2

LEMMA ExplainedStays ==
  ASSUME IInv, TypeOK, TypeOK', RowsStay, NEW discount \in Int, NEW b, NEW n \in Nat \ {0},
         Explained(discount, b, n)
  PROVE  -discount <= Expired(Customer[b])' + Room(n - 1)
  <1>1. Expired(Customer[b]) <= Expired(Customer[b])'
    BY ExpiredGrows
  <1>2. n - 1 \in Nat
    OBVIOUS
  <1>3. Room(n - 1) \in Nat
    BY <1>2, Rooms
  <1>4. Expired(Customer[b]) \in Int
    BY LedgerTypes
  <1>5. Expired(Customer[b])' \in Int
    BY LedgerTypes
  <1> QED
    BY <1>1, <1>3, <1>4, <1>5 DEF Explained

LEMMA NoNewSpenders ==
  ASSUME LedgerInv, KindsStay, NEW u,
         \A h \in Handlers : \/ req'[h] = req[h]
                             \/ req'[h].op # "pay"
                             \/ code'[req'[h].code].kind # "credit"
                             \/ ~(req'[h].discount > 0)
  PROVE  Spenders(u)' \subseteq Spenders(u) /\ \A h \in Spenders(u)' : req'[h] = req[h]
  <1> SUFFICES ASSUME NEW h \in Handlers, h \in Spenders(u)'
               PROVE  h \in Spenders(u) /\ req'[h] = req[h]
    BY DEF Spenders
  <1>1. /\ req'[h].op = "pay" /\ code'[req'[h].code].kind = "credit"
        /\ req'[h].discount > 0 /\ Customer[req'[h].booking] = u
    BY DEF Spenders
  <1>2. req'[h] = req[h]
    BY <1>1
  <1>3. req[h].code \in Codes /\ code[req[h].code] # NoRow
    BY <1>1, <1>2 DEF LedgerInv, IInv, RequestsAreTyped
  <1>4. code[req[h].code].kind = "credit"
    BY <1>1, <1>2, <1>3 DEF KindsStay
  <1> QED
    BY <1>1, <1>2, <1>4 DEF Spenders

\* What is as it was is explained as it was.
LEMMA OverdrawnFrom ==
  ASSUME LedgerInv, TypeOK, TypeOK', RowsStay, NEW n \in Nat \ {0}, Overdrawn(n),
         \A u \in Users : Backed(u, n)',
         \A h \in Handlers : \/ req'[h] = req[h]
                             \/ req'[h].op # "pay"
                             \/ Explained(req'[h].discount, req'[h].booking, n),
         \A p \in Payments :
           \/ payment'[p] = NoRow
           \/ payment[p] # NoRow /\ payment'[p].discount = payment[p].discount
                                /\ payment'[p].booking = payment[p].booking
           \/ Explained(payment'[p].discount, payment'[p].booking, n)
  PROVE  Overdrawn(n)'
  <1>1. ASSUME NEW h \in Handlers, req'[h].op = "pay"
        PROVE  Explained(req[h].discount, req[h].booking, n)'
    <2>1. PICK discount, b : discount = req'[h].discount /\ b = req'[h].booking
      OBVIOUS
    <2>2. req'[h] \in [op : {"pay"}, code : Codes, booking : Bookings, discount : Int]
      BY <1>1 DEF TypeOK, Request, Idle
    <2>3. discount \in Int /\ Explained(discount, b, n)
      BY <1>1, <2>1, <2>2 DEF Overdrawn
    <2>4. -discount <= Expired(Customer[b])' + Room(n - 1)
      BY <2>3, ExplainedStays DEF LedgerInv
    <2> QED
      BY <2>1, <2>4 DEF Explained, Expired, Room, MaxPrice
  <1>2. ASSUME NEW p \in Payments, payment'[p] # NoRow
        PROVE  Explained(payment[p].discount, payment[p].booking, n)'
    <2>1. PICK discount, b : discount = payment'[p].discount /\ b = payment'[p].booking
      OBVIOUS
    <2>2. payment'[p] \in Payment
      BY <1>2 DEF TypeOK
    <2>3. discount \in Int /\ Explained(discount, b, n)
      BY <1>2, <2>1, <2>2 DEF Overdrawn, Payment
    <2>4. -discount <= Expired(Customer[b])' + Room(n - 1)
      BY <2>3, ExplainedStays DEF LedgerInv
    <2> QED
      BY <2>1, <2>4 DEF Explained, Expired, Room, MaxPrice
  <1> QED
    BY <1>1, <1>2 DEF Overdrawn

\* What n means: so many handlers at most are about to take the credit of a user.
FewSpend(n) == \A u : Cardinality(Spenders(u)) <= n

\* Steps that enter nothing in the ledger, and send no handler to take credit.
LEMMA QuietStep ==
  ASSUME LedgerInv, TypeOK, TypeOK', NEW n \in Nat \ {0}, Overdrawn(n), FewSpend(n), KindsStay,
         RowsStay, UNCHANGED redemption,
         \A h \in Handlers : \/ req'[h] = req[h]
                             \/ req'[h].op # "pay"
                             \/ /\ Explained(req'[h].discount, req'[h].booking, n)
                                /\ \/ code'[req'[h].code].kind # "credit"
                                   \/ ~(req'[h].discount > 0),
         \A p \in Payments :
           \/ payment'[p] = NoRow
           \/ payment[p] # NoRow /\ payment'[p].discount = payment[p].discount
                                /\ payment'[p].booking = payment[p].booking
           \/ Explained(payment'[p].discount, payment'[p].booking, n)
  PROVE  Overdrawn(n)'
  <1>1. ASSUME NEW u \in Users PROVE Backed(u, n)'
    <2>1. Spenders(u)' \subseteq Spenders(u) /\ \A h \in Spenders(u)' : req'[h] = req[h]
      BY NoNewSpenders
    <2>2. Ledger(u)' = Ledger(u) /\ Ledger(u) \in Int
      BY LedgerTypes DEF Ledger, Redeemed
    <2>3. Backed(u, n) /\ Cardinality(Spenders(u)) <= n
      BY DEF Overdrawn, FewSpend
    <2> QED
      BY <2>1, <2>2, <2>3, BackedWithFewer
  <1> QED
    BY <1>1, OverdrawnFrom

LEMMA NothingToExplain ==
  ASSUME TypeOK, NEW discount \in Nat, NEW b, NEW n \in Nat \ {0}
  PROVE  Explained(discount, b, n)
  <1>1. n - 1 \in Nat
    OBVIOUS
  <1>2. Room(n - 1) \in Nat
    BY <1>1, Rooms
  <1>3. Expired(Customer[b]) \in Int /\ Expired(Customer[b]) >= 0
    BY LedgerTypes, BalanceAndLedger
  <1> QED
    BY <1>2, <1>3 DEF Explained

LEMMA CodesOverdraw ==
  ASSUME LedgerInv, TypeOK, TypeOK', NEW n \in Nat \ {0}, Overdrawn(n), FewSpend(n),
         NEW v \in Codes, Generate(v) \/ Revoke(v) \/ Time(v)
  PROVE  Overdrawn(n)'
  <1>1. UNCHANGED <<redemption, payment, req>>
    BY DEF Generate, Revoke, Time
  <1>2. KindsStay
    BY KindsAreFinal DEF LedgerInv
  <1>3. ASSUME NEW w \in Codes, code[w] # NoRow, code[w].life = "over" PROVE code'[w].life = "over"
    <2>1. code \in [Codes -> Voucher \cup {NoRow}] /\ code[w] \in Voucher
      BY <1>3 DEF TypeOK
    <2>2. CASE w = v
      <3>1. CASE Generate(v)
        BY <1>3, <2>2, <3>1 DEF Generate
      <3>2. CASE Revoke(v)
        BY <1>3, <2>1, <2>2, <3>2 DEF Revoke, Voucher
      <3>3. CASE Time(v)
        BY <1>3, <2>2, <3>3 DEF Time
      <3> QED
        BY <3>1, <3>2, <3>3
    <2>3. CASE w # v
      BY <1>3, <2>1, <2>3 DEF Generate, Revoke, Time
    <2> QED
      BY <2>2, <2>3
  <1>4. RowsStay
    BY <1>1, <1>3 DEF RowsStay, Redeemed
  <1> QED
    BY <1>1, <1>2, <1>4, QuietStep

LEMMA PaymentsOverdraw ==
  ASSUME LedgerInv, TypeOK, TypeOK', NEW n \in Nat \ {0}, Overdrawn(n), FewSpend(n),
         \/ UNCHANGED vars
         \/ \E b \in Bookings : PayPlain(b)
         \/ \E p \in Payments, status \in {"paid", "failed", "cancelled"} : Webhook(p, status)
  PROVE  Overdrawn(n)'
  <1>1. UNCHANGED <<code, redemption, req>>
    BY DEF PayPlain, Webhook, vars
  <1>2. KindsStay /\ RowsStay
    BY <1>1 DEF KindsStay, RowsStay, Redeemed
  <1>3. ASSUME NEW p \in Payments
        PROVE  \/ payment'[p] = NoRow
               \/ payment[p] # NoRow /\ payment'[p].discount = payment[p].discount
                                    /\ payment'[p].booking = payment[p].booking
               \/ Explained(payment'[p].discount, payment'[p].booking, n)
    <2>1. CASE UNCHANGED vars
      BY <2>1 DEF vars
    <2>2. ASSUME NEW b \in Bookings, PayPlain(b)
          PROVE  \/ payment'[p] = payment[p]
                 \/ Explained(payment'[p].discount, payment'[p].booking, n)
      <3>1. PICK q \in Payments, status \in {"requires_action", "pending"} :
              payment' = [payment EXCEPT ![q] = [booking |-> b, redemption |-> None,
                                                discount |-> 0, status |-> status]]
        BY <2>2 DEF PayPlain, Intent
      <3>2. CASE p = q
        <4>1. payment'[p].discount = 0
          BY <3>1, <3>2 DEF TypeOK
        <4> QED
          BY <4>1, NothingToExplain
      <3>3. CASE p # q
        BY <3>1, <3>3 DEF TypeOK
      <3> QED
        BY <3>2, <3>3
    <2>3. ASSUME NEW q \in Payments, NEW status, Webhook(q, status)
          PROVE  \/ payment'[p] = payment[p]
                 \/ payment[p] # NoRow /\ payment'[p].discount = payment[p].discount
                                      /\ payment'[p].booking = payment[p].booking
      <3>1. CASE p = q
        <4>1. payment[p] \in Payment /\ payment'[p] = [payment[p] EXCEPT !.status = status]
              /\ payment[p] # NoRow
          BY <2>3, <3>1 DEF Webhook, TypeOK
        <4> QED
          BY <4>1 DEF Payment
      <3>2. CASE p # q
        BY <2>3, <3>2 DEF Webhook, TypeOK
      <3> QED
        BY <3>1, <3>2
    <2> QED
      BY <2>1, <2>2, <2>3
  <1> QED
    BY <1>1, <1>2, <1>3, QuietStep

LEMMA ReadsOverdraw ==
  ASSUME LedgerInv, TypeOK, TypeOK', NEW n \in Nat \ {0}, Overdrawn(n), FewSpend(n),
         NEW h \in Handlers, RedeemRead(h) \/ PayRead(h) \/ Abandon(h)
  PROVE  Overdrawn(n)'
  <1>1. UNCHANGED <<code, redemption, payment>>
    BY DEF RedeemRead, PayRead, Abandon
  <1>2. KindsStay /\ RowsStay
    BY <1>1 DEF KindsStay, RowsStay, Redeemed
  <1>3. \A g \in Handlers \ {h} : req'[g] = req[g]
    BY DEF RedeemRead, PayRead, Abandon, Finish, TypeOK
  <1>4. \/ req'[h].op # "pay"
        \/ Explained(req'[h].discount, req'[h].booking, n) /\ code'[req'[h].code].kind # "credit"
    <2>1. CASE RedeemRead(h)
      BY <2>1 DEF RedeemRead, TypeOK
    <2>2. CASE Abandon(h)
      BY <2>2 DEF Abandon, Finish, Idle, TypeOK
    <2>3. CASE PayRead(h)
      <3>1. PICK b \in Bookings, v \in Codes :
              req' = [req EXCEPT ![h] =
                        IF code[v].kind = "credit"
                        THEN [op |-> "balance", code |-> v, booking |-> b]
                        ELSE [op |-> "pay", code |-> v, booking |-> b, discount |-> Worth[v]]]
        BY <2>3 DEF PayRead
      <3>2. CASE code[v].kind = "credit"
        BY <3>1, <3>2 DEF TypeOK
      <3>3. CASE code[v].kind # "credit"
        <4>1. /\ req'[h].discount = Worth[v] /\ req'[h].code = v /\ Worth[v] \in Nat
          BY <3>1, <3>3, WorthAssumption DEF TypeOK
        <4> QED
          BY <1>1, <3>3, <4>1, NothingToExplain
      <3> QED
        BY <3>2, <3>3
    <2> QED
      BY <2>1, <2>2, <2>3
  <1>5. \A g \in Handlers : \/ req'[g] = req[g]
                            \/ req'[g].op # "pay"
                            \/ /\ Explained(req'[g].discount, req'[g].booking, n)
                               /\ \/ code'[req'[g].code].kind # "credit"
                                  \/ ~(req'[g].discount > 0)
    BY <1>3, <1>4
  <1>6. \A p \in Payments :
          \/ payment'[p] = NoRow
          \/ payment[p] # NoRow /\ payment'[p].discount = payment[p].discount
                               /\ payment'[p].booking = payment[p].booking
    BY <1>1
  <1> QED
    BY <1>1, <1>2, <1>5, <1>6, QuietStep

\* The balance a handler takes is explained, and is in the ledger.
LEMMA BalanceOverdraws ==
  ASSUME LedgerInv, TypeOK, TypeOK', NEW n \in Nat \ {0}, Overdrawn(n), FewSpend(n),
         \A u : Cardinality(Spenders(u)') <= n, NEW h \in Handlers, PayBalance(h)
  PROVE  Overdrawn(n)'
  <1>1. UNCHANGED <<code, redemption, payment>>
    BY DEF PayBalance
  <1>2. KindsStay /\ RowsStay
    BY <1>1 DEF KindsStay, RowsStay, Redeemed
  <1>3. PICK b, discount : b = req[h].booking /\ discount = CreditUsed(b)
    OBVIOUS
  <1>4. /\ req'[h].op = "pay" /\ req'[h].booking = b /\ req'[h].discount = discount
        /\ \A g \in Handlers \ {h} : req'[g] = req[g]
    BY <1>3 DEF PayBalance, TypeOK
  <1>5. b \in Bookings
    <2>1. req[h].op = "balance"
      BY DEF PayBalance
    <2> QED
      BY <1>3, <2>1 DEF LedgerInv, IInv, RequestsAreTyped
  <1>6. Customer[b] \in Users /\ Price[b] \in Nat
    BY <1>5, BookingsAssumption
  <1> DEFINE c == Customer[b]
  <1>7. /\ Balance(c) \in Int /\ Ledger(c) \in Int /\ Expired(c) \in Int /\ Expired(c) >= 0
        /\ Ledger(c) = Balance(c) + Expired(c)
    BY BalanceType, BalanceAndLedger
  <1>8. discount = (IF Balance(c) < Price[b] THEN Balance(c) ELSE Price[b])
    BY <1>3 DEF CreditUsed, Least
  <1>9. discount \in Int /\ discount <= Ledger(c)
    BY <1>6, <1>7, <1>8
  <1>10. Ledger(c) >= -Room(n - 1)
    BY <1>6, LedgerBounded DEF Overdrawn, FewSpend
  <1>11. Room(n - 1) \in Nat
    <2>1. n - 1 \in Nat
      OBVIOUS
    <2> QED
      BY <2>1, Rooms
  <1>12. Explained(discount, b, n)
    BY <1>6, <1>7, <1>8, <1>10, <1>11 DEF Explained
  <1>13. \A u : Ledger(u)' = Ledger(u)
    BY <1>1 DEF Ledger, Redeemed
  <1>14. ASSUME NEW u \in Users PROVE Backed(u, n)'
    <2>1. CASE h \in Spenders(u)'
      <3>1. u = c
        BY <1>4, <2>1 DEF Spenders
      <3> QED
        BY <1>4, <1>9, <1>13, <2>1, <3>1, BackedByReader
    <2>2. CASE h \notin Spenders(u)'
      <3>1. \A g \in Spenders(u)' : g \in Spenders(u) /\ req'[g] = req[g]
        BY <1>1, <1>4, <2>2 DEF Spenders
      <3> QED
        BY <1>13, <3>1, LedgerTypes, BackedWithFewer DEF Overdrawn, FewSpend
    <2> QED
      BY <2>1, <2>2
  <1>15. \A g \in Handlers : req'[g] = req[g] \/ Explained(req'[g].discount, req'[g].booking, n)
    BY <1>4, <1>12
  <1>16. \A p \in Payments :
           \/ payment'[p] = NoRow
           \/ payment[p] # NoRow /\ payment'[p].discount = payment[p].discount
                                /\ payment'[p].booking = payment[p].booking
    BY <1>1
  <1> QED
    BY <1>2, <1>14, <1>15, <1>16, OverdrawnFrom

LEMMA UseStays ==
  ASSUME IInv, NEW v \in Codes, NEW user, NEW booking, NEW credit, code[v] # NoRow,
         Used(v, user, booking, credit)
  PROVE  RowsStay
  <1>1. \A r \in Redeemed : r \in Redeemed' /\ redemption'[r] = redemption[r]
    BY UseWrites DEF Redeemed
  <1>2. code[v] \in Voucher /\ code \in [Codes -> Voucher \cup {NoRow}]
    BY DEF IInv, RowsAreTyped
  <1>3. code' = [code EXCEPT ![v].count = @ + 1]
    BY DEF Used
  <1>4. \A w \in Codes : code[w] # NoRow => code'[w].life = code[w].life
    BY <1>2, <1>3 DEF Voucher
  <1> QED
    BY <1>1, <1>4 DEF RowsStay

\* What a redemption by itself enters is granted.
LEMMA RedeemOverdraws ==
  ASSUME LedgerInv, TypeOK, TypeOK', NEW n \in Nat \ {0}, Overdrawn(n), FewSpend(n),
         NEW h \in Handlers, RedeemCommit(h)
  PROVE  Overdrawn(n)'
  <1>1. UNCHANGED payment /\ req'[h].op = "idle" /\ \A g \in Handlers \ {h} : req'[g] = req[g]
    BY DEF RedeemCommit, Finish, Idle, TypeOK
  <1>2. PICK v, user, booking, credit :
          /\ v = req[h].code /\ credit = (IF code[v].kind = "credit" THEN Worth[v] ELSE 0)
          /\ Used(v, user, booking, credit)
    BY DEF RedeemCommit
  <1>3. v \in Codes /\ code[v] # NoRow
    <2>1. req[h].op = "redeem"
      BY DEF RedeemCommit
    <2> QED
      BY <1>2, <2>1 DEF LedgerInv, IInv, RequestsAreTyped
  <1>4. credit \in Nat
    BY <1>2, <1>3, WorthAssumption
  <1>5. KindsStay /\ RowsStay
    BY <1>2, <1>3, UseWrites, UseStays DEF LedgerInv
  <1>6. PICK r \in Redemptions \ Redeemed :
          /\ redemption'[r].credit = credit
          /\ Redeemed' = Redeemed \cup {r}
          /\ \A s \in Redemptions \ {r} : redemption'[s] = redemption[s]
    BY <1>2, <1>3, UseWrites DEF LedgerInv
  <1>7. ASSUME NEW u \in Users PROVE Backed(u, n)'
    <2>1. Ledger(u)' = Ledger(u) \/ Ledger(u)' = Ledger(u) + credit
      BY <1>6, LedgerMoves
    <2>2. Ledger(u) \in Int /\ Ledger(u) <= Ledger(u)'
      BY <1>4, <2>1, LedgerTypes
    <2>3. Spenders(u)' \subseteq Spenders(u) /\ \A g \in Spenders(u)' : req'[g] = req[g]
      BY <1>1, <1>5, NoNewSpenders
    <2> QED
      BY <2>2, <2>3, BackedWithFewer DEF Overdrawn, FewSpend
  <1>8. \A g \in Handlers : req'[g] = req[g] \/ req'[g].op # "pay"
    BY <1>1
  <1>9. \A p \in Payments :
          \/ payment'[p] = NoRow
          \/ payment[p] # NoRow /\ payment'[p].discount = payment[p].discount
                               /\ payment'[p].booking = payment[p].booking
    BY <1>1
  <1> QED
    BY <1>5, <1>7, <1>8, <1>9, OverdrawnFrom

LEMMA PayOverdraws ==
  ASSUME LedgerInv, TypeOK, TypeOK', NEW n \in Nat \ {0}, Overdrawn(n), FewSpend(n),
         NEW h \in Handlers, PayCommit(h)
  PROVE  Overdrawn(n)'
  <1>1. req[h].op = "pay" /\ req'[h].op = "idle" /\ \A g \in Handlers \ {h} : req'[g] = req[g]
    BY DEF PayCommit, Finish, Idle, TypeOK
  <1>2. req[h] \in [op : {"pay"}, code : Codes, booking : Bookings, discount : Int]
    BY <1>1 DEF TypeOK, Request, Idle
  <1>3. PICK v \in Codes, b \in Bookings, discount \in Int :
          v = req[h].code /\ b = req[h].booking /\ discount = req[h].discount
    BY <1>2
  <1>4. /\ Used(v, Customer[b], b, LedgerEntry(v, b, discount))
        /\ \E r \in Redemptions : Intent(b, r, Least(discount, Price[b]))
    BY <1>3 DEF PayCommit
  <1>5. code[v] # NoRow /\ Price[b] \in Nat
    BY <1>1, <1>3, BookingsAssumption DEF LedgerInv, IInv, RequestsAreTyped
  <1>6. KindsStay /\ RowsStay
    BY <1>4, <1>5, UseWrites, UseStays DEF LedgerInv
  <1>7. PICK r \in Redemptions \ Redeemed :
          /\ redemption'[r].credit = LedgerEntry(v, b, discount)
          /\ redemption'[r].user = Customer[b]
          /\ Redeemed' = Redeemed \cup {r}
          /\ \A s \in Redemptions \ {r} : redemption'[s] = redemption[s]
    BY <1>4, <1>5, UseWrites DEF LedgerInv
  <1>8. ASSUME NEW u \in Users PROVE Backed(u, n)'
    <2>1. Spenders(u)' \subseteq Spenders(u) /\ \A g \in Spenders(u)' : req'[g] = req[g]
      BY <1>1, <1>6, NoNewSpenders
    <2>2. Ledger(u)' = IF Customer[b] = u THEN Ledger(u) + LedgerEntry(v, b, discount)
                       ELSE Ledger(u)
      BY <1>7, LedgerMoves
    <2>3. Ledger(u) \in Int /\ Backed(u, n) /\ Cardinality(Spenders(u)) <= n
      BY LedgerTypes DEF Overdrawn, FewSpend
    <2>4. CASE h \in Spenders(u)
      <3>1. Customer[b] = u /\ code[v].kind = "credit" /\ discount > 0
        BY <1>3, <2>4 DEF Spenders
      <3>2. Ledger(u)' = Ledger(u) - req[h].discount
        BY <1>3, <2>2, <2>3, <3>1 DEF LedgerEntry
      <3>3. Spenders(u)' = Spenders(u) \ {h}
        <4>1. h \notin Spenders(u)'
          BY <1>1 DEF Spenders
        <4>2. ASSUME NEW g \in Spenders(u) \ {h} PROVE g \in Spenders(u)'
          <5>1. /\ g \in Handlers /\ req'[g] = req[g] /\ req[g].op = "pay"
                /\ code[req[g].code].kind = "credit" /\ req[g].discount > 0
                /\ Customer[req[g].booking] = u
            BY <1>1, <4>2 DEF Spenders
          <5>2. req[g].code \in Codes /\ code[req[g].code] # NoRow
            BY <5>1 DEF LedgerInv, IInv, RequestsAreTyped
          <5>3. code'[req[g].code].kind = "credit"
            BY <1>6, <5>1, <5>2 DEF KindsStay
          <5> QED
            BY <5>1, <5>3 DEF Spenders
        <4> QED
          BY <2>1, <4>1, <4>2
      <3> QED
        BY <2>1, <2>3, <2>4, <3>2, <3>3, BackedByPayer
    <2>5. CASE h \notin Spenders(u)
      <3>1. Customer[b] = u => ~(code[v].kind = "credit" /\ discount > 0)
        BY <1>1, <1>3, <2>5 DEF Spenders
      <3>2. Ledger(u)' = Ledger(u)
        BY <2>2, <2>3, <3>1 DEF LedgerEntry
      <3> QED
        BY <2>1, <2>3, <3>2, BackedWithFewer
    <2> QED
      BY <2>4, <2>5
  <1>9. \A g \in Handlers : req'[g] = req[g] \/ req'[g].op # "pay"
    BY <1>1
  <1>10. ASSUME NEW p \in Payments
         PROVE  \/ payment'[p] = NoRow
                \/ payment[p] # NoRow /\ payment'[p].discount = payment[p].discount
                                     /\ payment'[p].booking = payment[p].booking
                \/ Explained(payment'[p].discount, payment'[p].booking, n)
    <2>1. PICK q \in Payments, s \in Redemptions, status \in {"requires_action", "pending"} :
            payment' = [payment EXCEPT ![q] = [booking |-> b, redemption |-> s,
                           discount |-> Least(discount, Price[b]), status |-> status]]
      BY <1>4 DEF Intent
    <2>2. CASE p = q
      <3>1. payment'[p].booking = b /\ payment'[p].discount = Least(discount, Price[b])
        BY <2>1, <2>2 DEF TypeOK
      <3>2. Least(discount, Price[b]) = discount \/ Least(discount, Price[b]) \in Nat
        BY <1>5 DEF Least
      <3>3. Explained(discount, b, n)
        BY <1>1, <1>3 DEF Overdrawn
      <3> QED
        BY <3>1, <3>2, <3>3, NothingToExplain
    <2>3. CASE p # q
      BY <2>1, <2>3 DEF TypeOK
    <2> QED
      BY <2>2, <2>3
  <1> QED
    BY <1>6, <1>8, <1>9, <1>10, OverdrawnFrom

LEMMA NextOverdraws ==
  ASSUME LedgerInv, TypeOK, TypeOK', [Next]_vars, NEW n \in Nat \ {0}, Overdrawn(n),
         FewSpend(n), FewSpend(n)'
  PROVE  Overdrawn(n)'
  <1>1. \A u : Cardinality(Spenders(u)') <= n
    BY DEF FewSpend
  <1>2. ASSUME NEW h \in Handlers, Step(h) PROVE Overdrawn(n)'
    BY <1>1, <1>2, ReadsOverdraw, BalanceOverdraws, RedeemOverdraws, PayOverdraws DEF Step
  <1>3. ASSUME NEW v \in Codes, Generate(v) \/ Revoke(v) \/ Time(v) PROVE Overdrawn(n)'
    BY <1>3, CodesOverdraw
  <1>4. CASE \/ UNCHANGED vars
             \/ \E b \in Bookings : PayPlain(b)
             \/ \E p \in Payments, status \in {"paid", "failed", "cancelled"} : Webhook(p, status)
    BY <1>4, PaymentsOverdraw
  <1> QED
    BY <1>2, <1>3, <1>4 DEF Next

LEMMA InitOverdraws == \A n \in Nat \ {0} : Init => Overdrawn(n)
  <1> SUFFICES ASSUME NEW n \in Nat \ {0}, Init PROVE Overdrawn(n)
    OBVIOUS
  <1>1. /\ \A h \in Handlers : req[h].op = "idle"
        /\ \A p \in Payments : payment[p] = NoRow
        /\ Redeemed = {}
    BY DEF Init, Idle, Redeemed
  <1>2. n - 1 \in Nat
    OBVIOUS
  <1>3. Room(n - 1) \in Nat
    BY <1>2, Rooms
  <1>4. ASSUME NEW u PROVE Backed(u, n)
    <2>1. Spenders(u) = {}
      BY <1>1 DEF Spenders
    <2>2. {r \in Redeemed : redemption[r].user = u} = {}
      BY <1>1
    <2>3. Ledger(u) = 0
      BY <2>2, SumEmpty DEF Ledger
    <2> QED
      BY <1>3, <2>1, <2>3 DEF Backed
  <1> QED
    BY <1>1, <1>4 DEF Overdrawn

-----------------------------------------------------------------------------
(* The results.                                                            *)

\* The invariant holds in every state the services can reach.
THEOREM InductiveInvariant == Spec => []IInv
  <1> QED
    BY InitHolds, NextKeeps, PTL DEF Spec

\* The counter of a code is the number of its redemptions, whatever runs at
\* once: redeem and resolveVoucherForBooking insert and increment together.
THEOREM CountsAreRight == Spec => []CountsTellUses
  <1>1. IInv => CountsTellUses
    BY DEF IInv
  <1> QED
    BY <1>1, InductiveInvariant, PTL

\* A code with a limit is overshot by less than the number of handlers that
\* run at once, however many codes, users and bookings there are.
THEOREM LimitStaysBounded == Spec => []LimitBounded
  <1>1. ASSUME IInv PROVE LimitBounded
    <2> SUFFICES ASSUME NEW v \in Codes, code[v] # NoRow
                 PROVE  code[v].count < code[v].max + Cardinality(Handlers)
      BY DEF LimitBounded
    <2>1. /\ code[v].max \in Nat /\ code[v].count \in Nat
          /\ code[v].count + Cardinality(InFlight(v)) < code[v].max + Cardinality(Handlers)
      BY <1>1, MaxPositive DEF IInv, RowsAreTyped, RoomForAll
    <2>2. Cardinality(InFlight(v)) \in Nat /\ Cardinality(Handlers) \in Nat
      BY Finite
    <2> QED
      BY <2>1, <2>2
  <1> QED
    BY <1>1, InductiveInvariant, PTL

\* A code pays once for a booking; redeemed for none, a user has it granted at
\* most once by each handler.
THEOREM RepeatsStayBounded == Spec => []RepeatBounded
  <1>1. ASSUME IInv PROVE RepeatBounded
    <2> SUFFICES ASSUME NEW v \in Codes, NEW u \in Users, NEW b \in Bookings \cup {None}
                 PROVE  Cardinality(UsesFor(v, u, b))
                          <= IF b = None THEN Cardinality(Handlers) ELSE 1
      BY DEF RepeatBounded
    <2>1. CASE b = None
      <3>1. Cardinality(UsesFor(v, u, None)) + Cardinality(Redeeming(v, u))
              <= Cardinality(Handlers)
        BY <1>1 DEF IInv, RepeatsForAll
      <3>2. /\ Cardinality(UsesFor(v, u, None)) \in Nat
            /\ Cardinality(Redeeming(v, u)) \in Nat /\ Cardinality(Handlers) \in Nat
        BY Finite
      <3> QED
        BY <2>1, <3>1, <3>2
    <2>2. CASE b \in Bookings
      <3>1. \A r, s \in UsesFor(v, u, b) : r = s
        BY <1>1, <2>2 DEF IInv, OncePerBooking
      <3>2. UsesFor(v, u, b) = {} \/ \E r : UsesFor(v, u, b) = {r}
        BY <3>1
      <3>3. Cardinality(UsesFor(v, u, b)) \in {0, 1}
        BY <3>2, FS_EmptySet, FS_Singleton
      <3> QED
        BY <2>2, <3>3, NoneAssumption
    <2> QED
      BY <2>1, <2>2
  <1> QED
    BY <1>1, InductiveInvariant, PTL

\* A payment with a code has a redemption of its own, for its booking and
\* customer, and takes off by credit what its transaction entered in the ledger,
\* however the two reads before it interleaved with other handlers.
THEOREM LedgerStaysPaid == Spec => []LedgerPaysDiscounts
  <1>1. Spec => []LedgerInv
    BY LedgerInit, LedgerNext, PTL DEF Spec
  <1>2. LedgerInv => LedgerPaysDiscounts
    BY DEF LedgerInv
  <1> QED
    BY <1>1, <1>2, PTL

LEMMA PaidTyped == Spec => [](LedgerInv /\ TypeOK)
  <1>1. Init => LedgerInv /\ TypeOK
    BY LedgerInit, InitTypes
  <1>2. LedgerInv /\ TypeOK /\ [Next]_vars => (LedgerInv /\ TypeOK)'
    BY LedgerNext, NextTypes DEF LedgerInv
  <1> QED
    BY <1>1, <1>2, PTL DEF Spec

\* The tables hold rows of their schema, and a handler what its code has in
\* local variables; a balance is an integer however many rows it sums up.
THEOREM TypeCorrect == Spec => []TypeOK
  <1> QED
    BY PaidTyped, PTL

LEMMA OverdrawnByHandlers ==
  /\ Cardinality(Handlers) \in Nat \ {0}
  /\ Spec => [](LedgerInv /\ TypeOK /\ Overdrawn(Cardinality(Handlers)) /\ FewSpend(Cardinality(Handlers)))
  <1> DEFINE n == Cardinality(Handlers)
  <1>1. n \in Nat \ {0}
    BY Finite
  <1>2. FewSpend(n)
    <2>1. \A u : Spenders(u) \in SUBSET Handlers
      BY DEF Spenders
    <2>2. \A S \in SUBSET Handlers : Cardinality(S) <= Cardinality(Handlers)
      BY HandlersAssumption, FS_Subset
    <2> QED
      BY <2>1, <2>2 DEF FewSpend
  <1>3. Init => Overdrawn(n)
    BY <1>1, InitOverdraws
  <1>4. LedgerInv /\ TypeOK /\ TypeOK' /\ [Next]_vars /\ Overdrawn(n) /\ FewSpend(n) /\ FewSpend(n)'
          => Overdrawn(n)'
    BY <1>1, NextOverdraws
  <1> HIDE DEF n
  <1>5. Spec => []FewSpend(n)
    BY <1>2, PTL
  <1>6. Spec => [](LedgerInv /\ TypeOK /\ Overdrawn(n) /\ FewSpend(n))
    BY <1>3, <1>4, <1>5, PaidTyped, PTL DEF Spec
  <1> QED
    BY <1>1, <1>6 DEF n

\* The payments that read one balance before any of them uses it overdraw a
\* customer's ledger by one booking each but the last, and nothing else does:
\* grants only add, and whoever reads later reads what is left.
THEOREM OverdraftStaysBounded == Spec => []OverdraftBounded
  <1> DEFINE n == Cardinality(Handlers)
  <1>1. ASSUME LedgerInv, TypeOK, Overdrawn(n), FewSpend(n) PROVE OverdraftBounded
    <2>1. \A u \in Users : Ledger(u) >= -Room(n - 1)
      BY <1>1, LedgerBounded, OverdrawnByHandlers DEF Overdrawn, FewSpend
    <2> QED
      BY <2>1, OverdrawnByHandlers, Prices DEF OverdraftBounded, Room
  <1> QED
    BY <1>1, OverdrawnByHandlers, PTL

\* A payment with credit is dearer than its booking by no more than the credit
\* that expired after it was used, and that overdraft.
THEOREM OverchargeStaysBounded == Spec => []OverchargeBounded
  <1>1. Overdrawn(Cardinality(Handlers)) => OverchargeBounded
    BY DEF Overdrawn, Explained, Room, OverchargeBounded, OverchargeWithin
  <1> QED
    BY <1>1, OverdrawnByHandlers, PTL

-----------------------------------------------------------------------------
(* One request at a time.                                                  *)

AloneInv ==
  /\ LedgerInv
  /\ TypeOK
  /\ part = "alone" => Overdrawn(1) /\ FewSpend(1)

LEMMA FewWithin == part = "alone" /\ Within => FewSpend(1)
  <1> SUFFICES ASSUME part = "alone", Within, NEW u PROVE Cardinality(Spenders(u)) <= 1
    BY DEF FewSpend
  <1> DEFINE Busy == {h \in Handlers : req[h] # Idle}
  <1>1. Cardinality(Busy) <= 1
    BY DEF Within
  <1>2. Spenders(u) \in SUBSET Busy
    BY DEF Spenders, Idle
  <1>3. IsFiniteSet(Busy)
    BY HandlersAssumption, FS_Subset
  <1>4. Cardinality(Spenders(u)) <= Cardinality(Busy) /\ Cardinality(Spenders(u)) \in Nat
    BY <1>2, <1>3, FS_Subset, SpendersFinite
  <1>5. Cardinality(Busy) \in Nat
    BY <1>3, FS_CardinalityType
  <1> QED
    BY <1>1, <1>4, <1>5

LEMMA AloneInit == MCInit => AloneInv
  <1> SUFFICES ASSUME MCInit PROVE AloneInv
    OBVIOUS
  <1>1. LedgerInv /\ TypeOK /\ Overdrawn(1)
    BY LedgerInit, InitTypes, InitOverdraws DEF MCInit
  <1>2. \A u : Spenders(u) = {}
    BY DEF MCInit, Init, Spenders, Idle
  <1>3. FewSpend(1)
    BY <1>2, FS_EmptySet DEF FewSpend
  <1> QED
    BY <1>1, <1>3 DEF AloneInv

LEMMA AloneNext == AloneInv /\ [MCNext]_<<vars, part>> => AloneInv'
  <1> SUFFICES ASSUME AloneInv, [MCNext]_<<vars, part>> PROVE AloneInv'
    OBVIOUS
  <1>1. [Next]_vars /\ part' = part
    BY DEF MCNext
  <1>2. LedgerInv' /\ TypeOK'
    BY <1>1, LedgerNext, NextTypes DEF AloneInv, LedgerInv
  <1>3. ASSUME part' = "alone" PROVE (Overdrawn(1) /\ FewSpend(1))'
    <2>1. Overdrawn(1) /\ FewSpend(1)
      BY <1>1, <1>3 DEF AloneInv
    <2>2. FewSpend(1)'
      <3>1. CASE MCNext
        <4>1. Within'
          BY <3>1 DEF MCNext
        <4>2. (part = "alone" /\ Within => FewSpend(1))'
          BY FewWithin, PTL
        <4> QED
          BY <1>3, <4>1, <4>2
      <3>2. CASE UNCHANGED <<vars, part>>
        BY <2>1, <3>2 DEF FewSpend, Spenders, vars
      <3> QED
        BY <3>1, <3>2
    <2>3. Overdrawn(1)'
      BY <1>1, <1>2, <2>1, <2>2, NextOverdraws DEF AloneInv
    <2> QED
      BY <2>2, <2>3
  <1> QED
    BY <1>2, <1>3 DEF AloneInv

\* One request at a time overdraws nothing: then credit that expired after it
\* was used is all that makes a payment dearer than its booking.
THEOREM OverchargesNothingAlone == MCSpec => []OverchargeAlone
  <1>1. AloneInv => OverchargeAlone
    BY DEF AloneInv, Overdrawn, Explained, Room, OverchargeAlone, OverchargeWithin
  <1> QED
    BY <1>1, AloneInit, AloneNext, PTL DEF MCSpec
=============================================================================
