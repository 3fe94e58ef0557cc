----------------------------- MODULE MCVouchers -----------------------------
(***************************************************************************)
(* Vouchers for TLC.  The first state chooses what a behaviour explores:   *)
(*                                                                         *)
(*   together   requests at once, one code                                 *)
(*   alone      one customer's requests one at a time, two codes           *)
(***************************************************************************)
EXTENDS Vouchers, TLC

CONSTANT customer

VARIABLE part

MCWorth == [v \in Codes |-> 1]

MCPrice == [b \in Bookings |-> 1]

MCCustomer == [b \in Bookings |-> customer]

MCMayRedeem == Users \X Codes

MCMayPayWith == Bookings \X Codes

\* The bounds of each part.
Within ==
  /\ part = "together" => Cardinality({v \in Codes : code[v] # NoRow}) <= 1
  /\ part = "alone" =>
       /\ Cardinality({h \in Handlers : req[h] # Idle}) <= 1
       /\ \A v \in Codes : code[v] # NoRow => code[v].kind # "partner" /\ code[v].max = MaxUses

MCInit == Init /\ part \in {"together", "alone"}

MCNext == Next /\ UNCHANGED part /\ Within'

MCSpec == MCInit /\ [][MCNext]_<<vars, part>>

MCSymmetry ==
  Permutations(Codes) \cup Permutations(Redemptions) \cup Permutations(Payments) \cup Permutations(Bookings)
    \cup Permutations(Handlers)

\* One request at a time: no payment is dearer than its booking by more than
\* the credit that expired since its customer was granted it.
OverchargeAlone == part = "alone" => OverchargeWithin(1)
=============================================================================
