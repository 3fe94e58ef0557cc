----------------------------- MODULE MCBookings -----------------------------
(* Instances of Bookings for TLC. *)
EXTENDS Bookings, TLC

\* One hour of work, which modifiers or a second service double.
MCQuote == {[base |-> 1, total |-> 2]}

\* One hour without extras.
MCShortQuote == {[base |-> 1, total |-> 1]}

\* Days of four slots; work may run past midnight.
MCShifts == [m \in Masters |-> {[from |-> 1, to |-> 6]}]

MCSymmetry == Permutations(BookingIds) \cup Permutations(Requests)
=============================================================================
