--------------------------- MODULE MCBookingsApart ---------------------------
(***************************************************************************)
(* The handlers of Bookings apart from one another, in two parts of which  *)
(* the first state chooses one:                                            *)
(*                                                                         *)
(*   alone     one handler at a time, while the clock moves                *)
(*   creates   concurrent calls of createBooking, and of nothing else      *)
(*                                                                         *)
(* The constants that begin with Alone and Creates bound the two parts for *)
(* TLC and restrict nothing but its state space.                           *)
(***************************************************************************)
EXTENDS Bookings, TLC

CONSTANTS
  AloneRows,     \* bound: bookings made by handlers that run alone
  AloneMasters,  \* bound: masters those bookings are with
  CreatesBases   \* bound: base durations that concurrent creates ask for

VARIABLE part

\* One hour that extras double, or two hours of work.
MCQuotes == {[base |-> 1, total |-> 2], [base |-> 2, total |-> 2]}

\* Work ends one slot after midnight, too early for two hours from slot 4.
MCTightShifts == [m \in Masters |-> {[from |-> 1, to |-> 5]}]

MCInit ==
  /\ Init
  /\ part \in {"alone", "creates"}

\* No handler but r is in flight.
RunsAlone(r) == \A p \in Requests \ {r} : req[p] = Idle

AloneBounds ==
  /\ Cardinality({b \in BookingIds : booking'[b] # NoRow}) <= AloneRows
  /\ \A r \in Requests : req'[r].op = "create" => req'[r].master \in AloneMasters

AloneNext ==
  /\ Tick \/ \E r \in Requests : RunsAlone(r) /\ Step(r)
  /\ AloneBounds

CreatesBounds ==
  \A r \in Requests : req'[r].op = "create" => req'[r].base \in CreatesBases

CreatesNext ==
  /\ \E r \in Requests :
       CreateSnapshot(r) \/ CreateCommit(r) \/ StatusRead(r) \/ Abandon(r)
  /\ CreatesBounds

MCNext ==
  /\ \/ part = "alone" /\ AloneNext
     \/ part = "creates" /\ CreatesNext
  /\ UNCHANGED part

MCSpec == MCInit /\ [][MCNext]_<<vars, part>>

MCSymmetry == Permutations(BookingIds) \cup Permutations(Requests)

\* No master is ever booked twice for the same time by bookings made at once:
\* what the search inside createBooking's transaction is for.
CreatesExclude == part = "creates" => NoDoubleBooking

\* One request at a time: the properties of Bookings of these names.
WorkingTimeAlone == part = "alone" => InsideWorkingTime

MidnightAlone == part = "alone" => DoubleBookedOnlyOverMidnight

ChainedAlone == part = "alone" => HistoryChained

LegalAlone == [][part = "alone" => LegalStep]_<<vars, part>>
=============================================================================
