------------------------------ MODULE Bookings ------------------------------
(***************************************************************************)
(* BookingsService: the rows of the Booking table, the handlers that       *)
(* create, move and decide them, and what those handlers write beside a    *)
(* row.  A handler is a sequence of awaits.  It is split here exactly      *)
(* where its database work is not atomic:                                  *)
(*                                                                         *)
(*   createBooking         CreateSnapshot, then CreateCommit               *)
(*   changeBookingStatus   StatusRead, then StatusCommit                   *)
(*   rescheduleBooking     MoveRead, MoveCheck, then MoveCommit            *)
(*                                                                         *)
(* What a handler remembers between two steps is its record in "req".      *)
(* Only createBooking asks PostgreSQL for Serializable; the transactions   *)
(* of the other two run at READ COMMITTED and update by primary key.       *)
(*                                                                         *)
(* Time is counted in slots, DayLength of them to a day.  A quote is the   *)
(* pair of durations a selection of services has: "base", that of its      *)
(* first service, and "total", of all items and modifiers.                 *)
(***************************************************************************)
EXTENDS Integers, Sequences, FiniteSets

CONSTANTS
  BookingIds,   \* ids the Booking table can hand out
  Requests,     \* handlers that can be in flight at once
  Masters,      \* master ids; candidates are tried in increasing order
  Starts,       \* start slots a client asks for
  Quotes,       \* [base, total] durations of the selections clients make
  Shifts,       \* master -> set of [from, to] periods open for bookings
  DayLength,    \* slots in a calendar day
  LastNow,      \* bound: the clock stops here
  MaxRows       \* bound: status history rows of one booking

ASSUME MastersAssumption == Masters \subseteq Nat
ASSUME StartsAssumption == Starts \subseteq Nat
ASSUME QuotesAssumption ==
  \A q \in Quotes : q.base \in Nat \ {0} /\ q.total \in Nat \ {0}
ASSUME BoundsAssumption ==
  DayLength \in Nat \ {0} /\ LastNow \in Nat /\ MaxRows \in Nat

VARIABLES
  booking,      \* the Booking table (with the BookingPayment row of each)
  journal,      \* BookingStatusHistory of each booking, with its AuditLog action
  disturbed,    \* history variable: bookings moved, or reopened once inactive
  req,          \* the handlers in flight
  now           \* the clock

vars == <<booking, journal, disturbed, req, now>>

-----------------------------------------------------------------------------
(* Rows and statuses.                                                      *)

Status == {"pending", "confirmed", "inProgress", "completed", "cancelled",
           "rejected", "noShow"}

\* ACTIVE_BOOKING_STATUSES: the statuses that occupy a master's time.
Active == {"pending", "confirmed", "inProgress"}

NoRow == [status |-> "absent"]

Occupies(b) == booking[b].status \in Active

Overlaps(startA, endA, startB, endB) == startA < endB /\ startB < endA

\* Booking b occupies master m somewhere between s and e.
Clashes(b, m, s, e) ==
  /\ Occupies(b)
  /\ booking[b].master = m
  /\ Overlaps(booking[b].start, booking[b].end, s, e)

\* Mutant: only the start is compared with the shift.
InsideShiftStartOnly(m, s, e) ==
  \E shift \in Shifts[m] : shift.from <= s /\ s < shift.to

\* The schedule half of isSlotAvailableForSchedules.
InsideShift(m, s, e) ==
  \E shift \in Shifts[m] : shift.from <= s /\ e <= shift.to

\* The statuses a booking has had, as its history tells them.
Past(b) == {journal[b][i].to : i \in DOMAIN journal[b]}

-----------------------------------------------------------------------------
(* Requests.                                                               *)

Idle == [op |-> "idle"]

StartOfDay(t) == (t \div DayLength) * DayLength

\* The status change endpoints, and what changeBookingStatus lets each read.
Decisions == {"confirmed", "cancelled", "rejected", "completed", "noShow"}

\* Mutant: a confirmed booking can still be rejected.
StatusGuardLateReject(current, next) ==
  CASE next = "completed" -> current \in {"confirmed", "inProgress"}
    [] next = "noShow"    -> current = "confirmed"
    [] next = "confirmed" -> current = "pending"
    [] next = "rejected"  -> current \in {"pending", "confirmed"}
    [] OTHER              -> TRUE

StatusGuard(current, next) ==
  CASE next = "completed" -> current \in {"confirmed", "inProgress"}
    [] next = "noShow"    -> current = "confirmed"
    [] next = "confirmed" -> current = "pending"
    [] next = "rejected"  -> current = "pending"
    [] OTHER              -> TRUE

\* Mutant: the columns fromStatus and toStatus are swapped.
RecordSwapped(b, from, to, action) ==
  journal' = [journal EXCEPT ![b] =
                Append(@, [from |-> to, to |-> from, action |-> action])]

\* Mutant: fromStatus is left null.
RecordNoFrom(b, from, to, action) ==
  journal' = [journal EXCEPT ![b] =
                Append(@, [from |-> "none", to |-> to, action |-> action])]

\* Adds the rows a transaction writes about b: one of BookingStatusHistory and
\* the AuditLog action beside it (the notifications say the same again).
Record(b, from, to, action) ==
  journal' = [journal EXCEPT ![b] =
                Append(@, [from |-> from, to |-> to, action |-> action])]

\* A commit that turns an inactive booking into an active one reopens it.
Reopens(b, to) == booking[b].status \notin Active /\ to \in Active

-----------------------------------------------------------------------------
Init ==
  /\ booking = [b \in BookingIds |-> NoRow]
  /\ journal = [b \in BookingIds |-> <<>>]
  /\ disturbed = {}
  /\ req = [r \in Requests |-> Idle]
  /\ now = 0

Finish(r) == req' = [req EXCEPT ![r] = Idle]

\* createBooking up to the point where its Serializable transaction has its
\* snapshot.  The candidates are the one master the client named or all who
\* perform the services; the loop takes the first of them that is free in the
\* snapshot.  With none free the handler answers 409 and writes nothing.
CreateSnapshot(r) ==
  /\ req[r] = Idle
  /\ \E s \in Starts, q \in Quotes, candidates \in SUBSET Masters,
        initial \in {"pending", "confirmed"} :
       LET e    == s + q.total
           free == {m \in candidates :
                      /\ \A b \in BookingIds : ~Clashes(b, m, s, e)
                      /\ InsideShift(m, s, e)}
       IN /\ s > now
          /\ \E m \in free :
               /\ \A other \in free : m <= other
               /\ req' = [req EXCEPT ![r] =
                            [op |-> "create", master |-> m, start |-> s,
                             end |-> e, base |-> q.base, initial |-> initial,
                             fate |-> "open"]]
  /\ UNCHANGED <<booking, journal, disturbed, now>>

\* Mutant: the transaction runs at READ COMMITTED.
ExcludesNever(p, r) == FALSE

\* Mutant: only two creates for one start time are told apart.
ExcludesSameStart(p, r) ==
  /\ req[p].op = "create"
  /\ req[p].master = req[r].master
  /\ req[p].start = req[r].start

\* Two Serializable transactions that did not see each other conflict when
\* each inserts a row the other's search for conflicts covered.  A search
\* covers the chosen master and the candidates before it, so of two creates
\* each can cover the other's row only if both chose the same master.
Excludes(p, r) ==
  /\ req[p].op = "create"
  /\ req[p].master = req[r].master
  /\ Overlaps(req[p].start, req[p].end, req[r].start, req[r].end)

\* Mutant: no payment is created with the booking.
NewRowNoPayment(r) ==
  [status |-> req[r].initial, master |-> req[r].master,
   start |-> req[r].start, end |-> req[r].end, base |-> req[r].base]

\* The booking and, as its field, the BookingPayment that starts PENDING.
NewRow(r) ==
  [status |-> req[r].initial, master |-> req[r].master,
   start |-> req[r].start, end |-> req[r].end, base |-> req[r].base,
   payment |-> "PENDING"]

\* The rest of createBooking's transaction: the row, its payment, its first
\* history row.  PostgreSQL lets the first of two conflicting creates commit
\* and dooms the other, which Abandon then ends.
CreateCommit(r) ==
  /\ req[r].op = "create"
  /\ req[r].fate = "open"
  /\ \E b \in BookingIds :
       /\ booking[b] = NoRow
       /\ booking' = [booking EXCEPT ![b] = NewRow(r)]
       /\ Record(b, "none", req[r].initial, "BOOKING_CREATED")
  /\ req' = [p \in Requests |->
               IF p = r THEN Idle
               ELSE IF Excludes(p, r) THEN [req[p] EXCEPT !.fate = "doomed"]
               ELSE req[p]]
  /\ UNCHANGED <<disturbed, now>>

\* changeBookingStatus reads the booking outside any transaction, checks the
\* transition against what it read, and returns early when nothing changes.
StatusRead(r) ==
  /\ req[r] = Idle
  /\ \E b \in BookingIds, next \in Decisions :
       /\ booking[b] # NoRow
       /\ booking[b].status # next
       /\ StatusGuard(booking[b].status, next)
       /\ req' = [req EXCEPT ![r] = [op |-> "status", booking |-> b,
                                     read |-> booking[b].status, next |-> next]]
  /\ UNCHANGED <<booking, journal, disturbed, now>>

\* Its transaction updates by id alone, whatever the status is by now, and
\* writes the status it had read as fromStatus.
StatusCommit(r) ==
  /\ req[r].op = "status"
  /\ LET b == req[r].booking
         next == req[r].next
     IN /\ Len(journal[b]) < MaxRows
        /\ booking' = [booking EXCEPT ![b].status = next]
        /\ Record(b, req[r].read, next, "BOOKING_STATUS")
        /\ disturbed' = IF Reopens(b, next) THEN disturbed \cup {b} ELSE disturbed
  /\ Finish(r)
  /\ UNCHANGED now

\* rescheduleBooking reads the booking and refuses a start in the past.  The
\* new end is computed from the first service's duration alone.
MoveRead(r) ==
  /\ req[r] = Idle
  /\ \E b \in BookingIds, s \in Starts :
       /\ booking[b] # NoRow
       /\ s > now
       /\ req' = [req EXCEPT ![r] = [op |-> "move", booking |-> b,
                                     read |-> booking[b].status, start |-> s,
                                     end |-> s + booking[b].base]]
  /\ UNCHANGED <<booking, journal, disturbed, now>>

\* Mutant: bookings that began before the new day are not read.
VisibleToMoveToday(b, s) ==
  {other \in BookingIds \ {b} :
     /\ Occupies(other)
     /\ booking[other].master = booking[b].master
     /\ StartOfDay(booking[other].start) = StartOfDay(s)}

\* isRescheduleSlotAvailable: the master's other active bookings that begin
\* before the new start's day is over and end after the previous day began.
VisibleToMove(b, s) ==
  {other \in BookingIds \ {b} :
     /\ Occupies(other)
     /\ booking[other].master = booking[b].master
     /\ booking[other].start < StartOfDay(s) + DayLength
     /\ booking[other].end > StartOfDay(s) - DayLength}

\* Still outside any transaction.  A 409 here ends the handler (see Abandon).
MoveCheck(r) ==
  /\ req[r].op = "move"
  /\ LET b == req[r].booking
     IN /\ InsideShift(booking[b].master, req[r].start, req[r].end)
        /\ \A other \in VisibleToMove(b, req[r].start) :
             ~Overlaps(booking[other].start, booking[other].end,
                       req[r].start, req[r].end)
  /\ req' = [req EXCEPT ![r].op = "moveChecked"]
  /\ UNCHANGED <<booking, journal, disturbed, now>>

\* Mutant: a moved booking keeps its status.
MovedStatusKept(read) == read

MovedStatus(read) == IF read = "pending" THEN "pending" ELSE "confirmed"

\* The transaction moves the row and sets a status derived from the one read:
\* pending stays pending, everything else becomes confirmed.
MoveCommit(r) ==
  /\ req[r].op = "moveChecked"
  /\ LET b == req[r].booking
         to == MovedStatus(req[r].read)
     IN /\ Len(journal[b]) < MaxRows
        /\ booking' = [booking EXCEPT ![b].start = req[r].start,
                                      ![b].end = req[r].end,
                                      ![b].status = to]
        /\ Record(b, req[r].read, to, "BOOKING_RESCHEDULED")
        /\ disturbed' = disturbed \cup {b}
  /\ Finish(r)
  /\ UNCHANGED now

\* A handler ends without a write: its check answered 409, PostgreSQL rolled
\* its transaction back, or the process died between two awaits.
Abandon(r) ==
  /\ req[r] # Idle
  /\ Finish(r)
  /\ UNCHANGED <<booking, journal, disturbed, now>>

Tick ==
  /\ now < LastNow
  /\ now' = now + 1
  /\ UNCHANGED <<booking, journal, disturbed, req>>

Step(r) ==
  \/ CreateSnapshot(r)
  \/ CreateCommit(r)
  \/ StatusRead(r)
  \/ StatusCommit(r)
  \/ MoveRead(r)
  \/ MoveCheck(r)
  \/ MoveCommit(r)
  \/ Abandon(r)

Next ==
  \/ Tick
  \/ \E r \in Requests : Step(r)

Spec == Init /\ [][Next]_vars
-----------------------------------------------------------------------------
(* Types.                                                                  *)

Durations == {q.base : q \in Quotes} \cup {q.total : q \in Quotes}

Ends == {s + d : s \in Starts, d \in Durations}

Row == [status : Status, master : Masters, start : Starts, end : Ends,
        base : Durations, payment : {"PENDING"}]

Entry == [from : Status \cup {"none"}, to : Status,
          action : {"BOOKING_CREATED", "BOOKING_STATUS", "BOOKING_RESCHEDULED"}]

CreateRequest == [op : {"create"}, master : Masters, start : Starts,
                  end : Ends, base : Durations, initial : {"pending", "confirmed"},
                  fate : {"open", "doomed"}]

StatusRequest == [op : {"status"}, booking : BookingIds, read : Status,
                  next : Decisions]

MoveRequest == [op : {"move", "moveChecked"}, booking : BookingIds,
                read : Status, start : Starts, end : Ends]

\* The type invariant: the tables hold rows of their schema, and a handler
\* remembers what its code has in local variables.
TypeOK ==
  /\ booking \in [BookingIds -> Row \cup {NoRow}]
  /\ journal \in [BookingIds -> Seq(Entry)]
  /\ disturbed \subseteq BookingIds
  /\ req \in [Requests -> {Idle} \cup CreateRequest \cup StatusRequest
                                 \cup MoveRequest]
  /\ now \in 0..LastNow

-----------------------------------------------------------------------------
(* What holds whatever handlers interleave.                                *)

\* Bookings b1 and b2 both occupy the same master at some moment.
DoubleBooked(b1, b2) ==
  /\ Occupies(b2)
  /\ Clashes(b1, booking[b2].master, booking[b2].start, booking[b2].end)

\* Two bookings that still are where createBooking put them, and were never
\* reopened, share no time of their master: its search for conflicts and its
\* insert are one step to every other create.
SteadyExclusion ==
  \A b1, b2 \in BookingIds \ disturbed : b1 # b2 => ~DoubleBooked(b1, b2)

\* Rows and histories tell one story, though three handlers write both: the
\* status of a booking is the one its newest history row went to, and however
\* stale the read behind a change was, the fromStatus it records is a status
\* this booking has had.
JournalTellsStatus ==
  \A b \in BookingIds :
    booking[b] # NoRow =>
      /\ journal[b] # <<>>
      /\ journal[b][Len(journal[b])].to = booking[b].status
      /\ \A i \in 2 .. Len(journal[b]) : \E j \in 1 .. i - 1 : journal[b][j].to = journal[b][i].from

\* Every booking lies in one break-free period of its master, moved or not,
\* because create and reschedule put the interval they write to the same test.
InsideWorkingTime ==
  \A b \in BookingIds :
    booking[b] # NoRow =>
      \E shift \in Shifts[booking[b].master] :
        shift.from <= booking[b].start /\ booking[b].end <= shift.to

\* The calendar these handlers implement, each taking effect at its commit.
Cal == INSTANCE Calendar WITH
         Ids     <- BookingIds,
         place   <- [b \in BookingIds |->
                      IF booking[b] = NoRow THEN [slot |-> "none"]
                      ELSE [master |-> booking[b].master,
                            start |-> booking[b].start, end |-> booking[b].end]],
         past    <- [b \in BookingIds |-> Past(b)],
         current <- [b \in BookingIds |-> booking[b].status],
         steady  <- BookingIds \ disturbed

\* Every step of every handler, seen through that mapping, is one atomic
\* booking, decision or move of the calendar, or nothing at all.
ImplementsCalendar == Cal!Spec

\* A decision was legal for the booking at some earlier moment: nobody is
\* completed or a no-show who never was confirmed, or rejected who never waited.
DecisionsWereLegal ==
  \A b \in BookingIds : \A i \in DOMAIN journal[b] :
    journal[b][i].action = "BOOKING_STATUS" =>
      \E j \in 1 .. i - 1 : Cal!Legal(journal[b][j].to, journal[b][i].to)

\* The history of a booking can be believed, in spite of three handlers that
\* write it from stale reads: it tells the status, and its decisions were legal.
JournalIsTrue == JournalTellsStatus /\ DecisionsWereLegal

-----------------------------------------------------------------------------
(* What holds only while handlers run one at a time (Requests a singleton),*)
(* or not even then.                                                       *)

\* No master is ever booked twice for the same time, what the 409 answer of
\* createBooking and of rescheduleBooking stands for.
NoDoubleBooking ==
  \A b1, b2 \in BookingIds : b1 # b2 => ~DoubleBooked(b1, b2)

\* Booking b runs past midnight.
CrossesMidnight(b) == booking[b].end > StartOfDay(booking[b].start) + DayLength

\* One handler at a time books a master twice only by moving a booking across
\* midnight, into a day whose bookings isRescheduleSlotAvailable never reads.
DoubleBookedOnlyOverMidnight ==
  \A b1, b2 \in BookingIds :
    b1 # b2 /\ DoubleBooked(b1, b2) =>
      \E b \in {b1, b2} \cap disturbed : CrossesMidnight(b)

\* The history of a booking is a chain: each row starts where the one before
\* it went, and none goes back to pending, so no answered booking waits for
\* its salon again.
HistoryChained ==
  \A b \in BookingIds : \A i \in DOMAIN journal[b] :
    i > 1 =>
      /\ journal[b][i].from = journal[b][i - 1].to
      /\ journal[b][i].to = "pending" => journal[b][i].from = "pending"

\* The rule of changeBookingStatus, read against the row it overwrites: a
\* decision takes a booking along a legal transition of its present status.
LegalStep ==
  \A b \in BookingIds :
    /\ journal'[b] # journal[b]
    /\ journal'[b][Len(journal'[b])].action = "BOOKING_STATUS"
    => Cal!Legal(booking[b].status, booking'[b].status)

LegalTransitions == [][LegalStep]_vars

\* The rule that a booking becomes confirmed from pending only, whichever
\* handler confirms it: no inactive booking is active again.
InactiveStaysInactive ==
  [][\A b \in BookingIds : booking[b] # NoRow => ~Reopens(b, booking'[b].status)]_vars
=============================================================================
