----------------------------- MODULE Availability -----------------------------
(***************************************************************************)
(* When a salon's masters are free, as the program works it out from hours *)
(* and bookings: the slots BookingsService.getAvailableSlots offers for a  *)
(* day, and what CatalogService tells of a salon or a master in its lists: *)
(* how many are on shift, available and busy, and the next free moment;    *)
(* and the week MasterDetailPage works out by itself for visits at home.   *)
(* Nothing is kept: the first state holds the tables, one step the answer. *)
(*                                                                         *)
(* Time is counted in units finer than a minute, by a server whose local   *)
(* time is UTC; the browser of the master's page is in any zone, the       *)
(* offset of which does not change.  Hours end on the day they begin,      *)
(* which is all that schedules and salon editor accept; a break may end    *)
(* before it begins, since updateBreak accepts that, and lasts into the    *)
(* next day then.                                                          *)
(***************************************************************************)
EXTENDS Integers, FiniteSets, Folds

CONSTANTS
  Minute, Step, Day,   \* units of a minute, of the slots' raster, of a day
  Week,                \* days of a week
  Staff,               \* masters linked to the salon
  Hours,               \* sets of rows of working hours a master may have
  Booked,              \* sets of bookings a master may have, each with its salon
  Profiles,            \* what else is told of a master
  Instants,            \* when the program is asked
  Durations,           \* how long the services asked for take
  Lists,               \* sets of salons that a list tells of, this one among them
  Zones                \* how far ahead of the server's a browser's clock is

VARIABLES master, now, answer

vars == <<master, now, answer>>

-----------------------------------------------------------------------------
Unasked == [kind |-> "none"]

Init ==
  /\ master \in [Staff -> [rows : Hours, bookings : Booked, profile : Profiles]]
  /\ now \in Instants
  /\ answer = Unasked

\* The interval a row or a break makes of the day counted d.
Interval(d, from, to) ==
  [start |-> d * Day + from, end |-> d * Day + to + (IF to <= from THEN Day ELSE 0)]

Today == now \div Day

Meet(s, e, i) == s < i.end /\ i.start < e

Active(b) == b.status \in {"pending", "confirmed", "inProgress"}

Current(b) == b.status \in {"confirmed", "inProgress"}

RowsOf(m, d) == {r \in master[m].rows : r.day = d % Week}

-----------------------------------------------------------------------------
(* Slots of a day.                                                         *)

\* isSlotAvailableForSchedules: inside one row's hours and clear of the breaks
\* of that row, and of all bookings.
Free(m, d, t, length) ==
  /\ \E r \in RowsOf(m, d) :
       LET shift == Interval(d, r.from, r.to)
       IN /\ r.accepts
          /\ shift.start <= t /\ t + length <= shift.end
          /\ \A p \in r.breaks : ~Meet(t, t + length, Interval(d, p[1], p[2]))
  /\ \A b \in master[m].bookings : Active(b) => ~Meet(t, t + length, b)

\* ceilToStep drops the seconds before it looks at the minutes.
Ceil(t) ==
  LET minute == t - (t % Minute)
  IN IF minute % Step = 0 THEN minute ELSE minute + Step - (minute % Step)

Later(s, t) == IF s > t THEN s ELSE t

\* calculateAvailableSlots: the raster through each row's hours.
SlotsOf(m, d, length) ==
  UNION {LET shift == Interval(d, r.from, r.to)
             first == Ceil(Later(shift.start, now))
         IN {t \in first .. shift.end - length : (t - first) % Step = 0 /\ Free(m, d, t, length)} :
         r \in {row \in RowsOf(m, d) : row.accepts}}

\* Who is asked for a day: masters that do all the services, or the one wanted.
Eligible == {m \in Staff : master[m].profile.accepts /\ master[m].profile.serves}

AskSlots ==
  /\ answer = Unasked
  /\ \E d \in Today .. Today + 1, length \in Durations, who \in SUBSET Eligible \ {{}} :
       /\ who = Eligible \/ Cardinality(who) = 1
       /\ answer' = [kind |-> "slots", day |-> d, length |-> length, who |-> who,
                     slots |-> [m \in who |-> SlotsOf(m, d, length)]]
  /\ UNCHANGED <<master, now>>

-----------------------------------------------------------------------------
(* The catalogue.                                                          *)

OnShift(m) ==
  \E d \in {Today - 1, Today} : \E r \in RowsOf(m, d) :
    LET shift == Interval(d, r.from, r.to) IN shift.start <= now /\ now < shift.end

\* "SOON" stands for SOON_AVAILABLE once its time or its minutes are over.
BookableNow(m) == master[m].profile.status \in {"AVAILABLE", "SOON"}

\* The bookings of m in some salons.
BookedIn(m, salons) == {b \in master[m].bookings : b.salon \in salons}

Busy(m, bookings) ==
  \/ \E b \in bookings : Current(b) /\ b.start <= now /\ now < b.end
  \/ master[m].profile.status = "BUSY"

\* Of these the catalogue reads those to come within a week.
Loaded(bookings) ==
  {b \in bookings : Active(b) /\ b.end > now /\ b.start < now + Week * Day}

\* One booking in the way of cursor c: it is over, it comes later, or it is passed.
Passed(c, b) ==
  IF c.found \/ b.end <= c.at THEN c
  ELSE IF b.start > c.at THEN [c EXCEPT !.found = TRUE]
  ELSE [c EXCEPT !.at = b.end]

LastOf(bookings) == CHOOSE b \in bookings : \A a \in bookings : a.start <= b.start

\* The first free moment of an interval, or its end: bookings are passed in the
\* order of their starts.
FreeIn(bookings, i) ==
  LET blocking == {b \in Loaded(bookings) : Meet(b.start, b.end, i)}
  IN MapThenFoldSet(LAMBDA b, c : Passed(c, b), [at |-> Later(i.start, now), found |-> FALSE],
                    LAMBDA b : b, LAMBDA s : LastOf(s), blocking).at

\* The shifts of a week from today on, in their order; breaks count for nothing.
Shifts(m) ==
  UNION {{Interval(d, r.from, r.to) : r \in {row \in RowsOf(m, d) : row.accepts}} :
         d \in Today .. Today + Week - 1}

\* The first free moment of each shift that has one; of several shifts the first.
NextSlots(m, bookings) ==
  LET open == {i \in Shifts(m) : i.end > now /\ FreeIn(bookings, i) < i.end}
  IN {FreeIn(bookings, i) : i \in {j \in open : \A k \in open : j.start <= k.start}}

Available(m, bookings) ==
  /\ OnShift(m)
  /\ master[m].profile.accepts
  /\ ~Busy(m, bookings)
  /\ BookableNow(m)

\* Wherever a booking is.
Anywhere == {b.salon : b \in UNION Booked}

\* A master that works alone: the bookings are read by master.
AskMaster ==
  /\ answer = Unasked
  /\ \E m \in Staff :
       LET bookings == master[m].bookings
       IN answer' = [kind |-> "told", who |-> {m}, salons |-> Anywhere,
                     onShift |-> IF OnShift(m) THEN 1 ELSE 0,
                     available |-> IF Available(m, bookings) THEN 1 ELSE 0,
                     busy |-> IF OnShift(m) /\ Busy(m, bookings) THEN 1 ELSE 0,
                     next |-> NextSlots(m, bookings),
                     online |-> master[m].profile.accepts /\ NextSlots(m, bookings) # {}]
  /\ UNCHANGED <<master, now>>

\* The salon's masters who offer one of its services.
Serving == {m \in Staff : master[m].profile.serves}

AtWork == {m \in Staff : OnShift(m)}

\* The first of the next free moments of those one can book.
NextOfSalon(list) ==
  LET next == UNION {NextSlots(m, BookedIn(m, list)) : m \in Eligible}
  IN {t \in next : \A u \in next : t <= u}

\* A salon of a list; priced says that one of its services has a price.  The
\* bookings are read by salon: those of its masters elsewhere are not seen, unless
\* the list tells of that salon too.
AskSalon(list, priced) ==
  /\ answer = Unasked
  /\ answer' = [kind |-> "told", who |-> Eligible, salons |-> list,
                onShift |-> Cardinality(AtWork),
                available |-> Cardinality({m \in Serving : Available(m, BookedIn(m, list))}),
                busy |-> Cardinality({m \in AtWork : Busy(m, BookedIn(m, list))}),
                next |-> NextOfSalon(list),
                online |-> priced /\ NextOfSalon(list) # {}]
  /\ UNCHANGED <<master, now>>

-----------------------------------------------------------------------------
(* The master's page: buildAvailabilityWeek.                               *)

MinuteOf(t) == (t - (t % Minute)) % Day

\* MastersService.getById: the bookings the page is given, of a day before and a
\* week after the moment it asks.
Given(m) ==
  {b \in master[m].bookings : Active(b) /\ b.start >= now - Day /\ b.start <= now + Week * Day}

\* The day it is for a browser in zone z.
HomeToday(z) == (now + z) \div Day

\* toISOString of the midnight that begins day d of zone z: its date on the server's
\* clock, for zones ahead of that the day before.
DateOf(d, z) == (d * Day - z) \div Day

\* Bookings that begin on that date of the server's, as minutes of the browser's
\* day; one that ends after midnight ends early.
BusyOn(m, d, z) ==
  {<<MinuteOf(b.start + z), MinuteOf(b.end + z)>> :
     b \in {x \in Given(m) : x.start \div Day = DateOf(d, z)}}

\* Breaks that end before they begin are dropped.
PausesOf(r) == {p \in r.breaks : p[2] > p[1]}

Hits(intervals, from, to) == \E i \in intervals : from < i[2] /\ i[1] < to

\* Mutant: a cell is free if it is free itself, however long the visit takes.
CellShort(r, busy, t, length, home) ==
  IF Hits(PausesOf(r), t, t + Step) THEN "PAUSE"
  ELSE IF Hits(busy, t, t + Step) THEN "BUSY"
  ELSE IF t + length > r.to \/ (home /\ ~r.home) THEN "OFF_DUTY"
  ELSE "FREE"

\* The cell of row r that begins at t, on a day with busy intervals.
Cell(r, busy, t, length, home) ==
  LET cell == IF t + Step < r.to THEN t + Step ELSE r.to
  IN CASE Hits(PausesOf(r), t, cell) -> "PAUSE"
       [] Hits(busy, t, cell) /\ ~Hits(PausesOf(r), t, cell) -> "BUSY"
       [] OTHER -> IF \/ t + length > r.to
                      \/ Hits(PausesOf(r) \cup busy, t, t + length)
                      \/ home /\ ~r.home
                   THEN "OFF_DUTY" ELSE "FREE"

\* One row of a day is shown.  A free cell that begins at t is offered as minute t of
\* the date, on the server's clock.
AskWeek ==
  /\ answer = Unasked
  /\ \E m \in Staff, length \in Durations, home \in BOOLEAN, z \in Zones :
       \E d \in HomeToday(z) .. HomeToday(z) + Week - 1 : \E r \in RowsOf(m, d) :
         answer' = [kind |-> "week", who |-> m, zone |-> z, day |-> d, date |-> DateOf(d, z),
                    length |-> length, home |-> home, row |-> r,
                    cells |-> IF r.accepts
                              THEN [t \in {u \in r.from .. r.to - 1 : (u - r.from) % Step = 0} |->
                                      Cell(r, BusyOn(m, d, z), t, length, home)]
                              ELSE [t \in {} |-> "FREE"]]
  /\ UNCHANGED <<master, now>>

Next == AskSlots \/ AskMaster \/ AskWeek \/ \E list \in Lists, priced \in BOOLEAN : AskSalon(list, priced)

Spec == Init /\ [][Next]_vars
-----------------------------------------------------------------------------
(* Properties.                                                             *)

\* The type invariant: at most one next moment is told.
TypeOK ==
  /\ \A m \in Staff : master[m].rows \in Hours /\ master[m].bookings \in Booked
  /\ now \in Instants
  /\ answer.kind = "told" =>
       /\ answer.next \subseteq Nat
       /\ Cardinality(answer.next) <= 1

\* What "free" means to a reader of the tables, without cursors and boundaries:
\* the time is m's own, in hours that accept bookings, and none of the bookings is
\* there.
Idle(m, t, bookings) ==
  /\ \E d \in Today .. Today + Week - 1 : \E r \in RowsOf(m, d) :
       r.accepts /\ d * Day + r.from <= t /\ t < d * Day + r.to
  /\ \A b \in bookings : Active(b) => t < b.start \/ b.end <= t

\* Those moments of the raster of day d, not over by a minute, from which m is idle
\* for some time, without a break of the hours it falls into.
IdleSlots(m, d, length) ==
  {t \in d * Day .. (d + 1) * Day - 1 :
     /\ t % Step = 0
     /\ t + Minute > now
     /\ \A u \in t .. t + length - 1 : Idle(m, u, master[m].bookings)
     /\ \E r \in RowsOf(m, d) :
          /\ r.accepts
          /\ d * Day + r.from <= t
          /\ t + length <= d * Day + r.to
          /\ \A p \in r.breaks, u \in t .. t + length - 1 :
               ~(d * Day + p[1] <= u /\ u < d * Day + p[2] + (IF p[2] <= p[1] THEN Day ELSE 0))}

\* The slots offered are all the moments from which a master is idle for as long as
\* the services take.
SlotsExact ==
  answer.kind = "slots" =>
    \A m \in answer.who : answer.slots[m] = IdleSlots(m, answer.day, answer.length)

\* The next moment told is one at which a master is idle, none is before it, and
\* none is told only when there is none within the week; of a salon this is so as
\* far as the bookings of the listed salons tell.  Who is available is on shift and
\* not busy.
NextIsFirst ==
  answer.kind = "told" =>
    /\ answer.available + answer.busy <= answer.onShift
    /\ answer.next = LET idle == {t \in now .. (Today + Week) * Day :
                                    \E m \in answer.who : Idle(m, t, BookedIn(m, answer.salons))}
                     IN {t \in idle : \A u \in idle : t <= u}

\* A visit that begins at minute t of day d fits into the hours of that day, and
\* no booking is there, on the clock of zone z.
FitsIn(m, d, t, length, z) ==
  /\ \E r \in RowsOf(m, d) :
       /\ r.accepts
       /\ r.from <= t /\ t + length <= r.to
       /\ \A p \in r.breaks : ~Meet(t, t + length, Interval(0, p[1], p[2]))
  /\ LET start == d * Day + t - z
     IN \A b \in master[m].bookings : Active(b) => ~Meet(start, start + length, b)

\* What the page can show: a day with one row of hours, breaks that end after they
\* begin, and bookings that neither pass midnight nor begin or end within a minute,
\* each beginning on the date that its day has on the page.
Plain(m, d, z) ==
  /\ Cardinality(RowsOf(m, d)) = 1
  /\ \A r \in RowsOf(m, d) : PausesOf(r) = r.breaks
  /\ \A b \in master[m].bookings : Active(b) =>
       LET start == b.start + z
           end == b.end + z
       IN /\ start % Minute = 0 /\ end % Minute = 0
          /\ end <= (start \div Day + 1) * Day - Minute
          /\ b.start \div Day = DateOf(start \div Day, z)

\* On a plain day the page calls free only what is, its hours being those of the
\* browser's clock; and all of it, if the visit is not shorter than a cell.  Where
\* the browser's clock is the server's, that is what the server would let be booked
\* at the moment the page offers.
WeekAgrees ==
  /\ answer.kind = "week"
  /\ Plain(answer.who, answer.day, answer.zone)
  /\ answer.home => answer.row.home
  => \A t \in DOMAIN answer.cells :
       LET free == FitsIn(answer.who, answer.day, t, answer.length, answer.zone)
       IN /\ answer.cells[t] = "FREE" => free
          /\ free /\ answer.length >= Step => answer.cells[t] = "FREE"
          /\ answer.zone = 0 =>
               (free <=> Free(answer.who, answer.date, answer.date * Day + t, answer.length))

AnswersTrue == SlotsExact /\ NextIsFirst /\ WeekAgrees
=============================================================================
