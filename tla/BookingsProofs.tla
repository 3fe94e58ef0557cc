--------------------------- MODULE BookingsProofs ---------------------------
(***************************************************************************)
(* For every set of bookings, handlers, masters, times and shifts: the     *)
(* handlers of Bookings keep its types, never let two steady bookings of a *)
(* master meet, keep a history that is true and bookings in working time,  *)
(* and implement Calendar.  Handlers that run one at a time keep a history *)
(* that is a chain, decide legally, and double-book only across midnight;  *)
(* calls of createBooking that run together never double-book.             *)
(***************************************************************************)
EXTENDS MCBookingsApart, TLAPS

(* The inductive invariant.                                                *)

\* A handler that read a booking holds a status the booking has had.
ReadsWereReal ==
  \A r \in Requests :
    req[r].op \in {"status", "move", "moveChecked"} =>
      /\ booking[req[r].booking] # NoRow
      /\ req[r].read \in Past(req[r].booking)

\* The decision a handler is about to commit was legal for what it read.
DecisionsAreGuarded ==
  \A r \in Requests :
    req[r].op = "status" => Cal!Legal(req[r].read, req[r].next)

\* The status of a booking is one its history has seen.
StatusInPast ==
  \A b \in BookingIds : booking[b] # NoRow => booking[b].status \in Past(b)

\* Unless PostgreSQL has doomed it, a create in flight meets no steady booking.
CreatesAreClear ==
  \A r \in Requests : \A b \in BookingIds \ disturbed :
    req[r].op = "create" /\ req[r].fate = "open" =>
      ~Clashes(b, req[r].master, req[r].start, req[r].end)

IInv ==
  /\ TypeOK
  /\ ReadsWereReal
  /\ DecisionsAreGuarded
  /\ StatusInPast
  /\ CreatesAreClear
  /\ SteadyExclusion

-----------------------------------------------------------------------------
(* Facts about the data.                                                   *)

\* The slot arithmetic stays in the naturals.
LEMMA EndsAreNumbers == Durations \subseteq Nat /\ Ends \subseteq Nat
  BY QuotesAssumption, StartsAssumption DEF Durations, Ends

\* A row of the table is never mistaken for an absent one.
LEMMA RowsExist == \A row \in Row : row # NoRow /\ row.status # "absent"
  BY DEF Row, NoRow, Status

\* Appending a history row adds exactly the status it went to.
LEMMA PastOfAppend ==
  ASSUME NEW s \in Seq(Entry), NEW e \in Entry
  PROVE  {Append(s, e)[i].to : i \in DOMAIN Append(s, e)}
           = {s[i].to : i \in DOMAIN s} \cup {e.to}
  <1>1. Len(Append(s, e)) = Len(s) + 1 /\ Len(s) \in Nat
    OBVIOUS
  <1>2. DOMAIN Append(s, e) = 1 .. Len(s) + 1 /\ DOMAIN s = 1 .. Len(s)
    OBVIOUS
  <1>3. \A i \in 1 .. Len(s) : Append(s, e)[i] = s[i]
    OBVIOUS
  <1>4. Append(s, e)[Len(s) + 1] = e
    OBVIOUS
  <1>5. \A i \in 1 .. Len(s) + 1 : i \in 1 .. Len(s) \/ i = Len(s) + 1
    BY <1>1
  <1> QED
    BY <1>1, <1>2, <1>3, <1>4, <1>5

\* What Record does to every history and every Past.
LEMMA RecordAddsOne ==
  ASSUME TypeOK, NEW b \in BookingIds, NEW from, NEW to, NEW action,
         [from |-> from, to |-> to, action |-> action] \in Entry,
         Record(b, from, to, action)
  PROVE  /\ journal' \in [BookingIds -> Seq(Entry)]
         /\ Past(b)' = Past(b) \cup {to}
         /\ \A c \in BookingIds \ {b} : Past(c)' = Past(c)
  <1> DEFINE e == [from |-> from, to |-> to, action |-> action]
  <1>1. journal[b] \in Seq(Entry)
    BY DEF TypeOK
  <1>2. journal' = [journal EXCEPT ![b] = Append(journal[b], e)]
    BY DEF Record
  <1>3. journal'[b] = Append(journal[b], e)
    BY <1>2 DEF TypeOK
  <1>4. \A c \in BookingIds \ {b} : journal'[c] = journal[c]
    BY <1>2 DEF TypeOK
  <1>5. Append(journal[b], e) \in Seq(Entry)
    BY <1>1
  <1>6. journal' \in [BookingIds -> Seq(Entry)]
    BY <1>2, <1>5 DEF TypeOK
  <1>7. Past(b)' = Past(b) \cup {e.to}
    BY <1>1, <1>3, PastOfAppend DEF Past
  <1>8. \A c \in BookingIds \ {b} : Past(c)' = Past(c)
    BY <1>4 DEF Past
  <1> QED
    BY <1>6, <1>7, <1>8

\* A request record is of the shape its op says.
LEMMA RequestShapes ==
  ASSUME TypeOK, NEW r \in Requests
  PROVE  /\ req[r].op \in {"idle", "create", "status", "move", "moveChecked"}
         /\ req[r].op = "idle" <=> req[r] = Idle
         /\ req[r].op = "create" <=> req[r] \in CreateRequest
         /\ req[r].op = "status" <=> req[r] \in StatusRequest
         /\ req[r].op \in {"move", "moveChecked"} <=> req[r] \in MoveRequest
  BY DEF TypeOK, Idle, CreateRequest, StatusRequest, MoveRequest

\* The guard of the code admits only legal transitions of the calendar.
LEMMA GuardIsLegal ==
  ASSUME NEW current \in Status, NEW next \in Decisions,
         current # next, StatusGuard(current, next)
  PROVE  Cal!Legal(current, next)
  BY DEF StatusGuard, Cal!Legal, Decisions, Status

-----------------------------------------------------------------------------
(* Steps that bring no steady booking into anybody's way.                  *)

\* Whoever is steady and occupies time after the step did so before, there.
Calm ==
  \A b \in BookingIds \ disturbed' : Occupies(b)' =>
    /\ b \notin disturbed
    /\ Occupies(b)
    /\ booking'[b].master = booking[b].master
    /\ booking'[b].start = booking[b].start
    /\ booking'[b].end = booking[b].end

LEMMA CalmKeepsExclusion == SteadyExclusion /\ Calm => SteadyExclusion'
  BY DEF SteadyExclusion, Calm, DoubleBooked, Clashes, Occupies

LEMMA CalmKeepsClear ==
  ASSUME TypeOK, CreatesAreClear, Calm, NEW r \in Requests,
         \E v : req' = [req EXCEPT ![r] = v] /\ v.op # "create"
  PROVE  CreatesAreClear'
  <1>1. PICK v : req' = [req EXCEPT ![r] = v] /\ v.op # "create"
    OBVIOUS
  <1>2. \A p \in Requests : req'[p].op = "create" => req'[p] = req[p]
    BY <1>1 DEF TypeOK
  <1> QED
    BY <1>2 DEF CreatesAreClear, Calm, Clashes, Occupies

\* A step that writes no booking is calm.
LEMMA ReadersAreCalm == UNCHANGED <<booking, disturbed>> => Calm
  BY DEF Calm, Occupies

\* A step that writes neither bookings nor history keeps what handlers know.
LEMMA ReadersKeepPast ==
  UNCHANGED <<booking, journal>> =>
    /\ \A b \in BookingIds : Past(b)' = Past(b)
    /\ StatusInPast => StatusInPast'
  BY DEF Past, StatusInPast

-----------------------------------------------------------------------------
(* One lemma per action.                                                   *)

LEMMA InitKeeps == Init => IInv
  <1> SUFFICES ASSUME Init PROVE IInv
    OBVIOUS
  <1>1. TypeOK
    BY BoundsAssumption DEF Init, TypeOK, NoRow, Idle
  <1>2. ReadsWereReal /\ DecisionsAreGuarded /\ CreatesAreClear
    BY DEF Init, ReadsWereReal, DecisionsAreGuarded, CreatesAreClear, Idle
  <1>3. StatusInPast
    BY DEF Init, StatusInPast
  <1>4. SteadyExclusion
    BY DEF Init, SteadyExclusion, DoubleBooked, Occupies, Active, NoRow
  <1> QED
    BY <1>1, <1>2, <1>3, <1>4 DEF IInv

LEMMA CreateSnapshotKeeps ==
  ASSUME IInv, NEW r \in Requests, CreateSnapshot(r)
  PROVE  IInv'
  <1> USE DEF IInv
  <1>1. PICK s \in Starts, q \in Quotes, initial \in {"pending", "confirmed"},
            m \in Masters :
          /\ \A b \in BookingIds : ~Clashes(b, m, s, s + q.total)
          /\ req' = [req EXCEPT ![r] =
                       [op |-> "create", master |-> m, start |-> s,
                        end |-> s + q.total, base |-> q.base,
                        initial |-> initial, fate |-> "open"]]
    BY DEF CreateSnapshot
  <1> DEFINE new == [op |-> "create", master |-> m, start |-> s,
                     end |-> s + q.total, base |-> q.base,
                     initial |-> initial, fate |-> "open"]
  <1>2. UNCHANGED <<booking, journal, disturbed, now>>
    BY DEF CreateSnapshot
  <1>3. new \in CreateRequest
    BY DEF CreateRequest, Ends, Durations
  <1>4. TypeOK'
    BY <1>1, <1>2, <1>3 DEF TypeOK
  <1>5. \A p \in Requests : p # r => req'[p] = req[p]
    BY <1>1 DEF TypeOK
  <1>6. req'[r] = new
    BY <1>1 DEF TypeOK
  <1>7. ReadsWereReal' /\ DecisionsAreGuarded'
    <2>1. \A p \in Requests : req'[p].op \in {"status", "move", "moveChecked"}
            => /\ req'[p] = req[p]
               /\ req[p].booking \in BookingIds
      BY <1>5, <1>6, RequestShapes DEF StatusRequest, MoveRequest
    <2> QED
      BY <2>1, <1>2, ReadersKeepPast DEF ReadsWereReal, DecisionsAreGuarded
  <1>8. CreatesAreClear'
    <2> SUFFICES ASSUME NEW p \in Requests, NEW b \in BookingIds \ disturbed,
                        req'[p].op = "create", req'[p].fate = "open"
                 PROVE  ~Clashes(b, req[p].master, req[p].start, req[p].end)'
      BY <1>2 DEF CreatesAreClear
    <2>1. CASE p = r
      BY <2>1, <1>1, <1>2, <1>6 DEF Clashes, Occupies
    <2>2. CASE p # r
      BY <2>2, <1>2, <1>5 DEF CreatesAreClear, Clashes, Occupies
    <2> QED
      BY <2>1, <2>2
  <1>9. StatusInPast' /\ SteadyExclusion'
    BY <1>2, ReadersKeepPast, ReadersAreCalm, CalmKeepsExclusion
  <1> QED
    BY <1>4, <1>7, <1>8, <1>9

LEMMA CreateCommitKeeps ==
  ASSUME IInv, NEW r \in Requests, CreateCommit(r)
  PROVE  IInv'
  <1> USE DEF IInv
  <1>1. PICK b \in BookingIds :
          /\ booking[b] = NoRow
          /\ booking' = [booking EXCEPT ![b] = NewRow(r)]
          /\ Record(b, "none", req[r].initial, "BOOKING_CREATED")
    BY DEF CreateCommit
  <1>2. /\ req[r].op = "create"
        /\ req[r].fate = "open"
        /\ UNCHANGED <<disturbed, now>>
    BY DEF CreateCommit
  <1>3. req[r] \in CreateRequest
    BY <1>2, RequestShapes
  <1>4. NewRow(r) \in Row /\ NewRow(r) # NoRow /\ NewRow(r).status = req[r].initial
    BY <1>3, RowsExist DEF NewRow, Row, CreateRequest, Status
  <1>5. [from |-> "none", to |-> req[r].initial, action |-> "BOOKING_CREATED"] \in Entry
    BY <1>3 DEF Entry, CreateRequest, Status
  <1>6. /\ journal' \in [BookingIds -> Seq(Entry)]
        /\ Past(b)' = Past(b) \cup {req[r].initial}
        /\ \A c \in BookingIds \ {b} : Past(c)' = Past(c)
    BY <1>1, <1>5, RecordAddsOne
  <1>7. booking'[b] = NewRow(r) /\ \A c \in BookingIds \ {b} : booking'[c] = booking[c]
    BY <1>1 DEF TypeOK
  <1>8. req' = [p \in Requests |->
                 IF p = r THEN Idle
                 ELSE IF Excludes(p, r) THEN [req[p] EXCEPT !.fate = "doomed"]
                 ELSE req[p]]
    BY DEF CreateCommit
  <1>9. ASSUME NEW p \in Requests
        PROVE  \/ req'[p] = Idle
               \/ req'[p] = req[p] /\ ~Excludes(p, r)
               \/ /\ req[p] \in CreateRequest
                  /\ req'[p] \in CreateRequest
                  /\ req'[p].op = "create"
                  /\ req'[p].fate = "doomed"
    <2>1. CASE p = r
      BY <2>1, <1>8
    <2>2. CASE p # r /\ ~Excludes(p, r)
      BY <2>2, <1>8
    <2>3. CASE p # r /\ Excludes(p, r)
      <3>1. req[p] \in CreateRequest
        BY <2>3, RequestShapes DEF Excludes
      <3>2. req'[p] = [req[p] EXCEPT !.fate = "doomed"]
        BY <2>3, <1>8
      <3> QED
        BY <3>1, <3>2 DEF CreateRequest
    <2> QED
      BY <2>1, <2>2, <2>3
  <1>11. TypeOK'
    <2>1. booking' \in [BookingIds -> Row \cup {NoRow}]
      BY <1>1, <1>4 DEF TypeOK
    <2>2. req' \in [Requests -> {Idle} \cup CreateRequest \cup StatusRequest
                                          \cup MoveRequest]
      BY <1>8, <1>9 DEF TypeOK
    <2> QED
      BY <2>1, <2>2, <1>2, <1>6 DEF TypeOK
  <1>12. ReadsWereReal' /\ DecisionsAreGuarded'
    <2>1. \A p \in Requests : req'[p].op \in {"status", "move", "moveChecked"}
            => req'[p] = req[p]
      BY <1>9, RequestShapes DEF Idle
    <2>2. \A c \in BookingIds : booking[c] # NoRow => booking'[c] # NoRow
      BY <1>1, <1>7
    <2>3. \A c \in BookingIds : Past(c) \subseteq Past(c)'
      BY <1>6
    <2>4. \A p \in Requests : req[p].op \in {"status", "move", "moveChecked"}
            => req[p].booking \in BookingIds
      BY RequestShapes DEF StatusRequest, MoveRequest
    <2> QED
      BY <2>1, <2>2, <2>3, <2>4 DEF ReadsWereReal, DecisionsAreGuarded
  <1>13. StatusInPast'
    BY <1>4, <1>6, <1>7 DEF StatusInPast
  <1>14. CreatesAreClear'
    <2> SUFFICES ASSUME NEW p \in Requests, NEW c \in BookingIds \ disturbed,
                        req'[p].op = "create", req'[p].fate = "open"
                 PROVE  ~Clashes(c, req[p].master, req[p].start, req[p].end)'
      BY <1>2 DEF CreatesAreClear
    <2>1. req'[p] = req[p] /\ ~Excludes(p, r) /\ req[p] \in CreateRequest
      BY <1>9, RequestShapes DEF Idle
    <2>2. CASE c = b
      BY <2>1, <2>2, <1>7 DEF Excludes, Clashes, NewRow, Overlaps
    <2>3. CASE c # b
      BY <2>1, <2>3, <1>7 DEF CreatesAreClear, Clashes, Occupies
    <2> QED
      BY <2>2, <2>3
  <1>15. SteadyExclusion'
    <2> SUFFICES ASSUME NEW c \in BookingIds \ disturbed,
                        NEW d \in BookingIds \ disturbed, c # d,
                        DoubleBooked(c, d)'
                 PROVE  FALSE
      BY <1>2 DEF SteadyExclusion
    <2>1. CASE c = b
      BY <2>1, <1>2, <1>7 DEF DoubleBooked, Clashes, Occupies, NewRow,
                              CreatesAreClear, Overlaps
    <2>2. CASE d = b
      BY <2>2, <1>2, <1>7 DEF DoubleBooked, Clashes, Occupies, NewRow,
                              CreatesAreClear
    <2>3. CASE c # b /\ d # b
      BY <2>3, <1>7 DEF SteadyExclusion, DoubleBooked, Clashes, Occupies
    <2> QED
      BY <2>1, <2>2, <2>3
  <1> QED
    BY <1>11, <1>12, <1>13, <1>14, <1>15

\* A handler that reads, checks or ends replaces its record and nothing else.
LEMMA ReaderKeeps ==
  ASSUME IInv, NEW r \in Requests, NEW v \in {Idle} \cup StatusRequest \cup MoveRequest,
         req' = [req EXCEPT ![r] = v],
         UNCHANGED <<booking, journal, disturbed>>,
         now' \in 0..LastNow,
         v.op \in {"status", "move", "moveChecked"} =>
           booking[v.booking] # NoRow /\ v.read \in Past(v.booking),
         v.op = "status" => Cal!Legal(v.read, v.next)
  PROVE  IInv'
  <1> USE DEF IInv
  <1>1. req'[r] = v /\ \A p \in Requests : p # r => req'[p] = req[p]
    BY DEF TypeOK
  <1>2. TypeOK'
    BY DEF TypeOK
  <1>3. ReadsWereReal'
    <2>1. \A p \in Requests : req'[p].op \in {"status", "move", "moveChecked"}
            => /\ req'[p].booking \in BookingIds
               /\ booking[req'[p].booking] # NoRow
               /\ req'[p].read \in Past(req'[p].booking)
      BY <1>1, RequestShapes DEF ReadsWereReal, StatusRequest, MoveRequest, Idle
    <2> QED
      BY <2>1, ReadersKeepPast DEF ReadsWereReal
  <1>4. DecisionsAreGuarded'
    BY <1>1 DEF DecisionsAreGuarded
  <1>5. v.op # "create"
    BY DEF Idle, StatusRequest, MoveRequest
  <1>6. CreatesAreClear'
    BY <1>5, ReadersAreCalm, CalmKeepsClear
  <1>7. StatusInPast' /\ SteadyExclusion'
    BY ReadersKeepPast, ReadersAreCalm, CalmKeepsExclusion
  <1> QED
    BY <1>2, <1>3, <1>4, <1>6, <1>7

LEMMA StatusReadKeeps ==
  ASSUME IInv, NEW r \in Requests, StatusRead(r)
  PROVE  IInv'
  <1>1. PICK b \in BookingIds, next \in Decisions :
          /\ booking[b] # NoRow
          /\ booking[b].status # next
          /\ StatusGuard(booking[b].status, next)
          /\ req' = [req EXCEPT ![r] = [op |-> "status", booking |-> b,
                                        read |-> booking[b].status, next |-> next]]
    BY DEF StatusRead
  <1> DEFINE v == [op |-> "status", booking |-> b,
                   read |-> booking[b].status, next |-> next]
  <1>2. booking[b].status \in Status /\ booking[b].status \in Past(b)
    BY <1>1 DEF IInv, TypeOK, Row, StatusInPast
  <1>3. v \in StatusRequest
    BY <1>2 DEF StatusRequest
  <1>4. Cal!Legal(v.read, v.next)
    BY <1>1, <1>2, GuardIsLegal
  <1>5. UNCHANGED <<booking, journal, disturbed, now>> /\ now \in 0..LastNow
    BY DEF StatusRead, IInv, TypeOK
  <1> QED
    BY <1>1, <1>2, <1>3, <1>4, <1>5, ReaderKeeps

LEMMA MoveReadKeeps ==
  ASSUME IInv, NEW r \in Requests, MoveRead(r)
  PROVE  IInv'
  <1>1. PICK b \in BookingIds, s \in Starts :
          /\ booking[b] # NoRow
          /\ req' = [req EXCEPT ![r] = [op |-> "move", booking |-> b,
                                        read |-> booking[b].status, start |-> s,
                                        end |-> s + booking[b].base]]
    BY DEF MoveRead
  <1> DEFINE v == [op |-> "move", booking |-> b, read |-> booking[b].status,
                   start |-> s, end |-> s + booking[b].base]
  <1>2. /\ booking[b].status \in Status
        /\ booking[b].status \in Past(b)
        /\ booking[b].base \in Durations
    BY <1>1 DEF IInv, TypeOK, Row, StatusInPast
  <1>3. v \in MoveRequest
    BY <1>2 DEF MoveRequest, Ends
  <1>4. UNCHANGED <<booking, journal, disturbed, now>> /\ now \in 0..LastNow
    BY DEF MoveRead, IInv, TypeOK
  <1> QED
    BY <1>1, <1>2, <1>3, <1>4, ReaderKeeps

LEMMA MoveCheckKeeps ==
  ASSUME IInv, NEW r \in Requests, MoveCheck(r)
  PROVE  IInv'
  <1> DEFINE v == [req[r] EXCEPT !.op = "moveChecked"]
  <1>1. req[r].op = "move" /\ req[r] \in MoveRequest
    BY RequestShapes DEF MoveCheck, IInv
  <1>2. /\ v \in MoveRequest
        /\ v.op = "moveChecked"
        /\ v.booking = req[r].booking
        /\ v.read = req[r].read
    BY <1>1 DEF MoveRequest
  <1>3. req' = [req EXCEPT ![r] = v]
    BY DEF MoveCheck
  <1>4. booking[v.booking] # NoRow /\ v.read \in Past(v.booking)
    BY <1>1, <1>2 DEF IInv, ReadsWereReal
  <1>5. UNCHANGED <<booking, journal, disturbed, now>> /\ now \in 0..LastNow
    BY DEF MoveCheck, IInv, TypeOK
  <1> QED
    BY <1>2, <1>3, <1>4, <1>5, ReaderKeeps

LEMMA AbandonKeeps ==
  ASSUME IInv, NEW r \in Requests, Abandon(r)
  PROVE  IInv'
  <1>1. Idle.op = "idle"
    BY DEF Idle
  <1>2. UNCHANGED <<booking, journal, disturbed, now>> /\ now \in 0..LastNow
    BY DEF Abandon, IInv, TypeOK
  <1> QED
    BY <1>1, <1>2, ReaderKeeps DEF Abandon, Finish

\* The clock, and stuttering, touch no table and no handler.
LEMMA ClockKeeps ==
  ASSUME IInv, UNCHANGED <<booking, journal, disturbed, req>>, now' \in 0..LastNow
  PROVE  IInv'
  <1> USE DEF IInv
  <1>1. TypeOK'
    BY DEF TypeOK
  <1>2. ReadsWereReal' /\ DecisionsAreGuarded'
    <2>1. \A r \in Requests : req[r].op \in {"status", "move", "moveChecked"}
            => req[r].booking \in BookingIds
      BY RequestShapes DEF StatusRequest, MoveRequest
    <2> QED
      BY <2>1, ReadersKeepPast DEF ReadsWereReal, DecisionsAreGuarded
  <1>3. CreatesAreClear'
    BY DEF CreatesAreClear, Clashes, Occupies
  <1>4. StatusInPast' /\ SteadyExclusion'
    BY ReadersKeepPast, ReadersAreCalm, CalmKeepsExclusion
  <1> QED
    BY <1>1, <1>2, <1>3, <1>4

\* A commit on an existing booking: the row stays a row, the history gains one
\* entry, and nobody steady gets in the way.
LEMMA WriterKeeps ==
  ASSUME IInv, NEW r \in Requests, NEW b \in BookingIds, NEW row \in Row,
         NEW from \in Status, NEW action,
         action \in {"BOOKING_STATUS", "BOOKING_RESCHEDULED"},
         booking[b] # NoRow,
         booking' = [booking EXCEPT ![b] = row],
         Record(b, from, row.status, action),
         Calm, disturbed' \subseteq BookingIds, Finish(r), UNCHANGED now
  PROVE  IInv'
  <1> USE DEF IInv
  <1>1. [from |-> from, to |-> row.status, action |-> action] \in Entry
    BY DEF Entry, Row
  <1>2. /\ journal' \in [BookingIds -> Seq(Entry)]
        /\ Past(b)' = Past(b) \cup {row.status}
        /\ \A c \in BookingIds \ {b} : Past(c)' = Past(c)
    BY <1>1, RecordAddsOne
  <1>3. TypeOK'
    BY <1>2 DEF TypeOK, Finish
  <1>4. booking'[b] = row /\ \A c \in BookingIds \ {b} : booking'[c] = booking[c]
    BY DEF TypeOK
  <1>5. \A p \in Requests : req'[p].op # "idle" => req'[p] = req[p]
    BY DEF Finish, TypeOK, Idle
  <1>6. ReadsWereReal' /\ DecisionsAreGuarded'
    <2>1. \A p \in Requests : req'[p].op \in {"status", "move", "moveChecked"}
            => req'[p] = req[p] /\ req[p].booking \in BookingIds
      BY <1>5, RequestShapes DEF StatusRequest, MoveRequest
    <2>2. \A c \in BookingIds : booking[c] # NoRow => booking'[c] # NoRow
      BY <1>4, RowsExist
    <2>3. \A c \in BookingIds : Past(c) \subseteq Past(c)'
      BY <1>2
    <2> QED
      BY <2>1, <2>2, <2>3 DEF ReadsWereReal, DecisionsAreGuarded
  <1>7. StatusInPast'
    BY <1>2, <1>4 DEF StatusInPast
  <1>8. CreatesAreClear'
    <2>1. Idle.op # "create"
      BY DEF Idle
    <2>2. req' = [req EXCEPT ![r] = Idle]
      BY DEF Finish
    <2>3. \E v : req' = [req EXCEPT ![r] = v] /\ v.op # "create"
      BY <2>1, <2>2
    <2> QED
      BY <2>3, CalmKeepsClear
  <1>9. SteadyExclusion'
    BY CalmKeepsExclusion
  <1> QED
    BY <1>3, <1>6, <1>7, <1>8, <1>9

LEMMA StatusCommitKeeps ==
  ASSUME IInv, NEW r \in Requests, StatusCommit(r)
  PROVE  IInv'
  <1> DEFINE b == req[r].booking
             next == req[r].next
             row == [booking[b] EXCEPT !.status = next]
  <1>1. req[r].op = "status" /\ req[r] \in StatusRequest
    BY RequestShapes DEF StatusCommit, IInv
  <1>2. b \in BookingIds /\ next \in Status /\ req[r].read \in Status
    BY <1>1 DEF StatusRequest, Decisions, Status
  <1>3. booking[b] \in Row /\ booking[b] # NoRow
    BY <1>1, <1>2 DEF IInv, ReadsWereReal, TypeOK
  <1>4. /\ row \in Row
        /\ row.status = next
        /\ row.master = booking[b].master
        /\ row.start = booking[b].start
        /\ row.end = booking[b].end
    BY <1>2, <1>3 DEF Row
  <1>5. /\ booking' = [booking EXCEPT ![b] = row]
        /\ Record(b, req[r].read, next, "BOOKING_STATUS")
        /\ disturbed' = IF Reopens(b, next) THEN disturbed \cup {b} ELSE disturbed
        /\ Finish(r)
        /\ UNCHANGED now
    BY DEF StatusCommit
  <1>6. booking'[b] = row /\ \A c \in BookingIds \ {b} : booking'[c] = booking[c]
    BY <1>2, <1>5 DEF IInv, TypeOK
  <1>7. Calm
    BY <1>4, <1>5, <1>6 DEF Calm, Occupies, Reopens
  <1>8. disturbed' \subseteq BookingIds
    BY <1>2, <1>5 DEF IInv, TypeOK
  <1>9. Record(b, req[r].read, row.status, "BOOKING_STATUS")
    BY <1>4, <1>5
  <1> HIDE DEF b, next, row
  <1> QED
    BY <1>2, <1>3, <1>4, <1>5, <1>7, <1>8, <1>9, WriterKeeps

LEMMA MoveCommitKeeps ==
  ASSUME IInv, NEW r \in Requests, MoveCommit(r)
  PROVE  IInv'
  <1> DEFINE b == req[r].booking
             to == MovedStatus(req[r].read)
             row == [booking[b] EXCEPT !.start = req[r].start,
                                       !.end = req[r].end, !.status = to]
  <1>1. req[r].op = "moveChecked" /\ req[r] \in MoveRequest
    BY RequestShapes DEF MoveCommit, IInv
  <1>2. /\ b \in BookingIds
        /\ to \in Status
        /\ req[r].read \in Status
        /\ req[r].start \in Starts
        /\ req[r].end \in Ends
    BY <1>1 DEF MoveRequest, MovedStatus, Status
  <1>3. booking[b] \in Row /\ booking[b] # NoRow
    BY <1>1, <1>2 DEF IInv, ReadsWereReal, TypeOK
  <1>4. row \in Row /\ row.status = to
    BY <1>2, <1>3 DEF Row
  <1>5. /\ booking' = [booking EXCEPT ![b] = row]
        /\ Record(b, req[r].read, to, "BOOKING_RESCHEDULED")
        /\ disturbed' = disturbed \cup {b}
        /\ Finish(r)
        /\ UNCHANGED now
    BY DEF MoveCommit
  <1>6. \A c \in BookingIds \ {b} : booking'[c] = booking[c]
    BY <1>5 DEF IInv, TypeOK
  <1>7. Calm
    BY <1>5, <1>6 DEF Calm, Occupies
  <1>8. disturbed' \subseteq BookingIds
    BY <1>2, <1>5 DEF IInv, TypeOK
  <1>9. Record(b, req[r].read, row.status, "BOOKING_RESCHEDULED")
    BY <1>4, <1>5
  <1> HIDE DEF b, to, row
  <1> QED
    BY <1>2, <1>3, <1>4, <1>5, <1>7, <1>8, <1>9, WriterKeeps

-----------------------------------------------------------------------------
(* The theorems.                                                           *)

LEMMA NextKeeps == IInv /\ [Next]_vars => IInv'
  <1> SUFFICES ASSUME IInv, [Next]_vars PROVE IInv'
    OBVIOUS
  <1>1. CASE Tick
    BY <1>1, BoundsAssumption, ClockKeeps DEF Tick, IInv, TypeOK
  <1>2. ASSUME NEW r \in Requests, Step(r)
        PROVE  IInv'
    BY <1>2, CreateSnapshotKeeps, CreateCommitKeeps, StatusReadKeeps,
       StatusCommitKeeps, MoveReadKeeps, MoveCheckKeeps, MoveCommitKeeps,
       AbandonKeeps DEF Step
  <1>3. CASE UNCHANGED vars
    BY <1>3, ClockKeeps DEF vars, IInv, TypeOK
  <1> QED
    BY <1>1, <1>2, <1>3 DEF Next

\* The strengthened invariant of the booking handlers holds in every state.
THEOREM InductiveInvariant == Spec => []IInv
  BY InitKeeps, NextKeeps, PTL DEF Spec

\* The tables and the handlers' local variables keep their types: a commit
\* never writes to a booking that does not exist.
THEOREM TypeCorrect == Spec => []TypeOK
  <1>1. IInv => TypeOK
    BY DEF IInv
  <1> QED
    BY <1>1, InductiveInvariant, PTL

\* Whatever creates, moves and decisions interleave, two bookings that were
\* neither moved nor reopened never occupy a master at the same time.
THEOREM SteadyBookingsExclude == Spec => []SteadyExclusion
  <1>1. IInv => SteadyExclusion
    BY DEF IInv
  <1> QED
    BY <1>1, InductiveInvariant, PTL

-----------------------------------------------------------------------------
(* The history, row by row.                                                *)

\* A booking that was not made has no history.
UnmadeHasNone == \A b \in BookingIds : booking[b] = NoRow => journal[b] = <<>>

JInv == UnmadeHasNone /\ JournalTellsStatus /\ DecisionsWereLegal

\* Where the rows of a lengthened history are.
LEMMA AppendedAt ==
  ASSUME NEW s \in Seq(Entry), NEW e \in Entry
  PROVE  /\ Len(s) \in Nat
         /\ DOMAIN s = 1 .. Len(s)
         /\ DOMAIN Append(s, e) = 1 .. Len(s) + 1
         /\ Len(Append(s, e)) = Len(s) + 1
         /\ Append(s, e)[Len(s) + 1] = e
         /\ \A i \in 1 .. Len(s) : Append(s, e)[i] = s[i]
         /\ s # <<>> => Len(s) >= 1
  OBVIOUS

LEMMA InitJournal == Init => JInv
  BY DEF Init, JInv, UnmadeHasNone, JournalTellsStatus, DecisionsWereLegal

\* A step that writes neither rows nor history.
LEMMA UnwrittenKeepsJournal ==
  ASSUME JInv, UNCHANGED <<booking, journal>>
  PROVE  JInv'
  <1>1. UnmadeHasNone'
    BY DEF JInv, UnmadeHasNone
  <1>2. JournalTellsStatus'
    BY DEF JInv, JournalTellsStatus
  <1>3. DecisionsWereLegal'
    BY DEF JInv, DecisionsWereLegal, Cal!Legal
  <1> QED
    BY <1>1, <1>2, <1>3 DEF JInv

\* A row of a booking and its history entry, written together.
LEMMA WrittenKeepsJournal ==
  ASSUME TypeOK, JInv, NEW b \in BookingIds, NEW from, NEW to, NEW action,
         [from |-> from, to |-> to, action |-> action] \in Entry,
         Record(b, from, to, action),
         booking'[b] # NoRow, booking'[b].status = to,
         \A c \in BookingIds \ {b} : booking'[c] = booking[c],
         \/ booking[b] = NoRow /\ action = "BOOKING_CREATED"
         \/ booking[b] # NoRow /\ from \in Past(b),
         action = "BOOKING_STATUS" => Cal!Legal(from, to)
  PROVE  JInv'
  <1> DEFINE s == journal[b]
             e == [from |-> from, to |-> to, action |-> action]
             n == Len(s)
  <1>1. s \in Seq(Entry) /\ e \in Entry
    BY DEF TypeOK
  <1>2. journal'[b] = Append(s, e) /\ \A c \in BookingIds \ {b} : journal'[c] = journal[c]
    BY DEF Record, TypeOK
  <1>3. e.from = from /\ e.to = to /\ e.action = action
    OBVIOUS
  <1>4. booking[b] = NoRow <=> s = <<>>
    BY DEF JInv, UnmadeHasNone, JournalTellsStatus
  <1> HIDE DEF s, e
  <1>5. /\ n \in Nat
        /\ DOMAIN s = 1 .. n
        /\ DOMAIN journal'[b] = 1 .. n + 1
        /\ Len(journal'[b]) = n + 1
        /\ journal'[b][n + 1] = e
        /\ \A i \in 1 .. n : journal'[b][i] = s[i]
        /\ s # <<>> => n >= 1
        /\ s = <<>> => n = 0
    BY <1>1, <1>2, AppendedAt
  <1> HIDE DEF n
  <1>6. n > 0 => \E j \in 1 .. n : s[j].to = from
    BY <1>4, <1>5 DEF Past, s
  <1>7. UnmadeHasNone'
    BY <1>2 DEF JInv, UnmadeHasNone
  <1>8. JournalTellsStatus'
    <2> SUFFICES ASSUME NEW c \in BookingIds, booking'[c] # NoRow
                 PROVE  /\ journal'[c] # <<>>
                        /\ journal'[c][Len(journal'[c])].to = booking'[c].status
                        /\ \A i \in 2 .. Len(journal'[c]) :
                             \E j \in 1 .. i - 1 : journal'[c][j].to = journal'[c][i].from
      BY DEF JournalTellsStatus
    <2>1. CASE c # b
      BY <2>1, <1>2 DEF JInv, JournalTellsStatus
    <2>2. CASE c = b
      <3>1. journal'[b] # <<>>
        BY <1>5
      <3>2. journal'[b][Len(journal'[b])].to = booking'[b].status
        BY <1>3, <1>5
      <3>3. ASSUME NEW i \in 2 .. n + 1
            PROVE  \E j \in 1 .. i - 1 : journal'[b][j].to = journal'[b][i].from
        <4>1. CASE i = n + 1
          BY <4>1, <1>3, <1>5, <1>6
        <4>2. CASE i # n + 1
          <5>1. i \in 2 .. n /\ 1 .. i - 1 \subseteq 1 .. n /\ i \in 1 .. n
            BY <4>2, <1>5
          <5>2. s # <<>> /\ booking[b] # NoRow
            BY <5>1, <1>4, <1>5
          <5>3. PICK j \in 1 .. i - 1 : s[j].to = s[i].from
            BY <5>1, <5>2 DEF JInv, JournalTellsStatus, s, n
          <5> QED
            BY <5>1, <5>3, <1>5
        <4> QED
          BY <4>1, <4>2
      <3> QED
        BY <2>2, <3>1, <3>2, <3>3, <1>5
    <2> QED
      BY <2>1, <2>2
  <1>9. DecisionsWereLegal'
    <2> SUFFICES ASSUME NEW c \in BookingIds, NEW i \in DOMAIN journal'[c],
                        journal'[c][i].action = "BOOKING_STATUS"
                 PROVE  \E j \in 1 .. i - 1 : Cal!Legal(journal'[c][j].to, journal'[c][i].to)
      BY DEF DecisionsWereLegal, Cal!Legal
    <2>1. CASE c # b
      BY <2>1, <1>2 DEF JInv, DecisionsWereLegal
    <2>2. CASE c = b /\ i = n + 1
      <3>1. action = "BOOKING_STATUS" /\ n > 0
        BY <2>2, <1>3, <1>4, <1>5
      <3>2. PICK j \in 1 .. n : s[j].to = from
        BY <3>1, <1>6
      <3>3. Cal!Legal(journal'[b][j].to, journal'[b][n + 1].to)
        BY <3>1, <3>2, <1>3, <1>5
      <3> QED
        BY <2>2, <3>3, <1>5
    <2>3. CASE c = b /\ i # n + 1
      <3>1. i \in 1 .. n /\ s[i].action = "BOOKING_STATUS" /\ 1 .. i - 1 \subseteq 1 .. n
        BY <2>3, <1>5
      <3>2. PICK j \in 1 .. i - 1 : Cal!Legal(s[j].to, s[i].to)
        BY <3>1, <1>5 DEF JInv, DecisionsWereLegal, s
      <3> QED
        BY <2>3, <3>1, <3>2, <1>5
    <2> QED
      BY <2>1, <2>2, <2>3
  <1> QED
    BY <1>7, <1>8, <1>9 DEF JInv

LEMMA CreateCommitKeepsJournal ==
  ASSUME IInv, JInv, NEW r \in Requests, CreateCommit(r)
  PROVE  JInv'
  <1>1. PICK b \in BookingIds :
          /\ booking[b] = NoRow
          /\ booking' = [booking EXCEPT ![b] = NewRow(r)]
          /\ Record(b, "none", req[r].initial, "BOOKING_CREATED")
    BY DEF CreateCommit
  <1>2. req[r] \in CreateRequest
    BY RequestShapes DEF CreateCommit, IInv
  <1>3. NewRow(r) \in Row /\ NewRow(r) # NoRow /\ NewRow(r).status = req[r].initial
    BY <1>2, RowsExist DEF NewRow, Row, CreateRequest, Status
  <1>4. [from |-> "none", to |-> req[r].initial, action |-> "BOOKING_CREATED"] \in Entry
    BY <1>2 DEF Entry, CreateRequest, Status
  <1>5. booking'[b] = NewRow(r) /\ \A c \in BookingIds \ {b} : booking'[c] = booking[c]
    BY <1>1 DEF IInv, TypeOK
  <1> QED
    BY <1>1, <1>3, <1>4, <1>5, WrittenKeepsJournal DEF IInv

LEMMA StatusCommitKeepsJournal ==
  ASSUME IInv, JInv, NEW r \in Requests, StatusCommit(r)
  PROVE  JInv'
  <1> DEFINE b == req[r].booking
             row == [booking[b] EXCEPT !.status = req[r].next]
  <1>1. req[r].op = "status" /\ req[r] \in StatusRequest
    BY RequestShapes DEF StatusCommit, IInv
  <1>2. b \in BookingIds /\ req[r].next \in Status /\ req[r].read \in Status
    BY <1>1 DEF StatusRequest, Decisions, Status
  <1>3. booking[b] \in Row /\ booking[b] # NoRow /\ req[r].read \in Past(b)
    BY <1>1, <1>2 DEF IInv, ReadsWereReal, TypeOK
  <1>4. row \in Row /\ row.status = req[r].next /\ row # NoRow
    BY <1>2, <1>3, RowsExist DEF Row
  <1>5. booking' = [booking EXCEPT ![b] = row] /\ Record(b, req[r].read, req[r].next, "BOOKING_STATUS")
    BY DEF StatusCommit
  <1>6. booking'[b] = row /\ \A c \in BookingIds \ {b} : booking'[c] = booking[c]
    BY <1>2, <1>5 DEF IInv, TypeOK
  <1>7. [from |-> req[r].read, to |-> req[r].next, action |-> "BOOKING_STATUS"] \in Entry
    BY <1>2 DEF Entry
  <1>8. Cal!Legal(req[r].read, req[r].next)
    BY <1>1 DEF IInv, DecisionsAreGuarded
  <1> HIDE DEF b, row
  <1> QED
    BY <1>2, <1>3, <1>4, <1>5, <1>6, <1>7, <1>8, WrittenKeepsJournal DEF IInv

LEMMA MoveCommitKeepsJournal ==
  ASSUME IInv, JInv, NEW r \in Requests, MoveCommit(r)
  PROVE  JInv'
  <1> DEFINE b == req[r].booking
             to == MovedStatus(req[r].read)
             row == [booking[b] EXCEPT !.start = req[r].start,
                                       !.end = req[r].end, !.status = to]
  <1>1. req[r].op = "moveChecked" /\ req[r] \in MoveRequest
    BY RequestShapes DEF MoveCommit, IInv
  <1>2. /\ b \in BookingIds
        /\ to \in Status
        /\ req[r].read \in Status
        /\ req[r].start \in Starts
        /\ req[r].end \in Ends
    BY <1>1 DEF MoveRequest, MovedStatus, Status
  <1>3. booking[b] \in Row /\ booking[b] # NoRow /\ req[r].read \in Past(b)
    BY <1>1, <1>2 DEF IInv, ReadsWereReal, TypeOK
  <1>4. row \in Row /\ row.status = to /\ row # NoRow
    BY <1>2, <1>3, RowsExist DEF Row
  <1>5. booking' = [booking EXCEPT ![b] = row] /\ Record(b, req[r].read, to, "BOOKING_RESCHEDULED")
    BY DEF MoveCommit
  <1>6. booking'[b] = row /\ \A c \in BookingIds \ {b} : booking'[c] = booking[c]
    BY <1>2, <1>5 DEF IInv, TypeOK
  <1>7. [from |-> req[r].read, to |-> to, action |-> "BOOKING_RESCHEDULED"] \in Entry
    BY <1>2 DEF Entry
  <1> HIDE DEF b, to, row
  <1> QED
    BY <1>2, <1>3, <1>4, <1>5, <1>6, <1>7, WrittenKeepsJournal DEF IInv

LEMMA NextKeepsJournal == IInv /\ JInv /\ [Next]_vars => JInv'
  <1> SUFFICES ASSUME IInv, JInv, [Next]_vars PROVE JInv'
    OBVIOUS
  <1>1. CASE Tick \/ UNCHANGED vars
    BY <1>1, UnwrittenKeepsJournal DEF Tick, vars
  <1>2. ASSUME NEW r \in Requests, Step(r)
        PROVE  JInv'
    <2>1. CASE CreateSnapshot(r) \/ StatusRead(r) \/ MoveRead(r) \/ MoveCheck(r) \/ Abandon(r)
      BY <2>1, UnwrittenKeepsJournal DEF CreateSnapshot, StatusRead, MoveRead, MoveCheck, Abandon
    <2> QED
      BY <1>2, <2>1, CreateCommitKeepsJournal, StatusCommitKeepsJournal, MoveCommitKeepsJournal DEF Step
  <1> QED
    BY <1>1, <1>2 DEF Next

\* Although creation, decision and move write it from reads that may be stale,
\* the history of a booking tells its status, names only statuses the booking
\* has had, and records no decision that never was legal.
THEOREM JournalStaysTrue == Spec => []JournalIsTrue
  <1>1. JInv => JournalIsTrue
    BY DEF JInv, JournalIsTrue
  <1>2. Init => JInv
    BY InitJournal
  <1>3. IInv /\ JInv /\ [Next]_vars => JInv'
    BY NextKeepsJournal
  <1> QED
    BY <1>1, <1>2, <1>3, InductiveInvariant, PTL DEF Spec

-----------------------------------------------------------------------------
(* Every booking lies in its master's hours, however handlers interleave.  *)

\* What a handler is about to write passed the test of the working hours.
RequestsInHours ==
  \A r \in Requests :
    /\ req[r].op = "create" => InsideShift(req[r].master, req[r].start, req[r].end)
    /\ req[r].op = "moveChecked" =>
         InsideShift(booking[req[r].booking].master, req[r].start, req[r].end)

WInv == RequestsInHours /\ InsideWorkingTime

LEMMA InitInHours == Init => WInv
  BY DEF Init, WInv, RequestsInHours, InsideWorkingTime, Idle

\* A step that writes no booking, and lets no untested handler write one.
LEMMA UnwrittenInHours ==
  ASSUME TypeOK, WInv, UNCHANGED booking,
         \A r \in Requests :
           \/ req'[r] = req[r]
           \/ req'[r].op \notin {"create", "moveChecked"}
           \/ /\ req'[r].op = "create"
              /\ InsideShift(req'[r].master, req'[r].start, req'[r].end)
           \/ /\ req'[r].op = "moveChecked"
              /\ InsideShift(booking[req'[r].booking].master, req'[r].start, req'[r].end)
  PROVE  WInv'
  <1>1. InsideWorkingTime'
    BY DEF WInv, InsideWorkingTime
  <1>2. RequestsInHours'
    BY DEF WInv, RequestsInHours, InsideShift
  <1> QED
    BY <1>1, <1>2 DEF WInv

\* A commit that leaves its row in the hours of the master the row had, if any.
LEMMA WrittenInHours ==
  ASSUME IInv, WInv, NEW b \in BookingIds, NEW row \in Row,
         booking' = [booking EXCEPT ![b] = row],
         booking[b] # NoRow => row.master = booking[b].master,
         InsideShift(row.master, row.start, row.end),
         \A r \in Requests :
           req'[r].op \in {"create", "moveChecked"} =>
             \/ req'[r] = req[r]
             \/ /\ req[r].op = "create" /\ req'[r].op = "create"
                /\ req'[r].master = req[r].master
                /\ req'[r].start = req[r].start
                /\ req'[r].end = req[r].end
  PROVE  WInv'
  <1>1. booking'[b] = row /\ \A c \in BookingIds \ {b} : booking'[c] = booking[c]
    BY DEF IInv, TypeOK
  <1>2. InsideWorkingTime'
    BY <1>1 DEF WInv, InsideWorkingTime, InsideShift
  <1>3. ASSUME NEW r \in Requests, req'[r].op = "create"
        PROVE  InsideShift(req'[r].master, req'[r].start, req'[r].end)
    BY <1>3 DEF WInv, RequestsInHours
  <1>4. ASSUME NEW r \in Requests, req'[r].op = "moveChecked"
        PROVE  InsideShift(booking'[req'[r].booking].master, req'[r].start, req'[r].end)
    <2>1. req'[r] = req[r] /\ req[r].op = "moveChecked"
      BY <1>4
    <2>2. req[r].booking \in BookingIds /\ booking[req[r].booking] # NoRow
      BY <2>1, RequestShapes DEF IInv, ReadsWereReal, MoveRequest
    <2>3. booking'[req[r].booking].master = booking[req[r].booking].master
      BY <2>2, <1>1
    <2> QED
      BY <2>1, <2>3 DEF WInv, RequestsInHours
  <1>5. RequestsInHours'
    BY <1>3, <1>4 DEF RequestsInHours, InsideShift
  <1> QED
    BY <1>2, <1>5 DEF WInv

LEMMA StepInHours ==
  ASSUME IInv, WInv, NEW r \in Requests, Step(r)
  PROVE  WInv'
  <1>1. TypeOK /\ Idle.op = "idle"
    BY DEF IInv, Idle
  <1>2. CASE CreateSnapshot(r)
    <2>1. PICK s \in Starts, q \in Quotes, initial \in {"pending", "confirmed"},
              m \in Masters :
            /\ InsideShift(m, s, s + q.total)
            /\ req' = [req EXCEPT ![r] =
                         [op |-> "create", master |-> m, start |-> s,
                          end |-> s + q.total, base |-> q.base,
                          initial |-> initial, fate |-> "open"]]
      BY <1>2 DEF CreateSnapshot
    <2>2. \A p \in Requests : p # r => req'[p] = req[p]
      BY <2>1, <1>1 DEF TypeOK
    <2>3. /\ req'[r].op = "create"
          /\ req'[r].master = m /\ req'[r].start = s /\ req'[r].end = s + q.total
      BY <2>1, <1>1 DEF TypeOK
    <2>4. UNCHANGED booking
      BY <1>2 DEF CreateSnapshot
    <2> QED
      BY <2>1, <2>2, <2>3, <2>4, <1>1, UnwrittenInHours
  <1>3. CASE CreateCommit(r)
    <2>1. PICK b \in BookingIds :
            booking[b] = NoRow /\ booking' = [booking EXCEPT ![b] = NewRow(r)]
      BY <1>3 DEF CreateCommit
    <2>2. req[r].op = "create" /\ req[r] \in CreateRequest
      BY <1>1, <1>3, RequestShapes DEF CreateCommit
    <2>3. PICK row : row = NewRow(r)
      OBVIOUS
    <2>4. /\ row \in Row
          /\ row.master = req[r].master /\ row.start = req[r].start /\ row.end = req[r].end
      BY <2>2, <2>3 DEF NewRow, Row, CreateRequest, Status
    <2>5. InsideShift(row.master, row.start, row.end)
      BY <2>2, <2>4 DEF WInv, RequestsInHours
    <2>6. ASSUME NEW p \in Requests, req'[p].op \in {"create", "moveChecked"}
          PROVE  \/ req'[p] = req[p]
                 \/ /\ req[p].op = "create" /\ req'[p].op = "create"
                    /\ req'[p].master = req[p].master
                    /\ req'[p].start = req[p].start
                    /\ req'[p].end = req[p].end
      <3>1. req'[p] = IF p = r THEN Idle
                      ELSE IF Excludes(p, r) THEN [req[p] EXCEPT !.fate = "doomed"]
                      ELSE req[p]
        BY <1>3 DEF CreateCommit
      <3>2. CASE p = r
        BY <3>1, <3>2, <2>6, <1>1
      <3>3. CASE p # r /\ Excludes(p, r)
        <4>1. req[p] \in CreateRequest /\ req[p].op = "create"
          BY <3>3, <1>1, RequestShapes DEF Excludes
        <4>2. req'[p] = [req[p] EXCEPT !.fate = "doomed"]
          BY <3>1, <3>3
        <4> QED
          BY <4>1, <4>2 DEF CreateRequest
      <3>4. CASE p # r /\ ~Excludes(p, r)
        BY <3>1, <3>4
      <3> QED
        BY <3>2, <3>3, <3>4
    <2> QED
      BY <2>1, <2>3, <2>4, <2>5, <2>6, WrittenInHours
  <1>4. CASE StatusRead(r)
    <2>1. PICK v : req' = [req EXCEPT ![r] = v] /\ v.op = "status"
      <3>1. PICK b \in BookingIds, next \in Decisions :
              req' = [req EXCEPT ![r] = [op |-> "status", booking |-> b,
                                         read |-> booking[b].status, next |-> next]]
        BY <1>4 DEF StatusRead
      <3>2. PICK v : v = [op |-> "status", booking |-> b,
                          read |-> booking[b].status, next |-> next]
        OBVIOUS
      <3>3. v.op = "status" /\ req' = [req EXCEPT ![r] = v]
        BY <3>1, <3>2
      <3> QED
        BY <3>3
    <2>2. \A p \in Requests : req'[p] = req[p] \/ req'[p].op = "status"
      BY <2>1, <1>1 DEF TypeOK
    <2>3. UNCHANGED booking
      BY <1>4 DEF StatusRead
    <2> QED
      BY <2>2, <2>3, <1>1, UnwrittenInHours
  <1>5. CASE StatusCommit(r)
    <2>1. PICK b : b = req[r].booking
      OBVIOUS
    <2>2. PICK row : row = [booking[b] EXCEPT !.status = req[r].next]
      OBVIOUS
    <2>3. req[r].op = "status" /\ req[r] \in StatusRequest
      BY <1>1, <1>5, RequestShapes DEF StatusCommit
    <2>4. b \in BookingIds /\ booking[b] # NoRow /\ booking[b] \in Row
      BY <2>1, <2>3 DEF StatusRequest, IInv, ReadsWereReal, TypeOK
    <2>5. /\ row \in Row
          /\ row.master = booking[b].master
          /\ row.start = booking[b].start
          /\ row.end = booking[b].end
      BY <2>2, <2>3, <2>4 DEF Row, StatusRequest, Decisions, Status
    <2>6. InsideShift(row.master, row.start, row.end)
      BY <2>4, <2>5 DEF WInv, InsideWorkingTime, InsideShift
    <2>7. booking' = [booking EXCEPT ![b] = row] /\ Finish(r)
      BY <1>5, <2>1, <2>2 DEF StatusCommit
    <2>8. \A p \in Requests : req'[p] = req[p] \/ req'[p].op = "idle"
      BY <2>7, <1>1 DEF Finish, TypeOK
    <2> QED
      BY <2>4, <2>5, <2>6, <2>7, <2>8, WrittenInHours
  <1>6. CASE MoveRead(r)
    <2>1. PICK v : req' = [req EXCEPT ![r] = v] /\ v.op = "move"
      <3>1. PICK b \in BookingIds, s \in Starts :
              req' = [req EXCEPT ![r] = [op |-> "move", booking |-> b,
                                         read |-> booking[b].status, start |-> s,
                                         end |-> s + booking[b].base]]
        BY <1>6 DEF MoveRead
      <3>2. PICK v : v = [op |-> "move", booking |-> b, read |-> booking[b].status,
                          start |-> s, end |-> s + booking[b].base]
        OBVIOUS
      <3>3. v.op = "move" /\ req' = [req EXCEPT ![r] = v]
        BY <3>1, <3>2
      <3> QED
        BY <3>3
    <2>2. \A p \in Requests : req'[p] = req[p] \/ req'[p].op = "move"
      BY <2>1, <1>1 DEF TypeOK
    <2>3. UNCHANGED booking
      BY <1>6 DEF MoveRead
    <2> QED
      BY <2>2, <2>3, <1>1, UnwrittenInHours
  <1>7. CASE MoveCheck(r)
    <2>1. PICK v : v = [req[r] EXCEPT !.op = "moveChecked"]
      OBVIOUS
    <2>2. req[r].op = "move" /\ req[r] \in MoveRequest
      BY <1>1, <1>7, RequestShapes DEF MoveCheck
    <2>3. /\ v.op = "moveChecked"
          /\ v.booking = req[r].booking /\ v.start = req[r].start /\ v.end = req[r].end
      BY <2>1, <2>2 DEF MoveRequest
    <2>4. req' = [req EXCEPT ![r] = v] /\ UNCHANGED booking
      BY <1>7, <2>1 DEF MoveCheck
    <2>5. InsideShift(booking[v.booking].master, v.start, v.end)
      BY <1>7, <2>3 DEF MoveCheck
    <2>6. \A p \in Requests :
            (p # r => req'[p] = req[p]) /\ (p = r => req'[p] = v)
      <3>1. DOMAIN req = Requests
        BY <1>1 DEF TypeOK
      <3> QED
        BY <2>4, <3>1
    <2> QED
      BY <2>3, <2>4, <2>5, <2>6, <1>1, UnwrittenInHours
  <1>8. CASE MoveCommit(r)
    <2>1. PICK b : b = req[r].booking
      OBVIOUS
    <2>2. PICK row : row = [booking[b] EXCEPT !.start = req[r].start,
                                              !.end = req[r].end,
                                              !.status = MovedStatus(req[r].read)]
      OBVIOUS
    <2>3. req[r].op = "moveChecked" /\ req[r] \in MoveRequest
      BY <1>1, <1>8, RequestShapes DEF MoveCommit
    <2>4. b \in BookingIds /\ booking[b] # NoRow /\ booking[b] \in Row
      BY <2>1, <2>3 DEF MoveRequest, IInv, ReadsWereReal, TypeOK
    <2>5. /\ row \in Row
          /\ row.master = booking[b].master
          /\ row.start = req[r].start
          /\ row.end = req[r].end
      BY <2>2, <2>3, <2>4 DEF Row, MoveRequest, MovedStatus, Status
    <2>6. InsideShift(row.master, row.start, row.end)
      BY <2>1, <2>3, <2>5 DEF WInv, RequestsInHours
    <2>7. booking' = [booking EXCEPT ![b] = row] /\ Finish(r)
      BY <1>8, <2>1, <2>2 DEF MoveCommit
    <2>8. \A p \in Requests : req'[p] = req[p] \/ req'[p].op = "idle"
      BY <2>7, <1>1 DEF Finish, TypeOK
    <2> QED
      BY <2>4, <2>5, <2>6, <2>7, <2>8, WrittenInHours
  <1>9. CASE Abandon(r)
    <2>1. \A p \in Requests : req'[p] = req[p] \/ req'[p].op = "idle"
      BY <1>1, <1>9 DEF Abandon, Finish, TypeOK
    <2>2. UNCHANGED booking
      BY <1>9 DEF Abandon
    <2> QED
      BY <2>1, <2>2, <1>1, UnwrittenInHours
  <1> QED
    BY <1>2, <1>3, <1>4, <1>5, <1>6, <1>7, <1>8, <1>9 DEF Step

LEMMA NextInHours == IInv /\ WInv /\ [Next]_vars => WInv'
  <1> SUFFICES ASSUME IInv, WInv, [Next]_vars PROVE WInv'
    OBVIOUS
  <1>1. ASSUME UNCHANGED <<booking, req>> PROVE WInv'
    BY <1>1, UnwrittenInHours DEF IInv
  <1> QED
    BY <1>1, StepInHours DEF Next, Tick, vars

\* Whatever else runs, no handler puts a booking outside its master's working
\* time or across one of its breaks.
THEOREM WorkStaysInHours == Spec => []InsideWorkingTime
  <1>1. WInv => InsideWorkingTime
    BY DEF WInv
  <1> QED
    BY <1>1, InitInHours, NextInHours, InductiveInvariant, PTL DEF Spec

-----------------------------------------------------------------------------
(* Refinement: what each step is to a reader of the calendar.              *)

\* The refinement mapping of Bookings!Cal, by name.
placeOf(b) == IF booking[b] = NoRow THEN [slot |-> "none"]
              ELSE [master |-> booking[b].master,
                    start |-> booking[b].start, end |-> booking[b].end]

LEMMA InitIsCalendar == Init => Cal!Init
  BY DEF Init, Cal!Init, NoRow, Past, Cal!Nowhere

\* A step that writes no table is a stutter of the calendar.
LEMMA ReadersStutter == UNCHANGED <<booking, journal, disturbed>> => UNCHANGED Cal!cal
  BY DEF Cal!cal, Past

\* What a commit on b looks like from the calendar.
LEMMA CommitSeen ==
  ASSUME TypeOK, NEW b \in BookingIds, NEW row \in Row, NEW from, NEW action,
         [from |-> from, to |-> row.status, action |-> action] \in Entry,
         booking' = [booking EXCEPT ![b] = row],
         Record(b, from, row.status, action)
  PROVE  /\ Cal!Become(b, row.status)
         /\ [c \in BookingIds |-> placeOf(c)']
              = [[c \in BookingIds |-> placeOf(c)] EXCEPT
                   ![b] = [master |-> row.master, start |-> row.start,
                           end |-> row.end]]
  <1>1. Past(b)' = Past(b) \cup {row.status}
        /\ \A c \in BookingIds \ {b} : Past(c)' = Past(c)
    BY RecordAddsOne
  <1>2. booking'[b] = row /\ \A c \in BookingIds \ {b} : booking'[c] = booking[c]
    BY DEF TypeOK
  <1>3. row # NoRow
    BY RowsExist
  <1>4. [c \in BookingIds |-> booking'[c].status]
          = [[c \in BookingIds |-> booking[c].status] EXCEPT ![b] = row.status]
    <2>1. /\ booking'[b].status = row.status
          /\ \A c \in BookingIds \ {b} : booking'[c].status = booking[c].status
      BY <1>2
    <2> DEFINE old == [c \in BookingIds |-> booking[c].status]
               new == [c \in BookingIds |-> booking'[c].status]
    <2>2. new[b] = row.status /\ \A c \in BookingIds \ {b} : new[c] = old[c]
      BY <2>1
    <2> QED
      BY <2>2
  <1>5. [c \in BookingIds |-> Past(c)']
          = [[c \in BookingIds |-> Past(c)] EXCEPT ![b] = @ \cup {row.status}]
    BY <1>1
  <1>6. Cal!Become(b, row.status)
    BY <1>4, <1>5 DEF Cal!Become
  <1>7. placeOf(b)' = [master |-> row.master, start |-> row.start, end |-> row.end]
    BY <1>2, <1>3 DEF placeOf
  <1>8. \A c \in BookingIds \ {b} : placeOf(c)' = placeOf(c)
    BY <1>2 DEF placeOf
  <1> QED
    BY <1>6, <1>7, <1>8

LEMMA ExistsInBoth ==
  ASSUME TypeOK, NEW b \in BookingIds
  PROVE  Cal!Exists(b) <=> booking[b] # NoRow
  BY DEF Cal!Exists, Cal!Nowhere, TypeOK, Row

\* An insert is a booking made at once: nobody steady meets its slot.
LEMMA CreateCommitBooks ==
  ASSUME IInv, NEW r \in Requests, CreateCommit(r)
  PROVE  Cal!Next
  <1> USE DEF IInv
  <1>1. PICK b \in BookingIds :
          /\ booking[b] = NoRow
          /\ booking' = [booking EXCEPT ![b] = NewRow(r)]
          /\ Record(b, "none", req[r].initial, "BOOKING_CREATED")
    BY DEF CreateCommit
  <1>2. req[r].op = "create" /\ req[r].fate = "open" /\ UNCHANGED disturbed
    BY DEF CreateCommit
  <1>3. req[r] \in CreateRequest
    BY <1>2, RequestShapes
  <1>0. PICK row : row = NewRow(r)
    OBVIOUS
  <1> DEFINE slot == [master |-> row.master, start |-> row.start, end |-> row.end]
  <1>4. /\ row \in Row
        /\ row.status = req[r].initial
        /\ row.master = req[r].master
        /\ row.start = req[r].start
        /\ row.end = req[r].end
        /\ row.status \in {"pending", "confirmed"}
    BY <1>0, <1>3 DEF NewRow, Row, CreateRequest, Status
  <1>5. [from |-> "none", to |-> row.status, action |-> "BOOKING_CREATED"] \in Entry
    BY <1>4 DEF Entry, Status
  <1>6. /\ Cal!Become(b, row.status)
        /\ [c \in BookingIds |-> placeOf(c)']
             = [[c \in BookingIds |-> placeOf(c)] EXCEPT ![b] = slot]
    <2>1. Record(b, "none", row.status, "BOOKING_CREATED")
      BY <1>1, <1>4
    <2>2. booking' = [booking EXCEPT ![b] = row]
      BY <1>0, <1>1
    <2> QED
      BY <1>4, <1>5, <2>1, <2>2, CommitSeen
  <1>7. slot \in Cal!Slots
    BY <1>4 DEF Cal!Slots, Row
  <1>8. ASSUME NEW other \in BookingIds \ disturbed, Cal!Exists(other),
               Cal!Open(booking[other].status)
        PROVE  ~Cal!Meets(placeOf(other), slot)
    <2>1. booking[other] # NoRow /\ Occupies(other)
      BY <1>8, ExistsInBoth DEF Cal!Open, Occupies, Active
    <2>2. ~Clashes(other, req[r].master, req[r].start, req[r].end)
      BY <1>2 DEF CreatesAreClear
    <2>3. placeOf(other) = [master |-> booking[other].master,
                            start |-> booking[other].start,
                            end |-> booking[other].end]
      BY <2>1 DEF placeOf
    <2> QED
      BY <2>1, <2>2, <2>3, <1>4 DEF Clashes, Overlaps, Cal!Meets
  <1>9. ~Cal!Exists(b)
    BY <1>1, ExistsInBoth
  <1>10. Cal!Book(b)
    <2>1. \A other \in BookingIds \ disturbed :
            Cal!Exists(other) /\ Cal!Open([c \in BookingIds |-> booking[c].status][other])
              => ~Cal!Meets([c \in BookingIds |-> placeOf(c)][other], slot)
      BY <1>8
    <2>2. [c \in BookingIds |-> placeOf(c)']
            = [[c \in BookingIds |-> placeOf(c)] EXCEPT ![b] = slot]
      BY <1>6
    <2>3. \E status \in {"pending", "confirmed"} : Cal!Become(b, status)
      BY <1>4, <1>6
    <2> HIDE DEF slot
    <2> QED
      BY <1>2, <1>7, <1>9, <2>1, <2>2, <2>3 DEF Cal!Book, placeOf
  <1> QED
    BY <1>10 DEF Cal!Next

\* A change of status is a decision that was legal for a past status.
LEMMA StatusCommitDecides ==
  ASSUME IInv, NEW r \in Requests, StatusCommit(r)
  PROVE  Cal!Next
  <1>1. PICK b, next, read :
          b = req[r].booking /\ next = req[r].next /\ read = req[r].read
    OBVIOUS
  <1>2. PICK row : row = [booking[b] EXCEPT !.status = next]
    OBVIOUS
  <1>3. req[r].op = "status" /\ req[r] \in StatusRequest
    BY RequestShapes DEF StatusCommit, IInv
  <1>4. b \in BookingIds /\ next \in Decisions /\ read \in Status
    BY <1>1, <1>3 DEF StatusRequest
  <1>5. booking[b] \in Row /\ booking[b] # NoRow /\ read \in Past(b)
    BY <1>1, <1>3, <1>4 DEF IInv, ReadsWereReal, TypeOK
  <1>6. /\ row \in Row
        /\ row.status = next
        /\ row.master = booking[b].master
        /\ row.start = booking[b].start
        /\ row.end = booking[b].end
    BY <1>2, <1>4, <1>5 DEF Row, Decisions, Status
  <1>7. /\ booking' = [booking EXCEPT ![b] = row]
        /\ Record(b, read, row.status, "BOOKING_STATUS")
    BY <1>1, <1>2, <1>6 DEF StatusCommit
  <1>8. [from |-> read, to |-> row.status, action |-> "BOOKING_STATUS"] \in Entry
    BY <1>4, <1>6 DEF Entry, Decisions, Status
  <1>9. TypeOK /\ Cal!Legal(read, next)
    BY <1>1, <1>3 DEF IInv, DecisionsAreGuarded
  <1>10. /\ Cal!Become(b, row.status)
         /\ [c \in BookingIds |-> placeOf(c)']
              = [[c \in BookingIds |-> placeOf(c)] EXCEPT
                   ![b] = [master |-> row.master, start |-> row.start,
                           end |-> row.end]]
    BY <1>4, <1>6, <1>7, <1>8, <1>9, CommitSeen
  <1>11. placeOf(b) = [master |-> row.master, start |-> row.start, end |-> row.end]
    BY <1>5, <1>6 DEF placeOf
  <1>12. UNCHANGED [c \in BookingIds |-> placeOf(c)]
    BY <1>4, <1>10, <1>11
  <1>13. Cal!Exists(b)
    BY <1>4, <1>5, <1>9, ExistsInBoth
  <1>14. disturbed' = IF Reopens(b, next) THEN disturbed \cup {b} ELSE disturbed
    BY <1>1 DEF StatusCommit
  <1>15. BookingIds \ disturbed' =
           IF Cal!Open(next) /\ ~Cal!Open(booking[b].status)
           THEN (BookingIds \ disturbed) \ {b} ELSE BookingIds \ disturbed
    BY <1>14 DEF Reopens, Active, Cal!Open
  <1>16. Cal!Become(b, next)
    BY <1>6, <1>10
  <1>17. Cal!Decide(b)
    <2>1. [c \in BookingIds |-> booking[c].status][b] = booking[b].status
          /\ [c \in BookingIds |-> Past(c)][b] = Past(b)
      BY <1>4
    <2> QED
      BY <1>4, <1>5, <1>9, <1>12, <1>13, <1>15, <1>16, <2>1
         DEF Cal!Decide, placeOf, Decisions
  <1> QED
    BY <1>4, <1>17 DEF Cal!Next

\* A reschedule is a move.
LEMMA MoveCommitMoves ==
  ASSUME IInv, NEW r \in Requests, MoveCommit(r)
  PROVE  Cal!Next
  <1>1. PICK b, to, read :
          b = req[r].booking /\ to = MovedStatus(req[r].read) /\ read = req[r].read
    OBVIOUS
  <1>2. PICK row : row = [booking[b] EXCEPT !.start = req[r].start,
                                            !.end = req[r].end, !.status = to]
    OBVIOUS
  <1>3. req[r].op = "moveChecked" /\ req[r] \in MoveRequest
    BY RequestShapes DEF MoveCommit, IInv
  <1>4. /\ b \in BookingIds
        /\ read \in Status
        /\ to \in Status
        /\ req[r].start \in Starts
        /\ req[r].end \in Ends
    BY <1>1, <1>3 DEF MoveRequest, MovedStatus, Status
  <1>5. booking[b] \in Row /\ booking[b] # NoRow /\ read \in Past(b)
    BY <1>1, <1>3, <1>4 DEF IInv, ReadsWereReal, TypeOK
  <1>6. row \in Row /\ row.status = to
    BY <1>2, <1>4, <1>5 DEF Row
  <1>7. /\ booking' = [booking EXCEPT ![b] = row]
        /\ Record(b, read, row.status, "BOOKING_RESCHEDULED")
    BY <1>1, <1>2, <1>6 DEF MoveCommit
  <1>8. [from |-> read, to |-> row.status, action |-> "BOOKING_RESCHEDULED"] \in Entry
    BY <1>4, <1>6 DEF Entry
  <1>9. TypeOK
    BY DEF IInv
  <1> DEFINE slot == [master |-> row.master, start |-> row.start, end |-> row.end]
  <1>10. /\ Cal!Become(b, row.status)
         /\ [c \in BookingIds |-> placeOf(c)']
              = [[c \in BookingIds |-> placeOf(c)] EXCEPT ![b] = slot]
    BY <1>4, <1>6, <1>7, <1>8, <1>9, CommitSeen
  <1>11. slot \in Cal!Slots
    BY <1>6 DEF Cal!Slots, Row
  <1>12. Cal!Exists(b)
    BY <1>4, <1>5, <1>9, ExistsInBoth
  <1>13. BookingIds \ disturbed' = (BookingIds \ disturbed) \ {b}
    BY <1>1 DEF MoveCommit
  <1>14. \/ "pending" \in Past(b) /\ Cal!Become(b, "pending")
         \/ Past(b) # {"pending"} /\ Cal!Become(b, "confirmed")
    <2>1. CASE read = "pending"
      BY <2>1, <1>1, <1>5, <1>6, <1>10 DEF MovedStatus
    <2>2. CASE read # "pending"
      BY <2>2, <1>1, <1>5, <1>6, <1>10 DEF MovedStatus
    <2> QED
      BY <2>1, <2>2
  <1>15. Cal!Move(b)
    <2>1. [c \in BookingIds |-> Past(c)][b] = Past(b)
      BY <1>4
    <2>2. \E s \in Cal!Slots : [c \in BookingIds |-> placeOf(c)']
              = [[c \in BookingIds |-> placeOf(c)] EXCEPT ![b] = s]
      BY <1>10, <1>11
    <2> HIDE DEF slot
    <2> QED
      BY <1>12, <1>13, <1>14, <2>1, <2>2 DEF Cal!Move, placeOf
  <1> QED
    BY <1>4, <1>15 DEF Cal!Next

LEMMA NextIsCalendar == IInv /\ [Next]_vars => [Cal!Next]_(Cal!cal)
  <1> SUFFICES ASSUME IInv, [Next]_vars PROVE Cal!Next \/ UNCHANGED Cal!cal
    OBVIOUS
  <1>1. CASE Tick
    BY <1>1, ReadersStutter DEF Tick
  <1>2. ASSUME NEW r \in Requests, Step(r)
        PROVE  Cal!Next \/ UNCHANGED Cal!cal
    <2>1. CASE CreateSnapshot(r) \/ StatusRead(r) \/ MoveRead(r) \/ MoveCheck(r)
               \/ Abandon(r)
      BY <2>1, ReadersStutter DEF CreateSnapshot, StatusRead, MoveRead, MoveCheck,
                                  Abandon
    <2> QED
      BY <1>2, <2>1, CreateCommitBooks, StatusCommitDecides, MoveCommitMoves DEF Step
  <1>3. CASE UNCHANGED vars
    BY <1>3, ReadersStutter DEF vars
  <1> QED
    BY <1>1, <1>2, <1>3 DEF Next

\* The booking handlers implement the calendar: seen through the tables, each
\* of them takes effect at one moment, as one of its atomic steps.
THEOREM BookingsImplementCalendar == Spec => ImplementsCalendar
  <1>1. Spec => Cal!Init /\ [][Cal!Next]_(Cal!cal)
    BY InitIsCalendar, NextIsCalendar, InductiveInvariant, PTL DEF Spec
  <1> QED
    BY <1>1 DEF ImplementsCalendar, Cal!Spec

-----------------------------------------------------------------------------
(* Handlers that run alone: what holds between two steps.                  *)

\* One handler is in flight at most.
OneAtATime == \A r, p \in Requests : req[r] # Idle /\ req[p] # Idle => r = p

\* Nothing a handler read has changed since.
ReadsAreFresh ==
  \A r \in Requests :
    req[r].op \in {"status", "move", "moveChecked"} =>
      req[r].read = booking[req[r].booking].status

\* The slot a create found free is free, moved bookings included.
CreatesMeetNobody ==
  \A r \in Requests : \A b \in BookingIds :
    req[r].op = "create" => ~Clashes(b, req[r].master, req[r].start, req[r].end)

\* The slot a reschedule found free is free of the bookings it reads.
MovesMeetNobodyRead ==
  \A r \in Requests :
    req[r].op = "moveChecked" =>
      \A other \in VisibleToMove(req[r].booking, req[r].start) :
        ~Overlaps(booking[other].start, booking[other].end,
                  req[r].start, req[r].end)

Known ==
  /\ OneAtATime
  /\ ReadsAreFresh
  /\ CreatesMeetNobody
  /\ MovesMeetNobodyRead

AloneInv == Known /\ HistoryChained /\ DoubleBookedOnlyOverMidnight

-----------------------------------------------------------------------------
(* Every step here is a step of Bookings, so its invariants hold.          *)

LEMMA StepsOfBookings == [MCNext]_<<vars, part>> => [Next]_vars
  BY DEF MCNext, AloneNext, CreatesNext, Next, Step, vars

BookingsInv == IInv /\ JInv

LEMMA InitOfBookings == MCInit => BookingsInv
  BY InitKeeps, InitJournal DEF MCInit, BookingsInv

LEMMA BookingsInvKept == BookingsInv /\ [MCNext]_<<vars, part>> => BookingsInv'
  BY StepsOfBookings, NextKeeps, NextKeepsJournal DEF BookingsInv

\* The invariants of all handlers hold of each part the run explores, for each
\* restricts which handlers start.
THEOREM BookingsInvariant == MCSpec => []BookingsInv
  BY InitOfBookings, BookingsInvKept, PTL DEF MCSpec

\* One request at a time: every booking lies within its master's working time.
THEOREM WorkInHoursAlone == MCSpec => []WorkingTimeAlone
  <1>1. MCInit => Init
    BY DEF MCInit
  <1>2. MCSpec => Spec
    BY <1>1, StepsOfBookings, PTL DEF MCSpec, Spec
  <1>3. InsideWorkingTime => WorkingTimeAlone
    BY DEF WorkingTimeAlone
  <1> QED
    BY <1>2, <1>3, WorkStaysInHours, PTL

-----------------------------------------------------------------------------
(* Creates only.                                                           *)

\* No booking is disturbed, so that all of them are steady.
NothingDisturbed == part = "creates" => disturbed = {}

LEMMA CreatesDisturbNothing ==
  NothingDisturbed /\ [MCNext]_<<vars, part>> => NothingDisturbed'
  BY DEF NothingDisturbed, MCNext, CreatesNext, CreateSnapshot, CreateCommit,
         StatusRead, Abandon, vars

\* However many calls of createBooking run together, and over whatever masters,
\* no master ends up booked twice for the same time.
THEOREM ConcurrentCreatesExclude == MCSpec => []CreatesExclude
  <1>1. MCInit => NothingDisturbed
    BY DEF MCInit, Init, NothingDisturbed
  <1>2. BookingsInv /\ NothingDisturbed => CreatesExclude
    BY DEF BookingsInv, IInv, SteadyExclusion, NoDoubleBooking, NothingDisturbed,
           CreatesExclude
  <1> QED
    BY <1>1, <1>2, CreatesDisturbNothing, BookingsInvariant, PTL DEF MCSpec

-----------------------------------------------------------------------------
(* Facts about the data.                                                   *)

\* A day begins no later than any of its slots.
LEMMA DayBegins ==
  ASSUME NEW t \in Nat
  PROVE  StartOfDay(t) \in Nat /\ StartOfDay(t) <= t
  <1>1. DayLength \in Nat \ {0}
    BY BoundsAssumption
  <1>2. (t \div DayLength) * DayLength \in Nat /\ (t \div DayLength) * DayLength <= t
    BY <1>1
  <1> QED
    BY <1>2 DEF StartOfDay

\* A decision that reopens nothing: from a status nobody has changed since.
LEMMA LegalReopensNothing ==
  ASSUME NEW current \in Status, NEW next \in Decisions,
         Cal!Legal(current, next), next \in Active
  PROVE  current \in Active
  BY DEF Cal!Legal, Decisions, Active, Status

-----------------------------------------------------------------------------
(* Steps that write no table.                                              *)

\* What handler r knows when it holds v, the tables being as they are.
Knows(v) ==
  /\ v.op \in {"status", "move", "moveChecked"} => v.read = booking[v.booking].status
  /\ v.op = "create" => \A b \in BookingIds : ~Clashes(b, v.master, v.start, v.end)
  /\ v.op = "moveChecked" =>
       \A other \in VisibleToMove(v.booking, v.start) :
         ~Overlaps(booking[other].start, booking[other].end, v.start, v.end)

\* A handler alone that replaces its record by one it has reason to hold.
LEMMA ReaderKeepsKnown ==
  ASSUME TypeOK, NEW r \in Requests, RunsAlone(r), NEW v, Knows(v),
         req' = [req EXCEPT ![r] = v], UNCHANGED booking
  PROVE  Known'
  <1>1. Idle.op = "idle"
    BY DEF Idle
  <1>2. req'[r] = v /\ \A p \in Requests \ {r} : req'[p] = Idle
    BY DEF TypeOK, RunsAlone
  <1>3. OneAtATime'
    BY <1>2 DEF OneAtATime, Idle
  <1>4. ReadsAreFresh'
    BY <1>1, <1>2 DEF ReadsAreFresh, Knows
  <1>5. CreatesMeetNobody'
    <2> SUFFICES ASSUME NEW p \in Requests, NEW b \in BookingIds, req'[p].op = "create"
                 PROVE  ~Clashes(b, req[p].master, req[p].start, req[p].end)'
      BY DEF CreatesMeetNobody
    <2>1. p = r /\ ~Clashes(b, v.master, v.start, v.end)
      BY <1>1, <1>2 DEF Knows
    <2> QED
      BY <1>2, <2>1 DEF Clashes, Occupies
  <1>6. MovesMeetNobodyRead'
    <2> SUFFICES ASSUME NEW p \in Requests, req'[p].op = "moveChecked",
                        NEW other \in VisibleToMove(req[p].booking, req[p].start)'
                 PROVE  ~Overlaps(booking'[other].start, booking'[other].end,
                                  req'[p].start, req'[p].end)
      BY DEF MovesMeetNobodyRead, Overlaps
    <2>1. p = r /\ req'[p] = v
      BY <1>1, <1>2
    <2>2. other \in VisibleToMove(v.booking, v.start)
      BY <2>1 DEF VisibleToMove, Occupies
    <2> QED
      BY <2>1, <2>2 DEF Knows
  <1> QED
    BY <1>3, <1>4, <1>5, <1>6 DEF Known

LEMMA UnwrittenKeepsChain == HistoryChained /\ UNCHANGED journal => HistoryChained'
  BY DEF HistoryChained

LEMMA UnwrittenKeepsOverMidnight ==
  DoubleBookedOnlyOverMidnight /\ UNCHANGED <<booking, disturbed>>
    => DoubleBookedOnlyOverMidnight'
  BY DEF DoubleBookedOnlyOverMidnight, DoubleBooked, Clashes, Occupies,
         CrossesMidnight

\* Whoever has nothing in flight knows nothing that could be wrong.
LEMMA IdleKnows == Knows(Idle)
  BY DEF Knows, Idle

\* What each of the reading steps comes to know.
LEMMA ReadersKnow ==
  ASSUME TypeOK, NEW r \in Requests, RunsAlone(r), Known,
         \/ CreateSnapshot(r) \/ StatusRead(r) \/ MoveRead(r)
         \/ MoveCheck(r) \/ Abandon(r)
  PROVE  \E v : Knows(v) /\ req' = [req EXCEPT ![r] = v]
  <1>1. CASE CreateSnapshot(r)
    <2>1. PICK s \in Starts, q \in Quotes, initial \in {"pending", "confirmed"},
              m \in Masters :
            /\ \A b \in BookingIds : ~Clashes(b, m, s, s + q.total)
            /\ req' = [req EXCEPT ![r] =
                         [op |-> "create", master |-> m, start |-> s,
                          end |-> s + q.total, base |-> q.base,
                          initial |-> initial, fate |-> "open"]]
      BY <1>1 DEF CreateSnapshot
    <2>2. PICK v : v = [op |-> "create", master |-> m, start |-> s,
                        end |-> s + q.total, base |-> q.base,
                        initial |-> initial, fate |-> "open"]
      OBVIOUS
    <2>3. v.op = "create" /\ v.master = m /\ v.start = s /\ v.end = s + q.total
      BY <2>2
    <2>4. Knows(v)
      BY <2>1, <2>3 DEF Knows
    <2> QED
      BY <2>1, <2>2, <2>4
  <1>2. CASE StatusRead(r)
    <2>1. PICK b \in BookingIds, next \in Decisions :
            req' = [req EXCEPT ![r] = [op |-> "status", booking |-> b,
                                       read |-> booking[b].status, next |-> next]]
      BY <1>2 DEF StatusRead
    <2>2. PICK v : v = [op |-> "status", booking |-> b,
                        read |-> booking[b].status, next |-> next]
      OBVIOUS
    <2>3. v.op = "status" /\ v.booking = b /\ v.read = booking[b].status
      BY <2>2
    <2>4. Knows(v)
      BY <2>3 DEF Knows
    <2> QED
      BY <2>1, <2>2, <2>4
  <1>3. CASE MoveRead(r)
    <2>1. PICK b \in BookingIds, s \in Starts :
            req' = [req EXCEPT ![r] = [op |-> "move", booking |-> b,
                                       read |-> booking[b].status, start |-> s,
                                       end |-> s + booking[b].base]]
      BY <1>3 DEF MoveRead
    <2>2. PICK v : v = [op |-> "move", booking |-> b, read |-> booking[b].status,
                        start |-> s, end |-> s + booking[b].base]
      OBVIOUS
    <2>3. v.op = "move" /\ v.booking = b /\ v.read = booking[b].status
      BY <2>2
    <2>4. Knows(v)
      BY <2>3 DEF Knows
    <2> QED
      BY <2>1, <2>2, <2>4
  <1>4. CASE MoveCheck(r)
    <2>1. PICK v : v = [req[r] EXCEPT !.op = "moveChecked"]
      OBVIOUS
    <2>2. req[r].op = "move" /\ req[r] \in MoveRequest
      BY <1>4, RequestShapes DEF MoveCheck
    <2>3. /\ v.op = "moveChecked"
          /\ v.booking = req[r].booking /\ v.read = req[r].read
          /\ v.start = req[r].start /\ v.end = req[r].end
      BY <2>1, <2>2 DEF MoveRequest
    <2>4. v.read = booking[v.booking].status
      BY <2>2, <2>3 DEF Known, ReadsAreFresh
    <2>5. \A other \in VisibleToMove(v.booking, v.start) :
            ~Overlaps(booking[other].start, booking[other].end, v.start, v.end)
      BY <1>4, <2>3 DEF MoveCheck
    <2>6. Knows(v)
      BY <2>3, <2>4, <2>5 DEF Knows
    <2>7. req' = [req EXCEPT ![r] = v]
      BY <1>4, <2>1 DEF MoveCheck
    <2> QED
      BY <2>6, <2>7
  <1>5. CASE Abandon(r)
    BY <1>5, IdleKnows DEF Abandon, Finish
  <1> QED
    BY <1>1, <1>2, <1>3, <1>4, <1>5

LEMMA ReadersKeepAlone ==
  ASSUME TypeOK, AloneInv, NEW r \in Requests, RunsAlone(r),
         \/ CreateSnapshot(r) \/ StatusRead(r) \/ MoveRead(r)
         \/ MoveCheck(r) \/ Abandon(r)
  PROVE  AloneInv'
  <1>1. UNCHANGED <<booking, journal, disturbed>>
    BY DEF CreateSnapshot, StatusRead, MoveRead, MoveCheck, Abandon
  <1>2. PICK v : Knows(v) /\ req' = [req EXCEPT ![r] = v]
    BY ReadersKnow DEF AloneInv
  <1>3. Known'
    BY <1>1, <1>2, ReaderKeepsKnown
  <1> QED
    BY <1>1, <1>3, UnwrittenKeepsChain, UnwrittenKeepsOverMidnight DEF AloneInv

-----------------------------------------------------------------------------
(* Commits.                                                                *)

\* After a commit no handler is in flight.
LEMMA CommitKeepsKnown ==
  ASSUME TypeOK, NEW r \in Requests, RunsAlone(r), req'[r] = Idle,
         \A p \in Requests \ {r} : req[p] = Idle => req'[p] = Idle
  PROVE  Known'
  <1>1. \A p \in Requests : req'[p] = Idle
    BY DEF RunsAlone
  <1>2. Idle.op = "idle"
    BY DEF Idle
  <1>3. OneAtATime'
    BY <1>1 DEF OneAtATime, Idle
  <1>4. ReadsAreFresh' /\ CreatesMeetNobody' /\ MovesMeetNobodyRead'
    BY <1>1, <1>2 DEF ReadsAreFresh, CreatesMeetNobody, MovesMeetNobodyRead
  <1> QED
    BY <1>3, <1>4 DEF Known

\* A history row that starts at the booking's status lengthens the chain.
LEMMA RecordKeepsChain ==
  ASSUME TypeOK, JInv, HistoryChained, NEW b \in BookingIds,
         NEW from, NEW to, NEW action,
         [from |-> from, to |-> to, action |-> action] \in Entry,
         Record(b, from, to, action),
         booking[b] # NoRow =>
           from = booking[b].status /\ (to = "pending" => from = "pending")
  PROVE  HistoryChained'
  <1> DEFINE s == journal[b]
             e == [from |-> from, to |-> to, action |-> action]
             n == Len(s)
  <1>1. s \in Seq(Entry) /\ e \in Entry
    BY DEF TypeOK
  <1>2. journal'[b] = Append(s, e) /\ \A c \in BookingIds \ {b} : journal'[c] = journal[c]
    BY DEF Record, TypeOK
  <1>3. e.from = from /\ e.to = to
    OBVIOUS
  <1>4. s # <<>> => booking[b] # NoRow /\ s[n].to = booking[b].status
    BY DEF JInv, UnmadeHasNone, JournalTellsStatus
  <1> HIDE DEF s, e
  <1>5. /\ n \in Nat
        /\ DOMAIN s = 1 .. n
        /\ DOMAIN journal'[b] = 1 .. n + 1
        /\ journal'[b][n + 1] = e
        /\ \A i \in 1 .. n : journal'[b][i] = s[i]
        /\ s = <<>> => n = 0
    BY <1>1, <1>2, AppendedAt
  <1> HIDE DEF n
  <1> SUFFICES ASSUME NEW c \in BookingIds, NEW i \in DOMAIN journal'[c], i > 1
               PROVE  /\ journal'[c][i].from = journal'[c][i - 1].to
                      /\ journal'[c][i].to = "pending" => journal'[c][i].from = "pending"
    BY DEF HistoryChained
  <1>6. CASE c # b
    BY <1>2, <1>6 DEF HistoryChained
  <1>7. CASE c = b /\ i \in 1 .. n
    <2>1. i - 1 \in 1 .. n
      BY <1>5, <1>7
    <2>2. s[i].from = s[i - 1].to /\ (s[i].to = "pending" => s[i].from = "pending")
      BY <1>5, <1>7 DEF HistoryChained, s
    <2> QED
      BY <1>5, <1>7, <2>1, <2>2
  <1>8. CASE c = b /\ i = n + 1
    <2>1. n \in 1 .. n /\ i - 1 = n /\ s # <<>>
      BY <1>5, <1>8
    <2>2. journal'[b][n] = s[n] /\ journal'[b][n + 1] = e
      BY <1>5, <2>1
    <2>3. s[n].to = from /\ (to = "pending" => from = "pending")
      BY <1>4, <2>1
    <2> QED
      BY <1>3, <1>8, <2>1, <2>2, <2>3
  <1>9. i \in 1 .. n \/ i = n + 1 \/ c # b
    BY <1>5
  <1> QED
    BY <1>6, <1>7, <1>8, <1>9

\* If who meets b after a write of it did so before, in the same place, or b was
\* moved across midnight, then double bookings still come from midnight only.
LEMMA WriteKeepsOverMidnight ==
  ASSUME TypeOK, DoubleBookedOnlyOverMidnight, NEW b \in BookingIds, NEW row \in Row,
         booking' = [booking EXCEPT ![b] = row],
         disturbed \subseteq disturbed',
         \A c \in BookingIds \ {b} :
           DoubleBooked(c, b)' =>
             \/ /\ DoubleBooked(c, b)
                /\ row.start = booking[b].start
                /\ row.end = booking[b].end
             \/ b \in disturbed' /\ CrossesMidnight(b)'
  PROVE  DoubleBookedOnlyOverMidnight'
  <1>1. booking'[b] = row /\ \A c \in BookingIds \ {b} : booking'[c] = booking[c]
    BY DEF TypeOK
  <1>2. ASSUME NEW c \in BookingIds \ {b}, NEW d \in BookingIds \ {b}, c # d,
               DoubleBooked(c, d)'
        PROVE  \E x \in {c, d} \cap disturbed' : CrossesMidnight(x)'
    <2>1. DoubleBooked(c, d)
      BY <1>1, <1>2 DEF DoubleBooked, Clashes, Occupies
    <2>2. PICK x \in {c, d} \cap disturbed : CrossesMidnight(x)
      BY <1>2, <2>1 DEF DoubleBookedOnlyOverMidnight
    <2>3. CrossesMidnight(x)'
      BY <1>1, <2>2 DEF CrossesMidnight, StartOfDay
    <2> QED
      BY <2>2, <2>3
  <1>3. ASSUME NEW c \in BookingIds \ {b}, DoubleBooked(c, b)'
        PROVE  \E x \in {c, b} \cap disturbed' : CrossesMidnight(x)'
    <2>1. CASE /\ DoubleBooked(c, b)
               /\ row.start = booking[b].start
               /\ row.end = booking[b].end
      <3>1. PICK x \in {c, b} \cap disturbed : CrossesMidnight(x)
        BY <2>1 DEF DoubleBookedOnlyOverMidnight
      <3>2. booking'[x].start = booking[x].start /\ booking'[x].end = booking[x].end
        BY <1>1, <2>1, <3>1
      <3>3. CrossesMidnight(x)'
        BY <3>1, <3>2 DEF CrossesMidnight, StartOfDay
      <3> QED
        BY <3>1, <3>3
    <2>2. CASE b \in disturbed' /\ CrossesMidnight(b)'
      BY <2>2
    <2> QED
      BY <1>3, <2>1, <2>2
  <1>4. \A c, d \in BookingIds : DoubleBooked(c, d)' => DoubleBooked(d, c)'
    BY DEF DoubleBooked, Clashes, Occupies, Overlaps
  <1> QED
    BY <1>2, <1>3, <1>4 DEF DoubleBookedOnlyOverMidnight

LEMMA CreateCommitKeepsAlone ==
  ASSUME BookingsInv, AloneInv, NEW r \in Requests, RunsAlone(r), CreateCommit(r)
  PROVE  AloneInv'
  <1>1. TypeOK /\ JInv /\ Idle.op = "idle"
    BY DEF BookingsInv, IInv, Idle
  <1>2. PICK b \in BookingIds :
          /\ booking[b] = NoRow
          /\ booking' = [booking EXCEPT ![b] = NewRow(r)]
          /\ Record(b, "none", req[r].initial, "BOOKING_CREATED")
    BY DEF CreateCommit
  <1>3. PICK row : row = NewRow(r)
    OBVIOUS
  <1>4. req[r].op = "create" /\ req[r] \in CreateRequest /\ disturbed' = disturbed
    BY <1>1, RequestShapes DEF CreateCommit
  <1>5. /\ row \in Row
        /\ row.master = req[r].master /\ row.start = req[r].start /\ row.end = req[r].end
    BY <1>3, <1>4 DEF NewRow, Row, CreateRequest, Status
  <1>6. Known'
    <2>1. req' = [p \in Requests |->
                   IF p = r THEN Idle
                   ELSE IF Excludes(p, r) THEN [req[p] EXCEPT !.fate = "doomed"]
                   ELSE req[p]]
      BY DEF CreateCommit
    <2>2. req'[r] = Idle
      BY <2>1
    <2>3. \A p \in Requests \ {r} : req[p] = Idle => req'[p] = Idle
      BY <1>1, <2>1 DEF Excludes
    <2> QED
      BY <1>1, <2>2, <2>3, CommitKeepsKnown
  <1>7. HistoryChained'
    <2>1. [from |-> "none", to |-> req[r].initial, action |-> "BOOKING_CREATED"] \in Entry
      BY <1>4 DEF Entry, CreateRequest, Status
    <2>2. HistoryChained
      BY DEF AloneInv
    <2> QED
      BY <1>1, <1>2, <2>1, <2>2, RecordKeepsChain
  <1>8. DoubleBookedOnlyOverMidnight'
    <2>1. booking' = [booking EXCEPT ![b] = row]
      BY <1>2, <1>3
    <2>2. booking'[b] = row /\ \A c \in BookingIds \ {b} : booking'[c] = booking[c]
      BY <1>1, <2>1 DEF TypeOK
    <2>3. \A c \in BookingIds \ {b} : ~DoubleBooked(c, b)'
      <3>1. \A c \in BookingIds : ~Clashes(c, row.master, row.start, row.end)
        BY <1>4, <1>5 DEF AloneInv, Known, CreatesMeetNobody
      <3> QED
        BY <2>2, <3>1 DEF DoubleBooked, Clashes, Occupies
    <2>4. DoubleBookedOnlyOverMidnight
      BY DEF AloneInv
    <2> QED
      BY <1>1, <1>4, <1>5, <2>1, <2>3, <2>4, WriteKeepsOverMidnight
  <1> QED
    BY <1>6, <1>7, <1>8 DEF AloneInv

LEMMA StatusCommitKeepsAlone ==
  ASSUME BookingsInv, AloneInv, NEW r \in Requests, RunsAlone(r), StatusCommit(r)
  PROVE  AloneInv'
  <1>1. TypeOK /\ JInv /\ IInv
    BY DEF BookingsInv, IInv
  <1>2. PICK b, next : b = req[r].booking /\ next = req[r].next
    OBVIOUS
  <1>3. PICK row : row = [booking[b] EXCEPT !.status = next]
    OBVIOUS
  <1>4. req[r].op = "status" /\ req[r] \in StatusRequest
    BY <1>1, RequestShapes DEF StatusCommit
  <1>5. /\ b \in BookingIds
        /\ next \in Decisions
        /\ booking[b] # NoRow
        /\ booking[b] \in Row
        /\ req[r].read = booking[b].status
        /\ Cal!Legal(booking[b].status, next)
    BY <1>2, <1>4 DEF StatusRequest, BookingsInv, IInv, ReadsWereReal, TypeOK,
                      DecisionsAreGuarded, AloneInv, Known, ReadsAreFresh
  <1>6. /\ row \in Row
        /\ row.status = next
        /\ row.master = booking[b].master
        /\ row.start = booking[b].start
        /\ row.end = booking[b].end
    BY <1>3, <1>5 DEF Row, Decisions, Status
  <1>7. /\ booking' = [booking EXCEPT ![b] = row]
        /\ Record(b, booking[b].status, next, "BOOKING_STATUS")
        /\ disturbed \subseteq disturbed'
        /\ Finish(r)
    BY <1>2, <1>3, <1>5 DEF StatusCommit
  <1>8. Known'
    <2>1. req'[r] = Idle /\ \A p \in Requests \ {r} : req'[p] = req[p]
      BY <1>1, <1>7 DEF Finish, TypeOK
    <2> QED
      BY <1>1, <2>1, CommitKeepsKnown
  <1>9. HistoryChained'
    <2>1. [from |-> booking[b].status, to |-> next, action |-> "BOOKING_STATUS"] \in Entry
      BY <1>5 DEF Entry, Row, Decisions, Status
    <2>2. HistoryChained /\ next # "pending"
      BY <1>5 DEF AloneInv, Decisions
    <2> QED
      BY <1>1, <1>5, <1>7, <2>1, <2>2, RecordKeepsChain
  <1>10. DoubleBookedOnlyOverMidnight'
    <2>1. booking'[b] = row /\ \A c \in BookingIds \ {b} : booking'[c] = booking[c]
      BY <1>1, <1>5, <1>7 DEF TypeOK
    <2>2. row.status \in Active => Occupies(b)
      BY <1>5, <1>6, LegalReopensNothing DEF Occupies, Row
    <2>3. \A c \in BookingIds \ {b} : DoubleBooked(c, b)' => DoubleBooked(c, b)
      BY <1>6, <2>1, <2>2 DEF DoubleBooked, Clashes, Occupies
    <2>4. DoubleBookedOnlyOverMidnight
      BY DEF AloneInv
    <2> QED
      BY <1>1, <1>5, <1>6, <1>7, <2>3, <2>4, WriteKeepsOverMidnight
  <1> QED
    BY <1>8, <1>9, <1>10 DEF AloneInv

LEMMA MoveCommitKeepsAlone ==
  ASSUME BookingsInv, AloneInv, NEW r \in Requests, RunsAlone(r), MoveCommit(r)
  PROVE  AloneInv'
  <1>1. TypeOK /\ JInv /\ IInv
    BY DEF BookingsInv, IInv
  <1>2. PICK b, to, s, e :
          /\ b = req[r].booking /\ to = MovedStatus(req[r].read)
          /\ s = req[r].start /\ e = req[r].end
    OBVIOUS
  <1>3. PICK row : row = [booking[b] EXCEPT !.start = s, !.end = e, !.status = to]
    OBVIOUS
  <1>4. req[r].op = "moveChecked" /\ req[r] \in MoveRequest
    BY <1>1, RequestShapes DEF MoveCommit
  <1>5. /\ b \in BookingIds
        /\ s \in Starts
        /\ e \in Ends
        /\ booking[b] # NoRow
        /\ booking[b] \in Row
        /\ req[r].read = booking[b].status
    BY <1>2, <1>4 DEF MoveRequest, BookingsInv, IInv, ReadsWereReal, TypeOK,
                      AloneInv, Known, ReadsAreFresh
  <1>6. to \in Status /\ (to = "pending" => booking[b].status = "pending")
    BY <1>2, <1>5 DEF MovedStatus, Status
  <1>7. /\ row \in Row
        /\ row.status = to
        /\ row.master = booking[b].master
        /\ row.start = s
        /\ row.end = e
    BY <1>3, <1>5, <1>6 DEF Row
  <1>8. /\ booking' = [booking EXCEPT ![b] = row]
        /\ Record(b, booking[b].status, to, "BOOKING_RESCHEDULED")
        /\ disturbed' = disturbed \cup {b}
        /\ Finish(r)
    BY <1>2, <1>3, <1>5 DEF MoveCommit
  <1>9. Known'
    <2>1. req'[r] = Idle /\ \A p \in Requests \ {r} : req'[p] = req[p]
      BY <1>1, <1>8 DEF Finish, TypeOK
    <2> QED
      BY <1>1, <2>1, CommitKeepsKnown
  <1>10. HistoryChained'
    <2>1. [from |-> booking[b].status, to |-> to, action |-> "BOOKING_RESCHEDULED"] \in Entry
      BY <1>5, <1>6 DEF Entry, Row
    <2>2. HistoryChained
      BY DEF AloneInv
    <2> QED
      BY <1>1, <1>5, <1>6, <1>8, <2>1, <2>2, RecordKeepsChain
  <1>11. DoubleBookedOnlyOverMidnight'
    <2>1. booking'[b] = row /\ \A c \in BookingIds \ {b} : booking'[c] = booking[c]
      BY <1>1, <1>5, <1>8 DEF TypeOK
    <2>2. ASSUME NEW c \in BookingIds \ {b}, DoubleBooked(c, b)'
          PROVE  CrossesMidnight(b)'
      <3>1. /\ Occupies(c)
            /\ booking[c].master = booking[b].master
            /\ Overlaps(booking[c].start, booking[c].end, s, e)
        BY <1>7, <2>1, <2>2 DEF DoubleBooked, Clashes, Occupies
      <3>2. booking[c] \in Row
        BY <1>1, <3>1 DEF TypeOK, Occupies, NoRow, Active
      <3>3. c \notin VisibleToMove(b, s)
        BY <1>2, <1>4, <3>1 DEF AloneInv, Known, MovesMeetNobodyRead
      <3>4. \/ booking[c].start >= StartOfDay(s) + DayLength
            \/ booking[c].end <= StartOfDay(s) - DayLength
        <4>1. /\ booking[c].start \in Nat
              /\ booking[c].end \in Nat
              /\ StartOfDay(s) \in Nat
              /\ DayLength \in Nat
          BY <1>5, <3>2, DayBegins, StartsAssumption, EndsAreNumbers, BoundsAssumption
             DEF Row
        <4> QED
          BY <3>1, <3>3, <4>1 DEF VisibleToMove
      <3>5. /\ booking[c].start \in Nat
            /\ booking[c].end \in Nat
            /\ s \in Nat /\ e \in Nat
            /\ StartOfDay(s) \in Nat
            /\ StartOfDay(s) <= s
            /\ DayLength \in Nat
        BY <1>5, <3>2, DayBegins, StartsAssumption, EndsAreNumbers, BoundsAssumption
           DEF Row
      <3>6. e > StartOfDay(s) + DayLength
        BY <3>1, <3>4, <3>5 DEF Overlaps
      <3> QED
        BY <1>7, <2>1, <3>6 DEF CrossesMidnight, StartOfDay
    <2>3. DoubleBookedOnlyOverMidnight
      BY DEF AloneInv
    <2> QED
      BY <1>1, <1>5, <1>7, <1>8, <2>2, <2>3, WriteKeepsOverMidnight
  <1> QED
    BY <1>9, <1>10, <1>11 DEF AloneInv

-----------------------------------------------------------------------------
(* The theorems.                                                           *)

Alone == part = "alone" => AloneInv

LEMMA InitAlone == MCInit => Alone
  <1> SUFFICES ASSUME MCInit PROVE AloneInv
    BY DEF Alone
  <1>1. Known
    BY DEF MCInit, Init, Known, OneAtATime, ReadsAreFresh, CreatesMeetNobody,
           MovesMeetNobodyRead, Idle
  <1>2. HistoryChained
    BY DEF MCInit, Init, HistoryChained
  <1>3. DoubleBookedOnlyOverMidnight
    BY DEF MCInit, Init, DoubleBookedOnlyOverMidnight, DoubleBooked, Occupies,
           Active, NoRow
  <1> QED
    BY <1>1, <1>2, <1>3 DEF AloneInv

\* Tables and handlers as they were.
LEMMA StutterKeepsAlone ==
  ASSUME AloneInv, UNCHANGED <<booking, journal, disturbed, req>>
  PROVE  AloneInv'
  <1>1. OneAtATime' /\ ReadsAreFresh'
    BY DEF AloneInv, Known, OneAtATime, ReadsAreFresh
  <1>2. CreatesMeetNobody'
    BY DEF AloneInv, Known, CreatesMeetNobody, Clashes, Occupies
  <1>3. MovesMeetNobodyRead'
    BY DEF AloneInv, Known, MovesMeetNobodyRead, VisibleToMove, Occupies, Overlaps,
           StartOfDay
  <1> QED
    BY <1>1, <1>2, <1>3, UnwrittenKeepsChain, UnwrittenKeepsOverMidnight
       DEF AloneInv, Known

LEMMA NextAlone == BookingsInv /\ Alone /\ [MCNext]_<<vars, part>> => Alone'
  <1> SUFFICES ASSUME BookingsInv, AloneInv, part = "alone", [MCNext]_<<vars, part>>
               PROVE  AloneInv'
    BY DEF Alone, MCNext
  <1>1. TypeOK
    BY DEF BookingsInv, IInv
  <1>2. ASSUME UNCHANGED <<vars, part>> PROVE AloneInv'
    BY <1>2, StutterKeepsAlone DEF vars
  <1>3. ASSUME Tick PROVE AloneInv'
    BY <1>3, StutterKeepsAlone DEF Tick
  <1>4. ASSUME NEW r \in Requests, RunsAlone(r), Step(r) PROVE AloneInv'
    BY <1>1, <1>4, ReadersKeepAlone, CreateCommitKeepsAlone, StatusCommitKeepsAlone,
       MoveCommitKeepsAlone DEF Step
  <1> QED
    BY <1>2, <1>3, <1>4 DEF MCNext, AloneNext

\* Handlers that run one at a time: what one has read is still what the tables
\* hold (createBooking, updateStatus, rescheduleBooking).
THEOREM AloneInvariant == MCSpec => []Alone
  BY InitAlone, NextAlone, BookingsInvariant, PTL DEF MCSpec

\* One request at a time: the history of a booking is a chain that never leads
\* back to pending.
THEOREM ChainWhenAlone == MCSpec => []ChainedAlone
  <1>1. Alone => ChainedAlone
    BY DEF Alone, AloneInv, ChainedAlone
  <1> QED
    BY <1>1, AloneInvariant, PTL

\* One request at a time: a master is booked twice only by a booking that was
\* moved across midnight.
THEOREM MidnightWhenAlone == MCSpec => []MidnightAlone
  <1>1. Alone => MidnightAlone
    BY DEF Alone, AloneInv, MidnightAlone
  <1> QED
    BY <1>1, AloneInvariant, PTL

-----------------------------------------------------------------------------
(* Decisions, step by step.                                                *)

\* The last row a Record leaves, and where.
LEMMA RecordedLast ==
  ASSUME TypeOK, NEW b \in BookingIds, NEW from, NEW to, NEW action,
         [from |-> from, to |-> to, action |-> action] \in Entry,
         Record(b, from, to, action)
  PROVE  /\ journal'[b][Len(journal'[b])].action = action
         /\ \A c \in BookingIds \ {b} : journal'[c] = journal[c]
  <1> DEFINE s == journal[b]
             e == [from |-> from, to |-> to, action |-> action]
  <1>1. s \in Seq(Entry) /\ e \in Entry
    BY DEF TypeOK
  <1>2. journal'[b] = Append(s, e) /\ \A c \in BookingIds \ {b} : journal'[c] = journal[c]
    BY DEF Record, TypeOK
  <1>3. e.action = action
    OBVIOUS
  <1> HIDE DEF s, e
  <1>4. journal'[b][Len(journal'[b])] = e
    BY <1>1, <1>2, AppendedAt
  <1> QED
    BY <1>2, <1>3, <1>4

LEMMA CommitsDecideLegally ==
  ASSUME BookingsInv, AloneInv, NEW r \in Requests,
         CreateCommit(r) \/ StatusCommit(r) \/ MoveCommit(r)
  PROVE  LegalStep
  <1>1. TypeOK /\ IInv
    BY DEF BookingsInv, IInv
  <1>2. CASE CreateCommit(r)
    <2>1. PICK b \in BookingIds : Record(b, "none", req[r].initial, "BOOKING_CREATED")
      BY <1>2 DEF CreateCommit
    <2>2. req[r] \in CreateRequest
      BY <1>1, <1>2, RequestShapes DEF CreateCommit
    <2>3. [from |-> "none", to |-> req[r].initial, action |-> "BOOKING_CREATED"] \in Entry
      BY <2>2 DEF Entry, CreateRequest, Status
    <2> QED
      BY <1>1, <2>1, <2>3, RecordedLast DEF LegalStep
  <1>3. CASE MoveCommit(r)
    <2>1. PICK b, to, read : b = req[r].booking /\ to = MovedStatus(read) /\ read = req[r].read
      OBVIOUS
    <2>2. req[r] \in MoveRequest
      BY <1>1, <1>3, RequestShapes DEF MoveCommit
    <2>3. b \in BookingIds /\ read \in Status /\ to \in Status
      BY <2>1, <2>2 DEF MoveRequest, MovedStatus, Status
    <2>4. [from |-> read, to |-> to, action |-> "BOOKING_RESCHEDULED"] \in Entry
      BY <2>3 DEF Entry
    <2>5. Record(b, read, to, "BOOKING_RESCHEDULED")
      BY <1>3, <2>1 DEF MoveCommit
    <2> QED
      BY <1>1, <2>3, <2>4, <2>5, RecordedLast DEF LegalStep
  <1>4. CASE StatusCommit(r)
    <2>1. PICK b, next, read : b = req[r].booking /\ next = req[r].next /\ read = req[r].read
      OBVIOUS
    <2>2. req[r].op = "status" /\ req[r] \in StatusRequest
      BY <1>1, <1>4, RequestShapes DEF StatusCommit
    <2>3. b \in BookingIds /\ read \in Status /\ next \in Status
      BY <2>1, <2>2 DEF StatusRequest, Decisions, Status
    <2>4. [from |-> read, to |-> next, action |-> "BOOKING_STATUS"] \in Entry
      BY <2>3 DEF Entry
    <2>5. /\ Record(b, read, next, "BOOKING_STATUS")
          /\ booking' = [booking EXCEPT ![b].status = next]
      BY <1>4, <2>1 DEF StatusCommit
    <2>6. Cal!Legal(booking[b].status, next)
      BY <1>1, <2>1, <2>2 DEF IInv, DecisionsAreGuarded, AloneInv, Known, ReadsAreFresh
    <2>7. booking[b] \in Row
      BY <1>1, <2>1, <2>2, <2>3 DEF IInv, ReadsWereReal, TypeOK
    <2>8. booking'[b].status = next
      BY <1>1, <2>3, <2>5, <2>7 DEF TypeOK, Row
    <2>9. \A c \in BookingIds \ {b} : journal'[c] = journal[c]
      BY <1>1, <2>3, <2>4, <2>5, RecordedLast
    <2> QED
      BY <2>6, <2>8, <2>9 DEF LegalStep
  <1> QED
    BY <1>2, <1>3, <1>4

LEMMA NextDecidesLegally ==
  BookingsInv /\ Alone /\ [MCNext]_<<vars, part>>
    => [part = "alone" => LegalStep]_<<vars, part>>
  <1> SUFFICES ASSUME BookingsInv, AloneInv, part = "alone", MCNext
               PROVE  LegalStep
    BY DEF Alone
  <1>1. ASSUME UNCHANGED journal PROVE LegalStep
    BY <1>1 DEF LegalStep
  <1>2. ASSUME NEW r \in Requests, Step(r) PROVE LegalStep
    <2>1. CASE CreateCommit(r) \/ StatusCommit(r) \/ MoveCommit(r)
      BY <2>1, CommitsDecideLegally
    <2>2. CASE ~(CreateCommit(r) \/ StatusCommit(r) \/ MoveCommit(r))
      BY <1>1, <1>2, <2>2 DEF Step, CreateSnapshot, StatusRead, MoveRead, MoveCheck,
                              Abandon
    <2> QED
      BY <2>1, <2>2
  <1> QED
    BY <1>1, <1>2 DEF MCNext, AloneNext, Tick

\* One request at a time: a decision takes a booking along a legal transition
\* of the status it has at that moment.
THEOREM LegalWhenAlone == MCSpec => LegalAlone
  BY NextDecidesLegally, AloneInvariant, BookingsInvariant, PTL DEF MCSpec, LegalAlone
=============================================================================
