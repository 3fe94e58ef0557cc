------------------------------- MODULE Reviews -------------------------------
(***************************************************************************)
(* Reviews of visits and the ratings they add up to (ReviewsService).  A   *)
(* rating is a column of the master and one of the salon: a request        *)
(* changes a review in one statement, adds the reviews up in others and    *)
(* writes what it found in two more.  The average and the number of        *)
(* reviews are written together and stand here for each other.             *)
(*                                                                         *)
(* A salon's columns have a second writer, the redemption of an access     *)
(* code for its external place: see SalonEditor and Ownership for what     *)
(* else that writes.                                                       *)
(***************************************************************************)
EXTENDS Integers, FiniteSets, FiniteSetsExt

CONSTANTS
  Bookings, MasterOf, SalonOf,   \* SalonOf gives None for visits at home
  Reviewable,  \* completed visits whose customer is not of the salon
  Ratings,
  PlaceRating, \* what the external places service says of a salon
  Handlers,
  MaxReviews,  \* bound: reviews written of a booking, one after another
  None

VARIABLES
  review,   \* the booking's review; number is its id
  written,  \* the number of reviews written of each booking
  told,     \* the rating columns of masters and salons
  req,      \* the request each handler works on
  doubt     \* history: subjects two requests wrote at once, or one left unwritten,
            \* and salons their place was written over

vars == <<review, written, told, req, doubt>>

Idle == [step |-> "idle"]

Subjects == {MasterOf[b] : b \in Bookings} \cup ({SalonOf[b] : b \in Bookings} \ {None})

\* Mutant: the salon's rating is left alone.
ConcernedMaster(b) == {MasterOf[b]}

\* Whom recalculateAggregates is called for.
Concerned(b) == {MasterOf[b], SalonOf[b]} \ {None}

TypeOK ==
  /\ \A b \in Bookings : review[b] # None => review[b].rating \in Ratings /\ review[b].number = written[b]
  /\ \A b \in Bookings : written[b] \in 0..MaxReviews
  /\ \A s \in Subjects : told[s] = PlaceRating \/ told[s].count \in 0..Cardinality(Bookings)
  /\ DOMAIN req = Handlers
  /\ doubt \subseteq Subjects

Unrated == [count |-> 0, sum |-> 0]

IsMaster(s) == \E b \in Bookings : MasterOf[b] = s

SalonPages == {s \in Subjects : ~IsMaster(s)}

\* A salon made for a place begins with what is said of the place.
Init ==
  /\ review = [b \in Bookings |-> None]
  /\ written = [b \in Bookings |-> 0]
  /\ doubt \in SUBSET SalonPages
  /\ told = [s \in Subjects |-> IF s \in doubt THEN PlaceRating ELSE Unrated]
  /\ req = [h \in Handlers |-> Idle]

Continue(h, r) == req' = [req EXCEPT ![h] = r]

Finish(h) == Continue(h, Idle)

-----------------------------------------------------------------------------
(* createByBooking and deleteByAdmin, up to the change of the review.      *)

CheckReview(h, b, rating) ==
  /\ req[h] = Idle
  /\ b \in Reviewable
  /\ review[b] = None
  /\ Continue(h, [step |-> "create", booking |-> b, rating |-> rating])
  /\ UNCHANGED <<review, written, told, doubt>>

FindReview(h, b) ==
  /\ req[h] = Idle
  /\ review[b] # None
  /\ Continue(h, [step |-> "delete", booking |-> b, number |-> review[b].number])
  /\ UNCHANGED <<review, written, told, doubt>>

\* The requests that changed a review of subject s and have not written it.
Recalculating(s) == {h \in Handlers : req[h].step = "count" /\ s \in req[h].left}

\* The change is made; the subjects it concerns are to be counted and written.
Changed(h, b) ==
  LET shared == {s \in Concerned(b) : Recalculating(s) # {}}
  IN /\ doubt' = doubt \cup shared
     /\ req' = [i \in Handlers |->
          IF i = h
          THEN [step |-> "count", found |-> [s \in {} |-> 0], left |-> Concerned(b), alone |-> Concerned(b) \ shared]
          ELSE IF \E s \in shared : i \in Recalculating(s) THEN [req[i] EXCEPT !.alone = @ \ shared]
          ELSE req[i]]

\* A booking has at most one review (Review.bookingId is unique).
Insert(h) ==
  LET b == req[h].booking
  IN /\ req[h].step = "create"
     /\ review[b] = None /\ written[b] < MaxReviews
     /\ review' = [review EXCEPT ![b] = [rating |-> req[h].rating, number |-> written[b] + 1]]
     /\ written' = [written EXCEPT ![b] = @ + 1]
     /\ Changed(h, b)
     /\ UNCHANGED told

Delete(h) ==
  LET b == req[h].booking
  IN /\ req[h].step = "delete"
     /\ review[b] # None /\ review[b].number = req[h].number
     /\ review' = [review EXCEPT ![b] = None]
     /\ Changed(h, b)
     /\ UNCHANGED <<written, told>>

-----------------------------------------------------------------------------
(* recalculateAggregates: master first, then the salon; each is counted in *)
(* a statement of its own, and both are counted before one is written.     *)

Rated(s) == {b \in Bookings : review[b] # None /\ s \in {MasterOf[b], SalonOf[b]}}

\* aggregate: how many ratings there are, and what they add up to.
Totals(ratings) ==
  [count |-> Cardinality(DOMAIN ratings), sum |-> MapThenSumSet(LAMBDA b : ratings[b], DOMAIN ratings)]

Aggregate(s) == Totals([b \in Rated(s) |-> review[b].rating])

\* The subject of S whose turn it is.
Turn(s, S) == s \in S /\ (IsMaster(s) \/ \A t \in S : ~IsMaster(t))

Count(h, s) ==
  LET r == req[h]
  IN /\ r.step = "count"
     /\ Turn(s, r.left \ DOMAIN r.found)
     /\ Continue(h, [r EXCEPT !.found = [t \in DOMAIN @ \cup {s} |-> IF t = s THEN Aggregate(s) ELSE @[t]]])
     /\ UNCHANGED <<review, written, told, doubt>>

\* A subject this request alone was about is told right again.
Write(h, s) ==
  LET r == req[h]
  IN /\ r.step = "count"
     /\ r.left \subseteq DOMAIN r.found
     /\ Turn(s, r.left)
     /\ told' = [told EXCEPT ![s] = r.found[s]]
     /\ doubt' = IF s \in r.alone THEN doubt \ {s} ELSE doubt
     /\ Continue(h, IF r.left = {s} THEN Idle ELSE [r EXCEPT !.left = @ \ {s}])
     /\ UNCHANGED <<review, written>>

-----------------------------------------------------------------------------
(* enrichSalonFromGooglePlaces: the salon is read, the places service is   *)
(* asked, and the rating that was read is written back, or, where there    *)
(* was none, the place's.  When anything fails, once more.                 *)

EnrichRead(h, s) ==
  /\ req[h] = Idle
  /\ Continue(h, [step |-> "asked", salon |-> s, seen |-> told[s]])
  /\ UNCHANGED <<review, written, told, doubt>>

\* The places service, and what the request says of the place, may have none.
Completions(r) == IF r.seen.count > 0 THEN {r.seen} ELSE {PlaceRating, r.seen}

\* What is then shown is not the sum of the reviews any more, unless it was shown
\* before.
EnrichAs(h, r) ==
  LET s == req[h].salon
  IN /\ \E rating \in Completions(req[h]) : told' = [told EXCEPT ![s] = rating]
     /\ doubt' = IF told' = told THEN doubt ELSE doubt \cup {s}
     /\ Continue(h, r)
     /\ UNCHANGED <<review, written>>

EnrichWrite(h) ==
  /\ req[h].step = "asked"
  /\ EnrichAs(h, [req[h] EXCEPT !.step = "enriched"])

EnrichFallback(h) ==
  /\ req[h].step \in {"asked", "enriched"}
  /\ EnrichAs(h, Idle)

-----------------------------------------------------------------------------
\* A request ends, fails or its process dies: what it had changed stays.
Fail(h) ==
  /\ req[h] # Idle
  /\ Finish(h)
  /\ doubt' = IF req[h].step = "count" THEN doubt \cup req[h].left ELSE doubt
  /\ UNCHANGED <<review, written, told>>

Next ==
  \E h \in Handlers :
    \/ \E b \in Bookings : FindReview(h, b) \/ \E r \in Ratings : CheckReview(h, b, r)
    \/ Insert(h)
    \/ Delete(h)
    \/ \E s \in Subjects : Count(h, s) \/ Write(h, s)
    \/ \E s \in SalonPages : EnrichRead(h, s)
    \/ EnrichWrite(h)
    \/ EnrichFallback(h)
    \/ Fail(h)

Spec == Init /\ [][Next]_vars

-----------------------------------------------------------------------------
\* The rating a master or a salon shows is the one of its reviews whenever no
\* request is about to write it, unless two requests about it overlapped or one
\* failed after its change, or the salon's place was written over it: because the
\* salon showed no rating, or another one than had been read; and no request has
\* run alone since.
RatingsTold ==
  \A s \in Subjects :
    \/ s \in doubt
    \/ Recalculating(s) # {}
    \/ told[s] = Aggregate(s)
=============================================================================
