----------------------------- MODULE MCServices -----------------------------
(***************************************************************************)
(* Instances of the modules about visitors and customers for TLC.  The     *)
(* first state chooses which is explored:                                  *)
(*                                                                         *)
(*   session   the browser's session, two calls at once                    *)
(*   crowd     the catalogue, two visitors and one worker                  *)
(*   wide      the catalogue, one visitor, two workers, three zones        *)
(*   booking   the booking page, two requests to the server                *)
(*   choosing  the booking page, two services                              *)
(*   visit     the home-visit page, two services                           *)
(*   told      what is told of the availability of two masters             *)
(*                                                                         *)
(* The session is ClientSession itself, so that what is proved of that     *)
(* module is what the run checks; in the other parts nobody is signed in   *)
(* and no call is made.  The variables of the other modules keep the value *)
(* Nothing.                                                                *)
(***************************************************************************)
EXTENDS ClientSession, TLC, Sequences

CONSTANT Nothing

VARIABLES
  part,
  listed, entry, entries, fresh, search, walk,
  form, draft, sent, waiting, chosen, excuses,
  independent, user, today, spent,
  master, now, answer

\* CatalogSearch, its constants in a record.
Search(c) == INSTANCE CatalogSearch WITH
  Visitors <- c.visitors, Salons <- c.salons, Zones <- c.zones, Workers <- c.workers, MaxAttempts <- c.maxAttempts,
  PlacesIn <- c.placesIn, Same <- c.same, Demo <- c.demo, Outside <- c.outside, Wanted <- c.wanted,
  Rows <- c.rows, Order <- c.order, PageSize <- c.pageSize, MaxEntries <- c.maxEntries

Crowd ==
  [visitors |-> {"v", "w"}, salons |-> {"s"}, zones |-> 1..2, workers |-> {1}, maxAttempts |-> 2,
   placesIn |-> <<{"a"}, {"b"}>>, same |-> {<<"a", "b">>}, demo |-> {}, outside |-> {},
   wanted |-> {"s", "a", "b"}, rows |-> <<"s">>, order |-> <<"s", "a", "b">>, pageSize |-> 1, maxEntries |-> 2]

\* "b" is found in two zones, "c" and the demonstration salon are too far away.
Wide ==
  [visitors |-> {"v"}, salons |-> {"s", "t", "demo"}, zones |-> 1..3, workers |-> 1..2, maxAttempts |-> 2,
   placesIn |-> <<{"a", "b"}, {"b", "c"}, {}>>, same |-> {<<"s", "t">>, <<"t", "a">>, <<"a", "b">>},
   demo |-> {"demo"}, outside |-> {"demo", "c"}, wanted |-> {"s", "t", "demo", "a", "b"},
   rows |-> <<"s", "t", "demo">>, order |-> <<"demo", "s", "t", "a", "b", "c">>, pageSize |-> 2, maxEntries |-> 2]

Booking == INSTANCE BookingPage WITH
  Services <- {"cut"}, First <- "cut", Masters <- {"ann", "bob"}, Slots <- {10}, MaxSent <- 2

Choosing == INSTANCE BookingPage WITH
  Services <- {"cut", "dye"}, First <- "cut", Masters <- {"ann"}, Slots <- {10}, MaxSent <- 1

Visiting == INSTANCE HomeVisitPage WITH
  Services <- {"cut", "dye"}, First <- "cut", Times <- {10}, Week <- 2, LastDay <- 2

Row(day, from, to, breaks, accepts, home) ==
  [day |-> day, from |-> from, to |-> to, breaks |-> breaks, accepts |-> accepts, home |-> home]

\* No hours; a break; two rows on one day and a break that ends before it begins.
MCHours ==
  {{},
   {Row(0, 2, 10, {<<4, 6>>}, TRUE, TRUE), Row(1, 0, 12, {}, TRUE, FALSE)},
   {Row(0, 0, 4, {}, TRUE, FALSE), Row(0, 6, 12, {<<10, 3>>}, TRUE, TRUE), Row(1, 3, 9, {}, FALSE, TRUE)},
   {Row(1, 4, 11, {<<7, 8>>, <<5, 6>>}, TRUE, TRUE)}}

Taken(start, end, status, salon) == [start |-> start, end |-> end, status |-> status, salon |-> salon]

\* None; one on each day, the first in another salon; three that touch and overlap,
\* one of them in no salon; one past the server's midnight.
MCBooked ==
  {{},
   {Taken(4, 8, "confirmed", "other"), Taken(16, 18, "pending", "this")},
   {Taken(2, 4, "pending", "none"), Taken(4, 9, "inProgress", "this"), Taken(5, 11, "cancelled", "this")},
   {Taken(10, 14, "confirmed", "this")}}

MCProfiles ==
  {[accepts |-> TRUE, serves |-> TRUE, status |-> "AVAILABLE"],
   [accepts |-> TRUE, serves |-> FALSE, status |-> "BUSY"],
   [accepts |-> TRUE, serves |-> TRUE, status |-> "SOON"]}

Told(c) == INSTANCE Availability WITH
  Minute <- c.minute, Step <- c.step, Day <- c.day, Week <- c.week, Staff <- c.staff, Hours <- c.hours,
  Booked <- c.booked, Profiles <- c.profiles, Instants <- c.instants, Durations <- c.durations,
  Lists <- c.lists, Zones <- c.zones

\* The salon alone on the list, or the other beside it; browsers on the server's
\* clock, ahead of it and behind.
Calendars ==
  [minute |-> 2, step |-> 4, day |-> 12, week |-> 2, staff |-> {"m", "n"}, hours |-> MCHours,
   booked |-> MCBooked, profiles |-> MCProfiles, instants |-> {3, 7, 15}, durations |-> {2, 6},
   lists |-> {{"this"}, {"this", "other"}}, zones |-> {-2, 0, 4}]

\* What the values None and Restore stand for is neither a call nor chosen by
\* anybody.
ASSUME NamesAssumption ==
  /\ Restore \notin Calls /\ None \notin Calls
  /\ None \notin {"cut", "dye"} \cup Visiting!Slots

searching == <<listed, entry, entries, fresh, search, walk>>

choosing == <<sent, waiting, chosen, excuses>>

booking == <<form, draft, choosing>>

visiting == <<independent, user, today, spent>>

asking == <<master, now, answer>>

MCInit ==
  /\ part \in {"session", "crowd", "wide", "booking", "choosing", "visit", "told"}
  /\ Init
  /\ part # "session" => cookie = "none"
  /\ CASE part = "crowd" -> Search(Crowd)!Init
       [] part = "wide" -> Search(Wide)!Init
       [] OTHER -> listed = Nothing /\ entry = Nothing /\ entries = Nothing /\ fresh = Nothing
                     /\ search = Nothing /\ walk = Nothing
  /\ CASE part = "booking" -> Booking!Init
       [] part = "choosing" -> Choosing!Init
       [] OTHER -> sent = Nothing /\ waiting = Nothing /\ chosen = Nothing /\ excuses = Nothing
  /\ CASE part = "visit" -> Visiting!Init
       [] OTHER -> independent = Nothing /\ user = Nothing /\ today = Nothing /\ spent = Nothing
  /\ CASE part = "told" -> Told(Calendars)!Init
       [] OTHER -> master = Nothing /\ now = Nothing /\ answer = Nothing
  /\ part \notin {"booking", "choosing", "visit"} => form = Nothing /\ draft = Nothing

MCNext ==
  \/ part = "session" /\ Next /\ UNCHANGED <<part, searching, booking, visiting, asking>>
  \/ part = "crowd" /\ Search(Crowd)!Next /\ UNCHANGED <<part, vars, booking, visiting, asking>>
  \/ part = "wide" /\ Search(Wide)!Next /\ UNCHANGED <<part, vars, booking, visiting, asking>>
  \/ part = "booking" /\ Booking!Next /\ UNCHANGED <<part, vars, searching, visiting, asking>>
  \/ part = "choosing" /\ Choosing!Next /\ UNCHANGED <<part, vars, searching, visiting, asking>>
  \/ part = "visit" /\ Visiting!Next /\ UNCHANGED <<part, vars, searching, choosing, asking>>
  \/ part = "told" /\ Told(Calendars)!Next /\ UNCHANGED <<part, vars, searching, booking, visiting>>

MCvars == <<part, vars, searching, booking, visiting, asking>>

\* The fairness of ClientSession, and that of CatalogSearch.
MCFairness ==
  /\ Fairness
  /\ \A v \in {"v", "w"} :
       /\ WF_search(part = "crowd" /\ Search(Crowd)!Ends(v))
       /\ WF_searching(part = "crowd" /\ Search(Crowd)!Work(v, 1))
  /\ WF_search(part = "wide" /\ Search(Wide)!Ends("v"))
  /\ \A w \in 1..2 : WF_searching(part = "wide" /\ Search(Wide)!Work("v", w))

MCSpec == MCInit /\ [][MCNext]_MCvars /\ MCFairness

PartsTyped ==
  /\ TypeOK
  /\ part = "crowd" => Search(Crowd)!TypeOK
  /\ part = "wide" => Search(Wide)!TypeOK
  /\ part = "booking" => Booking!TypeOK
  /\ part = "choosing" => Choosing!TypeOK
  /\ part = "visit" => Visiting!TypeOK
  /\ part = "told" => Told(Calendars)!TypeOK

CatalogueHonest ==
  /\ part = "crowd" => Search(Crowd)!CatalogueHonest
  /\ part = "wide" => Search(Wide)!CatalogueHonest

BookedOnce ==
  /\ part = "booking" => Booking!BookedOnce
  /\ part = "choosing" => Choosing!BookedOnce
  /\ part = "visit" => Visiting!ConfirmedAsShown

AnswersTrue == part = "told" => Told(Calendars)!AnswersTrue

\* Every call of the browser and every search of the catalogue comes to an end.
EveryRequestEnds ==
  /\ CallsSettle
  /\ \A v \in {"v", "w"} : part = "crowd" /\ search[v] # Search(Crowd)!Idle ~> part = "crowd" /\ search[v] = Search(Crowd)!Idle
  /\ part = "wide" /\ search["v"] # Search(Wide)!Idle ~> part = "wide" /\ search["v"] = Search(Wide)!Idle
=============================================================================
