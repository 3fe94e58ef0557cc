----------------------------- MODULE MCPartners -----------------------------
(***************************************************************************)
(* Instances of the modules about partners and their salons for TLC.  The  *)
(* first state chooses which is explored:                                  *)
(*                                                                         *)
(*   alone      ownership, one request at a time, a place that may get     *)
(*              salons                                                     *)
(*   together   ownership, two requests at once, one salon, no places      *)
(*   paying     the subscriptions of one salon, one request at a time      *)
(*   texts      the salon editor on two pages, where only texts change      *)
(*   filled     the same on one page, with two redemptions at once          *)
(*   rows       the salon editor on one page: a service comes and goes      *)
(*   photos     the same with a photo, which the salon cannot do without   *)
(*   beside     the salon editor, and services made outside it             *)
(*   hours      the hours and breaks of two masters, two requests at once  *)
(*   reviews    two visits to one salon, two requests at once              *)
(*   requests   requests for access, one at a time                         *)
(*   requested  requests for access, two at once                           *)
(*   offered    a booking of what two masters offer, which changes once    *)
(*   priced     the same with one master and two rates                     *)
(*   changing   the same with one master and two changes                   *)
(*   staff      the staff a new partner enters                             *)
(*                                                                         *)
(* Part together is Ownership itself; in the parts without owners its      *)
(* tables stay empty.  A variable several modules have is shared; those of *)
(* other modules keep the value Nothing.  Where a module has proofs, the   *)
(* instance is of the module with its proofs, so that its theorems are     *)
(* about the part.                                                         *)
(***************************************************************************)
EXTENDS Ownership, TLC, Sequences

CONSTANTS u1, u2, s1, s2, c1, h1, h2, p1, r1, r2, d1, d2, admin, Nothing, Gone

ASSUME NamesAssumption == None \notin {u1, u2, d1, d2, r1, r2}

VARIABLES
  part,
  payment, disabled, now,
  rows, offers, text, meta, page, enriched, crossed, made,
  hours, break, weeks, beside, bare, lost,
  review, written, told, doubt,
  master,
  request, voucher, reopened, orphans,
  past, items, extras, slot,
  stored, shown, notice, timer, call, publisher, removal, tally, raced, erased

Alone == INSTANCE Ownership WITH
  Users <- {u1, u2}, Salons <- {s1, s2}, Codes <- {c1}, Handlers <- {h1},
  Registered <- {}, Places <- {p1}, Targets <- {<<None, p1>>},
  RoleChanges <- {<<u1, "SUPER_ADMIN">>}, Trial <- {FALSE}

\* The codes of part together are for the salon that is there.
MCTargets == {<<s1, None>>}

Paying == INSTANCE Subscriptions WITH
  Owners <- {u1}, Admin <- admin, Subs <- {r1, r2}, Payments <- {d1, d2}, Handlers <- {h1},
  Months <- {1, 2}, MaxTime <- 2, MaxEnd <- 3

\* Texts that leave something open, which the place completes.
NoWords == [words |-> None, phone |-> 1]

NoPhone == [words |-> 1, phone |-> None]

PlaceText == [words |-> 1, phone |-> 1]

TextsOnly == INSTANCE SalonEditorProofs WITH
  Services <- {"cut"}, Team <- {"ann"}, Photos <- {}, Redeemers <- {}, Place <- PlaceText, Pictured <- {},
  Texts <- {NoPhone, PlaceText}, Editors <- {h1, h2}, Editable <- {}, Elsewhere <- {}, MaxRows <- 1, GoogleCover <- TRUE

Filled == INSTANCE SalonEditorProofs WITH
  Services <- {"cut"}, Team <- {"ann"}, Photos <- {}, Redeemers <- {1, 2}, Place <- PlaceText, Pictured <- {},
  Texts <- {NoWords, PlaceText}, Editors <- {"here"}, Editable <- {}, Elsewhere <- {}, MaxRows <- 1, GoogleCover <- TRUE

RowsOnly == INSTANCE SalonEditorProofs WITH
  Services <- {"cut"}, Team <- {"ann"}, Photos <- {}, Redeemers <- {}, Place <- PlaceText, Pictured <- {},
  Texts <- {PlaceText}, Editors <- {"here"}, Editable <- {"cut"}, Elsewhere <- {}, MaxRows <- 3, GoogleCover <- TRUE

Pictures == INSTANCE SalonEditorProofs WITH
  Services <- {"cut"}, Team <- {"ann"}, Photos <- {"pic", "view"}, Redeemers <- {1, 2}, Place <- PlaceText,
  Pictured <- {"view"}, Texts <- {PlaceText},
  Editors <- {"here"}, Editable <- {"pic"}, Elsewhere <- {}, MaxRows <- 2, GoogleCover <- FALSE

Beside == INSTANCE SalonEditorProofs WITH
  Services <- {"cut"}, Team <- {"ann"}, Photos <- {}, Redeemers <- {}, Place <- PlaceText, Pictured <- {},
  Texts <- {PlaceText}, Editors <- {"here"}, Editable <- {}, Elsewhere <- {"cut"}, MaxRows <- 3, GoogleCover <- TRUE

Schedules == INSTANCE WorkingHoursProofs WITH
  Masters <- {u1, u2}, Days <- {1, 2}, Breaks <- {d1}, Handlers <- {h1, h2}, MaxWeeks <- 2, Gone <- Gone

Reviewed == INSTANCE ReviewsProofs WITH
  Bookings <- {d1, d2}, MasterOf <- [b \in {d1, d2} |-> IF b = d1 THEN u1 ELSE u2], SalonOf <- [b \in {d1, d2} |-> s1],
  Reviewable <- {d1, d2}, Ratings <- {5}, PlaceRating <- [count |-> 9, sum |-> 36], Handlers <- {h1, h2}, MaxReviews <- 2

AskedInTurn == INSTANCE PartnerRequests WITH
  Requests <- {r1, r2}, Emails <- {"ann"}, Durations <- {"MONTH", "TRIAL"}, Vouchers <- {d1, d2},
  MaxReopened <- 1, Handlers <- {h1}

AskedAtOnce == INSTANCE PartnerRequests WITH
  Requests <- {r1, r2}, Emails <- {"ann"}, Durations <- {"MONTH"}, Vouchers <- {d1},
  MaxReopened <- 1, Handlers <- {h1, h2}

Hour == [price |-> 1, length |-> 1]

\* Offers, its constants in a record.
Visit(c) == INSTANCE Offers WITH
  Services <- c.services, First <- c.first, Masters <- c.masters, Rates <- c.rates, Rooms <- c.rooms,
  Skills <- c.skills, Extra <- c.extra, MaxExtras <- c.maxExtras, MaxChanges <- c.maxChanges

TwoMasters ==
  [services |-> {"cut", "dye"}, first |-> "cut", masters |-> {1, 2}, rates |-> {Hour}, rooms |-> {1, 3},
   skills |-> <<{"cut", "dye"}, {"cut"}>>, extra |-> Hour, maxExtras |-> 1, maxChanges |-> 1]

TwoRates ==
  [services |-> {"cut", "dye"}, first |-> "cut", masters |-> {1},
   rates |-> {Hour, [price |-> 2, length |-> 2]}, rooms |-> {4},
   skills |-> <<{"cut", "dye"}>>, extra |-> Hour, maxExtras |-> 1, maxChanges |-> 1]

TwoChanges ==
  [services |-> {"cut", "dye"}, first |-> "cut", masters |-> {1}, rates |-> {Hour}, rooms |-> {2},
   skills |-> <<{"cut", "dye"}>>, extra |-> Hour, maxExtras |-> 0, maxChanges |-> 2]

StaffNames == {" ", "ann"}

Entering == INSTANCE StaffDrafts WITH
  Ids <- {r1, r2}, Local <- "local", Names <- StaffNames, MaxPresses <- 5, MaxLost <- 1

\* A row without record has no id, and None is neither a row nor a request.
ASSUME StaffAssumption ==
  LET Typed == StaffNames \cup {""}
      Rows == [status : Entering!Statuses, name : Typed]
  IN /\ "local" \notin {r1, r2}
     /\ None \notin Rows
     /\ None \notin [name : Typed, state : {"sent", "done", "failed"}, id : {r1, r2, "local"}, saved : Rows \cup {None}]

owning == <<salon, claim, member, role, code, redeemed>>

subscribing == <<payment, disabled, now>>

editing == <<rows, offers, text, meta, page, enriched, crossed, made>>

scheduling == <<hours, break, weeks, beside, bare, lost>>

reviewing == <<review, written, told, doubt>>

requesting == <<voucher, reopened, orphans>>

offering == <<past, items, extras, slot>>

staffing == <<stored, shown, notice, timer, call, publisher, removal, tally, raced, erased>>

MCInit ==
  /\ part \in {"alone", "together", "paying", "texts", "filled", "rows", "photos", "beside", "hours", "reviews",
             "requests", "requested", "offered", "priced", "changing", "staff"}
  /\ CASE part = "alone" -> Alone!Init
       [] part = "together" -> Init
       [] OTHER -> Empty
  /\ CASE part = "paying" -> Paying!Init
       [] OTHER -> payment = Nothing /\ disabled = Nothing
  /\ part \notin {"alone", "together", "paying"} => sub = Nothing
  /\ CASE part = "texts" -> TextsOnly!Init
       [] part = "filled" -> Filled!Init
       [] part = "rows" -> RowsOnly!Init
       [] part = "photos" -> Pictures!Init
       [] part = "beside" -> Beside!Init
       [] OTHER -> rows = Nothing /\ offers = Nothing /\ text = Nothing /\ meta = Nothing
                     /\ page = Nothing /\ enriched = Nothing /\ crossed = Nothing /\ made = Nothing
  /\ CASE part = "hours" -> Schedules!Init
       [] OTHER -> hours = Nothing /\ break = Nothing /\ weeks = Nothing /\ beside = Nothing
                     /\ bare = Nothing /\ lost = Nothing
  /\ CASE part = "reviews" -> Reviewed!Init
       [] OTHER -> review = Nothing /\ written = Nothing /\ told = Nothing /\ doubt = Nothing
  /\ CASE part = "requests" -> AskedInTurn!Init
       [] part = "requested" -> AskedAtOnce!Init
       [] OTHER -> voucher = Nothing /\ reopened = Nothing /\ orphans = Nothing
  /\ CASE part = "offered" -> Visit(TwoMasters)!Init
       [] part = "priced" -> Visit(TwoRates)!Init
       [] part = "changing" -> Visit(TwoChanges)!Init
       [] OTHER -> past = Nothing /\ items = Nothing /\ extras = Nothing /\ slot = Nothing
  /\ CASE part = "staff" -> Entering!Init
       [] OTHER -> stored = Nothing /\ shown = Nothing /\ notice = Nothing /\ timer = Nothing /\ call = Nothing
                     /\ publisher = Nothing /\ removal = Nothing /\ tally = Nothing /\ raced = Nothing
                     /\ erased = Nothing
  /\ part \notin {"offered", "priced", "changing"} => master = Nothing
  /\ part \notin {"requests", "requested", "offered", "priced", "changing"} => request = Nothing
  /\ part # "paying" => now = Nothing
  /\ part \in {"texts", "filled", "rows", "photos", "beside", "offered", "priced", "changing", "staff"} => req = Nothing

MCNext ==
  \/ /\ part = "alone" /\ Alone!Next
     /\ UNCHANGED <<part, subscribing, editing, scheduling, reviewing, master, request, requesting, offering, staffing>>
  \/ /\ part = "together" /\ Next
     /\ UNCHANGED <<part, subscribing, editing, scheduling, reviewing, master, request, requesting, offering, staffing>>
  \/ /\ part = "paying" /\ Paying!Next
     /\ UNCHANGED <<part, owning, editing, scheduling, reviewing, master, request, requesting, offering, staffing>>
  \/ /\ part = "texts" /\ TextsOnly!Next
     /\ UNCHANGED <<part, req, owning, sub, subscribing, scheduling, reviewing, master, request, requesting, offering, staffing>>
  \/ /\ part = "filled" /\ Filled!Next
     /\ UNCHANGED <<part, req, owning, sub, subscribing, scheduling, reviewing, master, request, requesting, offering, staffing>>
  \/ /\ part = "rows" /\ RowsOnly!Next
     /\ UNCHANGED <<part, req, owning, sub, subscribing, scheduling, reviewing, master, request, requesting, offering, staffing>>
  \/ /\ part = "photos" /\ Pictures!Next
     /\ UNCHANGED <<part, req, owning, sub, subscribing, scheduling, reviewing, master, request, requesting, offering, staffing>>
  \/ /\ part = "beside" /\ Beside!Next
     /\ UNCHANGED <<part, req, owning, sub, subscribing, scheduling, reviewing, master, request, requesting, offering, staffing>>
  \/ /\ part = "hours" /\ Schedules!Next
     /\ UNCHANGED <<part, owning, sub, subscribing, editing, reviewing, master, request, requesting, offering, staffing>>
  \/ /\ part = "reviews" /\ Reviewed!Next
     /\ UNCHANGED <<part, owning, sub, subscribing, editing, scheduling, master, request, requesting, offering, staffing>>
  \/ /\ part = "requests" /\ AskedInTurn!Next
     /\ UNCHANGED <<part, owning, sub, subscribing, editing, scheduling, reviewing, master, offering, staffing>>
  \/ /\ part = "requested" /\ AskedAtOnce!Next
     /\ UNCHANGED <<part, owning, sub, subscribing, editing, scheduling, reviewing, master, offering, staffing>>
  \/ /\ part = "offered" /\ Visit(TwoMasters)!Next
     /\ UNCHANGED <<part, req, owning, sub, subscribing, editing, scheduling, reviewing, requesting, staffing>>
  \/ /\ part = "priced" /\ Visit(TwoRates)!Next
     /\ UNCHANGED <<part, req, owning, sub, subscribing, editing, scheduling, reviewing, requesting, staffing>>
  \/ /\ part = "changing" /\ Visit(TwoChanges)!Next
     /\ UNCHANGED <<part, req, owning, sub, subscribing, editing, scheduling, reviewing, requesting, staffing>>
  \/ /\ part = "staff" /\ Entering!Next
     /\ UNCHANGED <<part, req, owning, sub, subscribing, editing, scheduling, reviewing, master, request, requesting,
                    offering>>

MCvars == <<part, req, owning, sub, subscribing, editing, scheduling, reviewing, master, request, requesting, offering, staffing>>

MCSpec == MCInit /\ [][MCNext]_MCvars

MCSymmetry == Permutations({h1, h2})

\* What the other properties rest on.
PartsSound ==
  /\ part = "alone" => Alone!TypeOK /\ Alone!GrantsBounded
  /\ part = "together" => TypeOK
  /\ part = "paying" => Paying!TypeOK
  /\ part = "texts" => TextsOnly!TypeOK
  /\ part = "filled" => Filled!TypeOK
  /\ part = "rows" => RowsOnly!TypeOK
  /\ part = "photos" => Pictures!TypeOK
  /\ part = "beside" => Beside!TypeOK
  /\ part = "hours" => Schedules!TypeOK
  /\ part = "reviews" => Reviewed!TypeOK
  /\ part = "requests" => AskedInTurn!TypeOK
  /\ part = "requested" => AskedAtOnce!TypeOK
  /\ part = "offered" => Visit(TwoMasters)!TypeOK
  /\ part = "priced" => Visit(TwoRates)!TypeOK
  /\ part = "changing" => Visit(TwoChanges)!TypeOK
  /\ part = "staff" => Entering!TypeOK

ClaimsKeptAlone == [][part = "alone" => Alone!ClaimKept]_MCvars

PaidMonthsGranted == part = "paying" => Paying!PaidMonthsGranted

NeverShortened == [][part = "paying" => Paying!Lengthened]_MCvars

PublishedAgrees ==
  /\ part = "texts" => TextsOnly!PublishedAgrees
  /\ part = "filled" => Filled!PublishedAgrees
  /\ part = "beside" => Beside!PublishedAgrees

ShownOnce ==
  /\ part = "rows" => RowsOnly!ShownOnce
  /\ part = "photos" => Pictures!ShownOnce
  /\ part = "beside" => Beside!ShownOnce

WeeksKept == part = "hours" => Schedules!WeeksKept

RatingsTold == part = "reviews" => Reviewed!RatingsTold

RequestsAccounted ==
  /\ part = "requests" => AskedInTurn!RequestsAccounted
  /\ part = "requested" => AskedAtOnce!RequestsAccounted

OffersKept ==
  /\ part = "offered" => Visit(TwoMasters)!OffersKept
  /\ part = "priced" => Visit(TwoRates)!OffersKept
  /\ part = "changing" => Visit(TwoChanges)!OffersKept

DraftsKept == part = "staff" => Entering!DraftsKept
=============================================================================
