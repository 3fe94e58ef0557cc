------------------------------- MODULE Offers -------------------------------
(***************************************************************************)
(* What a salon offers and what one request books of it.  The page of the  *)
(* salon is told of masters (MastersService.list), of prices (buildQuote)  *)
(* and of times (getAvailableSlots); createBooking then looks at all of it *)
(* again, in statements of its own, while the owner and the administrator  *)
(* may change it.  BookingPage has the steps of the page and what becomes  *)
(* of its request, Bookings the calendar: here is one visit at one time of *)
(* day, for which each master has some room.                               *)
(*                                                                         *)
(* The page keeps answers of the server for a while and asks again when it *)
(* likes, so what it shows is an answer given at any time so far, to the   *)
(* question it has now.  An answer is taken to be read at once: what is    *)
(* said of answers below is said of those that nothing changed since.      *)
(***************************************************************************)
EXTENDS Integers, Sequences, FiniteSets, FiniteSetsExt

CONSTANTS
  Services, First,   \* First: the one the salon's list begins with
  Masters,           \* numbers, in the order of their ids
  Rates,             \* the [price, length] a service may have
  Rooms,             \* the lengths of visit a master may have time for
  Skills,            \* what each master offers at first
  Extra,             \* [price, length] of a modifier
  MaxExtras,         \* bound: modifiers of an item
  MaxChanges,        \* bound: changes of the offer
  None               \* also: any master

VARIABLES
  past,      \* what the salon offered, a state for each change; the last is now
  items,     \* what the customer has chosen, in order
  extras,    \* the modifiers of each item
  master,    \* the master asked for, or None
  slot,      \* the time chosen: when it was offered, and for which services; None
  request    \* POST /bookings

vars == <<past, items, extras, master, slot, request>>

page == <<items, extras, master, slot>>

Now == Len(past)

Idle == [op |-> "idle"]

-----------------------------------------------------------------------------
(* The answers, of what salon o offers.                                    *)

Selected(seq) == {seq[i] : i \in DOMAIN seq}

AllActive(o, S) == \A s \in S : o.service[s].active

\* buildQuoteInternal: price and modifiers of each line
Price(o, S, e) == MapThenSumSet(LAMBDA s : o.service[s].price + e[s] * Extra.price, S)

Length(o, S, e) == MapThenSumSet(LAMBDA s : o.service[s].length + e[s] * Extra.length, S)

\* MastersService.list, which the page asks for its first item: who takes no
\* bookings is shown as well.
Shown(o, s) ==
  IF o.open /\ o.service[s].active THEN {m \in Masters : o.link[m] /\ s \in o.skills[m]} ELSE {}

\* eligibleMasterIds of getAvailableSlots
Eligible(o, S) == {m \in Masters : o.link[m] /\ o.accepts[m] /\ S \subseteq o.skills[m]}

\* getAvailableSlots offers the time: the durations are those of the services,
\* without modifiers.
Offered(o, S, asked) ==
  /\ AllActive(o, S)
  /\ asked \in Eligible(o, S) \cup {None}
  /\ \E m \in Eligible(o, S) : asked \in {m, None} /\ o.room[m] >= Length(o, S, [s \in S |-> 0])

-----------------------------------------------------------------------------
(* The page, until it sends its request.                                   *)

Init ==
  /\ \E rates \in [Services -> Rates], room \in [Masters -> Rooms] :
       past = <<[service |-> [s \in Services |->
                   [active |-> TRUE, price |-> rates[s].price, length |-> rates[s].length]],
                 link |-> [m \in Masters |-> TRUE], accepts |-> [m \in Masters |-> TRUE],
                 skills |-> Skills, room |-> room, open |-> TRUE, mode |-> "AUTO"]>>
  /\ items = <<>>
  /\ extras = [s \in Services |-> 0]
  /\ master = None
  /\ slot = None
  /\ request = Idle

Choosing == request = Idle

\* The time chosen stays.
Add(s) ==
  /\ Choosing
  /\ s \notin Selected(items)
  /\ \E v \in 1..Now : past[v].service[s].active
  /\ items' = Append(items, s)
  /\ extras' = [extras EXCEPT ![s] = 0]
  /\ UNCHANGED <<past, master, slot, request>>

Remove(s) ==
  /\ Choosing
  /\ s \in Selected(items)
  /\ items' = SelectSeq(items, LAMBDA t : t # s)
  /\ extras' = [extras EXCEPT ![s] = 0]
  /\ UNCHANGED <<past, master, slot, request>>

\* updateModifierCount
Modify(s, n) ==
  /\ Choosing
  /\ s \in Selected(items)
  /\ extras' = [extras EXCEPT ![s] = n]
  /\ UNCHANGED <<past, items, master, slot, request>>

\* effectiveSelectedServiceId
Leading == IF items = <<>> THEN First ELSE Head(items)

ChooseMaster(m) ==
  /\ Choosing
  /\ m # None => \E v \in 1..Now : m \in Shown(past[v], Leading)
  /\ master' = m
  /\ slot' = None
  /\ UNCHANGED <<past, items, extras, request>>

PickSlot(v) ==
  /\ Choosing
  /\ items # <<>>
  /\ Offered(past[v], Selected(items), master)
  /\ slot' = [at |-> v, services |-> Selected(items)]
  /\ UNCHANGED <<past, items, extras, master, request>>

\* handleConfirmBooking, while the page shows the quote of state v, or none yet
\* (0); without items the server takes serviceId.
Confirm(v) ==
  /\ Choosing
  /\ slot # None
  /\ v # 0 => items # <<>> /\ AllActive(past[v], Selected(items))
  /\ request' = [op |-> "price", services |-> Selected(items) \cup {Leading}, first |-> Leading,
                 extras |-> extras, asked |-> master, quoted |-> v, began |-> Now,
                 priced |-> None, staff |-> None, candidates |-> None, status |-> None,
                 master |-> None, price |-> None, ended |-> None]
  /\ UNCHANGED <<past, page>>

-----------------------------------------------------------------------------
(* createBooking, a step for each statement.                               *)

Refuse(reason) == request' = [request EXCEPT !.op = reason, !.ended = Now]

\* buildQuoteInternal, the first statement.
ReadPrice ==
  /\ request.op = "price"
  /\ IF AllActive(past[Now], request.services)
     THEN request' = [request EXCEPT !.op = "primary", !.priced = Now]
     ELSE Refuse("noService")
  /\ UNCHANGED <<past, page>>

ReadPrimary ==
  /\ request.op = "primary"
  /\ IF past[Now].service[request.first].active
     THEN request' = [request EXCEPT !.op = "staff"]
     ELSE Refuse("noService")
  /\ UNCHANGED <<past, page>>

\* Those who offer any of the services.
ReadStaff ==
  /\ request.op = "staff"
  /\ LET staff == {m \in Masters : /\ past[Now].link[m] /\ past[Now].accepts[m]
                                   /\ past[Now].skills[m] \cap request.services # {}}
     IN request' = [request EXCEPT !.op = "skills", !.staff = staff]
  /\ UNCHANGED <<past, page>>

\* Mutant: those who offer one of the services.
QualifiedForSome(staff) == {m \in staff : past[Now].skills[m] \cap request.services # {}}

\* qualifiedMasterIds
Qualified(staff) == {m \in staff : request.services \subseteq past[Now].skills[m]}

ReadSkills ==
  /\ request.op = "skills"
  /\ LET qualified == Qualified(request.staff)
     IN CASE qualified = {} -> Refuse("nobody")
          [] request.asked \notin qualified \cup {None} -> Refuse("notTheirs")
          [] OTHER -> request' = [request EXCEPT !.op = "mode", !.candidates =
                                     IF request.asked = None THEN qualified ELSE {request.asked}]
  /\ UNCHANGED <<past, page>>

\* resolveBookingConfirmationMode
ReadMode ==
  /\ request.op = "mode"
  /\ request' = [request EXCEPT !.op = "commit",
                                !.status = IF past[Now].mode = "REQUEST" THEN "pending" ELSE "confirmed"]
  /\ UNCHANGED <<past, page>>

\* The transaction: the first candidate with the time.
Commit ==
  /\ request.op = "commit"
  /\ LET length == Length(past[request.priced], request.services, request.extras)
         free == {m \in request.candidates : past[Now].room[m] >= length}
     IN IF free = {} THEN Refuse("conflict")
        ELSE request' = [request EXCEPT !.op = "booked", !.master = Min(free), !.ended = Now,
                           !.price = Price(past[request.priced], request.services, request.extras)]
  /\ UNCHANGED <<past, page>>

-----------------------------------------------------------------------------
(* The owner and the administrator.                                        *)

Changed(offer) ==
  /\ Now <= MaxChanges
  /\ offer # past[Now]
  /\ past' = Append(past, offer)
  /\ UNCHANGED <<page, request>>

\* services.update, or the editor's publication
UpdateService(s, rate, active) ==
  Changed([past[Now] EXCEPT !.service[s] = [active |-> active, price |-> rate.price, length |-> rate.length]])

\* services.remove
RemoveService(s) == Changed([past[Now] EXCEPT !.service[s].active = FALSE])

\* The editor publishes: a member of staff and what they offer, or that a member
\* is gone, whose services stay; and how bookings are confirmed.
PublishStaff(m, skills) == Changed([past[Now] EXCEPT !.link[m] = TRUE, !.skills[m] = skills])

PublishWithout(m) == Changed([past[Now] EXCEPT !.link[m] = FALSE])

PublishMode(mode) == Changed([past[Now] EXCEPT !.mode = mode])

\* setMasterProfileState
SetMasterProfileState(m, active) == Changed([past[Now] EXCEPT !.accepts[m] = active])

\* setSalonProfileState, salons.remove
SetSalonProfileState(active) == Changed([past[Now] EXCEPT !.open = active])

\* Others book or cancel, or working hours change.
ChangeRoom(m, n) == Changed([past[Now] EXCEPT !.room[m] = n])

Next ==
  \/ \E s \in Services : Add(s) \/ Remove(s)
  \/ \E s \in Services, n \in 0..MaxExtras : Modify(s, n)
  \/ \E m \in Masters \cup {None} : ChooseMaster(m)
  \/ \E v \in 1..Now : PickSlot(v)
  \/ \E v \in 0..Now : Confirm(v)
  \/ ReadPrice \/ ReadPrimary \/ ReadStaff \/ ReadSkills \/ ReadMode \/ Commit
  \/ \E s \in Services, rate \in Rates, active \in BOOLEAN : UpdateService(s, rate, active)
  \/ \E s \in Services : RemoveService(s)
  \/ \E m \in Masters, skills \in SUBSET Services : PublishStaff(m, skills)
  \/ \E m \in Masters : PublishWithout(m)
  \/ \E mode \in {"AUTO", "REQUEST"} : PublishMode(mode)
  \/ \E m \in Masters, active \in BOOLEAN : SetMasterProfileState(m, active)
  \/ \E active \in BOOLEAN : SetSalonProfileState(active)
  \/ \E m \in Masters, n \in Rooms : ChangeRoom(m, n)

Spec == Init /\ [][Next]_vars
-----------------------------------------------------------------------------
(* Properties.                                                             *)

Refusals == {"noService", "nobody", "notTheirs", "conflict"}

Ended == Refusals \cup {"booked"}

Offer ==
  [service : [Services -> [active : BOOLEAN, price : Nat, length : Nat]],
   link : [Masters -> BOOLEAN], accepts : [Masters -> BOOLEAN], skills : [Masters -> SUBSET Services],
   room : [Masters -> Rooms], open : BOOLEAN, mode : {"AUTO", "REQUEST"}]

\* The type invariant.
TypeOK ==
  /\ past \in Seq(Offer) /\ Now \in 1..(MaxChanges + 1)
  /\ Selected(items) \subseteq Services /\ Len(items) = Cardinality(Selected(items))
  /\ extras \in [Services -> 0..MaxExtras]
  /\ master \in Masters \cup {None}
  /\ slot # None => slot.at \in 1..Now /\ slot.services \subseteq Services
  /\ request.op \in Ended \cup {"idle", "price", "primary", "staff", "skills", "mode", "commit"}

\* The states of the offer while the request was dealt with.
During == request.began..request.ended

\* What is booked was offered.  The price is that of one moment of the request,
\* when all was to be had, and of the quote the customer saw if nothing changed
\* since; the master, one asked for if any was, offered all of it at one moment
\* and worked there at an earlier; and is on the page's list where the salon
\* is and nothing changed.
BookedAsOffered ==
  request.op = "booked" =>
    LET S == request.services
        m == request.master
    IN /\ \E v \in During : AllActive(past[v], S) /\ request.price = Price(past[v], S, request.extras)
       /\ request.quoted = request.ended => request.price = Price(past[request.quoted], S, request.extras)
       /\ request.asked \in {m, None}
       /\ \E v \in During : /\ S \subseteq past[v].skills[m]
                            /\ \E w \in request.began..v : past[w].link[m] /\ past[w].accepts[m]
       /\ request.began = request.ended /\ past[request.ended].open =>
            m \in Shown(past[request.ended], request.first)
       /\ \E v \in During : request.status = IF past[v].mode = "REQUEST" THEN "pending" ELSE "confirmed"

\* A time that was offered for these services and this master is refused only
\* if the offer changed since, or because of modifiers, which getAvailableSlots
\* knows nothing of.
SlotsAreGood ==
  request.op \in Refusals /\ slot.at = request.ended /\ slot.services = request.services =>
    /\ request.op = "conflict"
    /\ \E s \in request.services : request.extras[s] > 0

\* Both of them.
OffersKept == BookedAsOffered /\ SlotsAreGood
=============================================================================
