--------------------------- MODULE HomeVisitPage ---------------------------
(***************************************************************************)
(* How a customer asks a master to come home: the seven steps on the       *)
(* master's page (MasterDetailPage) and the draft it keeps in              *)
(* sessionStorage.  Nothing is sent: the last step shows a booking that no *)
(* server knows.                                                           *)
(*                                                                         *)
(* A master without salon has a public calendar beside the steps: a press  *)
(* on a free time is a choice of date and slot at whatever step the page   *)
(* is.  Which times are free is module Availability's matter (AskWeek).    *)
(***************************************************************************)
EXTENDS Integers

CONSTANTS
  Services, First,   \* First: the one the master's list begins with
  Times,             \* the times of a day that may be free
  Week,              \* the days the calendar shows from today on
  LastDay,           \* bound: days that pass
  None

VARIABLES
  form,          \* the page's state
  draft,         \* sessionStorage: a form, or None
  independent,   \* whether the master has no salon
  user,          \* whether somebody is signed in
  today,
  spent          \* history: whether the slot chosen last was confirmed

vars == <<form, draft, independent, user, today, spent>>

\* Days one can choose, and those a draft may still name.
Days == 1..(LastDay + Week)

\* A slot with the service it was offered for.
Slots == [day : Days, time : Times, for : Services]

Forms == [step : 1..7, service : Services \cup {None}, day : Days, slot : Slots \cup {None}]

Blank == [step |-> 1, service |-> None, day |-> today, slot |-> None]

Init ==
  /\ independent \in BOOLEAN
  /\ user \in BOOLEAN
  /\ today = 1
  /\ spent = FALSE
  /\ form = Blank
  /\ draft = Blank

-----------------------------------------------------------------------------
\* The effect that follows every change saves it, save on the last page.
Shows(f) ==
  /\ form' = f
  /\ draft' = IF f.step = 7 THEN draft ELSE f
  /\ UNCHANGED <<independent, today>>

Edits(f) == Shows(f) /\ UNCHANGED <<user, spent>>

\* Where none is chosen, the first on the list is shown.
Selected == IF form.service = None THEN First ELSE form.service

ChooseService(s) == form.step = 1 /\ Edits([form EXCEPT !.service = s, !.step = 2])

\* Address and payment decide nothing here.
EnterAddress == form.step = 2 /\ Edits([form EXCEPT !.step = 3])

ShowTimes == form.step = 3 /\ Edits([form EXCEPT !.step = 4])

EnterPayment == form.step = 5 /\ Edits([form EXCEPT !.step = 6])

Back == form.step \in 2..6 /\ Edits([form EXCEPT !.step = @ - 1])

\* The slot chosen before stays.
ChooseDate(d) ==
  /\ form.step = 3 /\ d >= today
  /\ Edits([form EXCEPT !.day = d])

Shown(d) == d \in today .. (today + Week - 1)

\* A master with a salon has the same five times on every day.
Picked(f, t) ==
  /\ Shows([f EXCEPT !.slot = [day |-> f.day, time |-> t, for |-> Selected], !.step = 5])
  /\ spent' = FALSE
  /\ UNCHANGED user

ChooseSlot(t) ==
  /\ form.step = 4
  /\ independent => Shown(form.day)
  /\ Picked(form, t)

\* On the calendar, at any step, the last page included.
ChooseOnCalendar(t) ==
  /\ independent /\ Shown(form.day)
  /\ Picked([form EXCEPT !.service = Selected], t)

Confirmable == form.step = 6 /\ form.slot # None

\* handleConfirm: a visitor is asked to sign in instead.
Confirm ==
  /\ Confirmable
  /\ user
  /\ form' = [form EXCEPT !.step = 7]
  /\ draft' = None
  /\ spent' = TRUE
  /\ UNCHANGED <<independent, user, today>>

\* The page is loaded again, after a visit to the login page or without.
Reload ==
  /\ Shows(IF draft = None THEN Blank ELSE draft)
  /\ user' \in BOOLEAN
  /\ UNCHANGED spent

\* Midnight passes while the page, or its draft, is there.
NewDay ==
  /\ today < LastDay
  /\ today' = today + 1
  /\ UNCHANGED <<form, draft, independent, user, spent>>

Next ==
  \/ \E s \in Services : ChooseService(s)
  \/ EnterAddress
  \/ ShowTimes
  \/ EnterPayment
  \/ Back
  \/ \E d \in Days : ChooseDate(d)
  \/ \E t \in Times : ChooseSlot(t) \/ ChooseOnCalendar(t)
  \/ Confirm
  \/ Reload
  \/ NewDay

Spec == Init /\ [][Next]_vars
-----------------------------------------------------------------------------
\* The type invariant; a draft is of a page that was not confirmed.
TypeOK ==
  /\ form \in Forms
  /\ draft = None \/ (draft \in Forms /\ draft.step # 7)
  /\ independent \in BOOLEAN /\ user \in BOOLEAN /\ spent \in BOOLEAN
  /\ today \in 1..LastDay

\* What is paid for and confirmed is what the page shows: neither a new date
\* nor another service leaves the slot of the one before in place, by whatever
\* way back through the steps, the calendar and the draft; and no slot is
\* confirmed a second time.
ConfirmedAsShown ==
  form.step \in 5..7 =>
    /\ form.slot # None /\ form.slot.day = form.day /\ form.slot.for = form.service
    /\ spent = (form.step = 7)
=============================================================================
