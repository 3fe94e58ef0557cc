---------------------------- MODULE BookingPage ----------------------------
(***************************************************************************)
(* How a customer books: the seven steps on the salon's page               *)
(* (SalonDetailPage), the draft it keeps in sessionStorage, and the one    *)
(* request it ends in.  The request may be answered, refused, or lost with *)
(* its answer; the page may be loaded again at any time.                   *)
(*                                                                         *)
(* What the server does with a request is Bookings' matter: here it finds  *)
(* one of the masters asked for free at the slot, or refuses.  A customer  *)
(* who is not signed in is sent away to sign in and comes back as after    *)
(* Reload.  The date belongs to the slot.                                  *)
(***************************************************************************)
EXTENDS Integers, Sequences, FiniteSets

CONSTANTS
  Services, First,   \* First: the one the salon's list begins with
  Masters, Slots,
  MaxSent,           \* bound: requests sent
  None               \* also: any master

VARIABLES
  form,     \* the page's state
  draft,    \* sessionStorage: a form, or None
  sent,     \* the requests and what became of them
  waiting,  \* the request the page waits for, 0 for none
  chosen,   \* history: services the customer chose
  excuses   \* history: reasons to have booked once more

vars == <<form, draft, sent, waiting, chosen, excuses>>

Blank == [step |-> 1, items |-> {}, master |-> None, slot |-> None, paid |-> FALSE]

Forms == [step : 1..7, items : SUBSET Services, master : Masters \cup {None},
          slot : Slots \cup {None}, paid : BOOLEAN]

TypeOK ==
  /\ form \in Forms
  /\ draft = None \/ (draft \in Forms /\ draft.step # 7)
  /\ Len(sent) <= MaxSent
  /\ waiting \in 0..Len(sent)
  /\ chosen \subseteq Services
  /\ excuses \in 0..MaxSent

\* Mutant: the effect forgets to look at the step.
ShowsAnywhere(f) == form' = f /\ draft' = f

\* The effect that follows every change saves it, save on the last page.
Shows(f) ==
  /\ form' = f
  /\ draft' = IF f.step = 7 THEN draft ELSE f

Init ==
  /\ form = Blank
  /\ draft = Blank
  /\ sent = <<>>
  /\ waiting = 0
  /\ chosen = {}
  /\ excuses = 0

-----------------------------------------------------------------------------
(* The steps.                                                              *)

Edits(f) == Shows(f) /\ UNCHANGED <<sent, waiting, chosen, excuses>>

\* The catalogue and the list of what is chosen stay on the page all along.
Add(s) ==
  /\ s \notin form.items
  /\ Shows([form EXCEPT !.items = @ \cup {s}])
  /\ chosen' = chosen \cup {s}
  /\ UNCHANGED <<sent, waiting, excuses>>

Remove(s) == s \in form.items /\ Edits([form EXCEPT !.items = @ \ {s}])

ToStaff ==
  /\ form.step = 1 /\ form.items # {}
  /\ Edits([form EXCEPT !.step = 2, !.master = None, !.slot = None])

ChooseMaster(m) == form.step = 2 /\ Edits([form EXCEPT !.step = 3, !.master = m, !.slot = None])

ChooseDate == form.step = 3 /\ Edits([form EXCEPT !.slot = None])

\* The times found may be taken by now.
ChooseSlot(s) ==
  /\ form.step = 4 /\ form.items # {}
  /\ Edits([form EXCEPT !.step = 5, !.slot = s])

ChoosePayment == form.step = 5 /\ Edits([form EXCEPT !.paid = TRUE])

Forward ==
  /\ form.step = 3 \/ (form.step = 5 /\ form.paid)
  /\ Edits([form EXCEPT !.step = @ + 1])

Back == form.step \in 2..6 /\ Edits([form EXCEPT !.step = @ - 1])

-----------------------------------------------------------------------------
(* The request.                                                            *)

\* Mutant: the button is not disabled while the request is under way.
ConfirmableMeanwhile == form.step = 6 /\ form.slot # None /\ form.paid

Confirmable == form.step = 6 /\ form.slot # None /\ form.paid /\ waiting = 0

\* The server takes the page's serviceId where no items are sent.
Ordered(f) == IF f.items = {} THEN {First} ELSE f.items

Confirm ==
  /\ Confirmable
  /\ Len(sent) < MaxSent
  /\ sent' = Append(sent, [items |-> Ordered(form), asked |-> form.master, slot |-> form.slot,
                           state |-> "sent", master |-> None])
  /\ waiting' = Len(sent) + 1
  /\ UNCHANGED <<form, draft, chosen, excuses>>

Made == {i \in DOMAIN sent : sent[i].state = "booked"}

Free(m, slot) == \A i \in Made : sent[i].master # m \/ sent[i].slot # slot

Book(i, m) ==
  /\ sent[i].state = "sent"
  /\ sent[i].asked \in {m, None} /\ Free(m, sent[i].slot)
  /\ sent' = [sent EXCEPT ![i].state = "booked", ![i].master = m]
  /\ UNCHANGED <<form, draft, waiting, chosen, excuses>>

Refuse(i) ==
  /\ sent[i].state = "sent"
  /\ sent' = [sent EXCEPT ![i].state = "refused"]
  /\ UNCHANGED <<form, draft, waiting, chosen, excuses>>

\* What is left of the draft once the booking is confirmed.
Remaining(d) == None

Answer ==
  /\ waiting # 0 /\ sent[waiting].state # "sent"
  /\ waiting' = 0
  /\ IF sent[waiting].state = "booked"
     THEN form' = [form EXCEPT !.step = 7] /\ draft' = Remaining(draft)
     ELSE UNCHANGED <<form, draft>>
  /\ UNCHANGED <<sent, chosen, excuses>>

Excused(yes) == excuses' = IF yes /\ excuses < MaxSent THEN excuses + 1 ELSE excuses

\* The answer does not arrive in time; the server may go on.
Lose ==
  /\ waiting # 0
  /\ waiting' = 0
  /\ Excused(TRUE)
  /\ UNCHANGED <<form, draft, sent, chosen>>

\* "Termin aendern" and "Termin stornieren" lead back into the steps.
Again ==
  /\ form.step = 7
  /\ \E step \in {1, 3} : Shows([form EXCEPT !.step = step])
  /\ Excused(TRUE)
  /\ UNCHANGED <<sent, waiting, chosen>>

\* A draft without items names the service shown beside it.
Restored(d) == IF d = None THEN Blank ELSE [d EXCEPT !.items = Ordered(d)]

Reload ==
  /\ Shows(Restored(draft))
  /\ waiting' = 0
  /\ Excused(waiting # 0 \/ draft = None)
  /\ UNCHANGED <<sent, chosen>>

Next ==
  \/ \E s \in Services : Add(s) \/ Remove(s)
  \/ ToStaff
  \/ \E m \in Masters \cup {None} : ChooseMaster(m)
  \/ ChooseDate
  \/ \E s \in Slots : ChooseSlot(s)
  \/ ChoosePayment
  \/ Forward
  \/ Back
  \/ Confirm
  \/ \E i \in DOMAIN sent : Refuse(i) \/ \E m \in Masters : Book(i, m)
  \/ Answer
  \/ Lose
  \/ Again
  \/ Reload

Spec == Init /\ [][Next]_vars

-----------------------------------------------------------------------------
\* One visit makes one booking, whatever is pressed or loaded again, unless an
\* answer was lost or the customer set out anew after the last page.  It is of
\* services the customer chose, and of the first on the list where none is left:
\* the page goes on to ask for that one.
BookedOnce ==
  /\ Cardinality(Made) <= 1 + excuses
  /\ \A i \in Made : sent[i].items \subseteq chosen \cup {First}
=============================================================================
