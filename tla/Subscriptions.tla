--------------------------- MODULE Subscriptions ---------------------------
(***************************************************************************)
(* The PartnerSubscription table of one salon and all who write it:        *)
(* SubscriptionsService.checkout, the approval of a claim, the trial an    *)
(* owner starts, access codes, partner vouchers and the administrator's    *)
(* switch.  All extend the row that ends last from its end, or from now if *)
(* that is over.  checkout does so in four statements without a            *)
(* transaction, the codes in transactions that lock nothing they read:     *)
(*                                                                         *)
(*   checkout       CheckoutPay, CheckoutRead, Extend, CheckoutLink        *)
(*   redeemCode     CodeRead, Extend                                       *)
(*   redeem         VoucherRead, Extend                                    *)
(*   activateTrial  TrialRead, TrialCreate                                 *)
(*   enable trial   EnableRead, EnableCreate                               *)
(*                                                                         *)
(* Time is counted in months.                                              *)
(***************************************************************************)
EXTENDS Integers, FiniteSets, FiniteSetsExt

CONSTANTS
  Owners,         \* members of the salon
  Admin,          \* the administrator, who subscribes for a salon by its switch
  Subs,           \* ids of PartnerSubscription rows
  Payments,       \* ids of PartnerPayment rows
  Handlers,       \* requests that can be in flight at once
  None,           \* the null of optional columns
  Months,         \* the lengths of the plans and codes
  MaxTime,        \* bound: the last month
  MaxEnd          \* bound: the last month a subscription reaches

VARIABLES
  sub,            \* the PartnerSubscription table
  payment,        \* the PartnerPayment table
  disabled,       \* the SALON_TRIAL_DEACTIVATED row of the audit log exists
  req,            \* the handlers in flight
  now

vars == <<sub, payment, disabled, req, now>>

-----------------------------------------------------------------------------
NoRow == [row |-> "absent"]

Idle == [op |-> "idle"]

Init ==
  /\ sub = [r \in Subs |-> NoRow]
  /\ payment = [p \in Payments |-> NoRow]
  /\ disabled = FALSE
  /\ req = [h \in Handlers |-> Idle]
  /\ now = 0

Go(h, record) == req' = [req EXCEPT ![h] = record]

Finish(h) == Go(h, Idle)

Larger(a, b) == IF a > b THEN a ELSE b

Rows == {r \in Subs : sub[r] # NoRow}

Running == {"TRIAL", "ACTIVE"}

LiveRows(u) == {r \in Rows : sub[r].user = u /\ sub[r].status \in Running}

\* findFirst, ordered by endsAt descending.
Latest(rows) == {r \in rows : \A q \in rows : sub[q].end <= sub[r].end}

\* Mutant: an extension counts from now.
NewEndFromNow(r, at, months) == at + months

\* newEndAt: from the end of what is running, else from the time of the request.
NewEnd(r, at, months) == Larger(at, sub[r].end) + months

Create(r, user, status, trial, start, end) ==
  /\ sub[r] = NoRow
  /\ sub' = [sub EXCEPT ![r] = [user |-> user, status |-> status, trial |-> trial,
                                start |-> start, end |-> end]]

\* What a handler that looked for a row to extend does next: the row it found,
\* or None, and the end it computed.  Its "now" is the time it began, at.
Found(u, rows, at, months) ==
  {found \in
     IF rows = {} THEN {[row |-> None, user |-> u, at |-> at, end |-> at + months]}
     ELSE {[row |-> r, user |-> u, at |-> at, end |-> NewEnd(r, at, months)] : r \in Latest(rows)} :
   found.end <= MaxEnd}

-----------------------------------------------------------------------------
(* Checkout.                                                               *)

\* The payment succeeds before anything is extended.
CheckoutPay(h) ==
  /\ req[h] = Idle
  /\ \E u \in Owners, p \in Payments, months \in Months :
       /\ payment[p] = NoRow
       /\ payment' = [payment EXCEPT ![p] = [user |-> u, months |-> months, sub |-> None]]
       /\ Go(h, [op |-> "paid", user |-> u, payment |-> p, at |-> now])
  /\ UNCHANGED <<sub, disabled, now>>

CheckoutRead(h) ==
  /\ req[h].op = "paid"
  /\ \E found \in Found(req[h].user, LiveRows(req[h].user), req[h].at,
                         payment[req[h].payment].months) :
       Go(h, [op |-> "extend", found |-> found, by |-> "payment", payment |-> req[h].payment,
              trial |-> FALSE])
  /\ UNCHANGED <<sub, payment, disabled, now>>

CheckoutLink(h) ==
  /\ req[h].op = "link"
  /\ payment' = [payment EXCEPT ![req[h].payment].sub = req[h].sub]
  /\ Finish(h)
  /\ UNCHANGED <<sub, disabled, now>>

-----------------------------------------------------------------------------
(* Codes.                                                                  *)

\* redeemCode, inside its transaction.
CodeRead(h) ==
  /\ req[h] = Idle
  /\ \E u \in Owners, months \in Months, trial \in BOOLEAN :
       \E found \in Found(u, LiveRows(u), now, months) :
         Go(h, [op |-> "extend", found |-> found, by |-> "code", payment |-> None,
                trial |-> trial])
  /\ UNCHANGED <<sub, payment, disabled, now>>

\* VouchersService.redeem: a row that was cancelled is extended like any other.
VoucherRead(h) ==
  /\ req[h] = Idle
  /\ \E u \in Owners, months \in Months, trial \in BOOLEAN :
       \E found \in Found(u, {r \in Rows : sub[r].user = u}, now, months) :
         Go(h, [op |-> "extend", found |-> found, by |-> "voucher", payment |-> None,
                trial |-> trial])
  /\ UNCHANGED <<sub, payment, disabled, now>>

\* The row is written by its id, whatever it has become.
Extended(r, end) == [sub[r] EXCEPT !.status = "ACTIVE", !.end = end]

\* Only a voucher changes the plan of the row it extends.
Extend(h) ==
  /\ req[h].op = "extend"
  /\ LET found == req[h].found
         new == IF req[h].trial THEN "TRIAL" ELSE "ACTIVE"
         next(r) == IF req[h].by = "payment"
                    THEN Go(h, [op |-> "link", sub |-> r, payment |-> req[h].payment])
                    ELSE Finish(h)
     IN \/ /\ found.row = None
           /\ \E r \in Subs : Create(r, found.user, new, req[h].trial, found.at, found.end) /\ next(r)
        \/ /\ found.row # None
           /\ sub' = [sub EXCEPT ![found.row] =
                        IF req[h].by = "voucher"
                        THEN [Extended(found.row, found.end) EXCEPT !.trial = req[h].trial]
                        ELSE Extended(found.row, found.end)]
           /\ next(found.row)
  /\ UNCHANGED <<payment, disabled, now>>

-----------------------------------------------------------------------------
(* Trials.                                                                 *)

\* approveClaim creates one whatever there is.
ApproveTrial(r, u) ==
  /\ Create(r, u, "TRIAL", TRUE, now, now + 1)
  /\ UNCHANGED <<payment, disabled, req, now>>

\* activateTrialDirect: no row of the salon may have the plan of a trial.
TrialRead(h) ==
  /\ req[h] = Idle
  /\ \A r \in Rows : ~sub[r].trial
  /\ \E u \in Owners : Go(h, [op |-> "trial", user |-> u])
  /\ UNCHANGED <<sub, payment, disabled, now>>

\* manageSalonTrial, enabling: nothing of the salon may be running.
EnableRead(h) ==
  /\ req[h] = Idle
  /\ \A r \in Rows : sub[r].status \notin Running
  /\ Go(h, [op |-> "trial", user |-> Admin])
  /\ UNCHANGED <<sub, payment, disabled, now>>

TrialCreate(h) ==
  /\ req[h].op = "trial"
  /\ \E r \in Subs : Create(r, req[h].user, "TRIAL", TRUE, now, now + 1)
  /\ Finish(h)
  /\ UNCHANGED <<payment, disabled, now>>

\* manageSalonTrial, disabling: whatever is running ends, paid or not.
Disable ==
  /\ \E r \in Rows : sub[r].status \in Running
  /\ sub' = [r \in Subs |->
               IF r \in Rows /\ sub[r].status \in Running
               THEN [sub[r] EXCEPT !.status = "CANCELLED", !.end = now] ELSE sub[r]]
  /\ disabled' = TRUE
  /\ UNCHANGED <<payment, req, now>>

-----------------------------------------------------------------------------
\* A handler ends without another write: an error, the process died.
Abandon(h) ==
  /\ req[h] # Idle
  /\ Finish(h)
  /\ UNCHANGED <<sub, payment, disabled, now>>

\* When a request in flight that goes by its time began.
Began(h) ==
  CASE req[h].op = "paid" -> req[h].at
    [] req[h].op = "extend" -> req[h].found.at
    [] OTHER -> now

\* No request is in flight for a month, so it sees at most one of them begin.
Tick ==
  /\ now < MaxTime
  /\ \A h \in Handlers : Began(h) = now
  /\ now' = now + 1
  /\ UNCHANGED <<sub, payment, disabled, req>>

Step(h) ==
  \/ CheckoutPay(h)
  \/ CheckoutRead(h)
  \/ CheckoutLink(h)
  \/ CodeRead(h)
  \/ VoucherRead(h)
  \/ Extend(h)
  \/ TrialRead(h)
  \/ EnableRead(h)
  \/ TrialCreate(h)
  \/ Abandon(h)

Next ==
  \/ \E h \in Handlers : Step(h)
  \/ \E r \in Subs, u \in Owners : ApproveTrial(r, u)
  \/ Disable
  \/ Tick

Spec == Init /\ [][Next]_vars
-----------------------------------------------------------------------------
(* Properties.                                                             *)

Subscription == [user : Owners \cup {Admin}, status : Running \cup {"CANCELLED"},
                 trial : BOOLEAN, start : Nat, end : Nat]

Payment == [user : Owners, months : Months, sub : Subs \cup {None}]

\* The type invariant of the tables.
TypeOK ==
  /\ sub \in [Subs -> Subscription \cup {NoRow}]
  /\ payment \in [Payments -> Payment \cup {NoRow}]
  /\ disabled \in BOOLEAN
  /\ now \in 0 .. MaxTime

LinkedTo(r) == {p \in Payments : payment[p] # NoRow /\ payment[p].sub = r}

\* Unless an administrator cut it, a subscription is at least as long as all
\* the months that were paid for it.  Two checkouts that extend one end lose
\* the months of one: this holds of one handler at a time.
PaidMonthsGranted ==
  ~disabled =>
    \A r \in Rows :
      sub[r].end - sub[r].start >= MapThenSumSet(LAMBDA p : payment[p].months, LinkedTo(r))

\* No extension shortens: the end of a subscription moves back only when the
\* administrator cancels it.  This too holds of one handler at a time.
Lengthened ==
  \A r \in Rows : sub'[r].end < sub[r].end => sub'[r].status = "CANCELLED"

NeverShortened == [][Lengthened]_vars
=============================================================================
