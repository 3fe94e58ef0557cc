-------------------------- MODULE PartnerRequests --------------------------
(***************************************************************************)
(* PartnerAccessRequestsService: partners ask for access with a form, and  *)
(* an administrator moves each request from status to status and has codes *)
(* made for it.  No operation is a transaction; each reads its row first   *)
(* and writes what it read back with it:                                   *)
(*                                                                         *)
(*   create                      CreateRead, CreateWrite                   *)
(*   updateStatus                StatusRead, StatusWrite                   *)
(*   createAccessCodeForRequest  CodeRead, CodeMint, CodeWrite             *)
(*   markActivated               Activate                                  *)
(*                                                                         *)
(* A code, once made, is shown to the administrator and kept nowhere but   *)
(* in the request's metadata; the voucher's row has a hash of it.  The     *)
(* rows each operation ends with in the audit log, and the times of the    *)
(* decisions, are left out.                                                *)
(***************************************************************************)
EXTENDS Integers, FiniteSets

CONSTANTS
  Requests,       \* ids of PartnerAccessRequest rows
  Emails,
  Durations,      \* those the form offers
  Vouchers,       \* ids of VoucherCode rows
  MaxReopened,    \* bound: how often rejected requests of an email are reopened
  Handlers,       \* requests to the server that can be in flight at once
  None            \* the null of optional columns

VARIABLES
  request,        \* the PartnerAccessRequest table
  voucher,        \* the VoucherCode rows made for requests
  req,            \* the handlers in flight
  reopened,       \* how often a rejected request of an email became another status
  orphans         \* codes whose handler ended before the request knew them

vars == <<request, voucher, req, reopened, orphans>>

NoRow == [row |-> "absent"]

Idle == [op |-> "idle"]

Init ==
  /\ request = [r \in Requests |-> NoRow]
  /\ voucher = [v \in Vouchers |-> NoRow]
  /\ req = [h \in Handlers |-> Idle]
  /\ reopened = [e \in Emails |-> 0]
  /\ orphans = {}

Statuses == {"PENDING", "CONTACTED", "APPROVED", "REJECTED", "CODE_SENT", "ACTIVATED"}

Go(h, record) == req' = [req EXCEPT ![h] = record]

Finish(h) == Go(h, Idle)

Rows == {r \in Requests : request[r] # NoRow}

Live(e) == {r \in Rows : request[r].email = e /\ request[r].status # "REJECTED"}

\* resolveRequestDurationDays and mapDurationToVoucherType
DaysOf(duration) ==
  CASE duration = "HOUR" -> 1 [] duration = "DAY" -> 1
    [] duration = "MONTH" -> 30 [] duration = "THREE_MONTHS" -> 90
    [] duration = "SIX_MONTHS" -> 180 [] duration = "YEAR" -> 365
    [] duration = "TRIAL" -> 14

TypeOf(duration) == IF duration = "TRIAL" THEN "PROMO_TRIAL" ELSE "PARTNER_MONTH"

\* What the update of r to a status does to the count of reopened requests.
Reopens(r, status) ==
  LET n == IF request[r].status = "REJECTED" /\ status # "REJECTED" THEN 1 ELSE 0
  IN /\ reopened[request[r].email] + n <= MaxReopened
     /\ reopened' = [reopened EXCEPT ![request[r].email] = @ + n]

-----------------------------------------------------------------------------
\* "A request for this email already exists."
CreateRead(h) ==
  /\ req[h] = Idle
  /\ \E e \in Emails : Live(e) = {} /\ Go(h, [op |-> "create", email |-> e])
  /\ UNCHANGED <<request, voucher, reopened, orphans>>

CreateWrite(h) ==
  /\ req[h].op = "create"
  /\ \E r \in Requests \ Rows, d \in Durations :
       /\ request' = [request EXCEPT ![r] =
            [email |-> req[h].email, duration |-> d, status |-> "PENDING", code |-> None]]
       /\ Finish(h)
  /\ UNCHANGED <<voucher, reopened, orphans>>

\* updateStatus: any status may follow any other.
StatusRead(h) ==
  /\ req[h] = Idle
  /\ \E r \in Rows, status \in Statuses :
       Go(h, [op |-> "status", request |-> r, code |-> request[r].code, to |-> status])
  /\ UNCHANGED <<request, voucher, reopened, orphans>>

\* Mutant: the decision is all the metadata there is.
MetadataDecisionOnly(code) == None

\* The metadata the update writes is what was read, and the decision.
Metadata(code) == code

StatusWrite(h) ==
  /\ req[h].op = "status"
  /\ LET r == req[h].request
         to == req[h].to
     IN /\ request' = [request EXCEPT ![r].status = to,
                                      ![r].code = Metadata(req[h].code)]
        /\ Reopens(r, to)
        /\ Finish(h)
  /\ UNCHANGED <<voucher, orphans>>

\* "Rejected requests cannot receive access codes"
CodeRead(h) ==
  /\ req[h] = Idle
  /\ \E r \in Rows :
       /\ request[r].status # "REJECTED"
       /\ Go(h, [op |-> "mint", request |-> r, duration |-> request[r].duration])
  /\ UNCHANGED <<request, voucher, reopened, orphans>>

\* generateOne, for one redemption.
CodeMint(h) ==
  /\ req[h].op = "mint"
  /\ \E v \in Vouchers :
       /\ voucher[v] = NoRow
       /\ voucher' = [voucher EXCEPT ![v] =
            [request |-> req[h].request, type |-> TypeOf(req[h].duration),
             days |-> DaysOf(req[h].duration)]]
       /\ Go(h, [op |-> "minted", request |-> req[h].request, code |-> v])
  /\ UNCHANGED <<request, reopened, orphans>>

CodeWrite(h) ==
  /\ req[h].op = "minted"
  /\ LET r == req[h].request
     IN /\ request' = [request EXCEPT ![r].status = "CODE_SENT",
                                      ![r].code = req[h].code]
        /\ Reopens(r, "CODE_SENT")
        /\ Finish(h)
  /\ UNCHANGED <<voucher, orphans>>

\* markActivated: whatever the status; what it reads goes to the log alone.
Activate(r) ==
  /\ request[r] # NoRow
  /\ request' = [request EXCEPT ![r].status = "ACTIVATED"]
  /\ Reopens(r, "ACTIVATED")
  /\ UNCHANGED <<voucher, req, orphans>>

\* A handler ends without another write: an error, the process died.
Abandon(h) ==
  /\ req[h] # Idle
  /\ orphans' = IF req[h].op = "minted" THEN orphans \cup {req[h].code} ELSE orphans
  /\ Finish(h)
  /\ UNCHANGED <<request, voucher, reopened>>

Step(h) ==
  \/ CreateRead(h)
  \/ CreateWrite(h)
  \/ StatusRead(h)
  \/ StatusWrite(h)
  \/ CodeRead(h)
  \/ CodeMint(h)
  \/ CodeWrite(h)
  \/ Abandon(h)

Next ==
  \/ \E h \in Handlers : Step(h)
  \/ \E r \in Requests : Activate(r)

Spec == Init /\ [][Next]_vars
-----------------------------------------------------------------------------
(* Properties.                                                             *)

Request == [email : Emails, duration : Durations, status : Statuses, code : Vouchers \cup {None}]

\* The type invariant of the tables.
TypeOK ==
  /\ request \in [Requests -> Request \cup {NoRow}]
  /\ \A v \in Vouchers :
       voucher[v] # NoRow => voucher[v].request \in Rows /\ voucher[v].days \in 1 .. 365
  /\ reopened \in [Emails -> Nat]
  /\ orphans \subseteq Vouchers

Made(r) == {v \in Vouchers \ orphans : voucher[v] # NoRow /\ voucher[v].request = r}

Pending(r) == {h \in Handlers : req[h] # Idle /\ req[h].op = "minted" /\ req[h].request = r}

\* An email has one open request, but for those handlers that saw none made at
\* once and those an administrator took back out of rejection.  A request that
\* names a code names one of its own, of the length asked for.  And of requests
\* that come one at a time none makes the administrator lose sight of a code:
\* as long as one was made for a request, the request names one.
RequestsAccounted ==
  /\ \A e \in Emails : Cardinality(Live(e)) <= Cardinality(Handlers) + reopened[e]
  /\ \A r \in Rows :
       /\ request[r].code # None =>
            LET v == voucher[request[r].code]
            IN v.request = r /\ v.days = DaysOf(request[r].duration)
       /\ Cardinality(Handlers) = 1 /\ Pending(r) = {} /\ Made(r) # {} => request[r].code # None
=============================================================================
