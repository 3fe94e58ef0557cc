----------------------------- MODULE Ownership -----------------------------
(***************************************************************************)
(* BusinessClaimsService, BusinessAccessCodesService and the administrator *)
(* endpoints beside them: how a user becomes the owner of a salon.         *)
(*                                                                         *)
(* There are two ways.  A user claims a salon and an administrator         *)
(* approves the claim, or the user redeems an access code.  Either way one *)
(* transaction writes claim, membership, role and subscription; what it    *)
(* rests on (the state of the code, whether the salon has an owner,        *)
(* whether the place has a salon) is read in statements before it:         *)
(*                                                                         *)
(*   createClaim     ClaimRead, (MakeSalon, ClaimOwnerRead,) ClaimWrite    *)
(*   redeemCode      RedeemRead, (MakeSalon,) RedeemOwnerRead,             *)
(*                   (Enrich,) RedeemCommit                                *)
(*   approveClaim    ApproveRead, ApproveCommit                            *)
(*   activateTrial   TrialRead, TrialCommit                                *)
(*   requestTrial    CodeRead, CodeCreate, CodeIssued                      *)
(*                                                                         *)
(* A subscription is here only a row with its plan; status and dates are   *)
(* the matter of module Subscriptions.  Of a salon its external place is   *)
(* kept; what else its completion writes is in SalonEditor and Reviews.    *)
(* Time is left out: a code that has expired is one nobody redeems any     *)
(* more.                                                                   *)
(***************************************************************************)
EXTENDS Integers, FiniteSets

CONSTANTS
  Users,
  Salons,         \* ids of Salon rows
  Codes,          \* ids of BusinessAccessCode rows
  Handlers,       \* requests that can be in flight at once
  None,           \* the null of optional columns
  Registered,     \* the salons an administrator has entered, without a place
  Places,         \* ids of the external places service
  Targets,        \* the <<salon, place>> codes are created for
  RoleChanges,    \* bound: the <<user, role>> an administrator sets
  Trial           \* bound: whether codes and vouchers are for trials

ASSUME NoneAssumption == None \notin Salons \cup Places
ASSUME HandlersAssumption == IsFiniteSet(Handlers)
ASSUME InputsAssumption ==
  /\ Registered \subseteq Salons
  /\ Targets \subseteq (Salons \cup {None}) \X (Places \cup {None})
  /\ RoleChanges \subseteq Users \X {"CUSTOMER", "SALON_OWNER", "SUPER_ADMIN"}
  /\ Trial \subseteq BOOLEAN

VARIABLES
  salon,          \* the Salon table: the external place of each
  claim,          \* the BusinessClaim table, one row for a user and a salon
  member,         \* the active OWNER rows of the SalonAdmin table
  role,           \* User.role
  code,           \* the BusinessAccessCode table
  sub,            \* the PartnerSubscription table: user, salon, whether a trial
  redeemed,       \* BUSINESS_ACCESS_CODE_REDEEMED rows of the audit log, by code
  req             \* the handlers in flight

vars == <<salon, claim, member, role, code, sub, redeemed, req>>

tables == <<salon, claim, member, role, code, sub, redeemed>>

Roles == {"CUSTOMER", "SALON_OWNER", "SUPER_ADMIN"}

Statuses == {"PENDING", "CODE_ISSUED", "APPROVED", "ACTIVE_TRIAL", "REJECTED", "REVOKED"}

Owning == {"APPROVED", "ACTIVE_TRIAL"}

Ended == {"REJECTED", "REVOKED"}

Many == 2   \* stands for the 999 redemptions of a code that is not one-time

-----------------------------------------------------------------------------
NoRow == [row |-> "absent"]

Idle == [op |-> "idle"]

Empty ==
  /\ salon = [s \in Salons |->
                IF s \in Registered THEN [place |-> None] ELSE NoRow]
  /\ claim = [u \in Users |-> [s \in Salons |-> "none"]]
  /\ member = {}
  /\ role = [u \in Users |-> "CUSTOMER"]
  /\ code = [c \in Codes |-> NoRow]
  /\ redeemed = [c \in Codes |-> 0]

Init ==
  /\ Empty
  /\ sub = {}
  /\ req = [h \in Handlers |-> Idle]

Go(h, record) == req' = [req EXCEPT ![h] = record]

Finish(h) == Go(h, Idle)

SalonsOf(p) == {s \in Salons : salon[s] # NoRow /\ salon[s].place = p}

\* What a request says of the business it is about: a salon, an external place,
\* or both, whether or not the one is the other's.
Pages ==
  ({s \in Salons : salon[s] # NoRow} \cup {None}) \X (Places \cup {None}) \ {<<None, None>>}

\* The salon that is meant, by its id if there is one: findFirst takes any of
\* the place, None is none.
Resolved(page) ==
  IF page[1] # None THEN {page[1]}
  ELSE IF SalonsOf(page[2]) = {} THEN {None} ELSE SalonsOf(page[2])

\* Users with an owning claim of s.
OwnersOf(s) == {u \in Users : claim[u][s] \in Owning}

\* Mutant: only claims an administrator approved count.
FreeIfUnapproved(u, s) == \A v \in Users \ {u} : claim[v][s] # "APPROVED"

\* The test for another owner before u is given s.  createClaim and redeemCode
\* look at the first owning claim they find: one of u's own hides another.
FreeFor(u, s) == OwnersOf(s) = {} \/ u \in OwnersOf(s)

\* approveClaim leaves out u's own claim.
FreeOfOthers(u, s) == OwnersOf(s) \subseteq {u}

Subscribed(u, s) == \E r \in sub : r.user = u /\ r.salon = s

\* What approval and redemption have in common.
Grant(u, s, status) ==
  /\ claim' = [claim EXCEPT ![u][s] = status]
  /\ member' = member \cup {<<u, s>>}
  /\ role' = [role EXCEPT ![u] = "SALON_OWNER"]

\* Mutant: the subscription is made after the transaction, which may fail.
NewSubLater(u, s, trial) == sub' \in {sub, sub \cup {[user |-> u, salon |-> s, trial |-> trial]}}

NewSub(u, s, trial) == sub' = sub \cup {[user |-> u, salon |-> s, trial |-> trial]}

-----------------------------------------------------------------------------
(* A salon for a place that has none.  Its slug is unique, but made of the *)
(* name the request gives the place (createClaim) or of random digits      *)
(* (redeemCode): that the place had a salon already does not prevent it.   *)

\* resolveOrCreateExternalSalon after findFirst found nothing
MakeSalon(h) ==
  /\ req[h].op \in {"claim", "redeem"}
  /\ req[h].salon = None
  /\ \E s \in Salons :
       /\ salon[s] = NoRow
       /\ salon' = [salon EXCEPT ![s] = [place |-> req[h].place]]
       /\ Go(h, [req[h] EXCEPT !.salon = s])
  /\ UNCHANGED <<claim, member, role, code, sub, redeemed>>

-----------------------------------------------------------------------------
(* Claims.                                                                 *)

ClaimRead(h) ==
  /\ req[h] = Idle
  /\ \E u \in Users, page \in Pages :
       /\ role[u] # "SUPER_ADMIN"
       /\ \E s \in Resolved(page) :
            Go(h, [op |-> "claim", user |-> u, salon |-> s, place |-> page[2]])
  /\ UNCHANGED tables

\* Mutant: any claim of one's own may be opened again.
ReopensAny(status) == status # "none"

Reopens(status) == status \in Ended

\* Neither another owner nor an open claim of one's own.
ClaimOwnerRead(h) ==
  /\ req[h].op = "claim"
  /\ req[h].salon # None
  /\ FreeFor(req[h].user, req[h].salon)
  /\ LET status == claim[req[h].user][req[h].salon]
     IN /\ status = "none" \/ Reopens(status)
        /\ Go(h, [op |-> "open", user |-> req[h].user, salon |-> req[h].salon,
                  reopen |-> status # "none"])
  /\ UNCHANGED tables

\* An update by id, or an insert under the unique key of user and salon.
ClaimWrite(h) ==
  /\ req[h].op = "open"
  /\ req[h].reopen \/ claim[req[h].user][req[h].salon] = "none"
  /\ claim' = [claim EXCEPT ![req[h].user][req[h].salon] = "PENDING"]
  /\ Finish(h)
  /\ UNCHANGED <<salon, member, role, code, sub, redeemed>>

\* approveClaim: whatever the claim's status.
ApproveRead(h) ==
  /\ req[h] = Idle
  /\ \E u \in Users, s \in Salons :
       /\ claim[u][s] # "none"
       /\ FreeOfOthers(u, s)
       /\ Go(h, [op |-> "approve", user |-> u, salon |-> s])
  /\ UNCHANGED tables

\* Each approval brings a trial, the second one another.
ApproveCommit(h) ==
  /\ req[h].op = "approve"
  /\ Grant(req[h].user, req[h].salon, "APPROVED")
  /\ NewSub(req[h].user, req[h].salon, TRUE)
  /\ Finish(h)
  /\ UNCHANGED <<salon, code, redeemed>>

\* rejectClaim and revokeClaim: whatever the status, and nothing but the claim.
EndClaim(u, s, status) ==
  /\ claim[u][s] \notin {"none", status}
  /\ claim' = [claim EXCEPT ![u][s] = status]
  /\ UNCHANGED <<salon, member, role, code, sub, redeemed, req>>

-----------------------------------------------------------------------------
(* Trials an owner starts.                                                 *)

HasTrial(s) == \E r \in sub : r.salon = s /\ r.trial

\* activateTrialDirect
TrialRead(h) ==
  /\ req[h] = Idle
  /\ \E u \in Users, s \in Salons :
       /\ role[u] # "CUSTOMER"
       /\ claim[u][s] = "APPROVED"
       /\ ~HasTrial(s)
       /\ Go(h, [op |-> "trial", user |-> u, salon |-> s])
  /\ UNCHANGED tables

TrialCommit(h) ==
  /\ req[h].op = "trial"
  /\ claim' = [claim EXCEPT ![req[h].user][req[h].salon] = "ACTIVE_TRIAL"]
  /\ NewSub(req[h].user, req[h].salon, TRUE)
  /\ Finish(h)
  /\ UNCHANGED <<salon, member, role, code, redeemed>>

\* requestTrial: the route asks for an administrator, the handler for the
\* claim's owner.  The place p a claim names is what its request said, which is
\* not kept here; a code without place equals a claim without place.
CodeRead(h) ==
  /\ req[h] = Idle
  /\ \E u \in Users, s \in Salons, p \in Places \cup {None} :
       /\ role[u] = "SUPER_ADMIN"
       /\ claim[u][s] = "APPROVED"
       /\ \A c \in Codes :
            code[c] # NoRow /\ code[c].trial /\ code[c].status \in {"ACTIVE", "USED"} =>
              code[c].salon # s /\ code[c].place # p
       /\ Go(h, [op |-> "request", user |-> u, salon |-> s, place |-> p])
  /\ UNCHANGED tables

NewCode(c, s, p, trial, max) ==
  /\ code[c] = NoRow
  /\ code' = [code EXCEPT ![c] = [salon |-> s, place |-> p, trial |-> trial, max |-> max,
                                  count |-> 0, status |-> "ACTIVE"]]

CodeCreate(h) ==
  /\ req[h].op = "request"
  /\ \E c \in Codes : NewCode(c, req[h].salon, req[h].place, TRUE, 1)
  /\ Go(h, [req[h] EXCEPT !.op = "issued"])
  /\ UNCHANGED <<salon, claim, member, role, sub, redeemed>>

\* The claim follows its code in a statement of its own.
CodeIssued(h) ==
  /\ req[h].op = "issued"
  /\ claim' = [claim EXCEPT ![req[h].user][req[h].salon] = "CODE_ISSUED"]
  /\ Finish(h)
  /\ UNCHANGED <<salon, member, role, code, sub, redeemed>>

-----------------------------------------------------------------------------
(* Access codes.                                                           *)

\* createAccessCode
CreateCode(c, target, trial, max) ==
  /\ target[1] # None => salon[target[1]] # NoRow
  /\ NewCode(c, target[1], target[2], trial, max)
  /\ UNCHANGED <<salon, claim, member, role, sub, redeemed, req>>

\* revokeCode: whatever the status.
RevokeCode(c) ==
  /\ code[c] # NoRow
  /\ code[c].status # "REVOKED"
  /\ code' = [code EXCEPT ![c].status = "REVOKED"]
  /\ UNCHANGED <<salon, claim, member, role, sub, redeemed, req>>

\* The tests at the head of redeemCode.
Redeemable(c, page) ==
  /\ code[c] # NoRow
  /\ code[c].status = "ACTIVE"
  /\ code[c].count < code[c].max
  /\ code[c].salon # None => code[c].salon = page[1]
  /\ code[c].place # None => code[c].place = page[2]

RedeemRead(h) ==
  /\ req[h] = Idle
  /\ \E u \in Users, c \in Codes, page \in Pages :
       /\ Redeemable(c, page)
       /\ \E s \in Resolved(page) :
            Go(h, [op |-> "redeem", user |-> u, salon |-> s, place |-> page[2],
                   code |-> c, count |-> code[c].count])
  /\ UNCHANGED tables

RedeemOwnerRead(h) ==
  /\ req[h].op = "redeem"
  /\ req[h].salon # None
  /\ FreeFor(req[h].user, req[h].salon)
  /\ Go(h, [req[h] EXCEPT !.op = IF req[h].place = None THEN "access" ELSE "enrich"])
  /\ UNCHANGED tables

\* enrichSalonFromGooglePlaces: the salon gets the place that was named, also
\* when the places service gives no answer, and whatever place it had.
Enrich(h) ==
  /\ req[h].op = "enrich"
  /\ salon' = [salon EXCEPT ![req[h].salon].place = req[h].place]
  /\ Go(h, [req[h] EXCEPT !.op = "access"])
  /\ UNCHANGED <<claim, member, role, code, sub, redeemed>>

\* Mutant: the count that is compared has not been raised yet.
SpentLate(c) == IF code[c].count >= code[c].max THEN "USED" ELSE "ACTIVE"

Spent(c) == IF code[c].max = 1 THEN "USED" ELSE "ACTIVE"

\* The code is written as it was read, plus one: a revocation or a redemption
\* in between is overwritten.  A subscription is extended, or made where the
\* pair has none that is live.
RedeemCommit(h) ==
  /\ req[h].op = "access"
  /\ LET u == req[h].user
         s == req[h].salon
         c == req[h].code
     IN /\ code' = [code EXCEPT ![c].status = Spent(c), ![c].count = req[h].count + 1]
        /\ redeemed' = [redeemed EXCEPT ![c] = @ + 1]
        /\ Grant(u, s, IF code[c].trial THEN "ACTIVE_TRIAL" ELSE "APPROVED")
        /\ \/ NewSub(u, s, code[c].trial)
           \/ Subscribed(u, s) /\ UNCHANGED sub
  /\ Finish(h)
  /\ UNCHANGED salon

-----------------------------------------------------------------------------
(* Administration.                                                         *)

\* moderateUser with remove-salon-membership
RemoveMemberships(u) ==
  /\ \E s \in Salons : <<u, s>> \in member
  /\ member' = member \ ({u} \X Salons)
  /\ UNCHANGED <<salon, claim, role, code, sub, redeemed, req>>

\* changeRole
ChangeRole(u, r) ==
  /\ role[u] # r
  /\ role' = [role EXCEPT ![u] = r]
  /\ UNCHANGED <<salon, claim, member, code, sub, redeemed, req>>

\* VouchersService.redeem with a partner code: a subscription of the pair takes
\* the plan of the code, or one is made; that a trial was used is forgotten.
RedeemVoucher(u, s, trial) ==
  /\ <<u, s>> \in member
  /\ \/ \E r \in sub : /\ r.user = u /\ r.salon = s
                       /\ sub' = (sub \ {r}) \cup {[r EXCEPT !.trial = trial]}
     \/ ~Subscribed(u, s) /\ NewSub(u, s, trial)
  /\ UNCHANGED <<salon, claim, member, role, code, redeemed, req>>

\* A handler ends without a write: a conflict, an error, the process died.
Abandon(h) ==
  /\ req[h] # Idle
  /\ Finish(h)
  /\ UNCHANGED tables

Handle(h) ==
  \/ MakeSalon(h)
  \/ ClaimRead(h)
  \/ ClaimOwnerRead(h)
  \/ ClaimWrite(h)
  \/ ApproveRead(h)
  \/ ApproveCommit(h)
  \/ TrialRead(h)
  \/ TrialCommit(h)
  \/ CodeRead(h)
  \/ CodeCreate(h)
  \/ CodeIssued(h)
  \/ RedeemRead(h)
  \/ RedeemOwnerRead(h)
  \/ Enrich(h)
  \/ RedeemCommit(h)
  \/ Abandon(h)

Next ==
  \/ \E h \in Handlers : Handle(h)
  \/ \E u \in Users, s \in Salons, status \in Ended : EndClaim(u, s, status)
  \/ \E u \in Users, s \in Salons, trial \in Trial : RedeemVoucher(u, s, trial)
  \/ \E c \in Codes, target \in Targets, trial \in Trial, max \in {1, Many} :
       CreateCode(c, target, trial, max)
  \/ \E c \in Codes : RevokeCode(c)
  \/ \E u \in Users : RemoveMemberships(u)
  \/ \E change \in RoleChanges : ChangeRole(change[1], change[2])

Spec == Init /\ [][Next]_vars
-----------------------------------------------------------------------------
(* Properties.                                                             *)

Salon == [place : Places \cup {None}]

Code == [salon : Salons \cup {None}, place : Places \cup {None}, trial : BOOLEAN,
         max : {1, Many}, count : Nat, status : {"ACTIVE", "USED", "REVOKED"}]

Subscription == [user : Users, salon : Salons, trial : BOOLEAN]

Request ==
  [op : {"claim"}, user : Users, salon : Salons \cup {None}, place : Places \cup {None}] \cup
  [op : {"open"}, user : Users, salon : Salons, reopen : BOOLEAN] \cup
  [op : {"approve", "trial"}, user : Users, salon : Salons] \cup
  [op : {"request", "issued"}, user : Users, salon : Salons, place : Places \cup {None}] \cup
  [op : {"redeem"}, user : Users, salon : Salons \cup {None}, place : Places \cup {None},
   code : Codes, count : Nat] \cup
  [op : {"enrich", "access"}, user : Users, salon : Salons, place : Places \cup {None},
   code : Codes, count : Nat]

\* The type invariant.
TypeOK ==
  /\ salon \in [Salons -> Salon \cup {NoRow}]
  /\ claim \in [Users -> [Salons -> Statuses \cup {"none"}]]
  /\ member \subseteq Users \X Salons
  /\ role \in [Users -> Roles]
  /\ code \in [Codes -> Code \cup {NoRow}]
  /\ sub \subseteq Subscription
  /\ redeemed \in [Codes -> Nat]
  /\ req \in [Handlers -> Request \cup {Idle}]

\* What is read before a transaction and holds but for handlers in flight: a
\* salon has one owner ("This business already has an active owner"), and a
\* one-time code is redeemed once, and can be no longer when it was.  Of each
\* there may be as many as there are handlers that saw it free.  Nothing of the
\* kind is true of the salons of a place: one handler after another gives the
\* place to salons it names.
GrantsBounded ==
  /\ \A s \in Salons : Cardinality(OwnersOf(s)) <= Cardinality(Handlers)
  /\ \A c \in Codes :
       code[c] # NoRow /\ code[c].max = 1 =>
         /\ code[c].status = "ACTIVE" => redeemed[c] = 0
         /\ redeemed[c] <= Cardinality(Handlers)

\* An owner has all of it: who is a member has a claim, and a subscription was
\* made for the pair; an administrator takes them away one by one, but none of
\* these rows is ever missing because a grant stopped half way.
AccessIsWhole ==
  \A m \in member :
    /\ claim[m[1]][m[2]] # "none"
    /\ \E r \in sub : r.user = m[1] /\ r.salon = m[2]

\* Of requests that come one at a time, none turns the claim of an owner back
\* into an open one; of two, one that read an ended claim may, after an
\* administrator has approved what the other opened.
ClaimKept ==
  \A u \in Users, s \in Salons :
    claim[u][s] \in Owning /\ claim'[u][s] = "PENDING" => Cardinality(Handlers) > 1

OwnersKeepTheirClaim == [][ClaimKept]_vars
=============================================================================
