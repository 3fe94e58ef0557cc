-------------------------- MODULE OwnershipProofs --------------------------
(***************************************************************************)
(* For every set of users, salons, codes, places and requests: what is     *)
(* read before the transactions that make owners holds but for requests in *)
(* flight, and what a transaction grants it grants whole.                  *)
(*                                                                         *)
(* Ownership is part together of MCPartners.  The last sections take what  *)
(* is proved of other modules to the parts that are instances of them,     *)
(* prove of part alone that no request takes the claim of an owner, that   *)
(* no request for access, nor a code made for one, is unaccounted for,     *)
(* that one handler at a time grants a subscription all that was paid, and *)
(* that what a request books of a salon was offered while it was under way.*)
(***************************************************************************)
EXTENDS MCPartners, FiniteSetTheorems, TLAPS

(* The inductive invariant.                                                *)

\* Claims and requests are about salons that are there, codes about to be
\* redeemed are there, and a code that is not there was never redeemed.
SalonsExist ==
  /\ \A u \in Users, s \in Salons : claim[u][s] # "none" => salon[s] # NoRow
  /\ \A h \in Handlers : req[h] # Idle /\ req[h].salon # None => salon[req[h].salon] # NoRow

Redeeming(c) == {h \in Handlers : req[h].op \in {"redeem", "enrich", "access"} /\ req[h].code = c}

CodesExist ==
  \A c \in Codes : code[c] = NoRow => redeemed[c] = 0 /\ Redeeming(c) = {}

\* The handlers about to make somebody the owner of s, and who then would be.
Granting(s) ==
  {h \in Handlers : req[h].op \in {"approve", "trial", "enrich", "access"} /\ req[h].salon = s}

Entitled(s) == OwnersOf(s) \cup {req[h].user : h \in Granting(s)}

\* An owner in being counts as one: whoever begins to grant saw no other.
OwnersBounded ==
  \A s \in Salons :
    IsFiniteSet(Entitled(s)) /\ Cardinality(Entitled(s)) <= Cardinality(Handlers)

\* A redemption under way counts as one: it began while there was none.
RedemptionsBounded ==
  \A c \in Codes :
    code[c] # NoRow /\ code[c].max = 1 =>
      /\ code[c].status = "ACTIVE" => redeemed[c] = 0
      /\ redeemed[c] + Cardinality(Redeeming(c)) <= Cardinality(Handlers)

\* One request at a time: the claim it is to reopen is still ended.
ReopensEnded ==
  (\A h, p \in Handlers : h = p) =>
    \A h \in Handlers :
      req[h].op = "open" /\ req[h].reopen => claim[req[h].user][req[h].salon] \notin Owning

\* The tables and the requests fit together.
Fits == TypeOK /\ SalonsExist /\ CodesExist

IInv ==
  /\ Fits
  /\ AccessIsWhole
  /\ OwnersBounded
  /\ RedemptionsBounded
  /\ ReopensEnded

-----------------------------------------------------------------------------
(* Facts about the data.                                                   *)

\* A row of a table is never mistaken for an absent one, nor a request for none.
LEMMA RowsExist ==
  /\ \A row \in Salon : row # NoRow
  /\ \A row \in Code : row # NoRow
  /\ \A record \in Request : record # Idle
  BY DEF Salon, Code, Request, NoRow, Idle

\* A request record is of the shape its op says.
LEMMA RequestShapes ==
  ASSUME TypeOK, NEW h \in Handlers
  PROVE  /\ req[h].op = "idle" <=> req[h] = Idle
         /\ req[h] # Idle =>
              req[h] \in Request /\ req[h].user \in Users /\ req[h].salon \in Salons \cup {None}
         /\ req[h].op \in {"claim", "request", "issued"} => req[h].place \in Places \cup {None}
         /\ req[h].op = "open" => req[h].salon \in Salons /\ req[h].reopen \in BOOLEAN
         /\ req[h].op \in {"approve", "trial", "request", "issued"} => req[h].salon \in Salons
         /\ req[h].op \in {"redeem", "enrich", "access"} =>
              req[h].place \in Places \cup {None} /\ req[h].code \in Codes /\ req[h].count \in Nat
         /\ req[h].op \in {"enrich", "access"} => req[h].salon \in Salons
  <1>1. req[h] = Idle \/ req[h] \in Request
    BY DEF TypeOK
  <1>2. CASE req[h] = Idle
    BY <1>2 DEF Idle
  <1>3. CASE req[h] \in Request
    <2>1. req[h].op # "idle" /\ req[h] # Idle
      BY <1>3, RowsExist DEF Request
    <2>2. req[h].user \in Users /\ req[h].salon \in Salons \cup {None}
      BY <1>3 DEF Request
    <2>3. req[h].op \in {"claim", "request", "issued"} => req[h].place \in Places \cup {None}
      BY <1>3 DEF Request
    <2>4. req[h].op = "open" => req[h].salon \in Salons /\ req[h].reopen \in BOOLEAN
      BY <1>3 DEF Request
    <2>5. req[h].op \in {"approve", "trial", "request", "issued"} => req[h].salon \in Salons
      BY <1>3 DEF Request
    <2>6. req[h].op \in {"redeem", "enrich", "access"} =>
            req[h].place \in Places \cup {None} /\ req[h].code \in Codes /\ req[h].count \in Nat
      BY <1>3 DEF Request
    <2>7. req[h].op \in {"enrich", "access"} => req[h].salon \in Salons
      BY <1>3 DEF Request
    <2> QED
      BY <1>3, <2>1, <2>2, <2>3, <2>4, <2>5, <2>6, <2>7
  <1> QED
    BY <1>1, <1>2, <1>3

LEMMA Went ==
  ASSUME TypeOK, NEW h \in Handlers, NEW v, Go(h, v)
  PROVE  req'[h] = v /\ \A p \in Handlers \ {h} : req'[p] = req[p]
  BY DEF TypeOK, Go

LEMMA WentTyped ==
  ASSUME TypeOK, NEW h \in Handlers, NEW v \in Request \cup {Idle}, Go(h, v)
  PROVE  req' \in [Handlers -> Request \cup {Idle}]
  BY DEF TypeOK, Go

\* Writing one claim.
LEMMA ClaimWritten ==
  ASSUME TypeOK, NEW u \in Users, NEW s \in Salons, NEW status \in Statuses,
         claim' = [claim EXCEPT ![u][s] = status]
  PROVE  /\ claim' \in [Users -> [Salons -> Statuses \cup {"none"}]]
         /\ claim'[u][s] = status
         /\ \A v \in Users, t \in Salons : v # u \/ t # s => claim'[v][t] = claim[v][t]
  BY DEF TypeOK

LEMMA NewSubTyped ==
  ASSUME TypeOK, NEW u \in Users, NEW s \in Salons, NEW trial \in BOOLEAN, NewSub(u, s, trial)
  PROVE  sub' \subseteq Subscription /\ Subscribed(u, s)' /\ sub \subseteq sub'
  <1> DEFINE r == [user |-> u, salon |-> s, trial |-> trial]
  <1>1. r \in Subscription /\ r.user = u /\ r.salon = s
    BY DEF Subscription
  <1>2. sub' = sub \cup {r}
    BY DEF NewSub
  <1> HIDE DEF r
  <1> QED
    BY <1>1, <1>2 DEF TypeOK, Subscribed

\* A salon a page stands for is there, or its place has none.
LEMMA ResolvedPage ==
  ASSUME TypeOK, NEW pg \in Pages, NEW s \in Resolved(pg)
  PROVE  /\ pg[2] \in Places \cup {None}
         /\ s \in Salons => salon[s] # NoRow
         /\ s \notin Salons => s = None /\ pg[2] \in Places /\ SalonsOf(pg[2]) = {}
         /\ s \in Salons \cup {None}
  <1>1. /\ pg[1] \in {t \in Salons : salon[t] # NoRow} \cup {None}
        /\ pg[2] \in Places \cup {None}
        /\ pg[1] = None => pg[2] # None
    BY DEF Pages
  <1> QED
    BY <1>1, NoneAssumption DEF Resolved, SalonsOf

-----------------------------------------------------------------------------
(* The tables fit together.                                                *)

LEMMA InitFits == Init => Fits
  <1> SUFFICES ASSUME Init PROVE Fits
    OBVIOUS
  <1>1. TypeOK
    BY NoneAssumption, InputsAssumption DEF Init, Empty, TypeOK, Salon, Roles, Request
  <1>2. SalonsExist /\ CodesExist
    BY DEF Init, Empty, SalonsExist, CodesExist, Redeeming, Idle
  <1> QED
    BY <1>1, <1>2 DEF Fits

\* A handler goes on to v, and may have written to any table but salons.
LEMMA HandlerFits ==
  ASSUME Fits, NEW h \in Handlers, NEW v \in Request \cup {Idle}, Go(h, v),
         v # Idle /\ v.salon # None => salon[v.salon] # NoRow,
         v.op \in {"redeem", "enrich", "access"} => code[v.code] # NoRow,
         UNCHANGED salon,
         claim' \in [Users -> [Salons -> Statuses \cup {"none"}]],
         \A u \in Users, s \in Salons : claim'[u][s] # "none" => salon[s] # NoRow,
         member' \subseteq Users \X Salons,
         role' \in [Users -> Roles],
         code' \in [Codes -> Code \cup {NoRow}],
         \A c \in Codes : code'[c] = NoRow => code[c] = NoRow /\ redeemed'[c] = redeemed[c],
         sub' \subseteq Subscription,
         redeemed' \in [Codes -> Nat]
  PROVE  Fits'
  <1>1. TypeOK'
    BY WentTyped DEF TypeOK, Fits
  <1>2. req'[h] = v /\ \A p \in Handlers \ {h} : req'[p] = req[p]
    BY Went DEF Fits
  <1>3. SalonsExist'
    BY <1>2 DEF SalonsExist, Fits
  <1>4. CodesExist'
    <2> SUFFICES ASSUME NEW c \in Codes, code'[c] = NoRow
                 PROVE  redeemed'[c] = 0 /\ Redeeming(c)' = {}
      BY DEF CodesExist
    <2>1. code[c] = NoRow /\ redeemed'[c] = 0 /\ Redeeming(c) = {}
      BY DEF CodesExist, Fits
    <2>2. \A p \in Handlers : p \notin Redeeming(c)'
      BY <1>2, <2>1 DEF Redeeming
    <2> QED
      BY <2>1, <2>2 DEF Redeeming
  <1> QED
    BY <1>1, <1>3, <1>4 DEF Fits

\* A handler goes on without a write.
LEMMA ReaderFits ==
  ASSUME Fits, NEW h \in Handlers, NEW v \in Request \cup {Idle}, Go(h, v),
         v # Idle /\ v.salon # None => salon[v.salon] # NoRow,
         v.op \in {"redeem", "enrich", "access"} => code[v.code] # NoRow,
         UNCHANGED tables
  PROVE  Fits'
  BY HandlerFits DEF Fits, TypeOK, SalonsExist, tables

LEMMA ClaimReadFits == ASSUME Fits, NEW h \in Handlers, ClaimRead(h) PROVE Fits'
  <1>0. PICK u \in Users, pg \in Pages : \E s \in Resolved(pg) :
          Go(h, [op |-> "claim", user |-> u, salon |-> s, place |-> pg[2]])
    BY DEF ClaimRead
  <1>1. PICK s \in Resolved(pg) :
          Go(h, [op |-> "claim", user |-> u, salon |-> s, place |-> pg[2]])
    BY <1>0
  <1> DEFINE v == [op |-> "claim", user |-> u, salon |-> s, place |-> pg[2]]
  <1>2. v \in Request /\ v.op = "claim" /\ v.salon = s
    BY ResolvedPage DEF Request, Fits
  <1>3. v.salon # None => salon[v.salon] # NoRow
    BY <1>2, ResolvedPage DEF Fits
  <1> HIDE DEF v
  <1>4. Go(h, v) /\ UNCHANGED tables
    BY <1>1 DEF v, ClaimRead
  <1> QED
    BY <1>2, <1>3, <1>4, ReaderFits

LEMMA ClaimOwnerReadFits == ASSUME Fits, NEW h \in Handlers, ClaimOwnerRead(h) PROVE Fits'
  <1> DEFINE u == req[h].user
             s == req[h].salon
             v == [op |-> "open", user |-> u, salon |-> s, reopen |-> claim[u][s] # "none"]
  <1>1. req[h].op = "claim" /\ s # None /\ Go(h, v) /\ UNCHANGED tables
    BY DEF ClaimOwnerRead
  <1>2. u \in Users /\ s \in Salons /\ req[h] # Idle
    BY <1>1, RequestShapes DEF Fits, Idle
  <1>3. salon[s] # NoRow
    BY <1>1, <1>2 DEF Fits, SalonsExist
  <1>4. v \in Request /\ v.op = "open" /\ v.salon = s
    BY <1>2 DEF Request
  <1> HIDE DEF u, s, v
  <1> QED
    BY <1>1, <1>3, <1>4, ReaderFits

LEMMA ApproveReadFits == ASSUME Fits, NEW h \in Handlers, ApproveRead(h) PROVE Fits'
  <1>1. PICK u \in Users, s \in Salons :
          claim[u][s] # "none" /\ Go(h, [op |-> "approve", user |-> u, salon |-> s])
    BY DEF ApproveRead
  <1> DEFINE v == [op |-> "approve", user |-> u, salon |-> s]
  <1>2. v \in Request /\ v.op = "approve" /\ v.salon = s
    BY DEF Request
  <1>3. salon[s] # NoRow
    BY <1>1 DEF Fits, SalonsExist
  <1> HIDE DEF v
  <1>4. Go(h, v) /\ UNCHANGED tables
    BY <1>1 DEF v, ApproveRead
  <1> QED
    BY <1>2, <1>3, <1>4, ReaderFits

LEMMA TrialReadFits == ASSUME Fits, NEW h \in Handlers, TrialRead(h) PROVE Fits'
  <1>1. PICK u \in Users, s \in Salons :
          claim[u][s] = "APPROVED" /\ Go(h, [op |-> "trial", user |-> u, salon |-> s])
    BY DEF TrialRead
  <1> DEFINE v == [op |-> "trial", user |-> u, salon |-> s]
  <1>2. v \in Request /\ v.op = "trial" /\ v.salon = s
    BY DEF Request
  <1>3. salon[s] # NoRow
    BY <1>1 DEF Fits, SalonsExist
  <1> HIDE DEF v
  <1>4. Go(h, v) /\ UNCHANGED tables
    BY <1>1 DEF v, TrialRead
  <1> QED
    BY <1>2, <1>3, <1>4, ReaderFits

LEMMA CodeReadFits == ASSUME Fits, NEW h \in Handlers, CodeRead(h) PROVE Fits'
  <1>1. PICK u \in Users, s \in Salons, p \in Places \cup {None} :
          /\ claim[u][s] = "APPROVED"
          /\ Go(h, [op |-> "request", user |-> u, salon |-> s, place |-> p])
    BY DEF CodeRead
  <1> DEFINE v == [op |-> "request", user |-> u, salon |-> s, place |-> p]
  <1>2. v \in Request /\ v.op = "request" /\ v.salon = s
    BY DEF Request
  <1>3. salon[s] # NoRow
    BY <1>1 DEF Fits, SalonsExist
  <1> HIDE DEF v
  <1>4. Go(h, v) /\ UNCHANGED tables
    BY <1>1 DEF v, CodeRead
  <1> QED
    BY <1>2, <1>3, <1>4, ReaderFits

LEMMA RedeemReadFits == ASSUME Fits, NEW h \in Handlers, RedeemRead(h) PROVE Fits'
  <1>0. PICK u \in Users, c \in Codes, pg \in Pages :
          /\ Redeemable(c, pg)
          /\ \E s \in Resolved(pg) :
               Go(h, [op |-> "redeem", user |-> u, salon |-> s, place |-> pg[2],
                      code |-> c, count |-> code[c].count])
    BY DEF RedeemRead
  <1>1. PICK s \in Resolved(pg) :
          Go(h, [op |-> "redeem", user |-> u, salon |-> s, place |-> pg[2],
                 code |-> c, count |-> code[c].count])
    BY <1>0
  <1> DEFINE v == [op |-> "redeem", user |-> u, salon |-> s, place |-> pg[2],
                   code |-> c, count |-> code[c].count]
  <1>2. code[c] # NoRow /\ code[c].count \in Nat
    BY <1>0 DEF Redeemable, Fits, TypeOK, Code
  <1>3. v \in Request /\ v.op = "redeem" /\ v.salon = s /\ v.code = c
    BY <1>2, ResolvedPage DEF Request, Fits
  <1>4. v.salon # None => salon[v.salon] # NoRow
    BY <1>3, ResolvedPage DEF Fits
  <1> HIDE DEF v
  <1>5. Go(h, v) /\ UNCHANGED tables
    BY <1>1 DEF v, RedeemRead
  <1> QED
    BY <1>2, <1>3, <1>4, <1>5, ReaderFits

LEMMA RedeemOwnerReadFits == ASSUME Fits, NEW h \in Handlers, RedeemOwnerRead(h) PROVE Fits'
  <1> DEFINE v == [req[h] EXCEPT !.op = IF req[h].place = None THEN "access" ELSE "enrich"]
  <1>1. req[h].op = "redeem" /\ req[h].salon # None /\ Go(h, v) /\ UNCHANGED tables
    BY DEF RedeemOwnerRead
  <1>2. /\ req[h] \in [op : {"redeem"}, user : Users, salon : Salons \cup {None},
                      place : Places \cup {None}, code : Codes, count : Nat]
        /\ req[h] # Idle
    BY <1>1 DEF Fits, TypeOK, Request, Idle
  <1>3. v \in [op : {"enrich", "access"}, user : Users, salon : Salons,
               place : Places \cup {None}, code : Codes, count : Nat]
    BY <1>1, <1>2
  <1>4. /\ v.op \in {"enrich", "access"} /\ v.salon = req[h].salon /\ v.code = req[h].code
        /\ v \in Request /\ v # Idle
    BY <1>2, <1>3 DEF Request, Idle
  <1>5. salon[req[h].salon] # NoRow
    BY <1>1, <1>2 DEF Fits, SalonsExist
  <1>6. code[req[h].code] # NoRow
    BY <1>1, <1>2 DEF Fits, CodesExist, Redeeming
  <1> HIDE DEF v
  <1> QED
    BY <1>1, <1>4, <1>5, <1>6, ReaderFits

LEMMA AbandonFits == ASSUME Fits, NEW h \in Handlers, Abandon(h) PROVE Fits'
  <1>1. Idle.op = "idle"
    BY DEF Idle
  <1> QED
    BY <1>1, ReaderFits DEF Abandon, Finish

\* What Grant writes.
LEMMA GrantTyped ==
  ASSUME TypeOK, NEW u \in Users, NEW s \in Salons, NEW status \in Statuses,
         Grant(u, s, status)
  PROVE  /\ claim' \in [Users -> [Salons -> Statuses \cup {"none"}]]
         /\ claim'[u][s] = status
         /\ \A v \in Users, t \in Salons : v # u \/ t # s => claim'[v][t] = claim[v][t]
         /\ member' \subseteq Users \X Salons
         /\ role' \in [Users -> Roles]
  BY ClaimWritten DEF Grant, TypeOK, Roles

\* A claim of a salon that is there may be written.
LEMMA ClaimOfSalon ==
  ASSUME Fits, NEW u \in Users, NEW s \in Salons, NEW status \in Statuses, salon[s] # NoRow,
         claim' = [claim EXCEPT ![u][s] = status]
  PROVE  /\ claim' \in [Users -> [Salons -> Statuses \cup {"none"}]]
         /\ \A v \in Users, t \in Salons : claim'[v][t] # "none" => salon[t] # NoRow
  <1>1. \A v \in Users, t \in Salons : claim[v][t] # "none" => salon[t] # NoRow
    BY DEF Fits, SalonsExist
  <1>2. /\ claim' \in [Users -> [Salons -> Statuses \cup {"none"}]]
        /\ \A v \in Users, t \in Salons : v # u \/ t # s => claim'[v][t] = claim[v][t]
    BY ClaimWritten DEF Fits
  <1>3. ASSUME NEW v \in Users, NEW t \in Salons, claim'[v][t] # "none" PROVE salon[t] # NoRow
    BY <1>1, <1>2, <1>3
  <1> QED
    BY <1>2, <1>3

\* The salon and the code of a request that has both are there.
LEMMA RequestFits ==
  ASSUME Fits, NEW h \in Handlers, req[h] # Idle
  PROVE  /\ req[h].user \in Users
         /\ req[h].salon # None => req[h].salon \in Salons /\ salon[req[h].salon] # NoRow
         /\ req[h].op \in {"redeem", "enrich", "access"} =>
              req[h].code \in Codes /\ code[req[h].code] # NoRow /\ code[req[h].code] \in Code
  <1>1. req[h].op \in {"redeem", "enrich", "access"} => req[h].code \in Codes
    BY RequestShapes DEF Fits
  <1>2. req[h].op \in {"redeem", "enrich", "access"} => code[req[h].code] # NoRow
    BY <1>1 DEF Fits, CodesExist, Redeeming
  <1>3. req[h].op \in {"redeem", "enrich", "access"} => code[req[h].code] \in Code
    BY <1>1, <1>2 DEF Fits, TypeOK
  <1>4. req[h].user \in Users /\ req[h].salon \in Salons \cup {None}
    BY RequestShapes DEF Fits
  <1>5. req[h].salon # None => req[h].salon \in Salons /\ salon[req[h].salon] # NoRow
    BY <1>4 DEF Fits, SalonsExist
  <1> QED
    BY <1>1, <1>2, <1>3, <1>4, <1>5

\* The requests that have a salon of their own.
LEMMA RequestsWithSalon ==
  ASSUME Fits, NEW h \in Handlers,
         req[h].op \in {"open", "approve", "trial", "request", "issued", "enrich", "access"}
  PROVE  /\ req[h] # Idle
         /\ req[h].user \in Users
         /\ req[h].salon \in Salons
         /\ salon[req[h].salon] # NoRow
  <1>1. req[h] # Idle
    BY DEF Idle
  <1>2. req[h].salon \in Salons
    BY RequestShapes DEF Fits
  <1> QED
    BY <1>1, <1>2, RequestFits, NoneAssumption

LEMMA ClaimWriteFits == ASSUME Fits, NEW h \in Handlers, ClaimWrite(h) PROVE Fits'
  <1>1. /\ req[h].op = "open" /\ Go(h, Idle) /\ Idle.op = "idle"
        /\ claim' = [claim EXCEPT ![req[h].user][req[h].salon] = "PENDING"]
        /\ UNCHANGED <<salon, member, role, code, sub, redeemed>>
    BY DEF ClaimWrite, Finish, Idle
  <1>2. "PENDING" \in Statuses
    BY DEF Statuses
  <1>3. /\ claim' \in [Users -> [Salons -> Statuses \cup {"none"}]]
        /\ \A v \in Users, t \in Salons : claim'[v][t] # "none" => salon[t] # NoRow
    BY <1>1, <1>2, RequestsWithSalon, ClaimOfSalon
  <1> QED
    BY <1>1, <1>3, HandlerFits DEF Fits, TypeOK

LEMMA ApproveCommitFits == ASSUME Fits, NEW h \in Handlers, ApproveCommit(h) PROVE Fits'
  <1> DEFINE u == req[h].user
             s == req[h].salon
  <1>1. /\ req[h].op = "approve" /\ Go(h, Idle) /\ Idle.op = "idle"
        /\ Grant(u, s, "APPROVED") /\ NewSub(u, s, TRUE)
        /\ UNCHANGED <<salon, code, redeemed>>
    BY DEF ApproveCommit, Finish, Idle
  <1>2. u \in Users /\ s \in Salons /\ salon[s] # NoRow
    BY <1>1, RequestsWithSalon
  <1>3. "APPROVED" \in Statuses
    BY DEF Statuses
  <1> HIDE DEF u, s
  <1>4. /\ claim' \in [Users -> [Salons -> Statuses \cup {"none"}]]
        /\ \A v \in Users, t \in Salons : claim'[v][t] # "none" => salon[t] # NoRow
    BY <1>1, <1>2, <1>3, ClaimOfSalon DEF Grant
  <1>5. member' \subseteq Users \X Salons /\ role' \in [Users -> Roles] /\ sub' \subseteq Subscription
    BY <1>1, <1>2, <1>3, GrantTyped, NewSubTyped DEF Fits
  <1> QED
    BY <1>1, <1>4, <1>5, HandlerFits DEF Fits, TypeOK

LEMMA TrialCommitFits == ASSUME Fits, NEW h \in Handlers, TrialCommit(h) PROVE Fits'
  <1>1. /\ req[h].op = "trial" /\ Go(h, Idle) /\ Idle.op = "idle"
        /\ claim' = [claim EXCEPT ![req[h].user][req[h].salon] = "ACTIVE_TRIAL"]
        /\ NewSub(req[h].user, req[h].salon, TRUE)
        /\ UNCHANGED <<salon, member, role, code, redeemed>>
    BY DEF TrialCommit, Finish, Idle
  <1>2. "ACTIVE_TRIAL" \in Statuses
    BY DEF Statuses
  <1>3. /\ claim' \in [Users -> [Salons -> Statuses \cup {"none"}]]
        /\ \A v \in Users, t \in Salons : claim'[v][t] # "none" => salon[t] # NoRow
    BY <1>1, <1>2, RequestsWithSalon, ClaimOfSalon
  <1>4. sub' \subseteq Subscription
    BY <1>1, RequestsWithSalon, NewSubTyped DEF Fits
  <1> QED
    BY <1>1, <1>3, <1>4, HandlerFits DEF Fits, TypeOK

LEMMA CodeIssuedFits == ASSUME Fits, NEW h \in Handlers, CodeIssued(h) PROVE Fits'
  <1>1. /\ req[h].op = "issued" /\ Go(h, Idle) /\ Idle.op = "idle"
        /\ claim' = [claim EXCEPT ![req[h].user][req[h].salon] = "CODE_ISSUED"]
        /\ UNCHANGED <<salon, member, role, code, sub, redeemed>>
    BY DEF CodeIssued, Finish, Idle
  <1>2. "CODE_ISSUED" \in Statuses
    BY DEF Statuses
  <1>3. /\ claim' \in [Users -> [Salons -> Statuses \cup {"none"}]]
        /\ \A v \in Users, t \in Salons : claim'[v][t] # "none" => salon[t] # NoRow
    BY <1>1, <1>2, RequestsWithSalon, ClaimOfSalon
  <1> QED
    BY <1>1, <1>3, HandlerFits DEF Fits, TypeOK

\* A code is new, and otherwise the codes stay.
LEMMA NewCodeTyped ==
  ASSUME TypeOK, NEW c \in Codes, NEW s \in Salons \cup {None}, NEW p \in Places \cup {None},
         NEW trial \in BOOLEAN, NEW max \in {1, Many}, NewCode(c, s, p, trial, max)
  PROVE  /\ code' \in [Codes -> Code \cup {NoRow}]
         /\ code[c] = NoRow
         /\ code'[c] \in Code /\ code'[c].max = max /\ code'[c].status = "ACTIVE"
         /\ code'[c] # NoRow
         /\ \A d \in Codes \ {c} : code'[d] = code[d]
  <1> DEFINE row == [salon |-> s, place |-> p, trial |-> trial, max |-> max,
                     count |-> 0, status |-> "ACTIVE"]
  <1>1. row \in Code /\ row.max = max /\ row.status = "ACTIVE"
    BY DEF Code
  <1>2. code[c] = NoRow /\ code' = [code EXCEPT ![c] = row]
    BY DEF NewCode
  <1> HIDE DEF row
  <1> QED
    BY <1>1, <1>2, RowsExist DEF TypeOK

LEMMA CodeCreateFits == ASSUME Fits, NEW h \in Handlers, CodeCreate(h) PROVE Fits'
  <1> DEFINE s == req[h].salon
             v == [req[h] EXCEPT !.op = "issued"]
  <1>1. /\ req[h].op = "request" /\ Go(h, v)
        /\ UNCHANGED <<salon, claim, member, role, sub, redeemed>>
    BY DEF CodeCreate
  <1>2. PICK c \in Codes : NewCode(c, s, req[h].place, TRUE, 1)
    BY DEF CodeCreate
  <1>3. /\ req[h] \in [op : {"request", "issued"}, user : Users, salon : Salons,
                      place : Places \cup {None}]
        /\ s \in Salons /\ salon[s] # NoRow
    BY <1>1, RequestsWithSalon DEF Fits, TypeOK, Request, Idle
  <1>4. v \in Request /\ v.op = "issued" /\ v.salon = s
    BY <1>3 DEF Request
  <1>5. req[h].place \in Places \cup {None}
    BY <1>3
  <1>6. code' \in [Codes -> Code \cup {NoRow}] /\ \A d \in Codes : code'[d] = NoRow => code[d] = NoRow
    BY <1>2, <1>3, <1>5, NewCodeTyped DEF Fits
  <1> HIDE DEF s, v
  <1> QED
    BY <1>1, <1>3, <1>4, <1>6, HandlerFits DEF Fits, TypeOK, SalonsExist

\* What RedeemCommit does to the codes.
LEMMA RedeemCommitCodes ==
  ASSUME Fits, NEW h \in Handlers, RedeemCommit(h), NEW c, c = req[h].code
  PROVE  /\ c \in Codes /\ code[c] \in Code
         /\ code' \in [Codes -> Code \cup {NoRow}]
         /\ code'[c] \in Code
         /\ code'[c].max = code[c].max
         /\ code'[c].status = Spent(c)
         /\ \A d \in Codes \ {c} : code'[d] = code[d] /\ redeemed'[d] = redeemed[d]
         /\ redeemed'[c] = redeemed[c] + 1
         /\ redeemed' \in [Codes -> Nat]
  <1> DEFINE row == [code[c] EXCEPT !.status = Spent(c), !.count = req[h].count + 1]
  <1>1. req[h].op = "access" /\ req[h] # Idle
    BY DEF RedeemCommit, Idle
  <1>2. c \in Codes /\ code[c] \in Code /\ req[h].count \in Nat
    BY <1>1, RequestFits, RequestShapes DEF Fits
  <1>3. row \in Code /\ row.max = code[c].max /\ row.status = Spent(c)
    <2>1. Spent(c) \in {"ACTIVE", "USED", "REVOKED"} /\ req[h].count + 1 \in Nat
      BY <1>2 DEF Spent
    <2> QED
      BY <1>2, <2>1 DEF Code
  <1>4. code' = [code EXCEPT ![c] = row] /\ redeemed' = [redeemed EXCEPT ![c] = redeemed[c] + 1]
    BY DEF RedeemCommit
  <1> HIDE DEF row
  <1> QED
    BY <1>2, <1>3, <1>4 DEF Fits, TypeOK

\* What it grants.
LEMMA RedeemCommitGrants ==
  ASSUME Fits, NEW h \in Handlers, RedeemCommit(h), NEW u, NEW s, u = req[h].user, s = req[h].salon
  PROVE  /\ req[h].op = "access" /\ u \in Users /\ s \in Salons /\ salon[s] # NoRow
         /\ \E status \in Owning : Grant(u, s, status)
         /\ sub' \subseteq Subscription /\ Subscribed(u, s)' /\ sub \subseteq sub'
  <1> DEFINE c == req[h].code
             trial == code[c].trial
  <1>1. /\ req[h].op = "access"
        /\ Grant(u, s, IF trial THEN "ACTIVE_TRIAL" ELSE "APPROVED")
        /\ NewSub(u, s, trial) \/ (Subscribed(u, s) /\ UNCHANGED sub)
    BY DEF RedeemCommit
  <1>2. u \in Users /\ s \in Salons /\ salon[s] # NoRow
    BY <1>1, RequestsWithSalon
  <1>3. trial \in BOOLEAN
    BY RedeemCommitCodes DEF Code
  <1> HIDE DEF c, trial
  <1>4. sub' \subseteq Subscription /\ Subscribed(u, s)' /\ sub \subseteq sub'
    <2>1. CASE NewSub(u, s, trial)
      BY <2>1, <1>2, <1>3, NewSubTyped DEF Fits
    <2>2. CASE Subscribed(u, s) /\ UNCHANGED sub
      BY <2>2 DEF Fits, TypeOK, Subscribed
    <2> QED
      BY <1>1, <2>1, <2>2
  <1> QED
    BY <1>1, <1>2, <1>4 DEF Owning

LEMMA RedeemCommitFits == ASSUME Fits, NEW h \in Handlers, RedeemCommit(h) PROVE Fits'
  <1> DEFINE u == req[h].user
             s == req[h].salon
  <1>1. Go(h, Idle) /\ Idle.op = "idle" /\ UNCHANGED salon
    BY DEF RedeemCommit, Finish, Idle
  <1>2. u \in Users /\ s \in Salons /\ salon[s] # NoRow /\ sub' \subseteq Subscription
    BY RedeemCommitGrants
  <1> HIDE DEF u, s
  <1>3. PICK status \in Statuses : Grant(u, s, status)
    BY RedeemCommitGrants DEF Owning, Statuses, u, s
  <1>4. /\ claim' \in [Users -> [Salons -> Statuses \cup {"none"}]]
        /\ \A v \in Users, t \in Salons : claim'[v][t] # "none" => salon[t] # NoRow
    BY <1>2, <1>3, ClaimOfSalon DEF Grant
  <1>5. member' \subseteq Users \X Salons /\ role' \in [Users -> Roles]
    BY <1>2, <1>3, GrantTyped DEF Fits
  <1>6. /\ code' \in [Codes -> Code \cup {NoRow}]
        /\ redeemed' \in [Codes -> Nat]
        /\ \A d \in Codes : code'[d] = NoRow => code[d] = NoRow /\ redeemed'[d] = redeemed[d]
    BY RedeemCommitCodes, RowsExist
  <1> QED
    BY <1>1, <1>2, <1>4, <1>5, <1>6, HandlerFits DEF Fits, TypeOK

\* What MakeSalon writes.
LEMMA SalonMade ==
  ASSUME TypeOK, NEW h \in Handlers, MakeSalon(h)
  PROVE  \E s \in Salons :
           /\ req[h].op \in {"claim", "redeem"} /\ req[h].salon = None
           /\ salon[s] = NoRow
           /\ salon' \in [Salons -> Salon \cup {NoRow}]
           /\ salon'[s] \in Salon
           /\ \A t \in Salons \ {s} : salon'[t] = salon[t]
           /\ req' \in [Handlers -> Request \cup {Idle}]
           /\ req'[h] \in Request /\ req'[h].salon = s
           /\ req'[h].op = req[h].op /\ req'[h].user = req[h].user
           /\ req'[h].op = "redeem" => req'[h].code = req[h].code
           /\ \A p \in Handlers \ {h} : req'[p] = req[p]
  <1>1. req[h].op \in {"claim", "redeem"} /\ req[h].salon = None
    BY DEF MakeSalon
  <1>2. PICK s \in Salons :
          /\ salon[s] = NoRow
          /\ salon' = [salon EXCEPT ![s] = [place |-> req[h].place]]
          /\ Go(h, [req[h] EXCEPT !.salon = s])
    BY DEF MakeSalon
  <1> DEFINE row == [place |-> req[h].place]
             v == [req[h] EXCEPT !.salon = s]
  <1>3. row \in Salon
    BY <1>1, RequestShapes DEF Salon
  <1>4. /\ v \in Request /\ v.salon = s /\ v.op = req[h].op /\ v.user = req[h].user
        /\ v.op = "redeem" => v.code = req[h].code
    <2>1. CASE req[h].op = "claim"
      <3>1. req[h] \in [op : {"claim"}, user : Users, salon : Salons \cup {None},
                       place : Places \cup {None}]
        BY <2>1 DEF TypeOK, Request, Idle
      <3> QED
        BY <2>1, <3>1 DEF Request
    <2>2. CASE req[h].op = "redeem"
      <3>1. req[h] \in [op : {"redeem"}, user : Users, salon : Salons \cup {None},
                       place : Places \cup {None}, code : Codes, count : Nat]
        BY <2>2 DEF TypeOK, Request, Idle
      <3> QED
        BY <2>2, <3>1 DEF Request
    <2> QED
      BY <1>1, <2>1, <2>2
  <1> HIDE DEF row, v
  <1>5. salon' = [salon EXCEPT ![s] = row] /\ Go(h, v)
    BY <1>2 DEF row, v
  <1>6. /\ salon' \in [Salons -> Salon \cup {NoRow}] /\ salon'[s] = row
        /\ \A t \in Salons \ {s} : salon'[t] = salon[t]
    BY <1>3, <1>5 DEF TypeOK
  <1>7. /\ req' \in [Handlers -> Request \cup {Idle}] /\ req'[h] = v
        /\ \A p \in Handlers \ {h} : req'[p] = req[p]
    BY <1>4, <1>5, Went, WentTyped
  <1> QED
    BY <1>1, <1>2, <1>3, <1>4, <1>6, <1>7

LEMMA MakeSalonFits == ASSUME Fits, NEW h \in Handlers, MakeSalon(h) PROVE Fits'
  <1>1. PICK s \in Salons :
          /\ req[h].op \in {"claim", "redeem"} /\ req[h].salon = None
          /\ salon[s] = NoRow
          /\ salon' \in [Salons -> Salon \cup {NoRow}]
          /\ salon'[s] \in Salon
          /\ \A t \in Salons \ {s} : salon'[t] = salon[t]
          /\ req' \in [Handlers -> Request \cup {Idle}]
          /\ req'[h] \in Request /\ req'[h].salon = s
          /\ req'[h].op = req[h].op
          /\ req'[h].op = "redeem" => req'[h].code = req[h].code
          /\ \A p \in Handlers \ {h} : req'[p] = req[p]
    BY SalonMade DEF Fits
  <1>2. UNCHANGED <<claim, member, role, code, sub, redeemed>>
    BY DEF MakeSalon
  <1>3. TypeOK'
    BY <1>1, <1>2 DEF TypeOK, Fits
  <1>4. \A t \in Salons : salon[t] # NoRow => salon'[t] # NoRow
    BY <1>1
  <1>5. salon'[s] # NoRow
    BY <1>1, RowsExist
  <1>6. SalonsExist'
    <2>1. \A u \in Users, t \in Salons : claim'[u][t] # "none" => salon'[t] # NoRow
      BY <1>2, <1>4 DEF SalonsExist, Fits
    <2>2. ASSUME NEW p \in Handlers, req'[p] # Idle, req'[p].salon # None
          PROVE  salon'[req'[p].salon] # NoRow
      <3>1. CASE p = h
        BY <3>1, <1>1, <1>5
      <3>2. CASE p # h
        <4>1. req'[p] = req[p] /\ req[p].salon \in Salons /\ salon[req[p].salon] # NoRow
          BY <3>2, <2>2, <1>1, RequestFits
        <4> QED
          BY <4>1, <1>4
      <3> QED
        BY <3>1, <3>2
    <2> QED
      BY <2>1, <2>2 DEF SalonsExist
  <1>7. CodesExist'
    <2>1. \A c \in Codes, p \in Handlers : p \in Redeeming(c)' => p \in Redeeming(c)
      BY <1>1 DEF Redeeming
    <2> QED
      BY <1>2, <2>1 DEF CodesExist, Fits, Redeeming
  <1> QED
    BY <1>3, <1>6, <1>7 DEF Fits

\* What Enrich writes: the place of one salon; the request is the same with
\* another op.
LEMMA Enriched ==
  ASSUME Fits, NEW h \in Handlers, Enrich(h)
  PROVE  /\ req[h].op = "enrich" /\ req'[h].op = "access" /\ req'[h] \in Request
         /\ req'[h].user = req[h].user /\ req'[h].salon = req[h].salon
         /\ req'[h].code = req[h].code
         /\ req' \in [Handlers -> Request \cup {Idle}]
         /\ \A p \in Handlers \ {h} : req'[p] = req[p]
         /\ salon' \in [Salons -> Salon \cup {NoRow}]
         /\ \A t \in Salons : salon[t] # NoRow => salon'[t] # NoRow
         /\ UNCHANGED <<claim, member, role, code, sub, redeemed>>
  <1> DEFINE v == [req[h] EXCEPT !.op = "access"]
             s == req[h].salon
             row == [salon[s] EXCEPT !.place = req[h].place]
  <1>1. /\ req[h].op = "enrich" /\ Go(h, v)
        /\ salon' = [salon EXCEPT ![s] = row]
        /\ UNCHANGED <<claim, member, role, code, sub, redeemed>>
    BY DEF Enrich
  <1>2. req[h] \in [op : {"enrich", "access"}, user : Users, salon : Salons,
                    place : Places \cup {None}, code : Codes, count : Nat]
    BY <1>1 DEF Fits, TypeOK, Request, Idle
  <1>3. /\ v \in [op : {"enrich", "access"}, user : Users, salon : Salons,
                  place : Places \cup {None}, code : Codes, count : Nat]
        /\ v.op = "access" /\ v.user = req[h].user /\ v.salon = s /\ v.code = req[h].code
    BY <1>2
  <1>4. v \in Request
    BY <1>3 DEF Request
  <1>5. salon[s] \in Salon
    BY <1>1, RequestsWithSalon DEF Fits, TypeOK
  <1>6. row \in Salon /\ row # NoRow
    BY <1>2, <1>5, RowsExist DEF Salon
  <1> HIDE DEF v, row
  <1>7. /\ salon' \in [Salons -> Salon \cup {NoRow}]
        /\ \A t \in Salons : salon[t] # NoRow => salon'[t] # NoRow
    BY <1>1, <1>2, <1>6 DEF Fits, TypeOK
  <1>8. /\ req' \in [Handlers -> Request \cup {Idle}] /\ req'[h] = v
        /\ \A p \in Handlers \ {h} : req'[p] = req[p]
    BY <1>1, <1>4, Went, WentTyped DEF Fits
  <1> QED
    BY <1>1, <1>3, <1>4, <1>7, <1>8

LEMMA EnrichFits == ASSUME Fits, NEW h \in Handlers, Enrich(h) PROVE Fits'
  <1>1. TypeOK'
    BY Enriched DEF TypeOK, Fits
  <1>2. SalonsExist'
    <2>1. \A u \in Users, t \in Salons : claim'[u][t] # "none" => salon'[t] # NoRow
      BY Enriched DEF SalonsExist, Fits
    <2>2. ASSUME NEW p \in Handlers, req'[p] # Idle, req'[p].salon # None
          PROVE  salon'[req'[p].salon] # NoRow
      <3>1. req[p] # Idle /\ req'[p].salon = req[p].salon
        BY <2>2, Enriched DEF Idle
      <3> QED
        BY <2>2, <3>1, RequestFits, Enriched
    <2> QED
      BY <2>1, <2>2 DEF SalonsExist
  <1>3. CodesExist'
    <2>1. \A c \in Codes, p \in Handlers : p \in Redeeming(c)' => p \in Redeeming(c)
      BY Enriched DEF Redeeming
    <2> QED
      BY <2>1, Enriched DEF CodesExist, Fits, Redeeming
  <1> QED
    BY <1>1, <1>2, <1>3 DEF Fits

\* Who is no request leaves requests and salons alone.
LEMMA OutsideFits ==
  ASSUME Fits, UNCHANGED <<salon, redeemed, req>>,
         claim' \in [Users -> [Salons -> Statuses \cup {"none"}]],
         \A u \in Users, s \in Salons : claim'[u][s] # "none" => salon[s] # NoRow,
         member' \subseteq Users \X Salons,
         role' \in [Users -> Roles],
         code' \in [Codes -> Code \cup {NoRow}],
         \A c \in Codes : code'[c] = NoRow => code[c] = NoRow,
         sub' \subseteq Subscription
  PROVE  Fits'
  <1>1. TypeOK'
    BY DEF TypeOK, Fits
  <1>2. SalonsExist'
    BY DEF SalonsExist, Fits
  <1>3. CodesExist'
    BY DEF CodesExist, Redeeming, Fits
  <1> QED
    BY <1>1, <1>2, <1>3 DEF Fits

LEMMA EndClaimFits ==
  ASSUME Fits, NEW u \in Users, NEW s \in Salons, NEW status \in Ended, EndClaim(u, s, status)
  PROVE  Fits'
  <1>1. status \in Statuses /\ salon[s] # NoRow
    BY DEF Ended, Statuses, EndClaim, Fits, SalonsExist
  <1>2. /\ claim' = [claim EXCEPT ![u][s] = status]
        /\ UNCHANGED <<salon, member, role, code, sub, redeemed, req>>
    BY DEF EndClaim
  <1>3. /\ claim' \in [Users -> [Salons -> Statuses \cup {"none"}]]
        /\ \A v \in Users, t \in Salons : claim'[v][t] # "none" => salon[t] # NoRow
    BY <1>1, <1>2, ClaimOfSalon
  <1> QED
    BY <1>2, <1>3, OutsideFits DEF Fits, TypeOK

LEMMA CreateCodeFits ==
  ASSUME Fits, NEW c \in Codes, NEW target \in Targets, NEW trial \in Trial,
         NEW max \in {1, Many}, CreateCode(c, target, trial, max)
  PROVE  Fits'
  <1>1. /\ target[1] \in Salons \cup {None} /\ target[2] \in Places \cup {None}
        /\ trial \in BOOLEAN
    BY InputsAssumption
  <1>2. /\ NewCode(c, target[1], target[2], trial, max)
        /\ UNCHANGED <<salon, claim, member, role, sub, redeemed, req>>
    BY DEF CreateCode
  <1>3. /\ code' \in [Codes -> Code \cup {NoRow}]
        /\ \A d \in Codes : code'[d] = NoRow => code[d] = NoRow
    BY <1>1, <1>2, NewCodeTyped DEF Fits
  <1> QED
    BY <1>2, <1>3, OutsideFits DEF Fits, TypeOK, SalonsExist

\* What a revocation writes.
LEMMA CodeRevoked ==
  ASSUME TypeOK, NEW c \in Codes, RevokeCode(c)
  PROVE  /\ code' \in [Codes -> Code \cup {NoRow}]
         /\ code[c] # NoRow /\ code'[c].max = code[c].max
         /\ code'[c] \in Code /\ code'[c].status = "REVOKED"
         /\ \A d \in Codes \ {c} : code'[d] = code[d]
  <1> DEFINE row == [code[c] EXCEPT !.status = "REVOKED"]
  <1>1. code[c] \in Code /\ code[c] # NoRow
    BY DEF TypeOK, RevokeCode
  <1>2. row \in Code /\ row.max = code[c].max /\ row.status = "REVOKED"
    BY <1>1 DEF Code
  <1>3. code' = [code EXCEPT ![c] = row]
    BY DEF RevokeCode
  <1> HIDE DEF row
  <1> QED
    BY <1>1, <1>2, <1>3 DEF TypeOK

LEMMA RevokeCodeFits == ASSUME Fits, NEW c \in Codes, RevokeCode(c) PROVE Fits'
  <1>1. /\ code' \in [Codes -> Code \cup {NoRow}]
        /\ \A d \in Codes : code'[d] = NoRow => code[d] = NoRow
    BY CodeRevoked, RowsExist DEF Fits
  <1> QED
    BY <1>1, OutsideFits DEF RevokeCode, Fits, TypeOK, SalonsExist

LEMMA RemoveMembershipsFits == ASSUME Fits, NEW u \in Users, RemoveMemberships(u) PROVE Fits'
  <1>1. member' \subseteq Users \X Salons
    BY DEF RemoveMemberships, Fits, TypeOK
  <1> QED
    BY <1>1, OutsideFits DEF RemoveMemberships, Fits, TypeOK, SalonsExist

LEMMA ChangeRoleFits ==
  ASSUME Fits, NEW change \in RoleChanges, ChangeRole(change[1], change[2]) PROVE Fits'
  <1>1. role' \in [Users -> Roles]
    <2>1. change[2] \in Roles
      BY InputsAssumption DEF Roles
    <2> QED
      BY <2>1 DEF ChangeRole, Fits, TypeOK
  <1> QED
    BY <1>1, OutsideFits DEF ChangeRole, Fits, TypeOK, SalonsExist

\* A subscription changes its plan, never its user or its salon.
LEMMA VoucherSubs ==
  ASSUME TypeOK, NEW u \in Users, NEW s \in Salons, NEW trial \in BOOLEAN,
         RedeemVoucher(u, s, trial)
  PROVE  /\ sub' \subseteq Subscription
         /\ \A v, t : Subscribed(v, t) => Subscribed(v, t)'
  <1>1. CASE NewSub(u, s, trial)
    BY <1>1, NewSubTyped DEF Subscribed
  <1>2. ASSUME NEW r \in sub, r.user = u, r.salon = s,
               sub' = (sub \ {r}) \cup {[r EXCEPT !.trial = trial]}
        PROVE  /\ sub' \subseteq Subscription
               /\ \A v, t : Subscribed(v, t) => Subscribed(v, t)'
    <2> DEFINE new == [r EXCEPT !.trial = trial]
    <2>1. new \in Subscription /\ new.user = r.user /\ new.salon = r.salon
      BY DEF TypeOK, Subscription
    <2>2. sub' = (sub \ {r}) \cup {new}
      BY <1>2
    <2> HIDE DEF new
    <2> QED
      BY <2>1, <2>2 DEF TypeOK, Subscribed
  <1> QED
    BY <1>1, <1>2 DEF RedeemVoucher

LEMMA RedeemVoucherFits ==
  ASSUME Fits, NEW u \in Users, NEW s \in Salons, NEW trial \in Trial, RedeemVoucher(u, s, trial)
  PROVE  Fits'
  <1>1. sub' \subseteq Subscription
    BY VoucherSubs, InputsAssumption DEF Fits
  <1> QED
    BY <1>1, OutsideFits DEF RedeemVoucher, Fits, TypeOK, SalonsExist

LEMMA StutterFits == ASSUME Fits, UNCHANGED vars PROVE Fits'
  BY OutsideFits DEF vars, Fits, TypeOK, SalonsExist

LEMMA NextFits == ASSUME Fits, [Next]_vars PROVE Fits'
  <1>1. CASE UNCHANGED vars
    BY <1>1, StutterFits
  <1>2. ASSUME NEW h \in Handlers, Handle(h) PROVE Fits'
    BY <1>2, MakeSalonFits, ClaimReadFits, ClaimOwnerReadFits, ClaimWriteFits, ApproveReadFits,
       ApproveCommitFits, TrialReadFits, TrialCommitFits, CodeReadFits, CodeCreateFits,
       CodeIssuedFits, RedeemReadFits, RedeemOwnerReadFits, EnrichFits, RedeemCommitFits,
       AbandonFits
    DEF Handle
  <1> QED
    BY <1>1, <1>2, EndClaimFits, RedeemVoucherFits, CreateCodeFits, RevokeCodeFits,
       RemoveMembershipsFits, ChangeRoleFits DEF Next

-----------------------------------------------------------------------------
(* Claims.                                                                 *)

LEMMA WhichClaim ==
  ASSUME Fits, NEW v \in Users, NEW t \in Salons, NEW status \in Statuses,
         claim' = [claim EXCEPT ![v][t] = status],
         NEW u \in Users, NEW s \in Salons, claim'[u][s] # claim[u][s]
  PROVE  u = v /\ s = t /\ claim'[u][s] = status
  <1>1. /\ claim'[v][t] = status
        /\ \A w \in Users, r \in Salons : w # v \/ r # t => claim'[w][r] = claim[w][r]
    BY ClaimWritten DEF Fits
  <1> QED
    BY <1>1

\* A claim is opened by a request that read it so, becomes one of an owner by
\* a handler that was about to grant it, or is ended or given a code.
LEMMA ClaimChanges ==
  ASSUME Fits, [Next]_vars, NEW u \in Users, NEW s \in Salons, claim'[u][s] # claim[u][s]
  PROVE  \/ /\ claim'[u][s] = "PENDING"
            /\ \E h \in Handlers : /\ req[h].op = "open" /\ req[h].user = u /\ req[h].salon = s
                                   /\ req[h].reopen \/ claim[u][s] = "none"
         \/ claim'[u][s] \in Owning /\ \E h \in Granting(s) : req[h].user = u
         \/ claim'[u][s] \in Ended \cup {"CODE_ISSUED"}
  <1> DEFINE Opened == /\ claim'[u][s] = "PENDING"
                       /\ \E h \in Handlers :
                            /\ req[h].op = "open" /\ req[h].user = u /\ req[h].salon = s
                            /\ req[h].reopen \/ claim[u][s] = "none"
             Granted == claim'[u][s] \in Owning /\ \E h \in Granting(s) : req[h].user = u
             Closed == claim'[u][s] \in Ended \cup {"CODE_ISSUED"}
  <1>1. claim' # claim
    OBVIOUS
  <1>2. /\ "PENDING" \in Statuses /\ "CODE_ISSUED" \in Statuses
        /\ Owning \subseteq Statuses /\ Ended \subseteq Statuses
        /\ "APPROVED" \in Owning /\ "ACTIVE_TRIAL" \in Owning
    BY DEF Statuses, Owning, Ended
  <1>3. ASSUME NEW h \in Handlers, ClaimWrite(h) PROVE Opened
    <2>1. /\ req[h].op = "open"
          /\ req[h].reopen \/ claim[req[h].user][req[h].salon] = "none"
          /\ claim' = [claim EXCEPT ![req[h].user][req[h].salon] = "PENDING"]
      BY <1>3 DEF ClaimWrite
    <2>2. u = req[h].user /\ s = req[h].salon /\ claim'[u][s] = "PENDING"
      BY <2>1, <1>2, RequestsWithSalon, WhichClaim
    <2> QED
      BY <2>1, <2>2
  <1>4. ASSUME NEW h \in Handlers, req[h].op \in {"approve", "trial", "access"},
               NEW status \in Owning,
               claim' = [claim EXCEPT ![req[h].user][req[h].salon] = status]
        PROVE  Granted
    <2>1. u = req[h].user /\ s = req[h].salon /\ claim'[u][s] = status
      BY <1>4, <1>2, RequestsWithSalon, WhichClaim
    <2> QED
      BY <1>4, <2>1 DEF Granting
  <1>5. ASSUME NEW h \in Handlers, ApproveCommit(h) PROVE Granted
    BY <1>5, <1>4, <1>2 DEF ApproveCommit, Grant
  <1>6. ASSUME NEW h \in Handlers, TrialCommit(h) PROVE Granted
    BY <1>6, <1>4, <1>2 DEF TrialCommit
  <1>7. ASSUME NEW h \in Handlers, RedeemCommit(h) PROVE Granted
    <2>1. PICK status \in Owning : Grant(req[h].user, req[h].salon, status)
      BY <1>7, RedeemCommitGrants
    <2> QED
      BY <1>7, <2>1, <1>4, RedeemCommitGrants DEF Grant
  <1>8. ASSUME NEW h \in Handlers, CodeIssued(h) PROVE Closed
    <2>1. req[h].op = "issued" /\ claim' = [claim EXCEPT ![req[h].user][req[h].salon] = "CODE_ISSUED"]
      BY <1>8 DEF CodeIssued
    <2> QED
      BY <2>1, <1>2, RequestsWithSalon, WhichClaim
  <1>9. ASSUME NEW v \in Users, NEW t \in Salons, NEW status \in Ended, EndClaim(v, t, status)
        PROVE  Closed
    BY <1>9, <1>2, WhichClaim DEF EndClaim
  <1> HIDE DEF Opened, Granted, Closed
  <1>10. ASSUME NEW h \in Handlers, Handle(h) PROVE Opened \/ Granted \/ Closed
    BY <1>10, <1>1, <1>3, <1>5, <1>6, <1>7, <1>8
    DEF Handle, MakeSalon, ClaimRead, ClaimOwnerRead, ApproveRead, TrialRead, CodeRead, CodeCreate,
        RedeemRead, RedeemOwnerRead, Enrich, Abandon, tables
  <1>11. Opened \/ Granted \/ Closed
    BY <1>1, <1>9, <1>10
    DEF Next, vars, RedeemVoucher, CreateCode, RevokeCode, RemoveMemberships, ChangeRole
  <1> QED
    BY <1>11 DEF Opened, Granted, Closed

-----------------------------------------------------------------------------
(* Access is granted whole.                                                *)

\* No claim of anybody is ever taken back to none.
LEMMA ClaimsStay ==
  ASSUME Fits, [Next]_vars, NEW u \in Users, NEW s \in Salons, claim[u][s] # "none"
  PROVE  claim'[u][s] # "none"
  BY ClaimChanges DEF Owning, Ended

\* A user once subscribed for a salon stays so.
LEMMA SubscriptionsStay ==
  ASSUME Fits, [Next]_vars, NEW u, NEW s, Subscribed(u, s)
  PROVE  Subscribed(u, s)'
  <1>1. sub \subseteq sub' => Subscribed(u, s)'
    BY DEF Subscribed
  <1>2. ASSUME NEW h \in Handlers, Handle(h) PROVE sub \subseteq sub'
    <2>1. ASSUME RedeemCommit(h) PROVE sub \subseteq sub'
      BY <2>1, RedeemCommitGrants
    <2> QED
      BY <1>2, <2>1
      DEF Handle, MakeSalon, ClaimRead, ClaimOwnerRead, ClaimWrite, ApproveRead, ApproveCommit,
          TrialRead, TrialCommit, CodeRead, CodeCreate, CodeIssued, RedeemRead, RedeemOwnerRead, Enrich,
          Abandon, tables, NewSub
  <1>3. ASSUME NEW v \in Users, NEW t \in Salons, NEW trial \in Trial, RedeemVoucher(v, t, trial)
        PROVE  Subscribed(u, s)'
    BY <1>3, VoucherSubs, InputsAssumption DEF Fits
  <1> QED
    BY <1>1, <1>2, <1>3
    DEF Next, vars, EndClaim, CreateCode, RevokeCode, RemoveMemberships, ChangeRole

\* Who becomes a member gets a claim and a subscription in the same step.
LEMMA MembersGranted ==
  ASSUME Fits, [Next]_vars, NEW m \in member', m \notin member
  PROVE  \E u \in Users, s \in Salons :
           m = <<u, s>> /\ claim'[u][s] # "none" /\ Subscribed(u, s)'
  <1> DEFINE Whole == \E u \in Users, s \in Salons :
                        m = <<u, s>> /\ claim'[u][s] # "none" /\ Subscribed(u, s)'
  <1>1. ASSUME NEW u \in Users, NEW s \in Salons, NEW status \in Owning, Grant(u, s, status),
               Subscribed(u, s)'
        PROVE  Whole
    <2>1. m = <<u, s>>
      BY <1>1 DEF Grant
    <2>2. claim'[u][s] = status
      BY <1>1, GrantTyped DEF Owning, Statuses, Fits
    <2> QED
      BY <1>1, <2>1, <2>2 DEF Owning
  <1>2. ASSUME NEW h \in Handlers, ApproveCommit(h) PROVE Whole
    <2>1. /\ req[h].op = "approve" /\ Grant(req[h].user, req[h].salon, "APPROVED")
          /\ NewSub(req[h].user, req[h].salon, TRUE)
      BY <1>2 DEF ApproveCommit
    <2> QED
      BY <2>1, <1>1, RequestsWithSalon, NewSubTyped DEF Owning, Fits
  <1>3. ASSUME NEW h \in Handlers, RedeemCommit(h) PROVE Whole
    BY <1>3, <1>1, RedeemCommitGrants
  <1> HIDE DEF Whole
  <1>4. ASSUME NEW h \in Handlers, Handle(h) PROVE Whole
    BY <1>2, <1>3, <1>4
    DEF Handle, MakeSalon, ClaimRead, ClaimOwnerRead, ClaimWrite, ApproveRead, TrialRead,
        TrialCommit, CodeRead, CodeCreate, CodeIssued, RedeemRead, RedeemOwnerRead, Enrich, Abandon, tables
  <1>5. Whole
    BY <1>4
    DEF Next, vars, EndClaim, RedeemVoucher, CreateCode, RevokeCode, RemoveMemberships, ChangeRole
  <1> QED
    BY <1>5 DEF Whole

LEMMA NextAccess == ASSUME Fits, AccessIsWhole, [Next]_vars PROVE AccessIsWhole'
  <1> SUFFICES ASSUME NEW m \in member'
               PROVE  claim'[m[1]][m[2]] # "none" /\ Subscribed(m[1], m[2])'
    BY DEF AccessIsWhole, Subscribed
  <1>1. CASE m \in member
    <2>1. m[1] \in Users /\ m[2] \in Salons
      BY <1>1 DEF Fits, TypeOK
    <2>2. claim[m[1]][m[2]] # "none" /\ Subscribed(m[1], m[2])
      BY <1>1 DEF AccessIsWhole, Subscribed
    <2> QED
      BY <2>1, <2>2, ClaimsStay, SubscriptionsStay
  <1>2. CASE m \notin member
    BY <1>2, MembersGranted
  <1> QED
    BY <1>1, <1>2

-----------------------------------------------------------------------------
(* Requests.                                                               *)

\* Each step of a handler is its own: the other requests stay.
LEMMA OthersStay ==
  ASSUME Fits, [Next]_vars, NEW h \in Handlers, req'[h] # req[h]
  PROVE  Handle(h)
  <1>1. ASSUME NEW p \in Handlers \ {h}, Handle(p) PROVE req'[h] = req[h]
    <2>1. \E v : Go(p, v)
      BY <1>1
      DEF Handle, MakeSalon, ClaimRead, ClaimOwnerRead, ClaimWrite, ApproveRead, ApproveCommit,
          TrialRead, TrialCommit, CodeRead, CodeCreate, CodeIssued, RedeemRead, RedeemOwnerRead, Enrich,
          RedeemCommit, Abandon, Finish
    <2> QED
      BY <1>1, <2>1, Went DEF Fits
  <1> QED
    BY <1>1
    DEF Next, vars, EndClaim, RedeemVoucher, CreateCode, RevokeCode, RemoveMemberships, ChangeRole

\* A redemption that found its salon free is the same with another op.
LEMMA Checked ==
  ASSUME Fits, NEW h \in Handlers, RedeemOwnerRead(h)
  PROVE  /\ req[h].op = "redeem" /\ req'[h].op \in {"enrich", "access"}
         /\ req'[h].user = req[h].user /\ req'[h].salon = req[h].salon
         /\ req'[h].code = req[h].code
         /\ req[h].salon # None /\ FreeFor(req[h].user, req[h].salon) /\ UNCHANGED tables
  <1> DEFINE v == [req[h] EXCEPT !.op = IF req[h].place = None THEN "access" ELSE "enrich"]
  <1>1. /\ req[h].op = "redeem" /\ req[h].salon # None /\ FreeFor(req[h].user, req[h].salon)
        /\ Go(h, v) /\ UNCHANGED tables
    BY DEF RedeemOwnerRead
  <1>2. req[h] \in [op : {"redeem"}, user : Users, salon : Salons \cup {None},
                    place : Places \cup {None}, code : Codes, count : Nat]
    BY <1>1 DEF Fits, TypeOK, Request, Idle
  <1>3. req'[h] = v
    BY <1>1, Went DEF Fits
  <1> QED
    BY <1>1, <1>2, <1>3

\* What a request has become says which step it took.
LEMMA RequestTells ==
  ASSUME Fits, NEW h \in Handlers, Handle(h)
  PROVE  \/ req'[h] = Idle
         \/ req'[h].op = "claim" /\ (ClaimRead(h) \/ MakeSalon(h))
         \/ req'[h].op = "open" /\ ClaimOwnerRead(h)
         \/ req'[h].op = "approve" /\ ApproveRead(h)
         \/ req'[h].op = "trial" /\ TrialRead(h)
         \/ req'[h].op = "request" /\ CodeRead(h)
         \/ req'[h].op = "issued" /\ CodeCreate(h)
         \/ req'[h].op = "redeem" /\ (RedeemRead(h) \/ MakeSalon(h))
         \/ req'[h].op = "enrich" /\ RedeemOwnerRead(h)
         \/ req'[h].op = "access" /\ (RedeemOwnerRead(h) \/ Enrich(h))
  <1>1. ASSUME NEW v, Go(h, v) PROVE req'[h] = v
    BY <1>1, Went DEF Fits
  <1>2. ClaimRead(h) => req'[h].op = "claim"
    <2> SUFFICES ASSUME NEW u, NEW t, NEW p,
                        Go(h, [op |-> "claim", user |-> u, salon |-> t, place |-> p])
                 PROVE  req'[h].op = "claim"
      BY DEF ClaimRead
    <2> QED
      BY <1>1
  <1>3. ClaimOwnerRead(h) => req'[h].op = "open"
    <2> SUFFICES ASSUME NEW u, NEW t, NEW b,
                        Go(h, [op |-> "open", user |-> u, salon |-> t, reopen |-> b])
                 PROVE  req'[h].op = "open"
      BY DEF ClaimOwnerRead
    <2> QED
      BY <1>1
  <1>4. ApproveRead(h) => req'[h].op = "approve"
    <2> SUFFICES ASSUME NEW u, NEW t, Go(h, [op |-> "approve", user |-> u, salon |-> t])
                 PROVE  req'[h].op = "approve"
      BY DEF ApproveRead
    <2> QED
      BY <1>1
  <1>5. TrialRead(h) => req'[h].op = "trial"
    <2> SUFFICES ASSUME NEW u, NEW t, Go(h, [op |-> "trial", user |-> u, salon |-> t])
                 PROVE  req'[h].op = "trial"
      BY DEF TrialRead
    <2> QED
      BY <1>1
  <1>6. CodeRead(h) => req'[h].op = "request"
    <2> SUFFICES ASSUME NEW u, NEW t, NEW p,
                        Go(h, [op |-> "request", user |-> u, salon |-> t, place |-> p])
                 PROVE  req'[h].op = "request"
      BY DEF CodeRead
    <2> QED
      BY <1>1
  <1>7. RedeemRead(h) => req'[h].op = "redeem"
    <2> SUFFICES ASSUME NEW u, NEW t, NEW p, NEW c, NEW n,
                        Go(h, [op |-> "redeem", user |-> u, salon |-> t, place |-> p,
                               code |-> c, count |-> n])
                 PROVE  req'[h].op = "redeem"
      BY DEF RedeemRead
    <2> QED
      BY <1>1
  <1>8. CodeCreate(h) => req'[h].op = "issued"
    <2> SUFFICES ASSUME req[h].op = "request", Go(h, [req[h] EXCEPT !.op = "issued"])
                 PROVE  req'[h].op = "issued"
      BY DEF CodeCreate
    <2>1. req[h] \in [op : {"request", "issued"}, user : Users, salon : Salons,
                      place : Places \cup {None}]
      BY DEF Fits, TypeOK, Request, Idle
    <2> QED
      BY <1>1, <2>1
  <1>9. /\ RedeemOwnerRead(h) => req'[h].op \in {"enrich", "access"}
        /\ Enrich(h) => req'[h].op = "access"
    BY Checked, Enriched
  <1>10. MakeSalon(h) => req'[h].op \in {"claim", "redeem"}
    BY SalonMade DEF Fits
  <1>11. Finish(h) => req'[h] = Idle
    BY <1>1 DEF Finish
  <1>12. \/ Finish(h)
         \/ MakeSalon(h) \/ ClaimRead(h) \/ ClaimOwnerRead(h) \/ ApproveRead(h) \/ TrialRead(h)
         \/ CodeRead(h) \/ CodeCreate(h) \/ RedeemRead(h) \/ RedeemOwnerRead(h) \/ Enrich(h)
    BY DEF Handle, ClaimWrite, ApproveCommit, TrialCommit, CodeIssued, RedeemCommit, Abandon
  <1> QED
    BY <1>2, <1>3, <1>4, <1>5, <1>6, <1>7, <1>8, <1>9, <1>10, <1>11, <1>12

-----------------------------------------------------------------------------
(* Owners.                                                                 *)

\* Requests of one kind are no more than there are handlers.
LEMMA SomeHandlers ==
  ASSUME NEW S, S \subseteq Handlers
  PROVE  /\ IsFiniteSet(S) /\ Cardinality(S) \in Nat /\ Cardinality(Handlers) \in Nat
         /\ Cardinality(S) <= Cardinality(Handlers)
  BY HandlersAssumption, FS_Subset, FS_CardinalityType

\* Whoever begins to grant s to a user saw no owner of s but that user.
LEMMA GrantBegins ==
  ASSUME Fits, [Next]_vars, NEW s \in Salons, NEW h \in Granting(s)'
  PROVE  \/ h \in Granting(s) /\ req'[h].user = req[h].user
         \/ UNCHANGED claim /\ (req'[h].user \in OwnersOf(s) \/ OwnersOf(s) \subseteq {req'[h].user})
  <1> DEFINE Begins == /\ UNCHANGED claim
                       /\ req'[h].user \in OwnersOf(s) \/ OwnersOf(s) \subseteq {req'[h].user}
  <1>1. /\ h \in Handlers /\ req'[h].op \in {"approve", "trial", "enrich", "access"} /\ req'[h].salon = s
        /\ req'[h] # Idle
    BY DEF Granting, Idle
  <1>2. CASE req'[h] = req[h]
    BY <1>1, <1>2 DEF Granting
  <1>3. ASSUME NEW v, Go(h, v) PROVE req'[h] = v
    BY <1>3, Went, <1>1 DEF Fits
  <1>4. ASSUME ApproveRead(h) PROVE Begins
    <2>1. PICK u \in Users, t \in Salons :
            FreeOfOthers(u, t) /\ Go(h, [op |-> "approve", user |-> u, salon |-> t])
      BY <1>4 DEF ApproveRead
    <2>2. req'[h].user = u /\ t = s
      BY <1>1, <1>3, <2>1
    <2> QED
      BY <1>4, <2>1, <2>2 DEF FreeOfOthers, ApproveRead, tables
  <1>5. ASSUME TrialRead(h) PROVE Begins
    <2>1. PICK u \in Users, t \in Salons :
            claim[u][t] = "APPROVED" /\ Go(h, [op |-> "trial", user |-> u, salon |-> t])
      BY <1>5 DEF TrialRead
    <2>2. req'[h].user = u /\ t = s
      BY <1>1, <1>3, <2>1
    <2> QED
      BY <1>5, <2>1, <2>2 DEF OwnersOf, Owning, TrialRead, tables
  <1>6. ASSUME RedeemOwnerRead(h) PROVE Begins
    BY <1>1, <1>6, Checked DEF FreeFor, tables
  <1>7. CASE req'[h] # req[h]
    <2>1. Handle(h)
      BY <1>1, <1>7, OthersStay
    <2>2. ApproveRead(h) \/ TrialRead(h) \/ RedeemOwnerRead(h) \/ Enrich(h)
      BY <1>1, <2>1, RequestTells
    <2>3. Enrich(h) => h \in Granting(s) /\ req'[h].user = req[h].user
      BY <1>1, Enriched DEF Granting
    <2> QED
      BY <1>4, <1>5, <1>6, <2>2, <2>3
  <1> QED
    BY <1>2, <1>7

LEMMA NextOwners == ASSUME Fits, OwnersBounded, [Next]_vars PROVE OwnersBounded'
  <1> SUFFICES ASSUME NEW s \in Salons
               PROVE  /\ IsFiniteSet(Entitled(s)')
                      /\ Cardinality(Entitled(s)') <= Cardinality(Handlers)
    BY DEF OwnersBounded
  <1> DEFINE Requesting == {req'[h].user : h \in Handlers}
  <1>1. OwnersOf(s)' \subseteq Entitled(s)
    <2> SUFFICES ASSUME NEW u \in OwnersOf(s)' PROVE u \in Entitled(s)
      OBVIOUS
    <2>1. u \in Users /\ claim'[u][s] \in Owning
      BY DEF OwnersOf
    <2>2. CASE claim'[u][s] = claim[u][s]
      BY <2>1, <2>2 DEF OwnersOf, Entitled
    <2>3. CASE claim'[u][s] # claim[u][s]
      <3>1. \E h \in Granting(s) : req[h].user = u
        BY <2>1, <2>3, ClaimChanges DEF Owning, Ended
      <3> QED
        BY <3>1 DEF Entitled
    <2> QED
      BY <2>2, <2>3
  <1>2. CASE \A h \in Granting(s)' : req'[h].user \in Entitled(s)
    <2>1. Entitled(s)' \subseteq Entitled(s)
      BY <1>1, <1>2 DEF Entitled
    <2>2. /\ IsFiniteSet(Entitled(s)')
          /\ Cardinality(Entitled(s)') <= Cardinality(Entitled(s))
      BY <2>1, FS_Subset DEF OwnersBounded
    <2>3. /\ Cardinality(Entitled(s)') \in Nat /\ Cardinality(Entitled(s)) \in Nat
          /\ Cardinality(Handlers) \in Nat
      BY <2>2, FS_CardinalityType, HandlersAssumption DEF OwnersBounded
    <2> QED
      BY <2>2, <2>3 DEF OwnersBounded
  <1>3. CASE \E h \in Granting(s)' : req'[h].user \notin Entitled(s)
    <2>1. PICK h \in Granting(s)' : req'[h].user \notin Entitled(s)
      BY <1>3
    <2>2. req'[h].user \notin OwnersOf(s) /\ ~(h \in Granting(s) /\ req'[h].user = req[h].user)
      BY <2>1 DEF Entitled
    <2>3. UNCHANGED claim /\ OwnersOf(s) \subseteq {req'[h].user}
      BY <2>2, GrantBegins
    <2>4. Entitled(s)' \subseteq Requesting
      BY <2>3 DEF Entitled, OwnersOf, Granting
    <2>5. IsFiniteSet(Requesting) /\ Cardinality(Requesting) <= Cardinality(Handlers)
      <3> DEFINE asker == [i \in Handlers |-> req'[i].user]
      <3>1. asker \in Surjection(Handlers, Requesting)
        BY DEF Surjection
      <3> QED
        BY <3>1, HandlersAssumption, FS_Surjection
    <2>6. IsFiniteSet(Entitled(s)') /\ Cardinality(Entitled(s)') <= Cardinality(Requesting)
      BY <2>4, <2>5, FS_Subset
    <2>7. /\ Cardinality(Entitled(s)') \in Nat /\ Cardinality(Requesting) \in Nat
          /\ Cardinality(Handlers) \in Nat
      BY <2>5, <2>6, FS_CardinalityType, HandlersAssumption
    <2> QED
      BY <2>5, <2>6, <2>7
  <1> QED
    BY <1>2, <1>3

-----------------------------------------------------------------------------
(* Redemptions.                                                            *)

\* Whoever begins to redeem a code saw it active.
LEMMA RedeemBegins ==
  ASSUME Fits, [Next]_vars, NEW c \in Codes, NEW h \in Redeeming(c)', h \notin Redeeming(c)
  PROVE  code[c] # NoRow /\ code[c].status = "ACTIVE" /\ UNCHANGED <<code, redeemed>>
  <1>1. /\ h \in Handlers /\ req'[h].op \in {"redeem", "enrich", "access"} /\ req'[h].code = c
        /\ req'[h] # Idle
    BY DEF Redeeming, Idle
  <1>2. Handle(h)
    BY <1>1, OthersStay DEF Redeeming
  <1>3. CASE RedeemRead(h)
    <2>1. PICK u \in Users, d \in Codes, pg \in Pages :
            /\ Redeemable(d, pg)
            /\ \E s \in Resolved(pg) :
                 Go(h, [op |-> "redeem", user |-> u, salon |-> s, place |-> pg[2],
                        code |-> d, count |-> code[d].count])
      BY <1>3 DEF RedeemRead
    <2>2. PICK s \in Resolved(pg) :
            Go(h, [op |-> "redeem", user |-> u, salon |-> s, place |-> pg[2],
                   code |-> d, count |-> code[d].count])
      BY <2>1
    <2>3. d = c
      BY <1>1, <2>2, Went DEF Fits
    <2> QED
      BY <1>3, <2>1, <2>3 DEF Redeemable, RedeemRead, tables
  <1>4. CASE MakeSalon(h) /\ req'[h].op = "redeem"
    <2>1. req[h].op = "redeem" /\ req[h].code = c
      BY <1>1, <1>4, SalonMade DEF Fits
    <2> QED
      BY <1>1, <2>1 DEF Redeeming
  <1>5. CASE RedeemOwnerRead(h) \/ Enrich(h)
    BY <1>1, <1>5, Checked, Enriched DEF Redeeming
  <1> QED
    BY <1>1, <1>2, <1>3, <1>4, <1>5, RequestTells

\* A redemption is counted when its request ends.
LEMMA RedemptionCounted ==
  ASSUME Fits, [Next]_vars, NEW c \in Codes, redeemed'[c] # redeemed[c]
  PROVE  \E h \in Handlers :
           /\ h \in Redeeming(c) /\ Redeeming(c)' = Redeeming(c) \ {h}
           /\ redeemed'[c] = redeemed[c] + 1
           /\ RedeemCommit(h) /\ req[h].code = c
  <1>1. PICK h \in Handlers : RedeemCommit(h)
    BY DEF Next, vars, EndClaim, RedeemVoucher, CreateCode, RevokeCode, RemoveMemberships, ChangeRole,
           Handle, MakeSalon, ClaimRead, ClaimOwnerRead, ClaimWrite, ApproveRead, ApproveCommit,
           TrialRead, TrialCommit, CodeRead, CodeCreate, CodeIssued, RedeemRead, RedeemOwnerRead, Enrich,
           Abandon, tables
  <1>2. c = req[h].code /\ redeemed'[c] = redeemed[c] + 1
    BY <1>1, RedeemCommitCodes
  <1>3. req[h].op = "access" /\ Go(h, Idle)
    BY <1>1 DEF RedeemCommit, Finish
  <1>4. req'[h].op = "idle" /\ \A p \in Handlers \ {h} : req'[p] = req[p]
    BY <1>3, Went DEF Fits, Idle
  <1>5. h \in Redeeming(c) /\ Redeeming(c)' = Redeeming(c) \ {h}
    BY <1>2, <1>3, <1>4 DEF Redeeming
  <1> QED
    BY <1>1, <1>2, <1>5

\* A code is made, revoked or redeemed, which spends the one-time ones.
LEMMA CodeChanges ==
  ASSUME Fits, [Next]_vars, NEW c \in Codes, code'[c] # code[c]
  PROVE  \/ code[c] = NoRow
         \/ code[c] # NoRow /\ code'[c].max = code[c].max
            /\ (code'[c].max = 1 => code'[c].status # "ACTIVE")
  <1> DEFINE Made == code[c] = NoRow
             Spends == code[c] # NoRow /\ code'[c].max = code[c].max
                       /\ (code'[c].max = 1 => code'[c].status # "ACTIVE")
  <1>1. ASSUME NEW h \in Handlers, CodeCreate(h) PROVE Made
    <2>1. PICK d \in Codes : NewCode(d, req[h].salon, req[h].place, TRUE, 1)
      BY <1>1 DEF CodeCreate
    <2>2. code[d] = NoRow /\ \A e \in Codes \ {d} : code'[e] = code[e]
      BY <2>1 DEF NewCode, Fits, TypeOK
    <2> QED
      BY <2>2
  <1>2. ASSUME NEW d \in Codes, NEW target \in Targets, NEW trial \in Trial,
               NEW max \in {1, Many}, CreateCode(d, target, trial, max)
        PROVE  Made
    <2>1. code[d] = NoRow /\ \A e \in Codes \ {d} : code'[e] = code[e]
      BY <1>2 DEF CreateCode, NewCode, Fits, TypeOK
    <2> QED
      BY <2>1
  <1>3. ASSUME NEW d \in Codes, RevokeCode(d) PROVE Spends
    BY <1>3, CodeRevoked DEF Fits
  <1>4. ASSUME NEW h \in Handlers, RedeemCommit(h) PROVE Spends
    BY <1>4, RedeemCommitCodes, RowsExist DEF Spent
  <1> HIDE DEF Made, Spends
  <1>5. ASSUME NEW h \in Handlers, Handle(h) PROVE Made \/ Spends
    BY <1>1, <1>4, <1>5
    DEF Handle, MakeSalon, ClaimRead, ClaimOwnerRead, ClaimWrite, ApproveRead, ApproveCommit,
        TrialRead, TrialCommit, CodeRead, CodeIssued, RedeemRead, RedeemOwnerRead, Enrich, Abandon, tables
  <1>6. Made \/ Spends
    BY <1>2, <1>3, <1>5 DEF Next, vars, EndClaim, RedeemVoucher, RemoveMemberships, ChangeRole
  <1> QED
    BY <1>6 DEF Made, Spends

LEMMA NextRedemptions ==
  ASSUME Fits, RedemptionsBounded, [Next]_vars
  PROVE  RedemptionsBounded'
  <1> SUFFICES ASSUME NEW c \in Codes, code'[c] # NoRow, code'[c].max = 1
               PROVE  /\ code'[c].status = "ACTIVE" => redeemed'[c] = 0
                      /\ redeemed'[c] + Cardinality(Redeeming(c)') <= Cardinality(Handlers)
    BY DEF RedemptionsBounded
  <1>1. redeemed[c] \in Nat
    BY DEF Fits, TypeOK
  <1>2. Redeeming(c) \subseteq Handlers /\ Redeeming(c)' \subseteq Handlers
    BY DEF Redeeming
  <1>3. /\ Cardinality(Redeeming(c)) \in Nat /\ Cardinality(Redeeming(c)') \in Nat
        /\ Cardinality(Handlers) \in Nat /\ IsFiniteSet(Redeeming(c))
        /\ Cardinality(Redeeming(c)') <= Cardinality(Handlers)
    BY <1>2, SomeHandlers
  <1>4. CASE code[c] = NoRow
    <2>1. redeemed[c] = 0 /\ Redeeming(c) = {}
      BY <1>4 DEF Fits, CodesExist
    <2>2. Redeeming(c)' = {}
      BY <1>4, <2>1, RedeemBegins
    <2>3. redeemed'[c] = 0
      BY <2>1, RedemptionCounted
    <2> QED
      BY <1>3, <2>2, <2>3, FS_EmptySet
  <1>5. CASE code[c] # NoRow
    <2>1. code[c].max = 1
      BY <1>5, CodeChanges
    <2>2. /\ code[c].status = "ACTIVE" => redeemed[c] = 0
          /\ redeemed[c] + Cardinality(Redeeming(c)) <= Cardinality(Handlers)
      BY <1>5, <2>1 DEF RedemptionsBounded
    <2>3. CASE redeemed'[c] # redeemed[c]
      <3>1. PICK h \in Handlers :
              /\ h \in Redeeming(c) /\ Redeeming(c)' = Redeeming(c) \ {h}
              /\ redeemed'[c] = redeemed[c] + 1
              /\ RedeemCommit(h) /\ req[h].code = c
        BY <2>3, RedemptionCounted
      <3>2. Cardinality(Redeeming(c)') = Cardinality(Redeeming(c)) - 1
        BY <1>3, <3>1, FS_RemoveElement
      <3>3. code'[c].status = "USED"
        BY <2>1, <3>1, RedeemCommitCodes DEF Spent
      <3> QED
        BY <1>1, <1>3, <2>2, <3>1, <3>2, <3>3
    <2>4. CASE redeemed'[c] = redeemed[c]
      <3>1. code'[c].status = "ACTIVE" => code'[c] = code[c]
        BY <1>5, CodeChanges
      <3>2. CASE Redeeming(c)' \subseteq Redeeming(c)
        <4>1. Cardinality(Redeeming(c)') <= Cardinality(Redeeming(c))
          BY <1>3, <3>2, FS_Subset
        <4> QED
          BY <1>1, <1>3, <2>2, <2>4, <3>1, <4>1
      <3>3. CASE ~(Redeeming(c)' \subseteq Redeeming(c))
        <4>1. code[c].status = "ACTIVE" /\ UNCHANGED <<code, redeemed>>
          BY <3>3, RedeemBegins
        <4> QED
          BY <1>3, <2>2, <4>1
      <3> QED
        BY <3>2, <3>3
    <2> QED
      BY <2>3, <2>4
  <1> QED
    BY <1>4, <1>5

-----------------------------------------------------------------------------
(* One request at a time.                                                  *)

LEMMA NextReopens == ASSUME Fits, ReopensEnded, [Next]_vars PROVE ReopensEnded'
  <1> SUFFICES ASSUME \A h, p \in Handlers : h = p,
                      NEW h \in Handlers, req'[h].op = "open", req'[h].reopen
               PROVE  claim'[req'[h].user][req'[h].salon] \notin Owning
    BY DEF ReopensEnded
  <1>1. req'[h] # Idle
    BY DEF Idle
  <1>2. CASE req'[h] = req[h]
    <2> DEFINE u == req[h].user
               s == req[h].salon
    <2>1. u \in Users /\ s \in Salons /\ claim[u][s] \notin Owning
      BY <1>2, RequestsWithSalon DEF ReopensEnded
    <2>2. Granting(s) = {}
      BY <1>2 DEF Granting
    <2> HIDE DEF u, s
    <2>3. claim'[u][s] \notin Owning
      BY <2>1, <2>2, ClaimChanges DEF Owning, Ended
    <2> QED
      BY <1>2, <2>3 DEF u, s
  <1>3. CASE req'[h] # req[h]
    <2>1. ClaimOwnerRead(h)
      BY <1>1, <1>3, OthersStay, RequestTells
    <2> DEFINE u == req[h].user
               s == req[h].salon
               v == [op |-> "open", user |-> u, salon |-> s, reopen |-> claim[u][s] # "none"]
    <2>2. (claim[u][s] = "none" \/ Reopens(claim[u][s])) /\ Go(h, v) /\ UNCHANGED claim
      BY <2>1 DEF ClaimOwnerRead, tables
    <2>3. req'[h] = v /\ v.user = u /\ v.salon = s
      BY <2>2, Went DEF Fits
    <2> QED
      BY <2>2, <2>3 DEF Reopens, Ended, Owning
  <1> QED
    BY <1>2, <1>3

-----------------------------------------------------------------------------
(* The invariant and what it gives.                                        *)

LEMMA InitInvariant == Init => IInv
  <1> SUFFICES ASSUME Init PROVE IInv
    OBVIOUS
  <1>1. Fits
    BY InitFits
  <1>2. AccessIsWhole /\ ReopensEnded
    BY DEF Init, Empty, AccessIsWhole, ReopensEnded, Idle
  <1>3. \A h \in Handlers : req[h].op = "idle"
    BY DEF Init, Idle
  <1>4. Cardinality({}) = 0 /\ IsFiniteSet({}) /\ Cardinality(Handlers) \in Nat
    BY FS_EmptySet, FS_CardinalityType, HandlersAssumption
  <1>5. OwnersBounded
    <2>1. \A s \in Salons : Entitled(s) = {}
      BY <1>3 DEF Init, Empty, Entitled, OwnersOf, Owning, Granting
    <2> QED
      BY <1>4, <2>1 DEF OwnersBounded
  <1>6. RedemptionsBounded
    BY DEF Init, Empty, RedemptionsBounded
  <1> QED
    BY <1>1, <1>2, <1>5, <1>6 DEF IInv

LEMMA NextInvariant == IInv /\ [Next]_vars => IInv'
  BY NextFits, NextAccess, NextOwners, NextRedemptions, NextReopens DEF IInv

\* The invariant holds in every state.
THEOREM InductiveInvariant == Spec => []IInv
  BY InitInvariant, NextInvariant, PTL DEF Spec

\* The tables keep their types.
THEOREM TypeCorrect == Spec => []TypeOK
  <1>1. IInv => TypeOK
    BY DEF IInv, Fits
  <1> QED
    BY <1>1, InductiveInvariant, PTL

\* However the requests interleave, nobody has part of what a grant gives:
\* a member has a claim and was given a subscription (grantOwnership).
THEOREM AccessStaysWhole == Spec => []AccessIsWhole
  <1>1. IInv => AccessIsWhole
    BY DEF IInv
  <1> QED
    BY <1>1, InductiveInvariant, PTL

LEMMA BoundsGrants == IInv => GrantsBounded
  <1> SUFFICES ASSUME IInv PROVE GrantsBounded
    OBVIOUS
  <1>1. Cardinality(Handlers) \in Nat
    BY FS_CardinalityType, HandlersAssumption
  <1>2. ASSUME NEW s \in Salons PROVE Cardinality(OwnersOf(s)) <= Cardinality(Handlers)
    <2>1. /\ OwnersOf(s) \subseteq Entitled(s) /\ IsFiniteSet(Entitled(s))
          /\ Cardinality(Entitled(s)) <= Cardinality(Handlers)
      BY DEF Entitled, IInv, OwnersBounded
    <2>2. IsFiniteSet(OwnersOf(s)) /\ Cardinality(OwnersOf(s)) <= Cardinality(Entitled(s))
      BY <2>1, FS_Subset
    <2>3. Cardinality(OwnersOf(s)) \in Nat /\ Cardinality(Entitled(s)) \in Nat
      BY <2>1, <2>2, FS_CardinalityType
    <2> QED
      BY <1>1, <2>1, <2>2, <2>3
  <1>3. ASSUME NEW c \in Codes, code[c] # NoRow, code[c].max = 1
        PROVE  /\ code[c].status = "ACTIVE" => redeemed[c] = 0
               /\ redeemed[c] <= Cardinality(Handlers)
    <2>1. /\ code[c].status = "ACTIVE" => redeemed[c] = 0
          /\ redeemed[c] + Cardinality(Redeeming(c)) <= Cardinality(Handlers)
      BY <1>3 DEF IInv, RedemptionsBounded
    <2>2. redeemed[c] \in Nat /\ Cardinality(Redeeming(c)) \in Nat
      BY SomeHandlers DEF Redeeming, IInv, Fits, TypeOK
    <2> QED
      BY <1>1, <2>1, <2>2
  <1> QED
    BY <1>2, <1>3 DEF GrantsBounded

\* A salon has no more owners and a one-time code no more redemptions than there
\* are requests in flight at once: each tests first and writes later
\* (createClaim, approveClaim, redeemCode).
THEOREM GrantsStayBounded == Spec => []GrantsBounded
  BY BoundsGrants, InductiveInvariant, PTL

LEMMA TwoHandlers ==
  ASSUME NEW h \in Handlers, NEW p \in Handlers, h # p
  PROVE  Cardinality(Handlers) > 1
  <1>1. IsFiniteSet({h}) /\ Cardinality({h}) = 1
    BY FS_Singleton
  <1>2. Cardinality({h} \cup {p}) = IF p \in {h} THEN Cardinality({h}) ELSE Cardinality({h}) + 1
    BY <1>1, FS_AddElement
  <1>3. Cardinality({h} \cup {p}) <= Cardinality(Handlers) /\ Cardinality(Handlers) \in Nat
    BY SomeHandlers
  <1> QED
    BY <1>1, <1>2, <1>3

LEMMA KeepsClaims == IInv /\ [Next]_vars => ClaimKept
  <1> SUFFICES ASSUME IInv, [Next]_vars, NEW u \in Users, NEW s \in Salons,
                      claim[u][s] \in Owning, claim'[u][s] = "PENDING",
                      ~(Cardinality(Handlers) > 1)
               PROVE  FALSE
    BY DEF ClaimKept
  <1>1. \A h, p \in Handlers : h = p
    BY TwoHandlers
  <1>2. claim'[u][s] # claim[u][s] /\ claim[u][s] # "none"
    BY DEF Owning
  <1>3. PICK h \in Handlers : /\ req[h].op = "open" /\ req[h].user = u /\ req[h].salon = s
                              /\ req[h].reopen
    BY <1>2, ClaimChanges DEF IInv, Owning, Ended
  <1>4. claim[u][s] \notin Owning
    BY <1>1, <1>3 DEF IInv, ReopensEnded
  <1> QED
    BY <1>4

\* Of requests that come one at a time, none turns the claim of an owner back
\* into an open one (createClaim's update by id).
THEOREM OwnersKeepClaims == Spec => OwnersKeepTheirClaim
  <1>1. IInv /\ [Next]_vars => [ClaimKept]_vars
    BY KeepsClaims
  <1> QED
    BY <1>1, InductiveInvariant, PTL DEF Spec, OwnersKeepTheirClaim

-----------------------------------------------------------------------------
(* What is proved of other modules holds of the parts of MCPartners that   *)
(* are instances of them.                                                  *)

LEMMA PartsStay == [MCNext]_MCvars => UNCHANGED part
  BY DEF MCNext, MCvars

\* The rows a master has are those of one week, or writes of it overlapped
\* (replaceMy, publishDraft).
THEOREM WeeksKeptInPart == MCSpec => []WeeksKept
  <1>1. MCInit /\ part = "hours" => Schedules!Init
    BY DEF MCInit
  <1>2. [MCNext]_MCvars /\ part = "hours" => [Schedules!Next]_Schedules!vars
    BY DEF MCNext, MCvars, Schedules!vars, scheduling
  <1>3. Schedules!Spec => []Schedules!WeeksKept
    <2>1. {1, 2} # {}
      OBVIOUS
    <2> QED
      BY <2>1, Schedules!WeeksStayKept
  <1>4. (part = "hours" => Schedules!WeeksKept) => WeeksKept
    BY DEF WeeksKept
  <1>5. UNCHANGED part => ((part = "hours")' <=> part = "hours")
    OBVIOUS
  <1> QED
    BY <1>1, <1>2, <1>3, <1>4, <1>5, PartsStay, PTL DEF MCSpec, Schedules!Spec

\* Masters and salons show the rating of their reviews (recalculateAggregates),
\* or changes of them overlapped or stopped, or the place was written over it.
THEOREM RatingsToldInPart == MCSpec => []RatingsTold
  <1>1. MCInit /\ part = "reviews" => Reviewed!Init
    BY DEF MCInit
  <1>2. [MCNext]_MCvars /\ part = "reviews" => [Reviewed!Next]_Reviewed!vars
    BY DEF MCNext, MCvars, Reviewed!vars, reviewing
  <1>3. Reviewed!Spec => []Reviewed!RatingsTold
    <2>1. Reviewed!Staffed
      BY NamesAssumption DEF Reviewed!Staffed
    <2> QED
      BY <2>1, Reviewed!RatingsStayTold
  <1>4. (part = "reviews" => Reviewed!RatingsTold) => RatingsTold
    BY DEF RatingsTold
  <1>5. UNCHANGED part => ((part = "reviews")' <=> part = "reviews")
    OBVIOUS
  <1> QED
    BY <1>1, <1>2, <1>3, <1>4, <1>5, PartsStay, PTL DEF MCSpec, Reviewed!Spec

\* A salon's row says what was published, or what the place says where that was
\* left open, or something was written that was read before another write
\* (saveDraft, enrichSalonFromGooglePlaces), or the row was changed outside the
\* editor.
THEOREM PublishedAgreesInParts == MCSpec => []PublishedAgrees
  <1>1. /\ MCInit /\ part = "texts" => TextsOnly!Init
        /\ MCInit /\ part = "filled" => Filled!Init
        /\ MCInit /\ part = "beside" => Beside!Init
    BY DEF MCInit
  <1>2. [MCNext]_MCvars /\ part = "texts" => [TextsOnly!Next]_TextsOnly!vars
    BY DEF MCNext, MCvars, TextsOnly!vars, editing
  <1>3. [MCNext]_MCvars /\ part = "beside" => [Beside!Next]_Beside!vars
    BY DEF MCNext, MCvars, Beside!vars, editing
  <1>filled. [MCNext]_MCvars /\ part = "filled" => [Filled!Next]_Filled!vars
    BY DEF MCNext, MCvars, Filled!vars, editing
  <1>4. TextsOnly!Spec => []TextsOnly!PublishedAgrees
    BY TextsOnly!PublishedStaysTrue
  <1>5. Beside!Spec => []Beside!PublishedAgrees
    BY Beside!PublishedStaysTrue
  <1>6. Filled!Spec => []Filled!PublishedAgrees
    BY Filled!PublishedStaysTrue
  <1>7. /\ part = "texts" => TextsOnly!PublishedAgrees
        /\ part = "filled" => Filled!PublishedAgrees
        /\ part = "beside" => Beside!PublishedAgrees
        => PublishedAgrees
    BY DEF PublishedAgrees
  <1>8. UNCHANGED part =>
           /\ (part = "texts")' <=> part = "texts"
           /\ (part = "filled")' <=> part = "filled"
           /\ (part = "beside")' <=> part = "beside"
    OBVIOUS
  <1> QED
    BY <1>1, <1>2, <1>3, <1>filled, <1>4, <1>5, <1>6, <1>7, <1>8, PartsStay, PTL
       DEF MCSpec, TextsOnly!Spec, Filled!Spec, Beside!Spec

\* Visitors see one row of a name, and at most one more for each row made
\* outside the editor (publishDraft); a picture of the place they see as often
\* as it is redeemed at once (enrichSalonFromGooglePlaces).
THEOREM ShownOnceInParts == MCSpec => []ShownOnce
  <1>1. /\ MCInit /\ part = "rows" => RowsOnly!Init
        /\ MCInit /\ part = "photos" => Pictures!Init
        /\ MCInit /\ part = "beside" => Beside!Init
    BY DEF MCInit
  <1>2. [MCNext]_MCvars /\ part = "rows" => [RowsOnly!Next]_RowsOnly!vars
    BY DEF MCNext, MCvars, RowsOnly!vars, editing
  <1>3. [MCNext]_MCvars /\ part = "photos" => [Pictures!Next]_Pictures!vars
    BY DEF MCNext, MCvars, Pictures!vars, editing
  <1>4. [MCNext]_MCvars /\ part = "beside" => [Beside!Next]_Beside!vars
    BY DEF MCNext, MCvars, Beside!vars, editing
  <1>5. RowsOnly!Spec => []RowsOnly!ShownOnce
    <2>1. RowsOnly!EditorNames
      <3>1. {"cut"} \cap {} = {} /\ {} \subseteq {} /\ {} \cap {"cut"} = {} /\ {} \subseteq {"cut"}
        OBVIOUS
      <3>2. RowsOnly!IsFiniteSet({"here"}) /\ RowsOnly!IsFiniteSet({})
        BY RowsOnly!FS_Singleton, RowsOnly!FS_EmptySet
      <3> QED
        BY <3>1, <3>2, Zenon DEF RowsOnly!EditorNames
    <2> QED
      BY <2>1, RowsOnly!ShownStaysOnce
  <1>6. Pictures!Spec => []Pictures!ShownOnce
    <2>1. Pictures!EditorNames
      <3>1. /\ {"cut"} \cap {"pic", "view"} = {} /\ {"view"} \subseteq {"pic", "view"}
          /\ {"view"} \cap {"pic"} = {} /\ {} \subseteq {"cut"}
        OBVIOUS
      <3>2. Pictures!IsFiniteSet({"here"}) /\ Pictures!IsFiniteSet({1, 2})
        <4>1. {1, 2} = {1} \cup {2}
          OBVIOUS
        <4>2. Pictures!IsFiniteSet({1}) /\ Pictures!IsFiniteSet({"here"})
          BY Pictures!FS_Singleton
        <4>3. Pictures!IsFiniteSet({1} \cup {2})
          BY <4>2, Pictures!FS_AddElement
        <4> QED
          BY <4>1, <4>2, <4>3
      <3> QED
        BY <3>1, <3>2, Zenon DEF Pictures!EditorNames
    <2> QED
      BY <2>1, Pictures!ShownStaysOnce
  <1>7. Beside!Spec => []Beside!ShownOnce
    <2>1. Beside!EditorNames
      <3>1. {"cut"} \cap {} = {} /\ {} \subseteq {} /\ {} \cap {} = {} /\ {"cut"} \subseteq {"cut"}
        OBVIOUS
      <3>2. Beside!IsFiniteSet({"here"}) /\ Beside!IsFiniteSet({})
        BY Beside!FS_Singleton, Beside!FS_EmptySet
      <3> QED
        BY <3>1, <3>2, Zenon DEF Beside!EditorNames
    <2> QED
      BY <2>1, Beside!ShownStaysOnce
  <1>8. /\ part = "rows" => RowsOnly!ShownOnce
        /\ part = "photos" => Pictures!ShownOnce
        /\ part = "beside" => Beside!ShownOnce
        => ShownOnce
    BY DEF ShownOnce
  <1>9. UNCHANGED part =>
           /\ (part = "rows")' <=> part = "rows"
           /\ (part = "photos")' <=> part = "photos"
           /\ (part = "beside")' <=> part = "beside"
    OBVIOUS
  <1> QED
    BY <1>1, <1>2, <1>3, <1>4, <1>5, <1>6, <1>7, <1>8, <1>9, PartsStay, PTL
       DEF MCSpec, RowsOnly!Spec, Pictures!Spec, Beside!Spec

-----------------------------------------------------------------------------
(* Part alone.  One request at a time: what it read of a claim that had    *)
(* ended is still so when it opens the claim again.                        *)

\* Its requests, the count read of a code being whatever it is.
AloneRequest(count) ==
  [op : {"claim"}, user : {u1, u2}, salon : {s1, s2, None}, place : {p1, None}] \cup
  [op : {"open"}, user : {u1, u2}, salon : {s1, s2}, reopen : BOOLEAN] \cup
  [op : {"approve", "trial"}, user : {u1, u2}, salon : {s1, s2}] \cup
  [op : {"request", "issued"}, user : {u1, u2}, salon : {s1, s2}, place : {p1, None}] \cup
  [op : {"redeem", "enrich", "access"}, user : {u1, u2}, salon : {s1, s2, None}, place : {p1, None},
   code : {c1}, count : {count}]

AloneTyped ==
  /\ claim \in [{u1, u2} -> [{s1, s2} -> Statuses \cup {"none"}]]
  /\ req \in [{h1} -> AloneRequest(req[h1].count) \cup {Idle}]
  /\ req[h1].op \in {"enrich", "access"} => req[h1].salon # None

EndedUntilOpened ==
  req[h1].op = "open" /\ req[h1].reopen => claim[req[h1].user][req[h1].salon] \in Ended

AloneInvariant == AloneTyped /\ EndedUntilOpened

LEMMA AloneNames ==
  /\ Alone!Idle = Idle /\ Idle.op = "idle" /\ Alone!NoRow = NoRow
  /\ Alone!Ended = Ended /\ Alone!Owning = Owning
  /\ Ended \subseteq Statuses /\ Owning \subseteq Statuses
  /\ Statuses \ {"PENDING"} = Ended \cup Owning \cup {"CODE_ISSUED"}
  /\ {"PENDING", "CODE_ISSUED"} \cap (Ended \cup Owning) = {}
  /\ Ended \cap Owning = {} /\ "none" \notin Statuses
  BY DEF Alone!Idle, Idle, Alone!NoRow, NoRow, Alone!Ended, Ended, Alone!Owning, Owning, Statuses

LEMMA AloneStarts == Alone!Init => AloneInvariant
  BY DEF Alone!Init, Alone!Empty, AloneInvariant, AloneTyped, EndedUntilOpened, Alone!Idle, Idle, Alone!NoRow, NoRow

\* No step opens the claim of an owner.
ClaimsKeep == \A u \in {u1, u2}, s \in {s1, s2} : claim[u][s] \in Owning => claim'[u][s] # "PENDING"

LEMMA AloneSteps == AloneInvariant /\ Alone!Next => AloneInvariant' /\ ClaimsKeep
  <1> SUFFICES ASSUME AloneInvariant, Alone!Next PROVE AloneInvariant' /\ ClaimsKeep
    OBVIOUS
  <1> USE AloneNames
  <1>1. CASE Alone!Handle(h1)
    <2> USE DEF Alone!Go, Alone!Finish, Alone!tables, AloneInvariant, AloneTyped, EndedUntilOpened, ClaimsKeep
    <2>1. CASE Alone!MakeSalon(h1)
      BY <2>1 DEF Alone!MakeSalon, AloneRequest
    <2>2. CASE Alone!ClaimRead(h1)
      BY <2>2 DEF Alone!ClaimRead, Alone!Pages, Alone!Resolved, Alone!SalonsOf, AloneRequest
    <2>3. CASE Alone!ClaimOwnerRead(h1)
      BY <2>3 DEF Alone!ClaimOwnerRead, Alone!Reopens, AloneRequest
    <2>4. CASE Alone!ClaimWrite(h1)
      <3>1. req[h1].user \in {u1, u2} /\ req[h1].salon \in {s1, s2} /\ req[h1].reopen \in BOOLEAN
        BY <2>4 DEF Alone!ClaimWrite, AloneRequest
      <3>2. claim[req[h1].user][req[h1].salon] \notin Owning
        BY <2>4 DEF Alone!ClaimWrite
      <3>3. claim' = [claim EXCEPT ![req[h1].user][req[h1].salon] = "PENDING"] /\ req' = [req EXCEPT ![h1] = Idle]
            /\ UNCHANGED code
        BY <2>4 DEF Alone!ClaimWrite
      <3>4. "PENDING" \in Statuses
        BY DEF Statuses
      <3> QED
        BY <3>1, <3>2, <3>3, <3>4
    <2>5. CASE Alone!ApproveRead(h1)
      BY <2>5 DEF Alone!ApproveRead, AloneRequest
    <2>6. CASE Alone!ApproveCommit(h1)
      BY <2>6 DEF Alone!ApproveCommit, Alone!Grant, Owning, AloneRequest
    <2>7. CASE Alone!TrialRead(h1)
      BY <2>7 DEF Alone!TrialRead, AloneRequest
    <2>8. CASE Alone!TrialCommit(h1)
      BY <2>8 DEF Alone!TrialCommit, Owning, AloneRequest
    <2>9. CASE Alone!CodeRead(h1)
      BY <2>9 DEF Alone!CodeRead, AloneRequest
    <2>10. CASE Alone!CodeCreate(h1)
      BY <2>10 DEF Alone!CodeCreate, AloneRequest
    <2>11. CASE Alone!CodeIssued(h1)
      BY <2>11 DEF Alone!CodeIssued, AloneRequest
    <2>12. CASE Alone!RedeemRead(h1)
      BY <2>12 DEF Alone!RedeemRead, Alone!Redeemable, Alone!Pages, Alone!Resolved, Alone!SalonsOf, AloneRequest
    <2>13. CASE Alone!RedeemOwnerRead(h1)
      BY <2>13 DEF Alone!RedeemOwnerRead, AloneRequest
    <2>14. CASE Alone!RedeemCommit(h1)
      BY <2>14 DEF Alone!RedeemCommit, Alone!Grant, Alone!Spent, Owning, AloneRequest
    <2>15. CASE Alone!Abandon(h1)
      BY <2>15 DEF Alone!Abandon
    <2>16. CASE Alone!Enrich(h1)
      BY <2>16 DEF Alone!Enrich, AloneRequest
    <2> QED
      BY <1>1, <2>1, <2>2, <2>3, <2>4, <2>5, <2>6, <2>7, <2>8, <2>9, <2>10, <2>11, <2>12, <2>13, <2>14, <2>15,
         <2>16
      DEF Alone!Handle
  <1>2. CASE \E u \in {u1, u2}, s \in {s1, s2}, status \in Ended : Alone!EndClaim(u, s, status)
    BY <1>2 DEF Alone!EndClaim, AloneInvariant, AloneTyped, EndedUntilOpened, ClaimsKeep
  <1>3. CASE UNCHANGED <<claim, req>>
    BY <1>3 DEF AloneInvariant, AloneTyped, EndedUntilOpened, ClaimsKeep
  <1>4. Alone!Next =>
          \/ Alone!Handle(h1)
          \/ \E u \in {u1, u2}, s \in {s1, s2}, status \in Ended : Alone!EndClaim(u, s, status)
          \/ UNCHANGED <<salon, claim, req>>
    BY DEF Alone!Next, Alone!RedeemVoucher, Alone!CreateCode, Alone!RevokeCode, Alone!RemoveMemberships,
           Alone!ChangeRole
  <1> QED
    BY <1>1, <1>2, <1>3, <1>4

\* One request at a time, none turns the claim of an owner back into an open
\* one, whatever an administrator does to claims between its steps (createClaim).
THEOREM ClaimsKeptInPart == MCSpec => ClaimsKeptAlone
  <1>1. MCInit /\ part = "alone" => Alone!Init
    BY DEF MCInit
  <1>2. [MCNext]_MCvars /\ part = "alone" => Alone!Next \/ UNCHANGED Alone!vars
    BY DEF MCNext, MCvars, Alone!vars, owning
  <1>3. AloneInvariant /\ UNCHANGED Alone!vars => AloneInvariant' /\ ClaimsKeep
    BY AloneNames DEF AloneInvariant, AloneTyped, EndedUntilOpened, ClaimsKeep, Alone!vars
  <1>4. ClaimsKeep => Alone!ClaimKept
    BY AloneNames DEF ClaimsKeep, Alone!ClaimKept
  <1> DEFINE Inv == part = "alone" => AloneInvariant
  <1>5. MCInit => Inv
    BY <1>1, AloneStarts
  <1>6. Inv /\ [MCNext]_MCvars => Inv' /\ (part = "alone" => Alone!ClaimKept)
    BY <1>2, <1>3, <1>4, AloneSteps, PartsStay
  <1>7. Inv /\ [MCNext]_MCvars => [part = "alone" => Alone!ClaimKept]_MCvars
    BY <1>6
  <1> QED
    BY <1>5, <1>6, <1>7, PTL DEF MCSpec, ClaimsKeptAlone

-----------------------------------------------------------------------------
(* Requests for access (PartnerRequests), for every set Q of their ids, E  *)
(* of emails, D of durations offered, V of codes made for them and H of    *)
(* handlers.                                                               *)

Asking(Q, E, D, V, B, H) == INSTANCE PartnerRequests WITH
  Requests <- Q, Emails <- E, Durations <- D, Vouchers <- V, MaxReopened <- B, Handlers <- H

Lengths == {"HOUR", "DAY", "MONTH", "THREE_MONTHS", "SIX_MONTHS", "YEAR", "TRIAL"}

Days(d) == Asking({}, {}, {}, {}, 0, {})!DaysOf(d)

AskRow(E, D, V) ==
  [email : E, duration : D, code : V \cup {None},
   status : {"PENDING", "CONTACTED", "APPROVED", "REJECTED", "CODE_SENT", "ACTIVATED"}]

AskRecord(Q, E, D, V) ==
  [op : {"create"}, email : E] \cup
  [op : {"status"}, request : Q, code : V \cup {None},
   to : {"PENDING", "CONTACTED", "APPROVED", "REJECTED", "CODE_SENT", "ACTIVATED"}] \cup
  [op : {"mint"}, request : Q, duration : D] \cup
  [op : {"minted"}, request : Q, code : V]

Voucher(Q) == [request : Q, type : {"PROMO_TRIAL", "PARTNER_MONTH"}, days : 1 .. 365]

\* Rows and requests are of their types, and about rows that are there.
AskTyped(Q, E, D, V, H) ==
  /\ request \in [Q -> AskRow(E, D, V) \cup {NoRow}]
  /\ voucher \in [V -> Voucher(Q) \cup {NoRow}]
  /\ req \in [H -> AskRecord(Q, E, D, V) \cup {Idle}]
  /\ reopened \in [E -> Nat]
  /\ orphans \subseteq V
  /\ \A v \in V : voucher[v] # NoRow => request[voucher[v].request] # NoRow
  /\ \A h \in H : req[h].op \in {"status", "mint", "minted"} => request[req[h].request] # NoRow

\* Code v was made for request r and is as long as it asks for.
Fit(v, r) == voucher[v] # NoRow /\ voucher[v].request = r /\ voucher[v].days = Days(request[r].duration)

\* A code that a row names, or a handler is about to write to one, fits it.
CodesFit(Q, H) ==
  /\ \A r \in Q : request[r] # NoRow /\ request[r].code # None => Fit(request[r].code, r)
  /\ \A h \in H :
       /\ req[h].op = "status" /\ req[h].code # None => Fit(req[h].code, req[h].request)
       /\ req[h].op = "mint" => req[h].duration = request[req[h].request].duration
       /\ req[h].op = "minted" => Fit(req[h].code, req[h].request)

OpenOf(Q, e) == {r \in Q : request[r] # NoRow /\ request[r].email = e /\ request[r].status # "REJECTED"}

Creating(H, e) == {h \in H : req[h].op = "create" /\ req[h].email = e}

\* A request about to be created counts as one: its handler saw none open.
OpenCounted(Q, E, H) ==
  \A e \in E :
    /\ IsFiniteSet(OpenOf(Q, e))
    /\ Cardinality(OpenOf(Q, e)) + Cardinality(Creating(H, e)) <= Cardinality(H) + reopened[e]

\* One handler: what it read of a row's code is still there, and of a request
\* with a code that neither it nor an abandoned handler holds a code is known.
CodesKnown(Q, V, H) ==
  (\A h, p \in H : h = p) =>
    /\ \A h \in H : req[h].op = "status" => req[h].code = request[req[h].request].code
    /\ \A v \in V \ orphans :
         voucher[v] # NoRow /\ (\A h \in H : req[h].op = "minted" => req[h].code # v) =>
           request[voucher[v].request].code # None

AskInv(Q, E, D, V, H) ==
  /\ AskTyped(Q, E, D, V, H)
  /\ CodesFit(Q, H)
  /\ OpenCounted(Q, E, H)
  /\ CodesKnown(Q, V, H)

\* A row is never mistaken for an absent one, nor a request for none, and a
\* request is of the shape its op says.
LEMMA AskShapes ==
  ASSUME NEW Q, NEW E, NEW D, NEW V, NEW H, AskTyped(Q, E, D, V, H), NEW h \in H
  PROVE  /\ \A row \in AskRow(E, D, V) \cup Voucher(Q) : row # NoRow
         /\ \A record \in AskRecord(Q, E, D, V) : record # Idle /\ record.op # "idle"
         /\ Idle.op = "idle"
         /\ req[h].op \in {"idle", "create", "status", "mint", "minted"}
         /\ req[h].op = "create" => req[h].email \in E
         /\ req[h].op = "status" =>
              /\ req[h].request \in Q /\ req[h].code \in V \cup {None}
              /\ req[h].to \in {"PENDING", "CONTACTED", "APPROVED", "REJECTED", "CODE_SENT", "ACTIVATED"}
         /\ req[h].op = "mint" => req[h].request \in Q /\ req[h].duration \in D
         /\ req[h].op = "minted" => req[h].request \in Q /\ req[h].code \in V
  <1>1. \A row \in AskRow(E, D, V) \cup Voucher(Q) : row # NoRow
    BY DEF AskRow, Voucher, NoRow
  <1>2. \A record \in AskRecord(Q, E, D, V) : record # Idle /\ record.op # "idle"
    BY DEF AskRecord, Idle
  <1>3. Idle.op = "idle"
    BY DEF Idle
  <1>4. req[h] \in AskRecord(Q, E, D, V) \cup {Idle}
    BY DEF AskTyped
  <1>5. req[h].op \in {"idle", "create", "status", "mint", "minted"}
    BY <1>3, <1>4 DEF AskRecord
  <1>6. req[h].op = "create" => req[h].email \in E
    BY <1>3, <1>4 DEF AskRecord
  <1>7. req[h].op = "status" =>
              /\ req[h].request \in Q /\ req[h].code \in V \cup {None}
              /\ req[h].to \in {"PENDING", "CONTACTED", "APPROVED", "REJECTED", "CODE_SENT", "ACTIVATED"}
    BY <1>3, <1>4 DEF AskRecord
  <1>8. req[h].op = "mint" => req[h].request \in Q /\ req[h].duration \in D
    BY <1>3, <1>4 DEF AskRecord
  <1>9. req[h].op = "minted" => req[h].request \in Q /\ req[h].code \in V
    BY <1>3, <1>4 DEF AskRecord
  <1> QED
    BY <1>1, <1>2, <1>3, <1>5, <1>6, <1>7, <1>8, <1>9

\* A handler that goes on: what it has, and the others.
LEMMA AskWent ==
  ASSUME NEW Q, NEW E, NEW D, NEW V, NEW H, AskTyped(Q, E, D, V, H), NEW h \in H,
         NEW record \in AskRecord(Q, E, D, V) \cup {Idle}, req' = [req EXCEPT ![h] = record]
  PROVE  /\ req' \in [H -> AskRecord(Q, E, D, V) \cup {Idle}]
         /\ req'[h] = record
         /\ \A p \in H \ {h} : req'[p] = req[p]
  BY DEF AskTyped

AskNames(D, V, H) == D \subseteq Lengths /\ None \notin V /\ IsFiniteSet(H)

LEMMA AskSets ==
  ASSUME NEW Q, NEW E, NEW D, NEW V, NEW H, AskNames(D, V, H), AskInv(Q, E, D, V, H), NEW e \in E
  PROVE  /\ IsFiniteSet(OpenOf(Q, e)) /\ Cardinality(OpenOf(Q, e)) \in Nat
         /\ IsFiniteSet(Creating(H, e)) /\ Cardinality(Creating(H, e)) \in Nat
         /\ \A S \in SUBSET H : IsFiniteSet(S) /\ Cardinality(S) \in Nat /\ Cardinality(S) <= Cardinality(H)
         /\ Cardinality(H) \in Nat /\ reopened[e] \in Nat
  <1>1. IsFiniteSet(OpenOf(Q, e)) /\ reopened[e] \in Nat /\ IsFiniteSet(H)
    BY DEF AskInv, OpenCounted, AskTyped, AskNames
  <1>2. Creating(H, e) \subseteq H
    BY DEF Creating
  <1> QED
    BY <1>1, <1>2, FS_Subset, FS_CardinalityType

\* A handler reads a row, or gives up.
LEMMA AskReadKeeps ==
  ASSUME NEW Q, NEW E, NEW D, NEW V, NEW H, AskNames(D, V, H), AskInv(Q, E, D, V, H), NEW h \in H,
         NEW record \in AskRecord(Q, E, D, V) \cup {Idle}, req' = [req EXCEPT ![h] = record],
         UNCHANGED <<request, voucher, reopened>>, orphans \subseteq orphans', orphans' \subseteq V,
         record.op # "minted",
         record.op \in {"status", "mint"} => request[record.request] # NoRow,
         record.op = "status" => record.code = request[record.request].code,
         record.op = "mint" => record.duration = request[record.request].duration,
         record.op = "create" => OpenOf(Q, record.email) = {},
         req[h].op = "minted" => req[h].code \in orphans'
  PROVE  AskInv(Q, E, D, V, H)'
  <1>1. /\ req' \in [H -> AskRecord(Q, E, D, V) \cup {Idle}]
        /\ req'[h] = record
        /\ \A p \in H \ {h} : req'[p] = req[p]
    BY AskWent DEF AskInv
  <1>2. AskTyped(Q, E, D, V, H)'
    BY <1>1 DEF AskInv, AskTyped
  <1>3. AskTyped(Q, E, D, V, H)
    BY DEF AskInv
  <1>4. CodesFit(Q, H)'
    <2>1. record.op = "status" => record.request \in Q
      BY DEF AskRecord, Idle
    <2>2. \A v, r : Fit(v, r)' <=> Fit(v, r)
      BY DEF Fit
    <2> QED
      BY <1>1, <2>1, <2>2 DEF AskInv, CodesFit
  <1>5. OpenCounted(Q, E, H)'
    <2> SUFFICES ASSUME NEW e \in E
                 PROVE  /\ IsFiniteSet(OpenOf(Q, e)')
                        /\ Cardinality(OpenOf(Q, e)') + Cardinality(Creating(H, e)') <= Cardinality(H) + reopened'[e]
      BY DEF OpenCounted
    <2>1. OpenOf(Q, e)' = OpenOf(Q, e) /\ reopened'[e] = reopened[e]
      BY DEF OpenOf
    <2>2. Creating(H, e)' \subseteq H /\ Cardinality(OpenOf(Q, e)) + Cardinality(Creating(H, e)) <= Cardinality(H) + reopened[e]
      BY DEF Creating, AskInv, OpenCounted
    <2>3. CASE record.op = "create" /\ record.email = e
      <3>1. Cardinality(OpenOf(Q, e)) = 0
        BY <2>3, FS_EmptySet
      <3> QED
        BY <2>1, <2>2, <3>1, AskSets
    <2>4. CASE ~(record.op = "create" /\ record.email = e)
      <3>1. Creating(H, e)' \subseteq Creating(H, e)
        BY <1>1, <2>4 DEF Creating
      <3>2. Cardinality(Creating(H, e)') <= Cardinality(Creating(H, e)) /\ Cardinality(Creating(H, e)') \in Nat
        BY <2>2, <3>1, AskSets, FS_Subset
      <3> QED
        BY <2>1, <2>2, <3>2, AskSets
    <2> QED
      BY <2>3, <2>4
  <1>6. CodesKnown(Q, V, H)'
    BY <1>1 DEF AskInv, CodesKnown
  <1> QED
    BY <1>2, <1>4, <1>5, <1>6 DEF AskInv

LEMMA CreateWriteKeeps ==
  ASSUME NEW Q, NEW E, NEW D, NEW V, NEW B, NEW H, AskNames(D, V, H), AskInv(Q, E, D, V, H), NEW h \in H,
         Asking(Q, E, D, V, B, H)!CreateWrite(h)
  PROVE  AskInv(Q, E, D, V, H)'
  <1>1. PICK r \in Q, d \in D :
          /\ request[r] = NoRow
          /\ request' = [request EXCEPT ![r] =
               [email |-> req[h].email, duration |-> d, status |-> "PENDING", code |-> None]]
          /\ req' = [req EXCEPT ![h] = Idle]
    BY DEF Asking!CreateWrite, Asking!Rows, Asking!NoRow, NoRow, Asking!Finish, Asking!Go, Asking!Idle, Idle
  <1>2. req[h].op = "create" /\ UNCHANGED <<voucher, reopened, orphans>>
    BY DEF Asking!CreateWrite
  <1>3. AskTyped(Q, E, D, V, H) /\ req[h].email \in E
    BY <1>2, AskShapes DEF AskInv
  <1> DEFINE row == [email |-> req[h].email, duration |-> d, status |-> "PENDING", code |-> None]
  <1>4. /\ row \in AskRow(E, D, V) /\ row.email = req[h].email /\ row.status # "REJECTED" /\ row.code = None
        /\ row # NoRow
    BY <1>3 DEF AskRow, NoRow
  <1> HIDE DEF row
  <1>5. /\ request' \in [Q -> AskRow(E, D, V) \cup {NoRow}]
        /\ request'[r] = row
        /\ \A q \in Q : q # r => request'[q] = request[q]
    BY <1>1, <1>3, <1>4 DEF AskTyped, row
  <1>6. /\ req' \in [H -> AskRecord(Q, E, D, V) \cup {Idle}]
        /\ req'[h] = Idle /\ Idle.op = "idle"
        /\ \A p \in H \ {h} : req'[p] = req[p]
    <2>1. Idle \in AskRecord(Q, E, D, V) \cup {Idle} /\ Idle.op = "idle"
      BY DEF Idle
    <2> QED
      BY <1>1, <1>3, <2>1 DEF AskTyped
  <1>7. \A v \in V : voucher[v] # NoRow => voucher[v].request \in Q /\ voucher[v].request # r
    BY <1>1, <1>3 DEF AskTyped, Voucher
  <1>8. \A p \in H : req[p].op \in {"status", "mint", "minted"} => req[p].request \in Q /\ req[p].request # r
    BY <1>1, <1>3, AskShapes DEF AskTyped
  <1>9. AskTyped(Q, E, D, V, H)'
    BY <1>2, <1>3, <1>4, <1>5, <1>6, <1>7, <1>8 DEF AskTyped
  <1>10. CodesFit(Q, H)'
    <2>1. \A v, q : q \in Q /\ q # r => (Fit(v, q)' <=> Fit(v, q))
      BY <1>2, <1>5 DEF Fit
    <2> QED
      BY <1>4, <1>5, <1>6, <1>8, <2>1 DEF AskInv, CodesFit
  <1>11. OpenCounted(Q, E, H)'
    <2> SUFFICES ASSUME NEW e \in E
                 PROVE  /\ IsFiniteSet(OpenOf(Q, e)')
                        /\ Cardinality(OpenOf(Q, e)') + Cardinality(Creating(H, e)') <= Cardinality(H) + reopened'[e]
      BY DEF OpenCounted
    <2>1. Cardinality(OpenOf(Q, e)) + Cardinality(Creating(H, e)) <= Cardinality(H) + reopened[e]
      BY DEF AskInv, OpenCounted
    <2>2. CASE e = req[h].email
      <3>1. OpenOf(Q, e)' = OpenOf(Q, e) \cup {r} /\ r \notin OpenOf(Q, e)
        BY <1>1, <1>4, <1>5, <2>2 DEF OpenOf
      <3>2. Creating(H, e)' = Creating(H, e) \ {h} /\ h \in Creating(H, e)
        BY <1>2, <1>6, <2>2 DEF Creating
      <3>3. IsFiniteSet(OpenOf(Q, e)') /\ Cardinality(OpenOf(Q, e)') = Cardinality(OpenOf(Q, e)) + 1
        BY <3>1, AskSets, FS_AddElement
      <3>4. Cardinality(Creating(H, e)') = Cardinality(Creating(H, e)) - 1
        BY <3>2, AskSets, FS_RemoveElement
      <3> QED
        BY <1>2, <2>1, <3>3, <3>4, AskSets
    <2>3. CASE e # req[h].email
      <3>1. OpenOf(Q, e)' = OpenOf(Q, e)
        BY <1>1, <1>4, <1>5, <2>3 DEF OpenOf
      <3>2. Creating(H, e)' = Creating(H, e)
        BY <1>2, <1>6, <2>3 DEF Creating
      <3> QED
        BY <1>2, <2>1, <3>1, <3>2, AskSets
    <2> QED
      BY <2>2, <2>3
  <1>12. CodesKnown(Q, V, H)'
    BY <1>2, <1>5, <1>6, <1>7, <1>8 DEF AskInv, CodesKnown
  <1> QED
    BY <1>9, <1>10, <1>11, <1>12 DEF AskInv

\* The update of a row that is there moves it between open and rejected, counts
\* it when it is opened again, and names a code.
RowWritten(H, r, to, c) ==
  /\ request' = [request EXCEPT ![r].status = to, ![r].code = c]
  /\ reopened' = [reopened EXCEPT ![request[r].email] =
                    @ + (IF request[r].status = "REJECTED" /\ to # "REJECTED" THEN 1 ELSE 0)]
  /\ req' = req \/ \E h \in H : req' = [req EXCEPT ![h] = Idle]
  /\ UNCHANGED <<voucher, orphans>>

LEMMA RowWrittenKeeps ==
  ASSUME NEW Q, NEW E, NEW D, NEW V, NEW H, AskNames(D, V, H), AskInv(Q, E, D, V, H), NEW r \in Q,
         request[r] # NoRow,
         NEW to \in {"PENDING", "CONTACTED", "APPROVED", "REJECTED", "CODE_SENT", "ACTIVATED"},
         NEW c \in V \cup {None}, c # None => Fit(c, r),
         RowWritten(H, r, to, c)
  PROVE  /\ AskTyped(Q, E, D, V, H)'
         /\ CodesFit(Q, H)'
         /\ OpenCounted(Q, E, H)'
         /\ request'[r].code = c /\ \A q \in Q : q # r => request'[q] = request[q]
  <1>1. AskTyped(Q, E, D, V, H) /\ request[r] \in AskRow(E, D, V)
    BY DEF AskInv, AskTyped
  <1> DEFINE row == [request[r] EXCEPT !.status = to, !.code = c]
  <1>2. row.email = request[r].email /\ row.duration = request[r].duration /\ row.status = to /\ row.code = c
    BY <1>1 DEF AskRow
  <1>3. row \in AskRow(E, D, V)
    BY <1>1, Zenon DEF AskRow
  <1>4. row # NoRow
    BY <1>3 DEF AskRow, NoRow
  <1>5. request' = [request EXCEPT ![r] = row]
    BY <1>1 DEF AskTyped, RowWritten
  <1> HIDE DEF row
  <1>6. /\ request' \in [Q -> AskRow(E, D, V) \cup {NoRow}]
        /\ request'[r] = row
        /\ \A q \in Q : q # r => request'[q] = request[q]
    BY <1>1, <1>3, <1>5 DEF AskTyped
  <1>7. \A q \in Q : (request'[q] # NoRow <=> request[q] # NoRow) /\ request'[q].duration = request[q].duration
    BY <1>2, <1>4, <1>6
  <1>8. /\ req' \in [H -> AskRecord(Q, E, D, V) \cup {Idle}]
        /\ \A h \in H : req'[h] = req[h] \/ req'[h] = Idle
        /\ UNCHANGED <<voucher, orphans>>
    BY <1>1 DEF AskTyped, RowWritten
  <1>9. Idle.op = "idle"
    BY DEF Idle
  <1>10. \A h \in H : req[h].op \in {"status", "mint", "minted"} => req[h].request \in Q
    BY <1>1, AskShapes
  <1>11. request[r].email \in E /\ (IF request[r].status = "REJECTED" /\ to # "REJECTED" THEN 1 ELSE 0) \in Nat
    BY <1>1 DEF AskRow
  <1>12. AskTyped(Q, E, D, V, H)'
    <2>1. reopened' \in [E -> Nat]
      BY <1>1, <1>11 DEF AskTyped, RowWritten
    <2>2. \A v \in V : voucher[v] # NoRow => voucher[v].request \in Q
      BY <1>1 DEF AskTyped, Voucher
    <2> QED
      BY <1>1, <1>6, <1>7, <1>8, <1>9, <1>10, <2>1, <2>2 DEF AskTyped
  <1>13. CodesFit(Q, H)'
    <2>1. \A v, q : q \in Q => (Fit(v, q)' <=> Fit(v, q))
      BY <1>7, <1>8 DEF Fit
    <2> QED
      BY <1>2, <1>6, <1>7, <1>8, <1>9, <1>10, <2>1 DEF AskInv, CodesFit
  <1>14. OpenCounted(Q, E, H)'
    <2> SUFFICES ASSUME NEW e \in E
                 PROVE  /\ IsFiniteSet(OpenOf(Q, e)')
                        /\ Cardinality(OpenOf(Q, e)') + Cardinality(Creating(H, e)') <= Cardinality(H) + reopened'[e]
      BY DEF OpenCounted
    <2>1. Cardinality(OpenOf(Q, e)) + Cardinality(Creating(H, e)) <= Cardinality(H) + reopened[e]
      BY DEF AskInv, OpenCounted
    <2>2. Creating(H, e)' \subseteq Creating(H, e)
      BY <1>8, <1>9 DEF Creating
    <2>3. Cardinality(Creating(H, e)') <= Cardinality(Creating(H, e)) /\ Cardinality(Creating(H, e)') \in Nat
      BY <2>2, AskSets, FS_Subset, FS_CardinalityType
    <2>4. reopened'[e] \in Nat /\ reopened'[e] >= reopened[e]
      BY <1>1, <1>11 DEF AskTyped, RowWritten
    <2>5. CASE e = request[r].email /\ request[r].status = "REJECTED" /\ to # "REJECTED"
      <3>1. OpenOf(Q, e)' = OpenOf(Q, e) \cup {r} /\ r \notin OpenOf(Q, e)
        BY <1>2, <1>4, <1>6, <2>5 DEF OpenOf
      <3>2. IsFiniteSet(OpenOf(Q, e)') /\ Cardinality(OpenOf(Q, e)') = Cardinality(OpenOf(Q, e)) + 1
        BY <3>1, AskSets, FS_AddElement
      <3>3. reopened'[e] = reopened[e] + 1
        BY <1>1, <2>5 DEF AskTyped, RowWritten
      <3> QED
        BY <2>1, <2>3, <3>2, <3>3, AskSets
    <2>6. CASE ~(e = request[r].email /\ request[r].status = "REJECTED" /\ to # "REJECTED")
      <3>1. OpenOf(Q, e)' \subseteq OpenOf(Q, e)
        BY <1>2, <1>6, <2>6 DEF OpenOf
      <3>2. /\ IsFiniteSet(OpenOf(Q, e)') /\ Cardinality(OpenOf(Q, e)') <= Cardinality(OpenOf(Q, e))
            /\ Cardinality(OpenOf(Q, e)') \in Nat
        BY <3>1, AskSets, FS_Subset, FS_CardinalityType
      <3> QED
        BY <2>1, <2>3, <2>4, <3>2, AskSets
    <2> QED
      BY <2>5, <2>6
  <1> QED
    BY <1>2, <1>6, <1>12, <1>13, <1>14

LEMMA StatusWriteKeeps ==
  ASSUME NEW Q, NEW E, NEW D, NEW V, NEW B, NEW H, AskNames(D, V, H), AskInv(Q, E, D, V, H), NEW h \in H,
         Asking(Q, E, D, V, B, H)!StatusWrite(h)
  PROVE  AskInv(Q, E, D, V, H)'
  <1> DEFINE r == req[h].request
             c == req[h].code
             to == req[h].to
  <1>1. /\ req[h].op = "status" /\ UNCHANGED <<voucher, orphans>>
        /\ request' = [request EXCEPT ![r].status = to, ![r].code = c]
        /\ reopened' = [reopened EXCEPT ![request[r].email] =
                        @ + (IF request[r].status = "REJECTED" /\ to # "REJECTED" THEN 1 ELSE 0)]
        /\ req' = [req EXCEPT ![h] = Idle]
    BY DEF Asking!StatusWrite, Asking!Metadata, Asking!Reopens, Asking!Finish, Asking!Go, Asking!Idle, Idle
  <1>2. AskTyped(Q, E, D, V, H)
    BY DEF AskInv
  <1>3. /\ r \in Q /\ request[r] # NoRow /\ c \in V \cup {None}
        /\ to \in {"PENDING", "CONTACTED", "APPROVED", "REJECTED", "CODE_SENT", "ACTIVATED"}
    BY <1>1, <1>2, AskShapes DEF AskTyped
  <1>4. c # None => Fit(c, r)
    BY <1>1 DEF AskInv, CodesFit
  <1>7. RowWritten(H, r, to, c)
    BY <1>1 DEF RowWritten
  <1>5. CASE \A p, q \in H : p = q
    <2>1. c = request[r].code
      BY <1>1, <1>5 DEF AskInv, CodesKnown
    <2> HIDE DEF r, c, to
    <2>2. /\ AskTyped(Q, E, D, V, H)' /\ CodesFit(Q, H)' /\ OpenCounted(Q, E, H)'
          /\ request'[r].code = c /\ \A q \in Q : q # r => request'[q] = request[q]
      BY <1>3, <1>4, <1>7, RowWrittenKeeps
    <2>3. \A v \in V : voucher[v] # NoRow => voucher[v].request \in Q
      BY <1>2 DEF AskTyped, Voucher
    <2>4. \A p \in H : req'[p] = Idle /\ req[p].op = "status" /\ Idle.op = "idle"
      BY <1>1, <1>2, <1>5 DEF AskTyped, Idle
    <2>5. CodesKnown(Q, V, H)'
      <3>1. \A q \in Q : request'[q].code = request[q].code
        BY <2>1, <2>2
      <3>2. \A v \in V \ orphans : voucher[v] # NoRow => request[voucher[v].request].code # None
        BY <1>5, <2>4 DEF AskInv, CodesKnown
      <3> QED
        BY <1>1, <2>3, <2>4, <3>1, <3>2 DEF CodesKnown
    <2> QED
      BY <2>2, <2>5 DEF AskInv
  <1>6. CASE \E p, q \in H : p # q
    <2> HIDE DEF r, c, to
    <2>1. AskTyped(Q, E, D, V, H)' /\ CodesFit(Q, H)' /\ OpenCounted(Q, E, H)'
      BY <1>3, <1>4, <1>7, RowWrittenKeeps
    <2> QED
      BY <1>6, <2>1 DEF AskInv, CodesKnown
  <1> QED
    BY <1>5, <1>6

LEMMA CodeWriteKeeps ==
  ASSUME NEW Q, NEW E, NEW D, NEW V, NEW B, NEW H, AskNames(D, V, H), AskInv(Q, E, D, V, H), NEW h \in H,
         Asking(Q, E, D, V, B, H)!CodeWrite(h)
  PROVE  AskInv(Q, E, D, V, H)'
  <1> DEFINE r == req[h].request
             c == req[h].code
  <1>1. /\ req[h].op = "minted" /\ UNCHANGED <<voucher, orphans>>
        /\ request' = [request EXCEPT ![r].status = "CODE_SENT", ![r].code = c]
        /\ reopened' = [reopened EXCEPT ![request[r].email] =
                        @ + (IF request[r].status = "REJECTED" /\ "CODE_SENT" # "REJECTED" THEN 1 ELSE 0)]
        /\ req' = [req EXCEPT ![h] = Idle]
    BY DEF Asking!CodeWrite, Asking!Reopens, Asking!Finish, Asking!Go, Asking!Idle, Idle
  <1>2. AskTyped(Q, E, D, V, H)
    BY DEF AskInv
  <1>3. /\ r \in Q /\ request[r] # NoRow /\ c \in V
        /\ "CODE_SENT" \in {"PENDING", "CONTACTED", "APPROVED", "REJECTED", "CODE_SENT", "ACTIVATED"}
    BY <1>1, <1>2, AskShapes DEF AskTyped
  <1>4. Fit(c, r)
    BY <1>1 DEF AskInv, CodesFit
  <1>8. RowWritten(H, r, "CODE_SENT", c)
    BY <1>1 DEF RowWritten
  <1> HIDE DEF r, c
  <1>5. /\ AskTyped(Q, E, D, V, H)' /\ CodesFit(Q, H)' /\ OpenCounted(Q, E, H)'
        /\ request'[r].code = c /\ \A q \in Q : q # r => request'[q] = request[q]
    BY <1>3, <1>4, <1>8, RowWrittenKeeps
  <1>6. CASE \A p, q \in H : p = q
    <2>1. \A v \in V : voucher[v] # NoRow => voucher[v].request \in Q
      BY <1>2 DEF AskTyped, Voucher
    <2>2. c # None /\ voucher[c].request = r
      BY <1>3, <1>4 DEF AskNames, Fit
    <2>3. \A p \in H : req'[p] = Idle /\ req[p].op = "minted" /\ req[p].code = c /\ Idle.op = "idle"
      BY <1>1, <1>2, <1>6 DEF AskTyped, Idle, c
    <2>4. CodesKnown(Q, V, H)'
      <3>1. \A v \in V \ orphans : voucher[v] # NoRow /\ v # c => request[voucher[v].request].code # None
        BY <1>6, <2>3 DEF AskInv, CodesKnown
      <3>2. \A q \in Q : request[q].code # None => request'[q].code # None
        BY <1>5, <2>2
      <3>3. \A v \in V \ orphans : voucher[v] # NoRow => request'[voucher[v].request].code # None
        BY <1>5, <2>1, <2>2, <3>1, <3>2
      <3> QED
        BY <1>1, <2>3, <3>3 DEF CodesKnown
    <2> QED
      BY <1>5, <2>4 DEF AskInv
  <1>7. CASE \E p, q \in H : p # q
    BY <1>5, <1>7 DEF AskInv, CodesKnown
  <1> QED
    BY <1>6, <1>7

LEMMA ActivateKeeps ==
  ASSUME NEW Q, NEW E, NEW D, NEW V, NEW B, NEW H, AskNames(D, V, H), AskInv(Q, E, D, V, H), NEW r \in Q,
         Asking(Q, E, D, V, B, H)!Activate(r)
  PROVE  AskInv(Q, E, D, V, H)'
  <1>1. /\ request[r] # NoRow /\ UNCHANGED <<voucher, orphans, req>>
        /\ request' = [request EXCEPT ![r].status = "ACTIVATED"]
        /\ reopened' = [reopened EXCEPT ![request[r].email] =
                        @ + (IF request[r].status = "REJECTED" /\ "ACTIVATED" # "REJECTED" THEN 1 ELSE 0)]
    BY DEF Asking!Activate, Asking!Reopens, Asking!NoRow, NoRow
  <1>2. AskTyped(Q, E, D, V, H)
    BY DEF AskInv
  <1>3. /\ request[r] \in AskRow(E, D, V) /\ request[r].code \in V \cup {None}
        /\ "ACTIVATED" \in {"PENDING", "CONTACTED", "APPROVED", "REJECTED", "CODE_SENT", "ACTIVATED"}
    BY <1>1, <1>2 DEF AskTyped, AskRow
  <1>4. request' = [request EXCEPT ![r].status = "ACTIVATED", ![r].code = request[r].code]
    BY <1>1, <1>2, <1>3 DEF AskTyped, AskRow
  <1>5. request[r].code # None => Fit(request[r].code, r)
    BY <1>1 DEF AskInv, CodesFit
  <1>10. RowWritten(H, r, "ACTIVATED", request[r].code)
    BY <1>1, <1>4 DEF RowWritten
  <1>6. /\ AskTyped(Q, E, D, V, H)' /\ CodesFit(Q, H)' /\ OpenCounted(Q, E, H)'
        /\ request'[r].code = request[r].code /\ \A q \in Q : q # r => request'[q] = request[q]
    BY <1>1, <1>3, <1>5, <1>10, RowWrittenKeeps
  <1>7. \A v \in V : voucher[v] # NoRow => voucher[v].request \in Q
    BY <1>2 DEF AskTyped, Voucher
  <1>8. \A p \in H : req[p].op = "status" => req[p].request \in Q
    BY <1>2, AskShapes
  <1>9. CodesKnown(Q, V, H)'
    BY <1>1, <1>6, <1>7, <1>8 DEF AskInv, CodesKnown
  <1> QED
    BY <1>6, <1>9 DEF AskInv

LEMMA CodeMintKeeps ==
  ASSUME NEW Q, NEW E, NEW D, NEW V, NEW B, NEW H, AskNames(D, V, H), AskInv(Q, E, D, V, H), NEW h \in H,
         Asking(Q, E, D, V, B, H)!CodeMint(h)
  PROVE  AskInv(Q, E, D, V, H)'
  <1>0. PICK r, d : r = req[h].request /\ d = req[h].duration
    OBVIOUS
  <1>1. req[h].op = "mint" /\ UNCHANGED <<request, reopened, orphans>>
    BY DEF Asking!CodeMint
  <1>2. PICK c \in V :
          /\ voucher[c] = NoRow
          /\ voucher' = [voucher EXCEPT ![c] =
               [request |-> r, type |-> Asking(Q, E, D, V, B, H)!TypeOf(d), days |-> Days(d)]]
          /\ req' = [req EXCEPT ![h] = [op |-> "minted", request |-> r, code |-> c]]
    BY <1>0 DEF Asking!CodeMint, Asking!NoRow, NoRow, Asking!Go, Asking!DaysOf, Days
  <1>3. AskTyped(Q, E, D, V, H)
    BY DEF AskInv
  <1>4. r \in Q /\ d \in D /\ request[r] # NoRow /\ d = request[r].duration
    BY <1>0, <1>1, <1>3, AskShapes DEF AskTyped, AskInv, CodesFit
  <1>5. Days(d) \in 1 .. 365
    BY <1>4 DEF AskNames, Lengths, Days, Asking!DaysOf
  <1> DEFINE row == [request |-> r, type |-> Asking(Q, E, D, V, B, H)!TypeOf(d), days |-> Days(d)]
  <1>6. row \in Voucher(Q) /\ row.request = r /\ row.days = Days(d) /\ row # NoRow
    BY <1>4, <1>5 DEF Voucher, Asking!TypeOf, NoRow
  <1> DEFINE record == [op |-> "minted", request |-> r, code |-> c]
  <1>7. record \in AskRecord(Q, E, D, V) /\ record.op = "minted" /\ record.request = r /\ record.code = c
    BY <1>4 DEF AskRecord
  <1> HIDE DEF row, record
  <1>8. /\ voucher' \in [V -> Voucher(Q) \cup {NoRow}] /\ voucher'[c] = row
        /\ \A v \in V : v # c => voucher'[v] = voucher[v]
    BY <1>2, <1>3, <1>6 DEF AskTyped, row
  <1>9. /\ req' \in [H -> AskRecord(Q, E, D, V) \cup {Idle}] /\ req'[h] = record
        /\ \A p \in H \ {h} : req'[p] = req[p]
    BY <1>2, <1>3, <1>7 DEF AskTyped, record
  <1>10. AskTyped(Q, E, D, V, H)'
    BY <1>1, <1>3, <1>4, <1>6, <1>7, <1>8, <1>9 DEF AskTyped
  <1>11. CodesFit(Q, H)'
    <2>1. Fit(c, r)'
      <3>1. voucher'[c] # NoRow /\ voucher'[c].request = r /\ voucher'[c].days = Days(d) /\ request'[r].duration = d
        BY <1>1, <1>4, <1>6, <1>8
      <3> QED
        BY <3>1 DEF Fit
    <2>2. \A v \in V, q \in Q : Fit(v, q) => Fit(v, q)'
      BY <1>1, <1>2, <1>8 DEF Fit
    <2>3. \A q \in Q : request[q] # NoRow => request[q].code \in V \cup {None}
      BY <1>3 DEF AskTyped, AskRow
    <2>4. \A p \in H : /\ req[p].op = "status" => req[p].code \in V \cup {None} /\ req[p].request \in Q
                       /\ req[p].op = "minted" => req[p].code \in V /\ req[p].request \in Q
      BY <1>3, AskShapes
    <2> QED
      BY <1>1, <1>7, <1>9, <2>1, <2>2, <2>3, <2>4 DEF AskInv, CodesFit
  <1>12. OpenCounted(Q, E, H)'
    <2>1. \A e \in E : Creating(H, e)' = Creating(H, e) /\ OpenOf(Q, e)' = OpenOf(Q, e)
      BY <1>1, <1>7, <1>9 DEF Creating, OpenOf
    <2> QED
      BY <1>1, <2>1 DEF AskInv, OpenCounted
  <1>13. CodesKnown(Q, V, H)'
    <2> SUFFICES ASSUME \A p, q \in H : p = q PROVE CodesKnown(Q, V, H)'
      BY DEF CodesKnown
    <2>1. \A p \in H : p = h
      OBVIOUS
    <2> QED
      BY <1>1, <1>7, <1>8, <1>9, <2>1 DEF AskInv, CodesKnown
  <1> QED
    BY <1>10, <1>11, <1>12, <1>13 DEF AskInv

LEMMA AskStarts ==
  ASSUME NEW Q, NEW E, NEW D, NEW V, NEW B, NEW H, AskNames(D, V, H), Asking(Q, E, D, V, B, H)!Init
  PROVE  AskInv(Q, E, D, V, H)
  <1>1. /\ request = [r \in Q |-> NoRow] /\ voucher = [v \in V |-> NoRow] /\ req = [h \in H |-> Idle]
        /\ reopened = [e \in E |-> 0] /\ orphans = {} /\ Idle.op = "idle"
    BY DEF Asking!Init, Asking!NoRow, NoRow, Asking!Idle, Idle
  <1>2. \A e \in E : OpenOf(Q, e) = {} /\ Creating(H, e) = {}
    BY <1>1 DEF OpenOf, Creating
  <1>3. Cardinality(H) \in Nat /\ IsFiniteSet({}) /\ Cardinality({}) = 0
    BY FS_CardinalityType, FS_EmptySet DEF AskNames
  <1>4. AskTyped(Q, E, D, V, H) /\ CodesFit(Q, H)
    BY <1>1 DEF AskTyped, CodesFit
  <1>5. OpenCounted(Q, E, H)
    BY <1>1, <1>2, <1>3 DEF OpenCounted
  <1>6. CodesKnown(Q, V, H)
    BY <1>1 DEF CodesKnown
  <1> QED
    BY <1>4, <1>5, <1>6 DEF AskInv

LEMMA AskSteps ==
  ASSUME NEW Q, NEW E, NEW D, NEW V, NEW B, NEW H, AskNames(D, V, H), AskInv(Q, E, D, V, H),
         Asking(Q, E, D, V, B, H)!Next
  PROVE  AskInv(Q, E, D, V, H)'
  <1>1. AskTyped(Q, E, D, V, H)
    BY DEF AskInv
  <1>2. ASSUME NEW h \in H, Asking(Q, E, D, V, B, H)!CreateRead(h) PROVE AskInv(Q, E, D, V, H)'
    <2>1. req[h].op = "idle"
      BY <1>2 DEF Asking!CreateRead, Asking!Idle
    <2>2. PICK e \in E : /\ OpenOf(Q, e) = {}
                         /\ req' = [req EXCEPT ![h] = [op |-> "create", email |-> e]]
      BY <1>2 DEF Asking!CreateRead, Asking!Live, Asking!Rows, Asking!NoRow, NoRow, OpenOf, Asking!Go
    <2> DEFINE record == [op |-> "create", email |-> e]
    <2>3. record \in AskRecord(Q, E, D, V) /\ record.op = "create" /\ record.email = e
      BY DEF AskRecord
    <2>4. UNCHANGED <<request, voucher, reopened, orphans>> /\ orphans \subseteq V
      BY <1>1, <1>2 DEF Asking!CreateRead, AskTyped
    <2>5. req' = [req EXCEPT ![h] = record]
      BY <2>2
    <2> HIDE DEF record
    <2> QED
      BY <2>1, <2>2, <2>3, <2>4, <2>5, AskReadKeeps
  <1>3. ASSUME NEW h \in H, Asking(Q, E, D, V, B, H)!StatusRead(h) PROVE AskInv(Q, E, D, V, H)'
    <2>1. req[h].op = "idle"
      BY <1>3 DEF Asking!StatusRead, Asking!Idle
    <2>2. PICK r \in Q, to \in {"PENDING", "CONTACTED", "APPROVED", "REJECTED", "CODE_SENT", "ACTIVATED"} :
            /\ request[r] # NoRow
            /\ req' = [req EXCEPT ![h] = [op |-> "status", request |-> r, code |-> request[r].code, to |-> to]]
      BY <1>3 DEF Asking!StatusRead, Asking!Rows, Asking!NoRow, NoRow, Asking!Statuses, Asking!Go
    <2> DEFINE record == [op |-> "status", request |-> r, code |-> request[r].code, to |-> to]
    <2>3. request[r].code \in V \cup {None}
      BY <1>1, <2>2 DEF AskTyped, AskRow
    <2>4. /\ record \in AskRecord(Q, E, D, V) /\ record.op = "status" /\ record.request = r
          /\ record.code = request[r].code
      BY <2>3 DEF AskRecord
    <2>5. UNCHANGED <<request, voucher, reopened, orphans>> /\ orphans \subseteq V
      BY <1>1, <1>3 DEF Asking!StatusRead, AskTyped
    <2>6. req' = [req EXCEPT ![h] = record]
      BY <2>2
    <2> HIDE DEF record
    <2> QED
      BY <2>1, <2>2, <2>4, <2>5, <2>6, AskReadKeeps
  <1>4. ASSUME NEW h \in H, Asking(Q, E, D, V, B, H)!CodeRead(h) PROVE AskInv(Q, E, D, V, H)'
    <2>1. req[h].op = "idle"
      BY <1>4 DEF Asking!CodeRead, Asking!Idle
    <2>2. PICK r \in Q :
            /\ request[r] # NoRow
            /\ req' = [req EXCEPT ![h] = [op |-> "mint", request |-> r, duration |-> request[r].duration]]
      BY <1>4 DEF Asking!CodeRead, Asking!Rows, Asking!NoRow, NoRow, Asking!Go
    <2> DEFINE record == [op |-> "mint", request |-> r, duration |-> request[r].duration]
    <2>3. request[r].duration \in D
      BY <1>1, <2>2 DEF AskTyped, AskRow
    <2>4. /\ record \in AskRecord(Q, E, D, V) /\ record.op = "mint" /\ record.request = r
          /\ record.duration = request[r].duration
      BY <2>3 DEF AskRecord
    <2>5. UNCHANGED <<request, voucher, reopened, orphans>> /\ orphans \subseteq V
      BY <1>1, <1>4 DEF Asking!CodeRead, AskTyped
    <2>6. req' = [req EXCEPT ![h] = record]
      BY <2>2
    <2> HIDE DEF record
    <2> QED
      BY <2>1, <2>2, <2>4, <2>5, <2>6, AskReadKeeps
  <1>5. ASSUME NEW h \in H, Asking(Q, E, D, V, B, H)!Abandon(h) PROVE AskInv(Q, E, D, V, H)'
    <2>1. /\ orphans' = (IF req[h].op = "minted" THEN orphans \cup {req[h].code} ELSE orphans)
          /\ req' = [req EXCEPT ![h] = Idle]
          /\ UNCHANGED <<request, voucher, reopened>>
      BY <1>5 DEF Asking!Abandon, Asking!Finish, Asking!Go, Asking!Idle, Idle
    <2>2. /\ orphans \subseteq orphans' /\ orphans' \subseteq V
          /\ req[h].op = "minted" => req[h].code \in orphans'
      BY <1>1, <2>1, AskShapes DEF AskTyped
    <2>3. Idle \in AskRecord(Q, E, D, V) \cup {Idle} /\ Idle.op = "idle"
      BY DEF Idle
    <2> QED
      BY <2>1, <2>2, <2>3, AskReadKeeps
  <1>6. ASSUME NEW h \in H, Asking(Q, E, D, V, B, H)!Step(h) PROVE AskInv(Q, E, D, V, H)'
    BY <1>2, <1>3, <1>4, <1>5, <1>6, CreateWriteKeeps, StatusWriteKeeps, CodeMintKeeps, CodeWriteKeeps
    DEF Asking!Step
  <1> QED
    BY <1>6, ActivateKeeps DEF Asking!Next

LEMMA AskStutters ==
  ASSUME NEW Q, NEW E, NEW D, NEW V, NEW H, AskInv(Q, E, D, V, H),
         UNCHANGED <<request, voucher, req, reopened, orphans>>
  PROVE  AskInv(Q, E, D, V, H)'
  <1>1. AskTyped(Q, E, D, V, H)'
    BY DEF AskInv, AskTyped
  <1>2. CodesFit(Q, H)'
    BY DEF AskInv, CodesFit, Fit
  <1>3. OpenCounted(Q, E, H)'
    BY DEF AskInv, OpenCounted, OpenOf, Creating
  <1>4. CodesKnown(Q, V, H)'
    BY DEF AskInv, CodesKnown
  <1> QED
    BY <1>1, <1>2, <1>3, <1>4 DEF AskInv

LEMMA AskAccounts ==
  ASSUME NEW Q, NEW E, NEW D, NEW V, NEW B, NEW H, AskNames(D, V, H), AskInv(Q, E, D, V, H)
  PROVE  Asking(Q, E, D, V, B, H)!RequestsAccounted
  <1>1. \A S : Asking(Q, E, D, V, B, H)!Cardinality(S) = Cardinality(S)
    BY DEF Asking!Cardinality, Cardinality
  <1>2. AskTyped(Q, E, D, V, H)
    BY DEF AskInv
  <1>3. Asking(Q, E, D, V, B, H)!NoRow = NoRow /\ Asking(Q, E, D, V, B, H)!Idle = Idle
    BY DEF Asking!NoRow, NoRow, Asking!Idle, Idle
  <1>4. ASSUME NEW e \in E
        PROVE  Cardinality(Asking(Q, E, D, V, B, H)!Live(e)) <= Cardinality(H) + reopened[e]
    <2>1. Asking(Q, E, D, V, B, H)!Live(e) = OpenOf(Q, e)
      BY <1>3 DEF Asking!Live, Asking!Rows, OpenOf
    <2>2. Cardinality(OpenOf(Q, e)) + Cardinality(Creating(H, e)) <= Cardinality(H) + reopened[e]
      BY DEF AskInv, OpenCounted
    <2> QED
      BY <2>1, <2>2, AskSets
  <1>5. ASSUME NEW r \in Q, request[r] # NoRow, request[r].code # None
        PROVE  LET v == voucher[request[r].code]
               IN v.request = r /\ v.days = Asking(Q, E, D, V, B, H)!DaysOf(request[r].duration)
    <2>1. Fit(request[r].code, r)
      BY <1>5 DEF AskInv, CodesFit
    <2> QED
      BY <2>1 DEF Fit, Days, Asking!DaysOf
  <1>6. ASSUME NEW r \in Q, request[r] # NoRow, Cardinality(H) = 1,
               Asking(Q, E, D, V, B, H)!Pending(r) = {}, Asking(Q, E, D, V, B, H)!Made(r) # {}
        PROVE  request[r].code # None
    <2>1. \A p, q \in H : p = q
      BY <1>6, FS_Singleton DEF AskNames
    <2>2. PICK v \in V \ orphans : voucher[v] # NoRow /\ voucher[v].request = r
      BY <1>3, <1>6 DEF Asking!Made
    <2>3. \A h \in H : req[h].op = "minted" => req[h].code # v
      <3> SUFFICES ASSUME NEW h \in H, req[h].op = "minted", req[h].code = v PROVE FALSE
        OBVIOUS
      <3>1. req[h].request = r
        BY <2>2 DEF AskInv, CodesFit, Fit
      <3>2. req[h] # Idle
        BY DEF Idle
      <3> QED
        BY <1>3, <1>6, <3>1, <3>2 DEF Asking!Pending
    <2> QED
      BY <2>1, <2>2, <2>3 DEF AskInv, CodesKnown
  <1> QED
    BY <1>1, <1>3, <1>4, <1>5, <1>6 DEF Asking!RequestsAccounted, Asking!Rows

\* An email has one open request but for the handlers that saw none at once and
\* the requests reopened, a request names a code of its own that is as long as it
\* asks for, and one handler at a time loses sight of no code (create,
\* updateStatus, createAccessCodeForRequest).
THEOREM RequestsStayAccounted ==
  ASSUME NEW CONSTANT Q, NEW CONSTANT E, NEW CONSTANT D, NEW CONSTANT V, NEW CONSTANT B, NEW CONSTANT H,
         AskNames(D, V, H)
  PROVE  Asking(Q, E, D, V, B, H)!Spec => []Asking(Q, E, D, V, B, H)!RequestsAccounted
  <1>1. Asking(Q, E, D, V, B, H)!Init => AskInv(Q, E, D, V, H)
    BY AskStarts
  <1>2. AskInv(Q, E, D, V, H) /\ [Asking(Q, E, D, V, B, H)!Next]_(Asking(Q, E, D, V, B, H)!vars)
          => AskInv(Q, E, D, V, H)'
    BY AskSteps, AskStutters DEF Asking!vars
  <1>3. AskInv(Q, E, D, V, H) => Asking(Q, E, D, V, B, H)!RequestsAccounted
    BY AskAccounts
  <1> QED
    BY <1>1, <1>2, <1>3, PTL DEF Asking!Spec

\* The parts of MCPartners are instances of it.
LEMMA PartsAsk ==
  /\ AskedInTurn!Init => Asking({r1, r2}, {"ann"}, {"MONTH", "TRIAL"}, {d1, d2}, 1, {h1})!Init
  /\ AskedInTurn!Next => Asking({r1, r2}, {"ann"}, {"MONTH", "TRIAL"}, {d1, d2}, 1, {h1})!Next
  /\ AskedAtOnce!Init => Asking({r1, r2}, {"ann"}, {"MONTH"}, {d1}, 1, {h1, h2})!Init
  /\ AskedAtOnce!Next => Asking({r1, r2}, {"ann"}, {"MONTH"}, {d1}, 1, {h1, h2})!Next
  <1>1. /\ AskedInTurn!Init => Asking({r1, r2}, {"ann"}, {"MONTH", "TRIAL"}, {d1, d2}, 1, {h1})!Init
        /\ AskedInTurn!Next => Asking({r1, r2}, {"ann"}, {"MONTH", "TRIAL"}, {d1, d2}, 1, {h1})!Next
    BY DEF AskedInTurn!Init, Asking!Init, AskedInTurn!Next, Asking!Next, AskedInTurn!Step, Asking!Step,
           AskedInTurn!Activate, Asking!Activate, AskedInTurn!CreateRead, Asking!CreateRead,
           AskedInTurn!CreateWrite, Asking!CreateWrite, AskedInTurn!StatusRead, Asking!StatusRead,
           AskedInTurn!StatusWrite, Asking!StatusWrite, AskedInTurn!CodeRead, Asking!CodeRead,
           AskedInTurn!CodeMint, Asking!CodeMint, AskedInTurn!CodeWrite, Asking!CodeWrite,
           AskedInTurn!Abandon, Asking!Abandon, AskedInTurn!Rows, Asking!Rows, AskedInTurn!Live,
           Asking!Live, AskedInTurn!Go, Asking!Go, AskedInTurn!Finish, Asking!Finish, AskedInTurn!Idle,
           Asking!Idle, AskedInTurn!NoRow, Asking!NoRow, AskedInTurn!Statuses, Asking!Statuses,
           AskedInTurn!DaysOf, Asking!DaysOf, AskedInTurn!TypeOf, Asking!TypeOf, AskedInTurn!Reopens,
           Asking!Reopens, AskedInTurn!Metadata, Asking!Metadata
  <1>2. /\ AskedAtOnce!Init => Asking({r1, r2}, {"ann"}, {"MONTH"}, {d1}, 1, {h1, h2})!Init
        /\ AskedAtOnce!Next => Asking({r1, r2}, {"ann"}, {"MONTH"}, {d1}, 1, {h1, h2})!Next
    BY DEF AskedAtOnce!Init, Asking!Init, AskedAtOnce!Next, Asking!Next, AskedAtOnce!Step, Asking!Step,
           AskedAtOnce!Activate, Asking!Activate, AskedAtOnce!CreateRead, Asking!CreateRead,
           AskedAtOnce!CreateWrite, Asking!CreateWrite, AskedAtOnce!StatusRead, Asking!StatusRead,
           AskedAtOnce!StatusWrite, Asking!StatusWrite, AskedAtOnce!CodeRead, Asking!CodeRead,
           AskedAtOnce!CodeMint, Asking!CodeMint, AskedAtOnce!CodeWrite, Asking!CodeWrite,
           AskedAtOnce!Abandon, Asking!Abandon, AskedAtOnce!Rows, Asking!Rows, AskedAtOnce!Live,
           Asking!Live, AskedAtOnce!Go, Asking!Go, AskedAtOnce!Finish, Asking!Finish, AskedAtOnce!Idle,
           Asking!Idle, AskedAtOnce!NoRow, Asking!NoRow, AskedAtOnce!Statuses, Asking!Statuses,
           AskedAtOnce!DaysOf, Asking!DaysOf, AskedAtOnce!TypeOf, Asking!TypeOf, AskedAtOnce!Reopens,
           Asking!Reopens, AskedAtOnce!Metadata, Asking!Metadata
  <1> QED
    BY <1>1, <1>2

LEMMA PartsAccount ==
  /\ Asking({r1, r2}, {"ann"}, {"MONTH", "TRIAL"}, {d1, d2}, 1, {h1})!RequestsAccounted => AskedInTurn!RequestsAccounted
  /\ Asking({r1, r2}, {"ann"}, {"MONTH"}, {d1}, 1, {h1, h2})!RequestsAccounted => AskedAtOnce!RequestsAccounted
  <1>1. Asking({r1, r2}, {"ann"}, {"MONTH", "TRIAL"}, {d1, d2}, 1, {h1})!RequestsAccounted => AskedInTurn!RequestsAccounted
    BY DEF AskedInTurn!RequestsAccounted, Asking!RequestsAccounted, AskedInTurn!Live, Asking!Live, AskedInTurn!Rows,
           Asking!Rows, AskedInTurn!NoRow, Asking!NoRow, AskedInTurn!Idle, Asking!Idle, AskedInTurn!Made, Asking!Made,
           AskedInTurn!Pending, Asking!Pending, AskedInTurn!DaysOf, Asking!DaysOf, AskedInTurn!Cardinality,
           Asking!Cardinality
  <1>2. Asking({r1, r2}, {"ann"}, {"MONTH"}, {d1}, 1, {h1, h2})!RequestsAccounted => AskedAtOnce!RequestsAccounted
    BY DEF AskedAtOnce!RequestsAccounted, Asking!RequestsAccounted, AskedAtOnce!Live, Asking!Live, AskedAtOnce!Rows,
           Asking!Rows, AskedAtOnce!NoRow, Asking!NoRow, AskedAtOnce!Idle, Asking!Idle, AskedAtOnce!Made, Asking!Made,
           AskedAtOnce!Pending, Asking!Pending, AskedAtOnce!DaysOf, Asking!DaysOf, AskedAtOnce!Cardinality,
           Asking!Cardinality
  <1> QED
    BY <1>1, <1>2

LEMMA PartsAskNames ==
  AskNames({"MONTH", "TRIAL"}, {d1, d2}, {h1}) /\ AskNames({"MONTH"}, {d1}, {h1, h2})
  <1>1. IsFiniteSet({h1}) /\ IsFiniteSet({h1} \cup {h2})
    BY FS_Singleton, FS_AddElement
  <1>2. {h1} \cup {h2} = {h1, h2}
    OBVIOUS
  <1> QED
    BY <1>1, <1>2, NamesAssumption DEF AskNames, Lengths

\* The same of the specification the run explores, in its two parts about
\* requests for access.
THEOREM RequestsAccountedInParts == MCSpec => []RequestsAccounted
  <1> DEFINE Turn == AskInv({r1, r2}, {"ann"}, {"MONTH", "TRIAL"}, {d1, d2}, {h1})
             Once == AskInv({r1, r2}, {"ann"}, {"MONTH"}, {d1}, {h1, h2})
             Inv == /\ part = "requests" => Turn
                    /\ part = "requested" => Once
  <1>1. MCInit => Inv
    <2>1. MCInit /\ part = "requests" => Turn
      BY PartsAsk, PartsAskNames, AskStarts DEF MCInit
    <2>2. MCInit /\ part = "requested" => Once
      BY PartsAsk, PartsAskNames, AskStarts DEF MCInit
    <2> QED
      BY <2>1, <2>2
  <1>2. Inv /\ [MCNext]_MCvars => Inv'
    <2>1. ASSUME [MCNext]_MCvars, part = "requests", Turn PROVE Turn'
      <3>1. CASE AskedInTurn!Next
        BY <2>1, <3>1, PartsAsk, PartsAskNames, AskSteps
      <3>2. CASE UNCHANGED <<request, voucher, req, reopened, orphans>>
        BY <2>1, <3>2, AskStutters
      <3> QED
        BY <2>1, <3>1, <3>2 DEF MCNext, MCvars, requesting
    <2>2. ASSUME [MCNext]_MCvars, part = "requested", Once PROVE Once'
      <3>1. CASE AskedAtOnce!Next
        BY <2>2, <3>1, PartsAsk, PartsAskNames, AskSteps
      <3>2. CASE UNCHANGED <<request, voucher, req, reopened, orphans>>
        BY <2>2, <3>2, AskStutters
      <3> QED
        BY <2>2, <3>1, <3>2 DEF MCNext, MCvars, requesting
    <2> HIDE DEF Turn, Once
    <2> QED
      BY <2>1, <2>2, PartsStay
  <1>3. Inv => RequestsAccounted
    <2>1. Turn => AskedInTurn!RequestsAccounted
      BY PartsAskNames, AskAccounts, PartsAccount
    <2>2. Once => AskedAtOnce!RequestsAccounted
      BY PartsAskNames, AskAccounts, PartsAccount
    <2> QED
      BY <2>1, <2>2 DEF RequestsAccounted
  <1> HIDE DEF Inv
  <1> QED
    BY <1>1, <1>2, <1>3, PTL DEF MCSpec

-----------------------------------------------------------------------------
(* Subscriptions, for every set O of owners, A of the administrator, R of  *)
(* subscriptions, P of payments, M of lengths, and one handler h.          *)

Pays(O, A, R, P, M, T, L, h) == INSTANCE Subscriptions WITH
  Owners <- O, Admin <- A, Subs <- R, Payments <- P, Months <- M, MaxTime <- T, MaxEnd <- L,
  Handlers <- {h}

\* Rows have ids, a length is a number of months, and time is too.
PayNames(R, M, T) == None \notin R /\ M \subseteq Nat \ {0} /\ T \in Nat

SubRow(O, A) ==
  [user : O \cup {A}, status : {"TRIAL", "ACTIVE", "CANCELLED"}, trial : BOOLEAN, start : Nat, end : Nat]

PayRow(O, R, M) == [user : O, months : M, sub : R \cup {None}]

FoundRow(O, R) == [row : R \cup {None}, user : O, at : Nat, end : Nat]

PayRecord(O, A, R, P) ==
  [op : {"paid"}, user : O, payment : P, at : Nat] \cup
  [op : {"extend"}, found : FoundRow(O, R), by : {"payment"}, payment : P, trial : {FALSE}] \cup
  [op : {"extend"}, found : FoundRow(O, R), by : {"code", "voucher"}, payment : {None}, trial : BOOLEAN] \cup
  [op : {"link"}, sub : R, payment : P] \cup
  [op : {"trial"}, user : O \cup {A}]

Linked(P, r) == {p \in P : payment[p] # NoRow /\ payment[p].sub = r}

\* The months paid with some payments.
PaidFor(table, S) == Paying!MapThenSumSet(LAMBDA p : table[p].months, S)

PayTyped(O, A, R, P, M, h) ==
  /\ sub \in [R -> SubRow(O, A) \cup {NoRow}]
  /\ payment \in [P -> PayRow(O, R, M) \cup {NoRow}]
  /\ disabled \in BOOLEAN
  /\ now \in Nat
  /\ req \in [{h} -> PayRecord(O, A, R, P) \cup {Idle}]
  /\ \A p \in P : payment[p] # NoRow /\ payment[p].sub # None => sub[payment[p].sub] # NoRow
  /\ \A r \in R : IsFiniteSet(Linked(P, r))

\* The payment the handler works for is not linked to a subscription yet.
Paid(h) ==
  req[h].op \in {"paid", "link"} \/ (req[h].op = "extend" /\ req[h].by = "payment") =>
    payment[req[h].payment] # NoRow /\ payment[req[h].payment].sub = None

\* An extension was worked out at most a month ago, of a row that is still there
\* and no longer than it will be.
Longer(h) ==
  /\ req[h].op = "paid" => req[h].at <= now /\ now <= req[h].at + 1
  /\ req[h].op = "extend" =>
       /\ now <= req[h].found.at + 1 /\ req[h].found.at < req[h].found.end
       /\ req[h].found.row # None =>
            sub[req[h].found.row] # NoRow /\ sub[req[h].found.row].end <= req[h].found.end
  /\ req[h].op = "link" => sub[req[h].sub] # NoRow

\* Subscriptions are long enough for what was paid for them and, once it is
\* extended, for the payment under way.
LongEnough(R, P, h) ==
  ~disabled =>
    /\ \A r \in R : sub[r] # NoRow => sub[r].end - sub[r].start >= PaidFor(payment, Linked(P, r))
    /\ req[h].op = "extend" /\ req[h].by = "payment" =>
         LET found == req[h].found
         IN IF found.row = None THEN found.end - found.at >= payment[req[h].payment].months
            ELSE found.end - sub[found.row].end >= payment[req[h].payment].months
    /\ req[h].op = "link" =>
         LET row == sub[req[h].sub]
         IN row.end - row.start >=
              PaidFor(payment, Linked(P, req[h].sub)) + payment[req[h].payment].months

PayInv(O, A, R, P, M, h) ==
  /\ PayTyped(O, A, R, P, M, h)
  /\ Paid(h)
  /\ Longer(h)
  /\ LongEnough(R, P, h)

-----------------------------------------------------------------------------
(* Sums over finite sets of payments.                                      *)

\* A set of subsets of a finite set has a smallest member: the form in which the
\* proofs below are by induction over finite sets.
LEMMA SmallestSet ==
  ASSUME NEW S, IsFiniteSet(S), NEW B \in SUBSET (SUBSET S), B # {}
  PROVE  \E s \in B : \A t \in B : t \subseteq s => t = s
  <1>1. IsWellFoundedOn(StrictSubsetOrdering(S), SUBSET S)
    BY FS_StrictSubsetOrderingWellFounded, FS_FiniteSubsetsOfFinite
  <1>2. \E s \in B : \A t \in B : ~(<<t, s>> \in StrictSubsetOrdering(S))
    BY <1>1, WFMin
  <1> QED
    BY <1>2 DEF StrictSubsetOrdering

\* h sums up the months of the payments in each subset of S.
Additive(h, table, S) ==
  /\ \A x \in S : table[x].months \in Int
  /\ h \in [SUBSET S -> Int]
  /\ h[{}] = 0
  /\ \A s \in SUBSET S : \A x \in s : h[s] = table[x].months + h[s \ {x}]

LEMMA SumsExtend ==
  ASSUME NEW table, NEW S, NEW x, table[x].months \in Int, x \notin S,
         NEW h, Additive(h, table, S)
  PROVE  \E g : Additive(g, table, S \cup {x})
  <1> DEFINE T == S \cup {x}
             g == [s \in SUBSET T |-> IF x \in s THEN table[x].months + h[s \ {x}] ELSE h[s]]
  <1>1. \A s \in SUBSET T : s \ {x} \in SUBSET S
    OBVIOUS
  <1>2. \A s \in SUBSET T : x \notin s => s \in SUBSET S
    OBVIOUS
  <1>3. g \in [SUBSET T -> Int]
    BY <1>1, <1>2 DEF Additive
  <1>4. g[{}] = 0
    BY DEF Additive
  <1>5. ASSUME NEW s \in SUBSET T, NEW y \in s PROVE g[s] = table[y].months + g[s \ {y}]
    <2>1. s \ {y} \in SUBSET T
      OBVIOUS
    <2>2. CASE y = x
      <3>1. g[s] = table[x].months + h[s \ {x}]
        BY <2>2
      <3>2. g[s \ {y}] = h[s \ {x}]
        BY <2>1, <2>2
      <3> QED
        BY <2>2, <3>1, <3>2
    <2>3. CASE y # x /\ x \in s
      <3>1. g[s] = table[x].months + h[s \ {x}]
        BY <2>3
      <3>2. g[s \ {y}] = table[x].months + h[(s \ {y}) \ {x}]
        BY <2>1, <2>3
      <3>3. y \in s \ {x} /\ s \ {x} \in SUBSET S
        BY <1>1, <2>3
      <3>4. h[s \ {x}] = table[y].months + h[(s \ {x}) \ {y}]
        BY <3>3 DEF Additive
      <3>5. (s \ {x}) \ {y} = (s \ {y}) \ {x}
        OBVIOUS
      <3>6. /\ h[s \ {x}] \in Int /\ h[(s \ {x}) \ {y}] \in Int
        BY <3>3 DEF Additive
      <3>7. g[s] = table[x].months + (table[y].months + h[(s \ {x}) \ {y}])
        BY <3>1, <3>4
      <3>8. g[s \ {y}] = table[x].months + h[(s \ {x}) \ {y}]
        BY <3>2, <3>5
      <3>9. table[y].months \in Int
        BY <3>3 DEF Additive
      <3> QED
        BY <3>6, <3>7, <3>8, <3>9
    <2>4. CASE x \notin s
      <3>1. g[s] = h[s] /\ g[s \ {y}] = h[s \ {y}] /\ s \in SUBSET S
        BY <1>2, <2>1, <2>4
      <3> QED
        BY <3>1 DEF Additive
    <2> QED
      BY <2>2, <2>3, <2>4
  <1>6. \A y \in T : table[y].months \in Int
    BY DEF Additive
  <1> HIDE DEF g
  <1> QED
    BY <1>3, <1>4, <1>5, <1>6 DEF Additive

\* There is such a function,
LEMMA SumsExist ==
  ASSUME NEW table, NEW S, IsFiniteSet(S), \A x \in S : table[x].months \in Int
  PROVE  \E h : Additive(h, table, S)
  <1> DEFINE B == {s \in SUBSET S : ~ \E h : Additive(h, table, s)}
  <1> SUFFICES ASSUME B # {} PROVE FALSE
    OBVIOUS
  <1>0. B \in SUBSET (SUBSET S)
    OBVIOUS
  <1> HIDE DEF B
  <1>1. PICK s \in B : \A t \in B : t \subseteq s => t = s
    BY <1>0, SmallestSet
  <1> USE DEF B
  <1>2. CASE s = {}
    <2> DEFINE h == [t \in SUBSET {} |-> 0]
    <2>1. Additive(h, table, {})
      BY DEF Additive
    <2> QED
      BY <1>2, <2>1
  <1>3. CASE s # {}
    <2>1. PICK x : x \in s
      BY <1>3
    <2>2. s \ {x} \in SUBSET S /\ s \ {x} \notin B
      BY <1>1, <2>1
    <2>3. PICK h : Additive(h, table, s \ {x})
      BY <2>2
    <2>4. \E g : Additive(g, table, (s \ {x}) \cup {x})
      BY <2>1, <2>3, SumsExtend
    <2>5. (s \ {x}) \cup {x} = s
      BY <2>1
    <2> QED
      BY <2>4, <2>5
  <1> QED
    BY <1>2, <1>3

\* and the fold of MapThenSumSet, whatever order it chooses, is its value.
LEMMA SumIsAdditive ==
  ASSUME NEW table, NEW S, IsFiniteSet(S), NEW h, Additive(h, table, S)
  PROVE  PaidFor(table, S) = h[S]
  <1> DEFINE Pick(s) == CHOOSE x \in s : TRUE
             Steps(f) == [s \in SUBSET S |->
                            IF s = {} THEN 0 ELSE table[Pick(s)].months + f[s \ {Pick(s)}]]
  <1>1. PICK it : it = (CHOOSE f : f = Steps(f)) /\ PaidFor(table, S) = it[S]
    BY DEF PaidFor, Paying!MapThenSumSet, Paying!MapThenFoldSet
  <1>2. \A s \in SUBSET S : s # {} => Pick(s) \in s
    OBVIOUS
  <1>3. h = Steps(h)
    BY <1>2 DEF Additive
  <1>4. it = Steps(it)
    <2> HIDE DEF Steps
    <2>1. \E f : f = Steps(f)
      BY <1>3
    <2> QED
      BY <1>1, <2>1
  <1>5. it[{}] = 0 /\ \A s \in SUBSET S : s # {} => it[s] = table[Pick(s)].months + it[s \ {Pick(s)}]
    BY <1>4
  <1> HIDE DEF Pick
  <1> DEFINE B == {s \in SUBSET S : it[s] # h[s]}
  <1>6. B = {}
    <2> SUFFICES ASSUME B # {} PROVE FALSE
      OBVIOUS
    <2>0. B \in SUBSET (SUBSET S)
      OBVIOUS
    <2> HIDE DEF B
    <2>1. PICK s \in B : \A t \in B : t \subseteq s => t = s
      BY <2>0, SmallestSet
    <2> USE DEF B
    <2>2. s # {}
      BY <1>5, <2>1 DEF Additive
    <2>3. Pick(s) \in s /\ s \ {Pick(s)} \in SUBSET S /\ s \ {Pick(s)} # s
      BY <1>2, <2>2
    <2>4. it[s \ {Pick(s)}] = h[s \ {Pick(s)}]
      BY <2>1, <2>3
    <2>5. h[s] = table[Pick(s)].months + h[s \ {Pick(s)}]
      BY <2>3 DEF Additive
    <2> QED
      BY <1>5, <2>1, <2>2, <2>4, <2>5
  <1> QED
    BY <1>1, <1>6

\* Payments whose months can be summed up.
Summable(table, S) == IsFiniteSet(S) /\ \A x \in S : table[x].months \in Int

LEMMA SumType == ASSUME NEW table, NEW S, Summable(table, S) PROVE PaidFor(table, S) \in Int
  <1>1. PICK h : Additive(h, table, S)
    BY SumsExist DEF Summable
  <1>2. PaidFor(table, S) = h[S]
    BY <1>1, SumIsAdditive DEF Summable
  <1> QED
    BY <1>1, <1>2 DEF Additive

LEMMA SumEmpty == \A table : PaidFor(table, {}) = 0
  <1> SUFFICES ASSUME NEW table PROVE PaidFor(table, {}) = 0
    OBVIOUS
  <1>1. IsFiniteSet({})
    BY FS_EmptySet
  <1>2. PICK h : Additive(h, table, {})
    BY <1>1, SumsExist
  <1> QED
    BY <1>1, <1>2, SumIsAdditive DEF Additive

LEMMA SumAdd ==
  ASSUME NEW table, NEW S, NEW x, x \notin S, Summable(table, S), table[x].months \in Int
  PROVE  PaidFor(table, S \cup {x}) = PaidFor(table, S) + table[x].months
  <1> DEFINE T == S \cup {x}
  <1>1. IsFiniteSet(S) /\ IsFiniteSet(T) /\ \A y \in T : table[y].months \in Int
    BY FS_AddElement DEF Summable
  <1>2. PICK h : Additive(h, table, T)
    BY <1>1, SumsExist
  <1>3. PICK g : g = [s \in SUBSET S |-> h[s]]
    OBVIOUS
  <1>4. Additive(g, table, S)
    BY <1>2, <1>3 DEF Additive
  <1>5. PaidFor(table, T) = h[T] /\ PaidFor(table, S) = g[S]
    BY <1>1, <1>2, <1>4, SumIsAdditive
  <1>6. h[T] = table[x].months + h[T \ {x}] /\ h[T \ {x}] \in Int
    BY <1>2 DEF Additive
  <1>7. T \ {x} = S /\ g[S] = h[S]
    BY <1>3
  <1>8. PaidFor(table, T) = table[x].months + PaidFor(table, S) /\ PaidFor(table, S) \in Int
    BY <1>5, <1>6, <1>7
  <1> HIDE DEF T
  <1>9. PaidFor(table, T) = PaidFor(table, S) + table[x].months
    BY <1>8
  <1> QED
    BY <1>9 DEF T

\* A sum depends on the months it is of alone.
LEMMA SumAgrees ==
  ASSUME NEW table, NEW other, NEW S, Summable(table, S), \A x \in S : other[x].months = table[x].months
  PROVE  PaidFor(other, S) = PaidFor(table, S)
  <1>1. PICK h : Additive(h, table, S)
    BY SumsExist DEF Summable
  <1>2. Additive(h, other, S)
    BY <1>1 DEF Additive
  <1> QED
    BY <1>1, <1>2, SumIsAdditive DEF Summable

-----------------------------------------------------------------------------
(* Steps.                                                                  *)

LEMMA PayShapes ==
  ASSUME NEW O, NEW A, NEW R, NEW P, NEW M, NEW T, NEW h, PayNames(R, M, T), PayTyped(O, A, R, P, M, h)
  PROVE  /\ \A row \in SubRow(O, A) \cup PayRow(O, R, M) : row # NoRow
         /\ Idle.op = "idle"
         /\ req[h].op \in {"idle", "paid", "extend", "link", "trial"}
         /\ req[h].op = "idle" <=> req[h] = Idle
         /\ req[h].op = "paid" => req[h].user \in O /\ req[h].payment \in P /\ req[h].at \in Nat
         /\ req[h].op = "extend" =>
              /\ req[h].found \in FoundRow(O, R) /\ req[h].by \in {"payment", "code", "voucher"}
              /\ req[h].trial \in BOOLEAN
              /\ req[h].by = "payment" => req[h].payment \in P
         /\ req[h].op = "link" => req[h].sub \in R /\ req[h].payment \in P
         /\ req[h].op = "trial" => req[h].user \in O \cup {A}
  <1>1. \A row \in SubRow(O, A) \cup PayRow(O, R, M) : row # NoRow
    BY DEF SubRow, PayRow, NoRow
  <1>2. Idle.op = "idle"
    BY DEF Idle
  <1>3. req[h] \in PayRecord(O, A, R, P) \cup {Idle}
    BY DEF PayTyped
  <1>4. req[h].op \in {"idle", "paid", "extend", "link", "trial"}
    BY <1>2, <1>3 DEF PayRecord
  <1>5. req[h].op = "idle" <=> req[h] = Idle
    BY <1>2, <1>3 DEF PayRecord
  <1>6. req[h].op = "paid" => req[h].user \in O /\ req[h].payment \in P /\ req[h].at \in Nat
    BY <1>2, <1>3 DEF PayRecord
  <1>7. req[h].op = "extend" =>
              /\ req[h].found \in FoundRow(O, R) /\ req[h].by \in {"payment", "code", "voucher"}
              /\ req[h].by = "payment" => req[h].payment \in P
    BY <1>2, <1>3 DEF PayRecord
  <1>8. req[h].op = "extend" => req[h].trial \in BOOLEAN
    BY <1>2, <1>3 DEF PayRecord
  <1>9. req[h].op = "link" => req[h].sub \in R /\ req[h].payment \in P
    BY <1>2, <1>3 DEF PayRecord
  <1>10. req[h].op = "trial" => req[h].user \in O \cup {A}
    BY <1>2, <1>3 DEF PayRecord
  <1> QED
    BY <1>1, <1>2, <1>4, <1>5, <1>6, <1>7, <1>8, <1>9, <1>10

\* The months paid for a subscription are a sum.
LEMMA PaidSums ==
  ASSUME NEW O, NEW A, NEW R, NEW P, NEW M, NEW T, NEW h, PayNames(R, M, T), PayTyped(O, A, R, P, M, h),
         NEW r \in R
  PROVE  /\ Summable(payment, Linked(P, r))
         /\ PaidFor(payment, Linked(P, r)) \in Int
         /\ sub[r] = NoRow => PaidFor(payment, Linked(P, r)) = 0
  <1>1. Summable(payment, Linked(P, r))
    <2>1. IsFiniteSet(Linked(P, r))
      BY DEF PayTyped
    <2>2. \A p \in Linked(P, r) : payment[p] \in PayRow(O, R, M)
      BY DEF Linked, PayTyped
    <2>3. \A p \in Linked(P, r) : payment[p].months \in M
      BY <2>2 DEF PayRow
    <2>5. \A m \in M : m \in Int
      BY DEF PayNames
    <2>4. \A p \in Linked(P, r) : payment[p].months \in Int
      BY <2>3, <2>5
    <2> QED
      BY <2>1, <2>4 DEF Summable
  <1>2. PaidFor(payment, Linked(P, r)) \in Int
    BY <1>1, SumType
  <1>3. ASSUME sub[r] = NoRow PROVE Linked(P, r) = {}
    BY <1>3 DEF Linked, PayTyped, PayNames
  <1> QED
    BY <1>1, <1>2, <1>3, SumEmpty

\* A handler reads, or gives up: the tables stay.
LEMMA PayReadKeeps ==
  ASSUME NEW O, NEW A, NEW R, NEW P, NEW M, NEW T, NEW h, PayNames(R, M, T), PayInv(O, A, R, P, M, h),
         NEW record \in PayRecord(O, A, R, P) \cup {Idle}, req' = [req EXCEPT ![h] = record],
         UNCHANGED <<sub, payment, disabled, now>>,
         record.op \in {"idle", "trial", "extend"},
         record.op = "extend" =>
           /\ now <= record.found.at + 1 /\ record.found.at < record.found.end
           /\ record.found.row # None =>
                sub[record.found.row] # NoRow /\ sub[record.found.row].end <= record.found.end
           /\ record.by = "payment" =>
                /\ payment[record.payment] # NoRow /\ payment[record.payment].sub = None
                /\ IF record.found.row = None
                   THEN record.found.end - record.found.at >= payment[record.payment].months
                   ELSE record.found.end - sub[record.found.row].end >= payment[record.payment].months
  PROVE  PayInv(O, A, R, P, M, h)'
  <1>1. req' \in [{h} -> PayRecord(O, A, R, P) \cup {Idle}] /\ req'[h] = record
    BY DEF PayInv, PayTyped
  <1>2. \A r : Linked(P, r)' = Linked(P, r)
    BY DEF Linked
  <1>3. PayTyped(O, A, R, P, M, h)'
    BY <1>1, <1>2 DEF PayInv, PayTyped
  <1>4. Paid(h)' /\ Longer(h)'
    BY <1>1 DEF Paid, Longer
  <1>5. LongEnough(R, P, h)'
    BY <1>1, <1>2 DEF PayInv, LongEnough
  <1> QED
    BY <1>3, <1>4, <1>5 DEF PayInv

\* A row is written that is new, or is extended: it is as long as what was paid
\* for it and, if it was extended for a payment, as that.
LEMMA SubWrittenKeeps ==
  ASSUME NEW O, NEW A, NEW R, NEW P, NEW M, NEW T, NEW h, PayNames(R, M, T), PayInv(O, A, R, P, M, h),
         NEW s \in R, NEW row \in SubRow(O, A), sub' = [sub EXCEPT ![s] = row],
         NEW record \in PayRecord(O, A, R, P) \cup {Idle}, req' = [req EXCEPT ![h] = record],
         UNCHANGED <<payment, disabled, now>>,
         ~disabled => row.end - row.start >= PaidFor(payment, Linked(P, s)),
         \/ record = Idle
         \/ record = req[h] /\ sub[s] = NoRow
         \/ /\ record.op = "link" /\ record.sub = s
            /\ payment[record.payment] # NoRow /\ payment[record.payment].sub = None
            /\ ~disabled =>
                 row.end - row.start >= PaidFor(payment, Linked(P, s)) + payment[record.payment].months
  PROVE  PayInv(O, A, R, P, M, h)'
  <1>1. req' \in [{h} -> PayRecord(O, A, R, P) \cup {Idle}] /\ req'[h] = record
    BY DEF PayInv, PayTyped
  <1>2. \A r : Linked(P, r)' = Linked(P, r)
    BY DEF Linked
  <1>3. /\ sub' \in [R -> SubRow(O, A) \cup {NoRow}] /\ sub'[s] = row /\ row # NoRow
        /\ \A r \in R : r # s => sub'[r] = sub[r]
    BY DEF PayInv, PayTyped, SubRow, NoRow
  <1>4. PayTyped(O, A, R, P, M, h)'
    <2>1. \A p \in P : payment[p] # NoRow => payment[p].sub \in R \cup {None}
      BY DEF PayInv, PayTyped, PayRow
    <2> QED
      BY <1>1, <1>2, <1>3, <2>1 DEF PayInv, PayTyped
  <1>5. CASE record = Idle
    <2>1. record.op = "idle"
      BY <1>5 DEF Idle
    <2>2. Paid(h)' /\ Longer(h)'
      BY <1>1, <2>1 DEF Paid, Longer
    <2>3. LongEnough(R, P, h)'
      BY <1>1, <1>2, <1>3, <2>1 DEF PayInv, LongEnough
    <2> QED
      BY <1>4, <2>2, <2>3 DEF PayInv
  <1>6. CASE record = req[h] /\ sub[s] = NoRow
    <2>1. req[h].op = "extend" => req[h].found.row \in R \cup {None}
      BY PayShapes DEF PayInv, FoundRow
    <2>2. req[h].op = "link" => req[h].sub \in R
      BY PayShapes DEF PayInv
    <2>3. Paid(h)' /\ Longer(h)'
      BY <1>1, <1>3, <1>6, <2>1, <2>2 DEF PayInv, Paid, Longer
    <2>4. LongEnough(R, P, h)'
      BY <1>1, <1>2, <1>3, <1>6, <2>1, <2>2 DEF PayInv, LongEnough, Longer
    <2> QED
      BY <1>4, <2>3, <2>4 DEF PayInv
  <1>7. CASE /\ record.op = "link" /\ record.sub = s
             /\ payment[record.payment] # NoRow /\ payment[record.payment].sub = None
             /\ ~disabled =>
                  row.end - row.start >= PaidFor(payment, Linked(P, s)) + payment[record.payment].months
    <2>1. Paid(h)' /\ Longer(h)'
      BY <1>1, <1>3, <1>7 DEF Paid, Longer
    <2>2. LongEnough(R, P, h)'
      BY <1>1, <1>2, <1>3, <1>7 DEF PayInv, LongEnough
    <2> QED
      BY <1>4, <2>1, <2>2 DEF PayInv
  <1> QED
    BY <1>5, <1>6, <1>7

LEMMA CheckoutPayKeeps ==
  ASSUME NEW O, NEW A, NEW R, NEW P, NEW M, NEW T, NEW L, NEW h, PayNames(R, M, T),
         PayInv(O, A, R, P, M, h), Pays(O, A, R, P, M, T, L, h)!CheckoutPay(h)
  PROVE  PayInv(O, A, R, P, M, h)'
  <1>1. PICK u \in O, p \in P, months \in M :
          /\ payment[p] = NoRow
          /\ payment' = [payment EXCEPT ![p] = [user |-> u, months |-> months, sub |-> None]]
          /\ req' = [req EXCEPT ![h] = [op |-> "paid", user |-> u, payment |-> p, at |-> now]]
    BY DEF Pays!CheckoutPay, Pays!Go, Pays!NoRow, NoRow
  <1>2. UNCHANGED <<sub, disabled, now>>
    BY DEF Pays!CheckoutPay
  <1>3. PICK new \in PayRow(O, R, M) :
          new = [user |-> u, months |-> months, sub |-> None] /\ new.sub = None /\ new # NoRow
    <2>1. [user |-> u, months |-> months, sub |-> None] \in PayRow(O, R, M)
      BY DEF PayRow
    <2> QED
      BY <2>1, PayShapes DEF PayInv
  <1>4. PICK record \in PayRecord(O, A, R, P) :
          /\ record = [op |-> "paid", user |-> u, payment |-> p, at |-> now]
          /\ record.op = "paid" /\ record.payment = p /\ record.at = now
    <2>1. now \in Nat
      BY DEF PayInv, PayTyped
    <2>2. [op |-> "paid", user |-> u, payment |-> p, at |-> now] \in PayRecord(O, A, R, P)
      BY <2>1 DEF PayRecord
    <2> QED
      BY <2>2
  <1>5. req' \in [{h} -> PayRecord(O, A, R, P) \cup {Idle}] /\ req'[h] = record
    BY <1>1, <1>4 DEF PayInv, PayTyped
  <1>6. /\ payment' \in [P -> PayRow(O, R, M) \cup {NoRow}] /\ payment'[p] = new
        /\ \A q \in P : q # p => payment'[q] = payment[q]
    BY <1>1, <1>3 DEF PayInv, PayTyped
  <1>7. \A r \in R : Linked(P, r)' = Linked(P, r)
    BY <1>1, <1>3, <1>6 DEF Linked, PayNames
  <1>8. \A r \in R : PaidFor(payment', Linked(P, r)) = PaidFor(payment, Linked(P, r))
    <2> TAKE r \in R
    <2>1. Summable(payment, Linked(P, r))
      BY PaidSums DEF PayInv
    <2>2. \A q \in Linked(P, r) : payment'[q].months = payment[q].months
      BY <1>1, <1>6 DEF Linked
    <2> QED
      BY <2>1, <2>2, SumAgrees
  <1>9. PayTyped(O, A, R, P, M, h)'
    BY <1>2, <1>3, <1>5, <1>6, <1>7 DEF PayInv, PayTyped
  <1>10. Paid(h)'
    BY <1>3, <1>4, <1>5, <1>6 DEF Paid
  <1>11. Longer(h)'
    BY <1>2, <1>4, <1>5 DEF Longer, PayInv, PayTyped
  <1>12. LongEnough(R, P, h)'
    BY <1>2, <1>4, <1>5, <1>7, <1>8 DEF PayInv, LongEnough
  <1> QED
    BY <1>9, <1>10, <1>11, <1>12 DEF PayInv

\* The payment is linked to the row that was extended for it.
LEMMA CheckoutLinkKeeps ==
  ASSUME NEW O, NEW A, NEW R, NEW P, NEW M, NEW T, NEW L, NEW h, PayNames(R, M, T),
         PayInv(O, A, R, P, M, h), Pays(O, A, R, P, M, T, L, h)!CheckoutLink(h)
  PROVE  PayInv(O, A, R, P, M, h)'
  <1>1. /\ req[h].op = "link" /\ req' = [req EXCEPT ![h] = Idle]
        /\ payment' = [payment EXCEPT ![req[h].payment].sub = req[h].sub]
        /\ UNCHANGED <<sub, disabled, now>>
    BY DEF Pays!CheckoutLink, Pays!Finish, Pays!Go, Pays!Idle, Idle
  <1>2. PICK p \in P, s \in R : p = req[h].payment /\ s = req[h].sub
    BY <1>1, PayShapes DEF PayInv
  <1>3. payment[p] \in PayRow(O, R, M) /\ payment[p] # NoRow /\ payment[p].sub = None /\ sub[s] # NoRow
    BY <1>1, <1>2 DEF PayInv, PayTyped, Paid, Longer
  <1>4. PICK new \in PayRow(O, R, M) :
          new = [payment[p] EXCEPT !.sub = s] /\ new.sub = s /\ new # NoRow /\ new.months = payment[p].months
    <2>1. [payment[p] EXCEPT !.sub = s] \in PayRow(O, R, M)
      BY <1>3 DEF PayRow
    <2>2. [payment[p] EXCEPT !.sub = s].sub = s /\ [payment[p] EXCEPT !.sub = s].months = payment[p].months
      BY <1>3 DEF PayRow
    <2>3. \A row \in PayRow(O, R, M) : row # NoRow
      BY PayShapes DEF PayInv
    <2> QED
      BY <2>1, <2>2, <2>3
  <1>5. /\ payment' \in [P -> PayRow(O, R, M) \cup {NoRow}] /\ payment'[p] = new
        /\ \A q \in P : q # p => payment'[q] = payment[q]
    BY <1>1, <1>2, <1>4 DEF PayInv, PayTyped
  <1>6. req' \in [{h} -> PayRecord(O, A, R, P) \cup {Idle}] /\ req'[h] = Idle /\ req'[h].op = "idle"
    BY <1>1 DEF PayInv, PayTyped, Idle
  <1>7. /\ Linked(P, s)' = Linked(P, s) \cup {p} /\ p \notin Linked(P, s)
        /\ \A r \in R : r # s => Linked(P, r)' = Linked(P, r)
    BY <1>3, <1>4, <1>5 DEF Linked, PayNames
  <1>8. \A q \in P : payment'[q].months = payment[q].months
    BY <1>4, <1>5
  <1>9. \A r \in R : IsFiniteSet(Linked(P, r)')
    BY <1>7, FS_AddElement DEF PayInv, PayTyped
  <1>10. ASSUME NEW r \in R, r # s
         PROVE  PaidFor(payment, Linked(P, r))' = PaidFor(payment, Linked(P, r))
    <2>1. Summable(payment, Linked(P, r))
      BY PaidSums DEF PayInv
    <2>2. \A q \in Linked(P, r) : payment'[q].months = payment[q].months
      BY <1>8 DEF Linked
    <2>3. PaidFor(payment', Linked(P, r)) = PaidFor(payment, Linked(P, r))
      BY <2>1, <2>2, SumAgrees
    <2> QED
      BY <1>7, <1>10, <2>3
  <1>11. PaidFor(payment, Linked(P, s))' = PaidFor(payment, Linked(P, s)) + payment[p].months
    <2>1. Summable(payment, Linked(P, s))
      BY PaidSums DEF PayInv
    <2>2. payment[p].months \in Int
      BY <1>3 DEF PayRow, PayNames
    <2>3. PaidFor(payment, Linked(P, s) \cup {p}) = PaidFor(payment, Linked(P, s)) + payment[p].months
      BY <1>7, <2>1, <2>2, SumAdd
    <2>4. Summable(payment, Linked(P, s) \cup {p})
      BY <2>1, <2>2, FS_AddElement DEF Summable
    <2>5. \A q \in Linked(P, s) \cup {p} : payment'[q].months = payment[q].months
      BY <1>8 DEF Linked
    <2>6. PaidFor(payment', Linked(P, s) \cup {p}) = PaidFor(payment, Linked(P, s) \cup {p})
      BY <2>4, <2>5, SumAgrees
    <2> QED
      BY <1>7, <2>3, <2>6
  <1>12. PayTyped(O, A, R, P, M, h)'
    <2>1. \A q \in P : payment'[q] # NoRow /\ payment'[q].sub # None => sub[payment'[q].sub] # NoRow
      BY <1>3, <1>4, <1>5 DEF PayInv, PayTyped
    <2> QED
      BY <1>1, <1>5, <1>6, <1>9, <2>1 DEF PayInv, PayTyped
  <1>13. Paid(h)' /\ Longer(h)'
    BY <1>6 DEF Paid, Longer
  <1>14. LongEnough(R, P, h)'
    <2>1. ASSUME ~disabled', NEW r \in R, sub'[r] # NoRow
          PROVE  sub'[r].end - sub'[r].start >= PaidFor(payment, Linked(P, r))'
      <3>1. CASE r = s
        BY <1>1, <1>2, <1>11, <2>1, <3>1 DEF PayInv, LongEnough
      <3>2. CASE r # s
        BY <1>1, <1>10, <2>1, <3>2 DEF PayInv, LongEnough
      <3> QED
        BY <3>1, <3>2
    <2> QED
      BY <1>6, <2>1 DEF LongEnough
  <1> QED
    BY <1>12, <1>13, <1>14 DEF PayInv

\* What is found, extended or created, ends later than it did or than now.
LEMMA FoundFits ==
  ASSUME NEW O, NEW A, NEW R, NEW P, NEW M, NEW T, NEW L, NEW h, PayNames(R, M, T),
         PayInv(O, A, R, P, M, h),
         NEW u \in O, NEW at \in Nat, NEW months \in M, at <= now, now <= at + 1,
         NEW live, \A r \in live : r \in R /\ sub[r] # NoRow,
         NEW found \in Pays(O, A, R, P, M, T, L, h)!Found(u, live, at, months)
  PROVE  /\ found \in FoundRow(O, R)
         /\ found.at = at /\ at < found.end
         /\ found.row = None => found.end = at + months
         /\ found.row # None =>
              /\ found.row \in live /\ sub[found.row] # NoRow
              /\ sub[found.row].end <= found.end /\ found.end - sub[found.row].end >= months
  <1>1. months \in Nat /\ months >= 1
    BY DEF PayNames
  <1>2. CASE live = {}
    <2>1. found = [row |-> None, user |-> u, at |-> at, end |-> at + months]
      BY <1>2 DEF Pays!Found
    <2> QED
      BY <1>1, <2>1 DEF FoundRow
  <1>3. CASE live # {}
    <2>1. PICK r \in live :
            found = [row |-> r, user |-> u, at |-> at,
                     end |-> Pays(O, A, R, P, M, T, L, h)!NewEnd(r, at, months)]
      BY <1>3 DEF Pays!Found, Pays!Latest
    <2>2. r \in R /\ sub[r] # NoRow /\ sub[r].end \in Nat /\ r # None
      BY DEF PayInv, PayTyped, SubRow, PayNames
    <2>3. Pays(O, A, R, P, M, T, L, h)!NewEnd(r, at, months)
            = (IF at > sub[r].end THEN at ELSE sub[r].end) + months
      BY DEF Pays!NewEnd, Pays!Larger
    <2> QED
      BY <1>1, <2>1, <2>2, <2>3 DEF FoundRow
  <1> QED
    BY <1>2, <1>3

LEMMA CheckoutReadKeeps ==
  ASSUME NEW O, NEW A, NEW R, NEW P, NEW M, NEW T, NEW L, NEW h, PayNames(R, M, T),
         PayInv(O, A, R, P, M, h), Pays(O, A, R, P, M, T, L, h)!CheckoutRead(h)
  PROVE  PayInv(O, A, R, P, M, h)'
  <1>1. req[h].op = "paid" /\ UNCHANGED <<sub, payment, disabled, now>>
    BY DEF Pays!CheckoutRead
  <1>2. PICK live : live = Pays(O, A, R, P, M, T, L, h)!LiveRows(req[h].user)
    OBVIOUS
  <1>3. PICK found \in Pays(O, A, R, P, M, T, L, h)!Found(req[h].user, live, req[h].at,
                                                           payment[req[h].payment].months) :
          req' = [req EXCEPT ![h] = [op |-> "extend", found |-> found, by |-> "payment",
                                     payment |-> req[h].payment, trial |-> FALSE]]
    BY <1>2 DEF Pays!CheckoutRead, Pays!Go
  <1>4. \A r \in live : r \in R /\ sub[r] # NoRow
    BY <1>2 DEF Pays!LiveRows, Pays!Rows, Pays!NoRow, NoRow
  <1>5. /\ req[h].user \in O /\ req[h].payment \in P /\ req[h].at \in Nat
        /\ req[h].at <= now /\ now <= req[h].at + 1
    BY <1>1, PayShapes DEF PayInv, Longer
  <1>6. /\ payment[req[h].payment] # NoRow /\ payment[req[h].payment].sub = None
        /\ payment[req[h].payment].months \in M
    BY <1>1, <1>5 DEF PayInv, PayTyped, Paid, PayRow
  <1>7. /\ found \in FoundRow(O, R)
        /\ found.at = req[h].at /\ req[h].at < found.end
        /\ found.row = None => found.end = req[h].at + payment[req[h].payment].months
        /\ found.row # None =>
             /\ found.row \in live /\ sub[found.row] # NoRow
             /\ sub[found.row].end <= found.end
             /\ found.end - sub[found.row].end >= payment[req[h].payment].months
    BY <1>3, <1>4, <1>5, <1>6, FoundFits
  <1>8. PICK record \in PayRecord(O, A, R, P) \cup {Idle} :
          /\ record = [op |-> "extend", found |-> found, by |-> "payment", payment |-> req[h].payment,
                       trial |-> FALSE]
          /\ record.op = "extend" /\ record.found = found /\ record.by = "payment"
          /\ record.payment = req[h].payment
    <2>1. [op |-> "extend", found |-> found, by |-> "payment", payment |-> req[h].payment, trial |-> FALSE]
            \in PayRecord(O, A, R, P)
      BY <1>5, <1>7 DEF PayRecord
    <2> QED
      BY <2>1
  <1>9. payment[req[h].payment].months \in Nat
    BY <1>6 DEF PayNames
  <1>10. IF found.row = None THEN found.end - found.at >= payment[req[h].payment].months
         ELSE found.end - sub[found.row].end >= payment[req[h].payment].months
    BY <1>5, <1>7, <1>9
  <1>11. req' = [req EXCEPT ![h] = record]
    BY <1>3, <1>8
  <1>12. /\ now <= record.found.at + 1 /\ record.found.at < record.found.end
         /\ record.found.row # None =>
              sub[record.found.row] # NoRow /\ sub[record.found.row].end <= record.found.end
         /\ record.by = "payment" =>
              /\ payment[record.payment] # NoRow /\ payment[record.payment].sub = None
              /\ IF record.found.row = None
                 THEN record.found.end - record.found.at >= payment[record.payment].months
                 ELSE record.found.end - sub[record.found.row].end >= payment[record.payment].months
    BY <1>5, <1>6, <1>7, <1>8, <1>10
  <1> QED
    BY <1>1, <1>8, <1>11, <1>12, PayReadKeeps

\* redeemCode or redeem.
LEMMA CodeReadKeeps ==
  ASSUME NEW O, NEW A, NEW R, NEW P, NEW M, NEW T, NEW L, NEW h, PayNames(R, M, T),
         PayInv(O, A, R, P, M, h),
         \/ Pays(O, A, R, P, M, T, L, h)!CodeRead(h)
         \/ Pays(O, A, R, P, M, T, L, h)!VoucherRead(h)
  PROVE  PayInv(O, A, R, P, M, h)'
  <1>1. UNCHANGED <<sub, payment, disabled, now>>
    BY DEF Pays!CodeRead, Pays!VoucherRead
  <1>2. PICK u \in O, months \in M, trial \in BOOLEAN, by \in {"code", "voucher"},
            live \in SUBSET R :
          /\ \A r \in live : sub[r] # NoRow
          /\ \E found \in Pays(O, A, R, P, M, T, L, h)!Found(u, live, now, months) :
               req' = [req EXCEPT ![h] = [op |-> "extend", found |-> found, by |-> by, payment |-> None,
                                          trial |-> trial]]
    <2>1. CASE Pays(O, A, R, P, M, T, L, h)!CodeRead(h)
      <3>1. PICK u \in O, months \in M, trial \in BOOLEAN :
              \E found \in Pays(O, A, R, P, M, T, L, h)!Found(u, Pays(O, A, R, P, M, T, L, h)!LiveRows(u),
                                                               now, months) :
                req' = [req EXCEPT ![h] = [op |-> "extend", found |-> found, by |-> "code",
                                           payment |-> None, trial |-> trial]]
        BY <2>1 DEF Pays!CodeRead, Pays!Go
      <3>2. \A r \in Pays(O, A, R, P, M, T, L, h)!LiveRows(u) : r \in R /\ sub[r] # NoRow
        BY DEF Pays!LiveRows, Pays!Rows, Pays!NoRow, NoRow
      <3> QED
        BY <3>1, <3>2
    <2>2. CASE Pays(O, A, R, P, M, T, L, h)!VoucherRead(h)
      <3> DEFINE All(u) == {r \in R : sub[r] # NoRow /\ sub[r].user = u}
      <3>1. \A u : {r \in Pays(O, A, R, P, M, T, L, h)!Rows : sub[r].user = u} = All(u)
        BY DEF Pays!Rows, Pays!NoRow, NoRow
      <3>2. PICK u \in O, months \in M, trial \in BOOLEAN :
              \E found \in Pays(O, A, R, P, M, T, L, h)!Found(
                             u, {r \in Pays(O, A, R, P, M, T, L, h)!Rows : sub[r].user = u}, now, months) :
                req' = [req EXCEPT ![h] = [op |-> "extend", found |-> found, by |-> "voucher",
                                           payment |-> None, trial |-> trial]]
        BY <2>2 DEF Pays!VoucherRead, Pays!Go
      <3>3. PICK live : live = {r \in Pays(O, A, R, P, M, T, L, h)!Rows : sub[r].user = u}
        OBVIOUS
      <3>4. live = All(u)
        BY <3>1, <3>3
      <3> HIDE DEF All
      <3>5. \E found \in Pays(O, A, R, P, M, T, L, h)!Found(u, live, now, months) :
                req' = [req EXCEPT ![h] = [op |-> "extend", found |-> found, by |-> "voucher",
                                           payment |-> None, trial |-> trial]]
        BY <3>2, <3>3
      <3>6. live \in SUBSET R /\ \A r \in live : sub[r] # NoRow
        BY <3>4 DEF All
      <3> QED
        BY <3>5, <3>6
    <2> QED
      BY <2>1, <2>2
  <1>3. PICK found \in Pays(O, A, R, P, M, T, L, h)!Found(u, live, now, months) :
          req' = [req EXCEPT ![h] = [op |-> "extend", found |-> found, by |-> by, payment |-> None,
                                     trial |-> trial]]
    BY <1>2
  <1>4. now \in Nat /\ now <= now /\ now <= now + 1
    BY DEF PayInv, PayTyped
  <1>5. /\ found \in FoundRow(O, R)
        /\ found.at = now /\ now < found.end
        /\ found.row # None => sub[found.row] # NoRow /\ sub[found.row].end <= found.end
    BY <1>2, <1>3, <1>4, FoundFits
  <1>6. PICK record \in PayRecord(O, A, R, P) \cup {Idle} :
          /\ record = [op |-> "extend", found |-> found, by |-> by, payment |-> None, trial |-> trial]
          /\ record.op = "extend" /\ record.found = found /\ record.by # "payment"
    <2>1. [op |-> "extend", found |-> found, by |-> by, payment |-> None, trial |-> trial]
            \in PayRecord(O, A, R, P)
      BY <1>5 DEF PayRecord
    <2> QED
      BY <2>1
  <1>7. req' = [req EXCEPT ![h] = record]
    BY <1>3, <1>6
  <1> QED
    BY <1>1, <1>4, <1>5, <1>6, <1>7, PayReadKeeps

\* A row is created or extended.
LEMMA ExtendKeeps ==
  ASSUME NEW O, NEW A, NEW R, NEW P, NEW M, NEW T, NEW L, NEW h, PayNames(R, M, T),
         PayInv(O, A, R, P, M, h), Pays(O, A, R, P, M, T, L, h)!Extend(h)
  PROVE  PayInv(O, A, R, P, M, h)'
  <1> DEFINE after(r) == IF req[h].by = "payment"
                         THEN [op |-> "link", sub |-> r, payment |-> req[h].payment] ELSE Idle
  <1>1. req[h].op = "extend" /\ UNCHANGED <<payment, disabled, now>>
    BY DEF Pays!Extend
  <1>2. PICK found \in FoundRow(O, R), trial \in BOOLEAN : found = req[h].found /\ trial = req[h].trial
    BY <1>1, PayShapes DEF PayInv
  <1>3. /\ found.user \in O /\ found.at \in Nat /\ found.end \in Nat /\ found.row \in R \cup {None}
        /\ found.at < found.end
        /\ found.row # None => sub[found.row] # NoRow /\ sub[found.row].end <= found.end
    BY <1>1, <1>2 DEF FoundRow, PayInv, Longer
  <1>4. req[h].by = "payment" =>
          /\ req[h].payment \in P
          /\ payment[req[h].payment] # NoRow /\ payment[req[h].payment].sub = None
          /\ payment[req[h].payment].months \in Nat
          /\ ~disabled => IF found.row = None THEN found.end - found.at >= payment[req[h].payment].months
                          ELSE found.end - sub[found.row].end >= payment[req[h].payment].months
    <2> SUFFICES ASSUME req[h].by = "payment" PROVE
          /\ req[h].payment \in P
          /\ payment[req[h].payment] # NoRow /\ payment[req[h].payment].sub = None
          /\ payment[req[h].payment].months \in Nat
          /\ ~disabled => IF found.row = None THEN found.end - found.at >= payment[req[h].payment].months
                          ELSE found.end - sub[found.row].end >= payment[req[h].payment].months
      OBVIOUS
    <2>1. req[h].payment \in P /\ payment[req[h].payment] # NoRow /\ payment[req[h].payment].sub = None
      BY <1>1, PayShapes DEF PayInv, Paid
    <2>2. payment[req[h].payment].months \in M
      BY <2>1 DEF PayInv, PayTyped, PayRow
    <2>3. payment[req[h].payment].months \in Nat
      BY <2>2 DEF PayNames
    <2>4. ~disabled => IF found.row = None THEN found.end - found.at >= payment[req[h].payment].months
                       ELSE found.end - sub[found.row].end >= payment[req[h].payment].months
      BY <1>1, <1>2 DEF PayInv, LongEnough
    <2> QED
      BY <2>1, <2>3, <2>4
  <1>5. PICK s \in R, row \in SubRow(O, A) :
          /\ sub' = [sub EXCEPT ![s] = row]
          /\ req' = [req EXCEPT ![h] = after(s)]
          /\ ~disabled => row.end - row.start >= PaidFor(payment, Linked(P, s))
          /\ ~disabled /\ req[h].by = "payment" =>
               row.end - row.start >= PaidFor(payment, Linked(P, s)) + payment[req[h].payment].months
    <2>1. CASE found.row = None
      <3>1. PICK s \in R : /\ sub[s] = NoRow
                           /\ sub' = [sub EXCEPT ![s] = [user |-> found.user,
                                 status |-> IF trial THEN "TRIAL" ELSE "ACTIVE",
                                 trial |-> trial, start |-> found.at, end |-> found.end]]
                           /\ req' = [req EXCEPT ![h] = after(s)]
        BY <1>2, <2>1 DEF Pays!Extend, Pays!Create, Pays!Go, Pays!Finish, Pays!Idle, Idle, Pays!NoRow, NoRow
      <3>2. PICK row \in SubRow(O, A) :
              /\ row = [user |-> found.user, status |-> IF trial THEN "TRIAL" ELSE "ACTIVE",
                        trial |-> trial, start |-> found.at, end |-> found.end]
              /\ row.start = found.at /\ row.end = found.end
        <4>1. [user |-> found.user, status |-> IF trial THEN "TRIAL" ELSE "ACTIVE",
               trial |-> trial, start |-> found.at, end |-> found.end] \in SubRow(O, A)
          BY <1>3 DEF SubRow
        <4> QED
          BY <4>1
      <3>3. PaidFor(payment, Linked(P, s)) = 0
        BY <3>1, PaidSums DEF PayInv
      <3>4. sub' = [sub EXCEPT ![s] = row]
        BY <3>1, <3>2
      <3>5. ~disabled => row.end - row.start >= PaidFor(payment, Linked(P, s))
        BY <1>3, <3>2, <3>3
      <3>6. ~disabled /\ req[h].by = "payment" =>
               row.end - row.start >= PaidFor(payment, Linked(P, s)) + payment[req[h].payment].months
        BY <1>3, <1>4, <2>1, <3>2, <3>3
      <3> QED
        BY <3>1, <3>4, <3>5, <3>6
    <2>2. CASE found.row # None
      <3>1. PICK s \in R : s = found.row
        BY <1>3, <2>2
      <3>2. sub[s] \in SubRow(O, A)
        BY <1>3, <2>2, <3>1 DEF PayInv, PayTyped
      <3>3. PICK row \in SubRow(O, A) :
              /\ sub' = [sub EXCEPT ![s] = row]
              /\ row.start = sub[s].start /\ row.end = found.end
        <4>1. CASE req[h].by = "voucher"
          <5>1. [[sub[s] EXCEPT !.status = "ACTIVE", !.end = found.end] EXCEPT !.trial = trial] \in SubRow(O, A)
            BY <1>3, <3>2, Zenon DEF SubRow
          <5>2. /\ [[sub[s] EXCEPT !.status = "ACTIVE", !.end = found.end] EXCEPT !.trial = trial].start = sub[s].start
                /\ [[sub[s] EXCEPT !.status = "ACTIVE", !.end = found.end] EXCEPT !.trial = trial].end = found.end
            BY <3>2 DEF SubRow
          <5>3. sub' = [sub EXCEPT ![s] =
                         [[sub[s] EXCEPT !.status = "ACTIVE", !.end = found.end] EXCEPT !.trial = trial]]
            BY <1>2, <2>2, <3>1, <4>1 DEF Pays!Extend, Pays!Extended
          <5> QED
            BY <5>1, <5>2, <5>3
        <4>2. CASE req[h].by # "voucher"
          <5>1. [sub[s] EXCEPT !.status = "ACTIVE", !.end = found.end] \in SubRow(O, A)
            BY <1>3, <3>2, Zenon DEF SubRow
          <5>2. /\ [sub[s] EXCEPT !.status = "ACTIVE", !.end = found.end].start = sub[s].start
                /\ [sub[s] EXCEPT !.status = "ACTIVE", !.end = found.end].end = found.end
            BY <3>2 DEF SubRow
          <5>3. sub' = [sub EXCEPT ![s] = [sub[s] EXCEPT !.status = "ACTIVE", !.end = found.end]]
            BY <1>2, <2>2, <3>1, <4>2 DEF Pays!Extend, Pays!Extended
          <5> QED
            BY <5>1, <5>2, <5>3
        <4> QED
          BY <4>1, <4>2
      <3>4. req' = [req EXCEPT ![h] = after(s)]
        BY <1>2, <2>2, <3>1 DEF Pays!Extend, Pays!Go, Pays!Finish, Pays!Idle, Idle
      <3>5. /\ sub[s].start \in Nat /\ sub[s].end \in Nat /\ sub[s].end <= found.end
            /\ sub[s] # NoRow
        BY <1>3, <2>2, <3>1, <3>2 DEF SubRow
      <3>6. /\ PaidFor(payment, Linked(P, s)) \in Int
            /\ ~disabled => sub[s].end - sub[s].start >= PaidFor(payment, Linked(P, s))
        BY <3>5, PaidSums DEF PayInv, LongEnough
      <3>7. ~disabled => row.end - row.start >= PaidFor(payment, Linked(P, s))
        BY <1>3, <3>3, <3>5, <3>6
      <3>8. ~disabled /\ req[h].by = "payment" =>
               row.end - row.start >= PaidFor(payment, Linked(P, s)) + payment[req[h].payment].months
        BY <1>3, <1>4, <2>2, <3>1, <3>3, <3>5, <3>6
      <3> QED
        BY <3>3, <3>4, <3>7, <3>8
    <2> QED
      BY <2>1, <2>2
  <1>6. CASE req[h].by = "payment"
    <2>1. PICK record \in PayRecord(O, A, R, P) :
            /\ record = [op |-> "link", sub |-> s, payment |-> req[h].payment]
            /\ record.op = "link" /\ record.sub = s /\ record.payment = req[h].payment
      <3>1. [op |-> "link", sub |-> s, payment |-> req[h].payment] \in PayRecord(O, A, R, P)
        BY <1>4, <1>6 DEF PayRecord
      <3> QED
        BY <3>1
    <2>2. req' = [req EXCEPT ![h] = record]
      BY <1>5, <1>6, <2>1
    <2>3. /\ record.op = "link" /\ record.sub = s
          /\ payment[record.payment] # NoRow /\ payment[record.payment].sub = None
          /\ ~disabled =>
               row.end - row.start >= PaidFor(payment, Linked(P, s)) + payment[record.payment].months
      BY <1>4, <1>5, <1>6, <2>1
    <2> QED
      BY <1>1, <1>5, <2>2, <2>3, SubWrittenKeeps
  <1>7. CASE req[h].by # "payment"
    <2>1. req' = [req EXCEPT ![h] = Idle]
      BY <1>5, <1>7
    <2> QED
      BY <1>1, <1>5, <2>1, SubWrittenKeeps
  <1> QED
    BY <1>6, <1>7

\* A trial is created whatever there is.
LEMMA TrialKeeps ==
  ASSUME NEW O, NEW A, NEW R, NEW P, NEW M, NEW T, NEW L, NEW h, PayNames(R, M, T),
         PayInv(O, A, R, P, M, h),
         \/ \E r \in R, u \in O : Pays(O, A, R, P, M, T, L, h)!ApproveTrial(r, u)
         \/ Pays(O, A, R, P, M, T, L, h)!TrialCreate(h)
  PROVE  PayInv(O, A, R, P, M, h)'
  <1>1. UNCHANGED <<payment, disabled, now>>
    BY DEF Pays!ApproveTrial, Pays!TrialCreate
  <1>2. PICK s \in R, u \in O \cup {A}, record \in PayRecord(O, A, R, P) \cup {Idle} :
          /\ sub[s] = NoRow
          /\ sub' = [sub EXCEPT ![s] = [user |-> u, status |-> "TRIAL", trial |-> TRUE,
                                        start |-> now, end |-> now + 1]]
          /\ req' = [req EXCEPT ![h] = record]
          /\ record \in {Idle, req[h]}
    <2>1. CASE \E r \in R, u \in O : Pays(O, A, R, P, M, T, L, h)!ApproveTrial(r, u)
      <3>1. PICK s \in R, u \in O :
              /\ sub[s] = NoRow /\ req' = req
              /\ sub' = [sub EXCEPT ![s] = [user |-> u, status |-> "TRIAL", trial |-> TRUE,
                                            start |-> now, end |-> now + 1]]
        BY <2>1 DEF Pays!ApproveTrial, Pays!Create, Pays!NoRow, NoRow
      <3>2. req[h] \in PayRecord(O, A, R, P) \cup {Idle} /\ [req EXCEPT ![h] = req[h]] = req
        BY DEF PayInv, PayTyped
      <3> QED
        BY <3>1, <3>2
    <2>2. CASE Pays(O, A, R, P, M, T, L, h)!TrialCreate(h)
      <3>1. req[h].user \in O \cup {A}
        BY <2>2, PayShapes DEF Pays!TrialCreate, PayInv
      <3> QED
        BY <2>2, <3>1 DEF Pays!TrialCreate, Pays!Create, Pays!Finish, Pays!Go, Pays!Idle, Idle, Pays!NoRow, NoRow
    <2> QED
      BY <2>1, <2>2
  <1>3. now \in Nat
    BY DEF PayInv, PayTyped
  <1>4. PICK row \in SubRow(O, A) :
          /\ row = [user |-> u, status |-> "TRIAL", trial |-> TRUE, start |-> now, end |-> now + 1]
          /\ row.start = now /\ row.end = now + 1
    <2>1. [user |-> u, status |-> "TRIAL", trial |-> TRUE, start |-> now, end |-> now + 1] \in SubRow(O, A)
      BY <1>3 DEF SubRow
    <2> QED
      BY <2>1
  <1>5. PaidFor(payment, Linked(P, s)) = 0
    BY <1>2, PaidSums DEF PayInv
  <1>6. ~disabled => row.end - row.start >= PaidFor(payment, Linked(P, s))
    BY <1>3, <1>4, <1>5
  <1>7. sub' = [sub EXCEPT ![s] = row]
    BY <1>2, <1>4
  <1> QED
    BY <1>1, <1>2, <1>6, <1>7, SubWrittenKeeps

LEMMA DisableKeeps ==
  ASSUME NEW O, NEW A, NEW R, NEW P, NEW M, NEW T, NEW L, NEW h, PayNames(R, M, T),
         PayInv(O, A, R, P, M, h), Pays(O, A, R, P, M, T, L, h)!Disable
  PROVE  PayInv(O, A, R, P, M, h)'
  <1>1. disabled' = TRUE /\ UNCHANGED <<payment, req, now>>
    BY DEF Pays!Disable
  <1>2. \A r \in R : \/ sub'[r] = sub[r]
                     \/ /\ sub[r] # NoRow
                        /\ sub'[r] = [sub[r] EXCEPT !.status = "CANCELLED", !.end = now]
    BY DEF Pays!Disable, Pays!Rows, Pays!NoRow, NoRow
  <1>3. ASSUME NEW r \in R, sub[r] # NoRow
        PROVE  sub'[r] \in SubRow(O, A) /\ (sub'[r].end = sub[r].end \/ sub'[r].end = now)
    <2>1. sub[r] \in SubRow(O, A) /\ now \in Nat
      BY <1>3 DEF PayInv, PayTyped
    <2>2. [sub[r] EXCEPT !.status = "CANCELLED", !.end = now] \in SubRow(O, A)
      BY <2>1, Zenon DEF SubRow
    <2>3. [sub[r] EXCEPT !.status = "CANCELLED", !.end = now].end = now
      BY <2>1 DEF SubRow
    <2> QED
      BY <1>2, <2>1, <2>2, <2>3
  <1>4. \A row \in SubRow(O, A) : row # NoRow
    BY PayShapes DEF PayInv
  <1>5. \A r \in R : sub'[r] \in SubRow(O, A) \cup {NoRow} /\ (sub[r] # NoRow => sub'[r] # NoRow)
    BY <1>2, <1>3, <1>4
  <1>6. sub' \in [R -> SubRow(O, A) \cup {NoRow}]
    <2>1. sub' = [r \in R |-> sub'[r]]
      BY DEF Pays!Disable
    <2> QED
      BY <1>5, <2>1
  <1>7. \A r : Linked(P, r)' = Linked(P, r)
    BY <1>1 DEF Linked
  <1>8. PayTyped(O, A, R, P, M, h)'
    <2>1. \A p \in P : payment[p] # NoRow => payment[p].sub \in R \cup {None}
      BY DEF PayInv, PayTyped, PayRow
    <2> QED
      BY <1>1, <1>5, <1>6, <1>7, <2>1 DEF PayInv, PayTyped
  <1>9. Paid(h)'
    BY <1>1 DEF PayInv, Paid
  <1>10. Longer(h)'
    <2>1. req[h].op = "extend" => req[h].found \in FoundRow(O, R)
      BY PayShapes DEF PayInv
    <2>2. req[h].op = "extend" =>
            req[h].found.row \in R \cup {None} /\ req[h].found.at \in Nat /\ req[h].found.end \in Nat
      BY <2>1 DEF FoundRow
    <2>3. req[h].op = "link" => req[h].sub \in R
      BY PayShapes DEF PayInv
    <2>4. now \in Nat
      BY DEF PayInv, PayTyped
    <2>5. req[h].op = "extend" /\ req[h].found.row # None =>
            sub'[req[h].found.row] # NoRow /\ sub'[req[h].found.row].end <= req[h].found.end
      BY <1>3, <1>5, <2>2, <2>4 DEF PayInv, Longer
    <2> QED
      BY <1>1, <1>5, <2>3, <2>5 DEF PayInv, Longer
  <1>11. LongEnough(R, P, h)'
    BY <1>1 DEF LongEnough
  <1> QED
    BY <1>8, <1>9, <1>10, <1>11 DEF PayInv

LEMMA PayTickKeeps ==
  ASSUME NEW O, NEW A, NEW R, NEW P, NEW M, NEW T, NEW L, NEW h, PayNames(R, M, T),
         PayInv(O, A, R, P, M, h), Pays(O, A, R, P, M, T, L, h)!Tick
  PROVE  PayInv(O, A, R, P, M, h)'
  <1>1. now' = now + 1 /\ UNCHANGED <<sub, payment, disabled, req>> /\ now \in Nat
    BY DEF Pays!Tick, PayInv, PayTyped
  <1>2. /\ req[h].op = "paid" => req[h].at = now
        /\ req[h].op = "extend" => req[h].found.at = now
    BY DEF Pays!Tick, Pays!Began
  <1>3. \A r : Linked(P, r)' = Linked(P, r)
    BY <1>1 DEF Linked
  <1>4. PayTyped(O, A, R, P, M, h)'
    BY <1>1, <1>3 DEF PayInv, PayTyped
  <1>5. Paid(h)' /\ Longer(h)'
    BY <1>1, <1>2 DEF PayInv, Paid, Longer
  <1>6. LongEnough(R, P, h)'
    BY <1>1, <1>3 DEF PayInv, LongEnough
  <1> QED
    BY <1>4, <1>5, <1>6 DEF PayInv

LEMMA PayStarts ==
  ASSUME NEW O, NEW A, NEW R, NEW P, NEW M, NEW T, NEW L, NEW h, PayNames(R, M, T),
         Pays(O, A, R, P, M, T, L, h)!Init
  PROVE  PayInv(O, A, R, P, M, h)
  <1>1. /\ sub = [r \in R |-> NoRow] /\ payment = [p \in P |-> NoRow]
        /\ disabled = FALSE /\ req = [x \in {h} |-> Idle] /\ now = 0
    BY DEF Pays!Init, Pays!NoRow, NoRow, Pays!Idle, Idle
  <1>2. \A r \in R : Linked(P, r) = {}
    BY <1>1 DEF Linked
  <1>3. req[h].op = "idle"
    BY <1>1 DEF Idle
  <1>4. PayTyped(O, A, R, P, M, h)
    BY <1>1, <1>2, FS_EmptySet DEF PayTyped
  <1>5. Paid(h) /\ Longer(h)
    BY <1>3 DEF Paid, Longer
  <1>6. LongEnough(R, P, h)
    BY <1>1, <1>3 DEF LongEnough
  <1> QED
    BY <1>4, <1>5, <1>6 DEF PayInv

LEMMA PayKeeps ==
  ASSUME NEW O, NEW A, NEW R, NEW P, NEW M, NEW T, NEW L, NEW h, PayNames(R, M, T),
         PayInv(O, A, R, P, M, h), Pays(O, A, R, P, M, T, L, h)!Next
  PROVE  PayInv(O, A, R, P, M, h)'
  <1>1. CASE Pays(O, A, R, P, M, T, L, h)!CheckoutPay(h)
    BY <1>1, CheckoutPayKeeps
  <1>2. CASE Pays(O, A, R, P, M, T, L, h)!CheckoutRead(h)
    BY <1>2, CheckoutReadKeeps
  <1>3. CASE Pays(O, A, R, P, M, T, L, h)!CheckoutLink(h)
    BY <1>3, CheckoutLinkKeeps
  <1>4. CASE \/ Pays(O, A, R, P, M, T, L, h)!CodeRead(h)
             \/ Pays(O, A, R, P, M, T, L, h)!VoucherRead(h)
    BY <1>4, CodeReadKeeps
  <1>5. CASE Pays(O, A, R, P, M, T, L, h)!Extend(h)
    BY <1>5, ExtendKeeps
  <1>6. CASE \/ Pays(O, A, R, P, M, T, L, h)!TrialRead(h)
             \/ Pays(O, A, R, P, M, T, L, h)!EnableRead(h)
    <2>1. PICK u \in O \cup {A} : req' = [req EXCEPT ![h] = [op |-> "trial", user |-> u]]
      BY <1>6 DEF Pays!TrialRead, Pays!EnableRead, Pays!Go
    <2>2. PICK record \in PayRecord(O, A, R, P) :
            record = [op |-> "trial", user |-> u] /\ record.op = "trial"
      <3>1. [op |-> "trial", user |-> u] \in PayRecord(O, A, R, P)
        BY DEF PayRecord
      <3> QED
        BY <3>1
    <2>3. UNCHANGED <<sub, payment, disabled, now>>
      BY <1>6 DEF Pays!TrialRead, Pays!EnableRead
    <2> QED
      BY <2>1, <2>2, <2>3, PayReadKeeps
  <1>7. CASE \/ \E r \in R, u \in O : Pays(O, A, R, P, M, T, L, h)!ApproveTrial(r, u)
             \/ Pays(O, A, R, P, M, T, L, h)!TrialCreate(h)
    BY <1>7, TrialKeeps
  <1>8. CASE Pays(O, A, R, P, M, T, L, h)!Abandon(h)
    <2>1. req' = [req EXCEPT ![h] = Idle] /\ UNCHANGED <<sub, payment, disabled, now>>
      BY <1>8 DEF Pays!Abandon, Pays!Finish, Pays!Go, Pays!Idle, Idle
    <2>2. Idle.op = "idle"
      BY DEF Idle
    <2> QED
      BY <2>1, <2>2, PayReadKeeps
  <1>9. CASE Pays(O, A, R, P, M, T, L, h)!Disable
    BY <1>9, DisableKeeps
  <1>10. CASE Pays(O, A, R, P, M, T, L, h)!Tick
    BY <1>10, PayTickKeeps
  <1> QED
    BY <1>1, <1>2, <1>3, <1>4, <1>5, <1>6, <1>7, <1>8, <1>9, <1>10 DEF Pays!Next, Pays!Step

LEMMA PayStutters ==
  ASSUME NEW O, NEW A, NEW R, NEW P, NEW M, NEW h, PayInv(O, A, R, P, M, h),
         UNCHANGED <<sub, payment, disabled, req, now>>
  PROVE  PayInv(O, A, R, P, M, h)'
  <1>1. \A r : Linked(P, r)' = Linked(P, r)
    BY DEF Linked
  <1>2. PayTyped(O, A, R, P, M, h)'
    BY <1>1 DEF PayInv, PayTyped
  <1>3. Paid(h)' /\ Longer(h)'
    BY DEF PayInv, Paid, Longer
  <1>4. LongEnough(R, P, h)'
    BY <1>1 DEF PayInv, LongEnough
  <1> QED
    BY <1>2, <1>3, <1>4 DEF PayInv

\* A row's end moves back only when the administrator cancels it.
LEMMA PayLengthens ==
  ASSUME NEW O, NEW A, NEW R, NEW P, NEW M, NEW T, NEW L, NEW h, PayNames(R, M, T),
         PayInv(O, A, R, P, M, h), Pays(O, A, R, P, M, T, L, h)!Next
  PROVE  Pays(O, A, R, P, M, T, L, h)!Lengthened
  <1> SUFFICES ASSUME NEW r \in R, sub[r] # NoRow, sub'[r].end < sub[r].end
               PROVE  sub'[r].status = "CANCELLED"
    BY DEF Pays!Lengthened, Pays!Rows, Pays!NoRow, NoRow
  <1>1. sub[r] \in SubRow(O, A) /\ sub[r].end \in Nat
    BY DEF PayInv, PayTyped, SubRow
  <1>2. ~(sub'[r] = sub[r])
    BY <1>1
  <1>3. CASE Pays(O, A, R, P, M, T, L, h)!Disable
    <2>1. sub'[r] = [sub[r] EXCEPT !.status = "CANCELLED", !.end = now]
      BY <1>2, <1>3 DEF Pays!Disable, Pays!Rows, Pays!NoRow, NoRow
    <2> QED
      BY <1>1, <2>1 DEF SubRow
  <1>4. CASE Pays(O, A, R, P, M, T, L, h)!Extend(h)
    <2>1. req[h].op = "extend"
      BY <1>4 DEF Pays!Extend
    <2>2. /\ req[h].found.row # None => sub[req[h].found.row].end <= req[h].found.end
      BY <2>1 DEF PayInv, Longer
    <2>3. CASE req[h].found.row = None
      <3>1. \E s \in R : Pays(O, A, R, P, M, T, L, h)!Create(s, req[h].found.user,
                            IF req[h].trial THEN "TRIAL" ELSE "ACTIVE", req[h].trial,
                            req[h].found.at, req[h].found.end)
        BY <1>4, <2>3 DEF Pays!Extend
      <3>2. sub'[r] = sub[r]
        BY <3>1 DEF Pays!Create, Pays!NoRow, NoRow, PayInv, PayTyped
      <3> QED
        BY <1>2, <3>2
    <2>4. CASE req[h].found.row # None
      <3>1. PICK row : /\ sub' = [sub EXCEPT ![req[h].found.row] = row]
                       /\ \/ row = [sub[req[h].found.row] EXCEPT !.status = "ACTIVE", !.end = req[h].found.end]
                          \/ row = [[sub[req[h].found.row] EXCEPT !.status = "ACTIVE",
                                                                  !.end = req[h].found.end]
                                      EXCEPT !.trial = req[h].trial]
        BY <1>4, <2>4 DEF Pays!Extend, Pays!Extended
      <3>2. r = req[h].found.row /\ sub'[r] = row
        BY <1>2, <3>1 DEF PayInv, PayTyped
      <3>3. row.end = req[h].found.end
        BY <1>1, <3>1, <3>2 DEF SubRow
      <3>4. req[h].found.end \in Nat
        BY <2>1, PayShapes DEF PayInv, FoundRow
      <3>5. sub[r].end <= sub'[r].end
        BY <2>2, <2>4, <3>2, <3>3
      <3> QED
        BY <1>1, <3>2, <3>3, <3>4, <3>5
    <2> QED
      BY <2>3, <2>4
  <1>5. CASE \/ \E s \in R, u \in O : Pays(O, A, R, P, M, T, L, h)!ApproveTrial(s, u)
             \/ Pays(O, A, R, P, M, T, L, h)!TrialCreate(h)
    <2>1. sub'[r] = sub[r]
      BY <1>5 DEF Pays!ApproveTrial, Pays!TrialCreate, Pays!Create, Pays!NoRow, NoRow, PayInv, PayTyped
    <2> QED
      BY <1>2, <2>1
  <1>6. CASE UNCHANGED sub
    BY <1>2, <1>6
  <1>7. \/ Pays(O, A, R, P, M, T, L, h)!Disable
        \/ Pays(O, A, R, P, M, T, L, h)!Extend(h)
        \/ \E s \in R, u \in O : Pays(O, A, R, P, M, T, L, h)!ApproveTrial(s, u)
        \/ Pays(O, A, R, P, M, T, L, h)!TrialCreate(h)
        \/ UNCHANGED sub
    BY DEF Pays!Next, Pays!Step, Pays!CheckoutPay, Pays!CheckoutRead, Pays!CheckoutLink, Pays!CodeRead,
           Pays!VoucherRead, Pays!TrialRead, Pays!EnableRead, Pays!Abandon, Pays!Tick
  <1> QED
    BY <1>3, <1>4, <1>5, <1>6, <1>7

\* What the invariant says of the sums.
LEMMA PayGrants ==
  ASSUME NEW O, NEW A, NEW R, NEW P, NEW M, NEW T, NEW L, NEW h, PayInv(O, A, R, P, M, h)
  PROVE  Pays(O, A, R, P, M, T, L, h)!PaidMonthsGranted
  <1>1. \A r : Pays(O, A, R, P, M, T, L, h)!LinkedTo(r) = Linked(P, r)
    BY DEF Pays!LinkedTo, Linked, Pays!NoRow, NoRow
  <1>2. ~disabled => \A r \in R : sub[r] # NoRow => sub[r].end - sub[r].start >= PaidFor(payment, Linked(P, r))
    BY DEF PayInv, LongEnough
  <1>3. \A r \in Pays(O, A, R, P, M, T, L, h)!Rows : r \in R /\ sub[r] # NoRow
    BY DEF Pays!Rows, Pays!NoRow, NoRow
  <1>4. ~disabled => \A r \in Pays(O, A, R, P, M, T, L, h)!Rows :
          sub[r].end - sub[r].start >= PaidFor(payment, Pays(O, A, R, P, M, T, L, h)!LinkedTo(r))
    BY <1>1, <1>2, <1>3
  <1> QED
    BY <1>4 DEF Pays!PaidMonthsGranted, PaidFor, Pays!MapThenSumSet, Pays!MapThenFoldSet,
       Paying!MapThenSumSet, Paying!MapThenFoldSet

\* All that was paid for is granted and nothing is shortened, whatever the numbers
\* of owners, subscriptions and payments, one request at a time.
THEOREM PaidMonthsStayGranted ==
  ASSUME NEW O, NEW A, NEW R, NEW P, NEW M, NEW T, NEW L, NEW h, PayNames(R, M, T)
  PROVE  /\ Pays(O, A, R, P, M, T, L, h)!Spec => []Pays(O, A, R, P, M, T, L, h)!PaidMonthsGranted
         /\ Pays(O, A, R, P, M, T, L, h)!Spec => Pays(O, A, R, P, M, T, L, h)!NeverShortened
  <1>1. Pays(O, A, R, P, M, T, L, h)!Init => PayInv(O, A, R, P, M, h)
    BY PayStarts
  <1>2. PayInv(O, A, R, P, M, h) /\ [Pays(O, A, R, P, M, T, L, h)!Next]_<<sub, payment, disabled, req, now>>
          => PayInv(O, A, R, P, M, h)'
    BY PayKeeps, PayStutters
  <1>3. PayInv(O, A, R, P, M, h) => Pays(O, A, R, P, M, T, L, h)!PaidMonthsGranted
    BY PayGrants
  <1>4. PayInv(O, A, R, P, M, h) /\ [Pays(O, A, R, P, M, T, L, h)!Next]_<<sub, payment, disabled, req, now>>
          => [Pays(O, A, R, P, M, T, L, h)!Lengthened]_<<sub, payment, disabled, req, now>>
    BY PayLengthens
  <1> QED
    BY <1>1, <1>2, <1>3, <1>4, PTL DEF Pays!Spec, Pays!vars, Pays!NeverShortened

-----------------------------------------------------------------------------
(* The part paying.                                                        *)

\* Its live are live.
LEMMA PartsPayNames == PayNames({r1, r2}, {1, 2}, 2)
  BY NamesAssumption DEF PayNames

\* Part paying is an instance of Pays.
LEMMA PartsPay ==
  /\ Paying!Init => Pays({u1}, admin, {r1, r2}, {d1, d2}, {1, 2}, 2, 3, h1)!Init
  /\ Paying!Next => Pays({u1}, admin, {r1, r2}, {d1, d2}, {1, 2}, 2, 3, h1)!Next
  BY DEF Paying!Init, Pays!Init, Paying!NoRow, Pays!NoRow, Paying!Idle, Pays!Idle,
     Paying!Next, Pays!Next, Paying!Step, Pays!Step,
     Paying!CheckoutPay, Pays!CheckoutPay, Paying!CheckoutRead, Pays!CheckoutRead,
     Paying!CheckoutLink, Pays!CheckoutLink, Paying!CodeRead, Pays!CodeRead,
     Paying!VoucherRead, Pays!VoucherRead, Paying!Extend, Pays!Extend, Paying!Extended, Pays!Extended,
     Paying!ApproveTrial, Pays!ApproveTrial, Paying!TrialRead, Pays!TrialRead,
     Paying!EnableRead, Pays!EnableRead, Paying!TrialCreate, Pays!TrialCreate,
     Paying!Disable, Pays!Disable, Paying!Abandon, Pays!Abandon, Paying!Tick, Pays!Tick,
     Paying!Began, Pays!Began, Paying!Found, Pays!Found, Paying!NewEnd, Pays!NewEnd,
     Paying!Larger, Pays!Larger, Paying!Latest, Pays!Latest, Paying!Create, Pays!Create,
     Paying!Rows, Pays!Rows, Paying!LiveRows, Pays!LiveRows, Paying!Running, Pays!Running,
     Paying!Finish, Pays!Finish, Paying!Go, Pays!Go

LEMMA PartsGrant ==
  /\ PayInv({u1}, admin, {r1, r2}, {d1, d2}, {1, 2}, h1) => Paying!PaidMonthsGranted
  /\ Pays({u1}, admin, {r1, r2}, {d1, d2}, {1, 2}, 2, 3, h1)!Lengthened => Paying!Lengthened
  <1>1. ASSUME PayInv({u1}, admin, {r1, r2}, {d1, d2}, {1, 2}, h1) PROVE Paying!PaidMonthsGranted
    <2>1. \A r : Paying!LinkedTo(r) = Linked({d1, d2}, r)
      BY DEF Paying!LinkedTo, Linked, Paying!NoRow, NoRow
    <2>2. \A r \in Paying!Rows : r \in {r1, r2} /\ sub[r] # NoRow
      BY DEF Paying!Rows, Paying!NoRow, NoRow
    <2>3. ~disabled => \A r \in Paying!Rows :
            sub[r].end - sub[r].start >= PaidFor(payment, Paying!LinkedTo(r))
      BY <1>1, <2>1, <2>2 DEF PayInv, LongEnough
    <2> QED
      BY <2>3 DEF Paying!PaidMonthsGranted, PaidFor, Paying!MapThenSumSet, Paying!MapThenFoldSet
  <1>2. Pays({u1}, admin, {r1, r2}, {d1, d2}, {1, 2}, 2, 3, h1)!Lengthened => Paying!Lengthened
    BY DEF Pays!Lengthened, Pays!Rows, Pays!NoRow, Paying!Lengthened, Paying!Rows, Paying!NoRow
  <1> QED
    BY <1>1, <1>2

LEMMA PartStaysPaid ==
  ASSUME [MCNext]_MCvars, part = "paying", PayInv({u1}, admin, {r1, r2}, {d1, d2}, {1, 2}, h1)
  PROVE  PayInv({u1}, admin, {r1, r2}, {d1, d2}, {1, 2}, h1)'
  <1>1. CASE Paying!Next
    BY <1>1, PartsPay, PartsPayNames, PayKeeps
  <1>2. CASE UNCHANGED <<sub, payment, disabled, req, now>>
    BY <1>2, PayStutters
  <1> QED
    BY <1>1, <1>2 DEF MCNext, MCvars, subscribing

LEMMA PartStartsPaid ==
  MCInit /\ part = "paying" => PayInv({u1}, admin, {r1, r2}, {d1, d2}, {1, 2}, h1)
  BY PartsPay, PartsPayNames, PayStarts DEF MCInit

\* The same of the specification the run explores, in its part about subscriptions:
\* the months that were paid for are granted,
THEOREM PaidMonthsInPart == MCSpec => []PaidMonthsGranted
  <1> DEFINE Inv == part = "paying" => PayInv({u1}, admin, {r1, r2}, {d1, d2}, {1, 2}, h1)
  <1>1. MCInit => Inv
    BY PartStartsPaid
  <1>2. Inv /\ [MCNext]_MCvars => Inv'
    BY PartStaysPaid, PartsStay
  <1>3. Inv => PaidMonthsGranted
    BY PartsGrant DEF PaidMonthsGranted
  <1> HIDE DEF Inv
  <1> QED
    BY <1>1, <1>2, <1>3, PTL DEF MCSpec

\* and nothing is shortened but by the administrator.
THEOREM NeverShortenedInPart == MCSpec => NeverShortened
  <1> DEFINE Inv == part = "paying" => PayInv({u1}, admin, {r1, r2}, {d1, d2}, {1, 2}, h1)
  <1>1. MCInit => Inv
    BY PartStartsPaid
  <1>2. Inv /\ [MCNext]_MCvars => Inv'
    BY PartStaysPaid, PartsStay
  <1>3. Inv /\ [MCNext]_MCvars => [part = "paying" => Paying!Lengthened]_MCvars
    <2> SUFFICES ASSUME Inv, MCNext, part = "paying" PROVE Paying!Lengthened \/ UNCHANGED MCvars
      OBVIOUS
    <2>1. Paying!Next
      BY DEF MCNext
    <2> QED
      BY <2>1, PartsPay, PartsPayNames, PartsGrant, PayLengthens
  <1> HIDE DEF Inv
  <1> QED
    BY <1>1, <1>2, <1>3, PTL DEF MCSpec, NeverShortened

-----------------------------------------------------------------------------
(* The staff a new partner enters (StaffDrafts), for every set I of ids, K *)
(* of the row without record, N of names, P and T of bounds.               *)

Staffs(I, K, N, P, T) == INSTANCE StaffDrafts WITH
  Ids <- I, Local <- K, Names <- N, MaxPresses <- P, MaxLost <- T

Marks == {"DRAFT", "PUBLISHED", "ARCHIVED"}

Notices == {"idle", "saving", "saved", "error"}

Wordless == {"", " "}

Named(N) == N \cup {""}

DraftRow(N) == [status : Marks, name : Named(N)]

PageRow(N) == [status : Marks, name : Named(N), last : Named(N) \cup {None}]

PageView(N) == [row : PageRow(N), notice : Notices]

SaveCall(I, K, N) ==
  [name : Named(N), state : {"sent", "done", "failed"}, id : I \cup {K}, saved : DraftRow(N) \cup {None}]

Publication(I, K, N) ==
  [id : I \cup {K}, view : PageView(N), saved : DraftRow(N) \cup {None},
   state : {"saving", "sent", "checked", "refused", "done", "failed"}]

Removal(I) == [id : I, state : Marks \cup {"sent", "done"}]

Tally == [presses : Nat, added : Nat, created : Nat, lost : Nat, excuses : Nat]

\* Some name is not empty, the row without record has no record's id, and no row
\* or request is None.
DraftNames(I, K, N) ==
  /\ K \notin I
  /\ \E n \in N : n \notin Wordless
  /\ None \notin DraftRow(N)
  /\ None \notin SaveCall(I, K, N)

DraftsTyped(I, K, N) ==
  /\ stored \in [I -> DraftRow(N) \cup {None}]
  /\ shown \in [I \cup {K} -> PageRow(N) \cup {None}]
  /\ notice \in [I \cup {K} -> Notices]
  /\ timer \in [I \cup {K} -> PageView(N) \cup {None}]
  /\ call \in [I \cup {K} -> SaveCall(I, K, N) \cup {None}]
  /\ publisher \in Publication(I, K, N) \cup {None}
  /\ removal \in Removal(I) \cup {None}
  /\ tally \in Tally

\* What was saved or published is known, and has a record's id.
AnswersKnown(I, K) ==
  /\ \A k \in I \cup {K} : call[k] # None /\ call[k].state = "done" => call[k].saved # None /\ call[k].id \in I
  /\ \A k \in I : call[k] # None => call[k].id \in I
  /\ publisher # None /\ publisher.state = "done" => publisher.saved # None

\* A request takes the place of the timer, and a key that of both.
OneOfTwo(I, K) == \A k \in I \cup {K} : timer[k] = None \/ call[k] = None

\* Whether a timer that goes off sends its view.
Fires(view) == view.notice # "saving" /\ view.row.name \notin Wordless /\ view.row.last # view.row.name

\* The records that the row without one may still become: one for a request under
\* way, and one for the row as long as no request is known to be about it.
Owed(row, says, fires, c) ==
  IF c # None /\ c.state = "sent" THEN IF row /\ says # "saving" THEN 2 ELSE 1
  ELSE IF (row /\ ~(c # None /\ c.state = "done" /\ says = "saving")) \/ fires THEN 1 ELSE 0

Owing(K) == Owed(shown[K] # None, notice[K], timer[K] # None /\ Fires(timer[K]), call[K])

RecordsCounted(K) == tally.created + Owing(K) <= tally.added + tally.excuses

\* What a removal found a draft is one, or was published since.
RemovesDrafts(I) ==
  /\ removal # None /\ removal.state = "DRAFT" =>
       \/ stored[removal.id] = None
       \/ stored[removal.id].status # "PUBLISHED"
       \/ removal.id \in raced
  /\ erased \subseteq raced

DraftInv(I, K, N) ==
  /\ DraftsTyped(I, K, N)
  /\ AnswersKnown(I, K)
  /\ OneOfTwo(I, K)
  /\ RecordsCounted(K)
  /\ RemovesDrafts(I)

-----------------------------------------------------------------------------
(* Steps.                                                                  *)

\* What flushDraftSave does.
Flushed(I, K, N, k, view, force) ==
  /\ timer' = [timer EXCEPT ![k] = None]
  /\ timer' \in [I \cup {K} -> PageView(N) \cup {None}]
  /\ call' \in [I \cup {K} -> SaveCall(I, K, N) \cup {None}]
  /\ notice' \in [I \cup {K} -> Notices]
  /\ \A j \in I \cup {K} : j # k => call'[j] = call[j] /\ notice'[j] = notice[j] /\ timer'[j] = timer[j]
  /\ timer'[k] = None
  /\ \/ /\ force \/ Fires(view)
        /\ view.notice # "saving"
        /\ call'[k] # None /\ call'[k].state = "sent" /\ call'[k].id = k /\ notice'[k] = "saving"
     \/ /\ ~Fires(view)
        /\ call'[k] = call[k]
        /\ notice'[k] = notice[k] \/ (~force /\ notice'[k] = "saved")

LEMMA FlushFits ==
  ASSUME NEW I, NEW K, NEW N, NEW P, NEW T, DraftNames(I, K, N), DraftsTyped(I, K, N),
         NEW k, k \in I \cup {K}, NEW view, view \in PageView(N), NEW force, force \in BOOLEAN,
         Staffs(I, K, N, P, T)!Flush(k, view, force)
  PROVE  Flushed(I, K, N, k, view, force)
  <1>1. view.row \in PageRow(N) /\ view.row.name \in Named(N)
    BY DEF PageView, PageRow
  <1>2. PICK new \in SaveCall(I, K, N) :
          /\ new = [name |-> view.row.name, state |-> "sent", id |-> k, saved |-> None]
          /\ new.state = "sent" /\ new.id = k /\ new # None
    <2>1. [name |-> view.row.name, state |-> "sent", id |-> k, saved |-> None] \in SaveCall(I, K, N)
      BY <1>1 DEF SaveCall
    <2> QED
      BY <2>1 DEF DraftNames
  <1>3. timer' = [timer EXCEPT ![k] = None]
    BY DEF Staffs!Flush
  <1>4. Staffs(I, K, N, P, T)!Sends(view, force) => (force \/ Fires(view)) /\ view.notice # "saving"
    BY DEF Staffs!Sends, Wordless, Staffs!Blank, Staffs!Empty, Staffs!Space, Fires
  <1>5. ~Staffs(I, K, N, P, T)!Sends(view, force) => ~Fires(view)
    BY DEF Staffs!Sends, Wordless, Staffs!Blank, Staffs!Empty, Staffs!Space, Fires
  <1>6. CASE Staffs(I, K, N, P, T)!Sends(view, force)
    <2>1. call' = [call EXCEPT ![k] = new]
      BY <1>2, <1>6 DEF Staffs!Flush
    <2>2. ~(~force /\ Staffs(I, K, N, P, T)!Unchanged(view))
      BY <1>6 DEF Staffs!Sends, Staffs!Unchanged
    <2>3. notice' = [notice EXCEPT ![k] = "saving"]
      BY <1>6, <2>2 DEF Staffs!Flush
    <2> QED
      BY <1>2, <1>3, <1>4, <1>6, <2>1, <2>3 DEF DraftsTyped, Flushed, Notices
  <1>7. CASE ~Staffs(I, K, N, P, T)!Sends(view, force)
    <2>1. call' = [call EXCEPT ![k] = call[k]]
      BY <1>7 DEF Staffs!Flush
    <2>2. PICK t \in Notices :
            /\ notice' = [notice EXCEPT ![k] = t]
            /\ t = notice[k] \/ (~force /\ t = "saved")
      <3>1. CASE ~force /\ Staffs(I, K, N, P, T)!Unchanged(view)
        BY <1>7, <3>1 DEF Staffs!Flush, Notices
      <3>2. CASE ~(~force /\ Staffs(I, K, N, P, T)!Unchanged(view))
        <4>1. notice' = [notice EXCEPT ![k] = notice[k]]
          BY <1>7, <3>2 DEF Staffs!Flush
        <4> QED
          BY <4>1 DEF DraftsTyped, Flushed
      <3> QED
        BY <3>1, <3>2
    <2> QED
      BY <1>3, <1>5, <1>7, <2>1, <2>2 DEF DraftsTyped, Flushed
  <1> QED
    BY <1>6, <1>7

\* What updateMaster does.
Updated(I, K, N, k, view, row) ==
  /\ shown' \in [I \cup {K} -> PageRow(N) \cup {None}]
  /\ timer' \in [I \cup {K} -> PageView(N) \cup {None}]
  /\ call' \in [I \cup {K} -> SaveCall(I, K, N) \cup {None}]
  /\ notice' \in [I \cup {K} -> Notices]
  /\ \A j \in I \cup {K} : shown[j] = None => shown'[j] = None
  /\ \A j \in I \cup {K} : j # k => call'[j] = call[j] /\ notice'[j] = notice[j] /\ timer'[j] = timer[j]
  /\ \/ row.name \in Wordless /\ notice' = notice /\ timer' = timer /\ call' = call
     \/ /\ row.name \notin Wordless
        /\ call'[k] = None /\ timer'[k] = view

LEMMA UpdateFits ==
  ASSUME NEW I, NEW K, NEW N, NEW P, NEW T, DraftNames(I, K, N), DraftsTyped(I, K, N),
         NEW k, k \in I \cup {K}, NEW view, view \in PageView(N), NEW row, row \in PageRow(N),
         Staffs(I, K, N, P, T)!Update(k, view, row)
  PROVE  Updated(I, K, N, k, view, row)
  <1>1. shown' \in [I \cup {K} -> PageRow(N) \cup {None}]
    BY DEF Staffs!Update, DraftsTyped
  <1>2. \A j \in I \cup {K} : shown[j] = None => shown'[j] = None
    BY DEF Staffs!Update, DraftsTyped
  <1>3. CASE row.name \in Wordless
    <2>1. notice' = notice /\ timer' = timer /\ call' = call
      BY <1>3 DEF Staffs!Update, Wordless, Staffs!Blank, Staffs!Empty, Staffs!Space
    <2> QED
      BY <1>1, <1>2, <1>3, <2>1 DEF DraftsTyped, Updated
  <1>4. CASE row.name \notin Wordless
    <2>1. PICK t \in Notices : notice' = [notice EXCEPT ![k] = t]
      BY <1>4 DEF Staffs!Update, Wordless, Staffs!Blank, Staffs!Empty, Staffs!Space, Notices
    <2>2. timer' = [timer EXCEPT ![k] = view] /\ call' = [call EXCEPT ![k] = None]
      BY <1>4 DEF Staffs!Update, Wordless, Staffs!Blank, Staffs!Empty, Staffs!Space
    <2> QED
      BY <1>1, <1>2, <1>4, <2>1, <2>2 DEF DraftsTyped, Updated
  <1> QED
    BY <1>3, <1>4

\* The records that may still be made are none, one or two.
LEMMA OwedIsFew ==
  ASSUME NEW K
  PROVE  /\ Owing(K) \in 0 .. 2
         /\ Owing(K)' \in 0 .. 2
  BY DEF Owing, Owed

\* A step that does nothing to the row without record, or takes it away.
LEMMA OwesNoMore ==
  ASSUME NEW K, shown[K] = None => shown'[K] = None,
         notice'[K] = notice[K], timer'[K] = timer[K], call'[K] = call[K]
  PROVE  Owing(K)' <= Owing(K)
  <1>1. Owing(K) = Owed(shown[K] # None, notice[K], timer[K] # None /\ Fires(timer[K]), call[K])
    BY DEF Owing
  <1>2. Owing(K)' = Owed(shown'[K] # None, notice[K], timer[K] # None /\ Fires(timer[K]), call[K])
    BY DEF Owing, Owed, Fires
  <1> QED
    BY <1>1, <1>2 DEF Owed

\* No record is made, and nothing of what allows for one is taken back.
CountsRise ==
  /\ tally' \in Tally /\ tally'.created = tally.created
  /\ tally'.added >= tally.added /\ tally'.excuses >= tally.excuses

LEMMA CountsOn ==
  ASSUME NEW I, NEW K, NEW N, DraftInv(I, K, N), CountsRise,
         \/ Owing(K)' <= Owing(K)
         \/ Owing(K)' <= Owing(K) + 1 /\ (tally'.added >= tally.added + 1 \/ tally'.excuses >= tally.excuses + 1)
  PROVE  RecordsCounted(K)'
  <1>1. tally \in Tally /\ tally.created + Owing(K) <= tally.added + tally.excuses
    BY DEF DraftInv, DraftsTyped, RecordsCounted
  <1>2. /\ tally.created \in Nat /\ tally.added \in Nat /\ tally.excuses \in Nat
        /\ tally'.created \in Nat /\ tally'.added \in Nat /\ tally'.excuses \in Nat
    BY <1>1 DEF Tally, CountsRise
  <1>3. PICK m \in 0 .. 2, n \in 0 .. 2 : m = Owing(K) /\ n = Owing(K)'
    BY OwedIsFew
  <1>4. tally'.created + n <= tally'.added + tally'.excuses
    BY <1>1, <1>2, <1>3 DEF CountsRise
  <1> QED
    BY <1>3, <1>4 DEF RecordsCounted

\* The removal is not touched, and records keep their status.
LEMMA RemovesStay ==
  ASSUME NEW I, RemovesDrafts(I), UNCHANGED <<stored, removal, raced, erased>>
  PROVE  RemovesDrafts(I)'
  BY DEF RemovesDrafts

\* What a press and a lost answer do to the counts.
LEMMA PressFits ==
  ASSUME NEW I, NEW K, NEW N, NEW P, NEW T, tally \in Tally, NEW excuse, excuse \in BOOLEAN,
         \/ Staffs(I, K, N, P, T)!Pressed(excuse) \/ Staffs(I, K, N, P, T)!Lost(excuse)
         \/ Staffs(I, K, N, P, T)!Excused(excuse)
  PROVE  /\ CountsRise
         /\ excuse => tally'.excuses >= tally.excuses + 1
  <1>1. /\ tally = [presses |-> tally.presses, added |-> tally.added, created |-> tally.created,
                    lost |-> tally.lost, excuses |-> tally.excuses]
        /\ tally.presses \in Nat /\ tally.added \in Nat /\ tally.created \in Nat
        /\ tally.lost \in Nat /\ tally.excuses \in Nat
    BY DEF Tally, CountsRise
  <1>2. CASE Staffs(I, K, N, P, T)!Pressed(excuse)
    <2>1. PICK e \in Nat : e = IF excuse THEN tally.excuses + 1 ELSE tally.excuses
      BY <1>1
    <2>2. tally' = [tally EXCEPT !.presses = tally.presses + 1, !.excuses = e]
      BY <1>2, <2>1 DEF Staffs!Pressed
    <2>3. tally' = [presses |-> tally.presses + 1, added |-> tally.added, created |-> tally.created,
                    lost |-> tally.lost, excuses |-> e]
      BY <1>1, <2>2
    <2> QED
      BY <1>1, <2>1, <2>3 DEF Tally, CountsRise
  <1>3. CASE Staffs(I, K, N, P, T)!Lost(excuse)
    <2>1. PICK e \in Nat : e = IF excuse THEN tally.excuses + 1 ELSE tally.excuses
      BY <1>1
    <2>2. tally' = [tally EXCEPT !.lost = tally.lost + 1, !.excuses = e]
      BY <1>3, <2>1 DEF Staffs!Lost
    <2>3. tally' = [presses |-> tally.presses, added |-> tally.added, created |-> tally.created,
                    lost |-> tally.lost + 1, excuses |-> e]
      BY <1>1, <2>2
    <2> QED
      BY <1>1, <2>1, <2>3 DEF Tally, CountsRise
  <1>4. CASE Staffs(I, K, N, P, T)!Excused(excuse)
    BY <1>1, <1>4 DEF Staffs!Excused, Tally, CountsRise
  <1> QED
    BY <1>2, <1>3, <1>4

\* The row without record after a key, or after a publication that failed.
LEMMA UpdateCounts ==
  ASSUME NEW I, NEW K, NEW N, NEW P, NEW T, DraftNames(I, K, N), DraftInv(I, K, N),
         NEW view, view \in PageView(N), NEW row, row \in PageRow(N), Staffs(I, K, N, P, T)!Update(K, view, row)
  PROVE  /\ Owing(K)' <= Owing(K) + 1
         /\ ~Staffs(I, K, N, P, T)!Wasted(K) /\ (shown[K] # None \/ ~Fires(view)) => Owing(K)' <= Owing(K)
  <1>1. DraftsTyped(I, K, N) /\ K \in I \cup {K} /\ (timer[K] = None \/ call[K] = None)
    BY DEF DraftInv, OneOfTwo
  <1>2. /\ shown[K] = None => shown'[K] = None
        /\ \/ row.name \in Wordless /\ notice' = notice /\ timer' = timer /\ call' = call
           \/ /\ row.name \notin Wordless
              /\ call'[K] = None /\ timer'[K] = view
    <2>1. Updated(I, K, N, K, view, row)
      BY <1>1, UpdateFits
    <2> QED
      BY <1>1, <2>1 DEF Updated
  <1>3. Owing(K) \in 0 .. 2 /\ Owing(K)' \in 0 .. 2
    BY OwedIsFew
  <1>4. CASE notice' = notice /\ timer' = timer /\ call' = call
    <2>1. Owing(K)' <= Owing(K)
      BY <1>2, <1>4, OwesNoMore
    <2> QED
      BY <1>3, <2>1
  <1>5. CASE call'[K] = None /\ timer'[K] = view
    <2>1. Owing(K)' = IF shown'[K] # None \/ (view # None /\ Fires(view)) THEN 1 ELSE 0
      BY <1>5 DEF Owing, Owed, Fires
    <2>2. Owing(K)' <= Owing(K) + 1
      BY <1>3, <2>1
    <2>3. ASSUME ~Staffs(I, K, N, P, T)!Wasted(K), shown[K] # None \/ ~Fires(view)
          PROVE  Owing(K)' <= Owing(K)
      <3>1. CASE shown[K] # None
        <4>1. call[K] = None \/ call[K].state # "done"
          BY <2>3 DEF Staffs!Wasted
        <4>2. Owing(K) >= 1
          BY <3>1, <4>1 DEF Owing, Owed
        <4> QED
          BY <1>3, <2>1, <4>2
      <3>2. CASE shown[K] = None
        <4>1. ~Fires(view) /\ shown'[K] = None
          BY <1>2, <2>3, <3>2
        <4>2. Owing(K)' = 0
          BY <2>1, <4>1
        <4> QED
          BY <1>3, <4>2
      <3> QED
        BY <3>1, <3>2
    <2> QED
      BY <2>2, <2>3
  <1> QED
    BY <1>2, <1>4, <1>5

\* The page.

LEMMA AddMasterKeeps ==
  ASSUME NEW I, NEW K, NEW N, NEW P, NEW T, DraftNames(I, K, N), DraftInv(I, K, N),
         Staffs(I, K, N, P, T)!AddMaster
  PROVE  DraftInv(I, K, N)'
  <1>1. /\ shown' = [shown EXCEPT ![K] = Staffs(I, K, N, P, T)!NewRow]
        /\ notice' = [notice EXCEPT ![K] = "idle"]
        /\ UNCHANGED <<stored, raced, erased, timer, call, publisher, removal>>
    BY DEF Staffs!AddMaster, Staffs!server
  <1>2. DraftsTyped(I, K, N) /\ AnswersKnown(I, K) /\ OneOfTwo(I, K) /\ RemovesDrafts(I)
    BY DEF DraftInv
  <1>3. /\ tally.presses \in Nat /\ tally.added \in Nat /\ tally.created \in Nat
        /\ tally.lost \in Nat /\ tally.excuses \in Nat
        /\ tally' = [tally EXCEPT !.presses = @ + 1, !.added = @ + 1]
    BY <1>2 DEF DraftsTyped, Tally, Staffs!AddMaster
  <1>4. CountsRise /\ tally'.added >= tally.added + 1
    <2>1. tally = [presses |-> tally.presses, added |-> tally.added, created |-> tally.created,
                   lost |-> tally.lost, excuses |-> tally.excuses]
      BY <1>2 DEF DraftsTyped, Tally, CountsRise
    <2>2. tally' = [tally EXCEPT !.presses = tally.presses + 1, !.added = tally.added + 1]
      BY <1>3
    <2>3. tally' = [presses |-> tally.presses + 1, added |-> tally.added + 1, created |-> tally.created,
                    lost |-> tally.lost, excuses |-> tally.excuses]
      BY <2>1, <2>2
    <2> QED
      BY <1>3, <2>3 DEF Tally, CountsRise
  <1>5. Staffs(I, K, N, P, T)!NewRow \in PageRow(N)
    BY DEF Staffs!NewRow, Staffs!Empty, PageRow, Marks, Named
  <1>6. DraftsTyped(I, K, N)'
    BY <1>1, <1>2, <1>4, <1>5 DEF DraftsTyped, Notices, CountsRise
  <1>7. AnswersKnown(I, K)' /\ OneOfTwo(I, K)' /\ RemovesDrafts(I)'
    BY <1>1, <1>2 DEF AnswersKnown, OneOfTwo, RemovesDrafts
  <1>8. Owing(K)' <= Owing(K) + 1
    <2>1. shown[K] = None /\ notice'[K] = "idle" /\ timer'[K] = timer[K] /\ call'[K] = call[K]
      BY <1>1, <1>2 DEF DraftsTyped, Staffs!AddMaster
    <2>2. Owing(K)' <= IF call[K] # None /\ call[K].state = "sent" THEN 2 ELSE 1
      BY <2>1 DEF Owing, Owed
    <2>3. Owing(K) \in 0 .. 2 /\ (call[K] # None /\ call[K].state = "sent" => Owing(K) >= 1)
      BY OwedIsFew DEF Owing, Owed
    <2>4. Owing(K)' \in 0 .. 2
      BY OwedIsFew
    <2> QED
      BY <2>2, <2>3, <2>4
  <1>9. RecordsCounted(K)'
    BY <1>4, <1>8, CountsOn
  <1> QED
    BY <1>6, <1>7, <1>9 DEF DraftInv

\* What a timer, a press that saves and a publication have in common.
LEMMA FlushKeeps ==
  ASSUME NEW I, NEW K, NEW N, NEW P, NEW T, DraftNames(I, K, N), DraftInv(I, K, N),
         NEW k, k \in I \cup {K}, NEW view, view \in PageView(N), NEW force, force \in BOOLEAN,
         Staffs(I, K, N, P, T)!Flush(k, view, force),
         \/ ~force /\ timer[k] # None /\ view = timer[k]
         \/ force /\ shown[k] # None /\ view = Staffs(I, K, N, P, T)!View(k),
         UNCHANGED <<stored, raced, erased, shown, removal>>,
         publisher' \in Publication(I, K, N) \cup {None},
         publisher' # None /\ publisher'.state = "done" => publisher'.saved # None,
         CountsRise
  PROVE  DraftInv(I, K, N)'
  <1>1. DraftsTyped(I, K, N) /\ AnswersKnown(I, K) /\ OneOfTwo(I, K) /\ RemovesDrafts(I)
    BY DEF DraftInv
  <1>2. /\ timer' = [timer EXCEPT ![k] = None]
        /\ timer' \in [I \cup {K} -> PageView(N) \cup {None}]
        /\ call' \in [I \cup {K} -> SaveCall(I, K, N) \cup {None}]
        /\ notice' \in [I \cup {K} -> Notices]
        /\ \A j \in I \cup {K} : j # k => call'[j] = call[j] /\ notice'[j] = notice[j] /\ timer'[j] = timer[j]
        /\ timer'[k] = None
        /\ \/ /\ force \/ Fires(view)
              /\ view.notice # "saving"
              /\ call'[k] # None /\ call'[k].state = "sent" /\ call'[k].id = k /\ notice'[k] = "saving"
           \/ /\ ~Fires(view)
              /\ call'[k] = call[k]
              /\ notice'[k] = notice[k] \/ (~force /\ notice'[k] = "saved")
    <2>1. Flushed(I, K, N, k, view, force)
      BY <1>1, FlushFits
    <2> QED
      BY <2>1 DEF Flushed
  <1>3. DraftsTyped(I, K, N)'
    BY <1>1, <1>2 DEF DraftsTyped, CountsRise
  <1>4. AnswersKnown(I, K)'
    BY <1>1, <1>2 DEF AnswersKnown
  <1>5. OneOfTwo(I, K)'
    BY <1>1, <1>2 DEF OneOfTwo
  <1>6. RemovesDrafts(I)'
    BY <1>1, RemovesStay
  <1>7. Owing(K)' <= Owing(K)
    <2>1. CASE k # K
      BY <1>2, <2>1, OwesNoMore
    <2>2. CASE k = K /\ ~force /\ timer[k] # None /\ view = timer[k]
      <3>1. call[K] = None /\ ~force
        BY <1>1, <2>2 DEF OneOfTwo
      <3>2. Owing(K) = IF shown[K] # None \/ Fires(view) THEN 1 ELSE 0
        BY <2>2, <3>1 DEF Owing, Owed
      <3>3. CASE Fires(view) /\ call'[K] # None /\ call'[K].state = "sent" /\ notice'[K] = "saving"
        BY <1>2, <3>2, <3>3 DEF Owing, Owed
      <3>4. CASE ~Fires(view) /\ call'[K] = call[K]
        BY <1>2, <2>2, <3>1, <3>2, <3>4 DEF Owing, Owed
      <3> QED
        BY <1>2, <2>2, <3>1, <3>3, <3>4
    <2>3. CASE k = K /\ force /\ shown[k] # None /\ view = Staffs(I, K, N, P, T)!View(k)
      <3>1. shown[K] # None /\ view.notice = notice[K]
        BY <2>3 DEF Staffs!View
      <3>2. CASE view.notice # "saving" /\ call'[K] # None /\ call'[K].state = "sent" /\ notice'[K] = "saving"
        BY <3>1, <3>2 DEF Owing, Owed
      <3>3. CASE call'[K] = call[K] /\ notice'[K] = notice[K]
        BY <1>2, <2>3, <3>1, <3>3 DEF Owing, Owed
      <3> QED
        BY <1>2, <2>3, <3>2, <3>3
    <2> QED
      BY <2>1, <2>2, <2>3
  <1>8. RecordsCounted(K)'
    BY <1>7, CountsOn
  <1> QED
    BY <1>3, <1>4, <1>5, <1>6, <1>8 DEF DraftInv

\* What a key and a publication that failed have in common.
LEMMA UpdateKeeps ==
  ASSUME NEW I, NEW K, NEW N, NEW P, NEW T, DraftNames(I, K, N), DraftInv(I, K, N), NEW k, k \in I \cup {K},
         NEW view, view \in PageView(N), NEW row, row \in PageRow(N), Staffs(I, K, N, P, T)!Update(k, view, row),
         UNCHANGED <<stored, raced, erased, removal>>,
         publisher' \in Publication(I, K, N) \cup {None},
         publisher' # None /\ publisher'.state = "done" => publisher'.saved # None,
         CountsRise,
         \/ k # K \/ row.name \in Wordless \/ tally'.excuses >= tally.excuses + 1
         \/ ~Staffs(I, K, N, P, T)!Wasted(K) /\ (shown[K] # None \/ ~Fires(view))
  PROVE  DraftInv(I, K, N)'
  <1>1. DraftsTyped(I, K, N) /\ AnswersKnown(I, K) /\ OneOfTwo(I, K) /\ RemovesDrafts(I)
    BY DEF DraftInv
  <1>2. Updated(I, K, N, k, view, row)
    BY <1>1, UpdateFits
  <1>3. DraftsTyped(I, K, N)'
    BY <1>1, <1>2 DEF DraftsTyped, Updated, CountsRise
  <1>4. AnswersKnown(I, K)'
    BY <1>1, <1>2 DEF AnswersKnown, Updated
  <1>5. OneOfTwo(I, K)'
    BY <1>1, <1>2 DEF OneOfTwo, Updated
  <1>6. RemovesDrafts(I)'
    BY <1>1, RemovesStay
  <1>7. RecordsCounted(K)'
    <2>1. CASE k # K \/ row.name \in Wordless
      <3>1. /\ (shown[K] = None => shown'[K] = None) /\ notice'[K] = notice[K]
            /\ timer'[K] = timer[K] /\ call'[K] = call[K]
        BY <1>2, <2>1 DEF Updated
      <3>2. Owing(K)' <= Owing(K)
        BY <3>1, OwesNoMore
      <3> QED
        BY <3>2, CountsOn
    <2>2. CASE k = K
      <3>1. /\ Owing(K)' <= Owing(K) + 1
            /\ ~Staffs(I, K, N, P, T)!Wasted(K) /\ (shown[K] # None \/ ~Fires(view)) => Owing(K)' <= Owing(K)
        BY <2>2, UpdateCounts
      <3>2. CASE Owing(K)' <= Owing(K)
        BY <3>2, CountsOn
      <3>3. CASE tally'.excuses >= tally.excuses + 1
        BY <3>1, <3>3, CountsOn
      <3> QED
        BY <2>1, <2>2, <3>1, <3>2, <3>3
    <2> QED
      BY <2>1, <2>2
  <1> QED
    BY <1>3, <1>4, <1>5, <1>6, <1>7 DEF DraftInv

LEMMA TypeKeeps ==
  ASSUME NEW I, NEW K, NEW N, NEW P, NEW T, DraftNames(I, K, N), DraftInv(I, K, N), NEW k, k \in I \cup {K},
         NEW name, name \in N, Staffs(I, K, N, P, T)!Type(k, name)
  PROVE  DraftInv(I, K, N)'
  <1>1. DraftsTyped(I, K, N) /\ AnswersKnown(I, K)
    BY DEF DraftInv
  <1>2. shown[k] # None /\ UNCHANGED <<stored, raced, erased, publisher, removal>>
    BY DEF Staffs!Type, Staffs!server
  <1>3. PICK view : view = Staffs(I, K, N, P, T)!View(k) /\ view \in PageView(N)
    <2>1. shown[k] \in PageRow(N) /\ notice[k] \in Notices
      BY <1>1, <1>2 DEF DraftsTyped
    <2>2. [row |-> shown[k], notice |-> notice[k]] \in PageView(N)
      BY <2>1 DEF PageView
    <2>3. Staffs(I, K, N, P, T)!View(k) = [row |-> shown[k], notice |-> notice[k]]
      BY DEF Staffs!View
    <2> QED
      BY <2>2, <2>3
  <1>4. PICK row : row = [shown[k] EXCEPT !.name = name] /\ row \in PageRow(N) /\ row.name = name
    <2>1. shown[k] \in PageRow(N) /\ name \in Named(N)
      BY <1>1, <1>2 DEF DraftsTyped, Named
    <2>2. [shown[k] EXCEPT !.name = name] = [status |-> shown[k].status, name |-> name, last |-> shown[k].last]
      BY <2>1 DEF PageRow
    <2> QED
      BY <2>1, <2>2 DEF PageRow
  <1>5. Staffs(I, K, N, P, T)!Update(k, view, row)
    BY <1>3, <1>4 DEF Staffs!Type
  <1>6. PICK excuse \in BOOLEAN :
          /\ excuse = (Staffs(I, K, N, P, T)!Wasted(k) /\ ~Staffs(I, K, N, P, T)!Blank(name))
          /\ Staffs(I, K, N, P, T)!Pressed(excuse)
    BY DEF Staffs!Type
  <1>7. /\ CountsRise
        /\ excuse => tally'.excuses >= tally.excuses + 1
    BY <1>1, <1>6, PressFits DEF DraftsTyped
  <1>8. Staffs(I, K, N, P, T)!Blank(name) => row.name \in Wordless
    BY <1>4 DEF Staffs!Blank, Staffs!Empty, Staffs!Space, Wordless
  <1>9. \/ k # K \/ row.name \in Wordless \/ tally'.excuses >= tally.excuses + 1
        \/ ~Staffs(I, K, N, P, T)!Wasted(K) /\ (shown[K] # None \/ ~Fires(view))
    BY <1>2, <1>6, <1>7, <1>8
  <1>10. /\ publisher' \in Publication(I, K, N) \cup {None}
         /\ publisher' # None /\ publisher'.state = "done" => publisher'.saved # None
    BY <1>1, <1>2 DEF DraftsTyped, AnswersKnown
  <1> QED
    BY <1>2, <1>3, <1>4, <1>5, <1>7, <1>9, <1>10, UpdateKeeps

LEMMA DueKeeps ==
  ASSUME NEW I, NEW K, NEW N, NEW P, NEW T, DraftNames(I, K, N), DraftInv(I, K, N), NEW k, k \in I \cup {K},
         Staffs(I, K, N, P, T)!Due(k)
  PROVE  DraftInv(I, K, N)'
  <1>1. DraftsTyped(I, K, N) /\ AnswersKnown(I, K)
    BY DEF DraftInv
  <1>2. timer[k] # None /\ UNCHANGED <<stored, raced, erased, shown, publisher, removal, tally>>
    BY DEF Staffs!Due, Staffs!server
  <1>3. PICK view : view = timer[k] /\ view \in PageView(N)
    BY <1>1, <1>2 DEF DraftsTyped
  <1>4. PICK force \in BOOLEAN : ~force
    OBVIOUS
  <1>5. Staffs(I, K, N, P, T)!Flush(k, view, force)
    <2>1. force = FALSE
      BY <1>4
    <2> QED
      BY <1>3, <2>1 DEF Staffs!Due
  <1>6. /\ publisher' \in Publication(I, K, N) \cup {None}
        /\ publisher' # None /\ publisher'.state = "done" => publisher'.saved # None
    BY <1>1, <1>2 DEF DraftsTyped, AnswersKnown
  <1>7. CountsRise
    BY <1>1, <1>2 DEF DraftsTyped, Tally, CountsRise
  <1> QED
    BY <1>2, <1>3, <1>4, <1>5, <1>6, <1>7, FlushKeeps

\* A press that saves what the page shows.
LEMMA SaveKeeps ==
  ASSUME NEW I, NEW K, NEW N, NEW P, NEW T, DraftNames(I, K, N), DraftInv(I, K, N), NEW k, k \in I \cup {K},
         shown[k] # None, Staffs(I, K, N, P, T)!Flush(k, Staffs(I, K, N, P, T)!View(k), TRUE),
         Staffs(I, K, N, P, T)!Pressed(FALSE),
         UNCHANGED <<stored, raced, erased, shown, removal>>,
         publisher' \in Publication(I, K, N) \cup {None},
         publisher' # None /\ publisher'.state = "done" => publisher'.saved # None
  PROVE  DraftInv(I, K, N)'
  <1>1. DraftsTyped(I, K, N)
    BY DEF DraftInv
  <1>2. PICK view : view = Staffs(I, K, N, P, T)!View(k) /\ view \in PageView(N)
    BY <1>1 DEF DraftsTyped, PageView, Staffs!View
  <1>3. PICK force \in BOOLEAN : force = TRUE
    OBVIOUS
  <1>4. Staffs(I, K, N, P, T)!Flush(k, view, force)
    BY <1>2, <1>3
  <1>5. PICK excuse \in BOOLEAN : excuse = FALSE
    OBVIOUS
  <1>6. Staffs(I, K, N, P, T)!Pressed(excuse)
    BY <1>5
  <1>7. CountsRise
    BY <1>1, <1>6, PressFits DEF DraftsTyped
  <1> QED
    BY <1>2, <1>3, <1>4, <1>7, FlushKeeps

LEMMA ForceKeeps ==
  ASSUME NEW I, NEW K, NEW N, NEW P, NEW T, DraftNames(I, K, N), DraftInv(I, K, N), NEW k, k \in I \cup {K},
         Staffs(I, K, N, P, T)!Force(k)
  PROVE  DraftInv(I, K, N)'
  <1>1. DraftsTyped(I, K, N) /\ AnswersKnown(I, K)
    BY DEF DraftInv
  <1>2. /\ shown[k] # None /\ Staffs(I, K, N, P, T)!Flush(k, Staffs(I, K, N, P, T)!View(k), TRUE)
        /\ Staffs(I, K, N, P, T)!Pressed(FALSE)
        /\ UNCHANGED <<stored, raced, erased, shown, publisher, removal>>
    BY DEF Staffs!Force, Staffs!server
  <1>3. /\ publisher' \in Publication(I, K, N) \cup {None}
        /\ publisher' # None /\ publisher'.state = "done" => publisher'.saved # None
    BY <1>1, <1>2 DEF DraftsTyped, AnswersKnown
  <1> QED
    BY <1>2, <1>3, SaveKeeps

LEMMA PublishMasterKeeps ==
  ASSUME NEW I, NEW K, NEW N, NEW P, NEW T, DraftNames(I, K, N), DraftInv(I, K, N), NEW k, k \in I \cup {K},
         Staffs(I, K, N, P, T)!PublishMaster(k)
  PROVE  DraftInv(I, K, N)'
  <1>1. DraftsTyped(I, K, N)
    BY DEF DraftInv
  <1>2. /\ shown[k] # None /\ Staffs(I, K, N, P, T)!Flush(k, Staffs(I, K, N, P, T)!View(k), TRUE)
        /\ Staffs(I, K, N, P, T)!Pressed(FALSE)
        /\ UNCHANGED <<stored, raced, erased, shown, removal>>
    BY DEF Staffs!PublishMaster, Staffs!server
  <1>3. PICK view : view = Staffs(I, K, N, P, T)!View(k) /\ view \in PageView(N)
    BY <1>1, <1>2 DEF DraftsTyped, PageView, Staffs!View
  <1>4. PICK state \in {"saving", "sent"} : publisher' = [id |-> k, view |-> view, saved |-> None, state |-> state]
    BY <1>3 DEF Staffs!PublishMaster
  <1>5. publisher' \in Publication(I, K, N) /\ publisher'.state # "done"
    BY <1>3, <1>4 DEF Publication
  <1> QED
    BY <1>2, <1>5, SaveKeeps

LEMMA NotPublishedKeeps ==
  ASSUME NEW I, NEW K, NEW N, NEW P, NEW T, DraftNames(I, K, N), DraftInv(I, K, N), NEW k, k \in I \cup {K},
         Staffs(I, K, N, P, T)!NotPublished(k)
  PROVE  DraftInv(I, K, N)'
  <1>1. DraftsTyped(I, K, N) /\ AnswersKnown(I, K)
    BY DEF DraftInv
  <1>2. publisher # None /\ publisher' = None /\ UNCHANGED <<stored, raced, erased, removal>>
    BY DEF Staffs!NotPublished, Staffs!Over, Staffs!Publishing, Staffs!server
  <1>3. PICK view : view = publisher.view /\ view \in PageView(N) /\ view.row \in PageRow(N)
    BY <1>1, <1>2 DEF DraftsTyped, Publication, PageView
  <1>4. PICK row : row = [view.row EXCEPT !.status = "PUBLISHED"] /\ row \in PageRow(N) /\ row.name = view.row.name
    <2>1. [view.row EXCEPT !.status = "PUBLISHED"] =
            [status |-> "PUBLISHED", name |-> view.row.name, last |-> view.row.last]
      BY <1>3 DEF PageRow
    <2> QED
      BY <1>3, <2>1 DEF PageRow, Marks
  <1>5. Staffs(I, K, N, P, T)!Update(k, view, row)
    BY <1>3, <1>4 DEF Staffs!NotPublished
  <1>6. PICK excuse \in BOOLEAN :
          /\ excuse = (Staffs(I, K, N, P, T)!Wasted(k) \/ (k = K /\ Staffs(I, K, N, P, T)!Sends(view, FALSE)))
          /\ Staffs(I, K, N, P, T)!Excused(excuse)
    BY <1>3 DEF Staffs!NotPublished
  <1>7. /\ CountsRise
        /\ excuse => tally'.excuses >= tally.excuses + 1
    BY <1>1, <1>6, PressFits DEF DraftsTyped
  <1>8. Fires(view) => Staffs(I, K, N, P, T)!Sends(view, FALSE)
    BY DEF Staffs!Sends, Staffs!Blank, Staffs!Empty, Staffs!Space, Wordless, Fires
  <1>9. \/ k # K \/ row.name \in Wordless \/ tally'.excuses >= tally.excuses + 1
        \/ ~Staffs(I, K, N, P, T)!Wasted(K) /\ (shown[K] # None \/ ~Fires(view))
    BY <1>6, <1>7, <1>8
  <1> QED
    BY <1>2, <1>3, <1>4, <1>5, <1>7, <1>9, UpdateKeeps

\* A step that leaves the saving of the rows alone.
LEMMA RowsStay ==
  ASSUME NEW I, NEW K, NEW N, DraftInv(I, K, N), UNCHANGED <<notice, timer, call>>,
         shown' \in [I \cup {K} -> PageRow(N) \cup {None}], shown[K] = None => shown'[K] = None,
         stored' \in [I -> DraftRow(N) \cup {None}],
         publisher' \in Publication(I, K, N) \cup {None},
         publisher' # None /\ publisher'.state = "done" => publisher'.saved # None,
         removal' \in Removal(I) \cup {None}, RemovesDrafts(I)',
         CountsRise
  PROVE  DraftInv(I, K, N)'
  <1>1. DraftsTyped(I, K, N) /\ AnswersKnown(I, K) /\ OneOfTwo(I, K)
    BY DEF DraftInv
  <1>2. DraftsTyped(I, K, N)'
    BY <1>1 DEF DraftsTyped, CountsRise
  <1>3. AnswersKnown(I, K)' /\ OneOfTwo(I, K)'
    BY <1>1 DEF AnswersKnown, OneOfTwo
  <1>4. Owing(K)' <= Owing(K)
    BY OwesNoMore
  <1>5. RecordsCounted(K)'
    BY <1>4, CountsOn
  <1> QED
    BY <1>2, <1>3, <1>5 DEF DraftInv

\* The publication goes on, and nothing else is done.
LEMMA PublisherKeeps ==
  ASSUME NEW I, NEW K, NEW N, DraftInv(I, K, N), UNCHANGED <<stored, notice, timer, call, removal, raced, erased>>,
         shown' \in [I \cup {K} -> PageRow(N) \cup {None}], shown[K] = None => shown'[K] = None,
         publisher' \in Publication(I, K, N) \cup {None},
         publisher' # None /\ publisher'.state = "done" => publisher'.saved # None,
         CountsRise
  PROVE  DraftInv(I, K, N)'
  <1>1. DraftsTyped(I, K, N) /\ RemovesDrafts(I)
    BY DEF DraftInv
  <1>2. stored' \in [I -> DraftRow(N) \cup {None}] /\ removal' \in Removal(I) \cup {None}
    BY <1>1 DEF DraftsTyped
  <1>3. RemovesDrafts(I)'
    BY <1>1, RemovesStay
  <1> QED
    BY <1>2, <1>3, RowsStay

\* Setting how far the publication is.
LEMMA PublisherFits ==
  ASSUME NEW I, NEW K, NEW N, publisher \in Publication(I, K, N), NEW state,
         state \in {"sent", "checked", "refused", "failed"}, publisher' = [publisher EXCEPT !.state = state]
  PROVE  publisher' \in Publication(I, K, N) /\ publisher'.state # "done"
  <1>1. publisher' = [id |-> publisher.id, view |-> publisher.view, saved |-> publisher.saved, state |-> state]
    BY DEF Publication
  <1> QED
    BY <1>1 DEF Publication

\* A publication goes on, or is over, and nothing else happens.
PublisherMoves ==
  /\ publisher # None
  /\ UNCHANGED <<stored, shown, notice, timer, call, removal, raced, erased>>
  /\ \/ publisher' = None
     \/ \E state \in {"sent", "checked", "refused", "failed"} : publisher' = [publisher EXCEPT !.state = state]

LEMMA PublishStepsKeep ==
  ASSUME NEW I, NEW K, NEW N, NEW P, NEW T, DraftNames(I, K, N), DraftInv(I, K, N), NEW k, k \in I \cup {K},
         \/ Staffs(I, K, N, P, T)!PublishSaved(k)
         \/ \E live \in BOOLEAN : Staffs(I, K, N, P, T)!PublishCheck(k, live)
         \/ Staffs(I, K, N, P, T)!LosePublish(k)
         \/ Staffs(I, K, N, P, T)!SubscriptionRequired(k)
  PROVE  DraftInv(I, K, N)'
  <1>1. DraftsTyped(I, K, N)
    BY DEF DraftInv
  <1>2. PublisherMoves
    <2>1. CASE Staffs(I, K, N, P, T)!PublishSaved(k)
      BY <2>1 DEF PublisherMoves, Staffs!PublishSaved, Staffs!Publishing, Staffs!server
    <2>2. ASSUME NEW live \in BOOLEAN, Staffs(I, K, N, P, T)!PublishCheck(k, live)
          PROVE  PublisherMoves
      BY <2>2 DEF PublisherMoves, Staffs!PublishCheck, Staffs!Publishing, Staffs!page
    <2>3. CASE Staffs(I, K, N, P, T)!LosePublish(k)
      BY <2>3 DEF PublisherMoves, Staffs!LosePublish, Staffs!Publishing, Staffs!page, Staffs!server
    <2>4. CASE Staffs(I, K, N, P, T)!SubscriptionRequired(k)
      BY <2>4 DEF PublisherMoves, Staffs!SubscriptionRequired, Staffs!Over, Staffs!Publishing, Staffs!server
    <2> QED
      BY <2>1, <2>2, <2>3, <2>4
  <1>3. publisher' \in Publication(I, K, N) \cup {None} /\ (publisher' # None => publisher'.state # "done")
    BY <1>1, <1>2, PublisherFits DEF DraftsTyped, PublisherMoves
  <1>4. CountsRise
    <2>1. PICK excuse \in BOOLEAN : excuse = FALSE
      OBVIOUS
    <2>2. CASE Staffs(I, K, N, P, T)!Lost(FALSE)
      <3>1. Staffs(I, K, N, P, T)!Lost(excuse)
        BY <2>1, <2>2
      <3> QED
        BY <1>1, <3>1, PressFits DEF DraftsTyped
    <2>3. CASE tally' = tally
      BY <1>1, <2>3 DEF DraftsTyped, Tally, CountsRise
    <2>4. Staffs(I, K, N, P, T)!Lost(FALSE) \/ tally' = tally
      BY DEF Staffs!PublishSaved, Staffs!PublishCheck, Staffs!LosePublish, Staffs!SubscriptionRequired
    <2> QED
      BY <2>2, <2>3, <2>4
  <1>5. shown' \in [I \cup {K} -> PageRow(N) \cup {None}] /\ shown'[K] = shown[K]
    BY <1>1, <1>2 DEF DraftsTyped, PublisherMoves
  <1> QED
    BY <1>2, <1>3, <1>4, <1>5, PublisherKeeps DEF PublisherMoves

LEMMA PublishedKeeps ==
  ASSUME NEW I, NEW K, NEW N, NEW P, NEW T, DraftNames(I, K, N), DraftInv(I, K, N), NEW k, k \in I \cup {K},
         Staffs(I, K, N, P, T)!Published(k)
  PROVE  DraftInv(I, K, N)'
  <1>1. DraftsTyped(I, K, N) /\ AnswersKnown(I, K)
    BY DEF DraftInv
  <1>2. /\ publisher # None /\ publisher.state = "done" /\ publisher' = None
        /\ UNCHANGED <<stored, raced, erased, removal, notice, timer, call, tally>>
    BY DEF Staffs!Published, Staffs!Over, Staffs!Publishing, Staffs!server
  <1>3. publisher.saved \in DraftRow(N)
    BY <1>1, <1>2 DEF DraftsTyped, AnswersKnown, Publication
  <1>4. Staffs(I, K, N, P, T)!RowOf(publisher.saved) \in PageRow(N)
    BY <1>3 DEF Staffs!RowOf, DraftRow, PageRow
  <1>5. shown' = [shown EXCEPT ![k] = IF shown[k] = None THEN None ELSE Staffs(I, K, N, P, T)!RowOf(publisher.saved)]
    BY DEF Staffs!Published
  <1>6. shown' \in [I \cup {K} -> PageRow(N) \cup {None}] /\ (shown[K] = None => shown'[K] = None)
    BY <1>1, <1>4, <1>5 DEF DraftsTyped
  <1>7. CountsRise
    BY <1>1, <1>2 DEF DraftsTyped, Tally, CountsRise
  <1> QED
    BY <1>2, <1>6, <1>7, PublisherKeeps

LEMMA RemoveMasterKeeps ==
  ASSUME NEW I, NEW K, NEW N, NEW P, NEW T, DraftNames(I, K, N), DraftInv(I, K, N), NEW k, k \in I \cup {K},
         Staffs(I, K, N, P, T)!RemoveMaster(k)
  PROVE  DraftInv(I, K, N)'
  <1>1. DraftsTyped(I, K, N) /\ AnswersKnown(I, K) /\ OneOfTwo(I, K) /\ RemovesDrafts(I)
    BY DEF DraftInv
  <1>2. /\ timer' = [timer EXCEPT ![k] = None]
        /\ call' = [call EXCEPT ![k] = None]
        /\ removal = None
        /\ UNCHANGED <<stored, raced, erased, publisher>>
    BY DEF Staffs!RemoveMaster, Staffs!server
  <1>3. PICK t \in Notices : notice' = [notice EXCEPT ![k] = t]
    <2>1. notice' = [notice EXCEPT ![k] = IF call[k] = None THEN notice[k] ELSE "error"]
      BY DEF Staffs!RemoveMaster
    <2>2. (IF call[k] = None THEN notice[k] ELSE "error") \in Notices
      BY <1>1 DEF DraftsTyped, Notices
    <2> QED
      BY <2>1, <2>2
  <1>4. \/ k = K /\ shown' = [shown EXCEPT ![k] = None] /\ removal' = removal
        \/ k # K /\ shown' = shown /\ removal' = [id |-> k, state |-> "sent"]
    BY DEF Staffs!RemoveMaster
  <1>5. CountsRise
    <2>1. PICK excuse \in BOOLEAN : excuse = Staffs(I, K, N, P, T)!Wasted(k) /\ Staffs(I, K, N, P, T)!Pressed(excuse)
      <3>1. Staffs(I, K, N, P, T)!Wasted(k) \in BOOLEAN
        BY DEF Staffs!Wasted
      <3> QED
        BY <3>1 DEF Staffs!RemoveMaster
    <2> QED
      BY <1>1, <2>1, PressFits DEF DraftsTyped
  <1>6. DraftsTyped(I, K, N)'
    <2>1. shown' \in [I \cup {K} -> PageRow(N) \cup {None}]
      BY <1>1, <1>4 DEF DraftsTyped
    <2>2. removal' \in Removal(I) \cup {None}
      BY <1>1, <1>4 DEF DraftsTyped, Removal
    <2> QED
      BY <1>1, <1>2, <1>3, <1>5, <2>1, <2>2 DEF DraftsTyped, CountsRise
  <1>7. AnswersKnown(I, K)' /\ OneOfTwo(I, K)'
    BY <1>1, <1>2 DEF DraftsTyped, AnswersKnown, OneOfTwo
  <1>8. RemovesDrafts(I)'
    BY <1>1, <1>2, <1>4 DEF RemovesDrafts
  <1>9. Owing(K)' <= Owing(K)
    <2>1. CASE k = K
      <3>1. shown'[K] = None /\ timer'[K] = None /\ call'[K] = None
        BY <1>1, <1>2, <1>4, <2>1 DEF DraftsTyped
      <3>2. Owing(K)' = 0 /\ Owing(K) \in 0 .. 2
        BY <3>1, OwedIsFew DEF Owing, Owed
      <3> QED
        BY <3>2
    <2>2. CASE k # K
      <3>1. shown'[K] = shown[K] /\ notice'[K] = notice[K] /\ timer'[K] = timer[K] /\ call'[K] = call[K]
        BY <1>1, <1>2, <1>3, <1>4, <2>2 DEF DraftsTyped
      <3> QED
        BY <3>1, OwesNoMore
    <2> QED
      BY <2>1, <2>2
  <1>10. RecordsCounted(K)'
    BY <1>5, <1>9, CountsOn
  <1> QED
    BY <1>6, <1>7, <1>8, <1>10 DEF DraftInv

\* The answers.

LEMMA SavedKeeps ==
  ASSUME NEW I, NEW K, NEW N, NEW P, NEW T, DraftNames(I, K, N), DraftInv(I, K, N), NEW k, k \in I \cup {K},
         Staffs(I, K, N, P, T)!Saved(k)
  PROVE  DraftInv(I, K, N)'
  <1>1. DraftsTyped(I, K, N) /\ AnswersKnown(I, K) /\ OneOfTwo(I, K) /\ RemovesDrafts(I)
    BY DEF DraftInv
  <1>2. /\ call[k] # None /\ call[k].state = "done"
        /\ notice' = [notice EXCEPT ![k] = "saved"] /\ call' = [call EXCEPT ![k] = None]
        /\ UNCHANGED <<stored, raced, erased, timer, publisher, removal, tally>>
    BY DEF Staffs!Saved, Staffs!server
  <1>3. PICK i \in I, row \in PageRow(N) :
          shown' = IF shown[k] = None THEN shown ELSE [shown EXCEPT ![k] = None, ![i] = row]
    <2>1. call[k].id \in I /\ call[k].saved \in DraftRow(N) /\ call[k].name \in Named(N)
      BY <1>1, <1>2 DEF DraftsTyped, AnswersKnown, SaveCall
    <2>2. [status |-> call[k].saved.status, name |-> call[k].saved.name, last |-> call[k].name] \in PageRow(N)
      BY <2>1 DEF DraftRow, PageRow
    <2> QED
      BY <2>1, <2>2 DEF Staffs!Saved
  <1>4. K \notin I
    BY DEF DraftNames
  <1>5. DraftsTyped(I, K, N)'
    <2>1. shown' \in [I \cup {K} -> PageRow(N) \cup {None}]
      BY <1>1, <1>3 DEF DraftsTyped
    <2> QED
      BY <1>1, <1>2, <2>1 DEF DraftsTyped, Notices
  <1>6. AnswersKnown(I, K)' /\ OneOfTwo(I, K)'
    BY <1>1, <1>2 DEF DraftsTyped, AnswersKnown, OneOfTwo
  <1>7. RemovesDrafts(I)'
    BY <1>1, <1>2, RemovesStay
  <1>8. Owing(K)' <= Owing(K)
    <2>1. CASE k = K
      <3>1. shown'[K] = None /\ timer'[K] = None /\ call'[K] = None
        BY <1>1, <1>2, <1>3, <1>4, <2>1 DEF DraftsTyped, OneOfTwo
      <3>2. Owing(K)' = 0 /\ Owing(K) \in 0 .. 2
        BY <3>1, OwedIsFew DEF Owing, Owed
      <3> QED
        BY <3>2
    <2>2. CASE k # K
      <3>1. shown'[K] = shown[K] /\ notice'[K] = notice[K] /\ timer'[K] = timer[K] /\ call'[K] = call[K]
        BY <1>1, <1>2, <1>3, <1>4, <2>2 DEF DraftsTyped
      <3> QED
        BY <3>1, OwesNoMore
    <2> QED
      BY <2>1, <2>2
  <1>9. CountsRise
    BY <1>1, <1>2 DEF DraftsTyped, Tally, CountsRise
  <1>10. RecordsCounted(K)'
    BY <1>8, <1>9, CountsOn
  <1> QED
    BY <1>5, <1>6, <1>7, <1>10 DEF DraftInv

LEMMA NotSavedKeeps ==
  ASSUME NEW I, NEW K, NEW N, NEW P, NEW T, DraftNames(I, K, N), DraftInv(I, K, N), NEW k, k \in I \cup {K},
         Staffs(I, K, N, P, T)!NotSaved(k)
  PROVE  DraftInv(I, K, N)'
  <1>1. DraftsTyped(I, K, N) /\ AnswersKnown(I, K) /\ OneOfTwo(I, K) /\ RemovesDrafts(I)
    BY DEF DraftInv
  <1>2. /\ call[k] # None /\ call[k].state = "failed"
        /\ notice' = [notice EXCEPT ![k] = "error"] /\ call' = [call EXCEPT ![k] = None]
        /\ UNCHANGED <<stored, raced, erased, shown, timer, publisher, removal, tally>>
    BY DEF Staffs!NotSaved, Staffs!server
  <1>3. DraftsTyped(I, K, N)'
    BY <1>1, <1>2 DEF DraftsTyped, Notices
  <1>4. AnswersKnown(I, K)' /\ OneOfTwo(I, K)'
    BY <1>1, <1>2 DEF DraftsTyped, AnswersKnown, OneOfTwo
  <1>5. RemovesDrafts(I)'
    BY <1>1, <1>2, RemovesStay
  <1>6. Owing(K)' <= Owing(K)
    <2>1. CASE k = K
      <3>1. timer'[K] = None /\ call'[K] = None /\ shown'[K] = shown[K] /\ timer[K] = None
        BY <1>1, <1>2, <2>1 DEF DraftsTyped, OneOfTwo
      <3>2. Owing(K)' = (IF shown[K] # None THEN 1 ELSE 0) /\ Owing(K) = (IF shown[K] # None THEN 1 ELSE 0)
        BY <1>2, <2>1, <3>1 DEF Owing, Owed
      <3> QED
        BY <3>2
    <2>2. CASE k # K
      <3>1. shown'[K] = shown[K] /\ notice'[K] = notice[K] /\ timer'[K] = timer[K] /\ call'[K] = call[K]
        BY <1>1, <1>2, <2>2 DEF DraftsTyped
      <3> QED
        BY <3>1, OwesNoMore
    <2> QED
      BY <2>1, <2>2
  <1>7. CountsRise
    BY <1>1, <1>2 DEF DraftsTyped, Tally, CountsRise
  <1>8. RecordsCounted(K)'
    BY <1>6, <1>7, CountsOn
  <1> QED
    BY <1>3, <1>4, <1>5, <1>8 DEF DraftInv

LEMMA RemovedKeeps ==
  ASSUME NEW I, NEW K, NEW N, NEW P, NEW T, DraftNames(I, K, N), DraftInv(I, K, N), NEW k, k \in I \cup {K},
         Staffs(I, K, N, P, T)!Removed(k)
  PROVE  DraftInv(I, K, N)'
  <1>1. DraftsTyped(I, K, N) /\ AnswersKnown(I, K) /\ RemovesDrafts(I)
    BY DEF DraftInv
  <1>2. /\ shown' = [shown EXCEPT ![k] = None] /\ removal' = None
        /\ UNCHANGED <<stored, raced, erased, notice, timer, call, publisher, tally>>
    BY DEF Staffs!Removed, Staffs!server
  <1>3. /\ stored' \in [I -> DraftRow(N) \cup {None}]
        /\ publisher' \in Publication(I, K, N) \cup {None}
        /\ publisher' # None /\ publisher'.state = "done" => publisher'.saved # None
        /\ removal' \in Removal(I) \cup {None}
    BY <1>1, <1>2 DEF DraftsTyped, AnswersKnown
  <1>4. shown' \in [I \cup {K} -> PageRow(N) \cup {None}] /\ (shown[K] = None => shown'[K] = None)
    BY <1>1, <1>2 DEF DraftsTyped
  <1>5. RemovesDrafts(I)'
    BY <1>1, <1>2 DEF RemovesDrafts
  <1>6. CountsRise
    BY <1>1, <1>2 DEF DraftsTyped, Tally, CountsRise
  <1> QED
    BY <1>2, <1>3, <1>4, <1>5, <1>6, RowsStay

\* What the list gives the page.
LEMMA ListedFits ==
  ASSUME NEW I, NEW K, NEW N, NEW P, NEW T, K \notin I, stored \in [I -> DraftRow(N) \cup {None}]
  PROVE  /\ Staffs(I, K, N, P, T)!Listed \in [I \cup {K} -> PageRow(N) \cup {None}]
         /\ Staffs(I, K, N, P, T)!Listed[K] = None
  <1>1. ASSUME NEW k, k \in I, stored[k] # None
        PROVE  Staffs(I, K, N, P, T)!RowOf(stored[k]) \in PageRow(N)
    <2>1. stored[k] \in DraftRow(N)
      BY <1>1
    <2> QED
      BY <2>1 DEF DraftRow, PageRow, Staffs!RowOf
  <1> QED
    BY <1>1 DEF Staffs!Listed, Staffs!Keys

LEMMA ReloadKeeps ==
  ASSUME NEW I, NEW K, NEW N, NEW P, NEW T, DraftNames(I, K, N), DraftInv(I, K, N), Staffs(I, K, N, P, T)!Reload
  PROVE  DraftInv(I, K, N)'
  <1>1. DraftsTyped(I, K, N) /\ AnswersKnown(I, K) /\ RemovesDrafts(I)
    BY DEF DraftInv
  <1>2. /\ \A k \in I \cup {K} : call[k] = None
        /\ shown' = Staffs(I, K, N, P, T)!Listed
        /\ notice' = [k \in I \cup {K} |-> "idle"] /\ timer' = [k \in I \cup {K} |-> None]
        /\ UNCHANGED <<stored, raced, erased, call, publisher, removal, tally>>
    BY DEF Staffs!Reload, Staffs!server, Staffs!Keys
  <1>3. shown' \in [I \cup {K} -> PageRow(N) \cup {None}] /\ shown'[K] = None
    BY <1>1, <1>2, ListedFits DEF DraftsTyped, DraftNames
  <1>4. DraftsTyped(I, K, N)'
    BY <1>1, <1>2, <1>3 DEF DraftsTyped, Notices
  <1>5. AnswersKnown(I, K)' /\ OneOfTwo(I, K)'
    BY <1>1, <1>2 DEF AnswersKnown, OneOfTwo
  <1>6. RemovesDrafts(I)'
    BY <1>1, <1>2, RemovesStay
  <1>7. Owing(K)' <= Owing(K)
    <2>1. timer'[K] = None /\ call'[K] = None
      BY <1>2
    <2>2. Owing(K)' = 0 /\ Owing(K) \in 0 .. 2
      BY <1>3, <2>1, OwedIsFew DEF Owing, Owed
    <2> QED
      BY <2>2
  <1>8. CountsRise
    BY <1>1, <1>2 DEF DraftsTyped, Tally, CountsRise
  <1>9. RecordsCounted(K)'
    BY <1>7, <1>8, CountsOn
  <1> QED
    BY <1>4, <1>5, <1>6, <1>9 DEF DraftInv

\* The server.

LEMMA CreateKeeps ==
  ASSUME NEW I, NEW K, NEW N, NEW P, NEW T, DraftNames(I, K, N), DraftInv(I, K, N), NEW k, k \in I \cup {K},
         Staffs(I, K, N, P, T)!Create(k)
  PROVE  DraftInv(I, K, N)'
  <1>1. DraftsTyped(I, K, N) /\ AnswersKnown(I, K) /\ OneOfTwo(I, K) /\ RemovesDrafts(I) /\ RecordsCounted(K)
    BY DEF DraftInv
  <1>2. /\ k = K /\ call[k] # None /\ call[k].state = "sent" /\ K \notin I
        /\ UNCHANGED <<shown, notice, timer, publisher, removal, raced, erased>>
        /\ tally' = [tally EXCEPT !.created = tally.created + 1]
    BY DEF Staffs!Create, Staffs!page, DraftNames
  <1>3. call[k] \in SaveCall(I, K, N)
    BY <1>1, <1>2 DEF DraftsTyped
  <1>4. PICK i \in I, new \in DraftRow(N) :
          /\ new.status = "DRAFT" /\ new # None
          /\ stored' = [stored EXCEPT ![i] = new]
          /\ call' = [call EXCEPT ![k].state = "done", ![k].id = i, ![k].saved = new]
    <2>1. [status |-> "DRAFT", name |-> call[k].name] \in DraftRow(N)
      BY <1>3 DEF SaveCall, DraftRow, Marks
    <2>2. [status |-> "DRAFT", name |-> call[k].name] # None
      BY <2>1 DEF DraftNames
    <2> QED
      BY <2>1, <2>2 DEF Staffs!Create
  <1>5. PICK c \in SaveCall(I, K, N) : c.state = "done" /\ c.id = i /\ c.saved = new /\ call' = [call EXCEPT ![k] = c]
    <2>1. PICK c : c = [call[k] EXCEPT !.state = "done", !.id = i, !.saved = new]
      OBVIOUS
    <2>2. c \in SaveCall(I, K, N) /\ c.state = "done" /\ c.id = i /\ c.saved = new
      BY <1>3, <1>4, <2>1 DEF SaveCall
    <2>3. call' = [call EXCEPT ![k] = c]
      BY <1>1, <1>4, <2>1 DEF DraftsTyped
    <2> QED
      BY <2>2, <2>3
  <1>6. /\ tally' \in Tally /\ tally'.created = tally.created + 1
        /\ tally'.added = tally.added /\ tally'.excuses = tally.excuses
    <2>1. /\ tally = [presses |-> tally.presses, added |-> tally.added, created |-> tally.created,
                      lost |-> tally.lost, excuses |-> tally.excuses]
          /\ tally.presses \in Nat /\ tally.added \in Nat /\ tally.created \in Nat
          /\ tally.lost \in Nat /\ tally.excuses \in Nat
      BY <1>1 DEF DraftsTyped, Tally, CountsRise
    <2>2. tally' = [presses |-> tally.presses, added |-> tally.added, created |-> tally.created + 1,
                    lost |-> tally.lost, excuses |-> tally.excuses]
      BY <1>2, <2>1
    <2> QED
      BY <2>1, <2>2 DEF Tally
  <1>7. DraftsTyped(I, K, N)'
    <2>1. stored' \in [I -> DraftRow(N) \cup {None}]
      BY <1>1, <1>4 DEF DraftsTyped
    <2>2. call' \in [I \cup {K} -> SaveCall(I, K, N) \cup {None}]
      BY <1>1, <1>5 DEF DraftsTyped
    <2> QED
      BY <1>1, <1>2, <1>6, <2>1, <2>2 DEF DraftsTyped
  <1>8. AnswersKnown(I, K)'
    BY <1>1, <1>2, <1>4, <1>5 DEF DraftsTyped, AnswersKnown
  <1>9. OneOfTwo(I, K)'
    BY <1>1, <1>2, <1>5 DEF DraftsTyped, OneOfTwo
  <1>10. RemovesDrafts(I)'
    BY <1>1, <1>2, <1>4 DEF DraftsTyped, Removal, RemovesDrafts
  <1>11. RecordsCounted(K)'
    <2>1. /\ timer[K] = None /\ timer'[K] = None /\ shown'[K] = shown[K] /\ notice'[K] = notice[K]
          /\ call'[K] = c
      BY <1>1, <1>2, <1>5 DEF DraftsTyped, OneOfTwo
    <2>2. c # None
      BY <1>5 DEF DraftNames
    <2>3. Owing(K) = IF shown[K] # None /\ notice[K] # "saving" THEN 2 ELSE 1
      BY <1>2 DEF Owing, Owed
    <2>4. Owing(K)' = IF shown[K] # None /\ notice[K] # "saving" THEN 1 ELSE 0
      BY <1>5, <2>1, <2>2 DEF Owing, Owed
    <2>5. Owing(K)' = Owing(K) - 1 /\ Owing(K) \in 0 .. 2
      BY <2>3, <2>4
    <2>6. /\ tally.created \in Nat /\ tally.added \in Nat /\ tally.excuses \in Nat
          /\ tally.created + Owing(K) <= tally.added + tally.excuses
      BY <1>1 DEF DraftsTyped, Tally, RecordsCounted
    <2>7. tally'.created + Owing(K)' <= tally'.added + tally'.excuses
      BY <1>6, <2>5, <2>6
    <2> QED
      BY <2>7 DEF RecordsCounted
  <1> QED
    BY <1>7, <1>8, <1>9, <1>10, <1>11 DEF DraftInv

LEMMA UpdateDraftKeeps ==
  ASSUME NEW I, NEW K, NEW N, NEW P, NEW T, DraftNames(I, K, N), DraftInv(I, K, N), NEW k, k \in I \cup {K},
         Staffs(I, K, N, P, T)!UpdateDraft(k)
  PROVE  DraftInv(I, K, N)'
  <1>1. DraftsTyped(I, K, N) /\ AnswersKnown(I, K) /\ OneOfTwo(I, K) /\ RemovesDrafts(I)
    BY DEF DraftInv
  <1>2. /\ k \in I /\ call[k] # None /\ call[k].state = "sent" /\ K \notin I
        /\ UNCHANGED <<shown, notice, timer, publisher, removal, raced, erased, tally>>
    BY DEF Staffs!UpdateDraft, Staffs!page, DraftNames
  <1>3. call[k] \in SaveCall(I, K, N) /\ call[k].id \in I
    BY <1>1, <1>2 DEF DraftsTyped, AnswersKnown
  <1>4. PICK c \in SaveCall(I, K, N) :
          /\ call' = [call EXCEPT ![k] = c]
          /\ c.id \in I /\ (c.state = "done" => c.saved # None)
          /\ \/ stored' = stored
             \/ \E new \in DraftRow(N) :
                  stored[k] # None /\ new.status = stored[k].status /\ stored' = [stored EXCEPT ![k] = new]
    <2>1. CASE stored[k] = None
      <3>1. call' = [call EXCEPT ![k].state = "failed"] /\ stored' = stored
        BY <2>1 DEF Staffs!UpdateDraft
      <3>2. [name |-> call[k].name, state |-> "failed", id |-> call[k].id, saved |-> call[k].saved]
              \in SaveCall(I, K, N)
        BY <1>3 DEF SaveCall
      <3>3. call' = [call EXCEPT ![k] =
              [name |-> call[k].name, state |-> "failed", id |-> call[k].id, saved |-> call[k].saved]]
        <4>1. [call[k] EXCEPT !.state = "failed"] =
                [name |-> call[k].name, state |-> "failed", id |-> call[k].id, saved |-> call[k].saved]
          BY <1>3 DEF SaveCall
        <4>2. call' = [call EXCEPT ![k] = [call[k] EXCEPT !.state = "failed"]]
          BY <1>1, <3>1 DEF DraftsTyped
        <4> QED
          BY <4>1, <4>2
      <3> QED
        BY <1>3, <3>1, <3>2, <3>3
    <2>2. CASE stored[k] # None
      <3>1. PICK new : /\ new = [stored[k] EXCEPT !.name = IF call[k].name = "" THEN stored[k].name ELSE call[k].name]
                       /\ stored' = [stored EXCEPT ![k] = new]
                       /\ call' = [call EXCEPT ![k].state = "done", ![k].saved = new]
        BY <2>2 DEF Staffs!UpdateDraft, Staffs!Empty
      <3>2. stored[k] \in DraftRow(N)
        BY <1>1, <1>2, <2>2 DEF DraftsTyped
      <3>3. PICK name \in Named(N) : name = IF call[k].name = "" THEN stored[k].name ELSE call[k].name
        BY <1>3, <3>2 DEF DraftRow, SaveCall
      <3>4. new = [status |-> stored[k].status, name |-> name]
        BY <3>1, <3>2, <3>3 DEF DraftRow
      <3>5. new \in DraftRow(N) /\ new.status = stored[k].status /\ new # None
        <4>1. new \in DraftRow(N) /\ new.status = stored[k].status
          BY <3>2, <3>4 DEF DraftRow
        <4> QED
          BY <4>1 DEF DraftNames
      <3>6. PICK c : c = [call[k] EXCEPT !.state = "done", !.saved = new]
        OBVIOUS
      <3>7. c \in SaveCall(I, K, N) /\ c.id = call[k].id /\ c.saved = new
        BY <1>3, <3>5, <3>6 DEF SaveCall
      <3>8. call' = [call EXCEPT ![k] = c]
        BY <1>1, <3>1, <3>6 DEF DraftsTyped
      <3> QED
        BY <1>3, <2>2, <3>1, <3>5, <3>7, <3>8
    <2> QED
      BY <2>1, <2>2
  <1>5. stored' \in [I -> DraftRow(N) \cup {None}]
    BY <1>1, <1>4 DEF DraftsTyped
  <1>6. DraftsTyped(I, K, N)'
    BY <1>1, <1>2, <1>4, <1>5 DEF DraftsTyped
  <1>7. AnswersKnown(I, K)'
    BY <1>1, <1>2, <1>4 DEF DraftsTyped, AnswersKnown
  <1>8. OneOfTwo(I, K)'
    BY <1>1, <1>2, <1>4 DEF DraftsTyped, OneOfTwo
  <1>9. RemovesDrafts(I)'
    <2>1. removal # None => removal.id \in I
      BY <1>1 DEF DraftsTyped, Removal
    <2>2. CASE stored' = stored
      BY <1>1, <1>2, <2>2, RemovesStay
    <2>3. ASSUME NEW new \in DraftRow(N), stored[k] # None, new.status = stored[k].status,
                 stored' = [stored EXCEPT ![k] = new]
          PROVE  RemovesDrafts(I)'
      BY <1>1, <1>2, <2>1, <2>3 DEF DraftsTyped, RemovesDrafts
    <2> QED
      BY <1>4, <2>2, <2>3
  <1>10. Owing(K)' <= Owing(K)
    <2>1. shown'[K] = shown[K] /\ notice'[K] = notice[K] /\ timer'[K] = timer[K] /\ call'[K] = call[K]
      BY <1>1, <1>2, <1>4 DEF DraftsTyped
    <2> QED
      BY <2>1, OwesNoMore
  <1>11. CountsRise
    BY <1>1, <1>2 DEF DraftsTyped, Tally, CountsRise
  <1>12. RecordsCounted(K)'
    BY <1>10, <1>11, CountsOn
  <1> QED
    BY <1>6, <1>7, <1>8, <1>9, <1>12 DEF DraftInv

LEMMA PublishUpdateKeeps ==
  ASSUME NEW I, NEW K, NEW N, NEW P, NEW T, DraftNames(I, K, N), DraftInv(I, K, N), NEW k, k \in I \cup {K},
         Staffs(I, K, N, P, T)!PublishUpdate(k)
  PROVE  DraftInv(I, K, N)'
  <1>1. DraftsTyped(I, K, N) /\ RemovesDrafts(I)
    BY DEF DraftInv
  <1>2. /\ publisher # None
        /\ UNCHANGED <<shown, notice, timer, call, removal, tally, erased>>
    BY DEF Staffs!PublishUpdate, Staffs!page, Staffs!Publishing
  <1>3. publisher \in Publication(I, K, N)
    BY <1>1, <1>2 DEF DraftsTyped
  <1>4. /\ shown' \in [I \cup {K} -> PageRow(N) \cup {None}] /\ (shown[K] = None => shown'[K] = None)
        /\ removal' \in Removal(I) \cup {None}
        /\ CountsRise
    BY <1>1, <1>2 DEF DraftsTyped, Tally, CountsRise
  <1>5. CASE k = K \/ stored[k] = None
    <2>1. publisher' = [publisher EXCEPT !.state = "failed"] /\ stored' = stored /\ raced' = raced
      BY <1>5 DEF Staffs!PublishUpdate
    <2>2. publisher' \in Publication(I, K, N) /\ publisher'.state # "done"
      BY <1>3, <2>1, PublisherFits
    <2> QED
      BY <1>2, <1>4, <2>1, <2>2, PublisherKeeps
  <1>6. CASE k # K /\ stored[k] # None
    <2>1. k \in I /\ stored[k] \in DraftRow(N)
      BY <1>1, <1>6 DEF DraftsTyped
    <2>2. PICK new : /\ new = [stored[k] EXCEPT !.status = "PUBLISHED"]
                     /\ stored' = [stored EXCEPT ![k] = new]
                     /\ publisher' = [publisher EXCEPT !.state = "done", !.saved = new]
                     /\ raced' = IF Staffs(I, K, N, P, T)!Removing(k) /\ removal.state = "DRAFT"
                                 THEN raced \cup {k} ELSE raced
      BY <1>6 DEF Staffs!PublishUpdate
    <2>3. new \in DraftRow(N) /\ new # None
      <3>1. new = [status |-> "PUBLISHED", name |-> stored[k].name]
        BY <2>1, <2>2 DEF DraftRow
      <3>2. new \in DraftRow(N)
        BY <2>1, <3>1 DEF DraftRow, Marks
      <3> QED
        BY <3>2 DEF DraftNames
    <2>4. publisher' \in Publication(I, K, N) /\ publisher'.saved # None
      <3>1. publisher' = [id |-> publisher.id, view |-> publisher.view, saved |-> new, state |-> "done"]
        BY <1>3, <2>2 DEF Publication
      <3> QED
        BY <1>3, <2>3, <3>1 DEF Publication
    <2>5. stored' \in [I -> DraftRow(N) \cup {None}]
      BY <1>1, <2>1, <2>2, <2>3 DEF DraftsTyped
    <2>6. raced \subseteq raced' /\ (removal # None /\ removal.state = "DRAFT" /\ removal.id = k => k \in raced')
      BY <2>2 DEF Staffs!Removing
    <2>7. RemovesDrafts(I)'
      <3>1. removal # None => removal.id \in I
        BY <1>1 DEF DraftsTyped, Removal
      <3> QED
        BY <1>1, <1>2, <2>1, <2>2, <2>6, <3>1 DEF DraftsTyped, RemovesDrafts
    <2> QED
      BY <1>2, <1>4, <2>4, <2>5, <2>7, RowsStay
  <1> QED
    BY <1>5, <1>6

\* Setting how far the removal is.
LEMMA RemovalFits ==
  ASSUME NEW I, removal \in Removal(I), NEW state, state \in Marks \cup {"done"},
         removal' = [removal EXCEPT !.state = state]
  PROVE  removal' \in Removal(I) /\ removal'.id = removal.id /\ removal'.state = state
  <1>1. removal' = [id |-> removal.id, state |-> state]
    BY DEF Removal
  <1> QED
    BY <1>1 DEF Removal

LEMMA RemoveReadKeeps ==
  ASSUME NEW I, NEW K, NEW N, NEW P, NEW T, DraftNames(I, K, N), DraftInv(I, K, N), NEW k, k \in I \cup {K},
         Staffs(I, K, N, P, T)!RemoveRead(k)
  PROVE  DraftInv(I, K, N)'
  <1>1. DraftsTyped(I, K, N) /\ AnswersKnown(I, K) /\ RemovesDrafts(I)
    BY DEF DraftInv
  <1>2. /\ removal # None /\ removal.id = k
        /\ UNCHANGED <<shown, notice, timer, stored, raced, erased, call, publisher, tally>>
    BY DEF Staffs!RemoveRead, Staffs!Removing, Staffs!page, Staffs!server
  <1>3. removal \in Removal(I) /\ k \in I
    BY <1>1, <1>2 DEF DraftsTyped, Removal
  <1>4. PICK state \in Marks \cup {"done"} :
          /\ removal' = [removal EXCEPT !.state = state]
          /\ state = "DRAFT" => stored[k] # None /\ stored[k].status = "DRAFT"
    <2>1. stored[k] # None => stored[k].status \in Marks
      BY <1>1, <1>3 DEF DraftsTyped, DraftRow
    <2> QED
      BY <2>1 DEF Staffs!RemoveRead
  <1>5. removal' \in Removal(I) /\ removal'.id = k /\ removal'.state = state
    BY <1>2, <1>3, <1>4, RemovalFits
  <1>6. RemovesDrafts(I)'
    BY <1>1, <1>2, <1>4, <1>5 DEF RemovesDrafts
  <1>7. /\ shown' \in [I \cup {K} -> PageRow(N) \cup {None}] /\ (shown[K] = None => shown'[K] = None)
        /\ stored' \in [I -> DraftRow(N) \cup {None}]
        /\ publisher' \in Publication(I, K, N) \cup {None}
        /\ publisher' # None /\ publisher'.state = "done" => publisher'.saved # None
        /\ CountsRise
    BY <1>1, <1>2 DEF DraftsTyped, AnswersKnown, Tally, CountsRise
  <1> QED
    BY <1>2, <1>5, <1>6, <1>7, RowsStay

LEMMA RemoveWriteKeeps ==
  ASSUME NEW I, NEW K, NEW N, NEW P, NEW T, DraftNames(I, K, N), DraftInv(I, K, N), NEW k, k \in I \cup {K},
         Staffs(I, K, N, P, T)!RemoveWrite(k)
  PROVE  DraftInv(I, K, N)'
  <1>1. DraftsTyped(I, K, N) /\ AnswersKnown(I, K) /\ RemovesDrafts(I)
    BY DEF DraftInv
  <1>2. /\ removal # None /\ removal.id = k /\ removal' = [removal EXCEPT !.state = "done"]
        /\ UNCHANGED <<shown, notice, timer, raced, call, publisher, tally>>
    BY DEF Staffs!RemoveWrite, Staffs!Removing, Staffs!page
  <1>3. removal \in Removal(I) /\ k \in I
    BY <1>1, <1>2 DEF DraftsTyped, Removal
  <1>4. PICK new \in DraftRow(N) \cup {None} :
          /\ stored' = [stored EXCEPT ![k] = new]
          /\ new = None => stored[k] = None \/ removal.state = "DRAFT"
    <2>1. CASE stored[k] = None \/ removal.state = "DRAFT"
      BY <2>1 DEF Staffs!RemoveWrite
    <2>2. CASE ~(stored[k] = None \/ removal.state = "DRAFT")
      <3>1. stored' = [stored EXCEPT ![k] = [stored[k] EXCEPT !.status = "ARCHIVED"]]
        BY <2>2 DEF Staffs!RemoveWrite
      <3>2. stored[k] \in DraftRow(N)
        BY <1>1, <1>3, <2>2 DEF DraftsTyped
      <3>3. [stored[k] EXCEPT !.status = "ARCHIVED"] = [status |-> "ARCHIVED", name |-> stored[k].name]
        BY <3>2 DEF DraftRow
      <3>4. [stored[k] EXCEPT !.status = "ARCHIVED"] \in DraftRow(N)
        BY <3>2, <3>3 DEF DraftRow, Marks
      <3>5. PICK new \in DraftRow(N) : new = [stored[k] EXCEPT !.status = "ARCHIVED"]
        BY <3>4
      <3>6. new # None /\ stored' = [stored EXCEPT ![k] = new]
        BY <3>1, <3>5 DEF DraftNames
      <3> QED
        BY <3>6
    <2> QED
      BY <2>1, <2>2
  <1>5. removal' \in Removal(I) /\ removal'.id = k /\ removal'.state = "done"
    BY <1>2, <1>3, RemovalFits
  <1>6. RemovesDrafts(I)'
    <2>1. stored'[k] = new
      BY <1>1, <1>3, <1>4 DEF DraftsTyped
    <2>2. erased' = IF stored[k] # None /\ stored[k].status = "PUBLISHED" /\ stored'[k] = None
                    THEN erased \cup {k} ELSE erased
      BY DEF Staffs!RemoveWrite
    <2>3. erased' \subseteq raced
      BY <1>1, <1>2, <1>4, <2>1, <2>2 DEF RemovesDrafts
    <2> QED
      BY <1>2, <1>5, <2>3 DEF RemovesDrafts
  <1>7. /\ shown' \in [I \cup {K} -> PageRow(N) \cup {None}] /\ (shown[K] = None => shown'[K] = None)
        /\ stored' \in [I -> DraftRow(N) \cup {None}]
        /\ publisher' \in Publication(I, K, N) \cup {None}
        /\ publisher' # None /\ publisher'.state = "done" => publisher'.saved # None
        /\ CountsRise
    <2>1. stored' \in [I -> DraftRow(N) \cup {None}]
      BY <1>1, <1>4 DEF DraftsTyped
    <2> QED
      BY <1>1, <1>2, <2>1 DEF DraftsTyped, AnswersKnown, Tally, CountsRise
  <1> QED
    BY <1>2, <1>5, <1>6, <1>7, RowsStay

\* The network.

LEMMA LoseSaveKeeps ==
  ASSUME NEW I, NEW K, NEW N, NEW P, NEW T, DraftNames(I, K, N), DraftInv(I, K, N), NEW k, k \in I \cup {K},
         Staffs(I, K, N, P, T)!LoseSave(k)
  PROVE  DraftInv(I, K, N)'
  <1>1. DraftsTyped(I, K, N) /\ AnswersKnown(I, K) /\ OneOfTwo(I, K) /\ RemovesDrafts(I)
    BY DEF DraftInv
  <1>2. /\ call[k] # None
        /\ call' = [call EXCEPT ![k].state = "failed"]
        /\ UNCHANGED <<shown, notice, timer, stored, raced, erased, publisher, removal>>
    BY DEF Staffs!LoseSave, Staffs!page, Staffs!server
  <1>3. call[k] \in SaveCall(I, K, N)
    BY <1>1, <1>2 DEF DraftsTyped
  <1>4. PICK c \in SaveCall(I, K, N) : c.state = "failed" /\ c.id = call[k].id /\ call' = [call EXCEPT ![k] = c]
    <2>1. [name |-> call[k].name, state |-> "failed", id |-> call[k].id, saved |-> call[k].saved] \in SaveCall(I, K, N)
      BY <1>3 DEF SaveCall
    <2>2. [call[k] EXCEPT !.state = "failed"] =
            [name |-> call[k].name, state |-> "failed", id |-> call[k].id, saved |-> call[k].saved]
      BY <1>3 DEF SaveCall
    <2>3. call' = [call EXCEPT ![k] = [call[k] EXCEPT !.state = "failed"]]
      BY <1>1, <1>2 DEF DraftsTyped
    <2>4. call' = [call EXCEPT ![k] =
            [name |-> call[k].name, state |-> "failed", id |-> call[k].id, saved |-> call[k].saved]]
      BY <2>2, <2>3
    <2> QED
      BY <2>1, <2>4
  <1>5. /\ CountsRise
        /\ k = K => tally'.excuses >= tally.excuses + 1
    <2>1. PICK excuse \in BOOLEAN : excuse = (k = K) /\ Staffs(I, K, N, P, T)!Lost(excuse)
      BY DEF Staffs!LoseSave
    <2>2. /\ CountsRise
          /\ excuse => tally'.excuses >= tally.excuses + 1
      BY <1>1, <2>1, PressFits DEF DraftsTyped
    <2> QED
      BY <2>1, <2>2
  <1>6. DraftsTyped(I, K, N)'
    BY <1>1, <1>2, <1>4, <1>5 DEF DraftsTyped, CountsRise
  <1>7. AnswersKnown(I, K)'
    BY <1>1, <1>2, <1>4 DEF DraftsTyped, AnswersKnown
  <1>8. OneOfTwo(I, K)'
    BY <1>1, <1>2, <1>4 DEF DraftsTyped, OneOfTwo
  <1>9. RemovesDrafts(I)'
    BY <1>1, <1>2, RemovesStay
  <1>10. RecordsCounted(K)'
    <2>1. CASE k # K
      <3>1. shown'[K] = shown[K] /\ notice'[K] = notice[K] /\ timer'[K] = timer[K] /\ call'[K] = call[K]
        BY <1>1, <1>2, <1>4, <2>1 DEF DraftsTyped
      <3>2. Owing(K)' <= Owing(K)
        BY <3>1, OwesNoMore
      <3> QED
        BY <1>5, <3>2, CountsOn
    <2>2. CASE k = K
      <3>1. call'[K] = c
        BY <1>1, <1>4, <2>2 DEF DraftsTyped
      <3>2. Owing(K)' <= 1 /\ Owing(K) \in 0 .. 2 /\ Owing(K)' \in 0 .. 2
        BY <1>4, <3>1, OwedIsFew DEF Owing, Owed
      <3>3. Owing(K)' <= Owing(K) + 1
        BY <3>2
      <3> QED
        BY <1>5, <2>2, <3>3, CountsOn
    <2> QED
      BY <2>1, <2>2
  <1> QED
    BY <1>6, <1>7, <1>8, <1>9, <1>10 DEF DraftInv

LEMMA LoseRemovalKeeps ==
  ASSUME NEW I, NEW K, NEW N, NEW P, NEW T, DraftNames(I, K, N), DraftInv(I, K, N), NEW k, k \in I \cup {K},
         Staffs(I, K, N, P, T)!LoseRemoval(k)
  PROVE  DraftInv(I, K, N)'
  <1>1. DraftsTyped(I, K, N) /\ AnswersKnown(I, K) /\ RemovesDrafts(I)
    BY DEF DraftInv
  <1>2. /\ removal # None /\ removal' = [removal EXCEPT !.state = "done"]
        /\ UNCHANGED <<shown, notice, timer, stored, raced, erased, call, publisher>>
    BY DEF Staffs!LoseRemoval, Staffs!Removing, Staffs!page, Staffs!server
  <1>3. removal' \in Removal(I) /\ removal'.state = "done"
    BY <1>1, <1>2, RemovalFits DEF DraftsTyped
  <1>4. RemovesDrafts(I)'
    BY <1>1, <1>2, <1>3 DEF RemovesDrafts
  <1>5. CountsRise
    <2>1. PICK excuse \in BOOLEAN : excuse = FALSE
      OBVIOUS
    <2>2. Staffs(I, K, N, P, T)!Lost(excuse)
      BY <2>1 DEF Staffs!LoseRemoval
    <2> QED
      BY <1>1, <2>2, PressFits DEF DraftsTyped
  <1>6. /\ shown' \in [I \cup {K} -> PageRow(N) \cup {None}] /\ (shown[K] = None => shown'[K] = None)
        /\ stored' \in [I -> DraftRow(N) \cup {None}]
        /\ publisher' \in Publication(I, K, N) \cup {None}
        /\ publisher' # None /\ publisher'.state = "done" => publisher'.saved # None
    BY <1>1, <1>2 DEF DraftsTyped, AnswersKnown
  <1> QED
    BY <1>2, <1>3, <1>4, <1>5, <1>6, RowsStay

LEMMA DraftStarts ==
  ASSUME NEW I, NEW K, NEW N, NEW P, NEW T, DraftNames(I, K, N), Staffs(I, K, N, P, T)!Init
  PROVE  DraftInv(I, K, N)
  <1>1. PICK name \in N : stored \in [I -> {None, [status |-> "DRAFT", name |-> name]}]
    <2>1. \E n \in N : ~Staffs(I, K, N, P, T)!Blank(n)
      BY DEF DraftNames, Wordless, Staffs!Blank, Staffs!Empty, Staffs!Space
    <2>2. (CHOOSE n \in N : ~Staffs(I, K, N, P, T)!Blank(n)) \in N
      BY <2>1
    <2> QED
      BY <2>2 DEF Staffs!Init
  <1>2. /\ shown = Staffs(I, K, N, P, T)!Listed
        /\ notice = [k \in I \cup {K} |-> "idle"]
        /\ timer = [k \in I \cup {K} |-> None]
        /\ call = [k \in I \cup {K} |-> None]
        /\ publisher = None /\ removal = None
        /\ tally = [presses |-> 0, added |-> 0, created |-> 0, lost |-> 0, excuses |-> 0]
        /\ raced = {} /\ erased = {}
    BY DEF Staffs!Init, Staffs!Keys
  <1>3. stored \in [I -> DraftRow(N) \cup {None}]
    <2>1. [status |-> "DRAFT", name |-> name] \in DraftRow(N)
      BY DEF DraftRow, Marks, Named
    <2> QED
      BY <1>1, <2>1
  <1>4. shown \in [I \cup {K} -> PageRow(N) \cup {None}] /\ shown[K] = None
    BY <1>2, <1>3, ListedFits DEF DraftNames
  <1>5. tally \in Tally
    BY <1>2 DEF Tally
  <1>6. DraftsTyped(I, K, N)
    BY <1>2, <1>3, <1>4, <1>5 DEF DraftsTyped, Notices
  <1>7. AnswersKnown(I, K) /\ OneOfTwo(I, K) /\ RemovesDrafts(I)
    BY <1>2 DEF AnswersKnown, OneOfTwo, RemovesDrafts
  <1>8. RecordsCounted(K)
    <2>1. timer[K] = None /\ call[K] = None
      BY <1>2
    <2>2. Owing(K) = 0
      BY <1>4, <2>1 DEF Owing, Owed
    <2> QED
      BY <1>2, <2>2 DEF RecordsCounted
  <1> QED
    BY <1>6, <1>7, <1>8 DEF DraftInv

LEMMA DraftKeeps ==
  ASSUME NEW I, NEW K, NEW N, NEW P, NEW T, DraftNames(I, K, N), DraftInv(I, K, N), Staffs(I, K, N, P, T)!Next
  PROVE  DraftInv(I, K, N)'
  <1>1. CASE Staffs(I, K, N, P, T)!AddMaster
    BY <1>1, AddMasterKeeps
  <1>2. CASE Staffs(I, K, N, P, T)!Reload
    BY <1>2, ReloadKeeps
  <1>3. ASSUME NEW k \in I \cup {K}, NEW name \in N, Staffs(I, K, N, P, T)!Type(k, name) PROVE DraftInv(I, K, N)'
    BY <1>3, TypeKeeps
  <1>4. ASSUME NEW k \in I \cup {K},
               \/ Staffs(I, K, N, P, T)!Due(k) \/ Staffs(I, K, N, P, T)!Force(k)
               \/ Staffs(I, K, N, P, T)!Saved(k) \/ Staffs(I, K, N, P, T)!NotSaved(k)
        PROVE  DraftInv(I, K, N)'
    BY <1>4, DueKeeps, ForceKeeps, SavedKeeps, NotSavedKeeps
  <1>5. ASSUME NEW k \in I \cup {K},
               \/ Staffs(I, K, N, P, T)!PublishMaster(k)
               \/ Staffs(I, K, N, P, T)!Published(k) \/ Staffs(I, K, N, P, T)!NotPublished(k)
               \/ Staffs(I, K, N, P, T)!RemoveMaster(k) \/ Staffs(I, K, N, P, T)!Removed(k)
        PROVE  DraftInv(I, K, N)'
    BY <1>5, PublishMasterKeeps, PublishedKeeps, NotPublishedKeeps, RemoveMasterKeeps, RemovedKeeps
  <1>6. ASSUME NEW k \in I \cup {K},
               \/ Staffs(I, K, N, P, T)!PublishSaved(k)
               \/ \E live \in BOOLEAN : Staffs(I, K, N, P, T)!PublishCheck(k, live)
               \/ Staffs(I, K, N, P, T)!LosePublish(k)
               \/ Staffs(I, K, N, P, T)!SubscriptionRequired(k)
        PROVE  DraftInv(I, K, N)'
    BY <1>6, PublishStepsKeep
  <1>7. ASSUME NEW k \in I \cup {K},
               \/ Staffs(I, K, N, P, T)!Create(k) \/ Staffs(I, K, N, P, T)!UpdateDraft(k)
               \/ Staffs(I, K, N, P, T)!PublishUpdate(k)
               \/ Staffs(I, K, N, P, T)!RemoveRead(k) \/ Staffs(I, K, N, P, T)!RemoveWrite(k)
               \/ Staffs(I, K, N, P, T)!LoseSave(k) \/ Staffs(I, K, N, P, T)!LoseRemoval(k)
        PROVE  DraftInv(I, K, N)'
    BY <1>7, CreateKeeps, UpdateDraftKeeps, PublishUpdateKeeps, RemoveReadKeeps, RemoveWriteKeeps,
       LoseSaveKeeps, LoseRemovalKeeps
  <1> QED
    BY <1>1, <1>2, <1>3, <1>4, <1>5, <1>6, <1>7 DEF Staffs!Next, Staffs!Keys

LEMMA DraftStutters ==
  ASSUME NEW I, NEW K, NEW N, DraftInv(I, K, N), UNCHANGED staffing
  PROVE  DraftInv(I, K, N)'
  BY DEF staffing, DraftInv, DraftsTyped, AnswersKnown, OneOfTwo, RecordsCounted, Owing, Owed, Fires, RemovesDrafts

\* What the invariant says of the records.
LEMMA DraftCounts ==
  ASSUME NEW I, NEW K, NEW N, NEW P, NEW T, DraftInv(I, K, N)
  PROVE  Staffs(I, K, N, P, T)!DraftsKept
  <1>1. Owing(K) \in 0 .. 2 /\ tally.created + Owing(K) <= tally.added + tally.excuses
    BY OwedIsFew DEF DraftInv, RecordsCounted
  <1>2. tally.created \in Nat /\ tally.added \in Nat /\ tally.excuses \in Nat
    BY DEF DraftInv, DraftsTyped, Tally, CountsRise
  <1>3. tally.created <= tally.added + tally.excuses
    BY <1>1, <1>2
  <1> QED
    BY <1>3 DEF Staffs!DraftsKept, DraftInv, RemovesDrafts

\* A row becomes one record, one more for each answer lost or not awaited, and no
\* published record is deleted unless it was published while it was removed, however
\* many rows, names, presses and lost answers there are.
THEOREM DraftsStayKept ==
  ASSUME NEW I, NEW K, NEW N, NEW P, NEW T, DraftNames(I, K, N)
  PROVE  Staffs(I, K, N, P, T)!Spec => []Staffs(I, K, N, P, T)!DraftsKept
  <1>1. Staffs(I, K, N, P, T)!Init => DraftInv(I, K, N)
    BY DraftStarts
  <1>2. DraftInv(I, K, N) /\ [Staffs(I, K, N, P, T)!Next]_staffing => DraftInv(I, K, N)'
    BY DraftKeeps, DraftStutters
  <1>3. DraftInv(I, K, N) => Staffs(I, K, N, P, T)!DraftsKept
    BY DraftCounts
  <1> QED
    BY <1>1, <1>2, <1>3, PTL DEF Staffs!Spec, Staffs!vars, staffing

-----------------------------------------------------------------------------
(* The part staff.                                                         *)

LEMMA PartsDraftNames == DraftNames({r1, r2}, "local", StaffNames)
  <1>1. "ann" \in StaffNames /\ "ann" \notin Wordless
    BY DEF StaffNames, Wordless
  <1>2. /\ "local" \notin {r1, r2}
        /\ None \notin DraftRow(StaffNames)
        /\ None \notin SaveCall({r1, r2}, "local", StaffNames)
    BY StaffAssumption DEF DraftRow, SaveCall, Named, Marks, Entering!Statuses
  <1> QED
    BY <1>1, <1>2 DEF DraftNames

\* Part staff is an instance of Staffs.
LEMMA PartsEnter ==
  /\ Entering!Init => Staffs({r1, r2}, "local", StaffNames, 5, 1)!Init
  /\ Entering!Next => Staffs({r1, r2}, "local", StaffNames, 5, 1)!Next
  /\ Staffs({r1, r2}, "local", StaffNames, 5, 1)!DraftsKept => Entering!DraftsKept
  <1>1. \A n : Entering!Blank(n) <=> Staffs({r1, r2}, "local", StaffNames, 5, 1)!Blank(n)
    BY DEF Entering!Blank, Staffs!Blank, Entering!Empty, Staffs!Empty, Entering!Space, Staffs!Space
  <1>2. Entering!Listed = Staffs({r1, r2}, "local", StaffNames, 5, 1)!Listed
    BY DEF Entering!Listed, Staffs!Listed, Entering!Keys, Staffs!Keys, Entering!RowOf, Staffs!RowOf
  <1>3. Entering!Init => Staffs({r1, r2}, "local", StaffNames, 5, 1)!Init
    <2>1. (CHOOSE n \in StaffNames : ~Entering!Blank(n)) =
            (CHOOSE n \in StaffNames : ~Staffs({r1, r2}, "local", StaffNames, 5, 1)!Blank(n))
      BY DEF Entering!Blank, Staffs!Blank, Entering!Empty, Staffs!Empty, Entering!Space, Staffs!Space
    <2>2. PICK name : /\ name = CHOOSE n \in StaffNames : ~Entering!Blank(n)
                      /\ name = CHOOSE n \in StaffNames : ~Staffs({r1, r2}, "local", StaffNames, 5, 1)!Blank(n)
      BY <2>1
    <2>3. Entering!Init => stored \in [{r1, r2} -> {None, [status |-> "DRAFT", name |-> name]}]
      BY <2>2, Zenon DEF Entering!Init
    <2>4. stored \in [{r1, r2} -> {None, [status |-> "DRAFT", name |-> name]}] =>
            stored \in [{r1, r2} ->
              {None, [status |-> "DRAFT", name |-> CHOOSE n \in StaffNames : ~Staffs({r1, r2}, "local", StaffNames, 5, 1)!Blank(n)]}]
      BY <2>2, Zenon
    <2>5. \A X : Entering!Cardinality(X) = Staffs({r1, r2}, "local", StaffNames, 5, 1)!Cardinality(X)
      BY DEF Entering!Cardinality, Staffs!Cardinality
    <2>6. Entering!Init =>
            /\ Staffs({r1, r2}, "local", StaffNames, 5, 1)!Cardinality({k \in {r1, r2} : stored[k] # None}) <= 1
            /\ shown = Staffs({r1, r2}, "local", StaffNames, 5, 1)!Listed
            /\ notice = [k \in Staffs({r1, r2}, "local", StaffNames, 5, 1)!Keys |-> "idle"]
            /\ timer = [k \in Staffs({r1, r2}, "local", StaffNames, 5, 1)!Keys |-> None]
            /\ call = [k \in Staffs({r1, r2}, "local", StaffNames, 5, 1)!Keys |-> None]
            /\ publisher = None /\ removal = None
            /\ tally = [presses |-> 0, added |-> 0, created |-> 0, lost |-> 0, excuses |-> 0]
            /\ raced = {} /\ erased = {}
      BY <1>2, <2>5, Zenon DEF Entering!Init, Entering!Keys, Staffs!Keys
    <2> QED
      BY <2>3, <2>4, <2>6, Zenon DEF Staffs!Init
  <1>4. \A k, view, force : Entering!Flush(k, view, force) <=>
          Staffs({r1, r2}, "local", StaffNames, 5, 1)!Flush(k, view, force)
    BY <1>1 DEF Entering!Flush, Staffs!Flush, Entering!Sends, Staffs!Sends, Entering!Unchanged, Staffs!Unchanged
  <1>5. \A k, view, row : Entering!Update(k, view, row) <=>
          Staffs({r1, r2}, "local", StaffNames, 5, 1)!Update(k, view, row)
    BY <1>1 DEF Entering!Update, Staffs!Update
  <1>6. Entering!AddMaster => Staffs({r1, r2}, "local", StaffNames, 5, 1)!AddMaster
    BY DEF Entering!AddMaster, Staffs!AddMaster, Entering!Publishing, Staffs!Publishing, Entering!NewRow,
       Staffs!NewRow, Entering!Empty, Staffs!Empty, Entering!server, Staffs!server
  <1>7. Entering!Reload => Staffs({r1, r2}, "local", StaffNames, 5, 1)!Reload
    BY <1>2 DEF Entering!Reload, Staffs!Reload, Entering!Keys, Staffs!Keys, Entering!server, Staffs!server
  <1>8. \A k, name : Entering!Type(k, name) => Staffs({r1, r2}, "local", StaffNames, 5, 1)!Type(k, name)
    BY <1>1, <1>5 DEF Entering!Type, Staffs!Type, Entering!View, Staffs!View, Entering!Pressed,
       Staffs!Pressed, Entering!Wasted, Staffs!Wasted, Entering!server, Staffs!server
  <1>9. \A k : Entering!Due(k) => Staffs({r1, r2}, "local", StaffNames, 5, 1)!Due(k)
    BY <1>4 DEF Entering!Due, Staffs!Due, Entering!server, Staffs!server
  <1>10. \A k : Entering!Force(k) => Staffs({r1, r2}, "local", StaffNames, 5, 1)!Force(k)
    BY <1>1, <1>4 DEF Entering!Force, Staffs!Force, Entering!View, Staffs!View, Entering!Pressed,
       Staffs!Pressed, Entering!server, Staffs!server
  <1>11. \A k : Entering!Saved(k) => Staffs({r1, r2}, "local", StaffNames, 5, 1)!Saved(k)
    BY DEF Entering!Saved, Staffs!Saved, Entering!server, Staffs!server
  <1>12. \A k : Entering!NotSaved(k) => Staffs({r1, r2}, "local", StaffNames, 5, 1)!NotSaved(k)
    BY DEF Entering!NotSaved, Staffs!NotSaved, Entering!server, Staffs!server
  <1>13. \A k : Entering!PublishMaster(k) => Staffs({r1, r2}, "local", StaffNames, 5, 1)!PublishMaster(k)
    BY <1>1, <1>4 DEF Entering!PublishMaster, Staffs!PublishMaster, Entering!Empty, Staffs!Empty,
       Entering!View, Staffs!View, Entering!Sends, Staffs!Sends, Entering!Pressed, Staffs!Pressed,
       Entering!server, Staffs!server
  <1>14. \A k : Entering!PublishSaved(k) => Staffs({r1, r2}, "local", StaffNames, 5, 1)!PublishSaved(k)
    BY DEF Entering!PublishSaved, Staffs!PublishSaved, Entering!Publishing, Staffs!Publishing,
       Entering!server, Staffs!server
  <1>15. \A k : Entering!Published(k) => Staffs({r1, r2}, "local", StaffNames, 5, 1)!Published(k)
    BY DEF Entering!Published, Staffs!Published, Entering!Over, Staffs!Over, Entering!Publishing,
       Staffs!Publishing, Entering!server, Staffs!server, Entering!RowOf, Staffs!RowOf
  <1>16. \A k : Entering!SubscriptionRequired(k) =>
          Staffs({r1, r2}, "local", StaffNames, 5, 1)!SubscriptionRequired(k)
    BY DEF Entering!SubscriptionRequired, Staffs!SubscriptionRequired, Entering!Over, Staffs!Over,
       Entering!Publishing, Staffs!Publishing, Entering!server, Staffs!server
  <1>17. \A k : Entering!NotPublished(k) => Staffs({r1, r2}, "local", StaffNames, 5, 1)!NotPublished(k)
    BY <1>1, <1>5 DEF Entering!NotPublished, Staffs!NotPublished, Entering!Over, Staffs!Over,
       Entering!Publishing, Staffs!Publishing, Entering!server, Staffs!server, Entering!Excused,
       Staffs!Excused, Entering!Wasted, Staffs!Wasted, Entering!Sends, Staffs!Sends
  <1>18. \A k : Entering!RemoveMaster(k) => Staffs({r1, r2}, "local", StaffNames, 5, 1)!RemoveMaster(k)
    BY DEF Entering!RemoveMaster, Staffs!RemoveMaster, Entering!Pressed, Staffs!Pressed, Entering!Wasted,
       Staffs!Wasted, Entering!server, Staffs!server
  <1>19. \A k : Entering!Removed(k) => Staffs({r1, r2}, "local", StaffNames, 5, 1)!Removed(k)
    BY DEF Entering!Removed, Staffs!Removed, Entering!Removing, Staffs!Removing, Entering!server,
       Staffs!server
  <1>20. \A k : Entering!Create(k) => Staffs({r1, r2}, "local", StaffNames, 5, 1)!Create(k)
    BY DEF Entering!Create, Staffs!Create, Entering!page, Staffs!page
  <1>21. \A k : Entering!UpdateDraft(k) => Staffs({r1, r2}, "local", StaffNames, 5, 1)!UpdateDraft(k)
    BY DEF Entering!UpdateDraft, Staffs!UpdateDraft, Entering!Empty, Staffs!Empty, Entering!page,
       Staffs!page
  <1>22. \A k : Entering!PublishUpdate(k) => Staffs({r1, r2}, "local", StaffNames, 5, 1)!PublishUpdate(k)
    BY DEF Entering!PublishUpdate, Staffs!PublishUpdate, Entering!Publishing, Staffs!Publishing,
       Entering!Removing, Staffs!Removing, Entering!page, Staffs!page
  <1>23. \A k, live : Entering!PublishCheck(k, live) =>
          Staffs({r1, r2}, "local", StaffNames, 5, 1)!PublishCheck(k, live)
    BY DEF Entering!PublishCheck, Staffs!PublishCheck, Entering!Publishing, Staffs!Publishing,
       Entering!page, Staffs!page
  <1>24. \A k : Entering!RemoveRead(k) => Staffs({r1, r2}, "local", StaffNames, 5, 1)!RemoveRead(k)
    BY DEF Entering!RemoveRead, Staffs!RemoveRead, Entering!Removing, Staffs!Removing, Entering!page,
       Staffs!page, Entering!server, Staffs!server
  <1>25. \A k : Entering!RemoveWrite(k) => Staffs({r1, r2}, "local", StaffNames, 5, 1)!RemoveWrite(k)
    BY DEF Entering!RemoveWrite, Staffs!RemoveWrite, Entering!Removing, Staffs!Removing, Entering!page,
       Staffs!page
  <1>26. \A k : Entering!LoseSave(k) => Staffs({r1, r2}, "local", StaffNames, 5, 1)!LoseSave(k)
    BY DEF Entering!LoseSave, Staffs!LoseSave, Entering!Lost, Staffs!Lost, Entering!page, Staffs!page,
       Entering!server, Staffs!server
  <1>27. \A k : Entering!LosePublish(k) => Staffs({r1, r2}, "local", StaffNames, 5, 1)!LosePublish(k)
    BY DEF Entering!LosePublish, Staffs!LosePublish, Entering!Lost, Staffs!Lost, Entering!Publishing,
       Staffs!Publishing, Entering!page, Staffs!page, Entering!server, Staffs!server
  <1>28. \A k : Entering!LoseRemoval(k) => Staffs({r1, r2}, "local", StaffNames, 5, 1)!LoseRemoval(k)
    BY DEF Entering!LoseRemoval, Staffs!LoseRemoval, Entering!Lost, Staffs!Lost, Entering!Removing,
       Staffs!Removing, Entering!page, Staffs!page, Entering!server, Staffs!server
  <1>29. Entering!Next => Staffs({r1, r2}, "local", StaffNames, 5, 1)!Next
    BY <1>6, <1>7, <1>8, <1>9, <1>10, <1>11, <1>12, <1>13, <1>14, <1>15, <1>16, <1>17, <1>18, <1>19,
       <1>20, <1>21, <1>22, <1>23, <1>24, <1>25, <1>26, <1>27, <1>28 DEF Entering!Next, Staffs!Next,
       Entering!Keys, Staffs!Keys
  <1>30. Staffs({r1, r2}, "local", StaffNames, 5, 1)!DraftsKept => Entering!DraftsKept
    BY DEF Entering!DraftsKept, Staffs!DraftsKept
  <1> QED
    BY <1>3, <1>29, <1>30

LEMMA PartStaysKept ==
  ASSUME [MCNext]_MCvars, part = "staff", DraftInv({r1, r2}, "local", StaffNames)
  PROVE  DraftInv({r1, r2}, "local", StaffNames)'
  <1>1. CASE Entering!Next
    BY <1>1, PartsEnter, PartsDraftNames, DraftKeeps
  <1>2. CASE UNCHANGED staffing
    BY <1>2, DraftStutters
  <1> QED
    BY <1>1, <1>2 DEF MCNext, MCvars

\* The same of the specification the run explores, in its part about the staff.
THEOREM DraftsKeptInPart == MCSpec => []DraftsKept
  <1> DEFINE Inv == part = "staff" => DraftInv({r1, r2}, "local", StaffNames)
  <1>1. MCInit => Inv
    BY PartsEnter, PartsDraftNames, DraftStarts DEF MCInit
  <1>2. Inv /\ [MCNext]_MCvars => Inv'
    BY PartStaysKept, PartsStay
  <1>3. Inv => DraftsKept
    BY PartsEnter, DraftCounts DEF DraftsKept
  <1> HIDE DEF Inv
  <1> QED
    BY <1>1, <1>2, <1>3, PTL DEF MCSpec

-----------------------------------------------------------------------------
(* Bookings of what a salon offers (Offers), for every c: services,        *)
(* masters, rates, rooms, skills, modifiers and changes of a salon.  Each  *)
(* statement of createBooking reads the offer as it is at that moment, so  *)
(* what a request has read was so at some moment since it began (PriceRead *)
(* to ModeRead): when the request ends, the witness the property asks for  *)
(* is that moment.                                                         *)

\* What may be offered: masters are numbers, lengths and prices too.
OfferNames(c) ==
  /\ c.masters \subseteq Nat
  /\ c.rates \subseteq [price : Nat, length : Nat]
  /\ c.skills \in [c.masters -> SUBSET c.services]
  /\ c.maxExtras \in Nat

VisitTyped(c) ==
  /\ past \in Seq(Visit(c)!Offer) /\ past # <<>>
  /\ extras \in [c.services -> Nat]

\* A time that is chosen was offered, for the master who is asked for.
SlotOffered(c) ==
  slot # None => /\ slot.at \in 1..Len(past)
                 /\ Visit(c)!Offered(past[slot.at], slot.services, master)

Fields ==
  {"op", "services", "first", "extras", "asked", "quoted", "began", "priced", "staff", "candidates", "status",
   "master", "price", "ended"}

\* The request is the one that was sent, after the time was chosen.
RequestKnown(c) ==
  request.op # "idle" =>
    /\ Fields \subseteq DOMAIN request
    /\ request.first \in request.services
    /\ request.extras \in [c.services -> Nat]
    /\ request.began \in 1..Len(past) /\ request.quoted \in 0..request.began
    /\ slot # None /\ slot.at <= request.began /\ request.asked = master

\* What each statement read was so at some moment since the request began.
PriceRead(c) ==
  request.op \in {"primary", "staff", "skills", "mode", "commit"} =>
    /\ request.priced \in request.began..Len(past)
    /\ Visit(c)!AllActive(past[request.priced], request.services)

Staffing(c, o, S) == {m \in c.masters : o.link[m] /\ o.accepts[m] /\ o.skills[m] \cap S # {}}

StaffRead(c) ==
  request.op = "skills" =>
    \E w \in request.began..Len(past) : request.staff = Staffing(c, past[w], request.services)

Able(c, o, skills, S, asked) == {m \in Staffing(c, o, S) : S \subseteq skills[m] /\ asked \in {m, None}}

SkillsRead(c) ==
  request.op \in {"mode", "commit"} =>
    \E v \in request.began..Len(past) : \E w \in request.began..v :
      request.candidates = Able(c, past[w], past[v].skills, request.services, request.asked)

Confirmation(o) == IF o.mode = "REQUEST" THEN "pending" ELSE "confirmed"

ModeRead ==
  request.op = "commit" => \E v \in request.began..Len(past) : request.status = Confirmation(past[v])

EndsLater(c) ==
  request.op \in Visit(c)!Ended => request.ended \in request.began..Len(past)

OfferInv(c) ==
  /\ VisitTyped(c)
  /\ SlotOffered(c)
  /\ RequestKnown(c)
  /\ PriceRead(c)
  /\ StaffRead(c)
  /\ SkillsRead(c)
  /\ ModeRead
  /\ EndsLater(c)
  /\ Visit(c)!OffersKept

LEMMA LengthsAgree ==
  ASSUME NEW c, NEW o, NEW S, NEW d, NEW e, \A s \in S : d[s] = e[s]
  PROVE  Visit(c)!Length(o, S, d) = Visit(c)!Length(o, S, e)
  <1> DEFINE Pick(s) == CHOOSE x \in s : TRUE
             Steps(f, a) == [s \in SUBSET S |->
                IF s = {} THEN 0 ELSE (o.service[Pick(s)].length + a[Pick(s)] * c.extra.length) + f[s \ {Pick(s)}]]
  <1>1. PICK it : it = (CHOOSE f : f = Steps(f, d)) /\ Visit(c)!Length(o, S, d) = it[S]
    BY DEF Visit!Length, Visit!MapThenSumSet, Visit!MapThenFoldSet
  <1>2. PICK jt : jt = (CHOOSE f : f = Steps(f, e)) /\ Visit(c)!Length(o, S, e) = jt[S]
    BY DEF Visit!Length, Visit!MapThenSumSet, Visit!MapThenFoldSet
  <1>3. \A s \in SUBSET S : s # {} => Pick(s) \in S
    OBVIOUS
  <1>4. \A f : Steps(f, d) = Steps(f, e)
    BY <1>3
  <1> HIDE DEF Steps
  <1>5. it = jt
    BY <1>1, <1>2, <1>4
  <1> QED
    BY <1>1, <1>2, <1>5

LEMMA Least ==
  ASSUME NEW c, NEW S \in SUBSET Nat, S # {}
  PROVE  Visit(c)!Min(S) \in S
  <1>1. \E x \in S : \A y \in S : ~ (<<y, x>> \in OpToRel(<, Nat))
    BY NatLessThanWellFounded, WFMin
  <1>2. PICK x \in S : \A y \in S : ~ (<<y, x>> \in OpToRel(<, Nat))
    BY <1>1
  <1>3. \A y \in S : x =< y
    <2> SUFFICES ASSUME NEW y \in S, y < x PROVE FALSE
      OBVIOUS
    <2>1. <<y, x>> \in OpToRel(<, Nat)
      BY DEF OpToRel
    <2> QED
      BY <1>2, <2>1
  <1> QED
    BY <1>3 DEF Visit!Min

LEMMA OfferStarts ==
  ASSUME NEW c, OfferNames(c), Visit(c)!Init
  PROVE  OfferInv(c)
  <1>1. request.op = "idle" /\ slot = None
    BY DEF Visit!Init, Visit!Idle
  <1>2. VisitTyped(c)
    <2>1. PICK rates \in [c.services -> c.rates], room \in [c.masters -> c.rooms] :
            past = <<[service |-> [s \in c.services |->
                        [active |-> TRUE, price |-> rates[s].price, length |-> rates[s].length]],
                      link |-> [m \in c.masters |-> TRUE], accepts |-> [m \in c.masters |-> TRUE],
                      skills |-> c.skills, room |-> room, open |-> TRUE, mode |-> "AUTO"]>>
      BY DEF Visit!Init
    <2>2. \A s \in c.services : rates[s].price \in Nat /\ rates[s].length \in Nat
      BY DEF OfferNames
    <2> DEFINE service == [s \in c.services |->
                             [active |-> TRUE, price |-> rates[s].price, length |-> rates[s].length]]
               o == [service |-> service,
                     link |-> [m \in c.masters |-> TRUE], accepts |-> [m \in c.masters |-> TRUE],
                     skills |-> c.skills, room |-> room, open |-> TRUE, mode |-> "AUTO"]
    <2>3. service \in [c.services -> [active : BOOLEAN, price : Nat, length : Nat]]
      BY <2>2
    <2> HIDE DEF service
    <2>4. o \in Visit(c)!Offer
      BY <2>3 DEF Visit!Offer, OfferNames
    <2>5. past = <<o>>
      BY <2>1 DEF service
    <2> HIDE DEF o
    <2>6. past \in Seq(Visit(c)!Offer) /\ past # <<>>
      BY <2>4, <2>5
    <2> QED
      BY <2>6 DEF VisitTyped, Visit!Init
  <1> QED
    BY <1>1, <1>2 DEF OfferInv, SlotOffered, RequestKnown, PriceRead, StaffRead, SkillsRead, ModeRead, EndsLater,
       Visit!Ended, Visit!Refusals, Visit!OffersKept, Visit!BookedAsOffered, Visit!SlotsAreGood

\* While nothing is asked.
LEMMA ChoosingKeeps ==
  ASSUME NEW c, OfferInv(c), Visit(c)!Choosing, UNCHANGED <<past, request>>,
         VisitTyped(c)', SlotOffered(c)'
  PROVE  OfferInv(c)'
  BY DEF OfferInv, RequestKnown, PriceRead, StaffRead, SkillsRead, ModeRead, EndsLater, Visit!Choosing,
     Visit!Idle, Visit!Ended, Visit!Refusals, Visit!OffersKept, Visit!BookedAsOffered, Visit!SlotsAreGood

LEMMA PageKeeps ==
  ASSUME NEW c, OfferNames(c), OfferInv(c),
         \/ \E s \in c.services : Visit(c)!Add(s) \/ Visit(c)!Remove(s)
         \/ \E s \in c.services, n \in 0..c.maxExtras : Visit(c)!Modify(s, n)
         \/ \E m \in c.masters \cup {None} : Visit(c)!ChooseMaster(m)
         \/ \E v \in 1..Visit(c)!Now : Visit(c)!PickSlot(v)
  PROVE  OfferInv(c)'
  <1>1. ASSUME NEW s \in c.services, Visit(c)!Add(s) \/ Visit(c)!Remove(s) PROVE OfferInv(c)'
    <2>1. VisitTyped(c)' /\ SlotOffered(c)'
      BY <1>1 DEF OfferInv, VisitTyped, SlotOffered, Visit!Add, Visit!Remove
    <2> QED
      BY <1>1, <2>1, ChoosingKeeps DEF Visit!Add, Visit!Remove
  <1>2. ASSUME NEW s \in c.services, NEW n \in 0..c.maxExtras, Visit(c)!Modify(s, n) PROVE OfferInv(c)'
    <2>1. VisitTyped(c)' /\ SlotOffered(c)'
      BY <1>2 DEF OfferNames, OfferInv, VisitTyped, SlotOffered, Visit!Modify
    <2> QED
      BY <1>2, <2>1, ChoosingKeeps DEF Visit!Modify
  <1>3. ASSUME NEW m, Visit(c)!ChooseMaster(m) PROVE OfferInv(c)'
    <2>1. VisitTyped(c)' /\ SlotOffered(c)'
      BY <1>3 DEF OfferInv, VisitTyped, SlotOffered, Visit!ChooseMaster
    <2> QED
      BY <1>3, <2>1, ChoosingKeeps DEF Visit!ChooseMaster
  <1>4. ASSUME NEW v \in 1..Visit(c)!Now, Visit(c)!PickSlot(v) PROVE OfferInv(c)'
    <2>1. VisitTyped(c)' /\ SlotOffered(c)'
      BY <1>4 DEF OfferInv, VisitTyped, SlotOffered, Visit!PickSlot, Visit!Now
    <2> QED
      BY <1>4, <2>1, ChoosingKeeps DEF Visit!PickSlot
  <1> QED
    BY <1>1, <1>2, <1>3, <1>4

LEMMA ConfirmKeeps ==
  ASSUME NEW c, OfferInv(c), NEW v \in 0..Visit(c)!Now, Visit(c)!Confirm(v)
  PROVE  OfferInv(c)'
  <1>1. /\ slot # None /\ UNCHANGED <<past, items, extras, master, slot>>
        /\ request' = [op |-> "price", services |-> Visit(c)!Selected(items) \cup {Visit(c)!Leading},
                       first |-> Visit(c)!Leading, extras |-> extras, asked |-> master, quoted |-> v,
                       began |-> Len(past), priced |-> None, staff |-> None, candidates |-> None,
                       status |-> None, master |-> None, price |-> None, ended |-> None]
    BY DEF Visit!Confirm, Visit!page, Visit!Now
  <1>2. VisitTyped(c)' /\ SlotOffered(c)'
    BY <1>1 DEF OfferInv, VisitTyped, SlotOffered
  <1>3. request'.op = "price"
    BY <1>1
  <1>4. Len(past) \in Nat /\ Len(past) >= 1
    BY DEF OfferInv, VisitTyped
  <1>5. RequestKnown(c)'
    <2>1. Fields \subseteq DOMAIN request'
      BY <1>1 DEF Fields
    <2>2. request'.first \in request'.services /\ request'.extras = extras /\ request'.asked = master
      BY <1>1
    <2>3. request'.began = Len(past) /\ request'.quoted = v
      BY <1>1
    <2> QED
      BY <1>1, <1>4, <2>1, <2>2, <2>3 DEF RequestKnown, OfferInv, VisitTyped, SlotOffered, Visit!Now
  <1> QED
    BY <1>2, <1>3, <1>5 DEF OfferInv, PriceRead, StaffRead, SkillsRead, ModeRead, EndsLater,
       Visit!Ended, Visit!Refusals, Visit!OffersKept, Visit!BookedAsOffered, Visit!SlotsAreGood

-----------------------------------------------------------------------------
(* Statements of the request.                                              *)

\* It is the same request, of the same offer.
SameRequest ==
  /\ UNCHANGED <<past, items, extras, master, slot>>
  /\ Fields \subseteq DOMAIN request'
  /\ request'.services = request.services /\ request'.first = request.first
  /\ request'.extras = request.extras /\ request'.asked = request.asked
  /\ request'.quoted = request.quoted /\ request'.began = request.began

LEMMA SameKnown ==
  ASSUME NEW c, OfferInv(c), SameRequest, request.op # "idle"
  PROVE  /\ VisitTyped(c)' /\ SlotOffered(c)' /\ RequestKnown(c)'
         /\ request.began \in 1..Len(past) /\ Len(past) \in Nat
  <1>1. VisitTyped(c)' /\ SlotOffered(c)'
    BY DEF OfferInv, SameRequest, VisitTyped, SlotOffered
  <1>2. RequestKnown(c)'
    BY DEF OfferInv, SameRequest, RequestKnown
  <1> QED
    BY <1>1, <1>2 DEF OfferInv, RequestKnown, VisitTyped

\* What is refused although it was offered is refused for its modifiers.
LEMMA RefusedKeeps ==
  ASSUME NEW c, OfferInv(c), request.op # "idle", UNCHANGED <<past, items, extras, master, slot>>,
         NEW reason \in Visit(c)!Refusals, Visit(c)!Refuse(reason),
         slot.at = Len(past) /\ slot.services = request.services =>
           reason = "conflict" /\ \E s \in request.services : request.extras[s] > 0
  PROVE  OfferInv(c)'
  <1>1. request' = [request EXCEPT !.op = reason, !.ended = Len(past)]
    BY DEF Visit!Refuse, Visit!Now
  <1>2. Fields \subseteq DOMAIN request
    BY DEF OfferInv, RequestKnown
  <1>3. SameRequest /\ request'.op = reason /\ request'.ended = Len(past)
    BY <1>1, <1>2 DEF SameRequest, Fields
  <1>4. /\ VisitTyped(c)' /\ SlotOffered(c)' /\ RequestKnown(c)'
        /\ request.began \in 1..Len(past) /\ Len(past) \in Nat
    BY <1>3, SameKnown
  <1>5. EndsLater(c)'
    BY <1>3, <1>4 DEF EndsLater, SameRequest
  <1>6. Visit(c)!OffersKept'
    BY <1>3 DEF SameRequest, Visit!OffersKept, Visit!BookedAsOffered, Visit!SlotsAreGood, Visit!Refusals
  <1>7. PriceRead(c)' /\ StaffRead(c)' /\ SkillsRead(c)' /\ ModeRead'
    BY <1>3 DEF PriceRead, StaffRead, SkillsRead, ModeRead, Visit!Refusals
  <1> QED
    BY <1>4, <1>5, <1>6, <1>7 DEF OfferInv

\* A statement that neither refuses nor ends the request.
LEMMA GoesOn ==
  ASSUME NEW c, OfferInv(c), request.op # "idle", SameRequest,
         request'.op \in {"primary", "staff", "skills", "mode", "commit"},
         PriceRead(c)', StaffRead(c)', SkillsRead(c)', ModeRead'
  PROVE  OfferInv(c)'
  <1>1. VisitTyped(c)' /\ SlotOffered(c)' /\ RequestKnown(c)'
    BY SameKnown
  <1>2. EndsLater(c)' /\ Visit(c)!OffersKept'
    BY DEF EndsLater, Visit!Ended, Visit!Refusals, Visit!OffersKept, Visit!BookedAsOffered, Visit!SlotsAreGood
  <1> QED
    BY <1>1, <1>2 DEF OfferInv

LEMMA ReadPriceKeeps ==
  ASSUME NEW c, OfferInv(c), Visit(c)!ReadPrice
  PROVE  OfferInv(c)'
  <1>1. request.op = "price" /\ Fields \subseteq DOMAIN request
    BY DEF Visit!ReadPrice, OfferInv, RequestKnown
  <1>2. CASE Visit(c)!AllActive(past[Len(past)], request.services)
    <2>1. /\ request' = [request EXCEPT !.op = "primary", !.priced = Len(past)]
          /\ UNCHANGED <<past, items, extras, master, slot>>
      BY <1>2 DEF Visit!ReadPrice, Visit!Now, Visit!page
    <2>2. SameRequest /\ request'.op = "primary" /\ request'.priced = Len(past)
      BY <1>1, <2>1 DEF SameRequest, Fields
    <2>3. request.began \in 1..Len(past) /\ Len(past) \in Nat
      BY <1>1, <2>2, SameKnown
    <2>4. PriceRead(c)'
      BY <1>2, <2>2, <2>3 DEF PriceRead, SameRequest
    <2>5. StaffRead(c)' /\ SkillsRead(c)' /\ ModeRead'
      BY <2>2 DEF StaffRead, SkillsRead, ModeRead
    <2> QED
      BY <1>1, <2>2, <2>4, <2>5, GoesOn
  <1>3. CASE ~Visit(c)!AllActive(past[Len(past)], request.services)
    <2>1. Visit(c)!Refuse("noService") /\ UNCHANGED <<past, items, extras, master, slot>>
      BY <1>3 DEF Visit!ReadPrice, Visit!Now, Visit!page
    <2>2. ~(slot.at = Len(past) /\ slot.services = request.services)
      BY <1>1, <1>3 DEF OfferInv, RequestKnown, SlotOffered, Visit!Offered
    <2>3. "noService" \in Visit(c)!Refusals
      BY DEF Visit!Refusals
    <2> QED
      BY <1>1, <2>1, <2>2, <2>3, RefusedKeeps
  <1> QED
    BY <1>2, <1>3

LEMMA ReadPrimaryKeeps ==
  ASSUME NEW c, OfferInv(c), Visit(c)!ReadPrimary
  PROVE  OfferInv(c)'
  <1>1. request.op = "primary" /\ Fields \subseteq DOMAIN request
    BY DEF Visit!ReadPrimary, OfferInv, RequestKnown
  <1>2. CASE past[Len(past)].service[request.first].active
    <2>1. /\ request' = [request EXCEPT !.op = "staff"]
          /\ UNCHANGED <<past, items, extras, master, slot>>
      BY <1>2 DEF Visit!ReadPrimary, Visit!Now, Visit!page
    <2>2. SameRequest /\ request'.op = "staff" /\ request'.priced = request.priced
      BY <1>1, <2>1 DEF SameRequest, Fields
    <2>4. PriceRead(c)'
      BY <1>1, <2>2 DEF PriceRead, SameRequest, OfferInv
    <2>5. StaffRead(c)' /\ SkillsRead(c)' /\ ModeRead'
      BY <2>2 DEF StaffRead, SkillsRead, ModeRead
    <2> QED
      BY <1>1, <2>2, <2>4, <2>5, GoesOn
  <1>3. CASE ~past[Len(past)].service[request.first].active
    <2>1. Visit(c)!Refuse("noService") /\ UNCHANGED <<past, items, extras, master, slot>>
      BY <1>3 DEF Visit!ReadPrimary, Visit!Now, Visit!page
    <2>2. ~(slot.at = Len(past) /\ slot.services = request.services)
      BY <1>1, <1>3 DEF OfferInv, RequestKnown, SlotOffered, Visit!Offered, Visit!AllActive
    <2>3. "noService" \in Visit(c)!Refusals
      BY DEF Visit!Refusals
    <2> QED
      BY <1>1, <2>1, <2>2, <2>3, RefusedKeeps
  <1> QED
    BY <1>2, <1>3

LEMMA ReadStaffKeeps ==
  ASSUME NEW c, OfferInv(c), Visit(c)!ReadStaff
  PROVE  OfferInv(c)'
  <1>1. request.op = "staff" /\ Fields \subseteq DOMAIN request
    BY DEF Visit!ReadStaff, OfferInv, RequestKnown
  <1>2. /\ request' = [request EXCEPT !.op = "skills", !.staff = Staffing(c, past[Len(past)], request.services)]
        /\ UNCHANGED <<past, items, extras, master, slot>>
    BY DEF Visit!ReadStaff, Visit!Now, Visit!page, Staffing
  <1>3. /\ SameRequest /\ request'.op = "skills" /\ request'.priced = request.priced
        /\ request'.staff = Staffing(c, past[Len(past)], request.services)
    BY <1>1, <1>2 DEF SameRequest, Fields
  <1>4. request.began \in 1..Len(past) /\ Len(past) \in Nat
    BY <1>1, <1>3, SameKnown
  <1>5. PriceRead(c)'
    BY <1>1, <1>3 DEF PriceRead, SameRequest, OfferInv
  <1>6. StaffRead(c)'
    BY <1>3, <1>4 DEF StaffRead, SameRequest
  <1>7. SkillsRead(c)' /\ ModeRead'
    BY <1>3 DEF SkillsRead, ModeRead
  <1> QED
    BY <1>1, <1>3, <1>5, <1>6, <1>7, GoesOn

\* A time that is offered has somebody who can do it all.
LEMMA OfferedStaff ==
  ASSUME NEW c, NEW o, NEW S, S # {}, NEW asked, Visit(c)!Offered(o, S, asked)
  PROVE  LET able == {m \in Staffing(c, o, S) : S \subseteq o.skills[m]}
         IN /\ asked \in able \cup {None}
            /\ \E m \in able : asked \in {m, None} /\ o.room[m] >= Visit(c)!Length(o, S, [s \in S |-> 0])
  <1>1. Visit(c)!Eligible(o, S) = {m \in Staffing(c, o, S) : S \subseteq o.skills[m]}
    BY DEF Visit!Eligible, Staffing
  <1> QED
    BY <1>1 DEF Visit!Offered

LEMMA ReadSkillsKeeps ==
  ASSUME NEW c, OfferInv(c), Visit(c)!ReadSkills
  PROVE  OfferInv(c)'
  <1> DEFINE v == Len(past)
             able == {m \in request.staff : request.services \subseteq past[v].skills[m]}
  <1>1. request.op = "skills" /\ Fields \subseteq DOMAIN request
    BY DEF Visit!ReadSkills, OfferInv, RequestKnown
  <1>2. PICK w \in request.began..v : request.staff = Staffing(c, past[w], request.services)
    BY <1>1 DEF OfferInv, StaffRead
  <1>3. /\ request.began \in 1..v /\ v \in Nat /\ request.first \in request.services
        /\ slot # None /\ slot.at <= request.began /\ request.asked = master
        /\ slot.at \in 1..v /\ Visit(c)!Offered(past[slot.at], slot.services, master)
    BY <1>1 DEF OfferInv, RequestKnown, VisitTyped, SlotOffered
  <1>4. Visit(c)!Qualified(request.staff) = able
    BY DEF Visit!Qualified, Visit!Now
  <1>5. slot.at = v /\ slot.services = request.services =>
          able # {} /\ request.asked \in able \cup {None}
    <2> SUFFICES ASSUME slot.at = v, slot.services = request.services
                 PROVE  able # {} /\ request.asked \in able \cup {None}
      OBVIOUS
    <2>1. w = v
      BY <1>3
    <2>2. request.staff = Staffing(c, past[v], request.services)
      BY <1>2, <2>1
    <2>3. request.services # {} /\ Visit(c)!Offered(past[v], request.services, request.asked)
      BY <1>3
    <2>4. able = {m \in Staffing(c, past[v], request.services) : request.services \subseteq past[v].skills[m]}
      BY <2>2
    <2> HIDE DEF able
    <2> QED
      BY <2>3, <2>4, OfferedStaff
  <1>6. UNCHANGED <<past, items, extras, master, slot>>
    BY DEF Visit!ReadSkills, Visit!page
  <1>7. ASSUME NEW reason \in {"nobody", "notTheirs"}, Visit(c)!Refuse(reason),
               able = {} \/ request.asked \notin able \cup {None}
        PROVE  OfferInv(c)'
    <2>1. ~(slot.at = v /\ slot.services = request.services)
      BY <1>5, <1>7
    <2>2. reason \in Visit(c)!Refusals
      BY DEF Visit!Refusals
    <2> QED
      BY <1>1, <1>6, <1>7, <2>1, <2>2, RefusedKeeps
  <1>8. ASSUME able # {}, request.asked \in able \cup {None},
               request' = [request EXCEPT !.op = "mode", !.candidates =
                             IF request.asked = None THEN able ELSE {request.asked}]
        PROVE  OfferInv(c)'
    <2> HIDE DEF able
    <2>1. /\ SameRequest /\ request'.op = "mode" /\ request'.priced = request.priced
          /\ request'.candidates = IF request.asked = None THEN able ELSE {request.asked}
      BY <1>1, <1>6, <1>8 DEF SameRequest, Fields
    <2>2. request'.candidates = {m \in able : request.asked \in {m, None}}
      BY <1>8, <2>1
    <2>3. able = {m \in Staffing(c, past[w], request.services) : request.services \subseteq past[v].skills[m]}
      BY <1>2 DEF able
    <2>4. request'.candidates = Able(c, past[w], past[v].skills, request.services, request.asked)
      BY <2>2, <2>3 DEF Able
    <2>5. v \in request.began..v /\ w \in request.began..v
      BY <1>3
    <2>6. SkillsRead(c)'
      BY <1>6, <2>1, <2>4, <2>5 DEF SkillsRead, SameRequest
    <2>7. PriceRead(c)'
      BY <1>1, <2>1 DEF PriceRead, SameRequest, OfferInv
    <2>8. StaffRead(c)' /\ ModeRead'
      BY <2>1 DEF StaffRead, ModeRead
    <2> QED
      BY <1>1, <2>1, <2>6, <2>7, <2>8, GoesOn
  <1>9. \/ able = {} /\ Visit(c)!Refuse("nobody")
        \/ request.asked \notin able \cup {None} /\ Visit(c)!Refuse("notTheirs")
        \/ /\ able # {} /\ request.asked \in able \cup {None}
           /\ request' = [request EXCEPT !.op = "mode", !.candidates =
                            IF request.asked = None THEN able ELSE {request.asked}]
    <2> HIDE DEF able
    <2> QED
      BY <1>4 DEF Visit!ReadSkills
  <1> QED
    BY <1>7, <1>8, <1>9

LEMMA ReadModeKeeps ==
  ASSUME NEW c, OfferInv(c), Visit(c)!ReadMode
  PROVE  OfferInv(c)'
  <1>1. request.op = "mode" /\ Fields \subseteq DOMAIN request
    BY DEF Visit!ReadMode, OfferInv, RequestKnown
  <1>2. /\ request' = [request EXCEPT !.op = "commit", !.status = Confirmation(past[Len(past)])]
        /\ UNCHANGED <<past, items, extras, master, slot>>
    BY DEF Visit!ReadMode, Visit!Now, Visit!page, Confirmation
  <1>3. /\ SameRequest /\ request'.op = "commit" /\ request'.priced = request.priced
        /\ request'.status = Confirmation(past[Len(past)]) /\ request'.candidates = request.candidates
    BY <1>1, <1>2 DEF SameRequest, Fields
  <1>4. request.began \in 1..Len(past) /\ Len(past) \in Nat
    BY <1>1, <1>3, SameKnown
  <1>5. PriceRead(c)'
    BY <1>1, <1>3 DEF PriceRead, SameRequest, OfferInv
  <1>6. SkillsRead(c)'
    BY <1>1, <1>3 DEF SkillsRead, SameRequest, OfferInv
  <1>7. ModeRead'
    BY <1>3, <1>4 DEF ModeRead, SameRequest
  <1>8. StaffRead(c)'
    BY <1>3 DEF StaffRead
  <1> QED
    BY <1>1, <1>3, <1>5, <1>6, <1>7, <1>8, GoesOn

LEMMA CommitKeeps ==
  ASSUME NEW c, OfferNames(c), OfferInv(c), Visit(c)!Commit
  PROVE  OfferInv(c)'
  <1> DEFINE n == Len(past)
             length == Visit(c)!Length(past[request.priced], request.services, request.extras)
             free == {m \in request.candidates : past[n].room[m] >= length}
             price == Visit(c)!Price(past[request.priced], request.services, request.extras)
  <1>1. request.op = "commit" /\ Fields \subseteq DOMAIN request
    BY DEF Visit!Commit, OfferInv, RequestKnown
  <1>2. PICK v \in request.began..n : \E w \in request.began..v :
          request.candidates = Able(c, past[w], past[v].skills, request.services, request.asked)
    BY <1>1 DEF OfferInv, SkillsRead
  <1>3. PICK w \in request.began..v :
          request.candidates = Able(c, past[w], past[v].skills, request.services, request.asked)
    BY <1>2
  <1>4. /\ request.began \in 1..n /\ n \in Nat /\ request.first \in request.services
        /\ request.extras \in [c.services -> Nat] /\ request.quoted \in 0..request.began
        /\ slot # None /\ slot.at <= request.began /\ request.asked = master
        /\ slot.at \in 1..n /\ Visit(c)!Offered(past[slot.at], slot.services, master)
    BY <1>1 DEF OfferInv, RequestKnown, VisitTyped, SlotOffered
  <1>5. /\ request.priced \in request.began..n
        /\ Visit(c)!AllActive(past[request.priced], request.services)
    BY <1>1 DEF OfferInv, PriceRead
  <1>6. UNCHANGED <<past, items, extras, master, slot>>
    BY DEF Visit!Commit, Visit!page
  <1>7. CASE free = {}
    <2>1. Visit(c)!Refuse("conflict") /\ "conflict" \in Visit(c)!Refusals
      BY <1>7 DEF Visit!Commit, Visit!Now, Visit!Refusals
    <2>2. ASSUME slot.at = n, slot.services = request.services
          PROVE  \E s \in request.services : request.extras[s] > 0
      <3>1. v = n /\ w = n /\ request.priced = n
        BY <1>4, <1>5, <2>2
      <3>2. PICK m \in Staffing(c, past[n], request.services) :
              /\ request.services \subseteq past[n].skills[m] /\ request.asked \in {m, None}
              /\ past[n].room[m] >=
                   Visit(c)!Length(past[n], request.services, [s \in request.services |-> 0])
        BY <1>4, <2>2, OfferedStaff
      <3>3. m \in request.candidates
        BY <1>3, <3>1, <3>2 DEF Able
      <3>4. ~(past[n].room[m] >= Visit(c)!Length(past[n], request.services, request.extras))
        BY <1>7, <3>1, <3>3
      <3>5. request.services \subseteq c.services
        <4>1. past[n] \in Visit(c)!Offer /\ m \in c.masters
          BY <1>4, <3>2 DEF OfferInv, VisitTyped, Staffing
        <4>2. past[n].skills[m] \subseteq c.services
          BY <4>1 DEF Visit!Offer
        <4> QED
          BY <3>2, <4>2
      <3>6. SUFFICES ASSUME \A s \in request.services : request.extras[s] = 0 PROVE FALSE
        BY <1>4, <3>5
      <3>7. Visit(c)!Length(past[n], request.services, [s \in request.services |-> 0]) =
              Visit(c)!Length(past[n], request.services, request.extras)
        <4> DEFINE none == [s \in request.services |-> 0]
        <4>1. \A s \in request.services : none[s] = request.extras[s]
          BY <3>6
        <4> HIDE DEF none
        <4>2. Visit(c)!Length(past[n], request.services, none) =
                Visit(c)!Length(past[n], request.services, request.extras)
          BY <4>1, LengthsAgree
        <4> QED
          BY <4>2 DEF none
      <3> QED
        BY <3>2, <3>4, <3>7
    <2> QED
      BY <1>1, <1>6, <2>1, <2>2, RefusedKeeps
  <1>8. CASE free # {}
    <2>1. request' = [request EXCEPT !.op = "booked", !.master = Visit(c)!Min(free), !.ended = n, !.price = price]
      BY <1>8 DEF Visit!Commit, Visit!Now
    <2>2. free \in SUBSET Nat
      BY <1>3 DEF OfferNames, Able, Staffing
    <2>3. PICK m \in free : m = Visit(c)!Min(free)
      BY <1>8, <2>2, Least
    <2>4. /\ m \in Staffing(c, past[w], request.services)
          /\ request.services \subseteq past[v].skills[m] /\ request.asked \in {m, None}
      BY <1>3, <2>3 DEF Able
    <2> HIDE DEF free, price, length
    <2>5. /\ SameRequest /\ request'.op = "booked" /\ request'.master = m /\ request'.ended = n
          /\ request'.price = price /\ request'.status = request.status
      BY <1>1, <1>6, <2>1, <2>3 DEF SameRequest, Fields
    <2>6. VisitTyped(c)' /\ SlotOffered(c)' /\ RequestKnown(c)'
      BY <1>1, <2>5, SameKnown
    <2>7. EndsLater(c)'
      BY <1>4, <2>5 DEF EndsLater, SameRequest
    <2>8. PriceRead(c)' /\ StaffRead(c)' /\ SkillsRead(c)' /\ ModeRead'
      BY <2>5 DEF PriceRead, StaffRead, SkillsRead, ModeRead
    <2>9. Visit(c)!SlotsAreGood'
      BY <2>5 DEF Visit!SlotsAreGood, Visit!Refusals
    <2>10. Visit(c)!BookedAsOffered'
      <3>1. Visit(c)!During' = request.began..n
        BY <2>5 DEF Visit!During, SameRequest
      <3>2. \E i \in request.began..n :
              /\ Visit(c)!AllActive(past[i], request.services)
              /\ price = Visit(c)!Price(past[i], request.services, request.extras)
        BY <1>5 DEF price
      <3>3. request.quoted = n => price = Visit(c)!Price(past[request.quoted], request.services, request.extras)
        <4>1. request.quoted = n => request.priced = request.quoted
          BY <1>4, <1>5
        <4> QED
          BY <4>1 DEF price
      <3>4. \E i \in request.began..n :
              /\ request.services \subseteq past[i].skills[m]
              /\ \E j \in request.began..i : past[j].link[m] /\ past[j].accepts[m]
        BY <2>4 DEF Staffing
      <3>5. request.began = n /\ past[n].open => m \in Visit(c)!Shown(past[n], request.first)
        <4> SUFFICES ASSUME request.began = n, past[n].open PROVE m \in Visit(c)!Shown(past[n], request.first)
          OBVIOUS
        <4>1. v = n /\ w = n /\ request.priced = n
          BY <1>4, <1>5
        <4>2. past[n].service[request.first].active
          BY <1>4, <1>5, <4>1 DEF Visit!AllActive
        <4>3. m \in c.masters /\ past[n].link[m] /\ request.first \in past[n].skills[m]
          BY <1>4, <2>4, <4>1 DEF Staffing
        <4> QED
          BY <4>2, <4>3 DEF Visit!Shown
      <3>6. \E i \in request.began..n : request.status = Confirmation(past[i])
        BY <1>1 DEF OfferInv, ModeRead
      <3> QED
        BY <2>4, <2>5, <3>1, <3>2, <3>3, <3>4, <3>5, <3>6 DEF Visit!BookedAsOffered, SameRequest, Confirmation
    <2> QED
      BY <2>6, <2>7, <2>8, <2>9, <2>10 DEF OfferInv, Visit!OffersKept
  <1> QED
    BY <1>7, <1>8

-----------------------------------------------------------------------------
(* Changes of the offer.                                                   *)

LEMMA ChangedKeeps ==
  ASSUME NEW c, OfferInv(c), NEW o \in Visit(c)!Offer, Visit(c)!Changed(o)
  PROVE  OfferInv(c)'
  <1> DEFINE n == Len(past)
  <1>1. /\ past' = Append(past, o) /\ UNCHANGED <<items, extras, master, slot, request>>
        /\ past \in Seq(Visit(c)!Offer) /\ past # <<>>
    BY DEF Visit!Changed, Visit!page, OfferInv, VisitTyped
  <1>2. n \in Nat /\ Len(past') = n + 1 /\ past' \in Seq(Visit(c)!Offer) /\ past' # <<>>
    BY <1>1
  <1>3. \A i \in 1..n : past'[i] = past[i]
    BY <1>1
  <1>4. VisitTyped(c)'
    BY <1>1, <1>2 DEF VisitTyped, OfferInv
  <1>5. SlotOffered(c)'
    BY <1>1, <1>2, <1>3 DEF SlotOffered, OfferInv
  <1>6. RequestKnown(c)'
    BY <1>1, <1>2 DEF RequestKnown, OfferInv
  <1>7. request.op # "idle" => request.began \in 1..n
    BY DEF OfferInv, RequestKnown
  <1>8. PriceRead(c)'
    BY <1>1, <1>2, <1>3, <1>7 DEF PriceRead, OfferInv
  <1>9. StaffRead(c)'
    <2> SUFFICES ASSUME request.op = "skills"
                 PROVE  \E w \in request.began..(n + 1) :
                          request.staff = Staffing(c, past'[w], request.services)
      BY <1>1, <1>2 DEF StaffRead
    <2>1. PICK w \in request.began..n : request.staff = Staffing(c, past[w], request.services)
      BY DEF OfferInv, StaffRead
    <2>2. past'[w] = past[w] /\ w \in request.began..(n + 1)
      BY <1>2, <1>3, <1>7, <2>1
    <2> QED
      BY <2>1, <2>2
  <1>10. SkillsRead(c)'
    <2> SUFFICES ASSUME request.op \in {"mode", "commit"}
                 PROVE  \E v \in request.began..(n + 1) : \E w \in request.began..v :
                          request.candidates =
                            Able(c, past'[w], past'[v].skills, request.services, request.asked)
      BY <1>1, <1>2 DEF SkillsRead
    <2>1. PICK v \in request.began..n : \E w \in request.began..v :
            request.candidates = Able(c, past[w], past[v].skills, request.services, request.asked)
      BY DEF OfferInv, SkillsRead
    <2>2. PICK w \in request.began..v :
            request.candidates = Able(c, past[w], past[v].skills, request.services, request.asked)
      BY <2>1
    <2>3. /\ past'[v] = past[v] /\ past'[w] = past[w]
          /\ v \in request.began..(n + 1)
      BY <1>2, <1>3, <1>7, <2>1, <2>2
    <2> QED
      BY <2>2, <2>3
  <1>11. ModeRead'
    <2> SUFFICES ASSUME request.op = "commit"
                 PROVE  \E v \in request.began..(n + 1) : request.status = Confirmation(past'[v])
      BY <1>1, <1>2 DEF ModeRead
    <2>1. PICK v \in request.began..n : request.status = Confirmation(past[v])
      BY DEF OfferInv, ModeRead
    <2>2. past'[v] = past[v] /\ v \in request.began..(n + 1)
      BY <1>2, <1>3, <1>7, <2>1
    <2> QED
      BY <2>1, <2>2
  <1>12. EndsLater(c)'
    BY <1>1, <1>2, <1>7 DEF EndsLater, OfferInv, Visit!Ended, Visit!Refusals
  <1>13. Visit(c)!SlotsAreGood'
    BY <1>1 DEF OfferInv, Visit!OffersKept, Visit!SlotsAreGood
  <1>14. Visit(c)!BookedAsOffered'
    <2> SUFFICES ASSUME request.op = "booked" PROVE Visit(c)!BookedAsOffered'
      BY <1>1 DEF Visit!BookedAsOffered
    <2>1. request.ended \in request.began..n /\ request.began \in 1..n /\ request.quoted \in 0..request.began
      BY DEF OfferInv, EndsLater, RequestKnown, Visit!Ended
    <2>2. \A i \in request.began..request.ended : past'[i] = past[i]
      BY <1>2, <1>3, <2>1
    <2>3. request.quoted = request.ended => past'[request.quoted] = past[request.quoted]
      BY <1>2, <1>3, <2>1
    <2>4. past'[request.ended] = past[request.ended]
      BY <1>2, <1>3, <2>1
    <2>5. Visit(c)!BookedAsOffered
      BY DEF OfferInv, Visit!OffersKept
    <2>6. \E i \in request.began..request.ended :
            /\ Visit(c)!AllActive(past'[i], request.services)
            /\ request.price = Visit(c)!Price(past'[i], request.services, request.extras)
      BY <2>2, <2>5 DEF Visit!BookedAsOffered, Visit!During
    <2>7. \E i \in request.began..request.ended :
            /\ request.services \subseteq past'[i].skills[request.master]
            /\ \E w \in request.began..i : past'[w].link[request.master] /\ past'[w].accepts[request.master]
      <3>1. PICK i \in request.began..request.ended :
              /\ request.services \subseteq past[i].skills[request.master]
              /\ \E w \in request.began..i : past[w].link[request.master] /\ past[w].accepts[request.master]
        BY <2>5 DEF Visit!BookedAsOffered, Visit!During
      <3>2. \A w \in request.began..i : w \in request.began..request.ended
        BY <2>1, <3>1
      <3> QED
        BY <2>2, <3>1, <3>2
    <2>8. \E i \in request.began..request.ended : request.status = Confirmation(past'[i])
      BY <2>2, <2>5 DEF Visit!BookedAsOffered, Visit!During, Confirmation
    <2>9. /\ request.quoted = request.ended =>
               request.price = Visit(c)!Price(past'[request.quoted], request.services, request.extras)
          /\ request.asked \in {request.master, None}
          /\ request.began = request.ended /\ past'[request.ended].open =>
               request.master \in Visit(c)!Shown(past'[request.ended], request.first)
      BY <2>3, <2>4, <2>5 DEF Visit!BookedAsOffered
    <2> QED
      BY <1>1, <2>6, <2>7, <2>8, <2>9 DEF Visit!BookedAsOffered, Visit!During, Confirmation
  <1> QED
    BY <1>4, <1>5, <1>6, <1>8, <1>9, <1>10, <1>11, <1>12, <1>13, <1>14 DEF OfferInv, Visit!OffersKept

\* What the owner and the administrator make of an offer is one.
LEMMA OffersTyped ==
  ASSUME NEW c, OfferNames(c), NEW o \in Visit(c)!Offer
  PROVE  /\ \A s \in c.services, rate \in c.rates, active \in BOOLEAN :
              [o EXCEPT !.service[s] = [active |-> active, price |-> rate.price, length |-> rate.length]]
                \in Visit(c)!Offer
         /\ \A s \in c.services : [o EXCEPT !.service[s].active = FALSE] \in Visit(c)!Offer
         /\ \A m \in c.masters, skills \in SUBSET c.services :
              [o EXCEPT !.link[m] = TRUE, !.skills[m] = skills] \in Visit(c)!Offer
         /\ \A m \in c.masters : [o EXCEPT !.link[m] = FALSE] \in Visit(c)!Offer
         /\ \A mode \in {"AUTO", "REQUEST"} : [o EXCEPT !.mode = mode] \in Visit(c)!Offer
         /\ \A m \in c.masters, active \in BOOLEAN : [o EXCEPT !.accepts[m] = active] \in Visit(c)!Offer
         /\ \A active \in BOOLEAN : [o EXCEPT !.open = active] \in Visit(c)!Offer
         /\ \A m \in c.masters, n \in c.rooms : [o EXCEPT !.room[m] = n] \in Visit(c)!Offer
  <1>1. \A rate \in c.rates : rate.price \in Nat /\ rate.length \in Nat
    BY DEF OfferNames
  <1>2. ASSUME NEW s \in c.services, NEW rate \in c.rates, NEW active \in BOOLEAN
        PROVE  [o EXCEPT !.service[s] = [active |-> active, price |-> rate.price, length |-> rate.length]]
                 \in Visit(c)!Offer
    BY <1>1 DEF Visit!Offer
  <1>3. ASSUME NEW s \in c.services PROVE [o EXCEPT !.service[s].active = FALSE] \in Visit(c)!Offer
    <2> DEFINE row == [o.service[s] EXCEPT !.active = FALSE]
    <2>1. row \in [active : BOOLEAN, price : Nat, length : Nat]
      <3>1. o.service[s] \in [active : BOOLEAN, price : Nat, length : Nat]
        BY DEF Visit!Offer
      <3>2. PICK r \in [active : BOOLEAN, price : Nat, length : Nat] : r = o.service[s]
        BY <3>1
      <3>3. [r EXCEPT !.active = FALSE] \in [active : BOOLEAN, price : Nat, length : Nat]
        OBVIOUS
      <3> QED
        BY <3>2, <3>3
    <2>2. [o EXCEPT !.service[s].active = FALSE] = [o EXCEPT !.service[s] = row]
      OBVIOUS
    <2> HIDE DEF row
    <2>3. [o EXCEPT !.service[s] = row] \in Visit(c)!Offer
      BY <2>1 DEF Visit!Offer
    <2> QED
      BY <2>2, <2>3
  <1>4. ASSUME NEW m \in c.masters, NEW skills \in SUBSET c.services
        PROVE  [o EXCEPT !.link[m] = TRUE, !.skills[m] = skills] \in Visit(c)!Offer
    BY DEF Visit!Offer
  <1>5. ASSUME NEW m \in c.masters, NEW b \in BOOLEAN
        PROVE  [o EXCEPT !.link[m] = b] \in Visit(c)!Offer /\ [o EXCEPT !.accepts[m] = b] \in Visit(c)!Offer
    BY DEF Visit!Offer
  <1>6. ASSUME NEW m \in c.masters, NEW n \in c.rooms PROVE [o EXCEPT !.room[m] = n] \in Visit(c)!Offer
    BY DEF Visit!Offer
  <1>7. ASSUME NEW mode \in {"AUTO", "REQUEST"} PROVE [o EXCEPT !.mode = mode] \in Visit(c)!Offer
    BY DEF Visit!Offer
  <1>8. ASSUME NEW b \in BOOLEAN PROVE [o EXCEPT !.open = b] \in Visit(c)!Offer
    BY DEF Visit!Offer
  <1> QED
    BY <1>2, <1>3, <1>4, <1>5, <1>6, <1>7, <1>8

LEMMA OfferKeeps ==
  ASSUME NEW c, OfferNames(c), OfferInv(c), Visit(c)!Next
  PROVE  OfferInv(c)'
  <1>1. past[Visit(c)!Now] \in Visit(c)!Offer
    BY DEF OfferInv, VisitTyped, Visit!Now
  <1>2. CASE \/ \E s \in c.services : Visit(c)!Add(s) \/ Visit(c)!Remove(s)
             \/ \E s \in c.services, n \in 0..c.maxExtras : Visit(c)!Modify(s, n)
             \/ \E m \in c.masters \cup {None} : Visit(c)!ChooseMaster(m)
             \/ \E v \in 1..Visit(c)!Now : Visit(c)!PickSlot(v)
    BY <1>2, PageKeeps
  <1>3. CASE \E v \in 0..Visit(c)!Now : Visit(c)!Confirm(v)
    BY <1>3, ConfirmKeeps
  <1>4. CASE \/ Visit(c)!ReadPrice \/ Visit(c)!ReadPrimary \/ Visit(c)!ReadStaff
             \/ Visit(c)!ReadSkills \/ Visit(c)!ReadMode \/ Visit(c)!Commit
    BY <1>4, ReadPriceKeeps, ReadPrimaryKeeps, ReadStaffKeeps, ReadSkillsKeeps, ReadModeKeeps, CommitKeeps
  <1>5. CASE \/ \E s \in c.services, rate \in c.rates, active \in BOOLEAN :
                  Visit(c)!UpdateService(s, rate, active)
             \/ \E s \in c.services : Visit(c)!RemoveService(s)
             \/ \E m \in c.masters, skills \in SUBSET c.services : Visit(c)!PublishStaff(m, skills)
             \/ \E m \in c.masters : Visit(c)!PublishWithout(m)
    BY <1>1, <1>5, OffersTyped, ChangedKeeps DEF Visit!UpdateService, Visit!RemoveService, Visit!PublishStaff,
       Visit!PublishWithout
  <1>6. CASE \/ \E mode \in {"AUTO", "REQUEST"} : Visit(c)!PublishMode(mode)
             \/ \E m \in c.masters, active \in BOOLEAN : Visit(c)!SetMasterProfileState(m, active)
             \/ \E active \in BOOLEAN : Visit(c)!SetSalonProfileState(active)
             \/ \E m \in c.masters, n \in c.rooms : Visit(c)!ChangeRoom(m, n)
    BY <1>1, <1>6, OffersTyped, ChangedKeeps DEF Visit!PublishMode, Visit!SetMasterProfileState,
       Visit!SetSalonProfileState, Visit!ChangeRoom
  <1> QED
    BY <1>2, <1>3, <1>4, <1>5, <1>6 DEF Visit!Next

LEMMA OfferStutters ==
  ASSUME NEW c, OfferInv(c), UNCHANGED <<past, items, extras, master, slot, request>>
  PROVE  OfferInv(c)'
  <1>1. VisitTyped(c)' /\ SlotOffered(c)' /\ RequestKnown(c)'
    BY DEF OfferInv, VisitTyped, SlotOffered, RequestKnown
  <1>2. PriceRead(c)' /\ StaffRead(c)' /\ SkillsRead(c)' /\ ModeRead' /\ EndsLater(c)'
    BY DEF OfferInv, PriceRead, StaffRead, SkillsRead, ModeRead, EndsLater
  <1>3. Visit(c)!OffersKept'
    BY DEF OfferInv, Visit!OffersKept, Visit!BookedAsOffered, Visit!SlotsAreGood, Visit!During
  <1> QED
    BY <1>1, <1>2, <1>3 DEF OfferInv

\* What is booked was offered, and what was offered is refused only if the offer
\* changed or for modifiers (BookedAsOffered, SlotsAreGood), whatever the services,
\* masters, rates and changes of a salon.
THEOREM OffersStayKept ==
  ASSUME CONSTANT c, OfferNames(c)
  PROVE  Visit(c)!Spec => []Visit(c)!OffersKept
  <1>1. Visit(c)!Init => OfferInv(c)
    BY OfferStarts
  <1>2. OfferInv(c) /\ [Visit(c)!Next]_(Visit(c)!vars) => OfferInv(c)'
    BY OfferKeeps, OfferStutters DEF Visit!vars
  <1>3. OfferInv(c) => Visit(c)!OffersKept
    BY DEF OfferInv
  <1> QED
    BY <1>1, <1>2, <1>3, PTL DEF Visit!Spec

LEMMA PartsOfferNames == OfferNames(TwoMasters) /\ OfferNames(TwoRates) /\ OfferNames(TwoChanges)
  <1>1. OfferNames(TwoMasters)
    BY DEF OfferNames, TwoMasters, Hour
  <1>2. OfferNames(TwoRates)
    BY DEF OfferNames, TwoRates, Hour
  <1>3. OfferNames(TwoChanges)
    BY DEF OfferNames, TwoChanges, Hour
  <1> QED
    BY <1>1, <1>2, <1>3

PartsOffer ==
  /\ part = "offered" => OfferInv(TwoMasters)
  /\ part = "priced" => OfferInv(TwoRates)
  /\ part = "changing" => OfferInv(TwoChanges)

\* The same of the specification the run explores, in its three parts about offers.
THEOREM OffersKeptInParts == MCSpec => []OffersKept
  <1>1. MCInit => PartsOffer
    <2> HIDE DEF TwoMasters, TwoRates, TwoChanges
    <2> QED
      BY PartsOfferNames, OfferStarts DEF MCInit, PartsOffer
  <1>2. ASSUME PartsOffer, [MCNext]_MCvars PROVE PartsOffer'
    <2>1. ASSUME NEW c, OfferNames(c), OfferInv(c),
                 Visit(c)!Next \/ UNCHANGED <<past, items, extras, master, slot, request>>
          PROVE  OfferInv(c)'
      BY <2>1, OfferKeeps, OfferStutters
    <2>2. part = "offered" => OfferInv(TwoMasters)'
      <3> SUFFICES ASSUME part = "offered" PROVE OfferInv(TwoMasters)'
        OBVIOUS
      <3>1. Visit(TwoMasters)!Next \/ UNCHANGED <<past, items, extras, master, slot, request>>
        BY <1>2 DEF MCNext, MCvars, offering
      <3> QED
        BY <1>2, <2>1, <3>1, PartsOfferNames DEF PartsOffer
    <2>3. part = "priced" => OfferInv(TwoRates)'
      <3> SUFFICES ASSUME part = "priced" PROVE OfferInv(TwoRates)'
        OBVIOUS
      <3>1. Visit(TwoRates)!Next \/ UNCHANGED <<past, items, extras, master, slot, request>>
        BY <1>2 DEF MCNext, MCvars, offering
      <3> QED
        BY <1>2, <2>1, <3>1, PartsOfferNames DEF PartsOffer
    <2>4. part = "changing" => OfferInv(TwoChanges)'
      <3> SUFFICES ASSUME part = "changing" PROVE OfferInv(TwoChanges)'
        OBVIOUS
      <3>1. Visit(TwoChanges)!Next \/ UNCHANGED <<past, items, extras, master, slot, request>>
        BY <1>2 DEF MCNext, MCvars, offering
      <3> QED
        BY <1>2, <2>1, <3>1, PartsOfferNames DEF PartsOffer
    <2> QED
      BY <1>2, <2>2, <2>3, <2>4, PartsStay DEF PartsOffer
  <1>3. PartsOffer => OffersKept
    BY DEF PartsOffer, OffersKept, OfferInv
  <1> QED
    BY <1>1, <1>2, <1>3, PTL DEF MCSpec
=============================================================================
