------------------------------ MODULE Sessions ------------------------------
(***************************************************************************)
(* AuthService: the RefreshToken table and the handlers that sign users    *)
(* in and out, with the administrator's part of it in UsersService.  A     *)
(* refresh rotates a token: the old row is revoked and a new one of the    *)
(* same family takes its place.  Presenting a revoked token ends every     *)
(* session of its user.                                                    *)
(*                                                                         *)
(* All statements run at READ COMMITTED, and the handlers that read before *)
(* they write are split there:                                             *)
(*                                                                         *)
(*   login           LoginRead, LoginCommit                                *)
(*   refresh         RefreshRead, RefreshUser, RefreshCommit               *)
(*                   or RefreshRead, ReuseRevoke                           *)
(*   changePassword  ChangeRead, ChangeCommit                              *)
(*                                                                         *)
(* A family is named by its first token.                                   *)
(***************************************************************************)
EXTENDS Integers, FiniteSets

CONSTANTS
  Users,
  Tokens,         \* ids of RefreshToken rows
  Handlers,       \* requests that can be in flight at once
  None,           \* the null of optional columns
  MaxPassword     \* bound: passwords a user ever has

ASSUME NoneAssumption == None \notin Tokens \cup Users
ASSUME BoundAssumption == MaxPassword \in Nat \ {0}

VARIABLES
  token,      \* the RefreshToken table
  account,    \* the User table: password version, and isActive as "open" or "locked"
  expired,    \* tokens whose time is over
  req,        \* the handlers in flight
  vouched,    \* history variable: the password a token's sign-in was made with
  closed      \* history variable: families that existed when all sessions of
              \* their user were revoked

vars == <<token, account, expired, req, vouched, closed>>

-----------------------------------------------------------------------------
NoToken == [state |-> "absent"]

Idle == [op |-> "idle"]

Exists(t) == token[t] # NoToken

Live(t) == token[t].state = "live"

\* The families of user u, each by its first token.
FamiliesOf(u) == {t \in Tokens : Exists(t) /\ token[t].user = u /\ token[t].family = t}

Init ==
  /\ token = [t \in Tokens |-> NoToken]
  /\ account = [u \in Users |-> [password |-> 1, access |-> "open"]]
  /\ expired = {}
  /\ req = [h \in Handlers |-> Idle]
  /\ vouched = [t \in Tokens |-> 0]
  /\ closed = {}

Finish(h) == req' = [req EXCEPT ![h] = Idle]

\* Mutant: a new row has no replacedBy column.
NewTokenUntyped(u, family, parent) ==
  [state |-> "live", user |-> u, family |-> family, parent |-> parent]

\* The row rotateSession creates.
NewToken(u, family, parent) ==
  [state |-> "live", user |-> u, family |-> family, parent |-> parent,
   replacedBy |-> None]

\* issueSession: a token that starts a family.
Issue(u, password) ==
  \E t \in Tokens :
    /\ ~Exists(t)
    /\ token' = [token EXCEPT ![t] = NewToken(u, t, None)]
    /\ vouched' = [vouched EXCEPT ![t] = password]

\* Mutant: only one of the user's sessions is revoked.
RevokeAllButOne(u) ==
  /\ \E kept \in Tokens :
       token' = [t \in Tokens |->
                   IF Live(t) /\ token[t].user = u /\ t # kept
                   THEN [token[t] EXCEPT !.state = "revoked"] ELSE token[t]]
  /\ closed' = closed \cup FamiliesOf(u)

\* updateMany of the user's rows whose revokedAt is null.
RevokeAll(u) ==
  /\ token' = [t \in Tokens |->
                 IF Live(t) /\ token[t].user = u
                 THEN [token[t] EXCEPT !.state = "revoked"] ELSE token[t]]
  /\ closed' = closed \cup FamiliesOf(u)

-----------------------------------------------------------------------------
(* Signing in.                                                             *)

\* login finds the user, verifies the password and that the account is active,
\* all against the one row it read.
LoginRead(h) ==
  /\ req[h] = Idle
  /\ \E u \in Users :
       /\ account[u].access = "open"
       /\ req' = [req EXCEPT ![h] = [op |-> "login", user |-> u,
                                     password |-> account[u].password]]
  /\ UNCHANGED <<token, account, expired, vouched, closed>>

LoginCommit(h) ==
  /\ req[h].op = "login"
  /\ Issue(req[h].user, req[h].password)
  /\ Finish(h)
  /\ UNCHANGED <<account, expired, closed>>

\* redeemCode issues a session for a user who has an access token; it counts
\* as made with the password of the moment.
IssueSessionPublic(u) ==
  /\ Issue(u, account[u].password)
  /\ UNCHANGED <<account, expired, req, closed>>

-----------------------------------------------------------------------------
(* Refreshing.                                                             *)

\* Mutant: reuse is recognised by replacedByTokenId.
RevokedIfReplaced(t) == token[t].replacedBy # None

\* The test that tells a token used before from one that can be rotated.
Revoked(t) == token[t].state = "revoked"

\* refresh verifies the token's signature and time, and reads its row.
RefreshRead(h) ==
  /\ req[h] = Idle
  /\ \E t \in Tokens \ expired :
       /\ Exists(t)
       /\ req' = [req EXCEPT ![h] =
                    IF Revoked(t) THEN [op |-> "reuse", user |-> token[t].user]
                    ELSE [op |-> "refresh", token |-> t]]
  /\ UNCHANGED <<token, account, expired, vouched, closed>>

\* The next await reads the user; a disabled account ends the handler.
RefreshUser(h) ==
  /\ req[h].op = "refresh"
  /\ account[token[req[h].token].user].access = "open"
  /\ req' = [req EXCEPT ![h].op = "rotate"]
  /\ UNCHANGED <<token, account, expired, vouched, closed>>

\* Mutant: the old row is not updated.
ReplacedKept(t, new) == token[t]

\* The update of the old row, whatever became of it since it was read.
Replaced(t, new) == [token[t] EXCEPT !.state = "revoked", !.replacedBy = new]

\* rotateSession's transaction.
RefreshCommit(h) ==
  /\ req[h].op = "rotate"
  /\ LET old == req[h].token
     IN \E new \in Tokens :
          /\ ~Exists(new)
          /\ token' = [token EXCEPT
                         ![old] = Replaced(old, new),
                         ![new] = NewToken(token[old].user, token[old].family, old)]
          /\ vouched' = [vouched EXCEPT ![new] = vouched[old]]
  /\ Finish(h)
  /\ UNCHANGED <<account, expired, closed>>

\* Reuse detected: one statement revokes what the user has by now.
ReuseRevoke(h) ==
  /\ req[h].op = "reuse"
  /\ RevokeAll(req[h].user)
  /\ Finish(h)
  /\ UNCHANGED <<account, expired, vouched>>

-----------------------------------------------------------------------------
(* Signing out.                                                            *)

\* logout revokes the row of the cookie's token; with none, or one that is
\* expired or revoked already, it only clears the cookie.
Logout(t) ==
  /\ t \notin expired
  /\ Live(t)
  /\ token' = [token EXCEPT ![t].state = "revoked"]
  /\ UNCHANGED <<account, expired, req, vouched, closed>>

\* One statement for a signed-in user.
LogoutAll(u) ==
  /\ account[u].access = "open"
  /\ RevokeAll(u)
  /\ UNCHANGED <<account, expired, req, vouched>>

\* changePassword reads the user and verifies the current password.
ChangeRead(h) ==
  /\ req[h] = Idle
  /\ \E u \in Users :
       /\ account[u].access = "open"
       /\ req' = [req EXCEPT ![h] = [op |-> "change", user |-> u]]
  /\ UNCHANGED <<token, account, expired, vouched, closed>>

\* Its transaction stores the new password and revokes all sessions.
ChangeCommit(h) ==
  /\ req[h].op = "change"
  /\ account[req[h].user].password < MaxPassword
  /\ account' = [account EXCEPT ![req[h].user].password = @ + 1]
  /\ RevokeAll(req[h].user)
  /\ Finish(h)
  /\ UNCHANGED <<expired, vouched>>

\* The administrator's moderation: suspend locks and revokes in one
\* transaction, revoke-sessions only revokes.
Suspend(u) ==
  /\ account' = [account EXCEPT ![u].access = "locked"]
  /\ RevokeAll(u)
  /\ UNCHANGED <<expired, req, vouched>>

RevokeSessions(u) ==
  /\ RevokeAll(u)
  /\ UNCHANGED <<account, expired, req, vouched>>

\* setUserAccessState, and the moderation's reactivate, leave the sessions alone.
SetAccess(u, access) ==
  /\ account' = [account EXCEPT ![u].access = access]
  /\ UNCHANGED <<token, expired, req, vouched, closed>>

Reactivate(u) == SetAccess(u, "open")

-----------------------------------------------------------------------------
\* A handler ends without a further write: an error or the process died.
Abandon(h) ==
  /\ req[h] # Idle
  /\ Finish(h)
  /\ UNCHANGED <<token, account, expired, vouched, closed>>

Expire(t) ==
  /\ Exists(t)
  /\ t \notin expired
  /\ expired' = expired \cup {t}
  /\ UNCHANGED <<token, account, req, vouched, closed>>

Step(h) ==
  \/ LoginRead(h)
  \/ LoginCommit(h)
  \/ RefreshRead(h)
  \/ RefreshUser(h)
  \/ RefreshCommit(h)
  \/ ReuseRevoke(h)
  \/ ChangeRead(h)
  \/ ChangeCommit(h)
  \/ Abandon(h)

Atomic(u) ==
  \/ IssueSessionPublic(u)
  \/ LogoutAll(u)
  \/ Suspend(u)
  \/ RevokeSessions(u)
  \/ Reactivate(u)
  \/ \E access \in {"open", "locked"} : SetAccess(u, access)

Next ==
  \/ \E h \in Handlers : Step(h)
  \/ \E u \in Users : Atomic(u)
  \/ \E t \in Tokens : Logout(t) \/ Expire(t)

Spec == Init /\ [][Next]_vars
-----------------------------------------------------------------------------
(* Types.                                                                  *)

Token == [state : {"live", "revoked"}, user : Users, family : Tokens,
          parent : Tokens \cup {None}, replacedBy : Tokens \cup {None}]

LoginRequest == [op : {"login"}, user : Users, password : 1 .. MaxPassword]

RefreshRequest == [op : {"refresh", "rotate"}, token : Tokens]

UserRequest == [op : {"reuse", "change"}, user : Users]

\* The type invariant.
TypeOK ==
  /\ token \in [Tokens -> Token \cup {NoToken}]
  /\ account \in [Users -> [password : 1 .. MaxPassword, access : {"open", "locked"}]]
  /\ expired \subseteq Tokens
  /\ req \in [Handlers -> {Idle} \cup LoginRequest \cup RefreshRequest \cup UserRequest]
  /\ vouched \in [Tokens -> 0 .. MaxPassword]
  /\ closed \subseteq Tokens

-----------------------------------------------------------------------------
(* What holds whatever handlers interleave.                                *)

\* The columns parentTokenId and replacedByTokenId stay consistent although a
\* rotation overwrites a row it read long ago: a token that was replaced is
\* revoked, its successors share its user and family, and the successor it
\* names is one of them.
ChainsAreSound ==
  \A t \in Tokens :
    Exists(t) /\ token[t].parent # None =>
      LET p == token[t].parent
      IN /\ Exists(p)
         /\ token[p].state = "revoked"
         /\ token[p].user = token[t].user
         /\ token[p].family = token[t].family
         /\ token[p].replacedBy # None
         /\ Exists(token[p].replacedBy)
         /\ token[token[p].replacedBy].parent = p

\* A handler has read token t live and may still rotate it.
InRotation(t) ==
  \E h \in Handlers : req[h].op \in {"refresh", "rotate"} /\ req[h].token = t

\* A family that some token, or some handler, can still carry on.
Ongoing(f) ==
  \E t \in Tokens : Exists(t) /\ token[t].family = f /\ (Live(t) \/ InRotation(t))

\* Token f started a family.
IsRoot(f) == Exists(f) /\ token[f].family = f

Phase(f) == IF ~IsRoot(f) THEN "unused" ELSE IF Ongoing(f) THEN "on" ELSE "over"

Owner(f) == IF IsRoot(f) THEN token[f].user ELSE None

Life == INSTANCE SignIns WITH
          Ids    <- Tokens,
          People <- Users,
          Nobody <- None,
          phase  <- [f \in Tokens |-> Phase(f)],
          owner  <- [f \in Tokens |-> Owner(f)]

\* A family without a live token or a refresh in flight is over for good, and
\* no step ends the families of two users: revoked tokens, of which clients
\* still hold some, buy nothing, and reuse hits nobody else.
ImplementsSignIns == Life!Spec

-----------------------------------------------------------------------------
(* What holds only while handlers run one at a time.                       *)

\* Rotation leaves one live token in a family: the one handed out last.
OneEndPerFamily ==
  \A s, t \in Tokens :
    Live(s) /\ Live(t) /\ token[s].family = token[t].family => s = t

\* Signing out on all devices (or a change of password, a suspension, a
\* detected reuse) ends every family there was.
SignedOutStaysOut ==
  \A t \in Tokens : Live(t) => token[t].family \notin closed

\* A change of password ends every session made with the old one.
PasswordVouchesForSessions ==
  \A t \in Tokens : Live(t) => vouched[t] = account[token[t].user].password
=============================================================================
