--------------------------- MODULE ClientSession ---------------------------
(***************************************************************************)
(* The browser's side of a session: ApiClient, the store of the signed-in  *)
(* user, and useRestoreSession, which signs a reloaded page in again.      *)
(*                                                                         *)
(* A call that is answered 401 waits for a new access token and is sent    *)
(* once more.  All that wait share one refresh, refreshPromise; the        *)
(* restoration of a session refreshes on its own.  Every await of the code *)
(* ends a step: an answer that arrives, and what runs until the next await,*)
(* is one action.                                                          *)
(*                                                                         *)
(* The server is what module Sessions makes of it, seen through one        *)
(* cookie: a refresh with the current token passes the session on, one     *)
(* with a token that was passed on already ends it.                        *)
(***************************************************************************)
EXTENDS Integers, FiniteSets

CONSTANTS
  Calls,          \* calls of request() that can be in flight at once
  Restore,        \* names the refresh of useRestoreSession among the refreshes
  None            \* no promise

VARIABLES
  call,           \* the calls of the page
  refresh,        \* requests to /auth/refresh, named for the call that began them
  promise,        \* refreshPromise: the call whose refresh is awaited
  failed,         \* hasRefreshFailure
  token,          \* accessToken of the store; the user beside it decides nothing here
  cookie,         \* the refresh token the browser holds: "other" is one of an
                  \* earlier session
  session,        \* whether the server keeps the session alive
  excused         \* history of the session: the restoration refreshed beside a
                  \* call, a refresh got no answer or was on its way when the
                  \* user signed in, or user or server ended it

vars == <<call, refresh, promise, failed, token, cookie, session, excused>>

server == <<cookie, session>>

-----------------------------------------------------------------------------
Idle == [state |-> "idle"]

Refreshers == Calls \cup {Restore}

Page ==
  /\ call = [c \in Calls |-> Idle]
  /\ refresh = [r \in Refreshers |-> IF r = Restore THEN [state |-> "due"] ELSE Idle]
  /\ promise = None
  /\ failed = FALSE
  /\ token = "none"

Init ==
  /\ Page
  /\ \/ cookie = "none" /\ session = FALSE
     \/ cookie = "current" /\ session = TRUE
  /\ excused = FALSE

Underway(r) == refresh[r].state \in {"sent", "granted", "refused"}

\* The browser adds the cookie it holds when the request leaves.
SendRefresh(r) ==
  /\ refresh' = [refresh EXCEPT ![r] = [state |-> "sent", cookie |-> cookie]]
  /\ excused' = (excused \/ (r = Restore /\ \E c \in Calls : Underway(c))
                         \/ (r # Restore /\ Underway(Restore)))

Begin(c, kind) ==
  call' = [call EXCEPT ![c] = [state |-> "sent", kind |-> kind, retry |-> FALSE, token |-> token]]

\* A page asks for something that needs a user, or the login form is sent.
StartCall(c) ==
  /\ call[c] = Idle
  /\ \E kind \in {"query", "login", "logout"} : Begin(c, kind)
  /\ UNCHANGED <<refresh, promise, failed, token, server, excused>>

\* The mount of App: useRestoreSession runs its query.
StartRestore ==
  /\ refresh[Restore].state = "due"
  /\ SendRefresh(Restore)
  /\ UNCHANGED <<call, promise, failed, token, server>>

-----------------------------------------------------------------------------
(* Answers to calls.                                                       *)

Settle(c) == call' = [call EXCEPT ![c] = Idle]

\* Mutant: an answer to the repeated call may ask for a refresh again.
MayRefreshAgain(c) == ~failed

\* A repeated call asks for no refresh, nor does any while the server is
\* thought to be down.
MayRefresh(c) == ~call[c].retry /\ ~failed

\* Mutant: every call refreshes on its own.
AwaitedOwn(c) == c

\* The refresh that c waits for: the one under way, or one it begins.
Awaited(c) == IF promise = None THEN c ELSE promise

\* Status 401: to a call without a valid token; to one with it as well, if the
\* token ran out on the way, or if the login form held a wrong password.
Unauthorized(c) ==
  /\ call[c].state = "sent"
  /\ IF MayRefresh(c)
     THEN LET p == Awaited(c)
          IN /\ call' = [call EXCEPT ![c] = [state |-> "waiting", kind |-> call[c].kind, for |-> p]]
             /\ promise' = p
             /\ IF p = c THEN SendRefresh(c) ELSE UNCHANGED <<refresh, excused>>
     ELSE Settle(c) /\ UNCHANGED <<refresh, promise, excused>>
  /\ UNCHANGED <<failed, token, server>>

\* Success: what the caller does then is part of the step.
Answered(c) ==
  /\ call[c].state = "sent"
  /\ call[c].kind \in {"query", "me", "logout"} => call[c].token = "valid"
  /\ failed' = FALSE
  /\ CASE call[c].kind \in {"query", "me"} ->
            /\ Settle(c)
            /\ UNCHANGED <<refresh, token, server, excused>>
       [] call[c].kind = "login" ->
            \* A session of its own; what is still to be answered belongs to an
            \* earlier one.
            /\ token' = "valid"
            /\ cookie' = "current"
            /\ session' = TRUE
            /\ excused' = \E r \in Refreshers : Underway(r)
            /\ refresh' = [r \in Refreshers |->
                             IF Underway(r) THEN [refresh[r] EXCEPT !.cookie = "other"] ELSE refresh[r]]
            /\ call' = [call EXCEPT ![c] = [state |-> "sent", kind |-> "me", retry |-> FALSE,
                                            token |-> "valid"]]
       [] call[c].kind = "logout" ->
            /\ Settle(c)
            /\ token' = "none"
            /\ cookie' = "none"
            /\ session' = FALSE
            /\ excused' = TRUE
            /\ UNCHANGED refresh
  /\ UNCHANGED promise

\* Another error of the server.  After me() the user is the one the refresh told.
Refused(c) ==
  /\ call[c].state = "sent"
  /\ Settle(c)
  /\ UNCHANGED <<refresh, promise, failed, token, server, excused>>

\* fetch throws: no connection, or the ten seconds are over.
NoAnswer(c) ==
  /\ call[c].state = "sent"
  /\ Settle(c)
  /\ failed' = TRUE
  /\ UNCHANGED <<refresh, promise, token, server, excused>>

-----------------------------------------------------------------------------
(* Refreshes.                                                              *)

\* The server: a current token is passed on, and every copy of it that is still
\* on its way, or in the browser, is one passed on.  One of an earlier session is
\* passed on too, or refused; if it had been passed on before, that ends every
\* session of its user.
Serve(r) ==
  /\ refresh[r].state = "sent"
  /\ \/ /\ refresh[r].cookie = "current"
        /\ session
        /\ refresh' = [q \in Refreshers |->
                         IF q = r THEN [refresh[r] EXCEPT !.state = "granted"]
                         ELSE IF Underway(q) /\ refresh[q].cookie = "current"
                         THEN [refresh[q] EXCEPT !.cookie = "used"] ELSE refresh[q]]
        /\ cookie' = IF cookie = "current" THEN "used" ELSE cookie
        /\ UNCHANGED session
     \/ /\ refresh[r].cookie \in {"used", "none"} \/ (refresh[r].cookie = "current" /\ ~session)
        /\ refresh' = [refresh EXCEPT ![r].state = "refused"]
        /\ session' = (session /\ refresh[r].cookie # "used")
        /\ UNCHANGED cookie
     \/ /\ refresh[r].cookie = "other"
        /\ \/ refresh' = [refresh EXCEPT ![r].state = "granted"] /\ UNCHANGED session
           \/ refresh' = [refresh EXCEPT ![r].state = "refused"] /\ session' \in {session, FALSE}
        /\ UNCHANGED cookie
  /\ UNCHANGED <<call, promise, failed, token, excused>>

\* Set-Cookie takes effect when the answer arrives, whoever has signed in or out
\* since: the browser holds a token of the session that was refreshed.
Kept(r) == refresh[r].cookie

Waiting(r) == {c \in Calls : call[c].state = "waiting" /\ call[c].for = r}

\* executeRefresh returns a token: all that wait are sent again.
Refreshed(r) ==
  /\ r # Restore
  /\ refresh[r].state = "granted"
  /\ refresh' = [refresh EXCEPT ![r] = Idle]
  /\ cookie' = Kept(r)
  /\ token' = "valid"
  /\ failed' = FALSE
  /\ promise' = None
  /\ call' = [c \in Calls |->
                IF c \in Waiting(r)
                THEN [state |-> "sent", kind |-> call[c].kind, retry |-> TRUE, token |-> "valid"]
                ELSE call[c]]
  /\ UNCHANGED <<session, excused>>

\* executeRefresh returns null: the store is emptied, and the page left for /login
\* (Load), unless it is that one.
GiveUp(r) ==
  /\ promise' = None
  /\ failed' = TRUE
  /\ call' = [c \in Calls |-> IF c \in Waiting(r) THEN Idle ELSE call[c]]
  /\ token' = "none"

RefreshRefused(r) ==
  /\ r # Restore
  /\ refresh[r].state = "refused"
  /\ refresh' = [refresh EXCEPT ![r] = Idle]
  /\ GiveUp(r)
  /\ UNCHANGED <<server, excused>>

\* Nothing in the code ends a refresh that is never answered; the connection does.
RefreshLost(r) ==
  /\ r # Restore
  /\ Underway(r)
  /\ refresh' = [refresh EXCEPT ![r] = Idle]
  /\ excused' = TRUE
  /\ GiveUp(r)
  /\ UNCHANGED server

\* The restoration: a token, then the user by a call of me().
Restored(c) ==
  /\ refresh[Restore].state = "granted"
  /\ call[c] = Idle
  /\ refresh' = [refresh EXCEPT ![Restore] = Idle]
  /\ cookie' = Kept(Restore)
  /\ token' = "valid"
  /\ failed' = FALSE
  /\ call' = [call EXCEPT ![c] = [state |-> "sent", kind |-> "me", retry |-> FALSE, token |-> "valid"]]
  /\ UNCHANGED <<promise, session, excused>>

\* clearAuth, whatever another refresh has brought meanwhile.
RestoreFails ==
  /\ Underway(Restore)
  /\ refresh' = [refresh EXCEPT ![Restore] = Idle]
  /\ token' = "none"
  /\ \/ refresh[Restore].state = "refused" /\ UNCHANGED <<failed, excused>>
     \/ failed' = TRUE /\ excused' = TRUE
  /\ UNCHANGED <<call, promise, server>>

-----------------------------------------------------------------------------
(* The environment.                                                        *)

\* A page is loaded: after a redirection, or because the user reloads it.  The
\* answers to what was in flight are lost.
Load ==
  /\ call' = [c \in Calls |-> Idle]
  /\ refresh' = [r \in Refreshers |-> IF r = Restore THEN [state |-> "due"] ELSE Idle]
  /\ promise' = None
  /\ failed' = FALSE
  /\ token' = "none"
  /\ excused' = (excused \/ \E r \in Refreshers : Underway(r))
  /\ UNCHANGED server

Expire ==
  /\ token = "valid"
  /\ token' = "expired"
  /\ UNCHANGED <<call, refresh, promise, failed, server, excused>>

\* Suspension, a changed password, the end of its days, or a refresh with an old
\* token that the page has left behind.
ServerEnds ==
  /\ session
  /\ session' = FALSE
  /\ excused' = TRUE
  /\ UNCHANGED <<call, refresh, promise, failed, token, cookie>>

Answer(c) == Unauthorized(c) \/ Answered(c) \/ Refused(c) \/ NoAnswer(c)

Land(r) == Serve(r) \/ Refreshed(r) \/ RefreshRefused(r) \/ RefreshLost(r)

Next ==
  \/ \E c \in Calls : StartCall(c) \/ Answer(c) \/ Restored(c)
  \/ \E r \in Refreshers : Land(r)
  \/ StartRestore
  \/ RestoreFails
  \/ Load
  \/ Expire
  \/ ServerEnds

\* A call is answered or timed out by its AbortController; a refresh is answered
\* or its connection fails.
Fairness ==
  /\ \A c \in Calls : WF_vars(Answer(c))
  /\ \A r \in Refreshers : WF_vars(Land(r))

Spec == Init /\ [][Next]_vars /\ Fairness
-----------------------------------------------------------------------------
(* Properties.                                                             *)

CallState ==
  {Idle} \cup
  [state : {"sent"}, kind : {"query", "login", "logout", "me"}, retry : BOOLEAN,
   token : {"none", "valid", "expired"}] \cup
  [state : {"waiting"}, kind : {"query", "login", "logout", "me"}, for : Calls]

RefreshState ==
  {Idle, [state |-> "due"]} \cup
  [state : {"sent", "granted", "refused"}, cookie : {"none", "current", "used", "other"}]

\* The type invariant; who is awaited is under way.
TypeOK ==
  /\ call \in [Calls -> CallState]
  /\ refresh \in [Refreshers -> RefreshState]
  /\ promise \in Calls \cup {None}
  /\ \A c \in Calls : call[c].state = "waiting" => call[c].for = promise
  /\ token \in {"none", "valid", "expired"}
  /\ cookie \in {"none", "current", "used", "other"}

\* What is signed in stays so: unless someone ends the session, an answer to a
\* refresh is lost, the restoration refreshes beside a call or the user signs in
\* beside a refresh, the session lives and the browser holds its token, or the
\* answer that brings it is on the way.
SessionKept ==
  cookie # "none" =>
    \/ excused
    \/ /\ session
       /\ \/ cookie = "current"
          \/ \E r \in Refreshers : refresh[r].state = "granted" /\ refresh[r].cookie = "current"

\* Every call of request() comes to an end, a repeated or a waiting one too.
CallSettles(c) == call[c] # Idle ~> call[c] = Idle

CallsSettle == \A c \in Calls : CallSettles(c)
=============================================================================
