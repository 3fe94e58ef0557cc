------------------------ MODULE ClientSessionProofs ------------------------
(***************************************************************************)
(* What is proved of the visitors' side.  For every set of calls: unless a *)
(* session is ended, an answer is lost, the restoration refreshes beside a *)
(* call or a user signs in beside a refresh, the page stays signed in.     *)
(* For all services, masters, slots and days: one visit of the booking     *)
(* page makes one booking, and what the home-visit page confirms is what   *)
(* it shows.  For all zones, workers, salons and places: the catalogue     *)
(* shows what was found, and a visitor who turned its pages to the end has *)
(* seen all of it.  For all calendars: what is told of when masters are    *)
(* free is what their tables say.                                          *)
(***************************************************************************)
EXTENDS MCServices, FiniteSetTheorems, TLAPS

\* The booking page, for all it can be about.
Steps(Services, First, Masters, Slots, MaxSent) == INSTANCE BookingPage

\* The home-visit page.
Home(Services, First, Times, Week, LastDay) == INSTANCE HomeVisitPage

\* The names of calls, of the restoration and of no promise are different.
NamesDiffer == Restore \notin Calls /\ None \notin Calls

(* The inductive invariant.                                                *)

\* The refresh of a call is the one the promise is for, and its call waits.
PromiseTold ==
  /\ \A r \in Calls : Underway(r) => promise = r
  /\ promise # None => call[promise].state = "waiting"

\* As long as nothing excuses the session, two refreshes are never under way,
OneAtATime == \A r, q \in Refreshers : Underway(r) /\ Underway(q) => r = q

\* none has a token that was passed on or is of an earlier session,
NoneStale == \A r \in Refreshers : Underway(r) => refresh[r].cookie \notin {"used", "other"}

\* and the token is in the browser or in an answer to a refresh that had it.
Carries(r) == refresh[r].state = "granted" /\ refresh[r].cookie = "current"

Carried ==
  /\ \A r \in Refreshers : Carries(r) => session
  /\ cookie # "none" => session /\ (cookie = "current" \/ \E r \in Refreshers : Carries(r))

Unexcused == excused \/ (OneAtATime /\ NoneStale /\ Carried)

IInv ==
  /\ TypeOK
  /\ excused \in BOOLEAN
  /\ PromiseTold
  /\ Unexcused

-----------------------------------------------------------------------------
LEMMA InvariantSuffices ==
  ASSUME IInv
  PROVE  SessionKept
  BY DEF IInv, Unexcused, Carried, Carries, SessionKept

LEMMA InitHolds ==
  ASSUME NamesDiffer, Init
  PROVE  IInv
  <1>1. \A r \in Refreshers : refresh[r] \in {Idle, [state |-> "due"]} /\ ~Underway(r)
    BY DEF Init, Page, Underway, Idle
  <1>2. TypeOK
    BY <1>1 DEF Init, Page, TypeOK, CallState, RefreshState, Idle
  <1>3. PromiseTold
    BY <1>1 DEF Init, Page, PromiseTold, Refreshers
  <1>4. OneAtATime /\ NoneStale /\ Carried
    BY <1>1 DEF Init, OneAtATime, NoneStale, Carried, Carries, Underway
  <1> QED
    BY <1>2, <1>3, <1>4 DEF IInv, Unexcused, Init

\* What a refresh under way is.
LEMMA UnderwayShape ==
  ASSUME TypeOK, NEW r \in Refreshers
  PROVE  Underway(r) => refresh[r] \in [state : {"sent", "granted", "refused"},
                                        cookie : {"none", "current", "used", "other"}]
  BY DEF TypeOK, RefreshState, Underway, Idle

\* A call that is sent.
LEMMA SentShape ==
  ASSUME TypeOK, NEW c \in Calls, call[c].state = "sent"
  PROVE  call[c] \in [state : {"sent"}, kind : {"query", "login", "logout", "me"}, retry : BOOLEAN,
                      token : {"none", "valid", "expired"}]
  BY DEF TypeOK, CallState, Idle

-----------------------------------------------------------------------------
(* Steps that leave the refreshes and the server alone.                    *)

LEMMA QuietKeeps ==
  ASSUME NamesDiffer, IInv, UNCHANGED <<refresh, promise, cookie, session, excused>>,
         token' \in {"none", "valid", "expired"},
         call' \in [Calls -> CallState],
         \A c \in Calls : call[c].state = "waiting" => call'[c] = call[c],
         \A c \in Calls : call'[c].state = "waiting" => call'[c] = call[c]
  PROVE  IInv'
  <1>1. TypeOK'
    BY DEF IInv, TypeOK
  <1>2. PromiseTold'
    BY DEF IInv, TypeOK, PromiseTold, Underway
  <1>3. Unexcused'
    BY DEF IInv, Unexcused, OneAtATime, NoneStale, Carried, Carries, Underway
  <1> QED
    BY <1>1, <1>2, <1>3 DEF IInv

\* A call that is not waiting ends, or is sent.
LEMMA CallStepKeeps ==
  ASSUME NamesDiffer, IInv, NEW c \in Calls, call[c].state # "waiting",
         \/ StartCall(c)
         \/ Refused(c)
         \/ NoAnswer(c)
         \/ Unauthorized(c) /\ ~MayRefresh(c)
         \/ Answered(c) /\ call[c].kind \in {"query", "me"}
  PROVE  IInv'
  <1> DEFINE known == {"none", "valid", "expired"}
  <1>1. token \in known /\ call \in [Calls -> CallState]
    BY DEF IInv, TypeOK
  <1>2. PICK s \in CallState : s.state # "waiting" /\ call' = [call EXCEPT ![c] = s]
    <2>1. CASE StartCall(c)
      <3>1. PICK k \in {"query", "login", "logout"} : Begin(c, k)
        BY <2>1 DEF StartCall
      <3> DEFINE s == [state |-> "sent", kind |-> k, retry |-> FALSE, token |-> token]
      <3>2. s \in CallState
        BY <1>1 DEF CallState
      <3>3. s.state # "waiting" /\ call' = [call EXCEPT ![c] = s]
        BY <3>1 DEF Begin
      <3> HIDE DEF s
      <3> QED
        BY <3>2, <3>3
    <2>2. CASE \/ Refused(c) \/ NoAnswer(c) \/ (Unauthorized(c) /\ ~MayRefresh(c))
               \/ (Answered(c) /\ call[c].kind \in {"query", "me"})
      BY <2>2 DEF Refused, NoAnswer, Unauthorized, Answered, Settle, CallState, Idle
    <2> QED
      BY <2>1, <2>2
  <1>3. UNCHANGED <<refresh, promise, cookie, session, excused>> /\ token' = token
    BY DEF StartCall, Refused, NoAnswer, Unauthorized, Answered, server
  <1>4. call' \in [Calls -> CallState]
    BY <1>1, <1>2
  <1>5. \A d \in Calls : call[d].state = "waiting" => call'[d] = call[d]
    BY <1>1, <1>2
  <1>6. \A d \in Calls : call'[d].state = "waiting" => call'[d] = call[d]
    BY <1>1, <1>2
  <1> QED
    BY <1>1, <1>3, <1>4, <1>5, <1>6, QuietKeeps

\* A call that waits for a refresh under way.
LEMMA JoiningKeeps ==
  ASSUME NamesDiffer, IInv, NEW c \in Calls, Unauthorized(c), MayRefresh(c), promise # None
  PROVE  IInv'
  <1>1. promise \in Calls /\ call[promise].state = "waiting" /\ promise # c
    BY DEF IInv, TypeOK, PromiseTold, Unauthorized
  <1>2. /\ call' = [call EXCEPT ![c] = [state |-> "waiting", kind |-> call[c].kind, for |-> promise]]
        /\ UNCHANGED <<refresh, promise, failed, token, cookie, session, excused>>
    BY <1>1 DEF Unauthorized, Awaited, server
  <1>3. [state |-> "waiting", kind |-> call[c].kind, for |-> promise] \in CallState
    BY <1>1, SentShape DEF IInv, Unauthorized, CallState
  <1>4. TypeOK'
    BY <1>2, <1>3 DEF IInv, TypeOK
  <1>5. PromiseTold'
    BY <1>1, <1>2 DEF IInv, TypeOK, PromiseTold, Underway
  <1>6. Unexcused'
    BY <1>2 DEF IInv, Unexcused, OneAtATime, NoneStale, Carried, Carries, Underway
  <1> QED
    BY <1>2, <1>4, <1>5, <1>6 DEF IInv

\* What sending a refresh does to what is known of the refreshes: it may meet one
\* under way only if that excuses the session.
LEMMA SendingShape ==
  ASSUME NamesDiffer, IInv, NEW r \in Refreshers, SendRefresh(r), UNCHANGED server,
         ~Underway(r), r # Restore => \A c \in Calls : ~Underway(c)
  PROVE  /\ refresh' \in [Refreshers -> RefreshState]
         /\ excused' \in BOOLEAN
         /\ Unexcused'
         /\ \A q \in Refreshers : q # r => Underway(q)' = Underway(q)
  <1>1. refresh' = [refresh EXCEPT ![r] = [state |-> "sent", cookie |-> cookie]]
    BY DEF SendRefresh
  <1>2. [state |-> "sent", cookie |-> cookie] \in RefreshState
    BY DEF IInv, TypeOK, RefreshState
  <1>3. refresh' \in [Refreshers -> RefreshState] /\ excused' \in BOOLEAN
    BY <1>1, <1>2 DEF IInv, TypeOK, SendRefresh
  <1>4. \A q \in Refreshers : q # r => refresh'[q] = refresh[q]
    BY <1>1 DEF IInv, TypeOK
  <1>5. refresh'[r] = [state |-> "sent", cookie |-> cookie]
    BY <1>1 DEF IInv, TypeOK
  <1>6. \A q \in Refreshers : q # r => Underway(q)' = Underway(q)
    BY <1>4 DEF Underway
  <1>7. ~excused' => ~excused /\ \A q \in Refreshers : ~Underway(q)
    BY DEF SendRefresh, Refreshers, IInv
  <1>8. ASSUME ~excused'
        PROVE  OneAtATime' /\ NoneStale' /\ Carried'
    <2>1. /\ \A q \in Refreshers : ~Underway(q)
          /\ Carried
      BY <1>7, <1>8 DEF IInv, Unexcused
    <2>2. OneAtATime'
      BY <1>6, <2>1 DEF OneAtATime
    <2>3. cookie # "none" => session /\ cookie = "current"
      BY <2>1 DEF Carried, Carries, Underway
    <2>4. NoneStale'
      BY <1>5, <1>6, <2>1, <2>3 DEF NoneStale, Underway
    <2>5. Carried'
      BY <1>5, <1>6, <2>1, <2>3 DEF Carried, Carries, server, Underway
    <2> QED
      BY <2>2, <2>4, <2>5
  <1> QED
    BY <1>3, <1>6, <1>8 DEF Unexcused

\* A call that begins the refresh.
LEMMA AskingKeeps ==
  ASSUME NamesDiffer, IInv, NEW c \in Calls, Unauthorized(c), MayRefresh(c), promise = None
  PROVE  IInv'
  <1>1. c # None /\ \A d \in Calls : ~Underway(d)
    BY DEF IInv, PromiseTold, NamesDiffer, Refreshers
  <1>2. /\ call' = [call EXCEPT ![c] = [state |-> "waiting", kind |-> call[c].kind, for |-> c]]
        /\ promise' = c
        /\ SendRefresh(c)
        /\ UNCHANGED <<failed, token, server>>
    BY DEF Unauthorized, Awaited
  <1>3. c \in Refreshers
    BY DEF Refreshers
  <1>4. /\ refresh' \in [Refreshers -> RefreshState]
        /\ excused' \in BOOLEAN
        /\ Unexcused'
        /\ \A q \in Refreshers : q # c => Underway(q)' = Underway(q)
    BY <1>1, <1>2, <1>3, SendingShape
  <1>5. [state |-> "waiting", kind |-> call[c].kind, for |-> c] \in CallState
    BY SentShape DEF IInv, Unauthorized, CallState
  <1>6. \A d \in Calls : call[d].state # "waiting"
    BY DEF IInv, TypeOK, CallState, Idle, NamesDiffer
  <1>7. TypeOK'
    BY <1>2, <1>4, <1>5, <1>6 DEF IInv, TypeOK, server
  <1>8. PromiseTold'
    BY <1>1, <1>2, <1>4 DEF IInv, TypeOK, PromiseTold, Refreshers
  <1> QED
    BY <1>4, <1>7, <1>8 DEF IInv

LEMMA ExpiryKeeps ==
  ASSUME NamesDiffer, IInv, Expire
  PROVE  IInv'
  BY QuietKeeps DEF Expire, server, IInv, TypeOK

\* A login: a refresh under way is of an earlier session, and excuses the new one.
LEMMA LoginKeeps ==
  ASSUME NamesDiffer, IInv, NEW c \in Calls, Answered(c), call[c].kind = "login"
  PROVE  IInv'
  <1>1. /\ call[c].state = "sent"
        /\ token' = "valid" /\ cookie' = "current" /\ session' = TRUE
        /\ excused' = (\E r \in Refreshers : Underway(r))
        /\ refresh' = [r \in Refreshers |->
                         IF Underway(r) THEN [refresh[r] EXCEPT !.cookie = "other"] ELSE refresh[r]]
        /\ call' = [call EXCEPT ![c] = [state |-> "sent", kind |-> "me", retry |-> FALSE,
                                        token |-> "valid"]]
        /\ UNCHANGED promise
    BY DEF Answered
  <1>2. ASSUME NEW r \in Refreshers
        PROVE  /\ refresh'[r] \in RefreshState
               /\ refresh'[r].state = refresh[r].state
               /\ Underway(r) => refresh'[r].cookie = "other"
    <2>1. CASE Underway(r)
      BY <1>1, <2>1, UnderwayShape DEF IInv, RefreshState
    <2>2. CASE ~Underway(r)
      BY <1>1, <2>2 DEF IInv, TypeOK
    <2> QED
      BY <2>1, <2>2
  <1>3. \A r \in Refreshers : Underway(r)' = Underway(r)
    BY <1>2 DEF Underway
  <1>4. refresh' \in [Refreshers -> RefreshState]
    BY <1>1, <1>2
  <1>5. [state |-> "sent", kind |-> "me", retry |-> FALSE, token |-> "valid"] \in CallState
    BY DEF CallState
  <1>6. TypeOK'
    BY <1>1, <1>4, <1>5 DEF IInv, TypeOK
  <1>7. PromiseTold'
    <2>1. \A d \in Calls : Underway(d)' => promise' = d
      BY <1>1, <1>3 DEF IInv, PromiseTold, Refreshers
    <2>2. promise # None => promise # c /\ promise \in Calls /\ call[promise].state = "waiting"
      BY <1>1 DEF IInv, TypeOK, PromiseTold
    <2>3. promise' # None => call'[promise'].state = "waiting"
      BY <1>1, <2>2 DEF IInv, TypeOK
    <2> QED
      BY <2>1, <2>3 DEF PromiseTold
  <1>8. Unexcused'
    BY <1>1, <1>3 DEF Unexcused, OneAtATime, NoneStale, Carried
  <1> QED
    BY <1>1, <1>6, <1>7, <1>8 DEF IInv

\* A logout ends the session: nothing is claimed of it any more.
LEMMA LogoutKeeps ==
  ASSUME NamesDiffer, IInv, NEW c \in Calls, Answered(c), call[c].kind = "logout"
  PROVE  IInv'
  <1>1. /\ call[c].state = "sent"
        /\ call' = [call EXCEPT ![c] = Idle]
        /\ token' = "none" /\ cookie' = "none" /\ excused' = TRUE
        /\ UNCHANGED <<refresh, promise>>
    BY DEF Answered, Settle
  <1>2. TypeOK'
    BY <1>1 DEF IInv, TypeOK, CallState, Idle
  <1>3. PromiseTold'
    BY <1>1 DEF IInv, TypeOK, PromiseTold, Underway
  <1> QED
    BY <1>1, <1>2, <1>3 DEF IInv, Unexcused

LEMMA CallsKeep ==
  ASSUME NamesDiffer, IInv, NEW c \in Calls, StartCall(c) \/ Answer(c)
  PROVE  IInv'
  <1>1. call[c].state # "waiting"
    <2>1. StartCall(c) => call[c].state = "idle"
      BY DEF StartCall, Idle
    <2>2. Answer(c) => call[c].state = "sent"
      BY DEF Answer, Unauthorized, Answered, Refused, NoAnswer
    <2> QED
      BY <2>1, <2>2
  <1>2. CASE StartCall(c) \/ Refused(c) \/ NoAnswer(c)
    BY <1>1, <1>2, CallStepKeeps
  <1>3. CASE Unauthorized(c)
    BY <1>1, <1>3, CallStepKeeps, JoiningKeeps, AskingKeeps
  <1>4. CASE Answered(c)
    <2>1. call[c].kind \in {"query", "me", "login", "logout"}
      BY <1>4, SentShape DEF Answered, IInv
    <2> QED
      BY <1>1, <1>4, <2>1, CallStepKeeps, LoginKeeps, LogoutKeeps
  <1> QED
    BY <1>2, <1>3, <1>4 DEF Answer

-----------------------------------------------------------------------------
(* Refreshes.                                                              *)

LEMMA StartRestoreKeeps ==
  ASSUME NamesDiffer, IInv, StartRestore
  PROVE  IInv'
  <1>1. /\ Restore \in Refreshers /\ ~Underway(Restore) /\ SendRefresh(Restore)
        /\ UNCHANGED <<call, promise, failed, token, server>>
    BY DEF StartRestore, Refreshers, Underway
  <1>2. /\ refresh' \in [Refreshers -> RefreshState]
        /\ excused' \in BOOLEAN
        /\ Unexcused'
        /\ \A q \in Refreshers : q # Restore => Underway(q)' = Underway(q)
    BY <1>1, SendingShape
  <1>3. TypeOK'
    BY <1>1, <1>2 DEF IInv, TypeOK, server
  <1>4. PromiseTold'
    BY <1>1, <1>2 DEF IInv, PromiseTold, Refreshers, NamesDiffer
  <1> QED
    BY <1>2, <1>3, <1>4 DEF IInv

\* Serving changes no call and leaves under way what was.
LEMMA ServingShape ==
  ASSUME NamesDiffer, IInv, NEW r \in Refreshers, Serve(r)
  PROVE  /\ refresh' \in [Refreshers -> RefreshState]
         /\ \A q \in Refreshers : Underway(q)' = Underway(q)
         /\ \A q \in Refreshers : q # r => refresh'[q].state = refresh[q].state
         /\ UNCHANGED <<call, promise, token, excused>>
  <1>1. Underway(r)
    BY DEF Serve, Underway
  <1>2. refresh[r] \in [state : {"sent", "granted", "refused"},
                        cookie : {"none", "current", "used", "other"}]
    BY <1>1, UnderwayShape DEF IInv
  <1>3. refresh \in [Refreshers -> RefreshState]
    BY DEF IInv, TypeOK
  <1>4. CASE \E reply \in {"granted", "refused"} : refresh' = [refresh EXCEPT ![r].state = reply]
    <2>1. PICK reply \in {"granted", "refused"} :
             refresh' = [refresh EXCEPT ![r] = [@ EXCEPT !.state = reply]]
      BY <1>4
    <2>2. [refresh[r] EXCEPT !.state = reply] \in RefreshState
      BY <1>2 DEF RefreshState
    <2>3. [refresh[r] EXCEPT !.state = reply].state = reply
      BY <1>2
    <2>4. refresh'[r].state = reply /\ \A q \in Refreshers : q # r => refresh'[q] = refresh[q]
      BY <1>3, <2>1, <2>3
    <2>5. refresh' \in [Refreshers -> RefreshState]
      BY <1>3, <2>1, <2>2
    <2> QED
      BY <1>1, <2>4, <2>5 DEF Serve, Underway
  <1>5. CASE refresh' = [q \in Refreshers |->
                           IF q = r THEN [refresh[r] EXCEPT !.state = "granted"]
                           ELSE IF Underway(q) /\ refresh[q].cookie = "current"
                           THEN [refresh[q] EXCEPT !.cookie = "used"] ELSE refresh[q]]
    <2>1. ASSUME NEW q \in Refreshers
          PROVE  /\ refresh'[q] \in RefreshState
                 /\ q = r => refresh'[q].state = "granted"
                 /\ q # r => refresh'[q].state = refresh[q].state
      <3>1. CASE q = r
        BY <1>2, <1>5, <3>1 DEF RefreshState
      <3>2. CASE q # r /\ Underway(q) /\ refresh[q].cookie = "current"
        BY <1>5, <3>2, UnderwayShape DEF IInv, RefreshState
      <3>3. CASE q # r /\ ~(Underway(q) /\ refresh[q].cookie = "current")
        BY <1>3, <1>5, <3>3
      <3> QED
        BY <3>1, <3>2, <3>3
    <2> QED
      BY <1>1, <1>5, <2>1 DEF Serve, Underway
  <1> QED
    BY <1>4, <1>5 DEF Serve

LEMMA ServeKeeps ==
  ASSUME NamesDiffer, IInv, NEW r \in Refreshers, Serve(r)
  PROVE  IInv'
  <1>1. /\ refresh' \in [Refreshers -> RefreshState]
        /\ \A q \in Refreshers : Underway(q)' = Underway(q)
        /\ \A q \in Refreshers : q # r => refresh'[q].state = refresh[q].state
        /\ UNCHANGED <<call, promise, token, excused>>
    BY ServingShape
  <1>2. cookie' \in {cookie, "used"}
    BY DEF Serve, server
  <1>3. TypeOK'
    BY <1>1, <1>2 DEF IInv, TypeOK
  <1>4. PromiseTold'
    BY <1>1 DEF IInv, PromiseTold, Refreshers
  <1>5. ASSUME ~excused
        PROVE  OneAtATime' /\ NoneStale' /\ Carried'
    <2>1. OneAtATime /\ NoneStale /\ Carried /\ Underway(r)
      BY <1>5 DEF IInv, Unexcused, Serve, Underway
    <2>2. refresh[r] \in [state : {"sent", "granted", "refused"},
                          cookie : {"none", "current", "used", "other"}]
      BY <2>1, UnderwayShape DEF IInv
    <2>3. refresh[r].state = "sent" /\ refresh[r].cookie \notin {"used", "other"}
      BY <2>1 DEF Serve, NoneStale
    <2>4. \A q \in Refreshers : Underway(q)' => q = r
      BY <1>1, <2>1 DEF OneAtATime
    <2>5. \A q \in Refreshers : ~Carries(q)
      BY <2>1, <2>3 DEF OneAtATime, Carries, Underway
    <2>6. OneAtATime'
      BY <2>4 DEF OneAtATime
    <2>7. CASE refresh[r].cookie = "current" /\ session
      <3>1. /\ refresh' = [q \in Refreshers |->
                             IF q = r THEN [refresh[r] EXCEPT !.state = "granted"]
                             ELSE IF Underway(q) /\ refresh[q].cookie = "current"
                             THEN [refresh[q] EXCEPT !.cookie = "used"] ELSE refresh[q]]
            /\ session' = session
        BY <2>7 DEF Serve
      <3>2. refresh'[r].state = "granted" /\ refresh'[r].cookie = "current"
        BY <2>2, <2>7, <3>1
      <3>3. NoneStale'
        BY <2>4, <3>2 DEF NoneStale
      <3>4. Carried'
        BY <2>7, <3>1, <3>2 DEF Carried, Carries
      <3> QED
        BY <2>6, <3>3, <3>4
    <2>8. CASE ~(refresh[r].cookie = "current" /\ session)
      <3>1. /\ refresh' = [refresh EXCEPT ![r].state = "refused"]
            /\ session' = (session /\ refresh[r].cookie # "used") /\ cookie' = cookie
        BY <2>3, <2>8 DEF Serve
      <3>2. refresh'[r] = [refresh[r] EXCEPT !.state = "refused"]
        BY <3>1 DEF IInv, TypeOK
      <3>3. refresh'[r].state = "refused" /\ refresh'[r].cookie = refresh[r].cookie
        BY <2>2, <3>2
      <3>4. NoneStale'
        BY <2>3, <2>4, <3>3 DEF NoneStale
      <3>5. \A q \in Refreshers : ~Carries(q)'
        BY <2>4, <3>3 DEF Carries, Underway
      <3>6. session => session'
        BY <2>3, <3>1
      <3>7. Carried'
        BY <2>1, <2>5, <3>1, <3>5, <3>6 DEF Carried
      <3> QED
        BY <2>6, <3>4, <3>7
    <2> QED
      BY <2>7, <2>8
  <1> QED
    BY <1>1, <1>3, <1>4, <1>5 DEF IInv, Unexcused

\* A refresh that is over: no call waits for it any more, and no promise is left
\* if it was one of a call.
LEMMA EndingShape ==
  ASSUME NamesDiffer, IInv, NEW r \in Calls, Underway(r),
         refresh' = [refresh EXCEPT ![r] = Idle], promise' = None,
         token' \in {"none", "valid", "expired"},
         cookie' \in {"none", "current", "used", "other"},
         excused' \in BOOLEAN,
         call' \in [Calls -> CallState],
         \A c \in Waiting(r) : call'[c].state # "waiting",
         \A c \in Calls : c \notin Waiting(r) => call'[c] = call[c]
  PROVE  /\ TypeOK'
         /\ PromiseTold'
         /\ \A q \in Refreshers : Underway(q)' => q # r /\ Underway(q) /\ refresh'[q] = refresh[q]
  <1>1. r \in Refreshers /\ promise = r
    BY DEF Refreshers, IInv, PromiseTold
  <1>2. Idle \in RefreshState /\ Idle.state = "idle"
    BY DEF Idle, RefreshState
  <1>3. \A q \in Refreshers : q # r => refresh'[q] = refresh[q]
    BY DEF IInv, TypeOK
  <1>4. ~Underway(r)'
    BY <1>1, <1>2 DEF Underway, IInv, TypeOK
  <1>5. \A q \in Refreshers : Underway(q)' => q # r /\ Underway(q) /\ refresh'[q] = refresh[q]
    BY <1>3, <1>4 DEF Underway
  <1>6. refresh' \in [Refreshers -> RefreshState]
    BY <1>2 DEF IInv, TypeOK
  <1>7. \A c \in Calls : call'[c] \in CallState /\ call'[c].state # "waiting"
    BY <1>1 DEF Waiting, IInv, TypeOK
  <1>8. TypeOK'
    BY <1>6, <1>7 DEF TypeOK
  <1>9. PromiseTold'
    BY <1>1, <1>5 DEF IInv, PromiseTold, Refreshers
  <1> QED
    BY <1>5, <1>8, <1>9

\* Taking an answer leaves the token of the session in the browser or on its way.
LEMMA TakingKeeps ==
  ASSUME IInv, NEW r \in Refreshers,
         refresh' = [refresh EXCEPT ![r] = Idle], UNCHANGED <<session, excused>>,
         \/ refresh[r].state = "granted" /\ cookie' = Kept(r)
         \/ refresh[r].state = "refused" /\ cookie' = cookie
  PROVE  Unexcused'
  <1> SUFFICES ASSUME ~excused
               PROVE  OneAtATime' /\ NoneStale' /\ Carried'
    BY DEF Unexcused
  <1>0. session => session'
    OBVIOUS
  <1>1. OneAtATime /\ NoneStale /\ Carried
    BY DEF IInv, Unexcused
  <1>2. refresh'[r] = Idle /\ \A q \in Refreshers : q # r => refresh'[q] = refresh[q]
    BY DEF IInv, TypeOK
  <1>3. \A q \in Refreshers : Underway(q)' => q # r /\ Underway(q)
    BY <1>2 DEF Underway, Idle
  <1>4. OneAtATime' /\ NoneStale'
    BY <1>1, <1>2, <1>3 DEF OneAtATime, NoneStale
  <1>5. CASE refresh[r].state = "granted" /\ cookie' = Kept(r)
    <2>1. cookie' \in {"none", "current"} /\ (cookie' = "current" => Carries(r))
      <3>1. Underway(r) /\ refresh[r].cookie \in {"none", "current", "used", "other"}
        BY <1>5, UnderwayShape DEF IInv, Underway
      <3> QED
        BY <1>1, <1>5, <3>1 DEF Kept, NoneStale, Carries
    <2>2. \A q \in Refreshers : Carries(q)' => Carries(q)
      BY <1>2 DEF Carries, Idle
    <2> QED
      BY <1>0, <1>1, <1>4, <2>1, <2>2 DEF Carried
  <1>6. CASE refresh[r].state = "refused" /\ cookie' = cookie
    <2>1. \A q \in Refreshers : Carries(q)' <=> Carries(q)
      BY <1>2, <1>6 DEF Carries, Idle
    <2> QED
      BY <1>0, <1>1, <1>4, <1>6, <2>1 DEF Carried
  <1> QED
    BY <1>5, <1>6

LEMMA RefreshedKeeps ==
  ASSUME NamesDiffer, IInv, NEW r \in Calls, Refreshed(r)
  PROVE  IInv'
  <1>1. /\ refresh[r].state = "granted" /\ r \in Refreshers /\ Underway(r)
        /\ refresh' = [refresh EXCEPT ![r] = Idle]
        /\ cookie' = Kept(r) /\ token' = "valid" /\ promise' = None
        /\ UNCHANGED <<session, excused>>
    BY DEF Refreshed, Refreshers, Underway
  <1>2. cookie' \in {"none", "current", "used", "other"} /\ excused' \in BOOLEAN
    BY <1>1, UnderwayShape DEF Kept, IInv
  <1>3. \A c \in Waiting(r) : call[c].kind \in {"query", "login", "logout", "me"}
    BY DEF Waiting, IInv, TypeOK, CallState, Idle
  <1>4. \A c \in Waiting(r) :
           call'[c] = [state |-> "sent", kind |-> call[c].kind, retry |-> TRUE, token |-> "valid"]
    BY DEF Refreshed, Waiting
  <1>5. \A c \in Calls : c \notin Waiting(r) => call'[c] = call[c]
    BY DEF Refreshed
  <1>6. ASSUME NEW c \in Calls
        PROVE  call'[c] \in CallState /\ (c \in Waiting(r) => call'[c].state # "waiting")
    <2>1. CASE c \in Waiting(r)
      <3>1. call'[c] \in [state : {"sent"}, kind : {"query", "login", "logout", "me"}, retry : BOOLEAN,
                         token : {"none", "valid", "expired"}]
        <4>1. call[c].kind \in {"query", "login", "logout", "me"}
          BY <1>3, <2>1
        <4>2. call'[c] = [state |-> "sent", kind |-> call[c].kind, retry |-> TRUE, token |-> "valid"]
          BY <1>4, <2>1
        <4> QED
          BY <4>1, <4>2
      <3> QED
        BY <3>1 DEF CallState
    <2>2. CASE c \notin Waiting(r)
      BY <1>5, <2>2 DEF IInv, TypeOK
    <2> QED
      BY <2>1, <2>2
  <1>7. call' \in [Calls -> CallState]
    BY <1>6 DEF Refreshed
  <1>8. TypeOK' /\ PromiseTold'
    BY <1>1, <1>2, <1>5, <1>6, <1>7, EndingShape DEF Waiting
  <1>9. Unexcused'
    BY <1>1, TakingKeeps
  <1> QED
    BY <1>2, <1>8, <1>9 DEF IInv

LEMMA GivingUpKeeps ==
  ASSUME NamesDiffer, IInv, NEW r \in Calls, RefreshRefused(r) \/ RefreshLost(r)
  PROVE  IInv'
  <1>1. /\ r \in Refreshers /\ Underway(r)
        /\ refresh' = [refresh EXCEPT ![r] = Idle]
        /\ token' = "none" /\ promise' = None
        /\ UNCHANGED <<cookie, session>>
    BY DEF RefreshRefused, RefreshLost, GiveUp, Refreshers, Underway, server
  <1>2. cookie' \in {"none", "current", "used", "other"} /\ excused' \in BOOLEAN
    BY <1>1 DEF RefreshRefused, RefreshLost, IInv, TypeOK
  <1>3. call' = [c \in Calls |-> IF c \in Waiting(r) THEN Idle ELSE call[c]]
    BY DEF RefreshRefused, RefreshLost, GiveUp
  <1>4. call' \in [Calls -> CallState]
    BY <1>3 DEF CallState, IInv, TypeOK
  <1>5. \A c \in Waiting(r) : call'[c].state # "waiting"
    BY <1>3 DEF Waiting, Idle
  <1>6. \A c \in Calls : c \notin Waiting(r) => call'[c] = call[c]
    BY <1>3
  <1>7. TypeOK' /\ PromiseTold'
    BY <1>1, <1>2, <1>4, <1>5, <1>6, EndingShape
  <1>8. Unexcused'
    <2>1. CASE RefreshRefused(r)
      BY <1>1, <2>1, TakingKeeps DEF RefreshRefused
    <2>2. CASE RefreshLost(r)
      BY <2>2 DEF RefreshLost, Unexcused
    <2> QED
      BY <2>1, <2>2
  <1> QED
    BY <1>2, <1>7, <1>8 DEF IInv

\* The restoration ends: no call waits for it.
LEMMA RestorationShape ==
  ASSUME NamesDiffer, IInv,
         refresh' = [refresh EXCEPT ![Restore] = Idle], promise' = promise,
         token' \in {"none", "valid", "expired"},
         cookie' \in {"none", "current", "used", "other"},
         call' \in [Calls -> CallState],
         \A c \in Calls : call[c].state = "waiting" => call'[c] = call[c],
         \A c \in Calls : call'[c].state = "waiting" => call'[c] = call[c]
  PROVE  TypeOK' /\ PromiseTold'
  <1>1. Idle \in RefreshState
    BY DEF RefreshState
  <1>2. TypeOK'
    BY <1>1 DEF IInv, TypeOK
  <1>3. \A c \in Calls : refresh'[c] = refresh[c]
    BY DEF NamesDiffer, IInv, TypeOK, Refreshers
  <1>4. PromiseTold'
    BY <1>3 DEF IInv, TypeOK, PromiseTold, Underway
  <1> QED
    BY <1>2, <1>4

LEMMA RestoredKeeps ==
  ASSUME NamesDiffer, IInv, NEW c \in Calls, Restored(c)
  PROVE  IInv'
  <1> DEFINE s == [state |-> "sent", kind |-> "me", retry |-> FALSE, token |-> "valid"]
  <1>1. /\ refresh[Restore].state = "granted"
        /\ refresh' = [refresh EXCEPT ![Restore] = Idle]
        /\ cookie' = Kept(Restore) /\ token' = "valid"
        /\ UNCHANGED <<promise, session, excused>>
    BY DEF Restored
  <1>0. Restore \in Refreshers /\ Underway(Restore)
    BY <1>1 DEF Refreshers, Underway
  <1>2. s \in CallState /\ s.state = "sent"
    BY DEF CallState
  <1>3. call[c].state = "idle" /\ call' = [call EXCEPT ![c] = s]
    BY DEF Restored, Idle
  <1>4. cookie' \in {"none", "current", "used", "other"}
    BY <1>0, <1>1, UnderwayShape DEF Kept, IInv
  <1> HIDE DEF s
  <1>5. call' \in [Calls -> CallState]
    BY <1>2, <1>3 DEF IInv, TypeOK
  <1>6. \A d \in Calls : d # c => call'[d] = call[d]
    BY <1>3 DEF IInv, TypeOK
  <1>7. call'[c].state = "sent"
    BY <1>2, <1>3 DEF IInv, TypeOK
  <1>8. TypeOK' /\ PromiseTold'
    BY <1>1, <1>3, <1>4, <1>5, <1>6, <1>7, RestorationShape
  <1>9. Unexcused'
    BY <1>1, TakingKeeps DEF Refreshers
  <1> QED
    BY <1>1, <1>8, <1>9 DEF IInv

LEMMA RestoreFailsKeeps ==
  ASSUME NamesDiffer, IInv, RestoreFails
  PROVE  IInv'
  <1>1. /\ refresh' = [refresh EXCEPT ![Restore] = Idle]
        /\ token' = "none"
        /\ UNCHANGED <<call, promise, cookie, session>>
    BY DEF RestoreFails, server
  <1>2. TypeOK' /\ PromiseTold'
    BY <1>1, RestorationShape DEF IInv, TypeOK
  <1>3. CASE refresh[Restore].state = "refused" /\ UNCHANGED excused
    <2>1. Unexcused'
      BY <1>1, <1>3, TakingKeeps DEF Refreshers
    <2> QED
      BY <1>2, <1>3, <2>1 DEF IInv
  <1>4. CASE excused' = TRUE
    BY <1>2, <1>4 DEF IInv, Unexcused
  <1> QED
    BY <1>3, <1>4 DEF RestoreFails

-----------------------------------------------------------------------------
(* The environment.                                                        *)

LEMMA LoadKeeps ==
  ASSUME NamesDiffer, IInv, Load
  PROVE  IInv'
  <1>1. \A r \in Refreshers : refresh'[r] \in {Idle, [state |-> "due"]} /\ ~Underway(r)'
    BY DEF Load, Underway, Idle
  <1>2. TypeOK'
    BY <1>1 DEF Load, server, IInv, TypeOK, CallState, RefreshState, Idle
  <1>3. PromiseTold'
    BY <1>1 DEF Load, PromiseTold, Refreshers
  <1>4. ASSUME ~excused'
        PROVE  OneAtATime' /\ NoneStale' /\ Carried'
    <2>1. Carried /\ \A r \in Refreshers : ~Underway(r)
      BY <1>4 DEF Load, IInv, Unexcused
    <2>2. Carried'
      BY <1>1, <2>1 DEF Load, server, Carried, Carries, Underway
    <2> QED
      BY <1>1, <2>2 DEF OneAtATime, NoneStale
  <1> QED
    BY <1>2, <1>3, <1>4 DEF Load, IInv, Unexcused

LEMMA ServerEndsKeeps ==
  ASSUME NamesDiffer, IInv, ServerEnds
  PROVE  IInv'
  BY DEF ServerEnds, IInv, TypeOK, PromiseTold, Underway, Unexcused

LEMMA NextKeeps ==
  ASSUME NamesDiffer, IInv, [Next]_vars
  PROVE  IInv'
  <1>1. ASSUME NEW c \in Calls, StartCall(c) \/ Answer(c)
        PROVE  IInv'
    BY <1>1, CallsKeep
  <1>2. ASSUME NEW r \in Refreshers, Land(r)
        PROVE  IInv'
    <2>1. CASE Serve(r)
      BY <2>1, ServeKeeps
    <2>2. CASE ~Serve(r)
      <3>1. r \in Calls
        BY <1>2, <2>2 DEF Land, Refreshed, RefreshRefused, RefreshLost, Refreshers
      <3> QED
        BY <1>2, <2>2, <3>1, RefreshedKeeps, GivingUpKeeps DEF Land
    <2> QED
      BY <2>1, <2>2
  <1>3. CASE UNCHANGED vars
    BY <1>3, QuietKeeps DEF vars, IInv, TypeOK
  <1> QED
    BY <1>1, <1>2, <1>3, StartRestoreKeeps, RestoredKeeps, RestoreFailsKeeps, LoadKeeps, ExpiryKeeps,
       ServerEndsKeeps DEF Next

-----------------------------------------------------------------------------
(* Theorems.                                                               *)

\* Whatever the number of calls: the state is well formed, and a call waits for no
\* refresh but the one that refreshPromise is.
THEOREM PageIsTyped ==
  ASSUME NamesDiffer
  PROVE  Spec => []TypeOK
  <1>1. Init => IInv
    BY InitHolds
  <1>2. IInv /\ [Next]_vars => IInv'
    BY NextKeeps
  <1>3. IInv => TypeOK
    BY DEF IInv
  <1> QED
    BY <1>1, <1>2, <1>3, PTL DEF Spec

\* Whatever the number of calls that meet a 401 together: the page stays signed in,
\* unless the session is ended, an answer to a refresh is lost, the restoration
\* refreshes beside a call or the user signs in beside a refresh.
THEOREM SessionStaysKept ==
  ASSUME NamesDiffer
  PROVE  Spec => []SessionKept
  <1>1. Init => IInv
    BY InitHolds
  <1>2. IInv /\ [Next]_vars => IInv'
    BY NextKeeps
  <1>3. IInv => SessionKept
    BY InvariantSuffices
  <1> QED
    BY <1>1, <1>2, <1>3, PTL DEF Spec

-----------------------------------------------------------------------------
(* The booking page.  Of the requests that are not refused there is one    *)
(* more than there were excuses only while the page waits for its answer   *)
(* or shows that it was booked.                                            *)

Ordering(S, M, T) ==
  [items : SUBSET S, asked : M \cup {None}, slot : T \cup {None}, state : {"sent", "booked", "refused"},
   master : M \cup {None}]

Open == {i \in DOMAIN sent : sent[i].state # "refused"}

Expected == (waiting # 0 /\ sent[waiting].state # "refused") \/ form.step = 7

OpenBounded(K) ==
  excuses = K \/ Cardinality(Open) <= excuses + (IF Expected THEN 1 ELSE 0)

\* On the last page nothing is waited for, and there is no draft to go back to.
LastPage == form.step = 7 => waiting = 0 /\ draft = None

\* Services come from the customer or are the first on the list.
OfChoice(F) ==
  /\ form.items \subseteq chosen \cup {F}
  /\ draft # None => draft.items \subseteq chosen \cup {F}
  /\ \A i \in DOMAIN sent : sent[i].items \subseteq chosen \cup {F}

PageInv(S, F, M, T, K) ==
  /\ Steps(S, F, M, T, K)!TypeOK
  /\ sent \in Seq(Ordering(S, M, T))
  /\ OpenBounded(K)
  /\ LastPage
  /\ OfChoice(F)

LEMMA OpenFinite ==
  ASSUME NEW X, sent \in Seq(X)
  PROVE  /\ IsFiniteSet(Open) /\ Cardinality(Open) \in Nat
         /\ Cardinality(Open) <= Len(sent)
         /\ \A P \in SUBSET Open : IsFiniteSet(P) /\ Cardinality(P) \in Nat /\ Cardinality(P) <= Cardinality(Open)
  <1>1. DOMAIN sent = 1..Len(sent) /\ Len(sent) \in Nat
    OBVIOUS
  <1>2. IsFiniteSet(1..Len(sent)) /\ Cardinality(1..Len(sent)) = Len(sent)
    BY <1>1, FS_Interval
  <1>3. Open \subseteq 1..Len(sent)
    BY <1>1 DEF Open
  <1>4. \A Q \in SUBSET (1..Len(sent)) : IsFiniteSet(Q) /\ Cardinality(Q) <= Len(sent)
    BY <1>2, FS_Subset
  <1>5. IsFiniteSet(Open) /\ Cardinality(Open) <= Len(sent)
    BY <1>3, <1>4
  <1> QED
    BY <1>5, FS_Subset, FS_CardinalityType

LEMMA PageStarts ==
  ASSUME NEW S, NEW F \in S, NEW M, NEW T, NEW K \in Nat, Steps(S, F, M, T, K)!Init
  PROVE  PageInv(S, F, M, T, K)
  <1> USE DEF Steps!Init, Steps!Blank
  <1>1. Open = {}
    BY DEF Open
  <1>2. Cardinality(Open) = 0
    BY <1>1, FS_EmptySet
  <1>3. Steps(S, F, M, T, K)!TypeOK
    BY DEF Steps!TypeOK, Steps!Forms
  <1>4. OpenBounded(K) /\ LastPage /\ OfChoice(F) /\ sent \in Seq(Ordering(S, M, T))
    BY <1>2 DEF OpenBounded, LastPage, OfChoice, Expected
  <1> QED
    BY <1>3, <1>4 DEF PageInv

\* A change of the form that is not on the last page, and leaves the requests alone.
LEMMA EditKeeps ==
  ASSUME NEW S, NEW F \in S, NEW M, NEW T, NEW K \in Nat, PageInv(S, F, M, T, K),
         NEW f \in Steps(S, F, M, T, K)!Forms, Steps(S, F, M, T, K)!Shows(f), f.step = 7 <=> form.step = 7,
         f.items \subseteq chosen' \cup {F}, chosen' \subseteq S, chosen \subseteq chosen',
         UNCHANGED <<sent, waiting, excuses>>
  PROVE  PageInv(S, F, M, T, K)'
  <1>1. Open' = Open /\ Expected' = Expected
    BY DEF Open, Expected, Steps!Shows
  <1>2. OpenBounded(K)'
    BY <1>1 DEF PageInv, OpenBounded
  <1>3. Steps(S, F, M, T, K)!TypeOK'
    BY DEF PageInv, Steps!TypeOK, Steps!Shows
  <1>4. LastPage' /\ OfChoice(F)'
    BY DEF PageInv, LastPage, OfChoice, Steps!Shows
  <1> QED
    BY <1>2, <1>3, <1>4 DEF PageInv

LEMMA EditsKeep ==
  ASSUME NEW S, NEW F \in S, NEW M, NEW T, NEW K \in Nat, PageInv(S, F, M, T, K),
         NEW f \in Steps(S, F, M, T, K)!Forms, Steps(S, F, M, T, K)!Edits(f), f.step = 7 <=> form.step = 7,
         f.items \subseteq form.items
  PROVE  PageInv(S, F, M, T, K)'
  BY EditKeeps DEF Steps!Edits, PageInv, OfChoice, Steps!TypeOK

LEMMA FormsKeep ==
  ASSUME NEW S, NEW F \in S, NEW M, NEW T, NEW K \in Nat, PageInv(S, F, M, T, K),
         \/ \E s \in S : Steps(S, F, M, T, K)!Add(s) \/ Steps(S, F, M, T, K)!Remove(s)
         \/ Steps(S, F, M, T, K)!ToStaff
         \/ \E m \in M \cup {None} : Steps(S, F, M, T, K)!ChooseMaster(m)
         \/ Steps(S, F, M, T, K)!ChooseDate
         \/ \E t \in T : Steps(S, F, M, T, K)!ChooseSlot(t)
         \/ Steps(S, F, M, T, K)!ChoosePayment
         \/ Steps(S, F, M, T, K)!Forward
         \/ Steps(S, F, M, T, K)!Back
  PROVE  PageInv(S, F, M, T, K)'
  <1>0. form \in Steps(S, F, M, T, K)!Forms
    BY DEF PageInv, Steps!TypeOK
  <1>1. ASSUME NEW s \in S, Steps(S, F, M, T, K)!Add(s) PROVE PageInv(S, F, M, T, K)'
    <2> DEFINE f == [form EXCEPT !.items = @ \cup {s}]
    <2>1. f \in Steps(S, F, M, T, K)!Forms /\ f.step = form.step /\ f.items = form.items \cup {s}
      BY <1>0 DEF Steps!Forms
    <2>2. /\ Steps(S, F, M, T, K)!Shows(f) /\ chosen' = chosen \cup {s} /\ UNCHANGED <<sent, waiting, excuses>>
      BY <1>1 DEF Steps!Add
    <2> HIDE DEF f
    <2>3. form.items \subseteq chosen \cup {F} /\ chosen \subseteq S
      BY DEF PageInv, OfChoice, Steps!TypeOK
    <2> QED
      BY <2>1, <2>2, <2>3, EditKeeps
  <1>2. ASSUME NEW s \in S, Steps(S, F, M, T, K)!Remove(s) PROVE PageInv(S, F, M, T, K)'
    <2> DEFINE f == [form EXCEPT !.items = @ \ {s}]
    <2>1. f \in Steps(S, F, M, T, K)!Forms /\ f.step = form.step /\ f.items \subseteq form.items
      BY <1>0 DEF Steps!Forms
    <2>2. Steps(S, F, M, T, K)!Edits(f)
      BY <1>2 DEF Steps!Remove
    <2> HIDE DEF f
    <2> QED
      BY <2>1, <2>2, EditsKeep
  <1>3. CASE Steps(S, F, M, T, K)!ToStaff
    <2> DEFINE f == [form EXCEPT !.step = 2, !.master = None, !.slot = None]
    <2>1. f \in Steps(S, F, M, T, K)!Forms /\ f.step = 2 /\ f.items = form.items
      <3>1. 2 \in 1..7 /\ None \in M \cup {None} /\ None \in T \cup {None}
        OBVIOUS
      <3>2. f \in Steps(S, F, M, T, K)!Forms
        BY <1>0, <3>1, Zenon DEF Steps!Forms
      <3>3. f.step = 2 /\ f.items = form.items
        BY <1>0 DEF Steps!Forms
      <3> QED
        BY <3>2, <3>3
    <2>2. Steps(S, F, M, T, K)!Edits(f) /\ form.step = 1
      BY <1>3 DEF Steps!ToStaff
    <2> HIDE DEF f
    <2> QED
      BY <2>1, <2>2, EditsKeep
  <1>4. ASSUME NEW m \in M \cup {None}, Steps(S, F, M, T, K)!ChooseMaster(m) PROVE PageInv(S, F, M, T, K)'
    <2> DEFINE f == [form EXCEPT !.step = 3, !.master = m, !.slot = None]
    <2>1. f \in Steps(S, F, M, T, K)!Forms /\ f.step = 3 /\ f.items = form.items
      <3>1. 3 \in 1..7 /\ None \in M \cup {None} /\ None \in T \cup {None}
        OBVIOUS
      <3>2. f \in Steps(S, F, M, T, K)!Forms
        BY <1>0, <3>1, Zenon DEF Steps!Forms
      <3>3. f.step = 3 /\ f.items = form.items
        BY <1>0 DEF Steps!Forms
      <3> QED
        BY <3>2, <3>3
    <2>2. Steps(S, F, M, T, K)!Edits(f) /\ form.step = 2
      BY <1>4 DEF Steps!ChooseMaster
    <2> HIDE DEF f
    <2> QED
      BY <2>1, <2>2, EditsKeep
  <1>5. CASE Steps(S, F, M, T, K)!ChooseDate
    <2> DEFINE f == [form EXCEPT !.slot = None]
    <2>1. f \in Steps(S, F, M, T, K)!Forms /\ f.step = form.step /\ f.items = form.items
      BY <1>0 DEF Steps!Forms
    <2>2. Steps(S, F, M, T, K)!Edits(f)
      BY <1>5 DEF Steps!ChooseDate
    <2> HIDE DEF f
    <2> QED
      BY <2>1, <2>2, EditsKeep
  <1>6. ASSUME NEW t \in T, Steps(S, F, M, T, K)!ChooseSlot(t) PROVE PageInv(S, F, M, T, K)'
    <2> DEFINE f == [form EXCEPT !.step = 5, !.slot = t]
    <2>1. f \in Steps(S, F, M, T, K)!Forms /\ f.step = 5 /\ f.items = form.items
      <3>1. 5 \in 1..7 /\ None \in M \cup {None} /\ None \in T \cup {None}
        OBVIOUS
      <3>2. f \in Steps(S, F, M, T, K)!Forms
        BY <1>0, <3>1, Zenon DEF Steps!Forms
      <3>3. f.step = 5 /\ f.items = form.items
        BY <1>0 DEF Steps!Forms
      <3> QED
        BY <3>2, <3>3
    <2>2. Steps(S, F, M, T, K)!Edits(f) /\ form.step = 4
      BY <1>6 DEF Steps!ChooseSlot
    <2> HIDE DEF f
    <2> QED
      BY <2>1, <2>2, EditsKeep
  <1>7. CASE Steps(S, F, M, T, K)!ChoosePayment
    <2> DEFINE f == [form EXCEPT !.paid = TRUE]
    <2>1. f \in Steps(S, F, M, T, K)!Forms /\ f.step = form.step /\ f.items = form.items
      BY <1>0 DEF Steps!Forms
    <2>2. Steps(S, F, M, T, K)!Edits(f)
      BY <1>7 DEF Steps!ChoosePayment
    <2> HIDE DEF f
    <2> QED
      BY <2>1, <2>2, EditsKeep
  <1>8. CASE Steps(S, F, M, T, K)!Forward \/ Steps(S, F, M, T, K)!Back
    <2>1. \E n \in 1..6 : form.step # 7 /\ Steps(S, F, M, T, K)!Edits([form EXCEPT !.step = n])
      <3>1. CASE Steps(S, F, M, T, K)!Forward
        <4>1. form.step \in {3, 5} /\ Steps(S, F, M, T, K)!Edits([form EXCEPT !.step = form.step + 1])
          BY <3>1 DEF Steps!Forward
        <4> QED
          BY <4>1
      <3>2. CASE Steps(S, F, M, T, K)!Back
        <4>1. form.step \in 2..6 /\ Steps(S, F, M, T, K)!Edits([form EXCEPT !.step = form.step - 1])
          BY <3>2 DEF Steps!Back
        <4> QED
          BY <4>1
      <3> QED
        BY <1>8, <3>1, <3>2
    <2>2. PICK n \in 1..6 : form.step # 7 /\ Steps(S, F, M, T, K)!Edits([form EXCEPT !.step = n])
      BY <2>1
    <2> DEFINE f == [form EXCEPT !.step = n]
    <2>3. f \in Steps(S, F, M, T, K)!Forms /\ f.step = n /\ f.items = form.items
      BY <1>0 DEF Steps!Forms
    <2>4. Steps(S, F, M, T, K)!Edits(f) /\ form.step # 7
      BY <2>2
    <2> HIDE DEF f
    <2> QED
      BY <2>3, <2>4, EditsKeep
  <1> QED
    BY <1>1, <1>2, <1>3, <1>4, <1>5, <1>6, <1>7, <1>8

LEMMA ConfirmKeeps ==
  ASSUME NEW S, NEW F \in S, NEW M, NEW T, NEW K \in Nat, PageInv(S, F, M, T, K),
         Steps(S, F, M, T, K)!Confirm
  PROVE  PageInv(S, F, M, T, K)'
  <1> DEFINE n == Len(sent) + 1
             r == [items |-> Steps(S, F, M, T, K)!Ordered(form), asked |-> form.master, slot |-> form.slot,
                   state |-> "sent", master |-> None]
  <1>1. r \in Ordering(S, M, T) /\ r.items \subseteq chosen \cup {F}
    BY DEF PageInv, OfChoice, Steps!TypeOK, Steps!Forms, Steps!Ordered, Ordering
  <1>2. /\ sent \in Seq(Ordering(S, M, T)) /\ Len(sent) \in Nat /\ Len(sent) < K
        /\ sent' = Append(sent, r) /\ waiting' = n /\ waiting = 0 /\ form.step = 6
        /\ UNCHANGED <<form, draft, chosen, excuses>>
    BY DEF PageInv, Steps!Confirm, Steps!Confirmable
  <1> HIDE DEF r
  <1>3. /\ sent' \in Seq(Ordering(S, M, T)) /\ Len(sent') = n /\ DOMAIN sent' = 1..n
        /\ DOMAIN sent = 1..Len(sent)
        /\ sent'[n] = r /\ \A i \in DOMAIN sent : sent'[i] = sent[i]
    BY <1>1, <1>2
  <1>4. r.state = "sent"
    BY DEF r
  <1>5. Open' = Open \cup {n} /\ n \notin Open
    BY <1>2, <1>3, <1>4 DEF Open
  <1>6. Cardinality(Open') = Cardinality(Open) + 1 /\ Cardinality(Open) \in Nat
    BY <1>2, <1>5, OpenFinite, FS_AddElement
  <1>7. ~Expected /\ Expected'
    BY <1>2, <1>3, <1>4 DEF Expected
  <1>8. OpenBounded(K)'
    BY <1>2, <1>6, <1>7 DEF PageInv, OpenBounded, Steps!TypeOK
  <1>9. Steps(S, F, M, T, K)!TypeOK'
    BY <1>2, <1>3 DEF PageInv, Steps!TypeOK
  <1>10. LastPage' /\ OfChoice(F)'
    BY <1>1, <1>2, <1>3 DEF PageInv, LastPage, OfChoice
  <1> QED
    BY <1>3, <1>8, <1>9, <1>10 DEF PageInv

\* What becomes of a request at the server.
LEMMA OutcomeKeeps ==
  ASSUME NEW S, NEW F \in S, NEW M, NEW T, NEW K \in Nat, PageInv(S, F, M, T, K),
         NEW i \in DOMAIN sent,
         Steps(S, F, M, T, K)!Refuse(i) \/ \E m \in M : Steps(S, F, M, T, K)!Book(i, m)
  PROVE  PageInv(S, F, M, T, K)'
  <1>0. /\ sent \in Seq(Ordering(S, M, T)) /\ Len(sent) \in Nat /\ DOMAIN sent = 1..Len(sent)
        /\ sent[i] \in Ordering(S, M, T)
    BY DEF PageInv
  <1>1. \E r \in Ordering(S, M, T) :
          /\ r.items = sent[i].items /\ r.state \in {"booked", "refused"}
          /\ sent' = [sent EXCEPT ![i] = r]
    <2>1. ASSUME Steps(S, F, M, T, K)!Refuse(i) PROVE <1>1
      <3> DEFINE r == [sent[i] EXCEPT !.state = "refused"]
      <3>1. r \in Ordering(S, M, T) /\ r.items = sent[i].items /\ r.state = "refused"
        BY <1>0 DEF Ordering
      <3>2. sent' = [sent EXCEPT ![i] = r]
        BY <2>1 DEF Steps!Refuse
      <3> HIDE DEF r
      <3> QED
        BY <3>1, <3>2
    <2>2. ASSUME NEW m \in M, Steps(S, F, M, T, K)!Book(i, m) PROVE <1>1
      <3> DEFINE r == [sent[i] EXCEPT !.state = "booked", !.master = m]
      <3>1. r \in Ordering(S, M, T) /\ r.items = sent[i].items /\ r.state = "booked"
        <4>1. m \in M \cup {None} /\ "booked" \in {"sent", "booked", "refused"}
          OBVIOUS
        <4>2. r \in Ordering(S, M, T)
          BY <1>0, <4>1, Zenon DEF Ordering
        <4>3. r.items = sent[i].items /\ r.state = "booked"
          BY <1>0 DEF Ordering
        <4> QED
          BY <4>2, <4>3
      <3>2. sent' = [sent EXCEPT ![i] = r]
        BY <1>0, <2>2 DEF Steps!Book
      <3> HIDE DEF r
      <3> QED
        BY <3>1, <3>2
    <2> QED
      BY <2>1, <2>2
  <1>2. PICK r \in Ordering(S, M, T) :
          /\ r.items = sent[i].items /\ r.state \in {"booked", "refused"}
          /\ sent' = [sent EXCEPT ![i] = r]
    BY <1>1
  <1>3. /\ sent' \in Seq(Ordering(S, M, T)) /\ Len(sent') = Len(sent) /\ DOMAIN sent' = DOMAIN sent
        /\ sent'[i] = r /\ \A j \in DOMAIN sent \ {i} : sent'[j] = sent[j]
    BY <1>0, <1>2
  <1>4. sent[i].state = "sent" /\ UNCHANGED <<form, draft, waiting, chosen, excuses>>
    <2>1. CASE Steps(S, F, M, T, K)!Refuse(i)
      BY <2>1 DEF Steps!Refuse
    <2>2. ASSUME NEW m \in M, Steps(S, F, M, T, K)!Book(i, m) PROVE <1>4
      BY <2>2 DEF Steps!Book
    <2> QED
      BY <2>1, <2>2
  <1>5. OpenBounded(K)'
    <2>1. i \in Open /\ IsFiniteSet(Open) /\ Cardinality(Open) \in Nat
      BY <1>0, <1>4, OpenFinite DEF Open
    <2>2. CASE r.state = "booked"
      <3>1. Open' = Open
        BY <1>3, <1>4, <2>2 DEF Open
      <3>2. Expected' <=> Expected
        BY <1>3, <1>4, <2>2 DEF Expected, PageInv, Steps!TypeOK
      <3> QED
        BY <1>4, <3>1, <3>2 DEF PageInv, OpenBounded
    <2>3. CASE r.state = "refused"
      <3>1. Open' = Open \ {i}
        BY <1>3, <1>4, <2>3 DEF Open
      <3>2. Cardinality(Open') = Cardinality(Open) - 1
        BY <2>1, <3>1, FS_RemoveElement
      <3> QED
        BY <1>4, <2>1, <3>2 DEF PageInv, OpenBounded, Steps!TypeOK
    <2> QED
      BY <1>2, <2>2, <2>3
  <1>6. Steps(S, F, M, T, K)!TypeOK' /\ LastPage' /\ OfChoice(F)'
    BY <1>2, <1>3, <1>4 DEF PageInv, Steps!TypeOK, LastPage, OfChoice
  <1> QED
    BY <1>3, <1>5, <1>6 DEF PageInv

LEMMA AnswerKeeps ==
  ASSUME NEW S, NEW F \in S, NEW M, NEW T, NEW K \in Nat, PageInv(S, F, M, T, K),
         Steps(S, F, M, T, K)!Answer
  PROVE  PageInv(S, F, M, T, K)'
  <1>0. /\ waiting # 0 /\ sent[waiting].state # "sent" /\ waiting' = 0 /\ UNCHANGED <<sent, chosen, excuses>>
        /\ IF sent[waiting].state = "booked"
           THEN form' = [form EXCEPT !.step = 7] /\ draft' = None
           ELSE UNCHANGED <<form, draft>>
    BY DEF Steps!Answer, Steps!Remaining
  <1>1. /\ form \in Steps(S, F, M, T, K)!Forms /\ form.step # 7 /\ waiting \in 0..Len(sent)
        /\ draft = None \/ (draft \in Steps(S, F, M, T, K)!Forms /\ draft.step # 7)
    BY <1>0 DEF PageInv, Steps!TypeOK, LastPage
  <1>2. sent[waiting] \in Ordering(S, M, T)
    BY <1>0, <1>1 DEF PageInv
  <1>3. Open' = Open
    BY <1>0 DEF Open
  <1>4. CASE sent[waiting].state = "booked"
    <2>1. /\ form' \in Steps(S, F, M, T, K)!Forms /\ form'.step = 7 /\ form'.items = form.items /\ draft' = None
      BY <1>0, <1>1, <1>4 DEF Steps!Forms
    <2>2. Expected /\ Expected'
      BY <1>0, <1>4, <2>1 DEF Expected
    <2>3. OpenBounded(K)'
      BY <1>0, <1>3, <2>2 DEF PageInv, OpenBounded
    <2> QED
      BY <1>0, <2>1, <2>3 DEF PageInv, Steps!TypeOK, LastPage, OfChoice
  <1>5. CASE sent[waiting].state # "booked"
    <2>1. sent[waiting].state = "refused"
      BY <1>0, <1>2, <1>5 DEF Ordering
    <2>2. ~Expected /\ ~Expected' /\ UNCHANGED <<form, draft>>
      BY <1>0, <1>1, <1>5, <2>1 DEF Expected
    <2>3. OpenBounded(K)'
      BY <1>0, <1>3, <2>2 DEF PageInv, OpenBounded
    <2> QED
      BY <1>0, <1>1, <2>2, <2>3 DEF PageInv, Steps!TypeOK, LastPage, OfChoice
  <1> QED
    BY <1>4, <1>5

\* The page stops waiting, or begins anew: that is an excuse, or nothing was
\* expected.
LEMMA ExcusedKeeps ==
  ASSUME NEW S, NEW F \in S, NEW M, NEW T, NEW K \in Nat, PageInv(S, F, M, T, K),
         UNCHANGED sent, ~Expected',
         NEW yes \in BOOLEAN, Expected => yes, Steps(S, F, M, T, K)!Excused(yes)
  PROVE  OpenBounded(K)' /\ excuses' \in 0..K
  <1>1. Open' = Open /\ Cardinality(Open) \in Nat
    BY OpenFinite DEF Open, PageInv
  <1>2. excuses \in 0..K /\ (excuses = K \/ Cardinality(Open) <= excuses + (IF Expected THEN 1 ELSE 0))
    BY DEF PageInv, Steps!TypeOK, OpenBounded
  <1>3. excuses' = IF yes /\ excuses < K THEN excuses + 1 ELSE excuses
    BY DEF Steps!Excused
  <1> QED
    BY <1>1, <1>2, <1>3 DEF OpenBounded

LEMMA LoseKeeps ==
  ASSUME NEW S, NEW F \in S, NEW M, NEW T, NEW K \in Nat, PageInv(S, F, M, T, K),
         Steps(S, F, M, T, K)!Lose
  PROVE  PageInv(S, F, M, T, K)'
  <1>1. /\ waiting' = 0 /\ form.step # 7 /\ UNCHANGED <<form, draft, sent, chosen>>
        /\ Steps(S, F, M, T, K)!Excused(TRUE)
    BY DEF PageInv, LastPage, Steps!Lose
  <1>2. OpenBounded(K)' /\ excuses' \in 0..K
    BY <1>1, ExcusedKeeps DEF Expected
  <1> QED
    BY <1>1, <1>2 DEF PageInv, Steps!TypeOK, LastPage, OfChoice

LEMMA AgainKeeps ==
  ASSUME NEW S, NEW F \in S, NEW M, NEW T, NEW K \in Nat, PageInv(S, F, M, T, K),
         Steps(S, F, M, T, K)!Again
  PROVE  PageInv(S, F, M, T, K)'
  <1>1. form \in Steps(S, F, M, T, K)!Forms /\ form.step = 7 /\ waiting = 0
    BY DEF PageInv, LastPage, Steps!TypeOK, Steps!Again
  <1>2. PICK step \in {1, 3} : Steps(S, F, M, T, K)!Shows([form EXCEPT !.step = step])
    BY DEF Steps!Again
  <1>3. /\ form' \in Steps(S, F, M, T, K)!Forms /\ form'.step = step /\ form'.items = form.items
        /\ draft' = form'
    BY <1>1, <1>2 DEF Steps!Shows, Steps!Forms
  <1>4. UNCHANGED <<sent, waiting, chosen>> /\ Steps(S, F, M, T, K)!Excused(TRUE)
    BY DEF Steps!Again
  <1>5. ~Expected'
    BY <1>1, <1>3, <1>4 DEF Expected
  <1>6. OpenBounded(K)' /\ excuses' \in 0..K
    BY <1>4, <1>5, ExcusedKeeps
  <1> QED
    BY <1>1, <1>2, <1>3, <1>4, <1>6 DEF PageInv, Steps!TypeOK, LastPage, OfChoice

LEMMA ReloadKeeps ==
  ASSUME NEW S, NEW F \in S, NEW M, NEW T, NEW K \in Nat, PageInv(S, F, M, T, K),
         Steps(S, F, M, T, K)!Reload
  PROVE  PageInv(S, F, M, T, K)'
  <1> DEFINE f == Steps(S, F, M, T, K)!Restored(draft)
  <1>1. /\ Steps(S, F, M, T, K)!Shows(f) /\ waiting' = 0 /\ UNCHANGED <<sent, chosen>>
        /\ Steps(S, F, M, T, K)!Excused(waiting # 0 \/ draft = None)
    BY DEF Steps!Reload
  <1>2. f \in Steps(S, F, M, T, K)!Forms /\ f.step # 7 /\ f.items \subseteq chosen \cup {F}
    <2>1. CASE draft = None
      BY <2>1 DEF Steps!Restored, Steps!Blank, Steps!Forms
    <2>2. CASE draft # None
      <3>1. draft \in Steps(S, F, M, T, K)!Forms /\ draft.step # 7 /\ draft.items \subseteq chosen \cup {F}
        BY <2>2 DEF PageInv, OfChoice, Steps!TypeOK
      <3> QED
        BY <2>2, <3>1 DEF Steps!Restored, Steps!Ordered, Steps!Forms
    <2> QED
      BY <2>1, <2>2
  <1> HIDE DEF f
  <1>3. form' = f /\ draft' = f
    BY <1>1, <1>2 DEF Steps!Shows
  <1>4. Expected => waiting # 0 \/ draft = None
    BY DEF PageInv, LastPage, Expected
  <1>5. ~Expected'
    BY <1>1, <1>2, <1>3 DEF Expected
  <1>6. OpenBounded(K)' /\ excuses' \in 0..K
    BY <1>1, <1>4, <1>5, ExcusedKeeps
  <1> QED
    BY <1>1, <1>2, <1>3, <1>6 DEF PageInv, Steps!TypeOK, LastPage, OfChoice

LEMMA PageKeeps ==
  ASSUME NEW S, NEW F \in S, NEW M, NEW T, NEW K \in Nat, PageInv(S, F, M, T, K),
         Steps(S, F, M, T, K)!Next \/ UNCHANGED <<form, draft, choosing>>
  PROVE  PageInv(S, F, M, T, K)'
  <1>1. CASE UNCHANGED <<form, draft, sent, waiting, chosen, excuses>>
    BY <1>1 DEF PageInv, Steps!TypeOK, OpenBounded, Open, Expected, LastPage, OfChoice
  <1>2. CASE Steps(S, F, M, T, K)!Next
    BY <1>2, FormsKeep, ConfirmKeeps, OutcomeKeeps, AnswerKeeps, LoseKeeps, AgainKeeps, ReloadKeeps
    DEF Steps!Next
  <1> QED
    BY <1>1, <1>2 DEF choosing

LEMMA PageBooksOnce ==
  ASSUME NEW S, NEW F \in S, NEW M, NEW T, NEW K \in Nat, PageInv(S, F, M, T, K)
  PROVE  Steps(S, F, M, T, K)!BookedOnce
  <1>1. Steps(S, F, M, T, K)!Made \subseteq Open
    BY DEF Steps!Made, Open
  <1>2. /\ Cardinality(Open) \in Nat /\ Cardinality(Open) <= Len(sent)
        /\ Cardinality(Steps(S, F, M, T, K)!Made) \in Nat
        /\ Cardinality(Steps(S, F, M, T, K)!Made) <= Cardinality(Open)
    BY <1>1, OpenFinite DEF PageInv
  <1>3. Steps(S, F, M, T, K)!Cardinality(Steps(S, F, M, T, K)!Made) = Cardinality(Steps(S, F, M, T, K)!Made)
    BY DEF Steps!Cardinality, Cardinality
  <1>4. Len(sent) \in Nat /\ Len(sent) <= K /\ excuses \in 0..K
    BY DEF PageInv, Steps!TypeOK
  <1>5. Cardinality(Steps(S, F, M, T, K)!Made) <= 1 + excuses
    BY <1>2, <1>4 DEF PageInv, OpenBounded
  <1>6. \A i \in Steps(S, F, M, T, K)!Made : sent[i].items \subseteq chosen \cup {F}
    BY DEF PageInv, OfChoice, Steps!Made
  <1> QED
    BY <1>3, <1>5, <1>6 DEF Steps!BookedOnce

\* For every list of services, masters and slots, and any number of requests: one
\* visit makes one booking, of services that were chosen or of the first one
\* (SalonDetailPage).
THEOREM VisitsBookOnce ==
  ASSUME NEW S, NEW F \in S, NEW M, NEW T, NEW K \in Nat
  PROVE  Steps(S, F, M, T, K)!Spec => []Steps(S, F, M, T, K)!BookedOnce
  <1>1. Steps(S, F, M, T, K)!Init => PageInv(S, F, M, T, K)
    BY PageStarts
  <1>2. PageInv(S, F, M, T, K) /\ [Steps(S, F, M, T, K)!Next]_(Steps(S, F, M, T, K)!vars)
          => PageInv(S, F, M, T, K)'
    BY PageKeeps DEF Steps!vars, choosing
  <1>3. PageInv(S, F, M, T, K) => Steps(S, F, M, T, K)!BookedOnce
    BY PageBooksOnce
  <1> QED
    BY <1>1, <1>2, <1>3, PTL DEF Steps!Spec

-----------------------------------------------------------------------------
(* The home-visit page.  What is true of the page is true of its draft.    *)

\* From the second step on a service is named, from the fifth on a slot that
\* was offered for it and is of the date.
AsShown(f, done) ==
  /\ f.step \in 2..7 => f.service # None
  /\ f.step \in 5..7 => f.slot # None /\ f.slot.day = f.day /\ f.slot.for = f.service
  /\ f.step \in 5..6 => ~done

VisitInv(S, F, T, W, L) ==
  /\ Home(S, F, T, W, L)!TypeOK
  /\ AsShown(form, spent)
  /\ draft # None => AsShown(draft, spent)
  /\ form.step = 7 => spent

\* The null of optional fields is neither a service nor a slot.
Named(S, F, T, W, L) ==
  /\ F \in S /\ W \in Nat /\ L \in Nat \ {0}
  /\ None \notin S
  /\ None \notin Home(S, F, T, W, L)!Slots

LEMMA VisitStarts ==
  ASSUME NEW S, NEW F, NEW T, NEW W, NEW L, Named(S, F, T, W, L), Home(S, F, T, W, L)!Init
  PROVE  VisitInv(S, F, T, W, L)
  <1>1. /\ form = Home(S, F, T, W, L)!Blank /\ draft = form /\ form.step = 1 /\ spent = FALSE
        /\ today = 1 /\ independent \in BOOLEAN /\ user \in BOOLEAN
    BY DEF Home!Init, Home!Blank
  <1>2. 1 \in 1..L /\ 1 \in Home(S, F, T, W, L)!Days
    BY DEF Named, Home!Days
  <1>3. form \in Home(S, F, T, W, L)!Forms
    BY <1>1, <1>2 DEF Home!Blank, Home!Forms
  <1>4. Home(S, F, T, W, L)!TypeOK
    <2>1. draft.step # 7
      BY <1>1
    <2>2. today \in 1..L
      BY <1>1, <1>2
    <2> QED
      BY <1>1, <1>3, <2>1, <2>2, Zenon DEF Home!TypeOK
  <1>5. AsShown(form, spent)
    BY <1>1 DEF AsShown
  <1> QED
    BY <1>1, <1>4, <1>5 DEF VisitInv

\* Only the form changes, to one that is as shown; on the last page nothing does.
LEMMA VisitEdits ==
  ASSUME NEW S, NEW F, NEW T, NEW W, NEW L, Named(S, F, T, W, L), VisitInv(S, F, T, W, L),
         NEW f \in Home(S, F, T, W, L)!Forms, Home(S, F, T, W, L)!Shows(f), AsShown(f, spent'), f.step # 7,
         user' \in BOOLEAN, spent' \in BOOLEAN
  PROVE  VisitInv(S, F, T, W, L)'
  <1>1. form' = f /\ draft' = f /\ UNCHANGED <<independent, today>>
    BY DEF Home!Shows
  <1> QED
    BY <1>1 DEF VisitInv, Home!TypeOK, AsShown

LEMMA VisitSteps ==
  ASSUME NEW S, NEW F, NEW T, NEW W, NEW L, Named(S, F, T, W, L), VisitInv(S, F, T, W, L),
         \/ \E s \in S : Home(S, F, T, W, L)!ChooseService(s)
         \/ Home(S, F, T, W, L)!EnterAddress
         \/ Home(S, F, T, W, L)!ShowTimes
         \/ Home(S, F, T, W, L)!EnterPayment
         \/ Home(S, F, T, W, L)!Back
         \/ \E d \in Home(S, F, T, W, L)!Days : Home(S, F, T, W, L)!ChooseDate(d)
  PROVE  VisitInv(S, F, T, W, L)'
  <1>0. form \in Home(S, F, T, W, L)!Forms /\ AsShown(form, spent) /\ spent \in BOOLEAN /\ user \in BOOLEAN
    BY DEF VisitInv, Home!TypeOK
  <1>1. \E f \in Home(S, F, T, W, L)!Forms :
          Home(S, F, T, W, L)!Shows(f) /\ AsShown(f, spent') /\ f.step # 7 /\ UNCHANGED <<user, spent>>
    <2>1. ASSUME NEW s \in S, Home(S, F, T, W, L)!ChooseService(s) PROVE <1>1
      <3> DEFINE f == [form EXCEPT !.service = s, !.step = 2]
      <3>1. s \in S \cup {None} /\ 2 \in 1..7 /\ s # None
        BY DEF Named
      <3>2. f \in Home(S, F, T, W, L)!Forms
        BY <1>0, <3>1, Zenon DEF Home!Forms
      <3>3. f.step = 2 /\ f.service = s
        BY <1>0 DEF Home!Forms
      <3>4. Home(S, F, T, W, L)!Edits(f)
        BY <2>1 DEF Home!ChooseService
      <3> HIDE DEF f
      <3> QED
        BY <3>1, <3>2, <3>3, <3>4 DEF Home!Edits, AsShown
    <2>2. ASSUME NEW n \in 2..6, form.step \in 2..7, n \in 5..6 => form.step \in 5..6,
                 Home(S, F, T, W, L)!Edits([form EXCEPT !.step = n])
          PROVE  <1>1
      <3> DEFINE f == [form EXCEPT !.step = n]
      <3>1. /\ f \in Home(S, F, T, W, L)!Forms /\ f.step = n /\ f.service = form.service
            /\ f.slot = form.slot /\ f.day = form.day
        BY <1>0 DEF Home!Forms
      <3>2. Home(S, F, T, W, L)!Edits(f)
        BY <2>2
      <3> HIDE DEF f
      <3> QED
        BY <1>0, <2>2, <3>1, <3>2 DEF Home!Edits, AsShown
    <2>3. CASE Home(S, F, T, W, L)!EnterAddress
      BY <2>2, <2>3 DEF Home!EnterAddress
    <2>4. CASE Home(S, F, T, W, L)!ShowTimes
      BY <2>2, <2>4 DEF Home!ShowTimes
    <2>5. CASE Home(S, F, T, W, L)!EnterPayment
      BY <2>2, <2>5 DEF Home!EnterPayment
    <2>6. CASE Home(S, F, T, W, L)!Back /\ form.step # 2
      <3>1. form.step \in 3..6 /\ Home(S, F, T, W, L)!Edits([form EXCEPT !.step = form.step - 1])
        BY <2>6 DEF Home!Back
      <3> QED
        BY <2>2, <3>1
    <2>7. CASE Home(S, F, T, W, L)!Back /\ form.step = 2
      <3> DEFINE f == [form EXCEPT !.step = 1]
      <3>1. f \in Home(S, F, T, W, L)!Forms /\ f.step = 1
        BY <1>0 DEF Home!Forms
      <3>2. Home(S, F, T, W, L)!Edits(f)
        BY <2>7 DEF Home!Back
      <3> HIDE DEF f
      <3> QED
        BY <3>1, <3>2 DEF Home!Edits, AsShown
    <2>8. ASSUME NEW d \in Home(S, F, T, W, L)!Days, Home(S, F, T, W, L)!ChooseDate(d) PROVE <1>1
      <3> DEFINE f == [form EXCEPT !.day = d]
      <3>1. f \in Home(S, F, T, W, L)!Forms /\ f.step = form.step /\ f.service = form.service
        BY <1>0 DEF Home!Forms
      <3>2. Home(S, F, T, W, L)!Edits(f) /\ form.step = 3
        BY <2>8 DEF Home!ChooseDate
      <3> HIDE DEF f
      <3> QED
        BY <1>0, <3>1, <3>2 DEF Home!Edits, AsShown
    <2> QED
      BY <2>1, <2>3, <2>4, <2>5, <2>6, <2>7, <2>8
  <1> QED
    BY <1>0, <1>1, VisitEdits

LEMMA VisitPicks ==
  ASSUME NEW S, NEW F, NEW T, NEW W, NEW L, Named(S, F, T, W, L), VisitInv(S, F, T, W, L),
         NEW t \in T,
         Home(S, F, T, W, L)!ChooseSlot(t) \/ Home(S, F, T, W, L)!ChooseOnCalendar(t)
  PROVE  VisitInv(S, F, T, W, L)'
  <1>0. form \in Home(S, F, T, W, L)!Forms /\ AsShown(form, spent) /\ user \in BOOLEAN
    BY DEF VisitInv, Home!TypeOK
  <1> DEFINE chosenFor == Home(S, F, T, W, L)!Selected
  <1>1. \E g \in Home(S, F, T, W, L)!Forms :
          /\ g.service = chosenFor /\ chosenFor \in S /\ chosenFor # None
          /\ Home(S, F, T, W, L)!Picked(g, t)
    <2>1. chosenFor \in S /\ chosenFor # None
      BY <1>0 DEF Home!Selected, Home!Forms, Named
    <2>2. CASE Home(S, F, T, W, L)!ChooseSlot(t)
      <3>1. form.service = chosenFor
        BY <1>0, <2>2 DEF Home!ChooseSlot, Home!Selected, AsShown
      <3>2. Home(S, F, T, W, L)!Picked(form, t)
        BY <2>2 DEF Home!ChooseSlot
      <3> QED
        BY <1>0, <2>1, <3>1, <3>2
    <2>3. CASE Home(S, F, T, W, L)!ChooseOnCalendar(t)
      <3> DEFINE g == [form EXCEPT !.service = chosenFor]
      <3>1. g \in Home(S, F, T, W, L)!Forms /\ g.service = chosenFor
        BY <1>0, <2>1 DEF Home!Forms
      <3>2. Home(S, F, T, W, L)!Picked(g, t)
        BY <2>3 DEF Home!ChooseOnCalendar
      <3> HIDE DEF g, chosenFor
      <3> QED
        BY <2>1, <3>1, <3>2
    <2> QED
      BY <2>2, <2>3
  <1>2. PICK g \in Home(S, F, T, W, L)!Forms :
          /\ g.service = chosenFor /\ chosenFor \in S /\ chosenFor # None
          /\ Home(S, F, T, W, L)!Picked(g, t)
    BY <1>1
  <1> DEFINE at == [day |-> g.day, time |-> t, for |-> chosenFor]
             f == [g EXCEPT !.slot = at, !.step = 5]
  <1>3. at \in Home(S, F, T, W, L)!Slots /\ 5 \in 1..7
    BY <1>2 DEF Home!Forms, Home!Slots
  <1>4. Home(S, F, T, W, L)!Shows(f) /\ spent' = FALSE /\ user' = user
    BY <1>2 DEF Home!Picked
  <1>5. at # None /\ at.day = g.day /\ at.for = chosenFor
    BY <1>3 DEF Named
  <1> HIDE DEF at, chosenFor
  <1>6. f \in Home(S, F, T, W, L)!Forms
    BY <1>3, Zenon DEF Home!Forms
  <1>7. f.step = 5 /\ f.slot = at /\ f.day = g.day /\ f.service = g.service
    BY DEF Home!Forms
  <1> HIDE DEF f
  <1>8. AsShown(f, spent')
    BY <1>2, <1>4, <1>5, <1>7 DEF AsShown
  <1>9. user' \in BOOLEAN /\ spent' \in BOOLEAN
    BY <1>0, <1>4, Zenon
  <1>10. f.step # 7
    BY <1>7
  <1> QED
    BY <1>4, <1>6, <1>8, <1>9, <1>10, VisitEdits

LEMMA VisitRests ==
  ASSUME NEW S, NEW F, NEW T, NEW W, NEW L, Named(S, F, T, W, L), VisitInv(S, F, T, W, L),
         \/ Home(S, F, T, W, L)!Confirm
         \/ Home(S, F, T, W, L)!Reload
         \/ Home(S, F, T, W, L)!NewDay
         \/ UNCHANGED <<form, draft, independent, user, today, spent>>
  PROVE  VisitInv(S, F, T, W, L)'
  <1>1. CASE Home(S, F, T, W, L)!Confirm
    BY <1>1 DEF Home!Confirm, Home!Confirmable, VisitInv, AsShown, Home!TypeOK, Home!Forms
  <1>2. CASE Home(S, F, T, W, L)!Reload
    <2> DEFINE f == IF draft = None THEN Home(S, F, T, W, L)!Blank ELSE draft
    <2>1. Home(S, F, T, W, L)!Shows(f) /\ user' \in BOOLEAN /\ spent' = spent
      BY <1>2 DEF Home!Reload
    <2>2. f \in Home(S, F, T, W, L)!Forms /\ f.step # 7 /\ AsShown(f, spent')
      <3>1. CASE draft # None
        BY <2>1, <3>1 DEF VisitInv, Home!TypeOK
      <3>2. CASE draft = None
        <4>1. today \in Home(S, F, T, W, L)!Days
          BY DEF VisitInv, Home!TypeOK, Home!Days, Named
        <4>2. f = [step |-> 1, service |-> None, day |-> today, slot |-> None]
          BY <3>2 DEF Home!Blank
        <4> QED
          BY <4>1, <4>2 DEF Home!Forms, AsShown
      <3> QED
        BY <3>1, <3>2
    <2>3. spent \in BOOLEAN
      BY DEF VisitInv, Home!TypeOK
    <2> HIDE DEF f
    <2> QED
      BY <2>1, <2>2, <2>3, VisitEdits
  <1>3. CASE Home(S, F, T, W, L)!NewDay
    BY <1>3 DEF Home!NewDay, VisitInv, AsShown, Home!TypeOK, Named
  <1>4. CASE UNCHANGED <<form, draft, independent, user, today, spent>>
    BY <1>4 DEF VisitInv, AsShown, Home!TypeOK
  <1> QED
    BY <1>1, <1>2, <1>3, <1>4

LEMMA VisitKeeps ==
  ASSUME NEW S, NEW F, NEW T, NEW W, NEW L, Named(S, F, T, W, L), VisitInv(S, F, T, W, L),
         [Home(S, F, T, W, L)!Next]_(Home(S, F, T, W, L)!vars)
  PROVE  VisitInv(S, F, T, W, L)'
  BY VisitSteps, VisitPicks, VisitRests DEF Home!Next, Home!vars

LEMMA VisitShown ==
  ASSUME NEW S, NEW F, NEW T, NEW W, NEW L, VisitInv(S, F, T, W, L)
  PROVE  Home(S, F, T, W, L)!ConfirmedAsShown
  BY DEF VisitInv, AsShown, Home!TypeOK, Home!Forms, Home!ConfirmedAsShown

\* For every list of services, times and days: what the last steps show is what
\* was chosen, and no slot is confirmed twice (MasterDetailPage).
THEOREM VisitsAreAsShown ==
  ASSUME NEW S, NEW F, NEW T, NEW W, NEW L, Named(S, F, T, W, L)
  PROVE  Home(S, F, T, W, L)!Spec => []Home(S, F, T, W, L)!ConfirmedAsShown
  <1>1. Home(S, F, T, W, L)!Init => VisitInv(S, F, T, W, L)
    BY VisitStarts
  <1>2. VisitInv(S, F, T, W, L) /\ [Home(S, F, T, W, L)!Next]_(Home(S, F, T, W, L)!vars) => VisitInv(S, F, T, W, L)'
    BY VisitKeeps
  <1>3. VisitInv(S, F, T, W, L) => Home(S, F, T, W, L)!ConfirmedAsShown
    BY VisitShown
  <1> QED
    BY <1>1, <1>2, <1>3, PTL DEF Home!Spec

-----------------------------------------------------------------------------
(* The catalogue, for all it can be about.                                 *)
(*                                                                         *)
(* Every zone before the next one was fetched, was given up, or is at one  *)
(* worker, and a worker rests only when none is left: so when all rest, no *)
(* zone was missed.  What a walk has seen is the pages up to its offset,   *)
(* as long as they are of the entry there is.  What the folds over the     *)
(* salons and places leave is shown by the smallest number for which it    *)
(* would be false.                                                         *)

LEMMA SmallestNumber ==
  ASSUME NEW S \in SUBSET Nat, S # {}
  PROVE  \E x \in S : \A y \in S : x <= y
  <1>1. PICK x \in S : \A y \in S : ~ (<<y, x>> \in OpToRel(<, Nat))
    BY NatLessThanWellFounded, WFMin
  <1>2. ASSUME NEW y \in S, y < x PROVE FALSE
    <2>1. <<y, x>> \in OpToRel(<, Nat)
      BY <1>2 DEF OpToRel
    <2> QED
      BY <1>1, <2>1
  <1> QED
    BY <1>2

LEMMA GreatestIsThere ==
  ASSUME NEW c, NEW n \in Nat, NEW S \in SUBSET (1..n), S # {}
  PROVE  Search(c)!Max(S) \in S /\ \A y \in S : Search(c)!Max(S) >= y
  <1> DEFINE above == {x \in Nat : \A y \in S : x >= y}
  <1>1. PICK m \in above : \A x \in above : m <= x
    <2>1. n \in above
      OBVIOUS
    <2>2. above \in SUBSET Nat /\ above # {}
      BY <2>1
    <2> HIDE DEF above
    <2> QED
      BY <2>2, SmallestNumber
  <1>2. m \in S
    <2> SUFFICES ASSUME m \notin S PROVE FALSE
      OBVIOUS
    <2>1. PICK y \in S : TRUE
      OBVIOUS
    <2>2. m > y /\ y >= 1
      BY <1>1, <2>1
    <2>3. m - 1 \in above
      BY <1>1, <2>2
    <2> QED
      BY <1>1, <2>3
  <1> QED
    BY <1>1, <1>2 DEF Search!Max

\* What Sorted and Merged (b tells which) make of x and what they have kept, k.
KeptWith(c, I, b, x, k) ==
  IF x \in I /\ (b = "merged" => \A i \in DOMAIN k : ~Search(c)!SamePlace(k[i], x)) THEN Append(k, x) ELSE k

Folded(c, I, b, s, D, f) ==
  [S \in SUBSET D |->
     IF S = {} THEN <<>>
     ELSE KeptWith(c, I, b, s[Search(c)!Max(S)], f[S \ {Search(c)!Max(S)}])]

LEMMA FoldIsThere ==
  ASSUME NEW c, NEW I, NEW b, NEW s, NEW l \in Nat
  PROVE  \E f : f = Folded(c, I, b, s, 1..l, f)
  <1> DEFINE bad == {n \in Nat : ~ \E f : f = Folded(c, I, b, s, 1..n, f)}
  <1>1. SUFFICES bad = {}
    OBVIOUS
  <1>2. SUFFICES ASSUME bad # {} PROVE FALSE
    OBVIOUS
  <1>3. PICK n \in bad : \A m \in bad : n <= m
    BY <1>2, SmallestNumber
  <1>4. CASE n = 0
    <2> DEFINE f == [S \in SUBSET (1..0) |-> <<>>]
    <2>1. 1..0 = {}
      OBVIOUS
    <2>2. f = Folded(c, I, b, s, 1..0, f)
      BY <2>1 DEF Folded
    <2> QED
      BY <1>3, <1>4, <2>2
  <1>5. CASE n > 0
    <2>1. n - 1 \in Nat /\ n - 1 \notin bad
      BY <1>3, <1>5
    <2>2. PICK f : f = Folded(c, I, b, s, 1..(n - 1), f)
      BY <2>1
    <2> DEFINE g == [S \in SUBSET (1..n) |-> IF n \in S THEN KeptWith(c, I, b, s[n], f[S \ {n}]) ELSE f[S]]
    <2>3. ASSUME NEW S \in SUBSET (1..n)
          PROVE  g[S] = IF S = {} THEN <<>>
                        ELSE KeptWith(c, I, b, s[Search(c)!Max(S)], g[S \ {Search(c)!Max(S)}])
      <3>1. CASE n \in S
        <4>1. Search(c)!Max(S) = n
          <5>1. n \in Nat /\ S # {} /\ \A y \in S : y <= n
            BY <2>1, <3>1
          <5>2. Search(c)!Max(S) \in S /\ Search(c)!Max(S) >= n
            BY <3>1, <5>1, GreatestIsThere
          <5>3. Search(c)!Max(S) \in 1..n
            BY <5>2
          <5> QED
            BY <5>1, <5>2, <5>3
        <4>2. S \ {n} \in SUBSET (1..n) /\ n \notin S \ {n}
          OBVIOUS
        <4>3. g[S \ {n}] = f[S \ {n}]
          BY <4>2
        <4> QED
          BY <3>1, <4>1, <4>3
      <3>2. CASE n \notin S
        <4>1. S \in SUBSET (1..(n - 1))
          BY <3>2, <2>1
        <4>2. g[S] = f[S]
          BY <3>2
        <4>3. f[S] = IF S = {} THEN <<>>
                     ELSE KeptWith(c, I, b, s[Search(c)!Max(S)], f[S \ {Search(c)!Max(S)}])
          BY <2>2, <4>1 DEF Folded
        <4>4. g[S \ {Search(c)!Max(S)}] = f[S \ {Search(c)!Max(S)}]
          BY <3>2
        <4> QED
          BY <4>2, <4>3, <4>4
      <3> QED
        BY <3>1, <3>2
    <2>4. g = [S \in SUBSET (1..n) |-> g[S]]
      OBVIOUS
    <2> HIDE DEF g
    <2>5. g = Folded(c, I, b, s, 1..n, g)
      BY <2>3, <2>4 DEF Folded
    <2> QED
      BY <1>3, <2>5
  <1> QED
    BY <1>3, <1>4, <1>5

\* What is kept, k, was there and wanted; and of what was it has each, or
\* something like it.
KeptOf(c, I, b, s, k) ==
  /\ \A j \in DOMAIN k : k[j] \in I /\ \E i \in DOMAIN s : k[j] = s[i]
  /\ \A i \in DOMAIN s : s[i] \in I =>
       \E j \in DOMAIN k : k[j] = s[i] \/ (b = "merged" /\ Search(c)!SamePlace(k[j], s[i]))

LEMMA FoldKeeps ==
  ASSUME NEW c, NEW I, NEW b, NEW A, NEW s \in Seq(A),
         NEW f, f = Folded(c, I, b, s, DOMAIN s, f)
  PROVE  f[DOMAIN s] \in Seq(A) /\ KeptOf(c, I, b, s, f[DOMAIN s])
  <1> DEFINE Good(k, n) ==
        /\ k \in Seq(A)
        /\ \A j \in DOMAIN k : k[j] \in I /\ \E i \in 1..n : k[j] = s[i]
        /\ \A i \in 1..n : s[i] \in I =>
             \E j \in DOMAIN k : k[j] = s[i] \/ (b = "merged" /\ Search(c)!SamePlace(k[j], s[i]))
  <1> DEFINE bad == {n \in 0..Len(s) : ~ Good(f[1..n], n)}
  <1>1. DOMAIN s = 1..Len(s) /\ Len(s) \in Nat
    OBVIOUS
  <1>2. CASE bad = {}
    <2>1. Len(s) \in 0..Len(s)
      BY <1>1
    <2>2. Good(f[1..Len(s)], Len(s))
      BY <1>2, <2>1
    <2> QED
      BY <1>1, <2>2 DEF KeptOf
  <1> SUFFICES ASSUME bad # {} PROVE FALSE
    BY <1>2
  <1>3. PICK n \in bad : \A m \in bad : n <= m
    <2>1. bad \in SUBSET Nat
      BY <1>1
    <2> HIDE DEF bad
    <2> QED
      BY <2>1, SmallestNumber
  <1>4. CASE n = 0
    <2>1. 1..0 = {}
      OBVIOUS
    <2>2. f[{}] = <<>>
      BY DEF Folded
    <2>3. Good(<<>>, 0)
      OBVIOUS
    <2> QED
      BY <1>3, <1>4, <2>1, <2>2, <2>3
  <1>5. CASE n > 0
    <2>1. n - 1 \in 0..Len(s) /\ n - 1 \notin bad /\ n \in 1..Len(s) /\ n \in Nat
      BY <1>1, <1>3, <1>5
    <2> DEFINE k == f[1..(n - 1)]
               x == s[n]
               q == f[1..n]
    <2>2. Good(k, n - 1)
      BY <2>1
    <2>3. q = KeptWith(c, I, b, x, k)
      <3>1. Search(c)!Max(1..n) = n
        <4>1. 1..n # {} /\ n \in 1..n
          BY <2>1
        <4>2. Search(c)!Max(1..n) \in 1..n /\ Search(c)!Max(1..n) >= n
          BY <2>1, <4>1, GreatestIsThere
        <4> QED
          BY <2>1, <4>2
      <3>2. (1..n) \ {n} = 1..(n - 1) /\ n \in 1..n /\ \A i \in 1..n : i \in DOMAIN s
        BY <1>1, <2>1
      <3> QED
        BY <3>1, <3>2 DEF Folded
    <2>4. x \in A
      BY <2>1
    <2>5. ~Good(q, n)
      BY <1>3
    <2> HIDE DEF k, q
    <2>6. CASE x \in I /\ (b = "merged" => \A i \in DOMAIN k : ~Search(c)!SamePlace(k[i], x))
      <3>1. q = Append(k, x)
        BY <2>3, <2>6 DEF KeptWith
      <3>2. /\ q \in Seq(A) /\ DOMAIN q = 1..(Len(k) + 1) /\ q[Len(k) + 1] = x
            /\ \A j \in DOMAIN k : j \in DOMAIN q /\ q[j] = k[j]
            /\ \A j \in DOMAIN q : j \in DOMAIN k \/ j = Len(k) + 1
            /\ Len(k) + 1 \in DOMAIN q
        BY <2>2, <2>4, <3>1
      <3>3. \A j \in DOMAIN q : q[j] \in I /\ \E i \in 1..n : q[j] = s[i]
        <4> SUFFICES ASSUME NEW j \in DOMAIN q
                     PROVE  q[j] \in I /\ \E i \in 1..n : q[j] = s[i]
          OBVIOUS
        <4>1. CASE j \in DOMAIN k
          <5>1. PICK i \in 1..(n - 1) : k[j] = s[i]
            BY <2>2, <4>1
          <5>2. i \in 1..n
            BY <2>1, <5>1
          <5> QED
            BY <2>2, <3>2, <4>1, <5>1, <5>2
        <4>2. CASE j = Len(k) + 1
          <5>1. n \in 1..n
            BY <2>1
          <5> QED
            BY <2>6, <3>2, <4>2, <5>1
        <4> QED
          BY <3>2, <4>1, <4>2
      <3>4. ASSUME NEW i \in 1..n, s[i] \in I
            PROVE  \E j \in DOMAIN q : q[j] = s[i] \/ (b = "merged" /\ Search(c)!SamePlace(q[j], s[i]))
        <4>1. CASE i = n
          BY <3>2, <4>1
        <4>2. CASE i # n
          <5>1. i \in 1..(n - 1)
            BY <2>1, <4>2
          <5>2. PICK j \in DOMAIN k : k[j] = s[i] \/ (b = "merged" /\ Search(c)!SamePlace(k[j], s[i]))
            BY <2>2, <3>4, <5>1
          <5> QED
            BY <3>2, <5>2
        <4> QED
          BY <4>1, <4>2
      <3> QED
        BY <2>5, <3>2, <3>3, <3>4
    <2>7. CASE ~(x \in I /\ (b = "merged" => \A i \in DOMAIN k : ~Search(c)!SamePlace(k[i], x)))
      <3>1. q = k
        BY <2>3, <2>7 DEF KeptWith
      <3>2. \A j \in DOMAIN k : k[j] \in I /\ \E i \in 1..n : k[j] = s[i]
        <4>1. \A i \in 1..(n - 1) : i \in 1..n
          BY <2>1
        <4> QED
          BY <2>2, <4>1
      <3>3. ASSUME NEW i \in 1..n, s[i] \in I
            PROVE  \E j \in DOMAIN k : k[j] = s[i] \/ (b = "merged" /\ Search(c)!SamePlace(k[j], s[i]))
        <4>1. CASE i = n
          BY <2>7, <3>3, <4>1
        <4>2. CASE i # n
          <5>1. i \in 1..(n - 1)
            BY <2>1, <4>2
          <5> QED
            BY <2>2, <3>3, <5>1
        <4> QED
          BY <4>1, <4>2
      <3> QED
        BY <2>2, <2>5, <3>1, <3>2, <3>3
    <2> QED
      BY <2>6, <2>7
  <1> QED
    BY <1>1, <1>3, <1>4, <1>5

LEMMA SortedKeeps ==
  ASSUME NEW c, NEW I, NEW A, NEW s \in Seq(A)
  PROVE  /\ Search(c)!Sorted(I, s) \in Seq(A)
         /\ Search(c)!Range(Search(c)!Sorted(I, s)) = I \cap Search(c)!Range(s)
  <1> DEFINE top(S) == Search(c)!Max(S)
             Steps1(f) == [S \in SUBSET DOMAIN s |->
               IF S = {} THEN <<>>
               ELSE IF s[top(S)] \in I THEN Append(f[S \ {top(S)}], s[top(S)]) ELSE f[S \ {top(S)}]]
  <1>1. PICK f : f = (CHOOSE g : g = Steps1(g)) /\ Search(c)!Sorted(I, s) = f[DOMAIN s]
    BY DEF Search!Sorted, Search!MapThenFoldSet
  <1>2. ASSUME NEW g PROVE Steps1(g) = Folded(c, I, "sorted", s, DOMAIN s, g)
    BY DEF Folded, KeptWith
  <1>3. DOMAIN s = 1..Len(s) /\ Len(s) \in Nat
    OBVIOUS
  <1>4. PICK g : g = Folded(c, I, "sorted", s, DOMAIN s, g)
    BY <1>3, FoldIsThere
  <1>5. g = Steps1(g)
    BY <1>2, <1>4
  <1> HIDE DEF Steps1
  <1>6. f = Steps1(f)
    BY <1>1, <1>5
  <1>7. f = Folded(c, I, "sorted", s, DOMAIN s, f)
    BY <1>2, <1>6
  <1>8. /\ f[DOMAIN s] \in Seq(A)
        /\ \A j \in DOMAIN f[DOMAIN s] : f[DOMAIN s][j] \in I /\ \E i \in DOMAIN s : f[DOMAIN s][j] = s[i]
        /\ \A i \in DOMAIN s : s[i] \in I => \E j \in DOMAIN f[DOMAIN s] : f[DOMAIN s][j] = s[i]
    <2>1. f[DOMAIN s] \in Seq(A) /\ KeptOf(c, I, "sorted", s, f[DOMAIN s])
      BY <1>7, FoldKeeps
    <2> QED
      BY <2>1 DEF KeptOf
  <1> DEFINE kept == f[DOMAIN s]
  <1> HIDE DEF kept
  <1>9. {kept[j] : j \in DOMAIN kept} = I \cap {s[i] : i \in DOMAIN s}
    BY <1>8 DEF kept
  <1>10. Search(c)!Sorted(I, s) = kept /\ kept \in Seq(A)
    BY <1>1, <1>8 DEF kept
  <1>11. Search(c)!Range(kept) = I \cap Search(c)!Range(s)
    BY <1>9 DEF Search!Range
  <1> QED
    BY <1>10, <1>11

LEMMA MergedKeeps ==
  ASSUME NEW c, NEW A, NEW s \in Seq(A)
  PROVE  /\ Search(c)!Range(Search(c)!Merged(s)) \subseteq Search(c)!Range(s)
         /\ \A x \in Search(c)!Range(s) :
              \E y \in Search(c)!Range(Search(c)!Merged(s)) : Search(c)!SamePlace(x, y)
  <1> DEFINE top(S) == Search(c)!Max(S)
             Steps1(f) == [S \in SUBSET DOMAIN s |->
               IF S = {} THEN <<>>
               ELSE IF \E i \in DOMAIN f[S \ {top(S)}] : Search(c)!SamePlace(f[S \ {top(S)}][i], s[top(S)])
                    THEN f[S \ {top(S)}] ELSE Append(f[S \ {top(S)}], s[top(S)])]
             I == Search(c)!Range(s)
  <1>1. PICK f : f = (CHOOSE g : g = Steps1(g)) /\ Search(c)!Merged(s) = f[DOMAIN s]
    BY DEF Search!Merged, Search!MapThenFoldSet
  <1>2. DOMAIN s = 1..Len(s) /\ Len(s) \in Nat
    OBVIOUS
  <1>3. ASSUME NEW g PROVE Steps1(g) = Folded(c, I, "merged", s, DOMAIN s, g)
    <2>1. ASSUME NEW S \in SUBSET DOMAIN s, S # {} PROVE s[top(S)] \in I
      BY <1>2, <2>1, GreatestIsThere DEF Search!Range
    <2> HIDE DEF I, top
    <2>2. ASSUME NEW S \in SUBSET DOMAIN s, S # {}
          PROVE  (IF \E i \in DOMAIN g[S \ {top(S)}] : Search(c)!SamePlace(g[S \ {top(S)}][i], s[top(S)])
                  THEN g[S \ {top(S)}] ELSE Append(g[S \ {top(S)}], s[top(S)]))
                 = KeptWith(c, I, "merged", s[top(S)], g[S \ {top(S)}])
      BY <2>1, <2>2 DEF KeptWith
    <2> QED
      BY <2>2 DEF Folded, top
  <1>4. PICK g : g = Folded(c, I, "merged", s, DOMAIN s, g)
    BY <1>2, FoldIsThere
  <1>5. g = Steps1(g)
    BY <1>3, <1>4
  <1> HIDE DEF Steps1
  <1>6. f = Steps1(f)
    BY <1>1, <1>5
  <1>7. f = Folded(c, I, "merged", s, DOMAIN s, f)
    BY <1>3, <1>6
  <1>8. /\ \A j \in DOMAIN f[DOMAIN s] : \E i \in DOMAIN s : f[DOMAIN s][j] = s[i]
        /\ \A i \in DOMAIN s : s[i] \in I =>
             \E j \in DOMAIN f[DOMAIN s] :
               f[DOMAIN s][j] = s[i] \/ Search(c)!SamePlace(f[DOMAIN s][j], s[i])
    <2>1. KeptOf(c, I, "merged", s, f[DOMAIN s])
      <3> HIDE DEF I
      <3> QED
        BY <1>7, FoldKeeps
    <2> QED
      BY <2>1 DEF KeptOf
  <1>9. \A x, y : x = y \/ Search(c)!SamePlace(x, y) => Search(c)!SamePlace(y, x)
    BY DEF Search!SamePlace
  <1> DEFINE kept == f[DOMAIN s]
  <1> HIDE DEF kept
  <1>10. /\ {kept[j] : j \in DOMAIN kept} \subseteq {s[i] : i \in DOMAIN s}
         /\ \A x \in {s[i] : i \in DOMAIN s} :
              \E y \in {kept[j] : j \in DOMAIN kept} : Search(c)!SamePlace(x, y)
    BY <1>8, <1>9 DEF kept, Search!Range
  <1> QED
    BY <1>1, <1>10 DEF Search!Range, kept

\* What may be searched: there is a zone and a worker, PickMe's rows have every
\* salon and the order has everything.
CatalogNames(c) ==
  /\ \E n \in Nat : n > 0 /\ c.zones = 1..n
  /\ \E k \in Nat : k > 0 /\ c.workers = 1..k
  /\ c.pageSize \in Nat
  /\ c.rows \in Seq(Search(c)!Items) /\ c.salons \subseteq Search(c)!Range(c.rows)
  /\ c.order \in Seq(Search(c)!Items) /\ Search(c)!Items \subseteq Search(c)!Range(c.order)

LEMMA JoinedHasBoth ==
  ASSUME NEW c, NEW A, NEW s \in Seq(A), NEW t \in Seq(A)
  PROVE  Search(c)!Range(s \o t) = Search(c)!Range(s) \cup Search(c)!Range(t)
  <1>0. PICK u : u = s \o t
    OBVIOUS
  <1>1. /\ DOMAIN s = 1..Len(s) /\ DOMAIN t = 1..Len(t) /\ Len(s) \in Nat /\ Len(t) \in Nat
        /\ DOMAIN u = 1..(Len(s) + Len(t))
        /\ \A i \in 1..Len(s) : u[i] = s[i]
        /\ \A i \in 1..Len(t) : u[Len(s) + i] = t[i]
    BY <1>0
  <1>2. ASSUME NEW i \in 1..(Len(s) + Len(t))
        PROVE  u[i] \in {s[j] : j \in 1..Len(s)} \cup {t[j] : j \in 1..Len(t)}
    <2>1. CASE i <= Len(s)
      BY <1>1, <2>1
    <2>2. CASE i > Len(s)
      <3>1. i - Len(s) \in 1..Len(t) /\ Len(s) + (i - Len(s)) = i
        BY <1>1, <2>2
      <3> QED
        BY <1>1, <3>1
    <2> QED
      BY <1>1, <2>1, <2>2
  <1>3. ASSUME NEW i \in 1..Len(s) PROVE \E j \in 1..(Len(s) + Len(t)) : s[i] = u[j]
    BY <1>1
  <1>4. ASSUME NEW i \in 1..Len(t) PROVE \E j \in 1..(Len(s) + Len(t)) : t[i] = u[j]
    <2>1. Len(s) + i \in 1..(Len(s) + Len(t))
      BY <1>1
    <2> QED
      BY <1>1, <2>1
  <1>5. \A i \in 1..(Len(s) + Len(t)) : (\E j \in 1..Len(s) : u[i] = s[j]) \/ (\E j \in 1..Len(t) : u[i] = t[j])
    BY <1>2
  <1>6. {u[i] : i \in 1..(Len(s) + Len(t))}
         = {s[i] : i \in 1..Len(s)} \cup {t[i] : i \in 1..Len(t)}
    <2> DEFINE n == Len(s)  m == Len(t)  l == Len(s) + Len(t)
    <2>1. \A i \in 1..l : (\E j \in 1..n : u[i] = s[j]) \/ (\E j \in 1..m : u[i] = t[j])
      BY <1>5
    <2>2. (\A i \in 1..n : \E j \in 1..l : s[i] = u[j]) /\ (\A i \in 1..m : \E j \in 1..l : t[i] = u[j])
      BY <1>3, <1>4
    <2> HIDE DEF n, m, l
    <2>3. {u[i] : i \in 1..l} = {s[i] : i \in 1..n} \cup {t[i] : i \in 1..m}
      BY <2>1, <2>2
    <2> QED
      BY <2>3 DEF n, m, l
  <1> QED
    BY <1>0, <1>1, <1>6 DEF Search!Range

\* An answer is honest about what was found, outside, and PickMe's own.
Honest(c, own, found, items) ==
  LET near == found \cup own
  IN /\ Search(c)!Range(items) \subseteq near \cap c.wanted
     /\ \A x \in near \ c.outside : x \in c.wanted =>
          \E y \in near : Search(c)!SamePlace(x, y) /\ (y \in Search(c)!Range(items) \/ y \notin c.wanted)

LEMMA PreparedIsHonest ==
  ASSUME NEW c, CatalogNames(c), NEW own \in SUBSET c.salons,
         NEW found, found \subseteq Search(c)!Items
  PROVE  /\ Search(c)!Prepared(own, found) \in Seq(Search(c)!Items)
         /\ Honest(c, own, found, Search(c)!Prepared(own, found))
  <1> DEFINE A == Search(c)!Items
             mine == (own \ c.outside) \cup (own \cap c.demo)
             theirs == found \ c.outside
             a == Search(c)!Sorted(mine, c.rows)
             b == Search(c)!Sorted(theirs, c.order)
             near == a \o b
             merged == Search(c)!Merged(near)
             wanted == Search(c)!Range(merged) \cap c.wanted
             items == Search(c)!Sorted(wanted, c.order)
  <1>1. Search(c)!Prepared(own, found) = items
    BY DEF Search!Prepared, Search!InReach, Search!Filtered
  <1> HIDE DEF A
  <1>2. c.salons \subseteq A /\ c.rows \in Seq(A) /\ c.order \in Seq(A) /\ found \subseteq A
    BY DEF A, CatalogNames, Search!Items
  <1>3. a \in Seq(A) /\ Search(c)!Range(a) = mine \cap Search(c)!Range(c.rows)
    BY <1>2, SortedKeeps
  <1>4. b \in Seq(A) /\ Search(c)!Range(b) = theirs \cap Search(c)!Range(c.order)
    BY <1>2, SortedKeeps
  <1>5. mine \subseteq Search(c)!Range(c.rows) /\ theirs \subseteq Search(c)!Range(c.order)
    BY <1>2 DEF CatalogNames, A
  <1> HIDE DEF a, b
  <1>6. near \in Seq(A) /\ Search(c)!Range(near) = mine \cup theirs
    <2>1. Search(c)!Range(near) = Search(c)!Range(a) \cup Search(c)!Range(b)
      BY <1>3, <1>4, JoinedHasBoth
    <2>2. near \in Seq(A)
      BY <1>3, <1>4
    <2> HIDE DEF near, mine, theirs
    <2> QED
      BY <1>3, <1>4, <1>5, <2>1, <2>2
  <1> HIDE DEF near
  <1>7. /\ Search(c)!Range(merged) \subseteq Search(c)!Range(near)
        /\ \A x \in Search(c)!Range(near) : \E y \in Search(c)!Range(merged) : Search(c)!SamePlace(x, y)
    BY <1>6, MergedKeeps
  <1> HIDE DEF merged
  <1>8. items \in Seq(A) /\ Search(c)!Range(items) = wanted \cap Search(c)!Range(c.order)
    BY <1>2, SortedKeeps
  <1> HIDE DEF items
  <1>9. wanted \subseteq Search(c)!Range(c.order)
    <2>1. Search(c)!Range(merged) \subseteq A
      BY <1>2, <1>6, <1>7
    <2> QED
      BY <2>1 DEF CatalogNames, A
  <1>10. Search(c)!Range(items) = wanted
    BY <1>8, <1>9
  <1>11. Search(c)!Range(items) \subseteq (found \cup own) \cap c.wanted
    BY <1>6, <1>7, <1>10
  <1>12. ASSUME NEW x \in (found \cup own) \ c.outside, x \in c.wanted
         PROVE  \E y \in found \cup own :
                  Search(c)!SamePlace(x, y) /\ (y \in Search(c)!Range(items) \/ y \notin c.wanted)
    <2>1. PICK y \in Search(c)!Range(merged) : Search(c)!SamePlace(x, y)
      BY <1>6, <1>7
    <2>2. y \in found \cup own
      BY <1>6, <1>7
    <2> QED
      BY <1>10, <2>1, <2>2
  <1> QED
    BY <1>1, <1>8, <1>11, <1>12 DEF Honest, A

Busy(c, r, w) == r.worker[w] # Search(c)!Idle

\* A search: the zones before the next are those done with and those that a
\* worker is at, each zone once, and a worker rests when none is left.
Searching(c, r) ==
  /\ r = [state |-> "searching", own |-> r.own, done |-> r.done, failed |-> r.failed,
          next |-> r.next, worker |-> r.worker]
  /\ r.own \subseteq c.salons
  /\ DOMAIN r.worker = c.workers
  /\ r.next \in Nat /\ r.next > 0
  /\ r.done \subseteq c.zones /\ r.failed \subseteq c.zones /\ r.done \cap r.failed = {}
  /\ \A w \in c.workers : Busy(c, r, w) =>
       /\ \E z \in c.zones : \E a : r.worker[w] = [zone |-> z, attempt |-> a]
       /\ r.worker[w].zone < r.next
       /\ r.worker[w].zone \notin r.done \cup r.failed
  /\ \A w, x \in c.workers :
       Busy(c, r, w) /\ Busy(c, r, x) /\ r.worker[w].zone = r.worker[x].zone => w = x
  /\ \A z \in c.zones :
       z < r.next => z \in r.done \cup r.failed \/ \E w \in c.workers : Busy(c, r, w) /\ r.worker[w].zone = z
  /\ \A z \in r.done \cup r.failed : z < r.next
  /\ \A w \in c.workers : ~Busy(c, r, w) => r.next \notin c.zones

SearchesKnown(c) ==
  /\ listed \subseteq c.salons
  /\ DOMAIN search = c.visitors
  /\ \A v \in c.visitors : search[v] # Search(c)!Idle => Searching(c, search[v])

\* The entry is the last that was made, honest and a sequence.
EntryKnown(c) ==
  /\ entries \in Nat
  /\ fresh => entry # Search(c)!NoEntry
  /\ entry = Search(c)!NoEntry => entries = 0
  /\ entry # Search(c)!NoEntry =>
       /\ entry.number = entries /\ entries > 0
       /\ entry.items \in Seq(Search(c)!Items)
  /\ Search(c)!EntryHonest

\* A walk has seen the pages up to its offset, as long as they are of one entry.
Walked(w) ==
  /\ w = [offset |-> w.offset, seen |-> w.seen, number |-> w.number, more |-> w.more]
  /\ w.offset \in Nat /\ w.number \in Int /\ w.number <= entries
  /\ w.offset = 0 => w.seen = {}
  /\ w.number = 0 => w.more
  /\ w.number = entries /\ entries > 0 =>
       /\ w.offset <= Len(entry.items)
       /\ w.seen = {entry.items[i] : i \in 1..w.offset}
       /\ ~w.more => w.offset = Len(entry.items)

WalksKnown(c) == DOMAIN walk = c.visitors /\ \A v \in c.visitors : Walked(walk[v])

CatalogInv(c) == SearchesKnown(c) /\ EntryKnown(c) /\ WalksKnown(c)

LEMMA CatalogStarts ==
  ASSUME NEW c, CatalogNames(c), Search(c)!Init
  PROVE  CatalogInv(c)
  <1>1. SearchesKnown(c)
    BY DEF Search!Init, SearchesKnown
  <1>2. EntryKnown(c)
    BY DEF Search!Init, EntryKnown, Search!EntryHonest
  <1>3. WalksKnown(c)
    <2>1. entries = 0 => Walked(Search(c)!Start)
      BY DEF Walked, Search!Start
    <2> QED
      BY <2>1 DEF Search!Init, WalksKnown
  <1> QED
    BY <1>1, <1>2, <1>3 DEF CatalogInv

LEMMA CatalogCovers ==
  ASSUME NEW c, CatalogInv(c)
  PROVE  Search(c)!CatalogueHonest
  <1>1. Search(c)!PagesCover
    <2> SUFFICES ASSUME NEW v \in c.visitors, ~walk[v].more, walk[v].number = entry.number
                 PROVE  walk[v].seen = Search(c)!Range(entry.items)
      BY DEF Search!PagesCover
    <2>1. Walked(walk[v])
      BY DEF CatalogInv, WalksKnown
    <2>2. entry # Search(c)!NoEntry
      BY <2>1 DEF Walked, Search!NoEntry
    <2>3. entry.number = entries /\ entries > 0 /\ entry.items \in Seq(Search(c)!Items)
      BY <2>2 DEF CatalogInv, EntryKnown
    <2>4. walk[v].seen = {entry.items[i] : i \in 1..Len(entry.items)}
      BY <2>1, <2>3 DEF Walked
    <2> QED
      BY <2>3, <2>4 DEF Search!Range
  <1> QED
    BY <1>1 DEF CatalogInv, EntryKnown, Search!CatalogueHonest

\* Pages.
LEMMA TurnKeeps ==
  ASSUME NEW c, CatalogNames(c), NEW v \in c.visitors, DOMAIN walk = c.visitors, Walked(walk[v]),
         NEW e, e.items \in Seq(Search(c)!Items), e.number \in Nat, e.number > 0,
         entries \in Nat, e.number = entries \/ (e.number = entries + 1),
         e.number = entries => e = entry,
         Search(c)!Turn(v, e), entry' = e, entries' = e.number
  PROVE  Walked(walk[v])'
  <1> DEFINE from == walk[v].offset
             all == Len(e.items)
             to == IF from + c.pageSize < all THEN from + c.pageSize ELSE all
             page == {e.items[i] : i \in from + 1 .. to}
             count == IF to > from THEN to - from ELSE 0
  <1>1. walk'[v] = [offset |-> from + count,
                    seen |-> walk[v].seen \cup page,
                    number |-> IF from = 0 \/ walk[v].number = e.number THEN e.number ELSE -1,
                    more |-> from + count < all]
    BY DEF Search!Turn, Search!HasMore
  <1>2. from \in Nat /\ all \in Nat /\ c.pageSize \in Nat
    BY DEF Walked, CatalogNames
  <1>3. /\ to \in Nat /\ count \in Nat /\ to <= all
        /\ to > from => from + count = to
        /\ to <= from => count = 0 /\ page = {}
    <2>1. to \in Nat /\ to <= all
      BY <1>2
    <2> HIDE DEF to
    <2> QED
      BY <1>2, <2>1
  <1>4. PICK w : w = walk'[v]
    OBVIOUS
  <1>5. /\ w.offset = from + count /\ w.seen = walk[v].seen \cup page
        /\ w.number = IF from = 0 \/ walk[v].number = e.number THEN e.number ELSE -1
        /\ w.more = (from + count < all)
        /\ w = [offset |-> w.offset, seen |-> w.seen, number |-> w.number, more |-> w.more]
    BY <1>1, <1>4
  <1>6. ASSUME w.number = e.number
        PROVE  /\ w.offset <= all
               /\ w.seen = {e.items[i] : i \in 1..w.offset}
               /\ ~w.more => w.offset = all
    <2>1. from = 0 \/ walk[v].number = e.number
      BY <1>5, <1>6
    <2>2. from <= all /\ walk[v].seen = {e.items[i] : i \in 1..from}
      <3>1. CASE from = 0
        <4>1. walk[v].seen = {} /\ 1..0 = {}
          BY <3>1 DEF Walked
        <4> QED
          BY <1>2, <3>1, <4>1
      <3>2. CASE from # 0
        <4>1. walk[v].number = entries /\ e = entry /\ entries > 0
          BY <2>1, <3>2 DEF Walked
        <4> QED
          BY <4>1 DEF Walked
      <3> QED
        BY <3>1, <3>2
    <2>3. w.offset = to /\ to >= from
      BY <1>2, <1>3, <1>5, <2>2
    <2>4. {e.items[i] : i \in 1..from} \cup page = {e.items[i] : i \in 1..to}
      <3>1. \A i : i \in 1..to <=> i \in 1..from \/ i \in from + 1..to
        BY <1>2, <1>3, <2>3
      <3> QED
        BY <3>1
    <2> QED
      BY <1>2, <1>3, <1>5, <2>2, <2>3, <2>4
  <1>7. w.offset \in Nat /\ w.number \in Int /\ w.number <= e.number
    BY <1>2, <1>3, <1>5
  <1>8. w.offset = 0 => w.seen = {}
    BY <1>2, <1>3, <1>5 DEF Walked
  <1>9. w.number # 0
    BY <1>5
  <1>10. /\ w = [offset |-> w.offset, seen |-> w.seen, number |-> w.number, more |-> w.more]
         /\ w.offset \in Nat /\ w.number \in Int /\ w.number <= entries'
         /\ w.offset = 0 => w.seen = {}
         /\ w.number = 0 => w.more
         /\ w.number = entries' /\ entries' > 0 =>
              /\ w.offset <= Len(entry'.items)
              /\ w.seen = {entry'.items[i] : i \in 1..w.offset}
              /\ ~w.more => w.offset = Len(entry'.items)
    <2>1. /\ w = [offset |-> w.offset, seen |-> w.seen, number |-> w.number, more |-> w.more]
          /\ w.offset \in Nat /\ w.number \in Int /\ w.number <= entries'
          /\ w.offset = 0 => w.seen = {}
          /\ w.number = 0 => w.more
      BY <1>5, <1>7, <1>8, <1>9
    <2>2. w.number = entries' => w.offset <= Len(entry'.items) /\ w.seen = {entry'.items[i] : i \in 1..w.offset}
                                 /\ (~w.more => w.offset = Len(entry'.items))
      <3> HIDE DEF from, to, page, count
      <3> QED
        BY <1>6
    <2> QED
      BY <2>1, <2>2
  <1> QED
    BY <1>4, <1>10 DEF Walked

\* Searches.
LEMMA TurnedIsBusy ==
  ASSUME NEW c, NEW z
  PROVE  /\ z \in c.zones => /\ Search(c)!Turned(z) = [zone |-> z, attempt |-> 1]
                               /\ Search(c)!Turned(z) # Search(c)!Idle
         /\ z \notin c.zones => Search(c)!Turned(z) = Search(c)!Idle
  <1>1. \A a : [zone |-> z, attempt |-> a] # [state |-> "idle"]
    <2> SUFFICES ASSUME NEW a, [zone |-> z, attempt |-> a] = [state |-> "idle"] PROVE FALSE
      OBVIOUS
    <2>1. DOMAIN [zone |-> z, attempt |-> a] = {"zone", "attempt"} /\ DOMAIN [state |-> "idle"] = {"state"}
      OBVIOUS
    <2> QED
      BY <2>1
  <1> QED
    BY <1>1 DEF Search!Turned, Search!Idle

LEMMA TookIsSearching ==
  ASSUME NEW c, CatalogNames(c), NEW r, Searching(c, r), NEW w \in c.workers, Busy(c, r, w),
         NEW d, NEW f, NEW q,
         \/ d = r.done \cup {r.worker[w].zone} /\ f = r.failed
         \/ d = r.done /\ f = r.failed \cup {r.worker[w].zone},
         q = [state |-> "searching", own |-> r.own, done |-> d, failed |-> f,
              next |-> IF r.next \in c.zones THEN r.next + 1 ELSE r.next,
              worker |-> [r.worker EXCEPT ![w] = Search(c)!Turned(r.next)]]
  PROVE  Searching(c, q)
  <1> DEFINE z == r.worker[w].zone
  <1>1. PICK m : m = r.next
    OBVIOUS
  <1>2. PICK n : n = IF m \in c.zones THEN m + 1 ELSE m
    OBVIOUS
  <1>3. /\ q.own = r.own /\ q.done = d /\ q.failed = f /\ q.next = n
        /\ q.worker = [r.worker EXCEPT ![w] = Search(c)!Turned(m)]
        /\ q = [state |-> "searching", own |-> q.own, done |-> q.done, failed |-> q.failed,
                next |-> q.next, worker |-> q.worker]
    BY <1>1, <1>2
  <1>4. /\ m \in Nat /\ m > 0 /\ n \in Nat /\ n >= m
        /\ \A y \in c.zones : y \in Nat /\ (y < n <=> y < m \/ y = m)
    BY <1>1, <1>2 DEF CatalogNames, Searching
  <1>5. z \in c.zones /\ z < m /\ z \notin r.done \cup r.failed
    <2>1. PICK y \in c.zones : \E a : r.worker[w] = [zone |-> y, attempt |-> a]
      BY DEF Searching
    <2>2. z \in c.zones
      BY <2>1
    <2>3. z < r.next /\ z \notin r.done \cup r.failed
      BY DEF Searching
    <2> QED
      BY <1>1, <2>2, <2>3
  <1>6. /\ DOMAIN q.worker = c.workers
        /\ q.worker[w] = Search(c)!Turned(m)
        /\ \A x \in c.workers : x # w => q.worker[x] = r.worker[x] /\ (Busy(c, q, x) <=> Busy(c, r, x))
    BY <1>3 DEF Searching, Busy
  <1>7. /\ Busy(c, q, w) <=> m \in c.zones
        /\ m \in c.zones => q.worker[w] = [zone |-> m, attempt |-> 1] /\ q.worker[w].zone = m
    BY <1>6, TurnedIsBusy DEF Busy
  <1>8. \A x \in c.workers : x # w /\ Busy(c, r, x) =>
          /\ r.worker[x].zone # z /\ r.worker[x].zone < m
          /\ r.worker[x].zone \notin r.done \cup r.failed
          /\ \E y \in c.zones : \E a : r.worker[x] = [zone |-> y, attempt |-> a]
    <2> SUFFICES ASSUME NEW x \in c.workers, x # w, Busy(c, r, x)
                 PROVE  /\ r.worker[x].zone # z /\ r.worker[x].zone < m
                        /\ r.worker[x].zone \notin r.done \cup r.failed
                        /\ \E y \in c.zones : \E a : r.worker[x] = [zone |-> y, attempt |-> a]
      OBVIOUS
    <2>1. \E y \in c.zones : \E a : r.worker[x] = [zone |-> y, attempt |-> a]
      BY DEF Searching
    <2>2. r.worker[x].zone < m /\ r.worker[x].zone \notin r.done \cup r.failed
      BY <1>1 DEF Searching
    <2>3. r.worker[x].zone # z
      BY DEF Searching
    <2> QED
      BY <2>1, <2>2, <2>3
  <1>9. \A x \in c.workers : Busy(c, q, x) =>
          /\ \E y \in c.zones : \E a : q.worker[x] = [zone |-> y, attempt |-> a]
          /\ q.worker[x].zone < n
          /\ q.worker[x].zone \notin d \cup f
    <2> SUFFICES ASSUME NEW x \in c.workers, Busy(c, q, x)
                 PROVE  /\ \E y \in c.zones : \E a : q.worker[x] = [zone |-> y, attempt |-> a]
                        /\ q.worker[x].zone < n
                        /\ q.worker[x].zone \notin d \cup f
      OBVIOUS
    <2>1. CASE x = w
      <3>1. m \in c.zones /\ q.worker[x] = [zone |-> m, attempt |-> 1] /\ q.worker[x].zone = m
        BY <1>7, <2>1
      <3>2. m \notin r.done \cup r.failed
        BY <1>1, <1>4 DEF Searching
      <3>3. m < n /\ m # z
        BY <1>2, <1>4, <1>5, <3>1
      <3> QED
        BY <3>1, <3>2, <3>3
    <2>2. CASE x # w
      <3>1. q.worker[x] = r.worker[x] /\ Busy(c, r, x)
        BY <1>6, <2>2
      <3>2. \E y \in c.zones : \E a : r.worker[x] = [zone |-> y, attempt |-> a]
        BY <1>8, <2>2, <3>1
      <3>3. r.worker[x].zone \in c.zones
        BY <3>2
      <3>4. r.worker[x].zone < n
        BY <1>4, <1>8, <2>2, <3>1, <3>3
      <3> QED
        BY <1>8, <2>2, <3>1, <3>2, <3>4
    <2> QED
      BY <2>1, <2>2
  <1>10. \A x, y \in c.workers :
           Busy(c, q, x) /\ Busy(c, q, y) /\ q.worker[x].zone = q.worker[y].zone => x = y
    <2>1. \A x \in c.workers : x # w /\ Busy(c, q, x) =>
            Busy(c, r, x) /\ q.worker[x] = r.worker[x] /\ q.worker[x].zone # m
      <3>1. \A x \in c.workers : x # w /\ Busy(c, r, x) => r.worker[x].zone # m
        <4> SUFFICES ASSUME NEW x \in c.workers, x # w, Busy(c, r, x) PROVE r.worker[x].zone # m
          OBVIOUS
        <4>1. r.worker[x].zone < m
          BY <1>8
        <4> QED
          BY <1>4, <4>1
      <3> QED
        BY <1>6, <3>1
    <2>2. Busy(c, q, w) => q.worker[w].zone = m
      BY <1>7
    <2>3. \A x, y \in c.workers :
            Busy(c, r, x) /\ Busy(c, r, y) /\ r.worker[x].zone = r.worker[y].zone => x = y
      BY DEF Searching
    <2> QED
      BY <2>1, <2>2, <2>3
  <1>11. \A y \in c.zones :
           y < n => y \in d \cup f \/ \E x \in c.workers : Busy(c, q, x) /\ q.worker[x].zone = y
    <2> SUFFICES ASSUME NEW y \in c.zones, y < n, y \notin d \cup f
                 PROVE  \E x \in c.workers : Busy(c, q, x) /\ q.worker[x].zone = y
      OBVIOUS
    <2>1. CASE y = m
      BY <1>7, <2>1
    <2>2. CASE y # m
      <3>1. y < m /\ y # z /\ y \notin r.done \cup r.failed
        BY <1>4, <2>2
      <3>2. PICK x \in c.workers : Busy(c, r, x) /\ r.worker[x].zone = y
        BY <1>1, <3>1 DEF Searching
      <3>3. x # w
        BY <3>1, <3>2
      <3> QED
        BY <1>6, <3>2, <3>3
    <2> QED
      BY <2>1, <2>2
  <1>12. \A y \in d \cup f : y < n
    <2>1. \A y \in d \cup f : y \in c.zones /\ y < m
      BY <1>1, <1>5 DEF Searching
    <2> QED
      BY <1>4, <2>1
  <1>13. \A x \in c.workers : ~Busy(c, q, x) => n \notin c.zones
    <2>1. (\E x \in c.workers : ~Busy(c, q, x)) => m \notin c.zones
      BY <1>1, <1>6, <1>7 DEF Searching
    <2> QED
      BY <1>2, <2>1
  <1>14. r.own \subseteq c.salons /\ d \subseteq c.zones /\ f \subseteq c.zones /\ d \cap f = {}
    BY <1>5 DEF Searching
  <1>15. n > 0
    BY <1>4
  <1> HIDE DEF z
  <1> QED
    BY <1>3, <1>4, <1>6, <1>9, <1>10, <1>11, <1>12, <1>13, <1>14, <1>15 DEF Searching

LEMMA SameCount ==
  ASSUME NEW c, NEW S
  PROVE  Search(c)!Cardinality(S) = Cardinality(S)
  BY DEF Search!Cardinality, Cardinality

\* Workers set out with the first zones.
LEMMA SetOutIsSearching ==
  ASSUME NEW c, CatalogNames(c), NEW own \in SUBSET c.salons, NEW q,
         q = [state |-> "searching", own |-> own, done |-> {}, failed |-> {},
              next |-> Search(c)!Cardinality(c.workers) + 1,
              worker |-> [w \in c.workers |-> Search(c)!Turned(w)]]
  PROVE  Searching(c, q)
  <1>1. PICK n \in Nat : n > 0 /\ c.zones = 1..n
    BY DEF CatalogNames
  <1>2. PICK k \in Nat : k > 0 /\ c.workers = 1..k
    BY DEF CatalogNames
  <1>3. Search(c)!Cardinality(c.workers) = k
    <2>1. Cardinality(1..k) = k
      BY FS_Interval
    <2> QED
      BY <1>2, <2>1, SameCount
  <1>4. /\ q = [state |-> "searching", own |-> q.own, done |-> q.done, failed |-> q.failed,
                next |-> q.next, worker |-> q.worker]
        /\ q.own = own /\ q.done = {} /\ q.failed = {} /\ q.next = k + 1 /\ DOMAIN q.worker = c.workers
        /\ \A w \in c.workers : q.worker[w] = Search(c)!Turned(w)
    BY <1>3
  <1>5. \A w \in c.workers :
          /\ Busy(c, q, w) <=> w \in c.zones
          /\ w \in c.zones => q.worker[w] = [zone |-> w, attempt |-> 1] /\ q.worker[w].zone = w
    BY <1>4, TurnedIsBusy DEF Busy
  <1>6. \A w \in c.workers : Busy(c, q, w) =>
          /\ \E z \in c.zones : \E a : q.worker[w] = [zone |-> z, attempt |-> a]
          /\ q.worker[w].zone < k + 1
    BY <1>2, <1>5
  <1>7. \A z \in c.zones : z < k + 1 => \E w \in c.workers : Busy(c, q, w) /\ q.worker[w].zone = z
    <2> SUFFICES ASSUME NEW z \in c.zones, z < k + 1
                 PROVE  \E w \in c.workers : Busy(c, q, w) /\ q.worker[w].zone = z
      OBVIOUS
    <2>1. z \in c.workers
      BY <1>1, <1>2
    <2> QED
      BY <1>5, <2>1
  <1>8. \A w \in c.workers : ~Busy(c, q, w) => k + 1 \notin c.zones
    BY <1>1, <1>2, <1>5
  <1>9. \A w, x \in c.workers :
          Busy(c, q, w) /\ Busy(c, q, x) /\ q.worker[w].zone = q.worker[x].zone => w = x
    <2> SUFFICES ASSUME NEW w \in c.workers, NEW x \in c.workers,
                        Busy(c, q, w), Busy(c, q, x), q.worker[w].zone = q.worker[x].zone
                 PROVE  w = x
      OBVIOUS
    <2>1. q.worker[w].zone = w /\ q.worker[x].zone = x
      BY <1>5
    <2> QED
      BY <2>1
  <1>10. q.next \in Nat /\ q.next > 0
    BY <1>2, <1>4
  <1>11. \A w \in c.workers : Busy(c, q, w) =>
           /\ \E z \in c.zones : \E a : q.worker[w] = [zone |-> z, attempt |-> a]
           /\ q.worker[w].zone < q.next
           /\ q.worker[w].zone \notin q.done \cup q.failed
    BY <1>4, <1>6
  <1>12. \A z \in c.zones : z < q.next =>
           z \in q.done \cup q.failed \/ \E w \in c.workers : Busy(c, q, w) /\ q.worker[w].zone = z
    BY <1>4, <1>7
  <1>13. /\ q.own \subseteq c.salons /\ q.done \subseteq c.zones /\ q.failed \subseteq c.zones
         /\ q.done \cap q.failed = {} /\ \A z \in q.done \cup q.failed : z < q.next
    BY <1>4
  <1>14. \A w \in c.workers : ~Busy(c, q, w) => q.next \notin c.zones
    BY <1>4, <1>8
  <1> QED
    BY <1>4, <1>9, <1>10, <1>11, <1>12, <1>13, <1>14 DEF Searching

\* When no worker is at a zone, each zone is done with.
LEMMA OverIsWhole ==
  ASSUME NEW c, CatalogNames(c), NEW r, Searching(c, r), \A w \in c.workers : ~Busy(c, r, w)
  PROVE  /\ r.done \cup r.failed = c.zones
         /\ ~Search(c)!Fails(r) => r.done # {}
  <1>1. PICK n \in Nat : n > 0 /\ c.zones = 1..n
    BY DEF CatalogNames
  <1>2. PICK w : w \in c.workers
    <2>1. PICK k \in Nat : k > 0 /\ c.workers = 1..k
      BY DEF CatalogNames
    <2>2. 1 \in 1..k
      BY <2>1
    <2> QED
      BY <2>1, <2>2
  <1>3. r.next \notin c.zones /\ r.next \in Nat /\ r.next > 0
    BY <1>2 DEF Searching
  <1>4. \A z \in c.zones : z < r.next
    BY <1>1, <1>3
  <1>5. c.zones \subseteq r.done \cup r.failed
    BY <1>4 DEF Searching
  <1>6. r.done \cup r.failed = c.zones
    BY <1>5 DEF Searching
  <1>7. ASSUME r.done = {} PROVE Search(c)!Fails(r)
    <2>1. 1 \in c.zones
      BY <1>1
    <2>2. r.failed # {}
      BY <1>6, <1>7, <2>1
    <2>3. Search(c)!Found({}) = {}
      BY DEF Search!Found
    <2> QED
      BY <1>7, <2>2, <2>3 DEF Search!Fails
  <1> QED
    BY <1>6, <1>7

\* Steps.
SearchesGoOn(c, v, q) ==
  /\ search' = [search EXCEPT ![v] = q]
  /\ UNCHANGED <<listed, entry, entries, fresh, walk>>

LEMMA GoneOnKeeps ==
  ASSUME NEW c, CatalogInv(c), NEW v \in c.visitors, NEW q,
         q # Search(c)!Idle => Searching(c, q),
         SearchesGoOn(c, v, q)
  PROVE  CatalogInv(c)'
  <1>1. SearchesKnown(c)'
    BY DEF CatalogInv, SearchesKnown, SearchesGoOn
  <1>2. EntryKnown(c)'
    BY DEF CatalogInv, EntryKnown, SearchesGoOn, Search!EntryHonest
  <1>3. WalksKnown(c)'
    BY DEF CatalogInv, WalksKnown, Walked, SearchesGoOn
  <1> QED
    BY <1>1, <1>2, <1>3 DEF CatalogInv

ASearch(o, d, f, n, g) == [state |-> "searching", own |-> o, done |-> d, failed |-> f, next |-> n, worker |-> g]

Took(r, d, f, n, g) == [r EXCEPT !.done = d, !.failed = f, !.next = n, !.worker = g]

LEMMA TookIsASearch ==
  ASSUME NEW o, NEW d0, NEW f0, NEW n0, NEW g0, NEW d, NEW f, NEW n, NEW g
  PROVE  Took(ASearch(o, d0, f0, n0, g0), d, f, n, g) = ASearch(o, d, f, n, g)
  <1> PICK s : s = "searching"
    OBVIOUS
  <1>0. PICK r : r = [state |-> s, own |-> o, done |-> d0, failed |-> f0, next |-> n0, worker |-> g0]
    OBVIOUS
  <1>1. PICK t : t = [r EXCEPT !.done = d]
    OBVIOUS
  <1>2. t = [state |-> s, own |-> o, done |-> d, failed |-> f0, next |-> n0, worker |-> g0]
    BY <1>0, <1>1
  <1>3. PICK u : u = [t EXCEPT !.failed = f]
    OBVIOUS
  <1>4. u = [state |-> s, own |-> o, done |-> d, failed |-> f, next |-> n0, worker |-> g0]
    BY <1>2, <1>3
  <1>5. PICK w : w = [u EXCEPT !.next = n]
    OBVIOUS
  <1>6. w = [state |-> s, own |-> o, done |-> d, failed |-> f, next |-> n, worker |-> g0]
    BY <1>4, <1>5
  <1>7. [w EXCEPT !.worker = g] = [state |-> s, own |-> o, done |-> d, failed |-> f, next |-> n, worker |-> g]
    BY <1>6
  <1>8. [r EXCEPT !.done = d, !.failed = f, !.next = n, !.worker = g] = [w EXCEPT !.worker = g]
    BY <1>1, <1>3, <1>5
  <1> QED
    BY <1>0, <1>7, <1>8 DEF Took, ASearch

LEMMA WorkKeeps ==
  ASSUME NEW c, CatalogNames(c), CatalogInv(c), NEW v \in c.visitors, NEW w \in c.workers,
         Search(c)!Work(v, w)
  PROVE  CatalogInv(c)'
  <1>1. PICK r : r = search[v]
    OBVIOUS
  <1>2. r.state = "searching" /\ Busy(c, r, w)
    BY <1>1 DEF Search!Work, Search!Fetched, Search!Again, Search!GivenUp, Search!Busy, Busy
  <1>3. r # Search(c)!Idle
    BY <1>2 DEF Search!Idle
  <1>4. Searching(c, r)
    BY <1>1, <1>3 DEF CatalogInv, SearchesKnown
  <1>5. PICK o, d0, f0, n0, g0 :
          r = ASearch(o, d0, f0, n0, g0)
    BY <1>4 DEF Searching, ASearch
  <1>6. ASSUME NEW d, NEW f, NEW q,
               \/ d = r.done \cup {r.worker[w].zone} /\ f = r.failed
               \/ d = r.done /\ f = r.failed \cup {r.worker[w].zone},
               q = [state |-> "searching", own |-> r.own, done |-> d, failed |-> f,
                    next |-> IF r.next \in c.zones THEN r.next + 1 ELSE r.next,
                    worker |-> [r.worker EXCEPT ![w] = Search(c)!Turned(r.next)]],
               SearchesGoOn(c, v, q)
        PROVE  CatalogInv(c)'
    <2>1. Searching(c, q)
      BY <1>2, <1>4, <1>6, TookIsSearching
    <2> QED
      BY <1>6, <2>1, GoneOnKeeps
  <1>7. CASE Search(c)!Fetched(v, w)
    <2> DEFINE z == r.worker[w].zone
               q == [state |-> "searching", own |-> r.own, done |-> r.done \cup {z}, failed |-> r.failed,
                     next |-> IF r.next \in c.zones THEN r.next + 1 ELSE r.next,
                     worker |-> [r.worker EXCEPT ![w] = Search(c)!Turned(r.next)]]
               t == [r EXCEPT !.done = r.done \cup {z},
                              !.failed = r.failed,
                              !.next = IF r.next \in c.zones THEN r.next + 1 ELSE r.next,
                              !.worker = [r.worker EXCEPT ![w] = Search(c)!Turned(r.next)]]
    <2>1. t = q
      <3>1. PICK d, f, n, g : /\ d = r.done \cup {z} /\ f = r.failed
                              /\ n = IF r.next \in c.zones THEN r.next + 1 ELSE r.next
                              /\ g = [r.worker EXCEPT ![w] = Search(c)!Turned(r.next)]
        OBVIOUS
      <3>2. Took(r, d, f, n, g) = ASearch(o, d, f, n, g)
        BY <1>5, TookIsASearch
      <3>3. o = r.own
        BY <1>5 DEF ASearch
      <3>4. t = Took(r, d, f, n, g)
        BY <3>1 DEF Took
      <3>5. q = ASearch(o, d, f, n, g)
        BY <3>1, <3>3 DEF ASearch
      <3> QED
        BY <3>2, <3>4, <3>5
    <2>2. SearchesGoOn(c, v, t)
      BY <1>1, <1>7 DEF Search!Fetched, Search!Take, SearchesGoOn
    <2> HIDE DEF t
    <2>3. SearchesGoOn(c, v, q)
      BY <2>1, <2>2
    <2> QED
      BY <1>6, <2>3
  <1>8. CASE Search(c)!GivenUp(v, w)
    <2> DEFINE z == r.worker[w].zone
               q == [state |-> "searching", own |-> r.own, done |-> r.done, failed |-> r.failed \cup {z},
                     next |-> IF r.next \in c.zones THEN r.next + 1 ELSE r.next,
                     worker |-> [r.worker EXCEPT ![w] = Search(c)!Turned(r.next)]]
               t == [r EXCEPT !.done = r.done,
                              !.failed = r.failed \cup {z},
                              !.next = IF r.next \in c.zones THEN r.next + 1 ELSE r.next,
                              !.worker = [r.worker EXCEPT ![w] = Search(c)!Turned(r.next)]]
    <2>1. t = q
      <3>1. PICK d, f, n, g : /\ d = r.done /\ f = r.failed \cup {z}
                              /\ n = IF r.next \in c.zones THEN r.next + 1 ELSE r.next
                              /\ g = [r.worker EXCEPT ![w] = Search(c)!Turned(r.next)]
        OBVIOUS
      <3>2. Took(r, d, f, n, g) = ASearch(o, d, f, n, g)
        BY <1>5, TookIsASearch
      <3>3. o = r.own
        BY <1>5 DEF ASearch
      <3>4. t = Took(r, d, f, n, g)
        BY <3>1 DEF Took
      <3>5. q = ASearch(o, d, f, n, g)
        BY <3>1, <3>3 DEF ASearch
      <3> QED
        BY <3>2, <3>4, <3>5
    <2>2. SearchesGoOn(c, v, t)
      BY <1>1, <1>8 DEF Search!GivenUp, Search!Take, SearchesGoOn
    <2> HIDE DEF t
    <2>3. SearchesGoOn(c, v, q)
      BY <2>1, <2>2
    <2> QED
      BY <1>6, <2>3
  <1>9. CASE Search(c)!Again(v, w)
    <2>0. PICK z \in c.zones : \E a : r.worker[w] = [zone |-> z, attempt |-> a]
      BY <1>2, <1>4 DEF Searching
    <2>1. PICK a : r.worker[w] = [zone |-> z, attempt |-> a]
      BY <2>0
    <2> DEFINE b == [zone |-> z, attempt |-> a + 1]
               q == [state |-> "searching", own |-> r.own, done |-> r.done, failed |-> r.failed,
                     next |-> r.next, worker |-> [r.worker EXCEPT ![w] = b]]
               t == [r EXCEPT !.worker =
                       [r.worker EXCEPT ![w] = [r.worker[w] EXCEPT !.attempt = r.worker[w].attempt + 1]]]
    <2>2. [r.worker[w] EXCEPT !.attempt = r.worker[w].attempt + 1] = b
      BY <2>1
    <2>3. t = q
      <3>1. PICK g : g = [r.worker EXCEPT ![w] = b]
        OBVIOUS
      <3>2. [r EXCEPT !.worker = g] = ASearch(o, d0, f0, n0, g)
        BY <1>5 DEF ASearch
      <3>3. o = r.own /\ d0 = r.done /\ f0 = r.failed /\ n0 = r.next
        BY <1>5 DEF ASearch
      <3> QED
        BY <2>2, <3>1, <3>2, <3>3 DEF ASearch
    <2>4. SearchesGoOn(c, v, t)
      BY <1>1, <1>9 DEF Search!Again, SearchesGoOn
    <2>5. b # Search(c)!Idle /\ b.zone = z /\ r.worker[w].zone = z
      <3>1. DOMAIN b = {"zone", "attempt"} /\ DOMAIN [state |-> "idle"] = {"state"}
        OBVIOUS
      <3> QED
        BY <2>1, <3>1 DEF Search!Idle
    <2>6. /\ q = [state |-> "searching", own |-> q.own, done |-> q.done, failed |-> q.failed,
                  next |-> q.next, worker |-> q.worker]
          /\ q.own = r.own /\ q.done = r.done /\ q.failed = r.failed /\ q.next = r.next
          /\ DOMAIN q.worker = c.workers /\ q.worker[w] = b
          /\ \A x \in c.workers : x # w => q.worker[x] = r.worker[x]
      BY <1>4 DEF Searching
    <2> HIDE DEF t, q
    <2>7. \A x \in c.workers : /\ Busy(c, q, x) <=> Busy(c, r, x)
                               /\ Busy(c, r, x) => q.worker[x].zone = r.worker[x].zone
      BY <1>2, <2>5, <2>6 DEF Busy
    <2>8. \A x \in c.workers :
            Busy(c, q, x) => \E y \in c.zones : \E e : q.worker[x] = [zone |-> y, attempt |-> e]
      <3> SUFFICES ASSUME NEW x \in c.workers, Busy(c, q, x)
                   PROVE  \E y \in c.zones : \E e : q.worker[x] = [zone |-> y, attempt |-> e]
        OBVIOUS
      <3>1. CASE x = w
        BY <2>1, <2>6, <3>1
      <3>2. CASE x # w
        <4>1. q.worker[x] = r.worker[x] /\ Busy(c, r, x)
          BY <2>6, <2>7, <3>2
        <4> QED
          BY <1>4, <4>1 DEF Searching
      <3> QED
        BY <3>1, <3>2
    <2>9. Searching(c, q)
      <3> HIDE DEF b
      <3>1. \A x \in c.workers : Busy(c, q, x) =>
              q.worker[x].zone < q.next /\ q.worker[x].zone \notin q.done \cup q.failed
        BY <1>4, <2>6, <2>7 DEF Searching
      <3>2. \A x, y \in c.workers :
              Busy(c, q, x) /\ Busy(c, q, y) /\ q.worker[x].zone = q.worker[y].zone => x = y
        BY <1>4, <2>7 DEF Searching
      <3>3. \A y \in c.zones : y < q.next =>
              y \in q.done \cup q.failed \/ \E x \in c.workers : Busy(c, q, x) /\ q.worker[x].zone = y
        BY <1>4, <2>6, <2>7 DEF Searching
      <3>4. \A x \in c.workers : ~Busy(c, q, x) => q.next \notin c.zones
        BY <1>4, <2>6, <2>7 DEF Searching
      <3>5. /\ q.own \subseteq c.salons /\ q.done \subseteq c.zones /\ q.failed \subseteq c.zones
            /\ q.done \cap q.failed = {} /\ \A z1 \in q.done \cup q.failed : z1 < q.next
            /\ q.next \in Nat /\ q.next > 0
        BY <1>4, <2>6 DEF Searching
      <3> QED
        BY <2>6, <2>8, <3>1, <3>2, <3>3, <3>4, <3>5 DEF Searching
    <2>10. SearchesGoOn(c, v, q)
      BY <2>3, <2>4
    <2> QED
      BY <2>9, <2>10, GoneOnKeeps
  <1> QED
    BY <1>7, <1>8, <1>9 DEF Search!Work

LEMMA MissKeeps ==
  ASSUME NEW c, CatalogNames(c), CatalogInv(c), NEW v \in c.visitors, Search(c)!Miss(v)
  PROVE  CatalogInv(c)'
  <1> DEFINE q == [state |-> "searching", own |-> listed, done |-> {}, failed |-> {},
                   next |-> Search(c)!Cardinality(c.workers) + 1,
                   worker |-> [w \in c.workers |-> Search(c)!Turned(w)]]
  <1>1. SearchesGoOn(c, v, q)
    BY DEF Search!Miss, SearchesGoOn
  <1>2. listed \in SUBSET c.salons
    BY DEF CatalogInv, SearchesKnown
  <1>3. Searching(c, q)
    BY <1>2, SetOutIsSearching
  <1> HIDE DEF q
  <1> QED
    BY <1>1, <1>3, GoneOnKeeps

LEMMA UnavailableKeeps ==
  ASSUME NEW c, CatalogInv(c), NEW v \in c.visitors, Search(c)!Unavailable(v)
  PROVE  CatalogInv(c)'
  <1>1. SearchesGoOn(c, v, Search(c)!Idle)
    BY DEF Search!Unavailable, SearchesGoOn
  <1> QED
    BY <1>1, GoneOnKeeps

\* A turn leaves what other visitors have seen as it is.
LEMMA WalksAfterTurn ==
  ASSUME NEW c, CatalogNames(c), CatalogInv(c), NEW v \in c.visitors,
         NEW e, e.items \in Seq(Search(c)!Items), e.number \in Nat, e.number > 0,
         \/ e = entry /\ e.number = entries
         \/ e.number = entries + 1,
         Search(c)!Turn(v, e), entry' = e, entries' = e.number
  PROVE  WalksKnown(c)'
  <1>1. DOMAIN walk' = c.visitors /\ \A u \in c.visitors : u # v => walk'[u] = walk[u]
    BY DEF CatalogInv, WalksKnown, Search!Turn
  <1>2. entries \in Nat
    BY DEF CatalogInv, EntryKnown
  <1>3. Walked(walk[v])'
    BY <1>2, TurnKeeps DEF CatalogInv, WalksKnown
  <1>4. ASSUME NEW u \in c.visitors, u # v PROVE Walked(walk[u])'
    <2>1. Walked(walk[u]) /\ walk'[u] = walk[u]
      BY <1>1, <1>4 DEF CatalogInv, WalksKnown
    <2>2. CASE e = entry /\ e.number = entries
      BY <2>1, <2>2 DEF Walked
    <2>3. CASE e.number = entries + 1
      <3>1. walk[u].number <= entries /\ walk[u].number \in Int
        BY <2>1 DEF Walked
      <3>2. walk[u].number <= entries' /\ walk[u].number # entries'
        BY <1>2, <2>3, <3>1
      <3> QED
        BY <2>1, <3>2 DEF Walked
    <2> QED
      BY <2>2, <2>3
  <1> QED
    BY <1>1, <1>3, <1>4 DEF WalksKnown

LEMMA HitKeeps ==
  ASSUME NEW c, CatalogNames(c), CatalogInv(c), NEW v \in c.visitors, Search(c)!Hit(v)
  PROVE  CatalogInv(c)'
  <1>1. Search(c)!Turn(v, entry) /\ UNCHANGED <<listed, entry, entries, fresh, search>> /\ fresh
    BY DEF Search!Hit
  <1>2. entry.number = entries /\ entries \in Nat /\ entries > 0 /\ entry.items \in Seq(Search(c)!Items)
    BY <1>1 DEF CatalogInv, EntryKnown
  <1>3. WalksKnown(c)'
    BY <1>1, <1>2, WalksAfterTurn
  <1>4. SearchesKnown(c)' /\ EntryKnown(c)'
    BY <1>1 DEF CatalogInv, SearchesKnown, EntryKnown, Search!EntryHonest
  <1> QED
    BY <1>3, <1>4 DEF CatalogInv

LEMMA FinishKeeps ==
  ASSUME NEW c, CatalogNames(c), CatalogInv(c), NEW v \in c.visitors, Search(c)!Finish(v)
  PROVE  CatalogInv(c)'
  <1>1. PICK r : r = search[v]
    OBVIOUS
  <1>2. r.state = "searching" /\ \A w \in c.workers : ~Busy(c, r, w)
    BY <1>1 DEF Search!Finish, Search!Over, Busy
  <1>3. Searching(c, r)
    <2>1. r # Search(c)!Idle
      BY <1>2 DEF Search!Idle
    <2> QED
      BY <1>1, <2>1 DEF CatalogInv, SearchesKnown
  <1>4. /\ r.done \cup r.failed = c.zones /\ r.done \cap r.failed = {} /\ r.own \in SUBSET c.salons
        /\ r.done # {}
    BY <1>1, <1>2, <1>3, OverIsWhole DEF Search!Finish, Searching
  <1>5. PICK items : items = Search(c)!Prepared(r.own, Search(c)!Found(r.done))
    OBVIOUS
  <1>6. items \in Seq(Search(c)!Items) /\ Honest(c, r.own, Search(c)!Found(r.done), items)
    <2>1. Search(c)!Found(r.done) \subseteq Search(c)!Items
      BY <1>4 DEF Search!Found, Search!Items
    <2> QED
      BY <1>4, <1>5, <2>1, PreparedIsHonest
  <1>7. PICK e : e = [number |-> entries + 1, done |-> r.done, failed |-> r.failed, own |-> r.own,
                      items |-> items]
    OBVIOUS
  <1>8. /\ entry' = e /\ Search(c)!Turn(v, e) /\ entries' = entries + 1 /\ fresh'
        /\ search' = [search EXCEPT ![v] = Search(c)!Idle] /\ listed' = listed
    BY <1>1, <1>5, <1>7 DEF Search!Finish
  <1>9. entries \in Nat
    BY DEF CatalogInv, EntryKnown
  <1>10. /\ e.number = entries + 1 /\ e.done = r.done /\ e.failed = r.failed /\ e.own = r.own /\ e.items = items
    BY <1>7
  <1>11. WalksKnown(c)'
    BY <1>6, <1>8, <1>9, <1>10, WalksAfterTurn
  <1>12. SearchesKnown(c)'
    BY <1>8 DEF CatalogInv, SearchesKnown
  <1>13. EntryKnown(c)'
    <2>1. Search(c)!EntryHonest'
      BY <1>4, <1>6, <1>8, <1>10 DEF Search!EntryHonest, Honest
    <2>2. entry' # Search(c)!NoEntry
      <3>1. [number |-> 0].number = 0
        OBVIOUS
      <3> QED
        BY <1>8, <1>9, <1>10, <3>1 DEF Search!NoEntry
    <2> QED
      BY <1>6, <1>8, <1>9, <1>10, <2>1, <2>2 DEF EntryKnown
  <1> QED
    BY <1>11, <1>12, <1>13 DEF CatalogInv

LEMMA RestartKeeps ==
  ASSUME NEW c, CatalogInv(c), NEW v \in c.visitors, Search(c)!Restart(v)
  PROVE  CatalogInv(c)'
  <1>1. walk' = [walk EXCEPT ![v] = Search(c)!Start] /\ UNCHANGED <<listed, entry, entries, fresh, search>>
    BY DEF Search!Restart
  <1>2. SearchesKnown(c)' /\ EntryKnown(c)'
    BY <1>1 DEF CatalogInv, SearchesKnown, EntryKnown, Search!EntryHonest
  <1>3. WalksKnown(c)'
    <2>1. entries \in Nat
      BY DEF CatalogInv, EntryKnown
    <2>2. Walked(Search(c)!Start)
      BY <2>1 DEF Walked, Search!Start
    <2>3. DOMAIN walk' = c.visitors /\ \A u \in c.visitors : Walked(walk'[u])
      BY <1>1, <2>2 DEF CatalogInv, WalksKnown
    <2> QED
      BY <1>1, <2>3 DEF WalksKnown, Walked
  <1> QED
    BY <1>2, <1>3 DEF CatalogInv

LEMMA CatalogKeeps ==
  ASSUME NEW c, CatalogNames(c), CatalogInv(c),
         Search(c)!Next \/ UNCHANGED <<listed, entry, entries, fresh, search, walk>>
  PROVE  CatalogInv(c)'
  <1>1. ASSUME UNCHANGED <<entry, entries, search, walk>>, listed' \subseteq listed, fresh' => fresh
        PROVE  CatalogInv(c)'
    <2>1. SearchesKnown(c)'
      BY <1>1 DEF CatalogInv, SearchesKnown
    <2>2. EntryKnown(c)'
      BY <1>1 DEF CatalogInv, EntryKnown, Search!EntryHonest
    <2>3. WalksKnown(c)'
      BY <1>1 DEF CatalogInv, WalksKnown, Walked
    <2> QED
      BY <2>1, <2>2, <2>3 DEF CatalogInv
  <1>2. CASE UNCHANGED <<listed, entry, entries, fresh, search, walk>>
    BY <1>1, <1>2
  <1>3. CASE Search(c)!Age \/ Search(c)!Hide
    BY <1>1, <1>3 DEF Search!Age, Search!Hide
  <1>4. ASSUME NEW v \in c.visitors,
               Search(c)!Hit(v) \/ Search(c)!Miss(v) \/ Search(c)!Finish(v) \/ Search(c)!Unavailable(v)
                 \/ Search(c)!Restart(v)
        PROVE  CatalogInv(c)'
    BY <1>4, HitKeeps, MissKeeps, FinishKeeps, UnavailableKeeps, RestartKeeps
  <1>5. ASSUME NEW v \in c.visitors, NEW w \in c.workers, Search(c)!Work(v, w)
        PROVE  CatalogInv(c)'
    BY <1>5, WorkKeeps
  <1> QED
    BY <1>2, <1>3, <1>4, <1>5 DEF Search!Next

\* However many visitors search at once, whatever zones fail and however the
\* workers take turns: the answer that is kept tells what was found in every
\* zone that did not fail, and a visitor who came to the end of its pages has
\* seen all of it.
THEOREM CatalogueStaysHonest ==
  ASSUME CONSTANT c, CatalogNames(c)
  PROVE  Search(c)!Spec => []Search(c)!CatalogueHonest
  <1>1. Search(c)!Init => CatalogInv(c)
    BY CatalogStarts
  <1>2. CatalogInv(c) /\ [Search(c)!Next]_(Search(c)!vars) => CatalogInv(c)'
    BY CatalogKeeps DEF Search!vars
  <1>3. CatalogInv(c) => Search(c)!CatalogueHonest
    BY CatalogCovers
  <1> QED
    BY <1>1, <1>2, <1>3, PTL DEF Search!Spec

-----------------------------------------------------------------------------
(* Types of the catalogue: what its honesty does not rest on.              *)

CatalogBounds(c) == c.maxAttempts \in Nat \ {0} /\ c.maxEntries \in Nat

\* A worker asks for a zone MaxAttempts times, no more.
Attempting(c, workers) ==
  /\ workers = [w \in c.workers |-> workers[w]]
  /\ \A w \in c.workers : workers[w] # Search(c)!Idle => workers[w].attempt \in 1..c.maxAttempts

AttemptsBounded(c) == \A v \in c.visitors : search[v] # Search(c)!Idle => Attempting(c, search[v].worker)

EntriesBounded(c) == entries <= c.maxEntries /\ (entry # Search(c)!NoEntry => entry.own \subseteq c.salons)

WalksBounded(c) == \A v \in c.visitors : walk[v].number >= -1 /\ walk[v].seen \subseteq Search(c)!Items

CatalogTyped(c) == AttemptsBounded(c) /\ EntriesBounded(c) /\ WalksBounded(c)

LEMMA TypedSuffices ==
  ASSUME NEW c, CatalogBounds(c), CatalogInv(c), CatalogTyped(c)
  PROVE  Search(c)!TypeOK
  <1>1. ASSUME entry # Search(c)!NoEntry PROVE Search(c)!EntryOK(entry)
    <2>1. entry.number = entries /\ entries \in Nat /\ entries > 0 /\ entry.items \in Seq(Search(c)!Items)
      BY <1>1 DEF CatalogInv, EntryKnown
    <2>2. entry.number \in 1..c.maxEntries
      BY <2>1 DEF CatalogTyped, EntriesBounded, CatalogBounds
    <2>3. entry.done \subseteq c.zones /\ entry.failed \subseteq c.zones
      BY <1>1 DEF CatalogInv, EntryKnown, Search!EntryHonest
    <2>4. Search(c)!Range(entry.items) \subseteq Search(c)!Items
      BY <2>1 DEF Search!Range
    <2>5. entry.own \subseteq c.salons
      BY <1>1 DEF CatalogTyped, EntriesBounded
    <2> QED
      BY <2>2, <2>3, <2>4, <2>5 DEF Search!EntryOK
  <1>2. ASSUME NEW v \in c.visitors, search[v] # Search(c)!Idle
        PROVE  Search(c)!SearchOK(search[v])
    <2>1. PICK r : r = search[v]
      OBVIOUS
    <2>2. Searching(c, r)
      BY <1>2, <2>1 DEF CatalogInv, SearchesKnown
    <2>3. r.own \subseteq c.salons /\ r.done \subseteq c.zones /\ r.failed \subseteq c.zones /\ r.next \in Nat
      BY <2>2 DEF Searching
    <2>4. ASSUME NEW w \in c.workers
          PROVE  r.worker[w] \in {Search(c)!Idle} \cup [zone : c.zones, attempt : 1..c.maxAttempts]
      <3>1. CASE Busy(c, r, w)
        <4>1. PICK z \in c.zones : \E a : r.worker[w] = [zone |-> z, attempt |-> a]
          BY <2>2, <3>1 DEF Searching
        <4>2. r.worker[w].attempt \in 1..c.maxAttempts
          BY <1>2, <2>1, <3>1 DEF CatalogTyped, AttemptsBounded, Attempting, Busy
        <4> QED
          BY <4>1, <4>2
      <3> QED
        BY <3>1 DEF Busy
    <2>5. r.worker = [w \in c.workers |-> r.worker[w]]
      BY <1>2, <2>1 DEF CatalogTyped, AttemptsBounded, Attempting
    <2>6. r.worker \in [c.workers -> {Search(c)!Idle} \cup [zone : c.zones, attempt : 1..c.maxAttempts]]
      BY <2>4, <2>5
    <2> QED
      BY <2>1, <2>3, <2>6 DEF Search!SearchOK
  <1>3. ASSUME NEW v \in c.visitors
        PROVE  /\ walk[v].offset \in Nat
               /\ walk[v].seen \subseteq Search(c)!Items
               /\ walk[v].number \in -1 .. c.maxEntries
    <2>1. walk[v].offset \in Nat /\ walk[v].number \in Int /\ walk[v].number <= entries /\ entries \in Nat
      BY DEF CatalogInv, WalksKnown, Walked, EntryKnown
    <2>2. entries <= c.maxEntries /\ walk[v].number >= -1 /\ walk[v].seen \subseteq Search(c)!Items
      BY DEF CatalogTyped, EntriesBounded, WalksBounded
    <2> QED
      BY <2>1, <2>2 DEF CatalogBounds
  <1>4. listed \subseteq c.salons /\ (fresh => entry # Search(c)!NoEntry)
    BY DEF CatalogInv, SearchesKnown, EntryKnown
  <1> QED
    BY <1>1, <1>2, <1>3, <1>4 DEF Search!TypeOK

LEMMA TypedStarts ==
  ASSUME NEW c, CatalogBounds(c), Search(c)!Init
  PROVE  CatalogTyped(c)
  BY DEF CatalogBounds, CatalogTyped, AttemptsBounded, EntriesBounded, WalksBounded, Search!Init, Search!Start

\* What a turn shows is of the entry.
LEMMA TurnTyped ==
  ASSUME NEW c, CatalogInv(c), WalksBounded(c), NEW v \in c.visitors, NEW e, Search(c)!Turn(v, e),
         e.items \in Seq(Search(c)!Items), e.number \in Nat, c.pageSize \in Nat
  PROVE  WalksBounded(c)'
  <1> DEFINE from == walk[v].offset
             all == Len(e.items)
             to == IF from + c.pageSize < all THEN from + c.pageSize ELSE all
             page == {e.items[i] : i \in from + 1 .. to}
  <1>1. Walked(walk[v]) /\ DOMAIN walk = c.visitors
    BY DEF CatalogInv, WalksKnown
  <1>2. from \in Nat /\ all \in Nat /\ to \in Nat /\ to <= all
    BY <1>1 DEF Walked
  <1>3. page \subseteq Search(c)!Items
    <2> SUFFICES ASSUME NEW i \in from + 1 .. to PROVE e.items[i] \in Search(c)!Items
      OBVIOUS
    <2>1. i \in 1..all
      BY <1>2
    <2> QED
      BY <2>1
  <1>4. /\ \A u \in c.visitors : u # v => walk'[u] = walk[u]
        /\ walk'[v].seen = walk[v].seen \cup page
        /\ walk'[v].number = IF from = 0 \/ walk[v].number = e.number THEN e.number ELSE -1
    BY <1>1 DEF Search!Turn
  <1>5. walk'[v].number >= -1
    BY <1>4
  <1> QED
    BY <1>3, <1>4, <1>5 DEF WalksBounded

LEMMA TypedKeeps ==
  ASSUME NEW c, CatalogNames(c), CatalogBounds(c), CatalogInv(c), CatalogTyped(c),
         Search(c)!Next \/ UNCHANGED <<listed, entry, entries, fresh, search, walk>>
  PROVE  CatalogTyped(c)'
  <1>0. /\ AttemptsBounded(c) /\ EntriesBounded(c) /\ WalksBounded(c)
        /\ entries \in Nat /\ c.pageSize \in Nat /\ DOMAIN search = c.visitors
    BY DEF CatalogTyped, CatalogInv, EntryKnown, SearchesKnown, CatalogNames
  <1>1. ASSUME UNCHANGED <<entry, entries>> PROVE EntriesBounded(c)'
    BY <1>0, <1>1 DEF EntriesBounded
  <1>2. ASSUME walk' = walk PROVE WalksBounded(c)'
    BY <1>0, <1>2 DEF WalksBounded
  <1>3. ASSUME search' = search PROVE AttemptsBounded(c)'
    BY <1>0, <1>3 DEF AttemptsBounded
  <1>4. ASSUME NEW v \in c.visitors, search' = [search EXCEPT ![v] = Search(c)!Idle]
        PROVE  AttemptsBounded(c)'
    <2>1. search'[v] = Search(c)!Idle /\ \A u \in c.visitors : u # v => search'[u] = search[u]
      BY <1>0, <1>4
    <2> QED
      BY <1>0, <2>1 DEF AttemptsBounded
  <1>5. ASSUME NEW v \in c.visitors, NEW q, search' = [search EXCEPT ![v] = q],
               Attempting(c, q.worker)
        PROVE  AttemptsBounded(c)'
    <2>1. search'[v] = q /\ \A u \in c.visitors : u # v => search'[u] = search[u]
      BY <1>0, <1>5
    <2> QED
      BY <1>0, <1>5, <2>1 DEF AttemptsBounded
  <1>6. \A z : Search(c)!Turned(z) # Search(c)!Idle => Search(c)!Turned(z).attempt \in 1..c.maxAttempts
    BY DEF Search!Turned, CatalogBounds
  <1>7. CASE UNCHANGED <<listed, entry, entries, fresh, search, walk>> \/ Search(c)!Age \/ Search(c)!Hide
    BY <1>1, <1>2, <1>3, <1>7 DEF CatalogTyped, Search!Age, Search!Hide
  <1>8. ASSUME NEW v \in c.visitors, Search(c)!Hit(v) PROVE CatalogTyped(c)'
    <2>1. entry # Search(c)!NoEntry /\ Search(c)!Turn(v, entry) /\ UNCHANGED <<entry, entries, search>>
      BY <1>8 DEF Search!Hit, CatalogInv, EntryKnown
    <2>2. entry.items \in Seq(Search(c)!Items) /\ entry.number \in Nat
      BY <1>0, <2>1 DEF CatalogInv, EntryKnown
    <2>3. WalksBounded(c)'
      BY <1>0, <2>1, <2>2, TurnTyped
    <2> QED
      BY <1>1, <1>3, <2>1, <2>3 DEF CatalogTyped
  <1>9. ASSUME NEW v \in c.visitors, Search(c)!Miss(v) PROVE CatalogTyped(c)'
    <2> DEFINE q == [state |-> "searching", own |-> listed, done |-> {}, failed |-> {},
                     next |-> Search(c)!Cardinality(c.workers) + 1,
                     worker |-> [w \in c.workers |-> Search(c)!Turned(w)]]
    <2>1. search' = [search EXCEPT ![v] = q] /\ UNCHANGED <<entry, entries, walk>>
      BY <1>9 DEF Search!Miss
    <2>2. Attempting(c, q.worker)
      BY <1>6 DEF Attempting
    <2> HIDE DEF q
    <2>3. AttemptsBounded(c)'
      BY <1>5, <2>1, <2>2
    <2> QED
      BY <1>1, <1>2, <2>1, <2>3 DEF CatalogTyped
  <1>10. ASSUME NEW v \in c.visitors, Search(c)!Finish(v) PROVE CatalogTyped(c)'
    <2>1. PICK r : r = search[v]
      OBVIOUS
    <2>2. r.state = "searching" /\ \A w \in c.workers : ~Busy(c, r, w)
      BY <1>10, <2>1 DEF Search!Finish, Search!Over, Busy
    <2>3. Searching(c, r)
      <3>1. r # Search(c)!Idle
        BY <2>2 DEF Search!Idle
      <3> QED
        BY <2>1, <3>1 DEF CatalogInv, SearchesKnown
    <2>4. r.done \cup r.failed = c.zones /\ r.done \cap r.failed = {} /\ r.own \in SUBSET c.salons
      BY <1>10, <2>1, <2>2, <2>3, OverIsWhole DEF Search!Finish, Searching
    <2>5. PICK items : items = Search(c)!Prepared(r.own, Search(c)!Found(r.done))
      OBVIOUS
    <2>6. items \in Seq(Search(c)!Items)
      <3>1. Search(c)!Found(r.done) \subseteq Search(c)!Items
        BY <2>4 DEF Search!Found, Search!Items
      <3> QED
        BY <2>4, <2>5, <3>1, PreparedIsHonest
    <2>7. PICK e : e = [number |-> entries + 1, done |-> r.done, failed |-> r.failed, own |-> r.own,
                        items |-> items]
      OBVIOUS
    <2>8. /\ entry' = e /\ Search(c)!Turn(v, e) /\ entries' = entries + 1 /\ entries < c.maxEntries
          /\ search' = [search EXCEPT ![v] = Search(c)!Idle]
      BY <1>10, <2>1, <2>5, <2>7 DEF Search!Finish
    <2>9. e.number \in Nat /\ e.own \subseteq c.salons /\ e.items = items
      BY <1>0, <2>4, <2>7
    <2>10. WalksBounded(c)'
      BY <1>0, <2>6, <2>8, <2>9, TurnTyped
    <2>11. EntriesBounded(c)'
      BY <1>0, <2>8, <2>9 DEF EntriesBounded, CatalogBounds
    <2> QED
      BY <1>4, <2>8, <2>10, <2>11 DEF CatalogTyped
  <1>11. ASSUME NEW v \in c.visitors, Search(c)!Unavailable(v) \/ Search(c)!Restart(v) PROVE CatalogTyped(c)'
    <2>1. CASE Search(c)!Unavailable(v)
      BY <1>1, <1>2, <1>4, <2>1 DEF Search!Unavailable, CatalogTyped
    <2>2. CASE Search(c)!Restart(v)
      <3>1. walk' = [walk EXCEPT ![v] = Search(c)!Start] /\ UNCHANGED <<entry, entries, search>>
        BY <2>2 DEF Search!Restart
      <3>2. \A u \in c.visitors : walk'[u] = walk[u] \/ walk'[u] = Search(c)!Start
        BY <3>1 DEF CatalogInv, WalksKnown
      <3>3. Search(c)!Start.number = 0 /\ Search(c)!Start.seen = {}
        BY DEF Search!Start
      <3>4. WalksBounded(c)'
        BY <1>0, <3>2, <3>3 DEF WalksBounded
      <3> QED
        BY <1>1, <1>3, <3>1, <3>4 DEF CatalogTyped
    <2> QED
      BY <1>11, <2>1, <2>2
  <1>12. ASSUME NEW v \in c.visitors, NEW w \in c.workers, Search(c)!Work(v, w) PROVE CatalogTyped(c)'
    <2>1. PICK r : r = search[v]
      OBVIOUS
    <2>2. r.state = "searching" /\ Busy(c, r, w) /\ r # Search(c)!Idle
      BY <1>12, <2>1 DEF Search!Work, Search!Fetched, Search!Again, Search!GivenUp, Search!Busy, Busy, Search!Idle
    <2>3. Searching(c, r)
      BY <2>1, <2>2 DEF CatalogInv, SearchesKnown
    <2>4. PICK o, d0, f0, n0, g0 : r = ASearch(o, d0, f0, n0, g0)
      BY <2>3 DEF Searching, ASearch
    <2>5. PICK z \in c.zones : \E a : r.worker[w] = [zone |-> z, attempt |-> a]
      BY <2>2, <2>3 DEF Searching
    <2>6. PICK a : r.worker[w] = [zone |-> z, attempt |-> a]
      BY <2>5
    <2>7. Attempting(c, r.worker)
      BY <1>0, <2>1, <2>2 DEF AttemptsBounded
    <2>8. ASSUME NEW b, b # Search(c)!Idle => b.attempt \in 1..c.maxAttempts,
                 NEW q, search' = [search EXCEPT ![v] = q], q.worker = [g0 EXCEPT ![w] = b],
                 UNCHANGED <<entry, entries, walk>>
          PROVE  CatalogTyped(c)'
      <3>1. g0 = r.worker
        BY <2>4 DEF ASearch
      <3>2. g0 = [x \in c.workers |-> g0[x]]
        BY <2>7, <3>1 DEF Attempting
      <3>3. Attempting(c, q.worker)
        BY <2>7, <2>8, <3>1, <3>2 DEF Attempting
      <3>4. AttemptsBounded(c)'
        BY <1>5, <2>8, <3>3
      <3> QED
        BY <1>1, <1>2, <2>8, <3>4 DEF CatalogTyped
    <2>9. CASE Search(c)!Fetched(v, w) \/ Search(c)!GivenUp(v, w)
      <3>1. PICK outcome : Search(c)!Take(v, w, outcome) /\ UNCHANGED <<entry, entries, walk>>
        BY <2>9 DEF Search!Fetched, Search!GivenUp
      <3>2. PICK d, f, n, g :
              /\ d = IF outcome = "done" THEN r.done \cup {r.worker[w].zone} ELSE r.done
              /\ f = IF outcome = "failed" THEN r.failed \cup {r.worker[w].zone} ELSE r.failed
              /\ n = IF r.next \in c.zones THEN r.next + 1 ELSE r.next
              /\ g = [r.worker EXCEPT ![w] = Search(c)!Turned(r.next)]
        OBVIOUS
      <3>3. search' = [search EXCEPT ![v] = Took(r, d, f, n, g)]
        BY <2>1, <3>1, <3>2 DEF Search!Take, Took
      <3>4. Took(r, d, f, n, g) = ASearch(o, d, f, n, g)
        BY <2>4, TookIsASearch
      <3>5. Took(r, d, f, n, g).worker = [g0 EXCEPT ![w] = Search(c)!Turned(r.next)]
        <4>1. ASearch(o, d, f, n, g).worker = g
          BY DEF ASearch
        <4>2. r.worker = g0
          BY <2>4 DEF ASearch
        <4> QED
          BY <3>2, <3>4, <4>1, <4>2
      <3> QED
        BY <1>6, <2>8, <3>1, <3>3, <3>5
    <2>10. CASE Search(c)!Again(v, w)
      <3> DEFINE b == [zone |-> z, attempt |-> a + 1]
      <3>1. /\ a \in 1..c.maxAttempts /\ a < c.maxAttempts /\ UNCHANGED <<entry, entries, walk>>
        BY <2>1, <2>2, <2>6, <2>7, <2>10 DEF Search!Again, Attempting, Busy
      <3>2. b.attempt \in 1..c.maxAttempts
        BY <3>1 DEF CatalogBounds
      <3>3. [r.worker[w] EXCEPT !.attempt = r.worker[w].attempt + 1] = b
        BY <2>6
      <3>4. PICK q : /\ q = [r EXCEPT !.worker =
                               [r.worker EXCEPT ![w] = [r.worker[w] EXCEPT !.attempt = r.worker[w].attempt + 1]]]
                     /\ search' = [search EXCEPT ![v] = q]
        BY <2>1, <2>10 DEF Search!Again
      <3>5. q.worker = [g0 EXCEPT ![w] = b]
        BY <2>4, <3>3, <3>4 DEF ASearch
      <3> QED
        BY <2>8, <3>1, <3>2, <3>4, <3>5
    <2> QED
      BY <1>12, <2>9, <2>10 DEF Search!Work
  <1> QED
    BY <1>7, <1>8, <1>9, <1>10, <1>11, <1>12 DEF Search!Next

-----------------------------------------------------------------------------
(* Availability: what the lists and the pages tell of when masters are free *)
(* is what the tables say.  The cursor of FreeIn is a fold over bookings,   *)
(* and what it keeps to is proved along the subsets of them; the slots and  *)
(* the cells rest on what division leaves.                                  *)

\* Minutes divide the raster and the raster the day, a week has two days, hours
\* end on the day they begin, breaks begin on it, and bookings take time.
CalendarsHold(c) ==
  /\ c.minute \in Nat \ {0} /\ c.step \in Nat \ {0} /\ c.day \in Nat \ {0}
  /\ \E k \in Nat : c.step = c.minute * k
  /\ \E k \in Nat : c.day = c.step * k
  /\ c.week \in Nat /\ c.week >= 2
  /\ IsFiniteSet(c.staff)
  /\ \A table \in c.hours : IsFiniteSet(table) /\ \A r \in table :
       /\ r.from \in Nat /\ r.to \in Nat /\ r.from < r.to /\ r.to <= c.day
       /\ \A p \in r.breaks : p[1] \in Nat /\ p[2] \in Nat /\ p[1] < c.day
  /\ \A bookings \in c.booked :
       IsFiniteSet(bookings) /\ \A b \in bookings : b.start \in Int /\ b.end \in Int /\ b.start < b.end
  /\ c.instants \subseteq Nat /\ c.durations \subseteq Nat \ {0}
  /\ \A z \in c.zones, n \in c.instants : z \in Int /\ n + z \in Nat

\* What the tables hold, and when they are asked.
TablesHold(c) ==
  /\ now \in c.instants
  /\ \A m \in c.staff : master[m].rows \in c.hours /\ master[m].bookings \in c.booked

LEMMA Division ==
  ASSUME NEW a \in Int, NEW m \in Nat \ {0}
  PROVE  /\ a % m \in 0 .. m - 1
         /\ a \div m \in Int
         /\ a = m * (a \div m) + (a % m)
  <1>1. a % m \in Int /\ a \div m \in Int
    OBVIOUS
  <1>2. 0 <= a % m /\ a % m < m
    OBVIOUS
  <1>3. a = m * (a \div m) + (a % m)
    OBVIOUS
  <1> QED
    BY <1>1, <1>2, <1>3

LEMMA Quotient ==
  ASSUME NEW m \in Nat \ {0}, NEW q \in Int, NEW r \in 0 .. m - 1, NEW a \in Int, a = m * q + r
  PROVE  a \div m = q /\ a % m = r
  OBVIOUS

LEMMA Multiples ==
  ASSUME NEW m \in Nat \ {0}, NEW p \in Int, NEW q \in Int
  PROVE  /\ m * p \in Int
         /\ p < q => m * p + m <= m * q
         /\ p <= q => m * p <= m * q
         /\ m * p < m * q => p < q
  OBVIOUS

LEMMA WholeMultiple ==
  ASSUME NEW m \in Nat \ {0}, NEW a \in Int
  PROVE  a % m = 0 <=> \E q \in Int : a = m * q
  <1>1. ASSUME a % m = 0 PROVE \E q \in Int : a = m * q
    <2>1. PICK q \in Int : q = a \div m
      BY Division
    <2>2. a = m * q + 0 
      BY <1>1, <2>1, Division
    <2> QED
      BY <2>2
  <1>2. ASSUME NEW q \in Int, a = m * q PROVE a % m = 0
    <2>1. 0 \in 0 .. m - 1 /\ a = m * q + 0
      BY <1>2
    <2> QED
      BY <2>1, Quotient
  <1> QED
    BY <1>1, <1>2

LEMMA MultiplesAdd ==
  ASSUME NEW m \in Nat \ {0}, NEW a \in Int, NEW b \in Int, a % m = 0
  PROVE  /\ b % m = 0 => (a + b) % m = 0 
         /\ b % m = 0 => (b - a) % m = 0
  <1> SUFFICES ASSUME b % m = 0 PROVE (a + b) % m = 0 /\ (b - a) % m = 0
    OBVIOUS
  <1>1. PICK p \in Int : a = m * p
    BY WholeMultiple
  <1>2. PICK q \in Int : b = m * q
    BY WholeMultiple
  <1>3. p + q \in Int /\ q - p \in Int /\ a + b = m * (p + q) /\ b - a = m * (q - p)
    BY <1>1, <1>2
  <1>4. a + b \in Int /\ b - a \in Int
    OBVIOUS
  <1> QED
    BY <1>3, <1>4, WholeMultiple

\* The raster's first moment that is not over by a minute.
LEMMA CeilIsFirst ==
  ASSUME NEW c, CalendarsHold(c), NEW x \in Int
  PROVE  /\ Told(c)!Ceil(x) \in Int
         /\ Told(c)!Ceil(x) % c.step = 0
         /\ Told(c)!Ceil(x) + c.minute > x
         /\ \A t \in Int : t % c.step = 0 /\ t + c.minute > x => Told(c)!Ceil(x) <= t
  <1>1. PICK k \in Nat : c.step = c.minute * k
    BY DEF CalendarsHold
  <1>2. PICK f \in Nat \ {0}, s \in Nat \ {0} : f = c.minute /\ s = c.step
    BY DEF CalendarsHold
  <1> DEFINE lo == x - (x % f)
             first == IF lo % s = 0 THEN lo ELSE lo + s - (lo % s)
  <1>3. Told(c)!Ceil(x) = first
    BY <1>2 DEF Told!Ceil
  <1>4. PICK X \in Int : X = x \div f /\ x = f * X + (x % f) /\ x % f \in 0 .. f - 1
    BY Division
  <1>5. lo \in Int /\ lo = f * X /\ lo <= x /\ x < lo + f
    BY <1>4
  <1> HIDE DEF lo
  <1>6. PICK L \in Int : L = lo \div s /\ lo = s * L + (lo % s) /\ lo % s \in 0 .. s - 1
    BY <1>5, Division
  <1>7. first \in Int /\ first % s = 0 /\ first >= lo
    <2>1. CASE lo % s = 0
      BY <1>5, <2>1
    <2>2. CASE lo % s # 0
      <3>1. first = s * L + s
        BY <1>6, <2>2
      <3>2. first = s * (L + 1) + 0 /\ L + 1 \in Int /\ 0 \in 0 .. s - 1
        BY <3>1
      <3>3. first \in Int
        BY <3>1
      <3> HIDE DEF first
      <3>4. first % s = 0
        BY <3>2, <3>3, Quotient
      <3> QED
        BY <1>5, <1>6, <2>2, <3>3, <3>4 DEF first
    <2> QED
      BY <2>1, <2>2
  <1>8. ASSUME NEW t \in Int, t % s = 0, t + f > x
        PROVE  first <= t
    <2>1. PICK T \in Int : t = s * T
      <3>1. t = s * (t \div s) + (t % s) /\ t \div s \in Int
        BY Division
      <3> QED
        BY <1>8, <3>1
    <2>2. s * T = f * (k * T) /\ k * T \in Int
      BY <1>1, <1>2
    <2>3. t >= lo
      <3>1. PICK K \in Int : K = k * T
        BY <2>2
      <3>2. t = f * K
        BY <2>1, <2>2, <3>1
      <3>3. f * K + f > f * X
        BY <1>5, <1>8, <3>2
      <3>4. f * (K + 1) = f * K + f
        BY <3>1
      <3>5. X < K + 1
        BY <3>3, <3>4, Multiples
      <3>6. f * X <= f * K
        BY <3>5, Multiples
      <3> QED
        BY <1>5, <3>2, <3>6
    <2>4. CASE lo % s = 0
      BY <2>3, <2>4
    <2>5. CASE lo % s # 0
      <3>1. s * L < s * T
        <4>1. PICK R \in 0 .. s - 1 : R = lo % s
          BY <1>6
        <4>2. PICK A \in Int, B \in Int : A = s * L /\ B = s * T
          OBVIOUS
        <4>3. R > 0 /\ lo = A + R /\ lo <= B
          BY <1>6, <2>1, <2>3, <2>5, <4>1, <4>2
        <4> QED
          BY <1>5, <4>2, <4>3
      <3>2. s * L + s <= s * T
        BY <3>1, Multiples
      <3> QED
        BY <1>6, <2>1, <2>5, <3>2
    <2> QED
      BY <2>4, <2>5
  <1> HIDE DEF first
  <1>9. first + f > x
    BY <1>5, <1>7
  <1> QED
    BY <1>2, <1>3, <1>7, <1>8, <1>9

\* The interval of a row of hours, and of a break.
LEMMA Intervals ==
  ASSUME NEW c, CalendarsHold(c), TablesHold(c), NEW m \in c.staff, NEW d \in Nat,
         NEW r \in Told(c)!RowsOf(m, d)
  PROVE  /\ r.from \in Nat /\ r.to \in Nat /\ r.from < r.to /\ r.to <= c.day
         /\ d * c.day \in Nat /\ (d + 1) * c.day = d * c.day + c.day
         /\ Told(c)!Interval(d, r.from, r.to).start = d * c.day + r.from
         /\ Told(c)!Interval(d, r.from, r.to).end = d * c.day + r.to
         /\ \A p \in r.breaks :
              /\ p[1] \in Nat /\ p[2] \in Nat
              /\ Told(c)!Interval(d, p[1], p[2]).start = d * c.day + p[1]
              /\ Told(c)!Interval(d, p[1], p[2]).end = d * c.day + p[2] + (IF p[2] <= p[1] THEN c.day ELSE 0)
              /\ Told(c)!Interval(d, p[1], p[2]).start < Told(c)!Interval(d, p[1], p[2]).end
  <1>1. r \in master[m].rows /\ master[m].rows \in c.hours
    BY DEF TablesHold, Told!RowsOf
  <1>2. /\ r.from \in Nat /\ r.to \in Nat /\ r.from < r.to /\ r.to <= c.day
        /\ \A p \in r.breaks : p[1] \in Nat /\ p[2] \in Nat /\ p[1] < c.day
    BY <1>1 DEF CalendarsHold
  <1>3. PICK D \in Nat \ {0} : D = c.day
    BY DEF CalendarsHold
  <1>4. PICK B \in Nat : B = d * D /\ (d + 1) * D = B + D
    OBVIOUS
  <1>5. ASSUME NEW a \in Nat, NEW b \in Nat
        PROVE  /\ Told(c)!Interval(d, a, b).start = B + a
               /\ Told(c)!Interval(d, a, b).end = B + b + (IF b <= a THEN D ELSE 0)
    BY <1>3, <1>4 DEF Told!Interval
  <1>6. Told(c)!Interval(d, r.from, r.to).start = B + r.from /\ Told(c)!Interval(d, r.from, r.to).end = B + r.to
    BY <1>2, <1>5
  <1>7. ASSUME NEW p \in r.breaks
        PROVE  /\ p[1] \in Nat /\ p[2] \in Nat
               /\ Told(c)!Interval(d, p[1], p[2]).start = B + p[1]
               /\ Told(c)!Interval(d, p[1], p[2]).end = B + p[2] + (IF p[2] <= p[1] THEN D ELSE 0)
               /\ Told(c)!Interval(d, p[1], p[2]).start < Told(c)!Interval(d, p[1], p[2]).end
    <2>1. p[1] \in Nat /\ p[2] \in Nat /\ p[1] < D
      BY <1>2, <1>3
    <2>2. /\ Told(c)!Interval(d, p[1], p[2]).start = B + p[1]
          /\ Told(c)!Interval(d, p[1], p[2]).end = B + p[2] + (IF p[2] <= p[1] THEN D ELSE 0)
      BY <1>5, <2>1
    <2> QED
      BY <2>1, <2>2
  <1> QED
    BY <1>2, <1>3, <1>4, <1>6, <1>7

\* Bookings of a master.
LEMMA BookingsTakeTime ==
  ASSUME NEW c, CalendarsHold(c), TablesHold(c), NEW m \in c.staff
  PROVE  /\ IsFiniteSet(master[m].bookings)
         /\ \A b \in master[m].bookings : b.start \in Int /\ b.end \in Int /\ b.start < b.end
  BY DEF CalendarsHold, TablesHold

\* No moment of a visit is inside an interval that takes time iff they do not meet.
LEMMA MeetMeans ==
  ASSUME NEW c, NEW t \in Int, NEW length \in Nat \ {0}, NEW i, i.start \in Int, i.end \in Int, i.start < i.end
  PROVE  Told(c)!Meet(t, t + length, i) <=> \E u \in t .. t + length - 1 : i.start <= u /\ u < i.end
  <1>1. ASSUME t < i.end, i.start < t + length
        PROVE  \E u \in t .. t + length - 1 : i.start <= u /\ u < i.end
    <2>1. CASE i.start <= t
      BY <1>1, <2>1
    <2>2. CASE i.start > t
      BY <1>1, <2>2
    <2> QED
      BY <2>1, <2>2
  <1>2. ASSUME NEW u \in t .. t + length - 1, i.start <= u, u < i.end
        PROVE  t < i.end /\ i.start < t + length
    BY <1>2
  <1> QED
    BY <1>1, <1>2 DEF Told!Meet

LEMMA TodayIs ==
  ASSUME NEW c, CalendarsHold(c), TablesHold(c)
  PROVE  /\ now \in Nat /\ Told(c)!Today \in Nat
         /\ Told(c)!Today * c.day <= now /\ now < Told(c)!Today * c.day + c.day
  <1>1. now \in Nat /\ c.day \in Nat \ {0}
    BY DEF CalendarsHold, TablesHold
  <1>0. PICK D \in Nat \ {0} : D = c.day
    BY <1>1
  <1>2. PICK T \in Int, R \in 0 .. D - 1 : T = now \div D /\ now = D * T + R
    <2>1. now \div D \in Int /\ now % D \in 0 .. D - 1 /\ now = D * (now \div D) + (now % D)
      BY <1>1, Division
    <2> QED
      BY <2>1
  <1>3. T >= 0
    <2>1. CASE T < 0
      <3>1. D * T + D <= D * 0
        BY <2>1, Multiples
      <3> QED
        BY <1>1, <1>2, <3>1
    <2> QED
      BY <2>1
  <1>4. Told(c)!Today = T /\ D * T = T * D
    BY <1>0, <1>2 DEF Told!Today
  <1>5. PICK A \in Int : A = D * T
    OBVIOUS
  <1> QED
    BY <1>0, <1>1, <1>2, <1>3, <1>4, <1>5

LEMMA SlotsAreGood ==
  ASSUME NEW c, CalendarsHold(c), TablesHold(c), NEW m \in c.staff, NEW d \in Nat,
         d = Told(c)!Today \/ d = Told(c)!Today + 1, NEW length \in Nat \ {0}
  PROVE  Told(c)!SlotsOf(m, d, length) = Told(c)!IdleSlots(m, d, length)
  <1> DEFINE first(r) == Told(c)!Ceil(Told(c)!Later(Told(c)!Interval(d, r.from, r.to).start, now))
  <1>1. PICK s \in Nat \ {0}, f \in Nat \ {0}, D \in Nat \ {0} : s = c.step /\ f = c.minute /\ D = c.day
    BY DEF CalendarsHold
  <1>2. PICK B \in Nat : B = d * c.day
    BY <1>1
  <1>3. now \in Nat /\ Told(c)!Today \in Nat
    BY TodayIs
  <1>4. ASSUME NEW r \in Told(c)!RowsOf(m, d)
        PROVE  /\ r.from \in Nat /\ r.to \in Nat /\ r.from < r.to /\ r.to <= D /\ (d + 1) * c.day = B + D
               /\ Told(c)!Interval(d, r.from, r.to).start = B + r.from
               /\ Told(c)!Interval(d, r.from, r.to).end = B + r.to
    BY <1>1, <1>2, Intervals
  <1>5. ASSUME NEW t, NEW r \in Told(c)!RowsOf(m, d), r.accepts,
               t \in first(r) .. Told(c)!Interval(d, r.from, r.to).end - length,
               (t - first(r)) % s = 0, Told(c)!Free(m, d, t, length)
        PROVE  t \in Told(c)!IdleSlots(m, d, length)
    <2>1. PICK F \in Int : F = first(r) /\ F % s = 0 /\ F + f > now
      <3>1. PICK x \in Int : x = Told(c)!Later(Told(c)!Interval(d, r.from, r.to).start, now) /\ x >= now
        BY <1>2, <1>3, <1>4 DEF Told!Later
      <3>2. Told(c)!Ceil(x) \in Int /\ Told(c)!Ceil(x) % s = 0 /\ Told(c)!Ceil(x) + f > x
        BY <1>1, CeilIsFirst
      <3> QED
        BY <1>3, <3>1, <3>2
    <2>2. t \in Int /\ t >= F /\ (t - F) % s = 0
      BY <1>2, <1>4, <1>5, <2>1
    <2>3. t % s = 0
      <3>1. t - F \in Int /\ F + (t - F) = t
        BY <2>2
      <3> QED
        BY <2>1, <2>2, <3>1, MultiplesAdd
    <2>4. PICK q \in Told(c)!RowsOf(m, d) :
            /\ q.accepts
            /\ Told(c)!Interval(d, q.from, q.to).start <= t
            /\ t + length <= Told(c)!Interval(d, q.from, q.to).end
            /\ \A p \in q.breaks : ~Told(c)!Meet(t, t + length, Told(c)!Interval(d, p[1], p[2]))
      BY <1>5 DEF Told!Free
    <2>5. /\ q.from \in Nat /\ q.to \in Nat /\ q.to <= D /\ (d + 1) * c.day = B + D
          /\ B + q.from <= t /\ t + length <= B + q.to
      BY <1>4, <2>4
    <2>6. t \in d * c.day .. (d + 1) * c.day - 1
      BY <1>2, <2>2, <2>5
    <2>7. ASSUME NEW u \in t .. t + length - 1 PROVE Told(c)!Idle(m, u, master[m].bookings)
      <3>1. d \in Told(c)!Today .. Told(c)!Today + c.week - 1
        BY <1>3 DEF CalendarsHold
      <3>2. B + q.from <= u /\ u < B + q.to
        BY <2>2, <2>5
      <3>3. ASSUME NEW b \in master[m].bookings, Told(c)!Active(b) PROVE u < b.start \/ b.end <= u
        <4>1. b.start \in Int /\ b.end \in Int /\ b.start < b.end
          BY BookingsTakeTime
        <4>2. ~Told(c)!Meet(t, t + length, b)
          BY <1>5, <3>3 DEF Told!Free
        <4>3. ~(b.start <= u /\ u < b.end)
          BY <2>2, <4>1, <4>2, MeetMeans
        <4> QED
          BY <2>2, <4>1, <4>3
      <3> QED
        BY <1>2, <2>4, <3>1, <3>2, <3>3 DEF Told!Idle
    <2>8. ASSUME NEW p \in q.breaks, NEW u \in t .. t + length - 1
          PROVE  ~(d * c.day + p[1] <= u /\ u < d * c.day + p[2] + (IF p[2] <= p[1] THEN c.day ELSE 0))
      <3>1. PICK i : i = Told(c)!Interval(d, p[1], p[2])
        OBVIOUS
      <3>2. /\ p[1] \in Nat /\ p[2] \in Nat
            /\ i.start = d * c.day + p[1]
            /\ i.end = d * c.day + p[2] + (IF p[2] <= p[1] THEN c.day ELSE 0)
            /\ i.start < i.end
        BY <3>1, Intervals
      <3>3. i.start \in Int /\ i.end \in Int
        BY <1>1, <1>2, <3>2
      <3>4. ~(i.start <= u /\ u < i.end)
        BY <2>2, <2>4, <3>1, <3>2, <3>3, MeetMeans
      <3> QED
        BY <3>2, <3>4
    <2>9. t + c.minute > now /\ t % c.step = 0
      BY <1>1, <1>3, <2>1, <2>2, <2>3
    <2> QED
      BY <1>2, <2>4, <2>5, <2>6, <2>7, <2>8, <2>9 DEF Told!IdleSlots
  <1>6. ASSUME NEW t \in Told(c)!IdleSlots(m, d, length)
        PROVE  \E r \in Told(c)!RowsOf(m, d) :
                 /\ r.accepts
                 /\ t \in first(r) .. Told(c)!Interval(d, r.from, r.to).end - length
                 /\ (t - first(r)) % s = 0
                 /\ Told(c)!Free(m, d, t, length)
    <2>1. /\ t \in d * c.day .. (d + 1) * c.day - 1
          /\ t % s = 0 /\ t + f > now
          /\ \A u \in t .. t + length - 1 : Told(c)!Idle(m, u, master[m].bookings)
      BY <1>1 DEF Told!IdleSlots
    <2>2. PICK r \in Told(c)!RowsOf(m, d) :
            /\ r.accepts /\ B + r.from <= t /\ t + length <= B + r.to
            /\ \A p \in r.breaks, u \in t .. t + length - 1 :
                 ~(d * c.day + p[1] <= u /\ u < d * c.day + p[2] + (IF p[2] <= p[1] THEN c.day ELSE 0))
      BY <1>2 DEF Told!IdleSlots
    <2>3. t \in Int
      <3>1. (d + 1) * c.day = B + D
        BY <1>4, <2>2
      <3> QED
        BY <1>2, <2>1, <3>1
    <2>4. PICK F \in Int : F = first(r) /\ F % s = 0 /\ F <= t
      <3>1. PICK x \in Int : /\ x = Told(c)!Later(Told(c)!Interval(d, r.from, r.to).start, now)
                             /\ t + f > x
        <4>1. PICK i \in Int : i = Told(c)!Interval(d, r.from, r.to).start /\ i = B + r.from
          BY <1>2, <1>4, <2>2
        <4>2. t + f > i
          BY <1>1, <1>2, <1>4, <2>2, <2>3, <4>1
        <4>3. Told(c)!Later(i, now) \in {i, now}
          BY DEF Told!Later
        <4> QED
          BY <1>3, <2>1, <4>1, <4>2, <4>3
      <3>2. Told(c)!Ceil(x) \in Int /\ Told(c)!Ceil(x) % s = 0 /\ Told(c)!Ceil(x) <= t
        BY <1>1, <2>1, <2>3, <3>1, CeilIsFirst
      <3> QED
        BY <3>1, <3>2
    <2>5. (t - F) % s = 0
      BY <2>1, <2>3, <2>4, MultiplesAdd
    <2>6. t \in first(r) .. Told(c)!Interval(d, r.from, r.to).end - length
      BY <1>2, <1>4, <2>2, <2>3, <2>4
    <2>7. ASSUME NEW p \in r.breaks PROVE ~Told(c)!Meet(t, t + length, Told(c)!Interval(d, p[1], p[2]))
      <3>1. PICK i : i = Told(c)!Interval(d, p[1], p[2])
        OBVIOUS
      <3>2. /\ p[1] \in Nat /\ p[2] \in Nat
            /\ i.start = d * c.day + p[1]
            /\ i.end = d * c.day + p[2] + (IF p[2] <= p[1] THEN c.day ELSE 0)
            /\ i.start < i.end
        BY <3>1, Intervals
      <3>3. i.start \in Int /\ i.end \in Int
        BY <1>1, <1>2, <3>2
      <3>4. \A u \in t .. t + length - 1 : ~(i.start <= u /\ u < i.end)
        BY <2>2, <3>2
      <3> QED
        BY <2>3, <3>1, <3>2, <3>3, <3>4, MeetMeans
    <2>8. ASSUME NEW b \in master[m].bookings, Told(c)!Active(b) PROVE ~Told(c)!Meet(t, t + length, b)
      <3>1. b.start \in Int /\ b.end \in Int /\ b.start < b.end
        BY BookingsTakeTime
      <3>2. \A u \in t .. t + length - 1 : ~(b.start <= u /\ u < b.end)
        BY <2>1, <2>3, <2>8, <3>1 DEF Told!Idle
      <3> QED
        BY <2>3, <3>1, <3>2, MeetMeans
    <2>9. Told(c)!Free(m, d, t, length)
      <3>1. /\ Told(c)!Interval(d, r.from, r.to).start <= t
            /\ t + length <= Told(c)!Interval(d, r.from, r.to).end
        BY <1>4, <2>2
      <3> QED
        BY <2>2, <2>7, <2>8, <3>1 DEF Told!Free
    <2> QED
      BY <2>2, <2>4, <2>5, <2>6, <2>9
  <1> HIDE DEF first
  <1>7. \A t : t \in Told(c)!SlotsOf(m, d, length) <=>
                \E r \in Told(c)!RowsOf(m, d) :
                  /\ r.accepts
                  /\ t \in first(r) .. Told(c)!Interval(d, r.from, r.to).end - length
                  /\ (t - first(r)) % s = 0
                  /\ Told(c)!Free(m, d, t, length)
    BY <1>1 DEF Told!SlotsOf, first
  <1>8. \A t : t \in Told(c)!SlotsOf(m, d, length) <=> t \in Told(c)!IdleSlots(m, d, length)
    BY <1>5, <1>6, <1>7
  <1> QED
    BY <1>8

\* Bookings that take time.
TakeTime(S) == IsFiniteSet(S) /\ \A b \in S : b.start \in Int /\ b.end \in Int /\ b.start < b.end

\* A set of subsets of a finite set has a smallest member: the form in which the
\* proofs about cursors are by induction over finite sets.
LEMMA SmallestSet ==
  ASSUME NEW S, IsFiniteSet(S), NEW B \in SUBSET (SUBSET S), B # {}
  PROVE  \E s \in B : \A t \in B : t \subseteq s => t = s
  <1>1. IsWellFoundedOn(StrictSubsetOrdering(S), SUBSET S)
    BY FS_StrictSubsetOrderingWellFounded, FS_FiniteSubsetsOfFinite
  <1>2. \E s \in B : \A t \in B : ~(<<t, s>> \in StrictSubsetOrdering(S))
    BY <1>1, WFMin
  <1> QED
    BY <1>2 DEF StrictSubsetOrdering

LEMMA LastIsThere ==
  ASSUME NEW c, NEW S, TakeTime(S), S # {}
  PROVE  Told(c)!LastOf(S) \in S /\ \A a \in S : a.start <= Told(c)!LastOf(S).start
  <1> DEFINE bad == {s \in SUBSET S : s # {} /\ ~ \E b \in s : \A a \in s : a.start <= b.start}
  <1>1. bad = {}
    <2> SUFFICES ASSUME bad # {} PROVE FALSE
      OBVIOUS
    <2>1. PICK s \in bad : \A t \in bad : t \subseteq s => t = s
      <3>1. bad \in SUBSET (SUBSET S)
        OBVIOUS
      <3> HIDE DEF bad
      <3> QED
        BY <3>1, SmallestSet DEF TakeTime
    <2>2. PICK x \in s : TRUE
      BY <2>1
    <2>3. s \ {x} \notin bad
      BY <2>1, <2>2
    <2>4. CASE s \ {x} = {}
      <3>1. \A a \in s : a = x
        BY <2>4
      <3>2. \A a \in s : a.start <= x.start
        BY <2>1, <3>1 DEF TakeTime
      <3> QED
        BY <2>1, <2>2, <3>2
    <2>5. CASE s \ {x} # {}
      <3>1. PICK b \in s \ {x} : \A a \in s \ {x} : a.start <= b.start
        BY <2>1, <2>3, <2>5
      <3>2. x.start \in Int /\ \A a \in s : a.start \in Int
        BY <2>1, <2>2 DEF TakeTime
      <3>3. CASE x.start <= b.start
        <4>1. \A a \in s : a.start <= b.start
          BY <3>1, <3>3
        <4> QED
          BY <2>1, <3>1, <4>1
      <3>4. CASE b.start < x.start
        <4>1. \A a \in s : a.start <= x.start
          BY <3>1, <3>2, <3>4
        <4> QED
          BY <2>1, <2>2, <4>1
      <3> QED
        BY <3>1, <3>2, <3>3, <3>4
    <2> QED
      BY <2>4, <2>5
  <1>2. \E b \in S : \A a \in S : a.start <= b.start
    <2>1. S \in SUBSET S /\ S \notin bad
      BY <1>1
    <2> QED
      BY <2>1
  <1> HIDE DEF bad
  <1> QED
    BY <1>2, Zenon DEF Told!LastOf

\* The subsets of S that are in T, with what the cursor is after each.
Passing(c, k, T, f) ==
  [s \in T |-> IF s = {} THEN k
               ELSE Told(c)!Passed(f[s \ {Told(c)!LastOf(s)}], Told(c)!LastOf(s))]

LEMMA PassingIsThere ==
  ASSUME NEW c, NEW k, NEW S, TakeTime(S)
  PROVE  \E f : f = Passing(c, k, SUBSET S, f)
  <1> DEFINE upto(n) == {s \in SUBSET S : Cardinality(s) <= n}
             bad == {n \in Nat : ~ \E f : f = Passing(c, k, upto(n), f)}
  <1>0. \A s \in SUBSET S : IsFiniteSet(s) /\ Cardinality(s) \in Nat /\ TakeTime(s) /\ Cardinality(s) <= Cardinality(S)
    BY FS_Subset, FS_CardinalityType DEF TakeTime
  <1>1. ASSUME NEW s \in SUBSET S, s # {}
        PROVE  /\ Told(c)!LastOf(s) \in s
               /\ s \ {Told(c)!LastOf(s)} \in SUBSET S
               /\ Cardinality(s \ {Told(c)!LastOf(s)}) = Cardinality(s) - 1
    BY <1>0, <1>1, LastIsThere, FS_RemoveElement
  <1>2. bad = {}
    <2> SUFFICES ASSUME bad # {} PROVE FALSE
      OBVIOUS
    <2>1. PICK n \in bad : \A x \in bad : n <= x
      BY SmallestNumber
    <2>2. CASE n = 0
      <3> DEFINE f == [s \in upto(0) |-> k]
      <3>1. \A s \in upto(0) : s = {}
        BY <1>0, FS_EmptySet
      <3>2. f = Passing(c, k, upto(0), f)
        BY <3>1 DEF Passing
      <3> HIDE DEF f
      <3> QED
        BY <2>1, <2>2, <3>2
    <2>3. CASE n > 0
      <3>1. n - 1 \in Nat /\ n - 1 \notin bad
        <4>1. n \in Nat
          OBVIOUS
        <4>2. n - 1 \in Nat /\ ~(n <= n - 1)
          BY <2>3, <4>1
        <4> HIDE DEF bad
        <4> QED
          BY <2>1, <4>2
      <3>2. PICK f : f = Passing(c, k, upto(n - 1), f)
        BY <3>1
      <3> DEFINE g == [s \in upto(n) |-> IF s = {} THEN k
                        ELSE Told(c)!Passed(f[s \ {Told(c)!LastOf(s)}], Told(c)!LastOf(s))]
      <3>3. ASSUME NEW s \in upto(n), s # {}
            PROVE  g[s \ {Told(c)!LastOf(s)}] = f[s \ {Told(c)!LastOf(s)}]
        <4> DEFINE t == s \ {Told(c)!LastOf(s)}
        <4>1. t \in upto(n - 1) /\ t \in upto(n)
          BY <1>0, <1>1, <2>1, <3>3
        <4>2. f[t] = IF t = {} THEN k ELSE Told(c)!Passed(f[t \ {Told(c)!LastOf(t)}], Told(c)!LastOf(t))
          <5> HIDE DEF upto, t
          <5> QED
            BY <3>2, <4>1 DEF Passing
        <4> HIDE DEF t, upto
        <4> QED
          BY <4>1, <4>2 DEF t
      <3> HIDE DEF upto
      <3>4. g = Passing(c, k, upto(n), g)
        BY <3>3 DEF Passing
      <3> HIDE DEF g
      <3> QED
        BY <2>1, <3>4
    <2> QED
      BY <2>1, <2>2, <2>3
  <1>3. Cardinality(S) \in Nat /\ upto(Cardinality(S)) = SUBSET S
    BY <1>0
  <1> HIDE DEF upto
  <1> QED
    BY <1>2, <1>3

\* The cursor has passed booked time only, and stands at none.
CursorAt(S, x, k) ==
  /\ k = [at |-> k.at, found |-> k.found]
  /\ k.at \in Int /\ x <= k.at
  /\ \A u \in x .. k.at - 1 : \E b \in S : b.start <= u /\ u < b.end
  /\ \/ ~k.found /\ \A b \in S : b.end <= k.at
     \/ /\ k.found
        /\ \E b \in S : b.start > k.at
        /\ \A b \in S : b.end <= k.at \/ b.start > k.at

LEMMA PassedOn ==
  ASSUME NEW c, NEW S, TakeTime(S), NEW b \in S, \A a \in S : a.start <= b.start,
         NEW x \in Int, NEW k, CursorAt(S \ {b}, x, k)
  PROVE  CursorAt(S, x, Told(c)!Passed(k, b))
  <1>1. PICK q : q = Told(c)!Passed(k, b)
    OBVIOUS
  <1>2. /\ b.start \in Int /\ b.end \in Int /\ b.start < b.end
        /\ \A a \in S : a.start \in Int /\ a.end \in Int /\ (a = b \/ a \in S \ {b})
    BY DEF TakeTime
  <1>3. CASE k.found \/ b.end <= k.at
    <2>1. q = k
      BY <1>1, <1>3 DEF Told!Passed
    <2> QED
      BY <1>1, <1>2, <1>3, <2>1 DEF CursorAt
  <1>4. CASE ~(k.found \/ b.end <= k.at) /\ b.start > k.at
    <2>1. q = [k EXCEPT !.found = TRUE]
      BY <1>1, <1>4 DEF Told!Passed
    <2>2. q.at = k.at /\ q.found /\ q = [at |-> q.at, found |-> q.found]
      BY <2>1 DEF CursorAt
    <2> QED
      BY <1>1, <1>2, <1>4, <2>2 DEF CursorAt
  <1>5. CASE ~(k.found \/ b.end <= k.at) /\ ~(b.start > k.at)
    <2>1. q = [k EXCEPT !.at = b.end]
      BY <1>1, <1>5 DEF Told!Passed
    <2>2. q.at = b.end /\ q.found = k.found /\ q = [at |-> q.at, found |-> q.found]
      BY <2>1 DEF CursorAt
    <2>3. k.at \in Int /\ b.start <= k.at /\ k.at < b.end /\ x <= k.at
      BY <1>2, <1>5 DEF CursorAt
    <2>4. ASSUME NEW u \in x .. q.at - 1 PROVE \E a \in S : a.start <= u /\ u < a.end
      <3>1. CASE u < k.at
        <4>1. u \in x .. k.at - 1
          BY <2>2, <2>3, <2>4, <3>1, <1>2
        <4> QED
          BY <4>1 DEF CursorAt
      <3>2. CASE u >= k.at
        BY <1>2, <2>2, <2>3, <2>4, <3>2
      <3> QED
        BY <1>2, <2>2, <2>3, <2>4, <3>1, <3>2
    <2>5. \A a \in S : a.end <= q.at
      BY <1>2, <1>5, <2>2, <2>3 DEF CursorAt
    <2> QED
      BY <1>1, <1>2, <1>5, <2>2, <2>3, <2>4, <2>5 DEF CursorAt
  <1> QED
    BY <1>3, <1>4, <1>5

\* The fold of FreeIn is the cursor after all the bookings in the way.
LEMMA CursorPasses ==
  ASSUME NEW c, NEW x \in Int, NEW S, TakeTime(S), NEW k, k = [at |-> x, found |-> FALSE],
         NEW f, f = Passing(c, k, SUBSET S, f)
  PROVE  CursorAt(S, x, f[S])
  <1> DEFINE bad == {s \in SUBSET S : ~CursorAt(s, x, f[s])}
  <1>1. bad = {}
    <2> SUFFICES ASSUME bad # {} PROVE FALSE
      OBVIOUS
    <2>0. bad \in SUBSET (SUBSET S)
      OBVIOUS
    <2>1. PICK s \in bad : \A t \in bad : t \subseteq s => t = s
      <3> HIDE DEF bad
      <3> QED
        BY <2>0, SmallestSet DEF TakeTime
    <2>2. s \in SUBSET S /\ ~CursorAt(s, x, f[s])
      OBVIOUS
    <2>3. f[s] = IF s = {} THEN k ELSE Told(c)!Passed(f[s \ {Told(c)!LastOf(s)}], Told(c)!LastOf(s))
      BY <2>2 DEF Passing
    <2>4. CASE s = {}
      <3>1. f[s] = k /\ k.at = x /\ ~k.found
        BY <2>3, <2>4
      <3>2. CursorAt(s, x, k)
        BY <2>4, <3>1 DEF CursorAt
      <3> QED
        BY <2>2, <3>1, <3>2
    <2>5. CASE s # {}
      <3>1. TakeTime(s)
        BY <2>2, FS_Subset DEF TakeTime
      <3>2. PICK b : b = Told(c)!LastOf(s) /\ b \in s /\ \A a \in s : a.start <= b.start
        BY <2>5, <3>1, LastIsThere
      <3>3. s \ {b} \in SUBSET S /\ s \ {b} \notin bad
        BY <2>1, <2>2, <3>2
      <3>4. CursorAt(s \ {b}, x, f[s \ {b}])
        BY <3>3
      <3>5. CursorAt(s, x, Told(c)!Passed(f[s \ {b}], b))
        BY <3>1, <3>2, <3>4, PassedOn
      <3> QED
        BY <2>2, <2>3, <2>5, <3>2, <3>5
    <2> QED
      BY <2>4, <2>5
  <1> QED
    BY <1>1

\* The bookings in the way of an interval.
InTheWay(c, B, i) == {b \in Told(c)!Loaded(B) : Told(c)!Meet(b.start, b.end, i)}

LEMMA FreeInIs ==
  ASSUME NEW c, CalendarsHold(c), TablesHold(c), NEW m \in c.staff, NEW B \in SUBSET master[m].bookings, NEW i, i.start \in Nat
  PROVE  \E k : /\ CursorAt(InTheWay(c, B, i), Told(c)!Later(i.start, now), k)
                /\ Told(c)!FreeIn(B, i) = k.at
  <1> DEFINE S == InTheWay(c, B, i)
             x == Told(c)!Later(i.start, now)
             k == [at |-> x, found |-> FALSE]
  <1>1. PICK f : f = (CHOOSE g : g = Passing(c, k, SUBSET S, g)) /\ Told(c)!FreeIn(B, i) = f[S].at
    BY DEF Told!FreeIn, Told!MapThenFoldSet, InTheWay, Passing
  <1>2. TakeTime(S)
    <2>1. S \subseteq master[m].bookings
      BY DEF InTheWay, Told!Loaded
    <2> HIDE DEF S
    <2> QED
      BY <2>1, BookingsTakeTime, FS_Subset DEF TakeTime
  <1>3. x \in Int
    BY TodayIs DEF Told!Later
  <1> HIDE DEF S, x, k
  <1>4. f = Passing(c, k, SUBSET S, f)
    <2>1. \E g : g = Passing(c, k, SUBSET S, g)
      BY <1>2, PassingIsThere
    <2>2. f = CHOOSE g : g = Passing(c, k, SUBSET S, g)
      BY <1>1
    <2> QED
      BY <2>1, <2>2, Zenon
  <1>5. CursorAt(S, x, f[S])
    BY <1>2, <1>3, <1>4, CursorPasses DEF k
  <1> QED
    BY <1>1, <1>5 DEF S, x

\* A shift of the week is the interval of a row of hours that accepts bookings.
LEMMA ShiftsAre ==
  ASSUME NEW c, CalendarsHold(c), TablesHold(c), NEW m \in c.staff, NEW i \in Told(c)!Shifts(m)
  PROVE  /\ i.start \in Nat /\ i.end \in Nat /\ i.start < i.end
         /\ i.end <= (Told(c)!Today + c.week) * c.day
         /\ i.end <= now + c.week * c.day
         /\ \E d \in Told(c)!Today .. Told(c)!Today + c.week - 1 : \E r \in Told(c)!RowsOf(m, d) :
              r.accepts /\ i.start = d * c.day + r.from /\ i.end = d * c.day + r.to
  <1>1. PICK T \in Nat, D \in Nat \ {0}, W \in Nat : T = Told(c)!Today /\ D = c.day /\ W = c.week
    BY TodayIs DEF CalendarsHold
  <1>2. PICK d \in T .. T + W - 1 : \E r \in Told(c)!RowsOf(m, d) :
          r.accepts /\ i = Told(c)!Interval(d, r.from, r.to)
    BY <1>1 DEF Told!Shifts
  <1>3. PICK r \in Told(c)!RowsOf(m, d) : r.accepts /\ i = Told(c)!Interval(d, r.from, r.to)
    BY <1>2
  <1>4. d \in Nat
    BY <1>1, <1>2
  <1>5. /\ r.from \in Nat /\ r.to \in Nat /\ r.from < r.to /\ r.to <= D
        /\ d * D \in Nat /\ i.start = d * D + r.from /\ i.end = d * D + r.to
    BY <1>1, <1>3, <1>4, Intervals
  <1>6. D * (d + 1) <= D * (T + W)
    BY <1>2, <1>4, Multiples
  <1>7. D * (d + 1) = d * D + D /\ D * (T + W) = (T + W) * D /\ (T + W) * D = T * D + W * D
        /\ T * D \in Nat /\ W * D \in Nat
    BY <1>4
  <1>8. PICK A \in Nat, B \in Nat, E \in Nat : A = d * D /\ B = T * D /\ E = W * D
    BY <1>4
  <1>9. B <= now /\ now \in Nat
    BY <1>1, <1>8, TodayIs
  <1>10. i.end <= B + E /\ i.start \in Nat /\ i.end \in Nat /\ i.start < i.end
    BY <1>5, <1>6, <1>7, <1>8
  <1>11. i.end <= (T + W) * D /\ i.end <= now + W * D
    BY <1>7, <1>8, <1>9, <1>10
  <1> QED
    BY <1>1, <1>2, <1>3, <1>5, <1>10, <1>11

\* A master is idle in a shift of hers when no booking in its way covers the time.
LEMMA IdleInShift ==
  ASSUME NEW c, CalendarsHold(c), TablesHold(c), NEW m \in c.staff, NEW B \in SUBSET master[m].bookings, NEW i \in Told(c)!Shifts(m),
         NEW u \in Nat, i.start <= u, u < i.end, now <= u
  PROVE  Told(c)!Idle(m, u, B) <=> \A b \in InTheWay(c, B, i) : ~(b.start <= u /\ u < b.end)
  <1>1. /\ i.start \in Nat /\ i.end \in Nat /\ i.start < i.end /\ i.end <= now + c.week * c.day
        /\ c.week * c.day \in Nat /\ now \in Nat
    BY ShiftsAre, TodayIs DEF CalendarsHold
  <1>2. \A b \in B : b.start \in Int /\ b.end \in Int /\ b.start < b.end
    BY BookingsTakeTime
  <1>3. \E d \in Told(c)!Today .. Told(c)!Today + c.week - 1 : \E r \in Told(c)!RowsOf(m, d) :
          r.accepts /\ d * c.day + r.from <= u /\ u < d * c.day + r.to
    BY ShiftsAre
  <1>4. ASSUME NEW b \in B, b.start <= u, u < b.end
        PROVE  Told(c)!Active(b) <=> b \in InTheWay(c, B, i)
    <2>1. b.end > now /\ b.start < now + c.week * c.day /\ b.start < i.end /\ i.start < b.end
      BY <1>1, <1>2, <1>4
    <2> QED
      BY <1>4, <2>1 DEF InTheWay, Told!Loaded, Told!Meet
  <1>5. InTheWay(c, B, i) \subseteq B
    BY DEF InTheWay, Told!Loaded
  <1>6. Told(c)!Idle(m, u, B) <=> \A b \in B : Told(c)!Active(b) => u < b.start \/ b.end <= u
    BY <1>3 DEF Told!Idle
  <1>7. \A b \in B : (u < b.start \/ b.end <= u) <=> ~(b.start <= u /\ u < b.end)
    BY <1>2
  <1> QED
    BY <1>4, <1>5, <1>6, <1>7

\* FreeIn finds the first idle moment of a shift from now on, if there is one.
LEMMA FreeInIsFirst ==
  ASSUME NEW c, CalendarsHold(c), TablesHold(c), NEW m \in c.staff, NEW B \in SUBSET master[m].bookings, NEW i \in Told(c)!Shifts(m)
  PROVE  /\ Told(c)!FreeIn(B, i) \in Nat
         /\ i.start <= Told(c)!FreeIn(B, i) /\ now <= Told(c)!FreeIn(B, i)
         /\ Told(c)!FreeIn(B, i) < i.end => Told(c)!Idle(m, Told(c)!FreeIn(B, i), B)
         /\ \A u \in Nat : i.start <= u /\ now <= u /\ u < i.end /\ Told(c)!Idle(m, u, B) =>
              Told(c)!FreeIn(B, i) <= u
  <1>1. /\ i.start \in Nat /\ i.end \in Nat /\ now \in Nat
    BY ShiftsAre, TodayIs
  <1>2. PICK x \in Nat : x = Told(c)!Later(i.start, now) /\ i.start <= x /\ now <= x /\ (x = i.start \/ x = now)
    BY <1>1 DEF Told!Later
  <1>3. PICK k : CursorAt(InTheWay(c, B, i), x, k) /\ Told(c)!FreeIn(B, i) = k.at
    BY <1>1, <1>2, FreeInIs
  <1>4. k.at \in Nat /\ x <= k.at
    BY <1>2, <1>3 DEF CursorAt
  <1>5. ASSUME k.at < i.end PROVE Told(c)!Idle(m, k.at, B)
    <2>1. \A b \in InTheWay(c, B, i) : b.start \in Int /\ b.end \in Int
      BY BookingsTakeTime DEF InTheWay, Told!Loaded
    <2>2. \A b \in InTheWay(c, B, i) : b.end <= k.at \/ b.start > k.at
      BY <1>3 DEF CursorAt
    <2>3. \A b \in InTheWay(c, B, i) : ~(b.start <= k.at /\ k.at < b.end)
      BY <1>4, <2>1, <2>2
    <2>4. i.start <= k.at /\ now <= k.at
      BY <1>1, <1>2, <1>4
    <2> QED
      BY <1>4, <1>5, <2>3, <2>4, IdleInShift
  <1>6. ASSUME NEW u \in Nat, i.start <= u, now <= u, u < i.end, Told(c)!Idle(m, u, B)
        PROVE  k.at <= u
    <2> SUFFICES ASSUME ~(k.at <= u) PROVE FALSE
      OBVIOUS
    <2>1. u \in x .. k.at - 1
      BY <1>2, <1>4, <1>6
    <2>2. \E b \in InTheWay(c, B, i) : b.start <= u /\ u < b.end
      BY <1>3, <2>1 DEF CursorAt
    <2> QED
      BY <1>6, <2>2, IdleInShift
  <1> QED
    BY <1>1, <1>2, <1>3, <1>4, <1>5, <1>6

\* The moments within the week at which a master with some bookings is idle; those
\* at which one of some masters is, as far as some salons tell; and the first of some
\* moments.
IdleTimes(c, m, B) == {t \in now .. (Told(c)!Today + c.week) * c.day : Told(c)!Idle(m, t, B)}

IdleOfSome(c, who, salons) ==
  {t \in now .. (Told(c)!Today + c.week) * c.day :
     \E m \in who : Told(c)!Idle(m, t, Told(c)!BookedIn(m, salons))}

Firsts(S) == {t \in S : \A u \in S : t <= u}

\* Idle time lies in a shift of the week.
LEMMA IdleIsInAShift ==
  ASSUME NEW c, CalendarsHold(c), TablesHold(c), NEW m \in c.staff, NEW B \in SUBSET master[m].bookings, NEW u, Told(c)!Idle(m, u, B)
  PROVE  \E i \in Told(c)!Shifts(m) : i.start <= u /\ u < i.end
  <1>1. Told(c)!Today \in Nat /\ c.week \in Nat
    BY TodayIs DEF CalendarsHold
  <1>2. PICK d \in Told(c)!Today .. Told(c)!Today + c.week - 1 :
          \E r \in Told(c)!RowsOf(m, d) : r.accepts /\ d * c.day + r.from <= u /\ u < d * c.day + r.to
    BY DEF Told!Idle
  <1>3. PICK r \in Told(c)!RowsOf(m, d) : r.accepts /\ d * c.day + r.from <= u /\ u < d * c.day + r.to
    BY <1>2
  <1>4. d \in Nat
    BY <1>1, <1>2
  <1>5. PICK i : i = Told(c)!Interval(d, r.from, r.to)
    OBVIOUS
  <1>6. i.start = d * c.day + r.from /\ i.end = d * c.day + r.to
    BY <1>4, <1>5, Intervals
  <1>7. i \in Told(c)!Shifts(m)
    BY <1>2, <1>3, <1>5 DEF Told!Shifts
  <1> QED
    BY <1>3, <1>6, <1>7

\* The next free moment of a master is her first idle one.
LEMMA NextSlotsAreFirst ==
  ASSUME NEW c, CalendarsHold(c), TablesHold(c), NEW m \in c.staff, NEW B \in SUBSET master[m].bookings
  PROVE  /\ Told(c)!NextSlots(m, B) = Firsts(IdleTimes(c, m, B))
         /\ IdleTimes(c, m, B) \subseteq Nat
         /\ IdleTimes(c, m, B) # {} => Told(c)!NextSlots(m, B) # {}
  <1> DEFINE F(i) == Told(c)!FreeIn(B, i)
             open == {i \in Told(c)!Shifts(m) : i.end > now /\ F(i) < i.end}
             idle == IdleTimes(c, m, B)
  <1>1. PICK H \in Nat : H = (Told(c)!Today + c.week) * c.day /\ now \in Nat
    BY TodayIs DEF CalendarsHold
  <1>2. idle = {t \in now .. H : Told(c)!Idle(m, t, B)} /\ idle \subseteq Nat
    BY <1>1 DEF IdleTimes
  <1> HIDE DEF idle
  <1>3. Told(c)!NextSlots(m, B) = {F(i) : i \in {j \in open : \A k \in open : j.start <= k.start}}
    BY DEF Told!NextSlots
  <1>4. ASSUME NEW i \in Told(c)!Shifts(m)
        PROVE  /\ i.start \in Nat /\ i.end \in Nat /\ i.start < i.end
               /\ i.end <= H
               /\ F(i) \in Nat /\ i.start <= F(i) /\ now <= F(i)
               /\ F(i) < i.end => Told(c)!Idle(m, F(i), B)
               /\ \A u \in Nat : i.start <= u /\ now <= u /\ u < i.end /\ Told(c)!Idle(m, u, B) => F(i) <= u
    BY <1>1, ShiftsAre, FreeInIsFirst
  <1>5. ASSUME NEW u \in idle
        PROVE  \E k \in open : k.start <= u /\ u < k.end
    <2>1. u \in Nat /\ now <= u /\ Told(c)!Idle(m, u, B)
      BY <1>1, <1>2
    <2>2. PICK k \in Told(c)!Shifts(m) : k.start <= u /\ u < k.end
      BY <2>1, IdleIsInAShift
    <2>3. F(k) <= u
      BY <1>4, <2>1, <2>2
    <2>4. k.end > now /\ F(k) < k.end
      BY <1>1, <1>4, <2>1, <2>2, <2>3
    <2> QED
      BY <2>2, <2>4
  <1>6. ASSUME NEW i \in open, \A k \in open : i.start <= k.start
        PROVE  F(i) \in Firsts(idle)
    <2>0. i \in Told(c)!Shifts(m) /\ i.end > now /\ F(i) < i.end
      OBVIOUS
    <2>1. /\ i.start \in Nat /\ i.end \in Nat /\ F(i) \in Nat /\ i.start <= F(i) /\ now <= F(i)
          /\ i.end <= H /\ Told(c)!Idle(m, F(i), B)
      BY <1>4, <2>0
    <2>2. F(i) \in idle
      BY <1>1, <1>2, <2>0, <2>1
    <2>3. ASSUME NEW u \in idle PROVE F(i) <= u
      <3>1. u \in Nat /\ now <= u /\ Told(c)!Idle(m, u, B)
        BY <1>1, <1>2
      <3>2. PICK k \in open : k.start <= u /\ u < k.end
        BY <1>5
      <3>3. k.start \in Nat /\ i.start <= k.start
        BY <1>4, <1>6
      <3>4. CASE u < i.end
        <4>1. i.start <= u
          BY <2>1, <3>1, <3>2, <3>3
        <4> QED
          BY <1>4, <2>0, <3>1, <3>4, <4>1
      <3>5. CASE u >= i.end
        BY <2>0, <2>1, <3>1, <3>5
      <3> QED
        BY <2>1, <3>1, <3>4, <3>5
    <2> QED
      BY <2>2, <2>3 DEF Firsts
  <1>7. ASSUME idle # {}
        PROVE  \E i \in open : \A k \in open : i.start <= k.start
    <2>1. open # {}
      BY <1>5, <1>7
    <2> DEFINE S == {k.start : k \in open}
    <2>2. S \in SUBSET Nat /\ S # {}
      BY <1>4, <2>1
    <2>3. PICK x \in S : \A y \in S : x <= y
      <3> HIDE DEF S
      <3> QED
        BY <2>2, SmallestNumber
    <2> QED
      BY <2>3
  <1>8. ASSUME NEW t \in Firsts(idle)
        PROVE  t \in Told(c)!NextSlots(m, B)
    <2>1. t \in idle /\ \A u \in idle : t <= u
      BY DEF Firsts
    <2>2. PICK i \in open : \A k \in open : i.start <= k.start
      BY <1>7, <2>1
    <2>3. F(i) \in Firsts(idle)
      BY <1>6, <2>2
    <2>4. F(i) \in idle /\ F(i) <= t
      BY <2>1, <2>3 DEF Firsts
    <2>5. t = F(i)
      BY <1>2, <2>1, <2>4
    <2> HIDE DEF open, F
    <2> QED
      BY <1>3, <2>2, <2>5
  <1> HIDE DEF open, F
  <1>9. Told(c)!NextSlots(m, B) = Firsts(idle)
    BY <1>3, <1>6, <1>8
  <1>10. idle # {} => Told(c)!NextSlots(m, B) # {}
    BY <1>3, <1>7
  <1> QED
    BY <1>2, <1>9, <1>10 DEF idle

\* The first of the next free moments of some masters is the first at which one
\* of them is idle.
LEMMA NextOfSeveral ==
  ASSUME NEW c, CalendarsHold(c), TablesHold(c), NEW who \in SUBSET c.staff, NEW salons
  PROVE  Firsts(UNION {Told(c)!NextSlots(m, Told(c)!BookedIn(m, salons)) : m \in who}) = Firsts(IdleOfSome(c, who, salons))
  <1> DEFINE Read(m) == Told(c)!BookedIn(m, salons)
             next == UNION {Told(c)!NextSlots(m, Read(m)) : m \in who}
             idle == IdleOfSome(c, who, salons)
  <1>1. \A t : t \in idle <=> \E m \in who : t \in IdleTimes(c, m, Read(m))
    BY DEF IdleTimes, IdleOfSome
  <1>2. ASSUME NEW m \in who
        PROVE  /\ IdleTimes(c, m, Read(m)) \subseteq Nat
               /\ Told(c)!NextSlots(m, Read(m)) = Firsts(IdleTimes(c, m, Read(m)))
               /\ IdleTimes(c, m, Read(m)) # {} => Told(c)!NextSlots(m, Read(m)) # {}
    <2>1. Read(m) \in SUBSET master[m].bookings
      BY DEF Told!BookedIn
    <2> QED
      BY <2>1, NextSlotsAreFirst
  <1>3. \A t : t \in next <=> \E m \in who : t \in Firsts(IdleTimes(c, m, Read(m)))
    BY <1>2
  <1>4. next \subseteq idle /\ idle \subseteq Nat
    BY <1>1, <1>2, <1>3 DEF Firsts
  <1>5. ASSUME NEW u \in idle PROVE \E v \in next : v <= u
    <2>1. PICK m \in who : u \in IdleTimes(c, m, Read(m))
      BY <1>1
    <2>2. PICK v : v \in Firsts(IdleTimes(c, m, Read(m)))
      BY <1>2, <2>1
    <2> QED
      BY <1>3, <2>1, <2>2 DEF Firsts
  <1>6. ASSUME NEW t \in Firsts(idle) PROVE t \in next
    <2>1. PICK m \in who : t \in IdleTimes(c, m, Read(m))
      BY <1>1 DEF Firsts
    <2>2. t \in Firsts(IdleTimes(c, m, Read(m)))
      BY <1>1, <2>1 DEF Firsts
    <2> QED
      BY <1>3, <2>2
  <1> HIDE DEF next, idle, Read
  <1>7. ASSUME NEW t \in Firsts(next) PROVE t \in Firsts(idle)
    <2>1. t \in next /\ t \in idle /\ \A v \in next : t <= v
      BY <1>4 DEF Firsts
    <2>2. ASSUME NEW u \in idle PROVE t <= u
      <3>1. PICK v \in next : v <= u
        BY <1>5
      <3>2. t \in Nat /\ u \in Nat /\ v \in Nat /\ t <= v
        BY <1>4, <2>1, <2>2, <3>1
      <3> QED
        BY <3>1, <3>2
    <2> QED
      BY <2>1, <2>2 DEF Firsts
  <1>8. ASSUME NEW t \in Firsts(idle) PROVE t \in Firsts(next)
    BY <1>4, <1>6 DEF Firsts
  <1>9. Firsts(next) = Firsts(idle)
    BY <1>7, <1>8
  <1> QED
    BY <1>9 DEF next, idle, Read

LEMMA ToldCount ==
  ASSUME NEW c, NEW S
  PROVE  Told(c)!Cardinality(S) = Cardinality(S)
  BY DEF Told!Cardinality, Cardinality

\* A booking that Plain allows is, on its day, the minutes MasterDetailPage makes of it.
LEMMA PlainBooking ==
  ASSUME NEW c, CalendarsHold(c), NEW start \in Int, NEW end \in Int, start < end,
         start % c.minute = 0, end % c.minute = 0,
         end <= (start \div c.day + 1) * c.day - c.minute
  PROVE  \E q \in Int :
           /\ q = start \div c.day
           /\ Told(c)!MinuteOf(start) \in Nat /\ Told(c)!MinuteOf(end) \in Nat
           /\ Told(c)!MinuteOf(start) < c.day /\ Told(c)!MinuteOf(end) < c.day
           /\ start = c.day * q + Told(c)!MinuteOf(start)
           /\ end = c.day * q + Told(c)!MinuteOf(end)
  <1>1. PICK D \in Nat \ {0}, M \in Nat \ {0}, x \in Int, y \in Int :
          D = c.day /\ M = c.minute /\ x = start /\ y = end
    BY DEF CalendarsHold
  <1>2. PICK q \in Int, s \in 0 .. D - 1 : q = x \div D /\ s = x % D /\ x = D * q + s
    BY Division
  <1>3. PICK A \in Int : A = D * q
    OBVIOUS
  <1>4. x < y /\ y <= A + D - M /\ x = A + s
    <2>1. y <= (q + 1) * D - M
      BY <1>1, <1>2
    <2>2. (q + 1) * D = A + D
      <3>1. q \in Int /\ D \in Int
        OBVIOUS
      <3> QED
        BY <1>3, <3>1
    <2>3. x = A + s
      BY <1>2, <1>3
    <2> QED
      BY <1>1, <2>1, <2>2, <2>3
  <1>5. PICK e \in 0 .. D - 1 : y = A + e
    <2>1. y - A \in 0 .. D - 1 /\ y = A + (y - A)
      BY <1>4
    <2> QED
      BY <2>1
  <1>6. y % D = e
    <2>1. y = D * q + e
      BY <1>3, <1>5
    <2> QED
      BY <2>1, Quotient
  <1>7. Told(c)!MinuteOf(start) = s /\ Told(c)!MinuteOf(end) = e
    <2>1. x - (x % M) = x /\ y - (y % M) = y
      BY <1>1
    <2> QED
      BY <1>1, <1>2, <1>6, <2>1 DEF Told!MinuteOf
  <1>8. q = start \div c.day /\ start = c.day * q + s /\ end = c.day * q + e
    BY <1>1, <1>2, <1>3, <1>5
  <1>9. s \in Nat /\ e \in Nat /\ s < c.day /\ e < c.day
    BY <1>1
  <1> QED
    BY <1>7, <1>8, <1>9

\* Different days have different dates; on the server's clock they are the days.
LEMMA DatesDiffer ==
  ASSUME NEW c, CalendarsHold(c), NEW z \in Int, NEW d \in Int, NEW q \in Int
  PROVE  /\ Told(c)!DateOf(d, z) = Told(c)!DateOf(q, z) => d = q
         /\ Told(c)!DateOf(d, 0) = d
  <1>1. PICK D \in Nat \ {0} : D = c.day
    BY DEF CalendarsHold
  <1>2. PICK k \in Int, s \in 0 .. D - 1 : 0 - z = D * k + s
    <2>1. 0 - z \in Int
      OBVIOUS
    <2>2. (0 - z) % D \in 0 .. D - 1 /\ (0 - z) \div D \in Int /\ 0 - z = D * ((0 - z) \div D) + ((0 - z) % D)
      BY <2>1, Division
    <2> QED
      BY <2>2
  <1>3. ASSUME NEW e \in Int PROVE (e * D - z) \div D = e + k
    <2>1. PICK X \in Int, Y \in Int : X = D * e /\ Y = D * k /\ e * D = X /\ D * (e + k) = X + Y
      OBVIOUS
    <2>2. e * D - z = D * (e + k) + s
      BY <1>2, <2>1
    <2>3. e * D - z \in Int /\ e + k \in Int
      BY <2>1
    <2> QED
      BY <2>2, <2>3, Quotient
  <1>4. ASSUME NEW e \in Int PROVE (e * D - 0) \div D = e
    <2>1. e * D - 0 = D * e + 0 /\ e * D - 0 \in Int /\ 0 \in 0 .. D - 1
      OBVIOUS
    <2> QED
      BY <2>1, Quotient
  <1>5. Told(c)!DateOf(d, z) = d + k /\ Told(c)!DateOf(q, z) = q + k /\ Told(c)!DateOf(d, 0) = d
    BY <1>1, <1>3, <1>4 DEF Told!DateOf
  <1> QED
    BY <1>5

LEMMA HomeTodayIs ==
  ASSUME NEW c, CalendarsHold(c), TablesHold(c), NEW z \in c.zones
  PROVE  /\ z \in Int /\ now \in Nat /\ Told(c)!HomeToday(z) \in Nat
         /\ Told(c)!HomeToday(z) * c.day <= now + z /\ now + z < Told(c)!HomeToday(z) * c.day + c.day
  <1>1. z \in Int /\ now \in Nat /\ now + z \in Nat /\ c.day \in Nat \ {0}
    BY DEF CalendarsHold, TablesHold
  <1>0. PICK D \in Nat \ {0}, x \in Nat : D = c.day /\ x = now + z
    BY <1>1
  <1>2. PICK T \in Int, R \in 0 .. D - 1 : T = x \div D /\ x = D * T + R
    <2>1. x \div D \in Int /\ x % D \in 0 .. D - 1 /\ x = D * (x \div D) + (x % D)
      BY Division
    <2> QED
      BY <2>1
  <1>3. T >= 0
    <2>1. CASE T < 0
      <3>1. D * T + D <= D * 0
        BY <2>1, Multiples
      <3> QED
        BY <1>2, <3>1
    <2> QED
      BY <2>1
  <1>4. Told(c)!HomeToday(z) = T /\ D * T = T * D
    BY <1>0, <1>2 DEF Told!HomeToday
  <1>5. PICK A \in Int : A = D * T
    OBVIOUS
  <1> QED
    BY <1>0, <1>1, <1>2, <1>3, <1>4, <1>5

\* The day's bookings that the page has are all that meet a time of the day, on the
\* browser's clock.
LEMMA BusyIsMet ==
  ASSUME NEW c, CalendarsHold(c), TablesHold(c), NEW m \in c.staff,
         NEW z \in c.zones, NEW d \in Told(c)!HomeToday(z) .. Told(c)!HomeToday(z) + c.week - 1,
         Told(c)!Plain(m, d, z),
         NEW t \in Nat, NEW length \in Nat, t + length <= c.day
  PROVE  /\ (\E b \in master[m].bookings : Told(c)!Active(b) /\ Told(c)!Meet(d * c.day + t - z, d * c.day + t - z + length, b))
              <=> Told(c)!Hits(Told(c)!BusyOn(m, d, z), t, t + length)
         /\ \A i \in Told(c)!BusyOn(m, d, z) : i[1] \in Int /\ i[2] \in Int
  <1>1. PICK D \in Nat \ {0}, T \in Nat, W \in Nat : D = c.day /\ T = Told(c)!HomeToday(z) /\ W = c.week
    BY HomeTodayIs DEF CalendarsHold
  <1>2. d \in Nat /\ T <= d /\ d + 1 <= T + W
    BY <1>1
  <1>3. PICK B \in Nat : B = d * D /\ D * d = B /\ D * (d + 1) = B + D
    BY <1>2
  <1>4. PICK A \in Nat, E \in Nat : A = D * T /\ E = W * D /\ D * (T + W) = A + E /\ T * D = A
    BY <1>1
  <1>5. A <= B /\ B + D <= A + E
    <2>1. D * T <= D * d /\ D * (d + 1) <= D * (T + W)
      BY <1>2, Multiples
    <2> QED
      BY <1>3, <1>4, <2>1
  <1>6. now \in Nat /\ z \in Int /\ A <= now + z /\ now + z < A + D
    BY <1>1, <1>4, HomeTodayIs
  <1>7. ASSUME NEW b \in master[m].bookings, Told(c)!Active(b)
        PROVE  \E q \in Int :
                 /\ b.start \in Int /\ b.end \in Int /\ b.start < b.end
                 /\ q = (b.start + z) \div D /\ b.start \div D = Told(c)!DateOf(q, z)
                 /\ Told(c)!MinuteOf(b.start + z) \in 0 .. D - 1 /\ Told(c)!MinuteOf(b.end + z) \in 0 .. D - 1
                 /\ b.start + z = D * q + Told(c)!MinuteOf(b.start + z)
                 /\ b.end + z = D * q + Told(c)!MinuteOf(b.end + z)
    <2>1. b.start \in Int /\ b.end \in Int /\ b.start < b.end
      BY BookingsTakeTime
    <2>2. /\ (b.start + z) % c.minute = 0 /\ (b.end + z) % c.minute = 0
          /\ b.end + z <= ((b.start + z) \div c.day + 1) * c.day - c.minute
          /\ b.start \div c.day = Told(c)!DateOf((b.start + z) \div c.day, z)
      BY <1>7 DEF Told!Plain
    <2>5. b.start + z \in Int /\ b.end + z \in Int /\ b.start + z < b.end + z
      BY <1>6, <2>1
    <2>3. PICK q \in Int :
            /\ q = (b.start + z) \div c.day
            /\ Told(c)!MinuteOf(b.start + z) \in Nat /\ Told(c)!MinuteOf(b.end + z) \in Nat
            /\ Told(c)!MinuteOf(b.start + z) < c.day /\ Told(c)!MinuteOf(b.end + z) < c.day
            /\ b.start + z = c.day * q + Told(c)!MinuteOf(b.start + z)
            /\ b.end + z = c.day * q + Told(c)!MinuteOf(b.end + z)
      BY <2>2, <2>5, PlainBooking
    <2>4. Told(c)!MinuteOf(b.start + z) \in 0 .. D - 1 /\ Told(c)!MinuteOf(b.end + z) \in 0 .. D - 1
      BY <1>1, <2>3
    <2> QED
      BY <1>1, <2>1, <2>2, <2>3, <2>4
  <1>8. ASSUME NEW b \in master[m].bookings, Told(c)!Active(b), b.start \div D = Told(c)!DateOf(d, z)
        PROVE  /\ b \in Told(c)!Given(m)
               /\ Told(c)!MinuteOf(b.start + z) \in Int /\ Told(c)!MinuteOf(b.end + z) \in Int
               /\ Told(c)!Meet(B + t - z, B + t - z + length, b) <=>
                    t < Told(c)!MinuteOf(b.end + z) /\ Told(c)!MinuteOf(b.start + z) < t + length
    <2>1. /\ b.start \in Int /\ b.end \in Int
          /\ Told(c)!MinuteOf(b.start + z) \in 0 .. D - 1 /\ Told(c)!MinuteOf(b.end + z) \in 0 .. D - 1
          /\ b.start + z = B + Told(c)!MinuteOf(b.start + z)
          /\ b.end + z = B + Told(c)!MinuteOf(b.end + z)
      <3>1. PICK q \in Int :
                 /\ b.start \in Int /\ b.end \in Int /\ b.start < b.end
                 /\ q = (b.start + z) \div D /\ b.start \div D = Told(c)!DateOf(q, z)
                 /\ Told(c)!MinuteOf(b.start + z) \in 0 .. D - 1 /\ Told(c)!MinuteOf(b.end + z) \in 0 .. D - 1
                 /\ b.start + z = D * q + Told(c)!MinuteOf(b.start + z)
                 /\ b.end + z = D * q + Told(c)!MinuteOf(b.end + z)
        BY <1>7, <1>8
      <3>2. d = q
        BY <1>2, <1>6, <1>8, <3>1, DatesDiffer
      <3> QED
        BY <1>3, <3>1, <3>2
    <2>2. b.start >= now - D /\ b.start <= now + E
      BY <1>5, <1>6, <2>1
    <2>3. b \in Told(c)!Given(m)
      BY <1>1, <1>4, <1>8, <2>2 DEF Told!Given
    <2>4. Told(c)!Meet(B + t - z, B + t - z + length, b) <=> B + t - z < b.end /\ b.start < B + t - z + length
      BY DEF Told!Meet
    <2> QED
      BY <1>6, <2>1, <2>3, <2>4
  <1>9. ASSUME NEW b \in master[m].bookings, Told(c)!Active(b), Told(c)!Meet(B + t - z, B + t - z + length, b)
        PROVE  b.start \div D = Told(c)!DateOf(d, z)
    <2>1. PICK q \in Int :
                 /\ b.start \in Int /\ b.end \in Int /\ b.start < b.end
                 /\ q = (b.start + z) \div D /\ b.start \div D = Told(c)!DateOf(q, z)
                 /\ Told(c)!MinuteOf(b.start + z) \in 0 .. D - 1 /\ Told(c)!MinuteOf(b.end + z) \in 0 .. D - 1
                 /\ b.start + z = D * q + Told(c)!MinuteOf(b.start + z)
                 /\ b.end + z = D * q + Told(c)!MinuteOf(b.end + z)
      BY <1>7, <1>9
    <2>2. B + t - z < b.end /\ b.start < B + t - z + length
      BY <1>9 DEF Told!Meet
    <2>3. PICK Q \in Int : Q = D * q
      OBVIOUS
    <2>4. B < Q + D /\ Q < B + D
      BY <1>1, <1>6, <2>1, <2>2, <2>3
    <2>5. CASE q < d
      <3>1. D * q + D <= D * d
        BY <1>2, <2>5, Multiples
      <3> QED
        BY <1>3, <2>3, <2>4, <3>1
    <2>6. CASE d < q
      <3>1. D * d + D <= D * q
        BY <1>2, <2>6, Multiples
      <3> QED
        BY <1>3, <2>3, <2>4, <3>1
    <2> QED
      BY <1>2, <2>1, <2>5, <2>6
  <1>10. \A b \in Told(c)!Given(m) : b \in master[m].bookings /\ Told(c)!Active(b)
    BY DEF Told!Given
  <1>11. Told(c)!BusyOn(m, d, z) =
           {<<Told(c)!MinuteOf(b.start + z), Told(c)!MinuteOf(b.end + z)>> :
              b \in {x \in Told(c)!Given(m) : x.start \div D = Told(c)!DateOf(d, z)}}
    BY <1>1 DEF Told!BusyOn
  <1>12. ASSUME NEW b \in master[m].bookings, Told(c)!Active(b), Told(c)!Meet(B + t - z, B + t - z + length, b)
         PROVE  Told(c)!Hits(Told(c)!BusyOn(m, d, z), t, t + length)
    <2>1. /\ b \in Told(c)!Given(m) /\ b.start \div D = Told(c)!DateOf(d, z)
          /\ t < Told(c)!MinuteOf(b.end + z) /\ Told(c)!MinuteOf(b.start + z) < t + length
      BY <1>8, <1>9, <1>12
    <2>2. <<Told(c)!MinuteOf(b.start + z), Told(c)!MinuteOf(b.end + z)>> \in Told(c)!BusyOn(m, d, z)
      BY <1>11, <2>1
    <2> QED
      BY <2>1, <2>2 DEF Told!Hits
  <1>13. ASSUME NEW i \in Told(c)!BusyOn(m, d, z)
         PROVE  /\ i[1] \in Int /\ i[2] \in Int
                /\ t < i[2] /\ i[1] < t + length =>
                     \E b \in master[m].bookings : Told(c)!Active(b) /\ Told(c)!Meet(B + t - z, B + t - z + length, b)
    <2>1. PICK b \in Told(c)!Given(m) :
            b.start \div D = Told(c)!DateOf(d, z) /\ i = <<Told(c)!MinuteOf(b.start + z), Told(c)!MinuteOf(b.end + z)>>
      BY <1>11
    <2>2. i[1] = Told(c)!MinuteOf(b.start + z) /\ i[2] = Told(c)!MinuteOf(b.end + z)
      BY <2>1
    <2> QED
      BY <1>8, <1>10, <2>1, <2>2
  <1>14. Told(c)!Hits(Told(c)!BusyOn(m, d, z), t, t + length) =>
           \E b \in master[m].bookings : Told(c)!Active(b) /\ Told(c)!Meet(B + t - z, B + t - z + length, b)
    BY <1>13 DEF Told!Hits
  <1> QED
    BY <1>1, <1>3, <1>12, <1>13, <1>14

\* Where the clocks are the same, a visit fits in when the server would let it be
\* booked.
LEMMA FitsIsFree ==
  ASSUME NEW c, CalendarsHold(c), TablesHold(c), NEW m \in c.staff, NEW d \in Nat, NEW t \in Nat,
         NEW length \in Nat \ {0}
  PROVE  Told(c)!FitsIn(m, d, t, length, 0) <=> Told(c)!Free(m, d, d * c.day + t, length)
  <1>1. PICK D \in Nat \ {0}, B \in Nat : D = c.day /\ B = d * D
    BY DEF CalendarsHold
  <1>2. ASSUME NEW r \in Told(c)!RowsOf(m, d)
        PROVE  /\ r.from \in Nat /\ r.to \in Nat
               /\ Told(c)!Interval(d, r.from, r.to).start = B + r.from
               /\ Told(c)!Interval(d, r.from, r.to).end = B + r.to
    BY <1>1, Intervals
  <1>3. ASSUME NEW r \in Told(c)!RowsOf(m, d), NEW p \in r.breaks
        PROVE  Told(c)!Meet(B + t, B + t + length, Told(c)!Interval(d, p[1], p[2])) <=>
                 Told(c)!Meet(t, t + length, Told(c)!Interval(0, p[1], p[2]))
    <2>1. PICK a \in Nat, e \in Nat : a = p[1] /\ e = p[2]
      BY Intervals
    <2>2. PICK w \in Nat : w = e + (IF e <= a THEN D ELSE 0)
      OBVIOUS
    <2>3. /\ Told(c)!Interval(d, a, e).start = B + a /\ Told(c)!Interval(d, a, e).end = B + w
          /\ Told(c)!Interval(0, a, e).start = a /\ Told(c)!Interval(0, a, e).end = w
      BY <1>1, <2>2 DEF Told!Interval
    <2>4. Told(c)!Meet(B + t, B + t + length, Told(c)!Interval(d, a, e)) <=> B + t < B + w /\ B + a < B + t + length
      BY <2>3 DEF Told!Meet
    <2>5. Told(c)!Meet(t, t + length, Told(c)!Interval(0, a, e)) <=> t < w /\ a < t + length
      BY <2>3 DEF Told!Meet
    <2> QED
      BY <2>1, <2>4, <2>5
  <1>4. \A r \in Told(c)!RowsOf(m, d) :
          /\ B + r.from <= B + t <=> r.from <= t
          /\ B + t + length <= B + r.to <=> t + length <= r.to
    BY <1>2
  <1>5. B + t - 0 = B + t
    OBVIOUS
  <1>6. Told(c)!FitsIn(m, d, t, length, 0) <=>
          /\ \E r \in Told(c)!RowsOf(m, d) :
               /\ r.accepts
               /\ r.from <= t /\ t + length <= r.to
               /\ \A p \in r.breaks : ~Told(c)!Meet(t, t + length, Told(c)!Interval(0, p[1], p[2]))
          /\ \A b \in master[m].bookings : Told(c)!Active(b) => ~Told(c)!Meet(B + t, B + t + length, b)
    BY <1>1, <1>5 DEF Told!FitsIn
  <1>7. Told(c)!Free(m, d, B + t, length) <=>
          /\ \E r \in Told(c)!RowsOf(m, d) :
               /\ r.accepts
               /\ B + r.from <= B + t /\ B + t + length <= B + r.to
               /\ \A p \in r.breaks : ~Told(c)!Meet(B + t, B + t + length, Told(c)!Interval(d, p[1], p[2]))
          /\ \A b \in master[m].bookings : Told(c)!Active(b) => ~Told(c)!Meet(B + t, B + t + length, b)
    BY <1>2 DEF Told!Free
  <1> QED
    BY <1>1, <1>3, <1>4, <1>6, <1>7

\* On a plain day, a visit fits in when the page's minutes say so of all of it.
LEMMA FitsInMinutes ==
  ASSUME NEW c, CalendarsHold(c), TablesHold(c), NEW m \in c.staff,
         NEW z \in c.zones, NEW d \in Told(c)!HomeToday(z) .. Told(c)!HomeToday(z) + c.week - 1,
         Told(c)!Plain(m, d, z),
         NEW r \in Told(c)!RowsOf(m, d), r.accepts,
         NEW t \in r.from .. r.to - 1, NEW length \in Nat \ {0}
  PROVE  Told(c)!FitsIn(m, d, t, length, z) <=>
           /\ t + length <= r.to
           /\ ~Told(c)!Hits(Told(c)!PausesOf(r), t, t + length)
           /\ ~Told(c)!Hits(Told(c)!BusyOn(m, d, z), t, t + length)
  <1>1. PICK D \in Nat \ {0}, T \in Nat, W \in Nat : D = c.day /\ T = Told(c)!HomeToday(z) /\ W = c.week
    BY HomeTodayIs DEF CalendarsHold
  <1>2. d \in Nat /\ z \in Int
    BY <1>1, HomeTodayIs
  <1>3. PICK B \in Nat : B = d * D
    BY <1>2
  <1>4. r.from \in Nat /\ r.to \in Nat /\ r.from < r.to /\ r.to <= D
    BY <1>1, <1>2, Intervals
  <1>5. t \in Nat /\ r.from <= t /\ t < r.to
    BY <1>4
  <1>6. Told(c)!RowsOf(m, d) = {r}
    <2>1. IsFiniteSet(Told(c)!RowsOf(m, d))
      <3>1. IsFiniteSet(master[m].rows) /\ Told(c)!RowsOf(m, d) \subseteq master[m].rows
        BY DEF CalendarsHold, TablesHold, Told!RowsOf
      <3> QED
        BY <3>1, FS_Subset
    <2>2. Cardinality(Told(c)!RowsOf(m, d)) = 1
      BY ToldCount DEF Told!Plain
    <2>3. PICK x : Told(c)!RowsOf(m, d) = {x}
      BY <2>1, <2>2, FS_Singleton
    <2> QED
      BY <2>3
  <1>7. (\A p \in r.breaks : ~Told(c)!Meet(t, t + length, Told(c)!Interval(0, p[1], p[2])))
          <=> ~Told(c)!Hits(Told(c)!PausesOf(r), t, t + length)
    <2>1. Told(c)!PausesOf(r) = r.breaks
      BY DEF Told!Plain
    <2>2. ASSUME NEW p \in r.breaks
          PROVE  Told(c)!Meet(t, t + length, Told(c)!Interval(0, p[1], p[2])) <=> t < p[2] /\ p[1] < t + length
      <3>1. p[2] > p[1] /\ p[1] \in Nat /\ p[2] \in Nat
        BY <1>2, <2>1, Intervals DEF Told!PausesOf
      <3>2. Told(c)!Interval(0, p[1], p[2]).start = p[1] /\ Told(c)!Interval(0, p[1], p[2]).end = p[2]
        <4>1. 0 * c.day = 0
          BY <1>1
        <4> QED
          BY <3>1, <4>1 DEF Told!Interval
      <3> QED
        BY <3>2 DEF Told!Meet
    <2> QED
      BY <2>1, <2>2 DEF Told!Hits
  <1>8. Told(c)!FitsIn(m, d, t, length, z) <=>
          /\ t + length <= r.to
          /\ \A p \in r.breaks : ~Told(c)!Meet(t, t + length, Told(c)!Interval(0, p[1], p[2]))
          /\ \A b \in master[m].bookings : Told(c)!Active(b) => ~Told(c)!Meet(B + t - z, B + t - z + length, b)
    BY <1>1, <1>3, <1>5, <1>6 DEF Told!FitsIn
  <1>9. ASSUME t + length <= r.to
        PROVE  (\A b \in master[m].bookings : Told(c)!Active(b) => ~Told(c)!Meet(B + t - z, B + t - z + length, b))
                 <=> ~Told(c)!Hits(Told(c)!BusyOn(m, d, z), t, t + length)
    <2>1. t + length <= c.day /\ length \in Nat
      BY <1>1, <1>4, <1>5, <1>9
    <2>2. (\E b \in master[m].bookings :
             Told(c)!Active(b) /\ Told(c)!Meet(d * c.day + t - z, d * c.day + t - z + length, b))
              <=> Told(c)!Hits(Told(c)!BusyOn(m, d, z), t, t + length)
      BY <1>5, <2>1, BusyIsMet
    <2> QED
      BY <1>1, <1>3, <2>2
  <1> QED
    BY <1>7, <1>8, <1>9

\* What the page shows of a plain day is true of its clock.
LEMMA CellIsFree ==
  ASSUME NEW c, CalendarsHold(c), TablesHold(c), NEW m \in c.staff,
         NEW z \in c.zones, NEW d \in Told(c)!HomeToday(z) .. Told(c)!HomeToday(z) + c.week - 1,
         Told(c)!Plain(m, d, z),
         NEW r \in Told(c)!RowsOf(m, d), r.accepts,
         NEW t \in r.from .. r.to - 1, NEW length \in Nat \ {0}, NEW home \in BOOLEAN, home => r.home
  PROVE  /\ Told(c)!Cell(r, Told(c)!BusyOn(m, d, z), t, length, home) = "FREE" => Told(c)!FitsIn(m, d, t, length, z)
         /\ Told(c)!FitsIn(m, d, t, length, z) /\ length >= c.step =>
              Told(c)!Cell(r, Told(c)!BusyOn(m, d, z), t, length, home) = "FREE"
  <1> DEFINE P == Told(c)!PausesOf(r)
             B == Told(c)!BusyOn(m, d, z)
             cell == IF t + c.step < r.to THEN t + c.step ELSE r.to
  <1>1. d \in Nat /\ c.step \in Nat /\ c.day \in Nat
    <2>1. Told(c)!HomeToday(z) \in Nat /\ c.week \in Nat
      BY HomeTodayIs DEF CalendarsHold
    <2> QED
      BY <2>1 DEF CalendarsHold
  <1>2. /\ r.from \in Nat /\ r.to \in Nat /\ r.to <= c.day
        /\ \A p \in r.breaks : p[1] \in Nat /\ p[2] \in Nat
    BY <1>1, Intervals
  <1>3. t \in Nat /\ cell \in Nat
    BY <1>1, <1>2
  <1>4. Told(c)!FitsIn(m, d, t, length, z) <=>
           /\ t + length <= r.to
           /\ ~Told(c)!Hits(P, t, t + length)
           /\ ~Told(c)!Hits(B, t, t + length)
    BY FitsInMinutes
  <1>5. Told(c)!Hits(P \cup B, t, t + length) <=> Told(c)!Hits(P, t, t + length) \/ Told(c)!Hits(B, t, t + length)
    BY DEF Told!Hits
  <1>6. Told(c)!Cell(r, Told(c)!BusyOn(m, d, z), t, length, home) = "FREE" <=>
          /\ ~Told(c)!Hits(P, t, cell) /\ ~Told(c)!Hits(B, t, cell)
          /\ ~(t + length > r.to \/ Told(c)!Hits(P \cup B, t, t + length))
    <2> DEFINE paused == Told(c)!Hits(P, t, cell)
               busy == Told(c)!Hits(B, t, cell)
               off == t + length > r.to \/ Told(c)!Hits(P \cup B, t, t + length) \/ (home /\ ~r.home)
    <2>1. Told(c)!Cell(r, Told(c)!BusyOn(m, d, z), t, length, home) =
            CASE paused -> "PAUSE" [] busy /\ ~paused -> "BUSY"
              [] OTHER -> IF off THEN "OFF_DUTY" ELSE "FREE"
      BY DEF Told!Cell
    <2>2. paused \in BOOLEAN /\ busy \in BOOLEAN /\ off \in BOOLEAN
      BY DEF Told!Hits
    <2>3. off <=> t + length > r.to \/ Told(c)!Hits(P \cup B, t, t + length)
      OBVIOUS
    <2> HIDE DEF paused, busy, off
    <2>4. Told(c)!Cell(r, Told(c)!BusyOn(m, d, z), t, length, home) = "FREE" <=> ~paused /\ ~busy /\ ~off
      BY <2>1, <2>2
    <2> QED
      BY <2>3, <2>4 DEF paused, busy, off
  <1>7. ASSUME t + length <= r.to, length >= c.step
        PROVE  /\ Told(c)!Hits(P, t, cell) => Told(c)!Hits(P, t, t + length)
               /\ Told(c)!Hits(B, t, cell) => Told(c)!Hits(B, t, t + length)
    <2>1. t + length \in Nat /\ cell <= t + length /\ t + length <= c.day
      BY <1>1, <1>2, <1>3, <1>7
    <2>2. \A i \in P : i[1] \in Int
      BY <1>2 DEF Told!PausesOf
    <2>3. \A i \in B : i[1] \in Int
      BY <1>3, <2>1, BusyIsMet
    <2> HIDE DEF P, B, cell
    <2>4. \A i \in P : i[1] < cell => i[1] < t + length
      BY <1>3, <2>1, <2>2
    <2>5. \A i \in B : i[1] < cell => i[1] < t + length
      BY <1>3, <2>1, <2>3
    <2> QED
      BY <2>4, <2>5 DEF Told!Hits
  <1> HIDE DEF P, B, cell
  <1>8. Told(c)!Cell(r, Told(c)!BusyOn(m, d, z), t, length, home) = "FREE" =>
          t + length <= r.to /\ ~Told(c)!Hits(P \cup B, t, t + length)
    BY <1>2, <1>3, <1>6
  <1>9. ASSUME t + length <= r.to, length >= c.step, ~Told(c)!Hits(P, t, t + length), ~Told(c)!Hits(B, t, t + length)
        PROVE  Told(c)!Cell(r, Told(c)!BusyOn(m, d, z), t, length, home) = "FREE"
    <2>1. ~Told(c)!Hits(P, t, cell) /\ ~Told(c)!Hits(B, t, cell) /\ ~Told(c)!Hits(P \cup B, t, t + length)
      BY <1>5, <1>7, <1>9
    <2>2. ~(t + length > r.to)
      BY <1>2, <1>3, <1>9
    <2> QED
      BY <1>6, <2>1, <2>2
  <1> QED
    BY <1>4, <1>5, <1>8, <1>9

-----------------------------------------------------------------------------
\* A step that leaves the tables and the time as they are changes nothing that
\* an answer is measured by.
LEMMA SameTables ==
  ASSUME NEW CONSTANT c, master' = master, now' = now
  PROVE  /\ Told(c)!Today' = Told(c)!Today
         /\ \A m, d : Told(c)!RowsOf(m, d)' = Told(c)!RowsOf(m, d)
         /\ \A m, u, B : Told(c)!Idle(m, u, B)' <=> Told(c)!Idle(m, u, B)
         /\ \A m, d, length : Told(c)!IdleSlots(m, d, length)' = Told(c)!IdleSlots(m, d, length)
         /\ \A m, u, L : Told(c)!Idle(m, u, Told(c)!BookedIn(m, L))' <=> Told(c)!Idle(m, u, Told(c)!BookedIn(m, L))
         /\ \A m, salons : Told(c)!BookedIn(m, salons)' = Told(c)!BookedIn(m, salons)
         /\ \A m, d, t, length : Told(c)!Free(m, d, t, length)' <=> Told(c)!Free(m, d, t, length)
         /\ \A m, d, t, length, z : Told(c)!FitsIn(m, d, t, length, z)' <=> Told(c)!FitsIn(m, d, t, length, z)
         /\ \A m, d, z : Told(c)!Plain(m, d, z)' <=> Told(c)!Plain(m, d, z)
  <1>1. Told(c)!Today' = Told(c)!Today
    BY DEF Told!Today
  <1>2. \A m, d : Told(c)!RowsOf(m, d)' = Told(c)!RowsOf(m, d)
    BY DEF Told!RowsOf
  <1>3. \A m, u, B : Told(c)!Idle(m, u, B)' <=> Told(c)!Idle(m, u, B)
    BY <1>1, <1>2 DEF Told!Idle, Told!Active
  <1>4. \A m, d, t, length : Told(c)!Free(m, d, t, length)' <=> Told(c)!Free(m, d, t, length)
    BY <1>2 DEF Told!Free, Told!Active, Told!Meet, Told!Interval
  <1>5. \A m, d, z : Told(c)!Plain(m, d, z)' <=> Told(c)!Plain(m, d, z)
    BY <1>2 DEF Told!Plain, Told!Active, Told!PausesOf, Told!Cardinality, Told!DateOf
  <1>6. \A m, salons : Told(c)!BookedIn(m, salons)' = Told(c)!BookedIn(m, salons)
    BY DEF Told!BookedIn
  <1>7. \A m, d, t, length, z : Told(c)!FitsIn(m, d, t, length, z)' <=> Told(c)!FitsIn(m, d, t, length, z)
    BY <1>2 DEF Told!FitsIn, Told!Active, Told!Meet, Told!Interval
  <1>8. \A m, d, length : Told(c)!IdleSlots(m, d, length)' = Told(c)!IdleSlots(m, d, length)
    BY DEF Told!IdleSlots, Told!Idle, Told!Active, Told!RowsOf, Told!Today
  <1>9. \A m, u, L : Told(c)!Idle(m, u, Told(c)!BookedIn(m, L))' <=> Told(c)!Idle(m, u, Told(c)!BookedIn(m, L))
    BY <1>1, <1>2 DEF Told!Idle, Told!Active, Told!BookedIn
  <1> QED
    BY <1>1, <1>2, <1>3, <1>4, <1>5, <1>6, <1>7, <1>8, <1>9

\* The slots of a day.
LEMMA SlotsTold ==
  ASSUME NEW CONSTANT c, CalendarsHold(c), TablesHold(c), Told(c)!AskSlots
  PROVE  Told(c)!AnswersTrue'
  <1>1. PICK d \in Told(c)!Today .. Told(c)!Today + 1, length \in c.durations, who \in SUBSET Told(c)!Eligible \ {{}} :
          answer' = [kind |-> "slots", day |-> d, length |-> length, who |-> who,
                     slots |-> [m \in who |-> Told(c)!SlotsOf(m, d, length)]]
    BY DEF Told!AskSlots
  <1>2. master' = master /\ now' = now
    BY DEF Told!AskSlots
  <1>3. /\ answer'.kind = "slots" /\ answer'.day = d /\ answer'.length = length /\ answer'.who = who
        /\ \A m \in who : answer'.slots[m] = Told(c)!SlotsOf(m, d, length)
    BY <1>1
  <1>4. who \subseteq c.staff
    BY DEF Told!Eligible
  <1>5. d \in Nat /\ (d = Told(c)!Today \/ d = Told(c)!Today + 1) /\ length \in Nat \ {0}
    <2>1. Told(c)!Today \in Nat /\ c.durations \subseteq Nat \ {0}
      BY TodayIs DEF CalendarsHold
    <2> QED
      BY <2>1
  <1>6. ASSUME NEW m \in who PROVE answer'.slots[m] = Told(c)!IdleSlots(m, d, length)
    BY <1>3, <1>4, <1>5, SlotsAreGood
  <1>7. Told(c)!SlotsExact'
    <2>1. \A m, e, l : Told(c)!IdleSlots(m, e, l)' = Told(c)!IdleSlots(m, e, l)
      BY <1>2, SameTables
    <2> QED
      BY <1>3, <1>6, <2>1 DEF Told!SlotsExact
  <1>8. Told(c)!NextIsFirst' /\ Told(c)!WeekAgrees'
    BY <1>3 DEF Told!NextIsFirst, Told!WeekAgrees
  <1> QED
    BY <1>7, <1>8 DEF Told!AnswersTrue

\* An answer of a list: counts that fit and the first idle moment.
LEMMA ToldOfSome ==
  ASSUME NEW CONSTANT c, master' = master, now' = now, answer'.kind = "told",
         answer'.available + answer'.busy <= answer'.onShift,
         answer'.next = Firsts(IdleOfSome(c, answer'.who, answer'.salons))
  PROVE  Told(c)!AnswersTrue'
  <1>1. Told(c)!NextIsFirst'
    <2>1. \A m, u, L : Told(c)!Idle(m, u, Told(c)!BookedIn(m, L))' <=> Told(c)!Idle(m, u, Told(c)!BookedIn(m, L))
      BY SameTables
    <2>2. Told(c)!Today' = Told(c)!Today
      BY SameTables
    <2> QED
      BY <2>1, <2>2 DEF Told!NextIsFirst, Firsts, IdleOfSome
  <1>2. Told(c)!SlotsExact' /\ Told(c)!WeekAgrees'
    BY DEF Told!SlotsExact, Told!WeekAgrees
  <1> QED
    BY <1>1, <1>2 DEF Told!AnswersTrue

LEMMA MasterTold ==
  ASSUME NEW CONSTANT c, CalendarsHold(c), TablesHold(c), Told(c)!AskMaster
  PROVE  Told(c)!AnswersTrue'
  <1> DEFINE B(m) == master[m].bookings
  <1>1. PICK m \in c.staff :
          answer' = [kind |-> "told", who |-> {m}, salons |-> Told(c)!Anywhere,
                     onShift |-> IF Told(c)!OnShift(m) THEN 1 ELSE 0,
                     available |-> IF Told(c)!Available(m, B(m)) THEN 1 ELSE 0,
                     busy |-> IF Told(c)!OnShift(m) /\ Told(c)!Busy(m, B(m)) THEN 1 ELSE 0,
                     next |-> Told(c)!NextSlots(m, B(m)),
                     online |-> master[m].profile.accepts /\ Told(c)!NextSlots(m, B(m)) # {}]
    BY DEF Told!AskMaster
  <1>2. /\ answer'.kind = "told" /\ answer'.who = {m} /\ answer'.next = Told(c)!NextSlots(m, B(m))
        /\ answer'.salons = Told(c)!Anywhere
        /\ answer'.onShift = IF Told(c)!OnShift(m) THEN 1 ELSE 0
        /\ answer'.available = IF Told(c)!Available(m, B(m)) THEN 1 ELSE 0
        /\ answer'.busy = IF Told(c)!OnShift(m) /\ Told(c)!Busy(m, B(m)) THEN 1 ELSE 0
    BY <1>1
  <1>3. answer'.available + answer'.busy <= answer'.onShift
    <2>1. Told(c)!Available(m, B(m)) => Told(c)!OnShift(m) /\ ~Told(c)!Busy(m, B(m))
      BY DEF Told!Available
    <2> QED
      BY <1>2, <2>1
  <1>4. answer'.next = Firsts(IdleOfSome(c, answer'.who, answer'.salons))
    <2>1. Told(c)!BookedIn(m, Told(c)!Anywhere) = B(m)
      BY DEF Told!BookedIn, Told!Anywhere, TablesHold
    <2>2. IdleOfSome(c, {m}, Told(c)!Anywhere) = IdleTimes(c, m, B(m))
      BY <2>1 DEF IdleOfSome, IdleTimes
    <2>3. B(m) \in SUBSET master[m].bookings
      OBVIOUS
    <2> QED
      BY <1>2, <2>2, <2>3, NextSlotsAreFirst
  <1>5. master' = master /\ now' = now
    BY DEF Told!AskMaster
  <1> QED
    BY <1>2, <1>3, <1>4, <1>5, ToldOfSome

LEMMA SalonTold ==
  ASSUME NEW CONSTANT c, CalendarsHold(c), TablesHold(c), NEW CONSTANT list, NEW CONSTANT priced,
         Told(c)!AskSalon(list, priced)
  PROVE  Told(c)!AnswersTrue'
  <1> DEFINE free == {m \in Told(c)!Serving : Told(c)!Available(m, Told(c)!BookedIn(m, list))}
             busy == {m \in Told(c)!AtWork : Told(c)!Busy(m, Told(c)!BookedIn(m, list))}
  <1>1. answer' = [kind |-> "told", who |-> Told(c)!Eligible, salons |-> list,
                   onShift |-> Told(c)!Cardinality(Told(c)!AtWork),
                   available |-> Told(c)!Cardinality(free),
                   busy |-> Told(c)!Cardinality(busy),
                   next |-> Told(c)!NextOfSalon(list),
                   online |-> priced /\ Told(c)!NextOfSalon(list) # {}]
    BY DEF Told!AskSalon
  <1>2. /\ answer'.salons = list
        /\ answer'.kind = "told" /\ answer'.who = Told(c)!Eligible /\ answer'.next = Told(c)!NextOfSalon(list)
        /\ answer'.onShift = Cardinality(Told(c)!AtWork)
        /\ answer'.available = Cardinality(free)
        /\ answer'.busy = Cardinality(busy)
    BY <1>1, ToldCount
  <1>3. Cardinality(free) + Cardinality(busy) <= Cardinality(Told(c)!AtWork)
    <2>1. free \subseteq Told(c)!AtWork /\ busy \subseteq Told(c)!AtWork /\ free \cap busy = {}
      BY DEF Told!Available, Told!AtWork, Told!Serving
    <2>2. IsFiniteSet(Told(c)!AtWork)
      <3>1. IsFiniteSet(c.staff) /\ Told(c)!AtWork \subseteq c.staff
        BY DEF CalendarsHold, Told!AtWork
      <3> QED
        BY <3>1, FS_Subset
    <2> HIDE DEF free, busy
    <2>3. IsFiniteSet(free) /\ IsFiniteSet(busy)
      BY <2>1, <2>2, FS_Subset
    <2>4. /\ Cardinality(free \cup busy) = Cardinality(free) + Cardinality(busy) - Cardinality(free \cap busy)
      BY <2>3, FS_Union
    <2>5. Cardinality(free \cap busy) = 0
      BY <2>1, FS_EmptySet
    <2>6. free \cup busy \subseteq Told(c)!AtWork
      BY <2>1
    <2>7. Cardinality(free \cup busy) <= Cardinality(Told(c)!AtWork)
      BY <2>2, <2>6, FS_Subset
    <2>8. Cardinality(free) \in Nat /\ Cardinality(busy) \in Nat
      BY <2>3, FS_CardinalityType
    <2> QED
      BY <2>4, <2>5, <2>7, <2>8
  <1>4. Told(c)!NextOfSalon(list) = Firsts(IdleOfSome(c, Told(c)!Eligible, list))
    <2>1. Told(c)!Eligible \in SUBSET c.staff
      BY DEF Told!Eligible
    <2>2. Told(c)!NextOfSalon(list) = Firsts(UNION {Told(c)!NextSlots(m, Told(c)!BookedIn(m, list)) : m \in Told(c)!Eligible})
      BY DEF Told!NextOfSalon, Firsts
    <2> QED
      BY <2>1, <2>2, NextOfSeveral
  <1>5. master' = master /\ now' = now
    BY DEF Told!AskSalon
  <1> HIDE DEF free, busy
  <1>6. /\ answer'.available + answer'.busy <= answer'.onShift
        /\ answer'.next = Firsts(IdleOfSome(c, answer'.who, answer'.salons))
    BY <1>2, <1>3, <1>4
  <1> QED
    BY <1>2, <1>5, <1>6, ToldOfSome

LEMMA WeekTold ==
  ASSUME NEW CONSTANT c, CalendarsHold(c), TablesHold(c), Told(c)!AskWeek
  PROVE  Told(c)!AnswersTrue'
  <1>1. PICK m \in c.staff, length \in c.durations, home \in BOOLEAN, z \in c.zones :
          \E d \in Told(c)!HomeToday(z) .. Told(c)!HomeToday(z) + c.week - 1 : \E r \in Told(c)!RowsOf(m, d) :
            answer' = [kind |-> "week", who |-> m, zone |-> z, day |-> d, date |-> Told(c)!DateOf(d, z),
                       length |-> length, home |-> home, row |-> r,
                       cells |-> IF r.accepts
                                 THEN [t \in {u \in r.from .. r.to - 1 : (u - r.from) % c.step = 0} |->
                                         Told(c)!Cell(r, Told(c)!BusyOn(m, d, z), t, length, home)]
                                 ELSE [t \in {} |-> "FREE"]]
    BY DEF Told!AskWeek
  <1>11. PICK d \in Told(c)!HomeToday(z) .. Told(c)!HomeToday(z) + c.week - 1 : \E r \in Told(c)!RowsOf(m, d) :
            answer' = [kind |-> "week", who |-> m, zone |-> z, day |-> d, date |-> Told(c)!DateOf(d, z),
                       length |-> length, home |-> home, row |-> r,
                       cells |-> IF r.accepts
                                 THEN [t \in {u \in r.from .. r.to - 1 : (u - r.from) % c.step = 0} |->
                                         Told(c)!Cell(r, Told(c)!BusyOn(m, d, z), t, length, home)]
                                 ELSE [t \in {} |-> "FREE"]]
    BY <1>1
  <1>2. PICK r \in Told(c)!RowsOf(m, d) :
            answer' = [kind |-> "week", who |-> m, zone |-> z, day |-> d, date |-> Told(c)!DateOf(d, z),
                       length |-> length, home |-> home, row |-> r,
                       cells |-> IF r.accepts
                                 THEN [t \in {u \in r.from .. r.to - 1 : (u - r.from) % c.step = 0} |->
                                         Told(c)!Cell(r, Told(c)!BusyOn(m, d, z), t, length, home)]
                                 ELSE [t \in {} |-> "FREE"]]
    BY <1>11
  <1>3. /\ answer'.kind = "week" /\ answer'.who = m /\ answer'.day = d /\ answer'.length = length
        /\ answer'.zone = z /\ answer'.date = Told(c)!DateOf(d, z)
        /\ answer'.home = home /\ answer'.row = r
        /\ answer'.cells = IF r.accepts
                           THEN [t \in {u \in r.from .. r.to - 1 : (u - r.from) % c.step = 0} |->
                                   Told(c)!Cell(r, Told(c)!BusyOn(m, d, z), t, length, home)]
                           ELSE [t \in {} |-> "FREE"]
    BY <1>2
  <1>4. \A t \in DOMAIN answer'.cells :
          /\ r.accepts /\ t \in r.from .. r.to - 1
          /\ answer'.cells[t] = Told(c)!Cell(r, Told(c)!BusyOn(m, d, z), t, length, home)
    BY <1>3
  <1>5. master' = master /\ now' = now
    BY DEF Told!AskWeek
  <1>6. length \in Nat \ {0}
    BY DEF CalendarsHold
  <1>7. ASSUME Told(c)!Plain(m, d, z), home => r.home, NEW t \in DOMAIN answer'.cells
        PROVE  /\ answer'.cells[t] = "FREE" => Told(c)!FitsIn(m, d, t, length, z)
               /\ Told(c)!FitsIn(m, d, t, length, z) /\ length >= c.step => answer'.cells[t] = "FREE"
    BY <1>4, <1>6, <1>7, CellIsFree
  <1>10. ASSUME z = 0, NEW t \in DOMAIN answer'.cells
         PROVE  /\ Told(c)!DateOf(d, z) = d
                /\ Told(c)!FitsIn(m, d, t, length, z) <=> Told(c)!Free(m, d, d * c.day + t, length)
    <2>1. d \in Nat
      <3>1. Told(c)!HomeToday(z) \in Nat /\ c.week \in Nat
        BY HomeTodayIs DEF CalendarsHold
      <3> QED
        BY <3>1
    <2>2. t \in Nat
      <3>1. r.from \in Nat /\ r.to \in Nat
        BY <2>1, Intervals
      <3>2. t \in r.from .. r.to - 1
        BY <1>4
      <3> QED
        BY <3>1, <3>2
    <2>3. Told(c)!DateOf(d, 0) = d
      <3>1. 0 \in Int /\ d \in Int
        BY <2>1
      <3> QED
        BY <3>1, DatesDiffer
    <2> QED
      BY <1>6, <1>10, <2>1, <2>2, <2>3, FitsIsFree
  <1>8. Told(c)!WeekAgrees'
    <2>1. \A n, e, t, l : Told(c)!Free(n, e, t, l)' <=> Told(c)!Free(n, e, t, l)
      BY <1>5, SameTables
    <2>2. /\ \A n, e, y : Told(c)!Plain(n, e, y)' <=> Told(c)!Plain(n, e, y)
          /\ \A n, e, t, l, y : Told(c)!FitsIn(n, e, t, l, y)' <=> Told(c)!FitsIn(n, e, t, l, y)
      BY <1>5, SameTables
    <2>3. Told(c)!Plain(answer.who, answer.day, answer.zone)' <=> Told(c)!Plain(m, d, z)
      BY <1>3, <2>2
    <2>4. ASSUME Told(c)!Plain(m, d, z), home => r.home, NEW t \in DOMAIN answer'.cells
          PROVE  LET free == Told(c)!FitsIn(answer.who, answer.day, t, answer.length, answer.zone)'
                 IN /\ answer'.cells[t] = "FREE" => free
                    /\ free /\ answer'.length >= c.step => answer'.cells[t] = "FREE"
                    /\ answer'.zone = 0 =>
                         (free <=> Told(c)!Free(answer.who, answer.date, answer.date * c.day + t, answer.length)')
      <3>1. Told(c)!FitsIn(answer.who, answer.day, t, answer.length, answer.zone)' <=> Told(c)!FitsIn(m, d, t, length, z)
        BY <1>3, <2>2
      <3>2. /\ answer'.cells[t] = "FREE" => Told(c)!FitsIn(m, d, t, length, z)
            /\ Told(c)!FitsIn(m, d, t, length, z) /\ length >= c.step => answer'.cells[t] = "FREE"
        BY <1>7, <2>4
      <3>3. ASSUME z = 0
            PROVE  Told(c)!FitsIn(m, d, t, length, z) <=>
                   Told(c)!Free(answer.who, answer.date, answer.date * c.day + t, answer.length)'
        <4>1. answer'.date = d /\ (Told(c)!FitsIn(m, d, t, length, z) <=> Told(c)!Free(m, d, d * c.day + t, length))
          BY <1>3, <1>10, <2>4, <3>3
        <4> QED
          BY <1>3, <2>1, <4>1
      <3> QED
        BY <1>3, <3>1, <3>2, <3>3
    <2> QED
      BY <1>3, <2>3, <2>4 DEF Told!WeekAgrees
  <1>9. Told(c)!SlotsExact' /\ Told(c)!NextIsFirst'
    BY <1>3 DEF Told!SlotsExact, Told!NextIsFirst
  <1> QED
    BY <1>8, <1>9 DEF Told!AnswersTrue

\* The invariant: the tables as they were, and a true answer.
AnswerInv(c) == TablesHold(c) /\ Told(c)!AnswersTrue

LEMMA TellingStarts ==
  ASSUME NEW CONSTANT c, Told(c)!Init
  PROVE  AnswerInv(c)
  BY DEF AnswerInv, Told!Init, Told!Unasked, TablesHold, Told!AnswersTrue, Told!SlotsExact,
     Told!NextIsFirst, Told!WeekAgrees

LEMMA TellingKeeps ==
  ASSUME NEW CONSTANT c, CalendarsHold(c), AnswerInv(c), Told(c)!Next
  PROVE  AnswerInv(c)'
  <1>1. TablesHold(c)
    BY DEF AnswerInv
  <1>2. TablesHold(c)'
    <2>1. master' = master /\ now' = now
      BY DEF Told!Next, Told!AskSlots, Told!AskMaster, Told!AskSalon, Told!AskWeek
    <2> QED
      BY <1>1, <2>1 DEF TablesHold
  <1>3. ASSUME Told(c)!AskSlots PROVE Told(c)!AnswersTrue'
    BY <1>1, <1>3, SlotsTold
  <1>4. ASSUME Told(c)!AskMaster PROVE Told(c)!AnswersTrue'
    BY <1>1, <1>4, MasterTold
  <1>5. ASSUME Told(c)!AskWeek PROVE Told(c)!AnswersTrue'
    BY <1>1, <1>5, WeekTold
  <1>6. ASSUME NEW list \in c.lists, NEW priced \in BOOLEAN, Told(c)!AskSalon(list, priced) PROVE Told(c)!AnswersTrue'
    BY <1>1, <1>6, SalonTold
  <1> QED
    BY <1>2, <1>3, <1>4, <1>5, <1>6 DEF AnswerInv, Told!Next

LEMMA TellingStutters ==
  ASSUME NEW CONSTANT c, AnswerInv(c), UNCHANGED <<master, now, answer>>
  PROVE  AnswerInv(c)'
  <1>1. TablesHold(c)'
    BY DEF AnswerInv, TablesHold
  <1>2. /\ \A m, d, length : Told(c)!IdleSlots(m, d, length)' = Told(c)!IdleSlots(m, d, length)
        /\ \A m, u, L : Told(c)!Idle(m, u, Told(c)!BookedIn(m, L))' <=> Told(c)!Idle(m, u, Told(c)!BookedIn(m, L))
        /\ \A m, d : Told(c)!RowsOf(m, d)' = Told(c)!RowsOf(m, d)
        /\ Told(c)!Today' = Told(c)!Today
    BY SameTables
  <1>3. /\ \A m, d, t, length : Told(c)!Free(m, d, t, length)' <=> Told(c)!Free(m, d, t, length)
        /\ \A m, d, t, length, z : Told(c)!FitsIn(m, d, t, length, z)' <=> Told(c)!FitsIn(m, d, t, length, z)
        /\ \A m, d, z : Told(c)!Plain(m, d, z)' <=> Told(c)!Plain(m, d, z)
    BY SameTables
  <1>4. Told(c)!SlotsExact'
    BY <1>2 DEF AnswerInv, Told!AnswersTrue, Told!SlotsExact
  <1>5. Told(c)!NextIsFirst'
    BY <1>2 DEF AnswerInv, Told!AnswersTrue, Told!NextIsFirst
  <1>6. Told(c)!WeekAgrees'
    BY <1>3 DEF AnswerInv, Told!AnswersTrue, Told!WeekAgrees
  <1> QED
    BY <1>1, <1>4, <1>5, <1>6 DEF AnswerInv, Told!AnswersTrue

\* Of calendars whose hours end on the day they begin and whose bookings take
\* time, and whenever it is asked, the program tells the truth: the slots of a
\* day, the next free moment, and the cells of the week (SlotsExact, NextIsFirst,
\* WeekAgrees).
THEOREM AnswersStayTrue ==
  ASSUME CONSTANT c, CalendarsHold(c)
  PROVE  Told(c)!Spec => []Told(c)!AnswersTrue
  <1>1. Told(c)!Init => AnswerInv(c)
    BY TellingStarts
  <1>2. AnswerInv(c) /\ [Told(c)!Next]_(Told(c)!vars) => AnswerInv(c)'
    BY TellingKeeps, TellingStutters DEF Told!vars
  <1>3. AnswerInv(c) => Told(c)!AnswersTrue
    BY DEF AnswerInv
  <1> QED
    BY <1>1, <1>2, <1>3, PTL DEF Told!Spec

\* One next moment at most is told.
LEMMA AnswersTyped ==
  ASSUME NEW c, CalendarsHold(c), AnswerInv(c)
  PROVE  Told(c)!TypeOK
  <1>1. /\ \A m \in c.staff : master[m].rows \in c.hours /\ master[m].bookings \in c.booked
        /\ now \in c.instants
    BY DEF AnswerInv, TablesHold
  <1>2. ASSUME answer.kind = "told" PROVE answer.next \subseteq Nat /\ Told(c)!Cardinality(answer.next) <= 1
    <2>1. PICK idle : /\ idle \subseteq now .. (Told(c)!Today + c.week) * c.day
                      /\ answer.next = {t \in idle : \A u \in idle : t <= u}
      BY <1>2 DEF AnswerInv, Told!AnswersTrue, Told!NextIsFirst
    <2>2. idle \subseteq Nat
      <3>1. PICK n \in Nat, H \in Int : n = now /\ H = (Told(c)!Today + c.week) * c.day
        <4>1. now \in Nat /\ Told(c)!Today \in Nat
          BY TodayIs DEF AnswerInv
        <4>2. c.week \in Nat /\ c.day \in Nat
          BY DEF CalendarsHold
        <4>3. \A T, W, D \in Nat : (T + W) * D \in Int
          OBVIOUS
        <4> QED
          BY <4>1, <4>2, <4>3
      <3>2. n .. H \subseteq Nat
        BY <3>1
      <3> QED
        BY <2>1, <3>1, <3>2
    <2>3. \A t, u \in answer.next : t = u
      <3> SUFFICES ASSUME NEW t \in answer.next, NEW u \in answer.next PROVE t = u
        OBVIOUS
      <3>1. t \in Nat /\ u \in Nat /\ t <= u /\ u <= t
        BY <2>1, <2>2
      <3> QED
        BY <3>1
    <2>4. answer.next = {} \/ \E t : answer.next = {t}
      BY <2>3
    <2>5. Cardinality(answer.next) <= 1
      <3>1. CASE answer.next = {}
        <4>1. Cardinality({}) = 0
          BY FS_EmptySet
        <4> QED
          BY <3>1, <4>1
      <3>2. ASSUME NEW t, answer.next = {t} PROVE Cardinality(answer.next) <= 1
        <4>1. Cardinality({t}) = 1
          BY FS_Singleton
        <4> QED
          BY <3>2, <4>1
      <3> QED
        BY <2>4, <3>1, <3>2
    <2> QED
      BY <2>1, <2>2, <2>5, ToldCount
  <1> QED
    BY <1>1, <1>2 DEF Told!TypeOK

-----------------------------------------------------------------------------
(* What is proved of the pages, of the catalogue and of what is told of    *)
(* masters holds of the parts of MCServices.                               *)

LEMMA BookingIsSteps == Booking!Next => Steps({"cut"}, "cut", {"ann", "bob"}, {10}, 2)!Next
  BY DEF Booking!Next, Steps!Next, Booking!Add, Steps!Add, Booking!Remove, Steps!Remove, Booking!ToStaff,
         Steps!ToStaff, Booking!ChooseMaster, Steps!ChooseMaster, Booking!ChooseDate, Steps!ChooseDate,
         Booking!ChooseSlot, Steps!ChooseSlot, Booking!ChoosePayment, Steps!ChoosePayment,
         Booking!Forward, Steps!Forward, Booking!Back, Steps!Back, Booking!Confirm, Steps!Confirm,
         Booking!Refuse, Steps!Refuse, Booking!Book, Steps!Book, Booking!Answer, Steps!Answer,
         Booking!Lose, Steps!Lose, Booking!Again, Steps!Again, Booking!Reload, Steps!Reload,
         Booking!Edits, Steps!Edits, Booking!Shows, Steps!Shows, Booking!Confirmable, Steps!Confirmable,
         Booking!Ordered, Steps!Ordered, Booking!Made, Steps!Made, Booking!Free, Steps!Free,
         Booking!Remaining, Steps!Remaining, Booking!Excused, Steps!Excused, Booking!Restored,
         Steps!Restored, Booking!Blank, Steps!Blank

LEMMA ChoosingIsSteps == Choosing!Next => Steps({"cut", "dye"}, "cut", {"ann"}, {10}, 1)!Next
  BY DEF Choosing!Next, Steps!Next, Choosing!Add, Steps!Add, Choosing!Remove, Steps!Remove,
         Choosing!ToStaff, Steps!ToStaff, Choosing!ChooseMaster, Steps!ChooseMaster, Choosing!ChooseDate,
         Steps!ChooseDate, Choosing!ChooseSlot, Steps!ChooseSlot, Choosing!ChoosePayment,
         Steps!ChoosePayment, Choosing!Forward, Steps!Forward, Choosing!Back, Steps!Back,
         Choosing!Confirm, Steps!Confirm, Choosing!Refuse, Steps!Refuse, Choosing!Book, Steps!Book,
         Choosing!Answer, Steps!Answer, Choosing!Lose, Steps!Lose, Choosing!Again, Steps!Again,
         Choosing!Reload, Steps!Reload, Choosing!Edits, Steps!Edits, Choosing!Shows, Steps!Shows,
         Choosing!Confirmable, Steps!Confirmable, Choosing!Ordered, Steps!Ordered, Choosing!Made,
         Steps!Made, Choosing!Free, Steps!Free, Choosing!Remaining, Steps!Remaining, Choosing!Excused,
         Steps!Excused, Choosing!Restored, Steps!Restored, Choosing!Blank, Steps!Blank

LEMMA VisitingIsHome == Visiting!Next => Home({"cut", "dye"}, "cut", {10}, 2, 2)!Next
  BY DEF Visiting!Next, Home!Next, Visiting!ChooseService, Home!ChooseService, Visiting!EnterAddress,
         Home!EnterAddress, Visiting!ShowTimes, Home!ShowTimes, Visiting!EnterPayment, Home!EnterPayment,
         Visiting!Back, Home!Back, Visiting!ChooseDate, Home!ChooseDate, Visiting!ChooseSlot,
         Home!ChooseSlot, Visiting!ChooseOnCalendar, Home!ChooseOnCalendar, Visiting!Confirm,
         Home!Confirm, Visiting!Reload, Home!Reload, Visiting!NewDay, Home!NewDay, Visiting!Edits,
         Home!Edits, Visiting!Shows, Home!Shows, Visiting!Days, Home!Days, Visiting!Picked, Home!Picked,
         Visiting!Shown, Home!Shown, Visiting!Selected, Home!Selected, Visiting!Blank, Home!Blank,
         Visiting!Confirmable, Home!Confirmable

LEMMA VisitNamed == Named({"cut", "dye"}, "cut", {10}, 2, 2)
  BY NamesAssumption DEF Named, Home!Slots, Home!Days, Visiting!Slots, Visiting!Days

LEMMA PartsStay == [MCNext]_MCvars => UNCHANGED part
  BY DEF MCNext, MCvars

LEMMA PartsCatalogNames == CatalogNames(Crowd) /\ CatalogNames(Wide)
  <1>1. CatalogNames(Crowd)
    <2>1. Search(Crowd)!Items = {"s", "a", "b"}
      BY DEF Crowd, Search!Items, Search!Found
    <2> QED
      BY <2>1 DEF CatalogNames, Crowd, Search!Range
  <1>2. CatalogNames(Wide)
    <2>1. Search(Wide)!Items = {"s", "t", "demo", "a", "b", "c"}
      BY DEF Wide, Search!Items, Search!Found
    <2> QED
      BY <2>1 DEF CatalogNames, Wide, Search!Range
  <1> QED
    BY <1>1, <1>2

LEMMA PartsBounds == CatalogBounds(Crowd) /\ CatalogBounds(Wide)
  BY DEF CatalogBounds, Crowd, Wide

LEMMA FewIsFinite ==
  ASSUME NEW S, S = {} \/ (\E x : S = {x}) \/ (\E x, y : S = {x, y}) \/ (\E x, y, z : S = {x, y, z})
  PROVE  IsFiniteSet(S)
  <1>1. CASE S = {}
    BY <1>1, FS_EmptySet
  <1>2. ASSUME NEW x, NEW y, NEW z, S = {x, y, z}
        PROVE  IsFiniteSet(S)
    <2>1. S = ({x} \cup {y}) \cup {z}
      BY <1>2
    <2>2. IsFiniteSet({x} \cup {y})
      BY FS_Singleton, FS_AddElement
    <2>3. IsFiniteSet(({x} \cup {y}) \cup {z})
      BY <2>2, FS_AddElement
    <2> QED
      BY <2>1, <2>3
  <1>3. ASSUME NEW x, NEW y, S = {x, y}
        PROVE  IsFiniteSet(S)
    <2>1. S = {x, y, y}
      BY <1>3
    <2> QED
      BY <1>2, <2>1
  <1>4. ASSUME NEW x, S = {x}
        PROVE  IsFiniteSet(S)
    BY <1>4, FS_Singleton
  <1> QED
    BY <1>1, <1>2, <1>3, <1>4

LEMMA PartsCalendars == CalendarsHold(Calendars)
  <1>1. ASSUME NEW table \in MCHours
        PROVE  /\ IsFiniteSet(table)
               /\ \A r \in table :
                    /\ r.from \in Nat /\ r.to \in Nat /\ r.from < r.to /\ r.to <= 12
                    /\ \A p \in r.breaks : p[1] \in Nat /\ p[2] \in Nat /\ p[1] < 12
    <2>1. IsFiniteSet(table)
      <3>1. table = {} \/ (\E x : table = {x}) \/ (\E x, y : table = {x, y}) \/ (\E x, y, z : table = {x, y, z})
        BY Zenon DEF MCHours
      <3> QED
        BY <3>1, FewIsFinite
    <2>2. ASSUME NEW r \in table
          PROVE  /\ r.from \in Nat /\ r.to \in Nat /\ r.from < r.to /\ r.to <= 12
                 /\ r.breaks \in {{}, {<<4, 6>>}, {<<10, 3>>}, {<<7, 8>>, <<5, 6>>}}
      BY DEF MCHours, Row
    <2>3. \A r \in table : \A p \in r.breaks : p \in {<<4, 6>>, <<10, 3>>, <<7, 8>>, <<5, 6>>}
      BY <2>2
    <2>4. \A p \in {<<4, 6>>, <<10, 3>>, <<7, 8>>, <<5, 6>>} : p[1] \in Nat /\ p[2] \in Nat /\ p[1] < 12
      OBVIOUS
    <2> QED
      BY <2>1, <2>2, <2>3, <2>4
  <1>2. ASSUME NEW bookings \in MCBooked
        PROVE  IsFiniteSet(bookings) /\ \A b \in bookings : b.start \in Int /\ b.end \in Int /\ b.start < b.end
    <2>1. IsFiniteSet(bookings)
      <3>1. bookings = {} \/ (\E x : bookings = {x}) \/ (\E x, y : bookings = {x, y}) \/ (\E x, y, z : bookings = {x, y, z})
        BY Zenon DEF MCBooked
      <3> QED
        BY <3>1, FewIsFinite
    <2>2. \A b \in bookings : b.start \in Int /\ b.end \in Int /\ b.start < b.end
      BY DEF MCBooked, Taken
    <2> QED
      BY <2>1, <2>2
  <1>3. IsFiniteSet({"m", "n"}) /\ (\E k \in Nat : 4 = 2 * k) /\ (\E k \in Nat : 12 = 4 * k)
    <2>1. 2 \in Nat /\ 3 \in Nat /\ 4 = 2 * 2 /\ 12 = 4 * 3
      OBVIOUS
    <2>2. IsFiniteSet({"m", "n"})
      <3>1. \E x, y : {"m", "n"} = {x, y}
        BY Zenon
      <3> QED
        BY <3>1, FewIsFinite
    <2> QED
      BY <2>1, <2>2
  <1>4. {3, 7, 15} \subseteq Nat /\ {2, 6} \subseteq Nat \ {0}
    OBVIOUS
  <1>6. \A z \in {-2, 0, 4}, n \in {3, 7, 15} : z \in Int /\ n + z \in Nat
    OBVIOUS
  <1>5. /\ Calendars.zones = {-2, 0, 4}
        /\ Calendars.minute = 2 /\ Calendars.step = 4 /\ Calendars.day = 12 /\ Calendars.week = 2
        /\ Calendars.staff = {"m", "n"} /\ Calendars.hours = MCHours /\ Calendars.booked = MCBooked
        /\ Calendars.instants = {3, 7, 15} /\ Calendars.durations = {2, 6}
    BY DEF Calendars
  <1> QED
    BY <1>1, <1>2, <1>3, <1>4, <1>5, <1>6 DEF CalendarsHold

\* The invariants of the parts.
OneService == PageInv({"cut"}, "cut", {"ann", "bob"}, {10}, 2)

TwoServices == PageInv({"cut", "dye"}, "cut", {"ann"}, {10}, 1)

HomeVisit == VisitInv({"cut", "dye"}, "cut", {10}, 2, 2)

PartsInv ==
  /\ IInv
  /\ part = "crowd" => CatalogInv(Crowd) /\ CatalogTyped(Crowd)
  /\ part = "wide" => CatalogInv(Wide) /\ CatalogTyped(Wide)
  /\ part = "booking" => OneService
  /\ part = "choosing" => TwoServices
  /\ part = "visit" => HomeVisit
  /\ part = "told" => AnswerInv(Calendars)

LEMMA PartsStart == MCInit => PartsInv
  <1> SUFFICES ASSUME MCInit PROVE PartsInv
    OBVIOUS
  <1>1. IInv
    <2>1. NamesDiffer /\ Init
      BY NamesAssumption DEF NamesDiffer, MCInit
    <2> QED
      BY <2>1, InitHolds
  <1>2. ASSUME part = "crowd" PROVE CatalogInv(Crowd) /\ CatalogTyped(Crowd)
    <2>1. Search(Crowd)!Init
      BY <1>2 DEF MCInit
    <2> QED
      BY <2>1, PartsCatalogNames, PartsBounds, CatalogStarts, TypedStarts
  <1>3. ASSUME part = "wide" PROVE CatalogInv(Wide) /\ CatalogTyped(Wide)
    <2>1. Search(Wide)!Init
      BY <1>3 DEF MCInit
    <2> QED
      BY <2>1, PartsCatalogNames, PartsBounds, CatalogStarts, TypedStarts
  <1>4. ASSUME part = "booking" PROVE OneService
    <2>1. Steps({"cut"}, "cut", {"ann", "bob"}, {10}, 2)!Init
      BY <1>4 DEF MCInit, Booking!Init, Steps!Init, Booking!Blank, Steps!Blank
    <2> QED
      BY <2>1, PageStarts DEF OneService
  <1>5. ASSUME part = "choosing" PROVE TwoServices
    <2>1. Steps({"cut", "dye"}, "cut", {"ann"}, {10}, 1)!Init
      BY <1>5 DEF MCInit, Choosing!Init, Steps!Init, Choosing!Blank, Steps!Blank
    <2> QED
      BY <2>1, PageStarts DEF TwoServices
  <1>6. ASSUME part = "visit" PROVE HomeVisit
    <2>1. Home({"cut", "dye"}, "cut", {10}, 2, 2)!Init
      BY <1>6 DEF MCInit, Visiting!Init, Home!Init, Visiting!Blank, Home!Blank
    <2> QED
      BY <2>1, VisitNamed, VisitStarts DEF HomeVisit
  <1>7. ASSUME part = "told" PROVE AnswerInv(Calendars)
    <2> HIDE DEF Calendars
    <2>1. Told(Calendars)!Init
      BY <1>7 DEF MCInit
    <2> QED
      BY <2>1, TellingStarts
  <1> QED
    BY <1>1, <1>2, <1>3, <1>4, <1>5, <1>6, <1>7 DEF PartsInv

LEMMA PartsKeep == PartsInv /\ [MCNext]_MCvars => PartsInv'
  <1> SUFFICES ASSUME PartsInv, [MCNext]_MCvars PROVE PartsInv'
    OBVIOUS
  <1>0. part' = part
    BY PartsStay
  <1>1. IInv'
    <2>1. [Next]_vars /\ NamesDiffer /\ IInv
      BY NamesAssumption DEF NamesDiffer, MCNext, MCvars, PartsInv
    <2> QED
      BY <2>1, NextKeeps
  <1>2. ASSUME part = "crowd" PROVE CatalogInv(Crowd)' /\ CatalogTyped(Crowd)'
    <2>1. Search(Crowd)!Next \/ UNCHANGED <<listed, entry, entries, fresh, search, walk>>
      BY <1>2 DEF MCNext, MCvars, searching
    <2>2. CatalogInv(Crowd) /\ CatalogTyped(Crowd)
      BY <1>2 DEF PartsInv
    <2> QED
      BY <2>1, <2>2, PartsCatalogNames, PartsBounds, CatalogKeeps, TypedKeeps
  <1>3. ASSUME part = "wide" PROVE CatalogInv(Wide)' /\ CatalogTyped(Wide)'
    <2>1. Search(Wide)!Next \/ UNCHANGED <<listed, entry, entries, fresh, search, walk>>
      BY <1>3 DEF MCNext, MCvars, searching
    <2>2. CatalogInv(Wide) /\ CatalogTyped(Wide)
      BY <1>3 DEF PartsInv
    <2> QED
      BY <2>1, <2>2, PartsCatalogNames, PartsBounds, CatalogKeeps, TypedKeeps
  <1>4. ASSUME part = "booking" PROVE OneService'
    <2>1. Steps({"cut"}, "cut", {"ann", "bob"}, {10}, 2)!Next \/ UNCHANGED <<form, draft, choosing>>
      BY <1>4, BookingIsSteps DEF MCNext, MCvars, booking
    <2>2. PageInv({"cut"}, "cut", {"ann", "bob"}, {10}, 2)
      BY <1>4 DEF PartsInv, OneService
    <2> QED
      BY <2>1, <2>2, PageKeeps DEF OneService
  <1>5. ASSUME part = "choosing" PROVE TwoServices'
    <2>1. Steps({"cut", "dye"}, "cut", {"ann"}, {10}, 1)!Next \/ UNCHANGED <<form, draft, choosing>>
      BY <1>5, ChoosingIsSteps DEF MCNext, MCvars, booking
    <2>2. PageInv({"cut", "dye"}, "cut", {"ann"}, {10}, 1)
      BY <1>5 DEF PartsInv, TwoServices
    <2> QED
      BY <2>1, <2>2, PageKeeps DEF TwoServices
  <1>6. ASSUME part = "visit" PROVE HomeVisit'
    <2>1. Home({"cut", "dye"}, "cut", {10}, 2, 2)!Next \/ UNCHANGED <<form, draft, independent, user, today, spent>>
      BY <1>6, VisitingIsHome DEF MCNext, MCvars, booking, visiting
    <2>2. VisitInv({"cut", "dye"}, "cut", {10}, 2, 2)
      BY <1>6 DEF PartsInv, HomeVisit
    <2> QED
      BY <2>1, <2>2, VisitNamed, VisitKeeps DEF Home!vars, HomeVisit
  <1>7. ASSUME part = "told" PROVE AnswerInv(Calendars)'
    <2> HIDE DEF Calendars
    <2>1. Told(Calendars)!Next \/ UNCHANGED <<master, now, answer>>
      BY <1>7 DEF MCNext, MCvars, asking
    <2>2. AnswerInv(Calendars)
      BY <1>7 DEF PartsInv
    <2> QED
      BY <2>1, <2>2, PartsCalendars, TellingKeeps, TellingStutters
  <1> QED
    BY <1>0, <1>1, <1>2, <1>3, <1>4, <1>5, <1>6, <1>7 DEF PartsInv

\* What is proved of each module holds of the part that is its instance.
THEOREM PartsInvariant == MCSpec => []PartsInv
  BY PartsStart, PartsKeep, PTL DEF MCSpec

\* The same of the session: whoever is signed in stays so in the specification
\* the run explores.
THEOREM SessionKeptInPart == MCSpec => []SessionKept
  <1>1. PartsInv => SessionKept
    BY InvariantSuffices DEF PartsInv
  <1> QED
    BY <1>1, PartsInvariant, PTL

\* In both parts of the run about the salon's page, one visit makes one booking;
\* in the one about the master's, what is confirmed is what is shown.
THEOREM BookedOnceInParts == MCSpec => []BookedOnce
  <1>1. PartsInv => BookedOnce
    <2> SUFFICES ASSUME PartsInv PROVE BookedOnce
      OBVIOUS
    <2>1. ASSUME part = "booking" PROVE Booking!BookedOnce
      <3>1. Steps({"cut"}, "cut", {"ann", "bob"}, {10}, 2)!BookedOnce
        BY <2>1, PageBooksOnce DEF PartsInv, OneService
      <3> QED
        BY <3>1 DEF Booking!BookedOnce, Steps!BookedOnce, Booking!Made, Steps!Made, Booking!Cardinality, Steps!Cardinality
    <2>2. ASSUME part = "choosing" PROVE Choosing!BookedOnce
      <3>1. Steps({"cut", "dye"}, "cut", {"ann"}, {10}, 1)!BookedOnce
        BY <2>2, PageBooksOnce DEF PartsInv, TwoServices
      <3> QED
        BY <3>1 DEF Choosing!BookedOnce, Steps!BookedOnce, Choosing!Made, Steps!Made, Choosing!Cardinality, Steps!Cardinality
    <2>3. ASSUME part = "visit" PROVE Visiting!ConfirmedAsShown
      <3>1. Home({"cut", "dye"}, "cut", {10}, 2, 2)!ConfirmedAsShown
        BY <2>3, VisitShown DEF PartsInv, HomeVisit
      <3> QED
        BY <3>1 DEF Visiting!ConfirmedAsShown, Home!ConfirmedAsShown
    <2> QED
      BY <2>1, <2>2, <2>3 DEF BookedOnce
  <1> QED
    BY <1>1, PartsInvariant, PTL

\* In both parts of the run about the catalogue, its answers are honest.
THEOREM CatalogueHonestInParts == MCSpec => []CatalogueHonest
  <1>1. PartsInv => CatalogueHonest
    BY CatalogCovers DEF PartsInv, CatalogueHonest
  <1> QED
    BY <1>1, PartsInvariant, PTL

\* AnswersStayTrue at the calendars of the part about them.
THEOREM AnswersTrueInPart == MCSpec => []AnswersTrue
  <1>1. PartsInv => AnswersTrue
    BY DEF PartsInv, AnswerInv, AnswersTrue
  <1> QED
    BY <1>1, PartsInvariant, PTL

\* Every part keeps its types: a worker makes no attempt too many, a page is at one
\* of its steps, and one next moment is told at most.
THEOREM PartsStayTyped == MCSpec => []PartsTyped
  <1>1. PartsInv => PartsTyped
    <2> SUFFICES ASSUME PartsInv PROVE PartsTyped
      OBVIOUS
    <2>1. TypeOK
      BY DEF PartsInv, IInv
    <2>2. part = "crowd" => Search(Crowd)!TypeOK
      BY PartsBounds, TypedSuffices DEF PartsInv
    <2>3. part = "wide" => Search(Wide)!TypeOK
      BY PartsBounds, TypedSuffices DEF PartsInv
    <2>4. ASSUME part = "booking" PROVE Booking!TypeOK
      <3>1. Steps({"cut"}, "cut", {"ann", "bob"}, {10}, 2)!TypeOK
        BY <2>4 DEF PartsInv, OneService, PageInv
      <3> QED
        BY <3>1 DEF Booking!TypeOK, Steps!TypeOK, Booking!Forms, Steps!Forms
    <2>5. ASSUME part = "choosing" PROVE Choosing!TypeOK
      <3>1. Steps({"cut", "dye"}, "cut", {"ann"}, {10}, 1)!TypeOK
        BY <2>5 DEF PartsInv, TwoServices, PageInv
      <3> QED
        BY <3>1 DEF Choosing!TypeOK, Steps!TypeOK, Choosing!Forms, Steps!Forms
    <2>6. ASSUME part = "visit" PROVE Visiting!TypeOK
      <3>1. Home({"cut", "dye"}, "cut", {10}, 2, 2)!TypeOK
        BY <2>6 DEF PartsInv, HomeVisit, VisitInv
      <3> QED
        BY <3>1 DEF Visiting!TypeOK, Home!TypeOK, Visiting!Forms, Home!Forms, Visiting!Slots, Home!Slots,
           Visiting!Days, Home!Days
    <2>7. ASSUME part = "told" PROVE Told(Calendars)!TypeOK
      <3>1. AnswerInv(Calendars)
        BY <2>7 DEF PartsInv
      <3> HIDE DEF Calendars
      <3> QED
        BY <3>1, PartsCalendars, AnswersTyped
    <2> QED
      BY <2>1, <2>2, <2>3, <2>4, <2>5, <2>6, <2>7 DEF PartsTyped
  <1> QED
    BY <1>1, PartsInvariant, PTL
=============================================================================
