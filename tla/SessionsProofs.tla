--------------------------- MODULE SessionsProofs ---------------------------
(***************************************************************************)
(* For every set of users, tokens and handlers: the session handlers keep  *)
(* their types and the chains of rotated tokens, and implement SignIns.    *)
(* While requests come one at a time a family ends in one token and no     *)
(* session survives its password, though the requests that write in one    *)
(* statement (logout, logout-all, the administrator's) may come between    *)
(* the statements of one that reads first.                                 *)
(***************************************************************************)
EXTENDS MCSessions, FiniteSetTheorems, TLAPS

(* The inductive invariant.                                                *)

\* Every token belongs to a family whose first token is still there and
\* belongs to the same user.
FamiliesHaveRoots ==
  \A t \in Tokens :
    Exists(t) => IsRoot(token[t].family) /\ token[token[t].family].user = token[t].user

\* A handler only carries on tokens that exist.
RotationsExist ==
  \A h \in Handlers :
    req[h].op \in {"refresh", "rotate"} => Exists(req[h].token)

IInv ==
  /\ TypeOK
  /\ ChainsAreSound
  /\ FamiliesHaveRoots
  /\ RotationsExist

-----------------------------------------------------------------------------
(* Facts about the data.                                                   *)

\* A token of the table is never mistaken for an absent one.
LEMMA RowsExist == \A row \in Token : row # NoToken
  BY DEF Token, NoToken

\* What it is to exist, and to be live.
LEMMA ExistingTokens ==
  ASSUME TypeOK, NEW t \in Tokens
  PROVE  /\ Exists(t) <=> token[t] \in Token
         /\ Live(t) => Exists(t)
         /\ Exists(t) => token[t].family \in Tokens /\ token[t].user \in Users
  BY RowsExist DEF TypeOK, Exists, Live, NoToken, Token

\* A request record is of the shape its op says.
LEMMA RequestShapes ==
  ASSUME TypeOK, NEW h \in Handlers
  PROVE  /\ req[h].op = "login" => req[h] \in LoginRequest
         /\ req[h].op \in {"refresh", "rotate"} => req[h] \in RefreshRequest
         /\ req[h].op \in {"reuse", "change"} => req[h] \in UserRequest
  BY DEF TypeOK, Idle, LoginRequest, RefreshRequest, UserRequest

\* The passwords the bound allows are numbers between 1 and itself.
LEMMA FirstPassword == 1 \in 1 .. MaxPassword
  BY BoundAssumption

-----------------------------------------------------------------------------
(* The three things that can happen to the table.                          *)

\* Live tokens are revoked; nothing else changes.
Fading ==
  /\ token' = [t \in Tokens |-> token'[t]]
  /\ \A t \in Tokens :
       \/ token'[t] = token[t]
       \/ Live(t) /\ token'[t] = [token[t] EXCEPT !.state = "revoked"]

LEMMA FadingSameRows ==
  ASSUME TypeOK, Fading, NEW t \in Tokens
  PROVE  /\ token'[t] \in Token \cup {NoToken}
         /\ Exists(t)' <=> Exists(t)
         /\ Live(t)' => Live(t)
         /\ Exists(t) => /\ token'[t].user = token[t].user
                         /\ token'[t].family = token[t].family
                         /\ token'[t].parent = token[t].parent
                         /\ token'[t].replacedBy = token[t].replacedBy
                         /\ token[t].state = "revoked" => token'[t].state = "revoked"
  <1>1. CASE token'[t] = token[t]
    BY <1>1 DEF TypeOK, Exists, Live
  <1>2. CASE Live(t) /\ token'[t] = [token[t] EXCEPT !.state = "revoked"]
    <2>1. token[t] \in Token
      BY <1>2, ExistingTokens
    <2>2. token'[t] \in Token
      BY <1>2, <2>1 DEF Token
    <2> QED
      BY <1>2, <2>1, <2>2, RowsExist DEF Token, Exists, Live
  <1> QED
    BY <1>1, <1>2 DEF Fading

LEMMA FadingKeepsTable ==
  ASSUME TypeOK, ChainsAreSound, FamiliesHaveRoots, Fading
  PROVE  /\ token' \in [Tokens -> Token \cup {NoToken}]
         /\ ChainsAreSound'
         /\ FamiliesHaveRoots'
  <1>1. token' \in [Tokens -> Token \cup {NoToken}]
    BY FadingSameRows DEF Fading
  <1>2. ChainsAreSound'
    <2> SUFFICES ASSUME NEW t \in Tokens, Exists(t)', token'[t].parent # None,
                        NEW p, p = token'[t].parent
                 PROVE  /\ Exists(p)'
                        /\ token'[p].state = "revoked"
                        /\ token'[p].user = token'[t].user
                        /\ token'[p].family = token'[t].family
                        /\ token'[p].replacedBy # None
                        /\ Exists(token[p].replacedBy)'
                        /\ token'[token'[p].replacedBy].parent = p
      BY DEF ChainsAreSound
    <2>1. Exists(t) /\ token[t].parent = p
      BY FadingSameRows
    <2>2. p \in Tokens
      BY <2>1, ExistingTokens DEF Token
    <2>3. PICK r : r = token[p].replacedBy
      OBVIOUS
    <2>4. /\ Exists(p) /\ token[p].state = "revoked"
          /\ token[p].user = token[t].user /\ token[p].family = token[t].family
          /\ r # None /\ Exists(r) /\ token[r].parent = p
      BY <2>1, <2>3 DEF ChainsAreSound
    <2>5. r \in Tokens
      BY <2>2, <2>3, <2>4, ExistingTokens DEF Token
    <2>6. token'[p].replacedBy = r
      BY <2>2, <2>3, <2>4, FadingSameRows
    <2>7. Exists(r)' /\ token'[r].parent = p
      BY <2>4, <2>5, FadingSameRows
    <2>8. Exists(token[p].replacedBy)'
      BY <2>6, <2>7 DEF Exists
    <2> QED
      BY <2>1, <2>2, <2>4, <2>6, <2>7, <2>8, FadingSameRows
  <1>3. FamiliesHaveRoots'
    <2> SUFFICES ASSUME NEW t \in Tokens, Exists(t)',
                        NEW f, f = token'[t].family
                 PROVE  /\ IsRoot(f)'
                        /\ token'[f].user = token'[t].user
      BY DEF FamiliesHaveRoots, IsRoot, Exists
    <2>1. Exists(t) /\ token[t].family = f /\ token'[t].user = token[t].user
      BY FadingSameRows
    <2>2. f \in Tokens
      BY <2>1, ExistingTokens
    <2>3. Exists(f) /\ token[f].family = f /\ token[f].user = token[t].user
      BY <2>1 DEF FamiliesHaveRoots, IsRoot
    <2>4. Exists(f)' /\ token'[f].family = f /\ token'[f].user = token[f].user
      BY <2>2, <2>3, FadingSameRows
    <2> QED
      BY <2>1, <2>3, <2>4 DEF IsRoot
  <1> QED
    BY <1>1, <1>2, <1>3

LEMMA UnchangedFades == TypeOK /\ UNCHANGED token => Fading
  BY DEF TypeOK, Fading

LEMMA RevokeAllFades == \A u \in Users : TypeOK /\ RevokeAll(u) => Fading
  BY DEF RevokeAll, Fading

LEMMA LogoutFades == \A t \in Tokens : TypeOK /\ Logout(t) => Fading
  BY DEF Logout, Fading, TypeOK

\* A new token starts a family.
LEMMA IssueKeepsTable ==
  ASSUME TypeOK, ChainsAreSound, FamiliesHaveRoots,
         NEW u \in Users, NEW t \in Tokens, ~Exists(t),
         token' = [token EXCEPT ![t] = NewToken(u, t, None)]
  PROVE  /\ token' \in [Tokens -> Token \cup {NoToken}]
         /\ ChainsAreSound'
         /\ FamiliesHaveRoots'
         /\ \A s \in Tokens : Exists(s) => Exists(s)'
  <1>1. PICK row : row = NewToken(u, t, None)
    OBVIOUS
  <1>2. /\ row \in Token /\ row # NoToken
        /\ row.user = u /\ row.family = t /\ row.parent = None
    BY <1>1, RowsExist DEF NewToken, Token
  <1>3. token' = [token EXCEPT ![t] = row]
    BY <1>1
  <1>4. token' \in [Tokens -> Token \cup {NoToken}]
    BY <1>2, <1>3 DEF TypeOK
  <1>5. token'[t] = row /\ \A s \in Tokens \ {t} : token'[s] = token[s]
    BY <1>3 DEF TypeOK
  <1>6. \A s \in Tokens : (Exists(s)' <=> Exists(s) \/ s = t) /\ (Exists(s) => s # t)
    BY <1>2, <1>5 DEF Exists
  <1>7. \A s \in Tokens : Exists(s) => Exists(s)' /\ token'[s] = token[s]
    BY <1>5, <1>6
  <1>8. ChainsAreSound'
    <2> SUFFICES ASSUME NEW s \in Tokens, Exists(s)', token'[s].parent # None,
                        NEW p, p = token'[s].parent
                 PROVE  /\ Exists(p)'
                        /\ token'[p].state = "revoked"
                        /\ token'[p].user = token'[s].user
                        /\ token'[p].family = token'[s].family
                        /\ token'[p].replacedBy # None
                        /\ Exists(token[p].replacedBy)'
                        /\ token'[token'[p].replacedBy].parent = p
      BY DEF ChainsAreSound
    <2>1. s # t
      BY <1>2, <1>5
    <2>2. Exists(s) /\ token[s].parent = p /\ token'[s] = token[s]
      BY <2>1, <1>5, <1>6
    <2>3. p \in Tokens
      BY <2>2, ExistingTokens DEF Token
    <2>4. PICK r : r = token[p].replacedBy
      OBVIOUS
    <2>5. /\ Exists(p) /\ token[p].state = "revoked"
          /\ token[p].user = token[s].user /\ token[p].family = token[s].family
          /\ r # None /\ Exists(r) /\ token[r].parent = p
      BY <2>2, <2>4 DEF ChainsAreSound
    <2>6. r \in Tokens
      BY <2>3, <2>4, <2>5, ExistingTokens DEF Token
    <2>7. Exists(p)' /\ token'[p] = token[p] /\ Exists(r)' /\ token'[r] = token[r]
      BY <1>7, <2>3, <2>5, <2>6
    <2>8. Exists(token[p].replacedBy)'
      BY <2>4, <2>7 DEF Exists
    <2> QED
      BY <2>2, <2>4, <2>5, <2>7, <2>8
  <1>9. FamiliesHaveRoots'
    <2> SUFFICES ASSUME NEW s \in Tokens, Exists(s)', NEW f, f = token'[s].family
                 PROVE  IsRoot(f)' /\ token'[f].user = token'[s].user
      BY DEF FamiliesHaveRoots, IsRoot, Exists
    <2>1. CASE s = t
      BY <2>1, <1>2, <1>5, <1>6 DEF IsRoot
    <2>2. CASE s # t
      <3>1. Exists(s) /\ token[s].family = f /\ token'[s] = token[s]
        BY <2>2, <1>5, <1>6
      <3>2. f \in Tokens /\ Exists(f) /\ token[f].family = f
            /\ token[f].user = token[s].user
        BY <3>1, ExistingTokens DEF FamiliesHaveRoots, IsRoot
      <3> QED
        BY <3>1, <3>2, <1>7 DEF IsRoot
    <2> QED
      BY <2>1, <2>2
  <1> QED
    BY <1>4, <1>7, <1>8, <1>9

\* A rotation: the old token gets a successor of its family.
LEMMA RotationKeepsTable ==
  ASSUME TypeOK, ChainsAreSound, FamiliesHaveRoots,
         NEW old \in Tokens, NEW new \in Tokens, Exists(old), ~Exists(new),
         token' = [token EXCEPT
                     ![old] = Replaced(old, new),
                     ![new] = NewToken(token[old].user, token[old].family, old)]
  PROVE  /\ token' \in [Tokens -> Token \cup {NoToken}]
         /\ ChainsAreSound'
         /\ FamiliesHaveRoots'
         /\ \A s \in Tokens : Exists(s)' <=> Exists(s) \/ s = new
         /\ token'[new].state = "live" /\ token'[new].family = token[old].family
         /\ token'[new].user = token[old].user /\ token'[old].state = "revoked"
         /\ \A s \in Tokens : Exists(s) => /\ token'[s].family = token[s].family
                                           /\ token'[s].user = token[s].user
                                           /\ s # old => token'[s] = token[s]
  <1>1. PICK gone, row : /\ gone = Replaced(old, new)
                         /\ row = NewToken(token[old].user, token[old].family, old)
    OBVIOUS
  <1>2. token[old] \in Token /\ token[old].family \in Tokens /\ old # new
    BY ExistingTokens
  <1>3. /\ gone \in Token /\ gone # NoToken /\ gone.state = "revoked"
        /\ gone.replacedBy = new /\ gone.parent = token[old].parent
        /\ gone.user = token[old].user /\ gone.family = token[old].family
    BY <1>1, <1>2, RowsExist DEF Replaced, Token
  <1>4. /\ row \in Token /\ row # NoToken /\ row.parent = old /\ row.state = "live"
        /\ row.user = token[old].user /\ row.family = token[old].family
    BY <1>1, <1>2, RowsExist DEF NewToken, Token
  <1>5. token' = [token EXCEPT ![old] = gone, ![new] = row]
    BY <1>1
  <1>6. token' \in [Tokens -> Token \cup {NoToken}]
    BY <1>3, <1>4, <1>5 DEF TypeOK
  <1>7. /\ token'[old] = gone /\ token'[new] = row
        /\ \A s \in Tokens \ {old, new} : token'[s] = token[s]
    BY <1>2, <1>5 DEF TypeOK
  <1>8. \A s \in Tokens : (Exists(s)' <=> Exists(s) \/ s = new) /\ (Exists(s) => s # new)
    BY <1>3, <1>4, <1>7 DEF Exists
  <1>9. \A s \in Tokens : Exists(s) =>
          /\ Exists(s)'
          /\ token'[s].family = token[s].family
          /\ token'[s].user = token[s].user
          /\ token'[s].parent = token[s].parent
          /\ token[s].state = "revoked" => token'[s].state = "revoked"
          /\ s # old => token'[s] = token[s]
    BY <1>3, <1>7, <1>8
  <1>10. ChainsAreSound'
    <2> SUFFICES ASSUME NEW s \in Tokens, Exists(s)', token'[s].parent # None,
                        NEW p, p = token'[s].parent
                 PROVE  /\ Exists(p)'
                        /\ token'[p].state = "revoked"
                        /\ token'[p].user = token'[s].user
                        /\ token'[p].family = token'[s].family
                        /\ token'[p].replacedBy # None
                        /\ Exists(token[p].replacedBy)'
                        /\ token'[token'[p].replacedBy].parent = p
      BY DEF ChainsAreSound
    <2>1. PICK r : r = token'[p].replacedBy
      OBVIOUS
    <2>2. ASSUME p = old
          PROVE  r = new /\ r # None /\ r \in Tokens /\ token'[r].parent = p
      BY <2>1, <2>2, <1>3, <1>4, <1>7, NoneAssumption
    <2>3. ASSUME s = new
          PROVE  /\ p = old /\ token'[p].state = "revoked"
                 /\ token'[p].user = token'[s].user
                 /\ token'[p].family = token'[s].family
      BY <2>3, <1>3, <1>4, <1>7
    <2>4. ASSUME s # new
          PROVE  /\ p \in Tokens /\ Exists(p)' /\ token'[p].state = "revoked"
                 /\ token'[p].user = token'[s].user
                 /\ token'[p].family = token'[s].family
                 /\ p # old => r # None /\ r \in Tokens /\ Exists(r)'
                               /\ token'[r].parent = p
      <3>1. Exists(s) /\ token[s].parent = p
        BY <2>4, <1>8, <1>9
      <3>2. p \in Tokens
        BY <3>1, ExistingTokens DEF Token
      <3>3. PICK q : q = token[p].replacedBy
        OBVIOUS
      <3>4. /\ Exists(p) /\ token[p].state = "revoked"
            /\ token[p].user = token[s].user /\ token[p].family = token[s].family
            /\ q # None /\ Exists(q) /\ token[q].parent = p
        BY <3>1, <3>3 DEF ChainsAreSound
      <3>5. q \in Tokens
        BY <3>2, <3>3, <3>4, ExistingTokens DEF Token
      <3>6. p # old => r = q
        BY <1>9, <2>1, <3>2, <3>3, <3>4
      <3>7. Exists(q)' /\ token'[q].parent = p
        BY <1>9, <3>4, <3>5
      <3>8. p # old => r # None /\ r \in Tokens /\ Exists(r)' /\ token'[r].parent = p
        BY <3>4, <3>5, <3>6, <3>7
      <3>9. Exists(p)' /\ token'[p].state = "revoked"
            /\ token'[p].user = token'[s].user /\ token'[p].family = token'[s].family
        BY <1>9, <3>1, <3>2, <3>4
      <3> QED
        BY <3>2, <3>8, <3>9
    <2>5. Exists(new)' /\ Exists(old)'
      BY <1>8
    <2>6. r # None /\ Exists(r)' /\ token'[r].parent = p
      BY <2>2, <2>3, <2>4, <2>5
    <2>7. Exists(token[p].replacedBy)'
      BY <2>1, <2>6 DEF Exists
    <2> QED
      BY <2>1, <2>3, <2>4, <2>5, <2>6, <2>7
  <1>11. FamiliesHaveRoots'
    <2> SUFFICES ASSUME NEW s \in Tokens, Exists(s)', NEW f, f = token'[s].family
                 PROVE  IsRoot(f)' /\ token'[f].user = token'[s].user
      BY DEF FamiliesHaveRoots, IsRoot, Exists
    <2>1. PICK t \in Tokens : t = IF s = new THEN old ELSE s
      OBVIOUS
    <2>2. /\ Exists(t) /\ token[t].family = f
          /\ token[t].user = token'[s].user
      BY <2>1, <1>4, <1>7, <1>8, <1>9
    <2>3. f \in Tokens /\ Exists(f) /\ token[f].family = f
          /\ token[f].user = token'[s].user
      BY <2>2, ExistingTokens DEF FamiliesHaveRoots, IsRoot
    <2> QED
      BY <2>3, <1>9 DEF IsRoot
  <1> QED
    BY <1>3, <1>4, <1>6, <1>7, <1>8, <1>9, <1>10, <1>11

-----------------------------------------------------------------------------
(* Every step keeps the invariant.                                         *)

\* Nobody starts to carry on a token that does not exist.
LEMMA RequestsKeep ==
  ASSUME TypeOK, RotationsExist,
         \A s \in Tokens : Exists(s) => Exists(s)',
         \A h \in Handlers :
           \/ req'[h] = req[h]
           \/ req'[h].op \notin {"refresh", "rotate"}
           \/ req'[h].token \in Tokens /\ Exists(req'[h].token)
  PROVE  RotationsExist'
  <1> SUFFICES ASSUME NEW h \in Handlers, req'[h].op \in {"refresh", "rotate"},
                      NEW t, t = req'[h].token
               PROVE  token'[t] # NoToken
    BY DEF RotationsExist, Exists
  <1>1. t \in Tokens /\ Exists(t)
    <2>1. CASE req'[h] = req[h]
      BY <2>1, RequestShapes DEF RotationsExist, RefreshRequest
    <2> QED
      BY <2>1
  <1> QED
    BY <1>1 DEF Exists

LEMMA FinishKeeps ==
  ASSUME TypeOK, RotationsExist, NEW h \in Handlers, Finish(h),
         \A s \in Tokens : Exists(s) => Exists(s)'
  PROVE  /\ RotationsExist'
         /\ req' \in [Handlers -> {Idle} \cup LoginRequest \cup RefreshRequest
                                    \cup UserRequest]
  <1>1. req' \in [Handlers -> {Idle} \cup LoginRequest \cup RefreshRequest
                                \cup UserRequest]
    BY DEF Finish, TypeOK
  <1>2. \A g \in Handlers : req'[g] = req[g] \/ req'[g].op \notin {"refresh", "rotate"}
    BY DEF Finish, TypeOK, Idle
  <1> QED
    BY <1>1, <1>2, RequestsKeep

LEMMA InitKeeps == Init => IInv
  <1> SUFFICES ASSUME Init PROVE IInv
    OBVIOUS
  <1>1. TypeOK
    BY FirstPassword, BoundAssumption DEF Init, TypeOK
  <1>2. \A t \in Tokens : ~Exists(t)
    BY DEF Init, Exists
  <1>3. RotationsExist
    BY DEF Init, RotationsExist, Idle
  <1> QED
    BY <1>1, <1>2, <1>3 DEF IInv, ChainsAreSound, FamiliesHaveRoots

\* A handler that reads changes its own record.
LEMMA ReaderKeeps ==
  ASSUME IInv, NEW h \in Handlers, NEW record,
         record \in LoginRequest \cup RefreshRequest \cup UserRequest,
         record.op \in {"refresh", "rotate"} =>
           record.token \in Tokens /\ Exists(record.token),
         req' = [req EXCEPT ![h] = record],
         UNCHANGED <<token, account, expired, vouched, closed>>
  PROVE  IInv'
  <1>1. TypeOK'
    BY DEF IInv, TypeOK
  <1>2. \A s \in Tokens : Exists(s) => Exists(s)'
    BY DEF Exists
  <1>3. \A g \in Handlers : req'[g] = req[g] \/ req'[g] = record
    BY DEF IInv, TypeOK
  <1>4. \A g \in Handlers : \/ req'[g] = req[g]
                            \/ req'[g].op \notin {"refresh", "rotate"}
                            \/ req'[g].token \in Tokens /\ Exists(req'[g].token)
    BY <1>3
  <1>5. RotationsExist'
    BY <1>2, <1>4, RequestsKeep DEF IInv
  <1>6. ChainsAreSound' /\ FamiliesHaveRoots'
    BY FadingKeepsTable, UnchangedFades DEF IInv
  <1> QED
    BY <1>1, <1>5, <1>6 DEF IInv

LEMMA LoginReadKeeps == \A h \in Handlers : IInv /\ LoginRead(h) => IInv'
  <1> SUFFICES ASSUME NEW h \in Handlers, IInv, LoginRead(h) PROVE IInv'
    OBVIOUS
  <1>1. PICK u \in Users :
          req' = [req EXCEPT ![h] = [op |-> "login", user |-> u,
                                     password |-> account[u].password]]
    BY DEF LoginRead
  <1>2. PICK record : record = [op |-> "login", user |-> u,
                                password |-> account[u].password]
    OBVIOUS
  <1>3. record \in LoginRequest /\ record.op = "login"
    BY <1>2 DEF IInv, TypeOK, LoginRequest
  <1> QED
    BY <1>1, <1>2, <1>3, ReaderKeeps DEF LoginRead

LEMMA ChangeReadKeeps == \A h \in Handlers : IInv /\ ChangeRead(h) => IInv'
  <1> SUFFICES ASSUME NEW h \in Handlers, IInv, ChangeRead(h) PROVE IInv'
    OBVIOUS
  <1>1. PICK u \in Users : req' = [req EXCEPT ![h] = [op |-> "change", user |-> u]]
    BY DEF ChangeRead
  <1>2. PICK record : record = [op |-> "change", user |-> u]
    OBVIOUS
  <1>3. record \in UserRequest /\ record.op = "change"
    BY <1>2 DEF UserRequest
  <1> QED
    BY <1>1, <1>2, <1>3, ReaderKeeps DEF ChangeRead

LEMMA RefreshReadKeeps == \A h \in Handlers : IInv /\ RefreshRead(h) => IInv'
  <1> SUFFICES ASSUME NEW h \in Handlers, IInv, RefreshRead(h) PROVE IInv'
    OBVIOUS
  <1>1. PICK t, record :
          /\ t \in Tokens /\ Exists(t)
          /\ \/ record = [op |-> "reuse", user |-> token[t].user]
             \/ record = [op |-> "refresh", token |-> t]
          /\ req' = [req EXCEPT ![h] = record]
    BY DEF RefreshRead
  <1>2. token[t].user \in Users
    BY <1>1, ExistingTokens DEF IInv
  <1>3. /\ record \in UserRequest \cup RefreshRequest
        /\ record.op \in {"refresh", "rotate"} =>
             record.token \in Tokens /\ Exists(record.token)
    BY <1>1, <1>2 DEF UserRequest, RefreshRequest
  <1> QED
    BY <1>1, <1>3, ReaderKeeps DEF RefreshRead

LEMMA RefreshUserKeeps == \A h \in Handlers : IInv /\ RefreshUser(h) => IInv'
  <1> SUFFICES ASSUME NEW h \in Handlers, IInv, RefreshUser(h) PROVE IInv'
    OBVIOUS
  <1>1. PICK record : record = [req[h] EXCEPT !.op = "rotate"]
    OBVIOUS
  <1>2. req[h] \in RefreshRequest /\ Exists(req[h].token)
    BY RequestShapes DEF RefreshUser, IInv, RotationsExist
  <1>3. record \in RefreshRequest /\ record.token = req[h].token
    BY <1>1, <1>2 DEF RefreshRequest
  <1>4. req' = [req EXCEPT ![h] = record]
    BY <1>1 DEF RefreshUser
  <1>5. record.token \in Tokens /\ Exists(record.token)
    BY <1>2, <1>3 DEF RefreshRequest
  <1> QED
    BY <1>3, <1>4, <1>5, ReaderKeeps DEF RefreshUser

\* A statement that only revokes keeps the invariant.
LEMMA FadingKeeps ==
  ASSUME IInv, Fading, RotationsExist', closed' \subseteq Tokens,
         req' \in [Handlers -> {Idle} \cup LoginRequest \cup RefreshRequest
                                 \cup UserRequest],
         account' \in [Users -> [password : 1 .. MaxPassword,
                                 access : {"open", "locked"}]],
         UNCHANGED <<expired, vouched>>
  PROVE  IInv'
  <1>1. /\ token' \in [Tokens -> Token \cup {NoToken}]
        /\ ChainsAreSound' /\ FamiliesHaveRoots'
    BY FadingKeepsTable DEF IInv
  <1>2. TypeOK'
    BY <1>1 DEF IInv, TypeOK
  <1> QED
    BY <1>1, <1>2 DEF IInv

LEMMA FadingKeepsTokens ==
  TypeOK /\ Fading => \A s \in Tokens : Exists(s) <=> Exists(s)'
  BY FadingSameRows

LEMMA AtomicKeeps ==
  ASSUME IInv, NEW u \in Users,
         \/ LogoutAll(u) \/ Suspend(u) \/ RevokeSessions(u)
         \/ \E access \in {"open", "locked"} : SetAccess(u, access)
  PROVE  IInv'
  <1>1. Fading
    BY RevokeAllFades, UnchangedFades
       DEF LogoutAll, Suspend, RevokeSessions, SetAccess, IInv
  <1>2. UNCHANGED <<req, expired, vouched>>
    BY DEF LogoutAll, Suspend, RevokeSessions, SetAccess
  <1>3. closed' \subseteq Tokens
    BY DEF LogoutAll, Suspend, RevokeSessions, SetAccess, RevokeAll, FamiliesOf,
           IInv, TypeOK
  <1>4. account' \in [Users -> [password : 1 .. MaxPassword, access : {"open", "locked"}]]
    <2>1. account' = account
          \/ \E access \in {"open", "locked"} :
               account' = [account EXCEPT ![u].access = access]
      BY DEF LogoutAll, Suspend, RevokeSessions, SetAccess
    <2> QED
      BY <2>1 DEF IInv, TypeOK
  <1>5. RotationsExist'
    BY <1>1, <1>2, FadingKeepsTokens, RequestsKeep DEF IInv
  <1>6. req' \in [Handlers -> {Idle} \cup LoginRequest \cup RefreshRequest
                                \cup UserRequest]
    BY <1>2 DEF IInv, TypeOK
  <1> QED
    BY <1>1, <1>2, <1>3, <1>4, <1>5, <1>6, FadingKeeps

LEMMA LogoutKeeps == \A t \in Tokens : IInv /\ Logout(t) => IInv'
  <1> SUFFICES ASSUME NEW t \in Tokens, IInv, Logout(t) PROVE IInv'
    OBVIOUS
  <1>1. Fading
    BY LogoutFades DEF IInv
  <1>2. UNCHANGED <<account, expired, req, vouched, closed>>
    BY DEF Logout
  <1>3. RotationsExist'
    BY <1>1, <1>2, FadingKeepsTokens, RequestsKeep DEF IInv
  <1> QED
    BY <1>1, <1>2, <1>3, FadingKeeps DEF IInv, TypeOK

LEMMA ExpireKeeps == \A t \in Tokens : IInv /\ Expire(t) => IInv'
  <1> SUFFICES ASSUME NEW t \in Tokens, IInv, Expire(t) PROVE IInv'
    OBVIOUS
  <1>1. Fading /\ UNCHANGED req
    BY UnchangedFades DEF IInv, Expire
  <1>2. ChainsAreSound' /\ FamiliesHaveRoots'
    BY <1>1, FadingKeepsTable DEF IInv
  <1>3. RotationsExist'
    BY <1>1, FadingKeepsTokens, RequestsKeep DEF IInv
  <1>4. TypeOK'
    BY DEF IInv, TypeOK, Expire
  <1> QED
    BY <1>2, <1>3, <1>4 DEF IInv

LEMMA AbandonKeeps == \A h \in Handlers : IInv /\ Abandon(h) => IInv'
  <1> SUFFICES ASSUME NEW h \in Handlers, IInv, Abandon(h) PROVE IInv'
    OBVIOUS
  <1>1. Fading
    BY UnchangedFades DEF IInv, Abandon
  <1>2. /\ RotationsExist'
        /\ req' \in [Handlers -> {Idle} \cup LoginRequest \cup RefreshRequest
                                   \cup UserRequest]
    BY <1>1, FadingKeepsTokens, FinishKeeps DEF IInv, Abandon
  <1> QED
    BY <1>1, <1>2, FadingKeeps DEF IInv, TypeOK, Abandon

LEMMA ReuseRevokeKeeps == \A h \in Handlers : IInv /\ ReuseRevoke(h) => IInv'
  <1> SUFFICES ASSUME NEW h \in Handlers, IInv, ReuseRevoke(h) PROVE IInv'
    OBVIOUS
  <1>1. req[h].user \in Users
    BY RequestShapes DEF IInv, ReuseRevoke, UserRequest
  <1>2. Fading
    BY <1>1, RevokeAllFades DEF IInv, ReuseRevoke
  <1>3. /\ RotationsExist'
        /\ req' \in [Handlers -> {Idle} \cup LoginRequest \cup RefreshRequest
                                   \cup UserRequest]
    BY <1>2, FadingKeepsTokens, FinishKeeps DEF IInv, ReuseRevoke
  <1>4. closed' \subseteq Tokens
    BY DEF ReuseRevoke, RevokeAll, FamiliesOf, IInv, TypeOK
  <1> QED
    BY <1>2, <1>3, <1>4, FadingKeeps DEF IInv, TypeOK, ReuseRevoke

LEMMA ChangeCommitKeeps == \A h \in Handlers : IInv /\ ChangeCommit(h) => IInv'
  <1> SUFFICES ASSUME NEW h \in Handlers, IInv, ChangeCommit(h) PROVE IInv'
    OBVIOUS
  <1>1. PICK u : u = req[h].user
    OBVIOUS
  <1>2. u \in Users
    BY <1>1, RequestShapes DEF IInv, ChangeCommit, UserRequest
  <1>3. Fading
    BY <1>1, <1>2, RevokeAllFades DEF IInv, ChangeCommit
  <1>4. /\ RotationsExist'
        /\ req' \in [Handlers -> {Idle} \cup LoginRequest \cup RefreshRequest
                                   \cup UserRequest]
    BY <1>3, FadingKeepsTokens, FinishKeeps DEF IInv, ChangeCommit
  <1>5. closed' \subseteq Tokens
    BY DEF ChangeCommit, RevokeAll, FamiliesOf, IInv, TypeOK
  <1>6. account' \in [Users -> [password : 1 .. MaxPassword, access : {"open", "locked"}]]
    <2>1. /\ account[u].password < MaxPassword
          /\ account' = [account EXCEPT ![u].password = account[u].password + 1]
      BY <1>1 DEF ChangeCommit
    <2>2. account[u].password \in 1 .. MaxPassword
      BY <1>2 DEF IInv, TypeOK
    <2>3. account[u].password + 1 \in 1 .. MaxPassword
      BY <2>1, <2>2, BoundAssumption
    <2> QED
      BY <2>1, <2>3 DEF IInv, TypeOK
  <1> QED
    BY <1>3, <1>4, <1>5, <1>6, FadingKeeps DEF ChangeCommit

\* A sign-in adds a token that starts a family.
LEMMA IssueKeeps ==
  ASSUME IInv, NEW u \in Users, NEW password \in 1 .. MaxPassword,
         Issue(u, password), UNCHANGED <<account, expired, closed>>,
         \/ UNCHANGED req
         \/ \E h \in Handlers : Finish(h)
  PROVE  IInv'
  <1>1. PICK t \in Tokens :
          /\ ~Exists(t)
          /\ token' = [token EXCEPT ![t] = NewToken(u, t, None)]
          /\ vouched' = [vouched EXCEPT ![t] = password]
    BY DEF Issue
  <1>2. /\ token' \in [Tokens -> Token \cup {NoToken}]
        /\ ChainsAreSound' /\ FamiliesHaveRoots'
        /\ \A s \in Tokens : Exists(s) => Exists(s)'
    BY <1>1, IssueKeepsTable DEF IInv
  <1>3. /\ RotationsExist'
        /\ req' \in [Handlers -> {Idle} \cup LoginRequest \cup RefreshRequest
                                   \cup UserRequest]
    <2>1. CASE UNCHANGED req
      BY <2>1, <1>2, RequestsKeep DEF IInv, TypeOK
    <2>2. CASE \E h \in Handlers : Finish(h)
      BY <2>2, <1>2, FinishKeeps DEF IInv
    <2> QED
      BY <2>1, <2>2
  <1>4. password \in 0 .. MaxPassword
    BY BoundAssumption
  <1>5. vouched' \in [Tokens -> 0 .. MaxPassword]
    BY <1>1, <1>4 DEF IInv, TypeOK
  <1> QED
    BY <1>2, <1>3, <1>5 DEF IInv, TypeOK

LEMMA LoginCommitKeeps == \A h \in Handlers : IInv /\ LoginCommit(h) => IInv'
  <1> SUFFICES ASSUME NEW h \in Handlers, IInv, LoginCommit(h) PROVE IInv'
    OBVIOUS
  <1>1. req[h].user \in Users /\ req[h].password \in 1 .. MaxPassword
    BY RequestShapes DEF IInv, LoginCommit, LoginRequest
  <1> QED
    BY <1>1, IssueKeeps DEF LoginCommit

LEMMA IssueSessionPublicKeeps == \A u \in Users : IInv /\ IssueSessionPublic(u) => IInv'
  <1> SUFFICES ASSUME NEW u \in Users, IInv, IssueSessionPublic(u) PROVE IInv'
    OBVIOUS
  <1>1. account[u].password \in 1 .. MaxPassword
    BY DEF IInv, TypeOK
  <1> QED
    BY <1>1, IssueKeeps DEF IssueSessionPublic

LEMMA RefreshCommitKeeps == \A h \in Handlers : IInv /\ RefreshCommit(h) => IInv'
  <1> SUFFICES ASSUME NEW h \in Handlers, IInv, RefreshCommit(h) PROVE IInv'
    OBVIOUS
  <1>1. PICK old : old = req[h].token
    OBVIOUS
  <1>2. old \in Tokens /\ Exists(old)
    BY <1>1, RequestShapes DEF IInv, RefreshCommit, RefreshRequest, RotationsExist
  <1>3. PICK new \in Tokens :
          /\ ~Exists(new)
          /\ token' = [token EXCEPT
                         ![old] = Replaced(old, new),
                         ![new] = NewToken(token[old].user, token[old].family, old)]
          /\ vouched' = [vouched EXCEPT ![new] = vouched[old]]
    BY <1>1 DEF RefreshCommit
  <1>4. /\ token' \in [Tokens -> Token \cup {NoToken}]
        /\ ChainsAreSound' /\ FamiliesHaveRoots'
        /\ \A s \in Tokens : Exists(s) => Exists(s)'
    BY <1>2, <1>3, RotationKeepsTable DEF IInv
  <1>5. /\ RotationsExist'
        /\ req' \in [Handlers -> {Idle} \cup LoginRequest \cup RefreshRequest
                                   \cup UserRequest]
    BY <1>4, FinishKeeps DEF IInv, RefreshCommit
  <1>6. vouched' \in [Tokens -> 0 .. MaxPassword]
    BY <1>2, <1>3 DEF IInv, TypeOK
  <1>7. UNCHANGED <<account, expired, closed>>
    BY DEF RefreshCommit
  <1> QED
    BY <1>4, <1>5, <1>6, <1>7 DEF IInv, TypeOK

LEMMA NextKeeps == IInv /\ [Next]_vars => IInv'
  <1> SUFFICES ASSUME IInv, [Next]_vars PROVE IInv'
    OBVIOUS
  <1>1. ASSUME NEW h \in Handlers, Step(h) PROVE IInv'
    BY <1>1, LoginReadKeeps, LoginCommitKeeps, RefreshReadKeeps, RefreshUserKeeps,
       RefreshCommitKeeps, ReuseRevokeKeeps, ChangeReadKeeps, ChangeCommitKeeps,
       AbandonKeeps DEF Step
  <1>2. ASSUME NEW u \in Users, Atomic(u) PROVE IInv'
    BY <1>2, IssueSessionPublicKeeps, AtomicKeeps DEF Atomic, Reactivate
  <1>3. ASSUME NEW t \in Tokens, Logout(t) \/ Expire(t) PROVE IInv'
    BY <1>3, LogoutKeeps, ExpireKeeps
  <1>4. CASE UNCHANGED vars
    BY <1>4 DEF vars, IInv, TypeOK, ChainsAreSound, FamiliesHaveRoots, RotationsExist,
               Exists, IsRoot
  <1> QED
    BY <1>1, <1>2, <1>3, <1>4 DEF Next

\* The invariant holds of the session handlers.
THEOREM InductiveInvariant == Spec => []IInv
  BY InitKeeps, NextKeeps, PTL DEF Spec

\* The tables and the handlers keep their types.
THEOREM TypeCorrect == Spec => []TypeOK
  <1>1. IInv => TypeOK
    BY DEF IInv
  <1> QED
    BY <1>1, InductiveInvariant, PTL

\* Parent and successor columns stay consistent whatever interleaves.
THEOREM ChainsStaySound == Spec => []ChainsAreSound
  <1>1. IInv => ChainsAreSound
    BY DEF IInv
  <1> QED
    BY <1>1, InductiveInvariant, PTL
-----------------------------------------------------------------------------
(* The session handlers implement SignIns.                                 *)

\* Handler h may still rotate token t.
Rotates(h, t) == req[h].op \in {"refresh", "rotate"} /\ req[h].token = t

\* Token t carries its family on.
Carries(t) == Exists(t) /\ (Live(t) \/ InRotation(t))

\* No token comes, goes, or changes its family or its user.
SameFamilies ==
  \A t \in Tokens :
    /\ Exists(t)' <=> Exists(t)
    /\ Exists(t) => token'[t].family = token[t].family /\ token'[t].user = token[t].user

LEMMA OngoingIsCarried ==
  \A f : Ongoing(f) <=> \E t \in Tokens : Carries(t) /\ token[t].family = f
  BY DEF Ongoing, Carries

LEMMA RotationByHandler ==
  \A t : InRotation(t) <=> \E h \in Handlers : Rotates(h, t)
  BY DEF InRotation, Rotates

\* Equal phases and owners are a stuttering step of SignIns.
LEMMA SamePhases ==
  ASSUME \A f \in Tokens : Phase(f)' = Phase(f) /\ Owner(f)' = Owner(f)
  PROVE  UNCHANGED Life!signIns
  BY DEF Life!signIns

LEMMA SameRoots ==
  ASSUME TypeOK, SameFamilies, NEW f \in Tokens
  PROVE  (IsRoot(f)' <=> IsRoot(f)) /\ Owner(f)' = Owner(f)
  <1>1. IsRoot(f)' <=> IsRoot(f)
    BY DEF SameFamilies, IsRoot
  <1> QED
    BY <1>1 DEF SameFamilies, Owner, IsRoot

\* What is carried on stays carried on, and nothing else begins to be.
LEMMA SteadyFamilies ==
  ASSUME IInv, SameFamilies, \A t \in Tokens : Carries(t)' <=> Carries(t)
  PROVE  UNCHANGED Life!signIns
  <1>1. ASSUME NEW f \in Tokens PROVE Ongoing(f)' <=> Ongoing(f)
    <2>1. Ongoing(f)' <=> \E t \in Tokens : Carries(t)' /\ token'[t].family = f
      BY DEF Ongoing, Carries
    <2>2. \A t \in Tokens : Carries(t) => token'[t].family = token[t].family
      BY DEF SameFamilies, Carries
    <2> QED
      BY <2>1, <2>2, OngoingIsCarried
  <1>2. \A f \in Tokens : Phase(f)' = Phase(f) /\ Owner(f)' = Owner(f)
    BY <1>1, SameRoots DEF IInv, Phase
  <1> QED
    BY <1>2, SamePhases

\* Tokens of one user stop carrying their families on: some sign-ins end.
LEMMA FamiliesEnd ==
  ASSUME IInv, SameFamilies, NEW u \in Users,
         \A t \in Tokens : Carries(t)' => Carries(t),
         \A t \in Tokens : Carries(t) /\ token[t].user # u => Carries(t)'
  PROVE  Life!Next
  <1>1. ASSUME NEW f \in Tokens PROVE Ongoing(f)' => Ongoing(f)
    <2>1. Ongoing(f)' <=> \E t \in Tokens : Carries(t)' /\ token'[t].family = f
      BY DEF Ongoing, Carries
    <2>2. \A t \in Tokens : Carries(t) => token'[t].family = token[t].family
      BY DEF SameFamilies, Carries
    <2> QED
      BY <2>1, <2>2, OngoingIsCarried
  <1>2. ASSUME NEW f \in Tokens, IsRoot(f), Ongoing(f), ~Ongoing(f)'
        PROVE  token[f].user = u
    <2>1. PICK t \in Tokens : Carries(t) /\ token[t].family = f
      BY <1>2, OngoingIsCarried
    <2>2. token'[t].family = f
      BY <2>1 DEF SameFamilies, Carries
    <2>3. ~Carries(t)'
      BY <1>2, <2>2 DEF Ongoing, Carries
    <2>4. token[t].user = u
      BY <2>1, <2>3
    <2> QED
      BY <2>1, <2>4 DEF IInv, FamiliesHaveRoots, Carries
  <1>3. PICK ended \in SUBSET Tokens :
          ended = {f \in Tokens : IsRoot(f) /\ Ongoing(f) /\ ~Ongoing(f)'}
    OBVIOUS
  <1>4. \A f \in ended : Phase(f) = "on" /\ Owner(f) = u
    BY <1>2, <1>3 DEF Phase, Owner
  <1>5. \A f \in Tokens : Owner(f)' = Owner(f)
                          /\ Phase(f)' = IF f \in ended THEN "over" ELSE Phase(f)
    BY <1>1, <1>3, SameRoots DEF IInv, Phase
  <1>6. Life!End(ended, u)
    BY <1>4, <1>5 DEF Life!End
  <1> QED
    BY <1>6 DEF Life!Next

\* A statement that only revokes leaves the families as they are.
LEMMA FadingSameFamilies == TypeOK /\ Fading => SameFamilies
  BY FadingSameRows DEF SameFamilies

\* A revoking statement for user u, with the handlers rotating no more than
\* they did.
LEMMA FadingEnds ==
  ASSUME IInv, NEW u \in Users, Fading,
         \A t \in Tokens : token'[t] = token[t] \/ token[t].user = u,
         \A t \in Tokens : InRotation(t)' => InRotation(t),
         \A t \in Tokens : Exists(t) /\ InRotation(t) /\ token[t].user # u => InRotation(t)'
  PROVE  Life!Next
  <1>1. SameFamilies
    BY FadingSameFamilies DEF IInv
  <1>2. \A t \in Tokens : Live(t)' => Live(t)
    BY FadingSameRows DEF IInv
  <1>3. \A t \in Tokens : Carries(t)' => Carries(t)
    BY <1>1, <1>2 DEF SameFamilies, Carries
  <1>4. \A t \in Tokens : token[t].user # u /\ Live(t) => Live(t)'
    BY DEF Live
  <1>5. \A t \in Tokens : Carries(t) /\ token[t].user # u => Carries(t)'
    BY <1>1, <1>4 DEF SameFamilies, Carries
  <1> QED
    BY <1>1, <1>3, <1>5, FamiliesEnd

\* A handler that finishes stops rotating what it rotated, and no more.
LEMMA FinishRotates ==
  ASSUME TypeOK, NEW h \in Handlers, Finish(h), NEW t \in Tokens
  PROVE  /\ InRotation(t)' => InRotation(t)
         /\ InRotation(t) /\ ~Rotates(h, t) => InRotation(t)'
  <1>1. /\ req'[h].op = "idle"
        /\ \A g \in Handlers \ {h} : req'[g] = req[g]
    BY DEF Finish, TypeOK, Idle
  <1>2. InRotation(t)' <=> \E g \in Handlers :
                             req'[g].op \in {"refresh", "rotate"} /\ req'[g].token = t
    BY DEF InRotation
  <1> QED
    BY <1>1, <1>2 DEF InRotation, Rotates

LEMMA SameRotations ==
  ASSUME UNCHANGED req, NEW t PROVE InRotation(t)' <=> InRotation(t)
  BY DEF InRotation

LEMMA RevokeAllOfUser ==
  ASSUME NEW u \in Users, RevokeAll(u), NEW t \in Tokens
  PROVE  token'[t] = token[t] \/ token[t].user = u
  BY DEF RevokeAll

\* A handler that reads takes up no token, or one that is live.
LEMMA ReaderSteady ==
  ASSUME IInv, NEW h \in Handlers, NEW record, UNCHANGED token,
         req' = [req EXCEPT ![h] = record],
         \A t \in Tokens : record.op \in {"refresh", "rotate"} /\ record.token = t
                             => Live(t) \/ Rotates(h, t),
         \A t \in Tokens : Rotates(h, t)
                             => record.op \in {"refresh", "rotate"} /\ record.token = t
  PROVE  UNCHANGED Life!signIns
  <1>1. req'[h] = record /\ \A g \in Handlers \ {h} : req'[g] = req[g]
    BY DEF IInv, TypeOK
  <1>2. ASSUME NEW t \in Tokens
        PROVE  (Live(t) \/ InRotation(t))' <=> Live(t) \/ InRotation(t)
    <2>1. InRotation(t)' <=> \E g \in Handlers :
                               req'[g].op \in {"refresh", "rotate"} /\ req'[g].token = t
      BY DEF InRotation
    <2>2. InRotation(t) => InRotation(t)'
      BY <1>1, <2>1 DEF InRotation, Rotates
    <2>3. InRotation(t)' => Live(t) \/ InRotation(t)
      BY <1>1, <2>1 DEF InRotation, Rotates
    <2>4. Live(t)' <=> Live(t)
      BY DEF Live
    <2> QED
      BY <2>2, <2>3, <2>4
  <1>3. SameFamilies
    BY DEF SameFamilies, Exists
  <1>4. \A t \in Tokens : Carries(t)' <=> Carries(t)
    BY <1>2, <1>3 DEF SameFamilies, Carries
  <1> QED
    BY <1>3, <1>4, SteadyFamilies

LEMMA ReadersSteady ==
  ASSUME IInv, NEW h \in Handlers,
         LoginRead(h) \/ ChangeRead(h) \/ RefreshRead(h) \/ RefreshUser(h)
  PROVE  UNCHANGED Life!signIns
  <1>1. CASE LoginRead(h) \/ ChangeRead(h)
    <2>1. PICK record : /\ record.op \notin {"refresh", "rotate"}
                        /\ req' = [req EXCEPT ![h] = record]
      BY <1>1 DEF LoginRead, ChangeRead
    <2>2. UNCHANGED token /\ \A t \in Tokens : ~Rotates(h, t)
      BY <1>1 DEF LoginRead, ChangeRead, Rotates, Idle
    <2> QED
      BY <2>1, <2>2, ReaderSteady
  <1>2. CASE RefreshRead(h)
    <2>1. UNCHANGED token /\ \A t \in Tokens : ~Rotates(h, t)
      BY <1>2 DEF RefreshRead, Rotates, Idle
    <2>2. PICK t, record :
            /\ t \in Tokens /\ Exists(t)
            /\ \/ record = [op |-> "reuse", user |-> token[t].user]
               \/ record = [op |-> "refresh", token |-> t] /\ ~Revoked(t)
            /\ req' = [req EXCEPT ![h] = record]
      BY <1>2 DEF RefreshRead
    <2>3. ~Revoked(t) => Live(t)
      BY <2>2, ExistingTokens DEF IInv, Revoked, Live, Token
    <2>4. \A s \in Tokens : record.op \in {"refresh", "rotate"} /\ record.token = s
                              => Live(s)
      BY <2>2, <2>3
    <2> QED
      BY <2>1, <2>2, <2>4, ReaderSteady
  <1>3. CASE RefreshUser(h)
    <2>1. PICK record : record = [req[h] EXCEPT !.op = "rotate"]
      OBVIOUS
    <2>2. req[h] \in RefreshRequest
      BY <1>3, RequestShapes DEF RefreshUser, IInv
    <2>3. record.op = "rotate" /\ record.token = req[h].token
      BY <2>1, <2>2 DEF RefreshRequest
    <2>4. \A t \in Tokens : Rotates(h, t) <=> record.token = t
      BY <1>3, <2>3 DEF RefreshUser, Rotates
    <2>5. req' = [req EXCEPT ![h] = record] /\ UNCHANGED token
      BY <1>3, <2>1 DEF RefreshUser
    <2> QED
      BY <2>3, <2>4, <2>5, ReaderSteady
  <1> QED
    BY <1>1, <1>2, <1>3

\* Handlers and statements that end sign-ins of one user.
LEMMA HandlersEnd ==
  ASSUME IInv, NEW h \in Handlers, ReuseRevoke(h) \/ ChangeCommit(h)
  PROVE  Life!Next
  <1>1. PICK u : u = req[h].user
    OBVIOUS
  <1>2. u \in Users /\ RevokeAll(u)
    BY <1>1, RequestShapes DEF IInv, ReuseRevoke, ChangeCommit, UserRequest
  <1>3. Fading
    BY <1>2, RevokeAllFades DEF IInv
  <1>4. Finish(h) /\ \A t \in Tokens : ~Rotates(h, t)
    BY DEF ReuseRevoke, ChangeCommit, Rotates
  <1>5. \A t \in Tokens : InRotation(t)' <=> InRotation(t)
    BY <1>4, FinishRotates DEF IInv
  <1> QED
    BY <1>2, <1>3, <1>5, FadingEnds, RevokeAllOfUser

LEMMA AbandonEnds ==
  ASSUME IInv, NEW h \in Handlers, Abandon(h)
  PROVE  Life!Next \/ UNCHANGED Life!signIns
  <1>1. Finish(h) /\ UNCHANGED token /\ Fading
    BY UnchangedFades DEF Abandon, IInv
  <1>2. CASE req[h].op \in {"refresh", "rotate"}
    <2>1. PICK t \in Tokens : Rotates(h, t) /\ Exists(t)
      BY <1>2, RequestShapes DEF IInv, RefreshRequest, RotationsExist, Rotates
    <2>2. PICK u \in Users : u = token[t].user
      BY <2>1, ExistingTokens DEF IInv
    <2>3. \A s \in Tokens : Rotates(h, s) => s = t
      BY <2>1 DEF Rotates
    <2>4. \A s \in Tokens : Rotates(h, s) => token[s].user = u
      BY <2>2, <2>3
    <2>5. \A s \in Tokens : token[s].user # u => ~Rotates(h, s)
      BY <2>4
    <2> QED
      BY <1>1, <2>5, FadingEnds, FinishRotates DEF IInv
  <1>3. CASE req[h].op \notin {"refresh", "rotate"}
    <2>1. \A t \in Tokens : InRotation(t)' <=> InRotation(t)
      BY <1>1, <1>3, FinishRotates DEF IInv, Rotates
    <2>2. SameFamilies
      BY <1>1, FadingSameFamilies DEF IInv
    <2>3. \A t \in Tokens : Live(t)' <=> Live(t)
      BY <1>1 DEF Live
    <2>4. \A t \in Tokens : Carries(t)' <=> Carries(t)
      BY <2>1, <2>2, <2>3 DEF SameFamilies, Carries
    <2> QED
      BY <2>2, <2>4, SteadyFamilies
  <1> QED
    BY <1>2, <1>3

LEMMA RevocationsEnd ==
  ASSUME IInv, NEW u \in Users, LogoutAll(u) \/ Suspend(u) \/ RevokeSessions(u)
  PROVE  Life!Next
  <1>1. RevokeAll(u) /\ UNCHANGED req
    BY DEF LogoutAll, Suspend, RevokeSessions
  <1>2. Fading
    BY <1>1, RevokeAllFades DEF IInv
  <1> QED
    BY <1>1, <1>2, FadingEnds, RevokeAllOfUser, SameRotations

LEMMA LogoutEnds ==
  ASSUME IInv, NEW t \in Tokens, Logout(t) PROVE Life!Next
  <1>1. UNCHANGED req /\ Fading
    BY LogoutFades DEF Logout, IInv
  <1>2. Exists(t) /\ \A s \in Tokens \ {t} : token'[s] = token[s]
    BY ExistingTokens DEF Logout, IInv, TypeOK
  <1>3. PICK u \in Users : u = token[t].user
    BY <1>2, ExistingTokens DEF IInv
  <1>4. \A s \in Tokens : token'[s] = token[s] \/ token[s].user = u
    BY <1>2, <1>3
  <1> QED
    BY <1>1, <1>4, FadingEnds, SameRotations

\* Steps that touch neither table nor handlers.
LEMMA OthersSteady ==
  ASSUME IInv, UNCHANGED <<token, req>>
  PROVE  UNCHANGED Life!signIns
  <1>1. SameFamilies /\ \A t \in Tokens : Carries(t)' <=> Carries(t)
    BY SameRotations DEF SameFamilies, Carries, Exists, Live
  <1> QED
    BY <1>1, SteadyFamilies

\* A first token begins a sign-in.
LEMMA IssueBegins ==
  ASSUME IInv, NEW u \in Users, NEW password, Issue(u, password),
         \A t \in Tokens : InRotation(t)' <=> InRotation(t)
  PROVE  Life!Next
  <1>1. PICK new \in Tokens : /\ ~Exists(new)
                              /\ token' = [token EXCEPT ![new] = NewToken(u, new, None)]
    BY DEF Issue
  <1>2. PICK row : row = NewToken(u, new, None)
    OBVIOUS
  <1>3. row \in Token /\ row # NoToken /\ row.state = "live"
        /\ row.user = u /\ row.family = new
    BY <1>2, RowsExist DEF NewToken, Token
  <1>4. token'[new] = row /\ \A t \in Tokens \ {new} : token'[t] = token[t]
    BY <1>1, <1>2 DEF IInv, TypeOK
  <1>5. /\ Exists(new)' /\ Live(new)' /\ IsRoot(new)'
        /\ \A t \in Tokens : t # new => (Carries(t)' <=> Carries(t))
        /\ \A t \in Tokens : t # new => (IsRoot(t)' <=> IsRoot(t))
    BY <1>3, <1>4 DEF Exists, Live, IsRoot, Carries
  <1>6. Carries(new)' /\ ~Carries(new) /\ ~IsRoot(new)
    BY <1>1, <1>5 DEF Carries, IsRoot
  <1>7. \A f : Ongoing(f)' <=> \E t \in Tokens : Carries(t)' /\ token'[t].family = f
    BY DEF Ongoing, Carries
  <1>8. ASSUME NEW f \in Tokens, f # new PROVE Ongoing(f)' <=> Ongoing(f)
    BY <1>3, <1>4, <1>5, <1>6, <1>7, <1>8, OngoingIsCarried
  <1>9. Ongoing(new)'
    BY <1>3, <1>4, <1>6, <1>7
  <1>10. /\ Phase(new) = "unused" /\ Phase(new)' = "on" /\ Owner(new)' = u
         /\ \A f \in Tokens : f # new => Phase(f)' = Phase(f) /\ Owner(f)' = Owner(f)
    BY <1>3, <1>4, <1>5, <1>6, <1>8, <1>9 DEF Phase, Owner
  <1>11. Life!Begin(new, u)
    BY <1>10 DEF Life!Begin
  <1> QED
    BY <1>11 DEF Life!Next

LEMMA SignInsBegin ==
  ASSUME IInv,
         \/ \E h \in Handlers : LoginCommit(h)
         \/ \E u \in Users : IssueSessionPublic(u)
  PROVE  Life!Next
  <1>1. CASE \E h \in Handlers : LoginCommit(h)
    <2>1. PICK h \in Handlers : LoginCommit(h)
      BY <1>1
    <2>2. req[h].user \in Users
      BY <2>1, RequestShapes DEF IInv, LoginCommit, LoginRequest
    <2>3. \A t \in Tokens : InRotation(t)' <=> InRotation(t)
      BY <2>1, FinishRotates DEF IInv, LoginCommit, Rotates
    <2> QED
      BY <2>1, <2>2, <2>3, IssueBegins DEF LoginCommit
  <1>2. CASE \E u \in Users : IssueSessionPublic(u)
    BY <1>2, IssueBegins, SameRotations DEF IssueSessionPublic
  <1> QED
    BY <1>1, <1>2

\* A rotation hands the family on from the old token to the new one.
LEMMA RotationSteady ==
  ASSUME IInv, NEW h \in Handlers, RefreshCommit(h)
  PROVE  UNCHANGED Life!signIns
  <1>1. PICK old : old = req[h].token
    OBVIOUS
  <1>2. old \in Tokens /\ Exists(old) /\ InRotation(old)
    BY <1>1, RequestShapes
       DEF IInv, RefreshCommit, RefreshRequest, RotationsExist, InRotation
  <1>3. PICK new \in Tokens :
          /\ ~Exists(new)
          /\ token' = [token EXCEPT
                         ![old] = Replaced(old, new),
                         ![new] = NewToken(token[old].user, token[old].family, old)]
    BY <1>1 DEF RefreshCommit
  <1>4. PICK root \in Tokens : root = token[old].family
    BY <1>2, ExistingTokens DEF IInv
  <1>5. IsRoot(root) /\ Carries(old) /\ Ongoing(root)
    BY <1>2, <1>4, OngoingIsCarried DEF IInv, FamiliesHaveRoots, Carries
  <1>6. /\ \A s \in Tokens : Exists(s)' <=> Exists(s) \/ s = new
        /\ token'[new].state = "live" /\ token'[new].family = root
        /\ \A s \in Tokens : Exists(s) => /\ token'[s].family = token[s].family
                                          /\ token'[s].user = token[s].user
                                          /\ s # old => token'[s] = token[s]
    BY <1>2, <1>3, <1>4, RotationKeepsTable DEF IInv
  <1>7. \A f \in Tokens : IsRoot(f)' <=> IsRoot(f)
    BY <1>3, <1>5, <1>6 DEF IsRoot
  <1>8. \A f \in Tokens : Owner(f)' = Owner(f)
    BY <1>6, <1>7 DEF Owner, IsRoot
  <1>9. \A f : Ongoing(f)' <=> \E t \in Tokens : Carries(t)' /\ token'[t].family = f
    BY DEF Ongoing, Carries
  <1>10. Ongoing(root)'
    <2>1. Carries(new)'
      BY <1>6 DEF Carries, Live
    <2> QED
      BY <2>1, <1>6, <1>9
  <1>11. ASSUME NEW f \in Tokens, f # root PROVE Ongoing(f)' <=> Ongoing(f)
    <2>1. ASSUME NEW t \in Tokens, t # old, t # new
          PROVE  Carries(t)' <=> Carries(t)
      <3>1. ~Rotates(h, t) /\ Finish(h)
        BY <1>1, <2>1 DEF Rotates, RefreshCommit
      <3>2. InRotation(t)' <=> InRotation(t)
        BY <3>1, FinishRotates DEF IInv
      <3>3. Exists(t) => (Live(t)' <=> Live(t))
        BY <1>6, <2>1 DEF Live
      <3> QED
        BY <1>6, <2>1, <3>2, <3>3 DEF Carries
    <2>2. \A t \in Tokens : Carries(t)' /\ token'[t].family = f
                              => Carries(t) /\ token[t].family = f
      BY <1>2, <1>4, <1>6, <1>11, <2>1 DEF Carries
    <2>3. \A t \in Tokens : Carries(t) /\ token[t].family = f
                              => Carries(t)' /\ token'[t].family = f
      BY <1>3, <1>4, <1>6, <1>11, <2>1 DEF Carries
    <2> QED
      BY <1>9, <2>2, <2>3, OngoingIsCarried
  <1>12. \A f \in Tokens : Phase(f)' = Phase(f)
    BY <1>5, <1>7, <1>10, <1>11 DEF Phase
  <1> QED
    BY <1>8, <1>12, SamePhases

LEMMA InitStarts == Init => Life!Init
  BY DEF Init, Life!Init, Phase, Owner, IsRoot, Exists

LEMMA NextIsSignIns == IInv /\ [Next]_vars => [Life!Next]_(Life!signIns)
  <1> SUFFICES ASSUME IInv, [Next]_vars PROVE Life!Next \/ UNCHANGED Life!signIns
    OBVIOUS
  <1>1. ASSUME NEW h \in Handlers, Step(h)
        PROVE  Life!Next \/ UNCHANGED Life!signIns
    BY <1>1, ReadersSteady, SignInsBegin, RotationSteady, HandlersEnd, AbandonEnds
       DEF Step
  <1>2. ASSUME NEW u \in Users, Atomic(u)
        PROVE  Life!Next \/ UNCHANGED Life!signIns
    BY <1>2, SignInsBegin, RevocationsEnd, OthersSteady DEF Atomic, SetAccess, Reactivate
  <1>3. ASSUME NEW t \in Tokens, Logout(t) \/ Expire(t)
        PROVE  Life!Next \/ UNCHANGED Life!signIns
    BY <1>3, LogoutEnds, OthersSteady DEF Expire
  <1>4. CASE UNCHANGED vars
    BY <1>4, OthersSteady DEF vars
  <1> QED
    BY <1>1, <1>2, <1>3, <1>4 DEF Next

\* A family that is over never carries a session again, and no step ends the
\* sessions of two users, whatever interleaves.
THEOREM SessionsImplementSignIns == Spec => ImplementsSignIns
  <1>1. Spec => Life!Spec
    BY InitStarts, NextIsSignIns, InductiveInvariant, PTL DEF Spec, Life!Spec
  <1> QED
    BY <1>1 DEF ImplementsSignIns

-----------------------------------------------------------------------------
(* One request at a time: the inductive invariant.                         *)

OneAtATime == \A h, g \in Handlers : req[h] # Idle /\ req[g] # Idle => h = g

\* A sign-in under way has verified the password of now.
LoginsFresh ==
  \A h \in Handlers : req[h].op = "login" => req[h].password = account[req[h].user].password

\* Token t can still be the next of its family to be presented or rotated.
Held(t) == Live(t) \/ InRotation(t)

\* t is the end of its family, and was got with the password of now.
AtEnd(t) == \A s \in Tokens : Live(s) /\ token[s].family = token[t].family => s = t

Vouched(t) == vouched[t] = account[token[t].user].password

\* A token that is being rotated may have been revoked meanwhile; it is still
\* the only one that could go on.
HeldAlone == \A t \in Tokens : Held(t) => AtEnd(t) /\ Vouched(t)

AloneInv == IInv /\ OneAtATime /\ LoginsFresh /\ HeldAlone

-----------------------------------------------------------------------------
(* Facts about the data.                                                   *)

LEMMA HeldExists == ASSUME IInv, NEW t \in Tokens, Held(t) PROVE Exists(t)
  BY ExistingTokens DEF Held, InRotation, IInv, RotationsExist

LEMMA LiveOrRevoked ==
  ASSUME TypeOK, NEW t \in Tokens, Exists(t) PROVE Live(t) \/ Revoked(t)
  BY ExistingTokens DEF Live, Revoked, Token

SamePasswords == \A u \in Users : account'[u].password = account[u].password

\* A request goes on to record; the others stay.
LEMMA Went ==
  ASSUME TypeOK, NEW h \in Handlers, NEW record, req' = [req EXCEPT ![h] = record]
  PROVE  req'[h] = record /\ \A g \in Handlers \ {h} : req'[g] = req[g]
  BY DEF TypeOK

-----------------------------------------------------------------------------
(* Steps that make no token.                                               *)

LEMMA FadingHolds ==
  ASSUME IInv, HeldAlone, Fading, UNCHANGED vouched, SamePasswords,
         \A t \in Tokens : InRotation(t)' => Held(t)
  PROVE  HeldAlone'
  <1> SUFFICES ASSUME NEW t \in Tokens, Held(t)' PROVE AtEnd(t)' /\ Vouched(t)'
    BY DEF HeldAlone
  <1>1. TypeOK
    BY DEF IInv
  <1>2. Held(t)
    BY <1>1, FadingSameRows DEF Held
  <1>3. Exists(t) /\ AtEnd(t) /\ Vouched(t)
    BY <1>2, HeldExists DEF HeldAlone
  <1>4. /\ token'[t].user = token[t].user /\ token'[t].family = token[t].family
        /\ token[t].user \in Users
    BY <1>1, <1>3, FadingSameRows, ExistingTokens
  <1>5. AtEnd(t)'
    <2> SUFFICES ASSUME NEW s \in Tokens, Live(s)', token'[s].family = token'[t].family
                 PROVE  s = t
      BY DEF AtEnd
    <2>1. Live(s) /\ Exists(s)
      BY <1>1, FadingSameRows, ExistingTokens
    <2>2. token'[s].family = token[s].family
      BY <1>1, <2>1, FadingSameRows
    <2> QED
      BY <1>3, <1>4, <2>1, <2>2 DEF AtEnd
  <1>6. Vouched(t)'
    BY <1>3, <1>4 DEF Vouched, SamePasswords
  <1> QED
    BY <1>5, <1>6

\* A request that goes on to record without a write.
LEMMA ReaderHolds ==
  ASSUME AloneInv, NEW h \in Handlers, NEW record, req' = [req EXCEPT ![h] = record],
         record.op = "login" => record.password = account[record.user].password,
         \A t \in Tokens : record.op \in {"refresh", "rotate"} /\ record.token = t => Held(t),
         UNCHANGED <<token, account, vouched>>
  PROVE  LoginsFresh' /\ HeldAlone'
  <1>1. TypeOK /\ req'[h] = record /\ \A g \in Handlers \ {h} : req'[g] = req[g]
    BY Went DEF AloneInv, IInv
  <1>2. LoginsFresh'
    BY <1>1 DEF LoginsFresh, AloneInv
  <1>3. \A t \in Tokens : InRotation(t)' => Held(t)
    <2> SUFFICES ASSUME NEW t \in Tokens, NEW g \in Handlers,
                        req'[g].op \in {"refresh", "rotate"}, req'[g].token = t
                 PROVE  Held(t)
      BY DEF InRotation
    <2>1. CASE g = h
      BY <1>1, <2>1
    <2>2. CASE g # h
      BY <1>1, <2>2 DEF Held, InRotation
    <2> QED
      BY <2>1, <2>2
  <1>4. Fading /\ SamePasswords
    BY <1>1, UnchangedFades DEF SamePasswords
  <1> QED
    BY <1>2, <1>3, <1>4, FadingHolds DEF AloneInv

LEMMA LoginReadHolds ==
  ASSUME AloneInv, NEW h \in Handlers, LoginRead(h) PROVE LoginsFresh' /\ HeldAlone'
  <1>1. PICK u \in Users :
          req' = [req EXCEPT ![h] = [op |-> "login", user |-> u, password |-> account[u].password]]
    BY DEF LoginRead
  <1> DEFINE record == [op |-> "login", user |-> u, password |-> account[u].password]
  <1>2. record.op = "login" /\ record.password = account[record.user].password
    OBVIOUS
  <1> HIDE DEF record
  <1>3. req' = [req EXCEPT ![h] = record] /\ UNCHANGED <<token, account, vouched>>
    BY <1>1 DEF record, LoginRead
  <1> QED
    BY <1>2, <1>3, ReaderHolds

LEMMA RefreshReadHolds ==
  ASSUME AloneInv, NEW h \in Handlers, RefreshRead(h) PROVE LoginsFresh' /\ HeldAlone'
  <1>1. PICK t \in Tokens :
          /\ Exists(t)
          /\ req' = [req EXCEPT ![h] = IF Revoked(t) THEN [op |-> "reuse", user |-> token[t].user]
                                       ELSE [op |-> "refresh", token |-> t]]
    BY DEF RefreshRead
  <1> DEFINE record == IF Revoked(t) THEN [op |-> "reuse", user |-> token[t].user]
                       ELSE [op |-> "refresh", token |-> t]
  <1>2. record.op # "login"
    OBVIOUS
  <1>3. record.op \in {"refresh", "rotate"} => ~Revoked(t) /\ record.token = t
    OBVIOUS
  <1>4. ~Revoked(t) => Held(t)
    BY <1>1, LiveOrRevoked DEF Held, AloneInv, IInv
  <1> HIDE DEF record
  <1>5. req' = [req EXCEPT ![h] = record] /\ UNCHANGED <<token, account, vouched>>
    BY <1>1 DEF record, RefreshRead
  <1> QED
    BY <1>2, <1>3, <1>4, <1>5, ReaderHolds

LEMMA RefreshUserHolds ==
  ASSUME AloneInv, NEW h \in Handlers, RefreshUser(h) PROVE LoginsFresh' /\ HeldAlone'
  <1> DEFINE record == [req[h] EXCEPT !.op = "rotate"]
  <1>1. req[h].op = "refresh" /\ req[h] \in RefreshRequest
    BY RequestShapes DEF RefreshUser, AloneInv, IInv
  <1>2. record.op = "rotate" /\ record.token = req[h].token
    BY <1>1 DEF RefreshRequest
  <1>3. \A t \in Tokens : req[h].token = t => Held(t)
    BY <1>1 DEF Held, InRotation
  <1> HIDE DEF record
  <1>4. req' = [req EXCEPT ![h] = record] /\ UNCHANGED <<token, account, vouched>>
    BY DEF record, RefreshUser
  <1> QED
    BY <1>2, <1>3, <1>4, ReaderHolds

LEMMA ChangeReadHolds ==
  ASSUME AloneInv, NEW h \in Handlers, ChangeRead(h) PROVE LoginsFresh' /\ HeldAlone'
  <1>1. PICK u \in Users : req' = [req EXCEPT ![h] = [op |-> "change", user |-> u]]
    BY DEF ChangeRead
  <1> DEFINE record == [op |-> "change", user |-> u]
  <1>2. record.op = "change"
    OBVIOUS
  <1> HIDE DEF record
  <1>3. req' = [req EXCEPT ![h] = record] /\ UNCHANGED <<token, account, vouched>>
    BY <1>1 DEF record, ChangeRead
  <1> QED
    BY <1>2, <1>3, ReaderHolds

\* Requests that end, and steps that are not theirs, revoke and nothing more.
LEMMA RevokingHolds ==
  ASSUME AloneInv, Fading, SamePasswords, UNCHANGED vouched,
         UNCHANGED req \/ \E h \in Handlers : Finish(h)
  PROVE  LoginsFresh' /\ HeldAlone'
  <1>1. TypeOK
    BY DEF AloneInv, IInv
  <1>2. \A g \in Handlers : req'[g] = req[g] \/ req'[g].op = "idle"
    BY <1>1 DEF Finish, TypeOK, Idle
  <1>3. \A t \in Tokens : InRotation(t)' => InRotation(t)
    BY <1>2 DEF InRotation
  <1>4. HeldAlone'
    BY <1>3, FadingHolds DEF AloneInv, Held
  <1>5. LoginsFresh'
    <2> SUFFICES ASSUME NEW h \in Handlers, req'[h].op = "login"
                 PROVE  req'[h].password = account'[req'[h].user].password
      BY DEF LoginsFresh
    <2>1. req'[h] = req[h] /\ req[h].op = "login" /\ req[h].user \in Users
      BY <1>1, <1>2, RequestShapes DEF LoginRequest
    <2> QED
      BY <2>1 DEF AloneInv, LoginsFresh, SamePasswords
  <1> QED
    BY <1>4, <1>5

LEMMA ReuseRevokeHolds ==
  ASSUME AloneInv, NEW h \in Handlers, ReuseRevoke(h) PROVE LoginsFresh' /\ HeldAlone'
  <1>1. TypeOK /\ req[h].op = "reuse" /\ RevokeAll(req[h].user) /\ Finish(h)
        /\ UNCHANGED <<account, vouched>>
    BY DEF ReuseRevoke, AloneInv, IInv
  <1>2. req[h].user \in Users
    BY <1>1, RequestShapes DEF UserRequest
  <1>3. Fading /\ SamePasswords
    BY <1>1, <1>2, RevokeAllFades DEF SamePasswords
  <1> QED
    BY <1>1, <1>3, RevokingHolds

LEMMA AbandonHolds ==
  ASSUME AloneInv, NEW h \in Handlers, Abandon(h) PROVE LoginsFresh' /\ HeldAlone'
  <1>1. Fading /\ SamePasswords
    BY UnchangedFades DEF SamePasswords, Abandon, AloneInv, IInv
  <1> QED
    BY <1>1, RevokingHolds DEF Abandon

\* What the administrator and a user who is signed in do.
LEMMA AtomicHolds ==
  ASSUME AloneInv, NEW u \in Users,
         \/ LogoutAll(u) \/ Suspend(u) \/ RevokeSessions(u)
         \/ \E access \in {"open", "locked"} : SetAccess(u, access)
  PROVE  LoginsFresh' /\ HeldAlone'
  <1>1. TypeOK
    BY DEF AloneInv, IInv
  <1>2. Fading
    BY <1>1, RevokeAllFades, UnchangedFades DEF LogoutAll, Suspend, RevokeSessions, SetAccess
  <1>3. UNCHANGED <<req, vouched>>
    BY DEF LogoutAll, Suspend, RevokeSessions, SetAccess
  <1>4. SamePasswords
    <2>1. account' = account
          \/ \E access \in {"open", "locked"} : account' = [account EXCEPT ![u].access = access]
      BY DEF LogoutAll, Suspend, RevokeSessions, SetAccess
    <2> QED
      BY <1>1, <2>1 DEF TypeOK, SamePasswords
  <1> QED
    BY <1>2, <1>3, <1>4, RevokingHolds

LEMMA LogoutHolds ==
  ASSUME AloneInv, NEW t \in Tokens, Logout(t) \/ Expire(t) PROVE LoginsFresh' /\ HeldAlone'
  <1>1. Fading /\ SamePasswords /\ UNCHANGED <<req, vouched>>
    BY LogoutFades, UnchangedFades DEF SamePasswords, Logout, Expire, AloneInv, IInv
  <1> QED
    BY <1>1, RevokingHolds

\* The one step that changes a password comes when no other request is there,
\* and leaves the user no live token.
LEMMA ChangeCommitHolds ==
  ASSUME AloneInv, NEW h \in Handlers, ChangeCommit(h) PROVE LoginsFresh' /\ HeldAlone'
  <1> DEFINE u == req[h].user
  <1>1. /\ TypeOK /\ req[h].op = "change" /\ RevokeAll(u) /\ Finish(h)
        /\ account' = [account EXCEPT ![u].password = @ + 1] /\ UNCHANGED vouched
    BY DEF ChangeCommit, AloneInv, IInv
  <1>2. u \in Users
    BY <1>1, RequestShapes DEF UserRequest
  <1> HIDE DEF u
  <1>3. Fading
    BY <1>1, <1>2, RevokeAllFades
  <1>4. \A g \in Handlers : req'[g].op = "idle"
    <2>1. \A g \in Handlers \ {h} : req[g] = Idle
      BY <1>1 DEF AloneInv, OneAtATime, Idle
    <2>2. req'[h] = Idle /\ \A g \in Handlers \ {h} : req'[g] = req[g]
      BY <1>1 DEF Finish, TypeOK
    <2>3. Idle.op = "idle"
      BY DEF Idle
    <2> QED
      BY <2>1, <2>2, <2>3
  <1>5. LoginsFresh' /\ \A t \in Tokens : ~InRotation(t)'
    BY <1>4 DEF LoginsFresh, InRotation
  <1>6. ASSUME NEW t \in Tokens, Live(t)' PROVE AtEnd(t)' /\ Vouched(t)'
    <2>1. Live(t) /\ Exists(t)
      BY <1>1, <1>3, <1>6, FadingSameRows, ExistingTokens
    <2>2. token[t].user # u
      BY <1>1, <1>6, <2>1 DEF RevokeAll, Live
    <2>3. /\ token'[t].user = token[t].user /\ token'[t].family = token[t].family
          /\ token[t].user \in Users
      BY <1>1, <1>3, <2>1, FadingSameRows, ExistingTokens
    <2>4. account'[token[t].user] = account[token[t].user]
      BY <1>1, <1>2, <2>2, <2>3 DEF TypeOK
    <2>5. AtEnd(t) /\ Vouched(t)
      BY <2>1 DEF AloneInv, HeldAlone, Held
    <2>6. AtEnd(t)'
      <3> SUFFICES ASSUME NEW s \in Tokens, Live(s)', token'[s].family = token'[t].family
                   PROVE  s = t
        BY DEF AtEnd
      <3>1. Live(s) /\ Exists(s)
        BY <1>1, <1>3, FadingSameRows, ExistingTokens
      <3>2. token'[s].family = token[s].family
        BY <1>1, <1>3, <3>1, FadingSameRows
      <3> QED
        BY <2>3, <2>5, <3>1, <3>2 DEF AtEnd
    <2> QED
      BY <1>1, <2>3, <2>4, <2>5, <2>6 DEF Vouched
  <1> QED
    BY <1>5, <1>6 DEF HeldAlone, Held

-----------------------------------------------------------------------------
(* Steps that make a token.                                                *)

\* Requests that end leave nothing new in rotation, and no sign-in unlike before.
LEMMA EndingRequests ==
  ASSUME TypeOK, UNCHANGED req \/ \E h \in Handlers : Finish(h)
  PROVE  /\ \A t \in Tokens : InRotation(t)' => InRotation(t)
         /\ \A g \in Handlers : req'[g].op = "login" => req'[g] = req[g]
  <1>1. \A g \in Handlers : req'[g] = req[g] \/ req'[g].op = "idle"
    BY DEF Finish, TypeOK, Idle
  <1> QED
    BY <1>1 DEF InRotation

\* A sign-in makes a token that starts a family, with the password of now.
LEMMA IssueHolds ==
  ASSUME AloneInv, NEW u \in Users, Issue(u, account[u].password), UNCHANGED account,
         UNCHANGED req \/ \E h \in Handlers : Finish(h)
  PROVE  LoginsFresh' /\ HeldAlone'
  <1>1. TypeOK /\ ChainsAreSound /\ FamiliesHaveRoots
    BY DEF AloneInv, IInv
  <1>2. PICK t \in Tokens :
          /\ ~Exists(t)
          /\ token' = [token EXCEPT ![t] = NewToken(u, t, None)]
          /\ vouched' = [vouched EXCEPT ![t] = account[u].password]
    BY DEF Issue
  <1>3. PICK row : row = NewToken(u, t, None)
    OBVIOUS
  <1>4. row.user = u /\ row.family = t /\ row.state = "live"
    BY <1>3 DEF NewToken
  <1>5. /\ token'[t] = row /\ \A s \in Tokens \ {t} : token'[s] = token[s]
        /\ vouched'[t] = account[u].password /\ \A s \in Tokens \ {t} : vouched'[s] = vouched[s]
    BY <1>1, <1>2, <1>3 DEF TypeOK
  <1>6. \A s \in Tokens : Exists(s) => s # t /\ token[s].family # t
    BY <1>1, <1>2 DEF FamiliesHaveRoots, IsRoot
  <1>7. \A s \in Tokens : InRotation(s)' => InRotation(s)
    BY <1>1, EndingRequests
  <1>8. \A s \in Tokens \ {t} : Live(s)' <=> Live(s)
    BY <1>5 DEF Live
  <1>9. AtEnd(t)' /\ Vouched(t)'
    <2>1. \A s \in Tokens \ {t} : Live(s)' => token'[s].family # t
      BY <1>1, <1>5, <1>6, <1>8, ExistingTokens
    <2> QED
      BY <1>4, <1>5, <2>1 DEF AtEnd, Vouched
  <1>10. ASSUME NEW s \in Tokens \ {t}, Held(s)' PROVE AtEnd(s)' /\ Vouched(s)'
    <2>1. Held(s)
      BY <1>7, <1>8, <1>10 DEF Held
    <2>2. Exists(s) /\ AtEnd(s) /\ Vouched(s)
      BY <2>1, HeldExists DEF AloneInv, HeldAlone
    <2>3. token'[s] = token[s] /\ token[s].family # t
      BY <1>5, <1>6, <2>2
    <2>4. AtEnd(s)'
      BY <1>4, <1>5, <1>8, <2>2, <2>3 DEF AtEnd
    <2> QED
      BY <1>5, <2>2, <2>3, <2>4 DEF Vouched
  <1>11. LoginsFresh'
    BY <1>1, EndingRequests DEF LoginsFresh, AloneInv
  <1> QED
    BY <1>9, <1>10, <1>11 DEF HeldAlone

LEMMA LoginCommitHolds ==
  ASSUME AloneInv, NEW h \in Handlers, LoginCommit(h) PROVE LoginsFresh' /\ HeldAlone'
  <1>1. req[h].op = "login" /\ req[h].user \in Users
    BY RequestShapes DEF LoginCommit, LoginRequest, AloneInv, IInv
  <1>2. req[h].password = account[req[h].user].password
    BY <1>1 DEF AloneInv, LoginsFresh
  <1> QED
    BY <1>1, <1>2, IssueHolds DEF LoginCommit

LEMMA IssueSessionPublicHolds ==
  ASSUME AloneInv, NEW u \in Users, IssueSessionPublic(u) PROVE LoginsFresh' /\ HeldAlone'
  BY IssueHolds DEF IssueSessionPublic

\* A rotation hands the end of the family on.
LEMMA RefreshCommitHolds ==
  ASSUME AloneInv, NEW h \in Handlers, RefreshCommit(h) PROVE LoginsFresh' /\ HeldAlone'
  <1>1. TypeOK /\ ChainsAreSound /\ FamiliesHaveRoots
    BY DEF AloneInv, IInv
  <1>2. PICK old : old = req[h].token
    OBVIOUS
  <1>3. req[h].op = "rotate" /\ Finish(h) /\ UNCHANGED account
    BY DEF RefreshCommit
  <1>4. old \in Tokens /\ Exists(old)
    BY <1>2, <1>3, RequestShapes DEF AloneInv, IInv, RefreshRequest, RotationsExist
  <1>5. PICK new \in Tokens :
          /\ ~Exists(new)
          /\ token' = [token EXCEPT
                         ![old] = Replaced(old, new),
                         ![new] = NewToken(token[old].user, token[old].family, old)]
          /\ vouched' = [vouched EXCEPT ![new] = vouched[old]]
    BY <1>2 DEF RefreshCommit
  <1>6. /\ \A s \in Tokens : Exists(s)' <=> Exists(s) \/ s = new
        /\ token'[new].state = "live" /\ token'[new].family = token[old].family
        /\ token'[new].user = token[old].user /\ token'[old].state = "revoked"
        /\ \A s \in Tokens : Exists(s) => /\ token'[s].family = token[s].family
                                          /\ token'[s].user = token[s].user
                                          /\ s # old => token'[s] = token[s]
    BY <1>1, <1>4, <1>5, RotationKeepsTable
  <1>7. vouched'[new] = vouched[old] /\ \A s \in Tokens \ {new} : vouched'[s] = vouched[s]
    BY <1>1, <1>5 DEF TypeOK
  <1>8. Held(old)
    BY <1>2, <1>3 DEF Held, InRotation
  <1>9. AtEnd(old) /\ Vouched(old)
    BY <1>4, <1>8 DEF AloneInv, HeldAlone
  <1>10. \A s \in Tokens : ~InRotation(s)'
    <2>1. \A g \in Handlers \ {h} : req[g] = Idle
      BY <1>3 DEF AloneInv, OneAtATime, Idle
    <2>2. req'[h] = Idle /\ \A g \in Handlers \ {h} : req'[g] = req[g]
      BY <1>1, <1>3 DEF Finish, TypeOK
    <2>3. \A g \in Handlers : req'[g].op = "idle"
      BY <2>1, <2>2 DEF Idle
    <2> QED
      BY <2>3 DEF InRotation
  <1>11. \A s \in Tokens \ {old, new} : token'[s] = token[s]
    BY <1>1, <1>5 DEF TypeOK
  <1>12. \A s \in Tokens : Live(s)' => s = new \/ (Live(s) /\ s # old /\ Exists(s))
    BY <1>1, <1>6, <1>11, ExistingTokens DEF Live
  <1>13. AtEnd(new)' /\ Vouched(new)'
    <2>1. \A s \in Tokens : Live(s)' /\ token'[s].family = token'[new].family => s = new
      BY <1>6, <1>9, <1>12 DEF AtEnd
    <2> QED
      BY <1>3, <1>6, <1>7, <1>9, <2>1 DEF AtEnd, Vouched
  <1>14. ASSUME NEW s \in Tokens, Live(s)', s # new PROVE AtEnd(s)' /\ Vouched(s)'
    <2>1. Live(s) /\ s # old /\ Exists(s)
      BY <1>12, <1>14
    <2>2. AtEnd(s) /\ Vouched(s)
      BY <2>1 DEF AloneInv, HeldAlone, Held
    <2>3. token'[s] = token[s] /\ token[s].family # token[old].family
      BY <1>6, <1>9, <2>1 DEF AtEnd
    <2>4. AtEnd(s)'
      BY <1>6, <1>12, <2>2, <2>3 DEF AtEnd
    <2> QED
      BY <1>3, <1>7, <1>14, <2>2, <2>3, <2>4 DEF Vouched
  <1>15. HeldAlone'
    BY <1>10, <1>13, <1>14 DEF HeldAlone, Held
  <1>16. LoginsFresh'
    BY <1>1, <1>3, EndingRequests DEF LoginsFresh, AloneInv
  <1> QED
    BY <1>15, <1>16

-----------------------------------------------------------------------------
(* Behaviours of part alone.                                               *)

LEMMA NextHolds == ASSUME AloneInv, [Next]_vars PROVE LoginsFresh' /\ HeldAlone'
  <1>1. ASSUME NEW h \in Handlers, Step(h) PROVE LoginsFresh' /\ HeldAlone'
    BY <1>1, LoginReadHolds, LoginCommitHolds, RefreshReadHolds, RefreshUserHolds,
       RefreshCommitHolds, ReuseRevokeHolds, ChangeReadHolds, ChangeCommitHolds, AbandonHolds
    DEF Step
  <1>2. ASSUME NEW u \in Users, Atomic(u) PROVE LoginsFresh' /\ HeldAlone'
    BY <1>2, IssueSessionPublicHolds, AtomicHolds DEF Atomic, Reactivate
  <1>3. ASSUME NEW t \in Tokens, Logout(t) \/ Expire(t) PROVE LoginsFresh' /\ HeldAlone'
    BY <1>3, LogoutHolds
  <1>4. CASE UNCHANGED vars
    <2>1. Fading /\ SamePasswords /\ UNCHANGED <<req, vouched>>
      BY <1>4, UnchangedFades DEF vars, SamePasswords, AloneInv, IInv
    <2> QED
      BY <2>1, RevokingHolds
  <1> QED
    BY <1>1, <1>2, <1>3, <1>4 DEF Next

\* One step changes one request, so the bound of the part keeps them apart.
LEMMA OneByOne ==
  ASSUME TypeOK, TypeOK', OneAtATime, [Next]_vars,
         Cardinality({h \in Handlers : req'[h] # Idle}) <= 1
  PROVE  OneAtATime'
  <1>1. \E h : \A g \in Handlers : g # h => req'[g] = req[g]
    <2>1. ASSUME NEW h \in Handlers, Step(h) PROVE \A g \in Handlers : g # h => req'[g] = req[g]
      BY <2>1 DEF Step, LoginRead, LoginCommit, RefreshRead, RefreshUser, RefreshCommit,
                  ReuseRevoke, ChangeRead, ChangeCommit, Abandon, Finish, TypeOK
    <2>2. ASSUME NEW u \in Users, Atomic(u) PROVE UNCHANGED req
      BY <2>2 DEF Atomic, IssueSessionPublic, LogoutAll, Suspend, RevokeSessions, Reactivate, SetAccess
    <2>3. ASSUME NEW t \in Tokens, Logout(t) \/ Expire(t) PROVE UNCHANGED req
      BY <2>3 DEF Logout, Expire
    <2> QED
      BY <2>1, <2>2, <2>3 DEF Next, vars
  <1>2. PICK h : \A g \in Handlers : g # h => req'[g] = req[g]
    BY <1>1
  <1> SUFFICES ASSUME NEW g \in Handlers, NEW p \in Handlers, g # p,
                      req'[g] # Idle, req'[p] # Idle
               PROVE  FALSE
    BY DEF OneAtATime
  <1> DEFINE Busy == {f \in Handlers : req'[f] # Idle}
  <1>3. Busy = {g} \cup {p}
    BY <1>2 DEF OneAtATime
  <1>4. IsFiniteSet({g}) /\ Cardinality({g}) = 1
    BY FS_Singleton
  <1>5. Cardinality({g} \cup {p}) = 2
    BY <1>4, FS_AddElement
  <1> QED
    BY <1>3, <1>5

LEMMA InitAlone == MCInit => AloneInv
  <1> SUFFICES ASSUME MCInit PROVE AloneInv
    OBVIOUS
  <1>1. Init
    BY DEF MCInit
  <1>2. \A h \in Handlers : req[h] = Idle /\ req[h].op = "idle"
    BY <1>1 DEF Init, Idle
  <1>3. \A t \in Tokens : ~Held(t)
    BY <1>1, <1>2 DEF Init, Held, Live, InRotation, NoToken
  <1> QED
    BY <1>1, <1>2, <1>3, InitKeeps DEF AloneInv, OneAtATime, LoginsFresh, HeldAlone

LEMMA NextAlone ==
  ASSUME part = "alone" => AloneInv, [MCNext]_<<vars, part>>
  PROVE  part' = "alone" => AloneInv'
  <1> SUFFICES ASSUME part' = "alone" PROVE AloneInv'
    OBVIOUS
  <1>1. [Next]_vars /\ part = "alone"
    BY DEF MCNext
  <1>2. AloneInv /\ IInv'
    BY <1>1, NextKeeps DEF AloneInv
  <1>3. LoginsFresh' /\ HeldAlone'
    BY <1>1, <1>2, NextHolds
  <1>4. OneAtATime'
    <2>1. CASE UNCHANGED vars
      BY <1>2, <2>1 DEF vars, AloneInv, OneAtATime
    <2>2. CASE MCNext
      BY <1>1, <1>2, <2>2, OneByOne DEF MCNext, Within, AloneInv, IInv
    <2> QED
      BY <2>1, <2>2
  <1> QED
    BY <1>2, <1>3, <1>4 DEF AloneInv

\* One reading request at a time: what refresh and login have read is still so
\* when they write, but for what single-statement requests wrote between.
THEOREM AloneInvariant == MCSpec => [](part = "alone" => AloneInv)
  <1>1. MCInit => (part = "alone" => AloneInv)
    BY InitAlone
  <1>2. (part = "alone" => AloneInv) /\ [MCNext]_<<vars, part>> => (part = "alone" => AloneInv)'
    BY NextAlone
  <1> QED
    BY <1>1, <1>2, PTL DEF MCSpec

\* Refreshes that come one at a time leave one live token in a family
\* (rotateSession), whatever is revoked between their statements.
THEOREM OneEndWhenAlone == MCSpec => []OneEndAlone
  <1>1. AloneInv => OneEndPerFamily
    BY DEF AloneInv, HeldAlone, Held, AtEnd, OneEndPerFamily
  <1> QED
    BY <1>1, AloneInvariant, PTL DEF OneEndAlone

\* A change of password ends every session made with the old one
\* (changePassword), as long as no sign-in or refresh runs beside it.
THEOREM PasswordVouchesWhenAlone == MCSpec => []PasswordVouchesAlone
  <1>1. AloneInv => PasswordVouchesForSessions
    BY DEF AloneInv, HeldAlone, Held, Vouched, PasswordVouchesForSessions
  <1> QED
    BY <1>1, AloneInvariant, PTL DEF PasswordVouchesAlone
=============================================================================
