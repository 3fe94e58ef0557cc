------------------------- MODULE WorkingHoursProofs -------------------------
(***************************************************************************)
(* For every set of masters, days, breaks and handlers, and however many   *)
(* weeks are written: a master keeps one week.                             *)
(***************************************************************************)
EXTENDS WorkingHours, TLAPS

(* The inductive invariant.                                                *)

Replacement ==
  [op : {"replace"}, at : {"breaks", "rows", "insert"}, master : Masters, days : SUBSET Days, week : Nat]

Writes(h) == req[h].op \in {"replace", "publish"}

\* A request that writes a week has its master, its days and its number.
RequestsAreTyped ==
  /\ weeks \in Nat
  /\ req = [h \in Handlers |-> req[h]]
  /\ \A h \in Handlers :
       /\ req[h].op = "replace" => req[h] \in Replacement
       /\ Writes(h) => /\ req[h].master \in Masters
                       /\ req[h].days \subseteq Days
                       /\ req[h].week \in 1..weeks
       /\ req[h].op = "publish" => \A r \in req[h].rows : r.master = req[h].master

\* Two requests at once for one master are known to have overlapped.
OverlapsAreKnown ==
  \A g, h \in Handlers :
    g # h /\ Writes(g) /\ Writes(h) /\ req[g].master = req[h].master =>
      {req[g].week, req[h].week} \in beside

\* What a request will not delete any more, having deleted already or found its
\* rows before, was written by one that overlapped it.
OverlapsOthers(h) ==
  /\ req[h].op = "replace" /\ req[h].at = "insert" =>
       \A r \in Of(req[h].master) : {r.week, req[h].week} \in beside
  /\ req[h].op = "publish" =>
       \A r \in Of(req[h].master) \ req[h].rows : {r.week, req[h].week} \in beside

OthersOverlapped == \A h \in Handlers : OverlapsOthers(h)

\* The two parts of WeeksKept, by rows.
WeeksAgree ==
  \A r, s \in hours : r.master = s.master => r.week = s.week \/ {r.week, s.week} \in beside

AbsenceExplained ==
  \A m \in Masters :
    Of(m) # {} \/ m \in bare
      \/ \E h \in Handlers : req[h].op = "replace" /\ req[h].master = m /\ req[h].at = "insert"

IInv ==
  /\ RequestsAreTyped
  /\ OverlapsAreKnown
  /\ OthersOverlapped
  /\ WeeksAgree
  /\ AbsenceExplained

-----------------------------------------------------------------------------
LEMMA InvariantSuffices ==
  ASSUME IInv
  PROVE  WeeksKept
  <1> SUFFICES ASSUME NEW m \in Masters
               PROVE  /\ \A v, w \in WeeksOf(m) : v = w \/ {v, w} \in beside
                      /\ WeeksOf(m) = {} => m \in bare \/ \E h \in Handlers :
                           req[h].op = "replace" /\ req[h].master = m /\ req[h].at = "insert"
    BY DEF WeeksKept
  <1>1. \A v, w \in WeeksOf(m) : v = w \/ {v, w} \in beside
    BY DEF IInv, WeeksAgree, WeeksOf, Of
  <1>2. WeeksOf(m) = {} => Of(m) = {}
    BY DEF WeeksOf
  <1> QED
    BY <1>1, <1>2 DEF IInv, AbsenceExplained

LEMMA InitHolds ==
  ASSUME Days # {}, Init
  PROVE  IInv
  <1>1. RequestsAreTyped
    BY DEF Init, RequestsAreTyped, Writes, Idle
  <1>2. OverlapsAreKnown /\ OthersOverlapped
    BY DEF Init, OverlapsAreKnown, OthersOverlapped, OverlapsOthers, Writes, Idle
  <1>3. WeeksAgree
    BY DEF Init, WeeksAgree
  <1>4. ASSUME NEW m \in Masters
        PROVE  Of(m) # {}
    <2> PICK d \in Days : TRUE
      OBVIOUS
    <2>1. [master |-> m, day |-> d, week |-> 0] \in hours
      BY DEF Init
    <2> QED
      BY <2>1 DEF Of
  <1> QED
    BY <1>1, <1>2, <1>3, <1>4 DEF IInv, AbsenceExplained

-----------------------------------------------------------------------------
(* The steps.                                                              *)

\* A request that begins to write a week.
LEMMA BeginKeeps ==
  ASSUME IInv, NEW h \in Handlers, NEW m \in Masters, NEW days \in SUBSET Days,
         ReplaceMy(h, m, days) \/ PublishDelete(h, m, days)
  PROVE  IInv'
  <1>1. /\ req[h] = Idle /\ weeks' = weeks + 1 /\ weeks \in Nat
        /\ beside' = beside \cup {{weeks + 1, w} : w \in Replacing(m)}
        /\ hours' = hours /\ bare' = bare
        /\ req' = [req EXCEPT ![h] = req'[h]]
        /\ req'[h].master = m /\ req'[h].days = days /\ req'[h].week = weeks + 1
        /\ \A g \in Handlers \ {h} : req'[g] = req[g]
        /\ req' = [g \in Handlers |-> req'[g]]
    BY DEF IInv, RequestsAreTyped, ReplaceMy, PublishDelete, Becomes
  <1>2. \/ req'[h] = [op |-> "replace", at |-> "breaks", master |-> m, days |-> days, week |-> weeks + 1]
        \/ req'[h] = [op |-> "publish", master |-> m, days |-> days, week |-> weeks + 1, rows |-> Of(m)]
    BY DEF IInv, RequestsAreTyped, ReplaceMy, PublishDelete, Becomes
  <1>3. RequestsAreTyped'
    BY <1>1, <1>2 DEF IInv, RequestsAreTyped, Writes, Of, Replacement
  <1>4. ASSUME NEW g \in Handlers, g # h, Writes(g), req[g].master = m
        PROVE  {weeks + 1, req[g].week} \in beside'
    <2>1. req[g].week \in Replacing(m)
      BY <1>4 DEF Replacing, IInv, RequestsAreTyped, Writes
    <2> QED
      BY <2>1, <1>1
  <1>5. OverlapsAreKnown'
    <2> SUFFICES ASSUME NEW f \in Handlers, NEW g \in Handlers, f # g, Writes(f)', Writes(g)',
                        req'[f].master = req'[g].master
                 PROVE  {req'[f].week, req'[g].week} \in beside'
      BY DEF OverlapsAreKnown
    <2>1. CASE f # h /\ g # h
      BY <2>1, <1>1 DEF IInv, OverlapsAreKnown, Writes
    <2>2. CASE f = h
      BY <2>2, <1>1, <1>4 DEF Writes
    <2>3. CASE g = h
      <3>1. {weeks + 1, req[f].week} \in beside'
        BY <2>3, <1>1, <1>4 DEF Writes
      <3>2. {weeks + 1, req[f].week} = {req[f].week, weeks + 1}
        OBVIOUS
      <3> QED
        BY <2>3, <1>1, <3>1, <3>2
    <2> QED
      BY <2>1, <2>2, <2>3
  <1>6. OthersOverlapped'
    BY <1>1, <1>2 DEF IInv, OthersOverlapped, OverlapsOthers, Of
  <1>7. WeeksAgree'
    BY <1>1 DEF IInv, WeeksAgree
  <1>8. AbsenceExplained'
    BY <1>1 DEF IInv, AbsenceExplained, Of, Idle
  <1> QED
    BY <1>3, <1>5, <1>6, <1>7, <1>8 DEF IInv

\* A request that ends, or is about breaks.
LEMMA GoingKeeps ==
  ASSUME IInv, NEW h \in Handlers, UNCHANGED <<weeks, beside>>,
         NEW r, req' = [req EXCEPT ![h] = r], r.op \in {"idle", "create", "delete"}
  PROVE  RequestsAreTyped' /\ OverlapsAreKnown'
  <1>1. /\ req'[h] = r
        /\ \A g \in Handlers \ {h} : req'[g] = req[g]
        /\ req' = [g \in Handlers |-> req'[g]]
    BY DEF IInv, RequestsAreTyped
  <1>2. RequestsAreTyped'
    BY <1>1 DEF IInv, RequestsAreTyped, Writes, Replacement
  <1>3. OverlapsAreKnown'
    BY <1>1 DEF IInv, OverlapsAreKnown, Writes
  <1> QED
    BY <1>2, <1>3

\* Breaks, and requests about them.
LEMMA BreaksKeep ==
  ASSUME IInv, NEW h \in Handlers,
         \/ CreateBreak(h) \/ DeleteBreak(h)
         \/ \E m \in Masters : \E r \in Rows : FindRow(h, m, r)
         \/ \E m \in Masters : \E b \in Breaks : FindBreak(h, m, b)
  PROVE  IInv'
  <1>1. /\ UNCHANGED <<hours, weeks, beside, bare>>
        /\ req[h].op \in {"idle", "create", "delete"}
        /\ \E r : req' = [req EXCEPT ![h] = r] /\ r.op \in {"idle", "create", "delete"}
    BY DEF CreateBreak, DeleteBreak, FindRow, FindBreak, Becomes, Idle
  <1>2. PICK r : req' = [req EXCEPT ![h] = r] /\ r.op \in {"idle", "create", "delete"}
    BY <1>1
  <1>3. RequestsAreTyped' /\ OverlapsAreKnown'
    BY <1>1, <1>2, GoingKeeps
  <1>4. /\ req'[h] = r
        /\ \A g \in Handlers \ {h} : req'[g] = req[g]
    BY <1>2 DEF IInv, RequestsAreTyped
  <1>5. OthersOverlapped'
    BY <1>1, <1>2, <1>4 DEF IInv, OthersOverlapped, OverlapsOthers, Of
  <1>6. WeeksAgree' /\ AbsenceExplained'
    BY <1>1, <1>2, <1>4 DEF IInv, WeeksAgree, AbsenceExplained, Of
  <1> QED
    BY <1>3, <1>5, <1>6 DEF IInv

LEMMA AbandonKeeps ==
  ASSUME IInv, NEW h \in Handlers, Abandon(h)
  PROVE  IInv'
  <1>1. /\ UNCHANGED <<hours, weeks, beside>>
        /\ req' = [req EXCEPT ![h] = Idle] /\ Idle.op = "idle"
    BY DEF Abandon, Becomes, Idle
  <1>2. RequestsAreTyped' /\ OverlapsAreKnown'
    BY <1>1, GoingKeeps
  <1>3. /\ req'[h].op = "idle"
        /\ \A g \in Handlers \ {h} : req'[g] = req[g]
    BY <1>1 DEF IInv, RequestsAreTyped
  <1>4. OthersOverlapped' /\ WeeksAgree'
    BY <1>1, <1>3 DEF IInv, OthersOverlapped, OverlapsOthers, WeeksAgree, Of
  <1>5. AbsenceExplained'
    <2>1. bare \subseteq bare'
      BY DEF Abandon
    <2>2. req[h].op = "replace" /\ Of(req[h].master) = {} => req[h].master \in bare'
      BY DEF Abandon
    <2>3. \A m \in Masters : Of(m)' = Of(m)
      BY <1>1 DEF Of
    <2> QED
      BY <1>3, <2>1, <2>2, <2>3 DEF IInv, AbsenceExplained
  <1> QED
    BY <1>2, <1>4, <1>5 DEF IInv

-----------------------------------------------------------------------------
(* The statements of a replacement.                                        *)

LEMMA DeleteBreaksKeeps ==
  ASSUME IInv, NEW h \in Handlers, DeleteBreaks(h)
  PROVE  IInv'
  <1>1. /\ UNCHANGED <<hours, weeks, beside, bare>>
        /\ req[h] \in Replacement /\ req[h].at = "breaks"
        /\ req' = [req EXCEPT ![h] = [req[h] EXCEPT !.at = "rows"]]
    BY DEF IInv, RequestsAreTyped, DeleteBreaks, Becomes
  <1>2. /\ req'[h] \in Replacement /\ req'[h].at = "rows"
        /\ req'[h].op = "replace" /\ req'[h].master = req[h].master
        /\ req'[h].days = req[h].days /\ req'[h].week = req[h].week
        /\ \A g \in Handlers \ {h} : req'[g] = req[g]
        /\ req' = [g \in Handlers |-> req'[g]]
    BY <1>1 DEF IInv, RequestsAreTyped, Replacement
  <1>3. req[h].op = "replace" /\ Writes(h)
    BY <1>1 DEF Replacement, Writes
  <1>4. RequestsAreTyped'
    BY <1>1, <1>2, <1>3 DEF IInv, RequestsAreTyped, Writes
  <1>5. OverlapsAreKnown'
    BY <1>1, <1>2, <1>3 DEF IInv, OverlapsAreKnown, Writes
  <1>6. OthersOverlapped' /\ WeeksAgree'
    BY <1>1, <1>2 DEF IInv, OthersOverlapped, OverlapsOthers, WeeksAgree, Of
  <1>7. AbsenceExplained'
    BY <1>1, <1>2 DEF IInv, AbsenceExplained, Of
  <1> QED
    BY <1>4, <1>5, <1>6, <1>7 DEF IInv

LEMMA DeleteRowsKeeps ==
  ASSUME IInv, NEW h \in Handlers, DeleteRows(h)
  PROVE  IInv'
  <1>1. /\ UNCHANGED <<weeks, beside, bare>>
        /\ req[h] \in Replacement /\ req[h].at = "rows"
        /\ req' = [req EXCEPT ![h] = [req[h] EXCEPT !.at = "insert"]]
        /\ hours' = hours \ Of(req[h].master)
    BY DEF IInv, RequestsAreTyped, DeleteRows, Deleted, Replaced, Becomes
  <1>2. /\ req'[h] \in Replacement /\ req'[h].at = "insert"
        /\ req'[h].op = "replace" /\ req'[h].master = req[h].master
        /\ req'[h].days = req[h].days /\ req'[h].week = req[h].week
        /\ \A g \in Handlers \ {h} : req'[g] = req[g]
        /\ req' = [g \in Handlers |-> req'[g]]
    BY <1>1 DEF IInv, RequestsAreTyped, Replacement
  <1>3. req[h].op = "replace" /\ Writes(h)
    BY <1>1 DEF Replacement, Writes
  <1>4. RequestsAreTyped'
    BY <1>1, <1>2, <1>3 DEF IInv, RequestsAreTyped, Writes
  <1>5. OverlapsAreKnown'
    BY <1>1, <1>2, <1>3 DEF IInv, OverlapsAreKnown, Writes
  <1>6. Of(req[h].master)' = {}
    BY <1>1 DEF Of
  <1>7. \A m : Of(m)' \subseteq Of(m) /\ (m # req[h].master => Of(m)' = Of(m))
    BY <1>1 DEF Of
  <1>8. OthersOverlapped'
    <2> SUFFICES ASSUME NEW g \in Handlers
                 PROVE  OverlapsOthers(g)'
      BY DEF OthersOverlapped
    <2>1. CASE g = h
      BY <2>1, <1>1, <1>2, <1>6 DEF OverlapsOthers
    <2>2. CASE g # h
      BY <2>2, <1>1, <1>2, <1>7 DEF IInv, OthersOverlapped, OverlapsOthers
    <2> QED
      BY <2>1, <2>2
  <1>9. WeeksAgree'
    BY <1>1 DEF IInv, WeeksAgree
  <1>10. AbsenceExplained'
    BY <1>1, <1>2, <1>7 DEF IInv, AbsenceExplained
  <1> QED
    BY <1>4, <1>5, <1>8, <1>9, <1>10 DEF IInv

\* A week is written: others of its master have overlapped.
WritesWeek(h) ==
  /\ hours' \subseteq hours \cup Week(req[h])
  /\ Week(req[h]) \subseteq hours'
  /\ \A x \in hours \ hours' : x.master = req[h].master
  /\ \A x \in Of(req[h].master) \cap hours' : {x.week, req[h].week} \in beside \/ x \in Week(req[h])
  /\ bare' = BareAfter(req[h])
  /\ req' = [req EXCEPT ![h] = Idle]
  /\ UNCHANGED <<weeks, beside>>

LEMMA WritingKeeps ==
  ASSUME IInv, NEW h \in Handlers, Writes(h), WritesWeek(h)
  PROVE  IInv'
  <1> PICK m, w : m = req[h].master /\ w = req[h].week
    OBVIOUS
  <1>1. m \in Masters /\ req[h].days \subseteq Days
    BY DEF IInv, RequestsAreTyped
  <1>2. RequestsAreTyped' /\ OverlapsAreKnown'
    BY GoingKeeps DEF WritesWeek, Idle
  <1>3. /\ req'[h].op = "idle" /\ ~Writes(h)'
        /\ \A g \in Handlers \ {h} : req'[g] = req[g]
    BY DEF IInv, RequestsAreTyped, WritesWeek, Idle, Writes
  <1>4. \A x \in Week(req[h]) : x.master = m /\ x.week = w
    BY DEF Week
  <1>5. \A n : n # m => Of(n)' = Of(n)
    BY <1>4 DEF Of, WritesWeek
  <1>6. ASSUME NEW x \in Of(m)'
        PROVE  x.week = w \/ (x \in Of(m) /\ {x.week, w} \in beside)
    BY <1>4, <1>6 DEF Of, WritesWeek
  <1>7. OthersOverlapped'
    <2> SUFFICES ASSUME NEW g \in Handlers, g # h
                 PROVE  OverlapsOthers(g)'
      BY <1>3 DEF OthersOverlapped, OverlapsOthers
    <2>1. CASE req[g].master # m
      BY <2>1, <1>3, <1>5 DEF IInv, OthersOverlapped, OverlapsOthers, WritesWeek
    <2>2. CASE Writes(g) /\ req[g].master = m
      <3>1. {w, req[g].week} \in beside
        BY <2>2 DEF IInv, OverlapsAreKnown
      <3>2. OverlapsOthers(g)
        BY DEF IInv, OthersOverlapped
      <3>3. req'[g] = req[g] /\ beside' = beside
        BY <1>3 DEF WritesWeek
      <3>4. ASSUME NEW x \in Of(m)', x \in Of(m) => {x.week, req[g].week} \in beside
            PROVE  {x.week, req[g].week} \in beside
        BY <3>1, <3>4, <1>6
      <3> QED
        BY <2>2, <3>2, <3>3, <3>4 DEF OverlapsOthers
    <2>3. CASE ~Writes(g)
      BY <2>3, <1>3 DEF OverlapsOthers, Writes
    <2> QED
      BY <2>1, <2>2, <2>3
  <1>8. WeeksAgree'
    <2> SUFFICES ASSUME NEW x \in hours', NEW y \in hours', x.master = y.master
                 PROVE  x.week = y.week \/ {x.week, y.week} \in beside
      BY DEF WeeksAgree, WritesWeek
    <2>1. CASE x.master # m
      <3>1. x \in hours /\ y \in hours
        BY <2>1, <1>4 DEF WritesWeek
      <3> QED
        BY <3>1 DEF IInv, WeeksAgree
    <2>2. CASE x.master = m
      <3>1. x \in Of(m)' /\ y \in Of(m)'
        BY <2>2 DEF Of
      <3>2. CASE x.week # w /\ y.week # w
        <4>1. x \in hours /\ y \in hours
          BY <3>1, <3>2, <1>6 DEF Of
        <4> QED
          BY <4>1 DEF IInv, WeeksAgree
      <3>3. CASE x.week = w
        <4>1. {w, y.week} = {y.week, w}
          OBVIOUS
        <4> QED
          BY <4>1, <3>1, <3>3, <1>6
      <3>4. CASE y.week = w
        BY <3>1, <3>4, <1>6
      <3> QED
        BY <3>2, <3>3, <3>4
    <2> QED
      BY <2>1, <2>2
  <1>9. AbsenceExplained'
    <2> SUFFICES ASSUME NEW n \in Masters
                 PROVE  (\/ Of(n) # {} \/ n \in bare
                         \/ \E g \in Handlers : req[g].op = "replace" /\ req[g].master = n /\ req[g].at = "insert")'
      BY DEF AbsenceExplained
    <2>1. CASE n # m
      BY <2>1, <1>3, <1>5 DEF IInv, AbsenceExplained, WritesWeek, BareAfter
    <2>2. CASE n = m /\ req[h].days = {}
      BY <2>2 DEF WritesWeek, BareAfter
    <2>3. CASE n = m /\ req[h].days # {}
      <3>1. PICK d \in req[h].days : TRUE
        BY <2>3
      <3>2. [master |-> m, day |-> d, week |-> w] \in Week(req[h])
        BY DEF Week
      <3>3. [master |-> m, day |-> d, week |-> w] \in Of(m)'
        BY <3>2, <1>4 DEF Of, WritesWeek
      <3> QED
        BY <2>3, <3>3
    <2> QED
      BY <2>1, <2>2, <2>3
  <1> QED
    BY <1>2, <1>7, <1>8, <1>9 DEF IInv

LEMMA InsertRowsKeeps ==
  ASSUME IInv, NEW h \in Handlers, InsertRows(h)
  PROVE  IInv'
  <1>1. Writes(h) /\ WritesWeek(h)
    BY DEF InsertRows, WritesWeek, Writes, Becomes, IInv, OthersOverlapped, OverlapsOthers
  <1> QED
    BY <1>1, WritingKeeps

LEMMA PublishCommitKeeps ==
  ASSUME IInv, NEW h \in Handlers, PublishCommit(h)
  PROVE  IInv'
  <1>1. Writes(h) /\ \A x \in req[h].rows : x.master = req[h].master
    BY DEF PublishCommit, Writes, IInv, RequestsAreTyped
  <1>2. WritesWeek(h)
    BY <1>1 DEF PublishCommit, WritesWeek, Becomes, IInv, OthersOverlapped, OverlapsOthers
  <1> QED
    BY <1>1, <1>2, WritingKeeps

-----------------------------------------------------------------------------
LEMMA NextKeeps ==
  ASSUME IInv, [Next]_vars
  PROVE  IInv'
  <1>1. CASE UNCHANGED vars
    BY <1>1 DEF vars, IInv, RequestsAreTyped, OverlapsAreKnown, OthersOverlapped, OverlapsOthers, WeeksAgree,
      AbsenceExplained, Writes, Of
  <1>2. CASE Next
    <2> PICK h \in Handlers :
          \/ \E m \in Masters, days \in SUBSET Days : ReplaceMy(h, m, days)
          \/ \E m \in Masters, days \in SUBSET Days : PublishDelete(h, m, days)
          \/ PublishCommit(h)
          \/ DeleteBreaks(h)
          \/ DeleteRows(h)
          \/ InsertRows(h)
          \/ \E m \in Masters, r \in Rows : FindRow(h, m, r)
          \/ CreateBreak(h)
          \/ \E m \in Masters, b \in Breaks : FindBreak(h, m, b)
          \/ DeleteBreak(h)
          \/ Abandon(h)
      BY <1>2 DEF Next
    <2> QED
      BY BeginKeeps, PublishCommitKeeps, DeleteBreaksKeeps, DeleteRowsKeeps, InsertRowsKeeps, BreaksKeep, AbandonKeeps
  <1> QED
    BY <1>1, <1>2

\* A master has the rows of one week, except where replacements are known to
\* have overlapped, and has none only while one is between its statements, after
\* one failed there, or when a week without hours was asked for: for any number
\* of masters, days and requests at once.
THEOREM WeeksStayKept ==
  ASSUME Days # {}
  PROVE  Spec => []WeeksKept
  <1>1. Init => IInv
    BY InitHolds
  <1>2. IInv /\ [Next]_vars => IInv'
    BY NextKeeps
  <1>3. IInv => WeeksKept
    BY InvariantSuffices
  <1> QED
    BY <1>1, <1>2, <1>3, PTL DEF Spec
=============================================================================
