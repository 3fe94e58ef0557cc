---------------------------- MODULE WorkingHours ----------------------------
(***************************************************************************)
(* The weekly hours of masters and their breaks, as SchedulesService keeps *)
(* them.  A master replaces the week with three statements, each committed *)
(* by itself; requests of one master, sent twice or from two devices, run  *)
(* beside each other, and one that fails half way leaves what it has done. *)
(* Publishing a salon's draft replaces the weeks of its staff by those the *)
(* draft holds, in a transaction.                                          *)
(*                                                                         *)
(* A row of hours is known by its master, its day and the replacement that *)
(* wrote it; when it begins and ends is left to Availability.              *)
(***************************************************************************)
EXTENDS Integers, FiniteSets

CONSTANTS
  Masters, Days,
  Breaks,         \* ids breaks may get
  Handlers,       \* requests handled at once
  MaxWeeks,       \* bound: weeks written
  None, Gone      \* a break not made yet; one that was removed

VARIABLES
  hours,      \* WorkingSchedule: the rows there are
  break,      \* ScheduleBreak: the row each break is in
  weeks,      \* replacements begun
  req,        \* the request each handler is at
  beside,     \* history: the replacements of one master that overlapped
  bare,       \* history: the masters left without hours by a failure, or at request
  lost        \* history: whose break was removed, and at whose request

vars == <<hours, break, weeks, req, beside, bare, lost>>

-----------------------------------------------------------------------------
Rows == [master : Masters, day : Days, week : 0..MaxWeeks]

Idle == [op |-> "idle"]

Present == {b \in Breaks : break[b] \notin {None, Gone}}

TypeOK ==
  /\ hours \subseteq Rows
  /\ break \in [Breaks -> Rows \cup {None, Gone}]
  /\ \A b \in Present : break[b] \in hours
  /\ weeks \in 0..MaxWeeks
  /\ DOMAIN req = Handlers

Init ==
  /\ hours = [master : Masters, day : Days, week : {0}]
  /\ break = [b \in Breaks |-> None]
  /\ weeks = 0
  /\ req = [h \in Handlers |-> Idle]
  /\ beside = {}
  /\ bare = {}
  /\ lost = {}

Of(m) == {r \in hours : r.master = m}

Becomes(h, r) == req' = [req EXCEPT ![h] = r]

Week(r) == [master : {r.master}, day : r.days, week : {r.week}]

BareAfter(r) == IF r.days = {} THEN bare \cup {r.master} ELSE bare \ {r.master}

\* Rows go, and with them their breaks: the relation cascades.
Deleted(rows) ==
  /\ hours' = hours \ rows
  /\ break' = [b \in Breaks |-> IF break[b] \in rows THEN Gone ELSE break[b]]

-----------------------------------------------------------------------------
(* replaceMy *)

Replacing(m) ==
  {w \in 1..weeks : \E h \in Handlers :
     req[h].op \in {"replace", "publish"} /\ req[h].master = m /\ req[h].week = w}

ReplaceMy(h, m, days) ==
  /\ req[h] = Idle
  /\ weeks < MaxWeeks
  /\ weeks' = weeks + 1
  /\ Becomes(h, [op |-> "replace", at |-> "breaks", master |-> m, days |-> days, week |-> weeks + 1])
  /\ beside' = beside \cup {{weeks + 1, w} : w \in Replacing(m)}
  /\ UNCHANGED <<hours, break, bare, lost>>

\* The statement has no condition: every master's breaks go.
DeleteBreaks(h) ==
  /\ req[h].op = "replace" /\ req[h].at = "breaks"
  /\ break' = [b \in Breaks |-> IF b \in Present THEN Gone ELSE break[b]]
  /\ lost' = lost \cup {<<break[b].master, req[h].master>> : b \in Present}
  /\ Becomes(h, [req[h] EXCEPT !.at = "rows"])
  /\ UNCHANGED <<hours, weeks, beside, bare>>

\* Mutant: only the days that are written again are deleted.
ReplacedDays(r) == {x \in Of(r.master) : x.day \in r.days}

Replaced(r) == Of(r.master)

DeleteRows(h) ==
  /\ req[h].op = "replace" /\ req[h].at = "rows"
  /\ Deleted(Replaced(req[h]))
  /\ Becomes(h, [req[h] EXCEPT !.at = "insert"])
  /\ UNCHANGED <<weeks, beside, bare, lost>>

InsertRows(h) ==
  /\ req[h].op = "replace" /\ req[h].at = "insert"
  /\ hours' = hours \cup Week(req[h])
  /\ bare' = BareAfter(req[h])
  /\ Becomes(h, Idle)
  /\ UNCHANGED <<break, weeks, beside, lost>>

-----------------------------------------------------------------------------
(* publishDraft, for one member of staff: the transaction deletes the rows *)
(* it finds, and writes the draft's, which may be older than what the      *)
(* master has set since.  Rows added before it commits stay.               *)

PublishDelete(h, m, days) ==
  /\ req[h] = Idle
  /\ weeks < MaxWeeks
  /\ weeks' = weeks + 1
  /\ Becomes(h, [op |-> "publish", master |-> m, days |-> days, week |-> weeks + 1, rows |-> Of(m)])
  /\ beside' = beside \cup {{weeks + 1, w} : w \in Replacing(m)}
  /\ UNCHANGED <<hours, break, bare, lost>>

PublishCommit(h) ==
  /\ req[h].op = "publish"
  /\ hours' = (hours \ req[h].rows) \cup Week(req[h])
  /\ break' = [b \in Breaks |-> IF break[b] \in req[h].rows THEN Gone ELSE break[b]]
  /\ bare' = BareAfter(req[h])
  /\ Becomes(h, Idle)
  /\ UNCHANGED <<weeks, beside, lost>>

-----------------------------------------------------------------------------
(* createBreak, updateBreak, deleteBreak: the row or the break is found,   *)
(* then written; a row or a break that is gone by then fails the request.  *)

FindRow(h, m, r) ==
  /\ req[h] = Idle
  /\ r \in Of(m)
  /\ Becomes(h, [op |-> "create", row |-> r])
  /\ UNCHANGED <<hours, break, weeks, beside, bare, lost>>

CreateBreak(h) ==
  /\ req[h].op = "create"
  /\ \/ req[h].row \notin hours /\ UNCHANGED break
     \/ /\ req[h].row \in hours
        /\ \E b \in Breaks :
             /\ break[b] = None
             /\ break' = [break EXCEPT ![b] = req[h].row]
  /\ Becomes(h, Idle)
  /\ UNCHANGED <<hours, weeks, beside, bare, lost>>

\* What updateBreak changes, the break's time, is not kept here.
FindBreak(h, m, b) ==
  /\ req[h] = Idle
  /\ b \in Present /\ break[b].master = m
  /\ Becomes(h, [op |-> "delete", id |-> b, master |-> m])
  /\ UNCHANGED <<hours, break, weeks, beside, bare, lost>>

DeleteBreak(h) ==
  /\ req[h].op = "delete"
  /\ \/ req[h].id \notin Present /\ UNCHANGED <<break, lost>>
     \/ /\ req[h].id \in Present
        /\ break' = [break EXCEPT ![req[h].id] = Gone]
        /\ lost' = lost \cup {<<break[req[h].id].master, req[h].master>>}
  /\ Becomes(h, Idle)
  /\ UNCHANGED <<hours, weeks, beside, bare>>

\* A statement fails, or the process stops: the rest of the request is lost.
Abandon(h) ==
  /\ req[h] # Idle
  /\ bare' = IF req[h].op = "replace" /\ Of(req[h].master) = {}
                 THEN bare \cup {req[h].master} ELSE bare
  /\ Becomes(h, Idle)
  /\ UNCHANGED <<hours, break, weeks, beside, lost>>

Next ==
  \E h \in Handlers :
    \/ \E m \in Masters, days \in SUBSET Days : ReplaceMy(h, m, days)
    \/ \E m \in Masters, days \in SUBSET Days : PublishDelete(h, m, days)
    \/ PublishCommit(h)
    \/ DeleteBreaks(h)
    \/ DeleteRows(h)
    \/ InsertRows(h)
    \/ \E m \in Masters, r \in Rows : FindRow(h, m, r)
    \/ CreateBreak(h)
    \/ \E m \in Masters, b \in Breaks : FindBreak(h, m, b)
    \/ DeleteBreak(h)
    \/ Abandon(h)

Spec == Init /\ [][Next]_vars

-----------------------------------------------------------------------------
WeeksOf(m) == {r.week : r \in Of(m)}

\* A master has the rows of one week, except that replacements which overlapped
\* may each leave theirs, and publications beside them; and has none only while
\* a replacement is between its statements, after one failed there, for
\* replaceMy has no transaction, or when a week without hours was asked for.
WeeksKept ==
  \A m \in Masters :
    /\ \A v, w \in WeeksOf(m) : v = w \/ {v, w} \in beside
    /\ WeeksOf(m) = {} =>
         m \in bare \/ \E h \in Handlers : req[h].op = "replace" /\ req[h].master = m /\ req[h].at = "insert"

\* A break that is gone was removed by its own master: the endpoint is described
\* as replacing the caller's schedule (schedules.controller.ts).
OwnBreaksOnly == \A l \in lost : l[1] = l[2]
=============================================================================
