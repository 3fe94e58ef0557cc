----------------------------- MODULE StaffDrafts -----------------------------
(***************************************************************************)
(* The staff a new partner enters (PartnerOnboarding), and the records of  *)
(* it (SalonStaffDraftsController).                                        *)
(*                                                                         *)
(* The page saves a row 650 ms after the last key, by a function that is a *)
(* closure of the render in which the key was pressed: it sees the row as  *)
(* it was before that key, and what was told of the row then.  A timer     *)
(* below is such a View.                                                   *)
(*                                                                         *)
(* A row has a name and a status; its other fields are saved like the      *)
(* name.  A request the page gives up has been carried out or never will   *)
(* be.  The page is loaded again between requests, and shows what the      *)
(* server has.  One publication and one removal at a time.                 *)
(***************************************************************************)
EXTENDS Integers, FiniteSets

CONSTANTS
  Ids,        \* of records
  Local,      \* the id of a row that has no record yet; one row at a time
  Names,      \* typed; a space is one, for an empty name is not published
  MaxPresses, \* bound: what the partner does
  MaxLost,    \* bound: answers that do not arrive
  None

VARIABLES
  stored,      \* the table: by id a status and a name, or None
  shown,       \* the page: by id a status, a name and the name saved last, or None
  notice,      \* the page: by id what it tells of the saving of a row
  timer,       \* by id a View, or None
  call,        \* by id the request that saves the row, or None
  publisher,   \* the publication: of which row, seen how, how far; or None
  removal,     \* the removal: of which row, how far; or None
  tally,       \* history: what was done, rows added, records created, answers lost, and
               \* reasons for one record more
  raced,       \* history: records published while they were removed
  erased       \* history: records deleted that were published

vars == <<stored, shown, notice, timer, call, publisher, removal, tally, raced, erased>>

Keys == Ids \cup {Local}

Empty == ""
Space == " "

Publishing(k) == publisher # None /\ publisher.id = k

Removing(k) == removal # None /\ removal.id = k

Blank(name) == name \in {Empty, Space}

NewRow == [status |-> "DRAFT", name |-> Empty, last |-> None]

RowOf(record) == [status |-> record.status, name |-> record.name, last |-> None]

View(k) == [row |-> shown[k], notice |-> notice[k]]

\* What the list gives the page.
Listed ==
  [k \in Keys |-> IF k \in Ids /\ stored[k] # None /\ stored[k].status # "ARCHIVED" THEN RowOf(stored[k]) ELSE None]

Init ==
  /\ stored \in [Ids -> {None, [status |-> "DRAFT", name |-> CHOOSE n \in Names : ~Blank(n)]}]
  /\ Cardinality({k \in Ids : stored[k] # None}) <= 1
  /\ shown = Listed
  /\ notice = [k \in Keys |-> "idle"]
  /\ timer = [k \in Keys |-> None]
  /\ call = [k \in Keys |-> None]
  /\ publisher = None
  /\ removal = None
  /\ tally = [presses |-> 0, added |-> 0, created |-> 0, lost |-> 0, excuses |-> 0]
  /\ raced = {}
  /\ erased = {}

-----------------------------------------------------------------------------
(* The page.                                                               *)

server == <<stored, raced, erased>>

AddMaster ==
  /\ shown[Local] = None /\ ~Publishing(Local)
  /\ tally.presses < MaxPresses
  /\ tally' = [tally EXCEPT !.presses = @ + 1, !.added = @ + 1]
  /\ shown' = [shown EXCEPT ![Local] = NewRow]
  /\ notice' = [notice EXCEPT ![Local] = "idle"]
  /\ UNCHANGED <<server, timer, call, publisher, removal>>

\* Mutant: what is being saved may be saved again.
SendsAgain(view, force) == force \/ (~Blank(view.row.name) /\ view.row.last # view.row.name)

\* Whether flushDraftSave sends what it sees.
Sends(view, force) ==
  /\ view.notice # "saving"
  /\ force \/ (~Blank(view.row.name) /\ view.row.last # view.row.name)

\* It sees what was saved last, and says so.
Unchanged(view) == view.notice # "saving" /\ ~Blank(view.row.name) /\ view.row.last = view.row.name

Flush(k, view, force) ==
  /\ timer' = [timer EXCEPT ![k] = None]
  /\ call' = [call EXCEPT ![k] = IF Sends(view, force)
                                 THEN [name |-> view.row.name, state |-> "sent", id |-> k, saved |-> None]
                                 ELSE @]
  /\ notice' = [notice EXCEPT ![k] = CASE Sends(view, force) -> "saving"
                                   [] ~force /\ Unchanged(view) -> "saved"
                                   [] OTHER -> @]

Excused(yes) == tally' = IF yes THEN [tally EXCEPT !.excuses = @ + 1] ELSE tally

\* The partner does something; excuse says that it may take one record more.
Pressed(excuse) ==
  /\ tally.presses < MaxPresses
  /\ tally' = [tally EXCEPT !.presses = @ + 1, !.excuses = IF excuse THEN @ + 1 ELSE @]

\* The answer that the page gives up was on its way.
Wasted(k) == k = Local /\ call[k] # None /\ call[k].state = "done"

\* updateMaster, by somebody who saw view: a request under way is aborted, which
\* its flushDraftSave takes for a failure.
Update(k, view, row) ==
  /\ shown' = [shown EXCEPT ![k] = IF @ = None THEN None ELSE row]
  /\ IF Blank(row.name)
     THEN UNCHANGED <<notice, timer, call>>
     ELSE /\ notice' = [notice EXCEPT ![k] = IF call[k] = None THEN "saving" ELSE "error"]
          /\ timer' = [timer EXCEPT ![k] = view]
          /\ call' = [call EXCEPT ![k] = None]

Type(k, name) ==
  /\ shown[k] # None /\ shown[k].name # name
  /\ Update(k, View(k), [shown[k] EXCEPT !.name = name])
  /\ Pressed(Wasted(k) /\ ~Blank(name))
  /\ UNCHANGED <<server, publisher, removal>>

Due(k) ==
  /\ timer[k] # None
  /\ Flush(k, timer[k], FALSE)
  /\ UNCHANGED <<server, shown, publisher, removal, tally>>

\* "Weiter", the publication of the profile, "Erneut speichern".
Force(k) ==
  /\ shown[k] # None
  /\ ~Blank(shown[k].name) \/ (notice[k] = "error" /\ shown[k].status = "DRAFT")
  /\ Flush(k, View(k), TRUE)
  /\ Pressed(FALSE)
  /\ UNCHANGED <<server, shown, publisher, removal>>

PublishMaster(k) ==
  /\ shown[k] # None /\ shown[k].status # "PUBLISHED" /\ shown[k].name # Empty
  /\ publisher = None
  /\ publisher' = [id |-> k, view |-> View(k), saved |-> None,
                   state |-> IF Sends(View(k), TRUE) THEN "saving" ELSE "sent"]
  /\ Flush(k, View(k), TRUE)
  /\ Pressed(FALSE)
  /\ UNCHANGED <<server, shown, removal>>

PublishSaved(k) ==
  /\ Publishing(k) /\ publisher.state = "saving" /\ call[k] = None
  /\ publisher' = [publisher EXCEPT !.state = "sent"]
  /\ UNCHANGED <<server, shown, notice, timer, call, removal, tally>>

RemoveMaster(k) ==
  /\ shown[k] # None /\ removal = None
  /\ timer' = [timer EXCEPT ![k] = None]
  /\ notice' = [notice EXCEPT ![k] = IF call[k] = None THEN @ ELSE "error"]
  /\ call' = [call EXCEPT ![k] = None]
  /\ IF k = Local
     THEN shown' = [shown EXCEPT ![k] = None] /\ UNCHANGED removal
     ELSE removal' = [id |-> k, state |-> "sent"] /\ UNCHANGED shown
  /\ Pressed(Wasted(k))
  /\ UNCHANGED <<server, publisher>>

\* The rows are what the server has; the first save of a row gives it its id.
Saved(k) ==
  LET c == call[k]
      row == [status |-> c.saved.status, name |-> c.saved.name, last |-> c.name]
  IN /\ c # None /\ c.state = "done"
     /\ shown' = IF shown[k] = None THEN shown ELSE [shown EXCEPT ![k] = None, ![c.id] = row]
     /\ notice' = [notice EXCEPT ![k] = "saved"]
     /\ call' = [call EXCEPT ![k] = None]
     /\ UNCHANGED <<server, timer, publisher, removal, tally>>

NotSaved(k) ==
  /\ call[k] # None /\ call[k].state = "failed"
  /\ notice' = [notice EXCEPT ![k] = "error"]
  /\ call' = [call EXCEPT ![k] = None]
  /\ UNCHANGED <<server, shown, timer, publisher, removal, tally>>

Over(k, state) ==
  /\ Publishing(k) /\ publisher.state = state
  /\ publisher' = None
  /\ UNCHANGED <<server, removal>>

Published(k) ==
  /\ Over(k, "done")
  /\ shown' = [shown EXCEPT ![k] = IF @ = None THEN None ELSE RowOf(publisher.saved)]
  /\ UNCHANGED <<notice, timer, call, tally>>

SubscriptionRequired(k) == Over(k, "refused") /\ UNCHANGED <<shown, notice, timer, call, tally>>

\* The row is shown as published all the same, and is saved again in 650 ms under
\* the id it had.
NotPublished(k) ==
  /\ Over(k, "failed")
  /\ Update(k, publisher.view, [publisher.view.row EXCEPT !.status = "PUBLISHED"])
  /\ Excused(Wasted(k) \/ (k = Local /\ Sends(publisher.view, FALSE)))

Removed(k) ==
  /\ Removing(k) /\ removal.state = "done"
  /\ shown' = [shown EXCEPT ![k] = None]
  /\ removal' = None
  /\ UNCHANGED <<server, notice, timer, call, publisher, tally>>

Reload ==
  /\ publisher = None /\ removal = None /\ \A k \in Keys : call[k] = None
  /\ shown' = Listed
  /\ notice' = [k \in Keys |-> "idle"]
  /\ timer' = [k \in Keys |-> None]
  /\ UNCHANGED <<server, call, publisher, removal, tally>>

-----------------------------------------------------------------------------
(* The server.                                                             *)

page == <<shown, notice, timer>>

Create(k) ==
  /\ k = Local /\ call[k] # None /\ call[k].state = "sent"
  /\ \E i \in Ids :
       LET new == [status |-> "DRAFT", name |-> call[k].name]
       IN /\ stored[i] = None /\ shown[i] = None
          /\ stored' = [stored EXCEPT ![i] = new]
          /\ call' = [call EXCEPT ![k].state = "done", ![k].id = i, ![k].saved = new]
  /\ tally' = [tally EXCEPT !.created = @ + 1]
  /\ UNCHANGED <<page, publisher, removal, raced, erased>>

\* An empty name changes nothing.
UpdateDraft(k) ==
  /\ k \in Ids /\ call[k] # None /\ call[k].state = "sent"
  /\ IF stored[k] = None
     THEN call' = [call EXCEPT ![k].state = "failed"] /\ UNCHANGED stored
     ELSE LET new == [stored[k] EXCEPT !.name = IF call[k].name = Empty THEN @ ELSE call[k].name]
          IN /\ stored' = [stored EXCEPT ![k] = new]
             /\ call' = [call EXCEPT ![k].state = "done", ![k].saved = new]
  /\ UNCHANGED <<page, publisher, removal, tally, raced, erased>>

\* Whether a subscription of the salon is live is Subscriptions' matter.
PublishCheck(k, live) ==
  /\ Publishing(k) /\ publisher.state = "sent"
  /\ publisher' = [publisher EXCEPT !.state = IF live THEN "checked" ELSE "refused"]
  /\ UNCHANGED <<page, stored, call, removal, tally, raced, erased>>

\* Whatever the status was: an archived record comes back.
PublishUpdate(k) ==
  /\ Publishing(k) /\ publisher.state = "checked"
  /\ IF k = Local \/ stored[k] = None
     THEN publisher' = [publisher EXCEPT !.state = "failed"] /\ UNCHANGED <<stored, raced>>
     ELSE LET new == [stored[k] EXCEPT !.status = "PUBLISHED"]
          IN /\ stored' = [stored EXCEPT ![k] = new]
             /\ publisher' = [publisher EXCEPT !.state = "done", !.saved = new]
             /\ raced' = IF Removing(k) /\ removal.state = "DRAFT" THEN raced \cup {k} ELSE raced
  /\ UNCHANGED <<page, call, removal, tally, erased>>

RemoveRead(k) ==
  /\ Removing(k) /\ removal.state = "sent"
  /\ removal' = [removal EXCEPT !.state = IF stored[k] = None THEN "done" ELSE stored[k].status]
  /\ UNCHANGED <<page, server, call, publisher, tally>>

\* Drafts are deleted, what was published is archived, going by the status read.
RemoveWrite(k) ==
  /\ Removing(k) /\ removal.state \in {"DRAFT", "PUBLISHED", "ARCHIVED"}
  /\ removal' = [removal EXCEPT !.state = "done"]
  /\ stored' = [stored EXCEPT ![k] = IF @ = None \/ removal.state = "DRAFT" THEN None ELSE [@ EXCEPT !.status = "ARCHIVED"]]
  /\ erased' = IF stored[k] # None /\ stored[k].status = "PUBLISHED" /\ stored'[k] = None
               THEN erased \cup {k} ELSE erased
  /\ UNCHANGED <<page, call, publisher, tally, raced>>

-----------------------------------------------------------------------------
(* The network.                                                            *)

Lost(excuse) ==
  /\ tally.lost < MaxLost
  /\ tally' = [tally EXCEPT !.lost = @ + 1, !.excuses = IF excuse THEN @ + 1 ELSE @]

LoseSave(k) ==
  /\ Lost(k = Local)
  /\ call[k] # None /\ call[k].state \in {"sent", "done"}
  /\ call' = [call EXCEPT ![k].state = "failed"]
  /\ UNCHANGED <<page, server, publisher, removal>>

LosePublish(k) ==
  /\ Lost(FALSE)
  /\ Publishing(k) /\ publisher.state \in {"sent", "checked", "done"}
  /\ publisher' = [publisher EXCEPT !.state = "failed"]
  /\ UNCHANGED <<page, server, call, removal>>

LoseRemoval(k) ==
  /\ Lost(FALSE)
  /\ Removing(k) /\ removal.state # "done"
  /\ removal' = [removal EXCEPT !.state = "done"]
  /\ UNCHANGED <<page, server, call, publisher>>

Next ==
  \/ AddMaster
  \/ Reload
  \/ \E k \in Keys :
       \/ \E name \in Names : Type(k, name)
       \/ Due(k) \/ Force(k) \/ Saved(k) \/ NotSaved(k)
       \/ PublishMaster(k) \/ PublishSaved(k)
       \/ Published(k) \/ SubscriptionRequired(k) \/ NotPublished(k)
       \/ RemoveMaster(k) \/ Removed(k)
       \/ Create(k) \/ UpdateDraft(k)
       \/ PublishUpdate(k) \/ \E live \in BOOLEAN : PublishCheck(k, live)
       \/ RemoveRead(k) \/ RemoveWrite(k)
       \/ LoseSave(k) \/ LosePublish(k) \/ LoseRemoval(k)

Spec == Init /\ [][Next]_vars
-----------------------------------------------------------------------------
(* Properties.                                                             *)

Statuses == {"DRAFT", "PUBLISHED", "ARCHIVED"}

\* The type invariant.
TypeOK ==
  /\ \A k \in Ids : stored[k] = None \/ stored[k].status \in Statuses
  /\ \A k \in Keys :
       /\ shown[k] # None => shown[k].status \in Statuses /\ shown[k].last \in Names \cup {Empty, None}
       /\ notice[k] \in {"idle", "saving", "saved", "error"}
       /\ call[k] # None => call[k].state \in {"sent", "done", "failed"} /\ call[k].id \in Keys
  /\ publisher # None => publisher.state \in {"saving", "sent", "checked", "refused", "done", "failed"}
  /\ removal # None => removal.id \in Ids /\ removal.state \in Statuses \cup {"sent", "done"}
  /\ raced \subseteq Ids /\ erased \subseteq Ids

\* However often a row is saved, and whatever is pressed meanwhile, it becomes
\* one record; one more for each answer lost or not awaited, and for a publication
\* that failed.  No record that was published is deleted, save one published
\* between the two statements that remove it.
DraftsKept ==
  /\ tally.created <= tally.added + tally.excuses
  /\ erased \subseteq raced

\* What the page calls published ("Veroeffentlicht", PartnerOnboarding.tsx:419)
\* is: the server has the row, and has it as published.
PublishedTold ==
  \A k \in Keys : shown[k] # None /\ shown[k].status = "PUBLISHED" /\ ~Removing(k) =>
    k \in Ids /\ stored[k] # None /\ stored[k].status = "PUBLISHED"
=============================================================================
