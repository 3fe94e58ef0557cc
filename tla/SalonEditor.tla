---------------------------- MODULE SalonEditor ----------------------------
(***************************************************************************)
(* How an owner changes what a salon shows: the editor on the salon's page *)
(* (SalonDetailPage) keeps a form, SalonEditorService keeps the draft and  *)
(* what was published in one JSON column of the salon, and publishing      *)
(* writes the draft into the tables visitors are served from.              *)
(*                                                                         *)
(* Services, staff and photos are known by their names; each name counts   *)
(* the rows made for it, and an entry of a draft says which of them it     *)
(* stands for.  Texts stand for everything else the owner writes: words    *)
(* for columns that are never null (name, address, city), None being a     *)
(* placeholder ("Unbekannt"), and phone for those that may be (phone,      *)
(* website).  Access and the salon's place are left to Ownership, ratings  *)
(* to Reviews, and hours, which publishing replaces for every member of    *)
(* staff in the draft, to WorkingHours.                                    *)
(*                                                                         *)
(* Others write the same tables: ServicesService, SalonsService, and the   *)
(* redemption of an access code, which completes the salon with what the   *)
(* external places service knows of its place.                             *)
(***************************************************************************)
EXTENDS Integers, FiniteSets, Sequences

CONSTANTS
  Services, Team, Photos,   \* names
  Editable,                 \* bound: the names whose entries owners change
  Elsewhere,                \* the services also changed outside the editor
  Texts,                    \* what is written of the salon, by column
  Redeemers,                \* redemptions for its external place at once
  Place,                    \* the text of the external place
  Pictured,                 \* the photos the place has
  Editors,                  \* pages the editor is open on
  MaxRows,                  \* bound: rows made for a name
  GoogleCover,              \* the place's photo serves as cover
  None

VARIABLES
  rows,     \* for each name, the rows made for it: is it shown?
  offers,   \* MasterService: <<member, row, service, row>>, active ones
  text,     \* what the salon's row says
  meta,     \* cancellationPolicyJson: the draft, and what was published
  page,     \* the editor on each page: its form and its requests
  enriched, \* what each redemption read of the salon before it asked for the place
  crossed,  \* history: something read before a publication was written after it,
            \* or the salon's row was changed outside the editor since
  made      \* history: services made outside the editor

vars == <<rows, offers, text, meta, page, enriched, crossed, made>>

-----------------------------------------------------------------------------
Names == Services \cup Team \cup Photos

New == 0            \* an entry without an id

Temporary == -1     \* one with the id the page gave it

Columns == {"words", "phone"}

\* What an entry of staff offers is a set of <<service, id>>: New stands for
\* a reference by name.
Refs == Services \X (Temporary..MaxRows)

Values == {None} \cup {t[c] : t \in Texts \cup {Place}, c \in Columns}

Rows == [Columns -> Values]

TypeOK ==
  /\ DOMAIN rows = Names
  /\ \A n \in Names : Len(rows[n]) <= MaxRows /\ \A k \in DOMAIN rows[n] : rows[n][k] \in BOOLEAN
  /\ \A o \in offers :
       o[1] \in Team /\ o[2] \in DOMAIN rows[o[1]] /\ o[3] \in Services /\ o[4] \in DOMAIN rows[o[3]]
  /\ text \in Rows
  /\ meta # None => meta.published \in Rows /\ meta.draft.text \in Rows
  /\ DOMAIN page = Editors
  /\ enriched \in
       [Redeemers -> [text : Rows, step : {"asked", "written", "bare"}, late : BOOLEAN] \cup {None}]

Init ==
  /\ rows = [n \in Names |-> IF n \in Photos THEN <<>> ELSE <<TRUE>>]
  /\ offers = {<<m, 1, s, 1>> : m \in Team, s \in Services}
  /\ text \in Texts
  /\ meta = None
  /\ page = [e \in Editors |-> [form |-> None, saving |-> None, publishing |-> None]]
  /\ enriched = [r \in Redeemers |-> None]
  /\ crossed = FALSE
  /\ made = {}

Shown(n) == {k \in DOMAIN rows[n] : rows[n][k]}

\* buildDraftFromSalon
FromTables ==
  [entries |->
     UNION {{[name |-> n, id |-> k,
              refs |-> {<<o[3], o[4]>> : o \in {x \in offers : x[1] = n /\ x[2] = k}}] : k \in Shown(n)}
            : n \in Names},
   text |-> text]

Draft == IF meta = None THEN FromTables ELSE meta.draft

\* Mutant: what is saved counts as published.
StoredAsPublished(d, t) == [draft |-> d, published |-> d.text]

Stored(d, t) == [draft |-> d, published |-> t]

Published == IF meta = None THEN text ELSE meta.published

\* sanitizeDraft: services and staff keep an id only if the tables show its row.
Kept(n) == IF n.name \in Photos \/ n.id \in Shown(n.name) THEN n.id ELSE New

Sanitized(d) == [d EXCEPT !.entries = {[x EXCEPT !.id = Kept(x)] : x \in @}]

\* A picture of the salon's own, or the place's.
Covered(d) == GoogleCover \/ \E x \in d.entries : x.name \in Photos

\* validateDraft
Valid(d) ==
  /\ \E x \in d.entries : x.name \in Services
  /\ \E x \in d.entries : x.name \in Team
  /\ Covered(d)
  /\ \A x \in d.entries : x.name \in Team => x.refs # {}

-----------------------------------------------------------------------------
(* The page.                                                               *)

Editing(e, d) == page' = [page EXCEPT ![e].form = d]

tables == <<rows, offers, text>>

\* The stored draft arrives, at first or after a request or a reconnection made
\* it stale, and replaces the form.
Fetch(e) ==
  /\ Editing(e, Draft)
  /\ UNCHANGED <<tables, meta, enriched, crossed, made>>

Edited(e, d) ==
  /\ page[e].form # None
  /\ Editing(e, d)
  /\ UNCHANGED <<tables, meta, enriched, crossed, made>>

AddEntry(e, n) ==
  LET f == page[e].form
  IN /\ f # None /\ \A x \in f.entries : x.name # n
     /\ Edited(e, [f EXCEPT !.entries =
          @ \cup {[name |-> n, id |-> IF n \in Photos THEN New ELSE Temporary, refs |-> {}]}])

RemoveEntry(e, x) == Edited(e, [page[e].form EXCEPT !.entries = @ \ {x}])

\* The box of service s on staff entry x.
Tick(e, x, s) ==
  LET ref == <<s.name, s.id>>
      ticked == [x EXCEPT !.refs = IF ref \in @ THEN @ \ {ref} ELSE @ \cup {ref}]
  IN Edited(e, [page[e].form EXCEPT !.entries = (@ \ {x}) \cup {ticked}])

Say(e, t) == Edited(e, [page[e].form EXCEPT !.text = t])

-----------------------------------------------------------------------------
(* saveDraft: the salon is read, then the whole column is written.         *)

Save(e) ==
  /\ page[e].form # None /\ page[e].saving = None
  /\ page' = [page EXCEPT ![e].saving =
       [draft |-> Sanitized(page[e].form), published |-> Published, late |-> FALSE]]
  /\ UNCHANGED <<tables, meta, enriched, crossed, made>>

SaveCommit(e) ==
  LET s == page[e].saving
  IN /\ s # None
     /\ meta' = Stored(s.draft, s.published)
     /\ crossed' = (crossed \/ s.late)
     /\ page' = [page EXCEPT ![e].saving = None, ![e].form = s.draft]
     /\ UNCHANGED <<tables, enriched, made>>

-----------------------------------------------------------------------------
(* publishDraft: the stored draft is read and checked, the rows there are  *)
(* are read again, and a transaction writes them.                          *)

Publish(e) ==
  /\ page[e].publishing = None
  /\ Valid(Sanitized(Draft))
  /\ page' = [page EXCEPT ![e].publishing = [draft |-> Sanitized(Draft), there |-> None]]
  /\ UNCHANGED <<tables, meta, enriched, crossed, made>>

PublishRead(e) ==
  /\ page[e].publishing # None /\ page[e].publishing.there = None
  /\ page' = [page EXCEPT ![e].publishing.there = [n \in Names |-> DOMAIN rows[n]]]
  /\ UNCHANGED <<tables, meta, enriched, crossed, made>>

Ids(d, n) == {x.id : x \in {y \in d.entries : y.name = n}} \ {New}

\* Mutant: a row that is not in the draft any more stays shown.
RowsAddedTo(n, p) ==
  [k \in DOMAIN rows[n] |-> rows[n][k] \/ k \in Ids(p.draft, n)]
    \o (IF \E x \in p.draft.entries : x.name = n /\ x.id = New THEN <<TRUE>> ELSE <<>>)

\* Rows with an id are shown, an entry without one makes a row, and the rows
\* that were there before and are not in the draft are hidden.
RowsAfter(n, p) ==
  [k \in DOMAIN rows[n] |-> k \in Ids(p.draft, n) \/ (rows[n][k] /\ k \notin p.there[n])]
    \o (IF \E x \in p.draft.entries : x.name = n /\ x.id = New THEN <<TRUE>> ELSE <<>>)

\* A photo's id is not checked when the draft is read: the row may be gone.
Writable(p) ==
  /\ \A x \in p.draft.entries : x.name \in Photos /\ x.id # New => rows[x.name][x.id]
  /\ \A n \in Names : Len(RowsAfter(n, p)) <= MaxRows

\* The services staff entry x offers once rows are r: references by id to a
\* row that is shown, and by name to one of the name's.
Resolved(x, r) ==
  LET ofName(s) == {k \in DOMAIN r[s] : r[s][k]}
  IN {f \in Services \X (1..MaxRows) :
        \/ f \in x.refs /\ f[2] \in ofName(f[1])
        \/ <<f[1], New>> \in x.refs /\ ofName(f[1]) # {} /\ f[2] = CHOOSE k \in ofName(f[1]) : TRUE}

RowOf(x, r) == IF x.id = New THEN Len(r[x.name]) ELSE x.id

Late(r) == IF r = None THEN None ELSE [r EXCEPT !.late = TRUE]

\* What page i reads as saved is older than what has been written meanwhile.
Overtaken(i) == [page[i] EXCEPT !.saving = Late(@)]

\* So is what every redemption has read.
Outdated(x) == [r \in Redeemers |-> Late(x[r])]

PublishCommit(e) ==
  LET p == page[e].publishing
      r == [n \in Names |-> RowsAfter(n, p)]
      staff == {x \in p.draft.entries : x.name \in Team}
      rewritten == {<<x.name, RowOf(x, r)>> : x \in staff}
  IN /\ p # None /\ p.there # None
     /\ Writable(p)
     /\ rows' = r
     /\ offers' = {o \in offers : <<o[1], o[2]>> \notin rewritten}
                    \cup UNION {{<<x.name, RowOf(x, r), f[1], f[2]>> : f \in Resolved(x, r)} : x \in staff}
     /\ text' = p.draft.text
     /\ meta' = Stored(p.draft, p.draft.text)
     /\ page' = [i \in Editors |->
          IF i = e THEN [Overtaken(i) EXCEPT !.publishing = None, !.form = p.draft] ELSE Overtaken(i)]
     /\ enriched' = Outdated(enriched)
     /\ crossed' = FALSE
     /\ UNCHANGED made

\* A request fails: nothing of it is kept.
Fail(e) ==
  /\ \/ page[e].saving # None /\ page' = [page EXCEPT ![e].saving = None]
     \/ page[e].publishing # None /\ page' = [page EXCEPT ![e].publishing = None]
  /\ UNCHANGED <<tables, meta, enriched, crossed, made>>

-----------------------------------------------------------------------------
(* The same tables written by others.                                      *)

CreateService(s) ==
  /\ Len(rows[s]) < MaxRows
  /\ rows' = [rows EXCEPT ![s] = Append(@, TRUE)]
  /\ made' = made \cup {<<s, Len(rows[s]) + 1>>}
  /\ UNCHANGED <<offers, text, meta, page, enriched, crossed>>

RemoveService(s, k) ==
  /\ k \in DOMAIN rows[s]
  /\ rows' = [rows EXCEPT ![s][k] = FALSE]
  /\ UNCHANGED <<offers, text, meta, page, enriched, crossed, made>>

\* PATCH /salons: the row is written, the editor's column is not.
UpdateSalon(t) ==
  /\ t # text
  /\ text' = t
  /\ page' = [i \in Editors |-> Overtaken(i)]
  /\ enriched' = Outdated(enriched)
  /\ crossed' = (crossed \/ meta # None)
  /\ UNCHANGED <<rows, offers, meta, made>>

\* enrichSalonFromGooglePlaces: the salon is read, the places service is asked,
\* and what was read is written back, with what the place adds to it.  Then a
\* salon without photos gets the place's.  When any of this fails, what was read
\* is written once more and nothing follows.
EnrichRead(r) ==
  /\ enriched[r] = None
  /\ enriched' = [enriched EXCEPT ![r] = [text |-> text, step |-> "asked", late |-> FALSE]]
  /\ UNCHANGED <<tables, meta, page, crossed, made>>

\* buildEnrichedSalonPayload: the place stands in for what is missing.
Completed(t) == [c \in Columns |-> IF t[c] = None THEN Place[c] ELSE t[c]]

\* A redemption that goes on as x writes t: what the others have read, and what
\* it has itself, is then older than the row.
Complete(r, t, x) ==
  LET next == [enriched EXCEPT ![r] = x]
  IN /\ text' = t
     /\ enriched' = IF t = text THEN next ELSE Outdated(next)
     /\ crossed' = (crossed \/ (enriched[r].late /\ t # text))
     /\ UNCHANGED <<rows, offers, meta, page, made>>

\* A phone nobody knows is not written.
EnrichWrite(r) ==
  /\ enriched[r] # None /\ enriched[r].step = "asked"
  /\ LET found == Completed(enriched[r].text)
     IN Complete(r, [c \in Columns |-> IF c = "phone" /\ found[c] = None THEN text[c] ELSE found[c]],
                 [enriched[r] EXCEPT !.step = "written"])

EnrichPhotosRead(r) ==
  /\ enriched[r] # None /\ enriched[r].step = "written"
  /\ enriched' = [enriched EXCEPT ![r] =
       IF \A n \in Photos : Shown(n) = {} THEN [@ EXCEPT !.step = "bare"] ELSE None]
  /\ UNCHANGED <<tables, meta, page, crossed, made>>

EnrichPhotos(r) ==
  /\ enriched[r] # None /\ enriched[r].step = "bare"
  /\ \A n \in Pictured : Len(rows[n]) < MaxRows
  /\ rows' = [n \in Names |-> IF n \in Pictured THEN Append(rows[n], TRUE) ELSE rows[n]]
  /\ enriched' = [enriched EXCEPT ![r] = None]
  /\ UNCHANGED <<offers, text, meta, page, crossed, made>>

\* The words are written as they were read, a placeholder too, or, where they
\* are empty, as the request gave them.
EnrichFallback(r) ==
  /\ enriched[r] # None
  /\ \E words \in {enriched[r].text["words"], Completed(enriched[r].text)["words"]} :
       Complete(r, [c \in Columns |-> IF c = "words" THEN words ELSE text[c]], None)

\* The fallback fails too, or the place has no photos.
EnrichEnd(r) ==
  /\ enriched[r] # None
  /\ enriched' = [enriched EXCEPT ![r] = None]
  /\ UNCHANGED <<tables, meta, page, crossed, made>>

Enrich(r) ==
  \/ EnrichRead(r)
  \/ EnrichWrite(r)
  \/ EnrichPhotosRead(r)
  \/ EnrichPhotos(r)
  \/ EnrichFallback(r)
  \/ EnrichEnd(r)

Next ==
  \/ \E e \in Editors :
       \/ Fetch(e)
       \/ \E n \in Editable : AddEntry(e, n)
       \/ page[e].form # None /\ \E x \in page[e].form.entries :
            \/ x.name \in Editable /\ RemoveEntry(e, x)
            \/ x.name \in Team /\ \E s \in page[e].form.entries : s.name \in Services \cap Editable /\ Tick(e, x, s)
       \/ page[e].form # None /\ \E t \in Texts : Say(e, t)
       \/ Save(e)
       \/ SaveCommit(e)
       \/ Publish(e)
       \/ PublishRead(e)
       \/ PublishCommit(e)
       \/ Fail(e)
  \/ \E t \in Texts : UpdateSalon(t)
  \/ \E r \in Redeemers : Enrich(r)
  \/ \E s \in Elsewhere : CreateService(s) \/ \E k \in 1..MaxRows : RemoveService(s, k)

Spec == Init /\ [][Next]_vars

-----------------------------------------------------------------------------
\* Row t says what p says, but for what p leaves open and the place completes.
Agree(p, t) == \A c \in Columns : t[c] = p[c] \/ (p[c] = None /\ t[c] = Place[c])

\* The salon's row says what the page's snapshot says was published, and where
\* that says nothing, nothing or what the place does; unless a save or the
\* completion of the salon from its place wrote what it had read before another
\* wrote, or the row was changed outside the editor since.
PublishedAgrees == Agree(Published, text) \/ crossed

\* With the editor on one page, visitors see one row of a name, and at most one
\* more for each row made for it outside the editor: what a draft leaves out is
\* hidden, unless it was made after the rows were read again (publishDraft).
\* A photo of the place they see as often as there are redemptions at once.
ShownOnce ==
  Cardinality(Editors) = 1 =>
    \A n \in Names :
      Cardinality(Shown(n)) <= IF n \in Pictured THEN Cardinality(Redeemers)
                               ELSE 1 + Cardinality({p \in made : p[1] = n})

\* Visitors can book every member of staff they see: a draft is refused unless
\* every member of staff has at least one service (validateDraft).
StaffServe ==
  \A m \in Team : \A k \in Shown(m) : \E o \in offers : o[1] = m /\ o[2] = k
=============================================================================
