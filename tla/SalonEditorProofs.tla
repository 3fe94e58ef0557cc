-------------------------- MODULE SalonEditorProofs --------------------------
(***************************************************************************)
(* That a salon's row and the snapshot of what was published tell the      *)
(* same, for every set of pages, names and texts, and that what is shown   *)
(* of a name is bounded by what was made outside the editor.               *)
(*                                                                         *)
(* PublishedAgrees is carried by what the writers read: a save that no     *)
(* publication overtook has read as published what the row says, up to     *)
(* what its place completes (SavesAgree), and a redemption nobody overtook *)
(* has read the row (EnrichedAgrees), so that what it writes completes the *)
(* row and overtakes the other redemptions.  Once something was written    *)
(* late nothing is promised until the next publication, which makes all    *)
(* that is under way late.                                                 *)
(* ShownOnce is carried by the drafts, wherever they are kept: see Rows.   *)
(***************************************************************************)
EXTENDS SalonEditor, FiniteSetTheorems, TLAPS

IsPage(p) == \E f, s, g : p = [form |-> f, saving |-> s, publishing |-> g]

IsSaving(r) == \E d, t : \E l \in BOOLEAN : r = [draft |-> d, published |-> t, late |-> l]

IsEnriched(r) == \E t, x : \E l \in BOOLEAN : r = [text |-> t, step |-> x, late |-> l]

\* The shape of the pages and of what is under way.
Fits ==
  /\ DOMAIN page = Editors
  /\ crossed \in BOOLEAN
  /\ \A e \in Editors : IsPage(page[e]) /\ (page[e].saving # None => IsSaving(page[e].saving))
  /\ DOMAIN enriched = Redeemers
  /\ \A r \in Redeemers : enriched[r] # None => IsEnriched(enriched[r])

SavesAgree ==
  \A e \in Editors :
    page[e].saving # None /\ ~page[e].saving.late /\ ~crossed => Agree(page[e].saving.published, text)

EnrichedAgrees ==
  \A r \in Redeemers :
    enriched[r] # None /\ ~enriched[r].late => \A c \in Columns : enriched[r].text[c] = text[c]

IInv == Fits /\ SavesAgree /\ EnrichedAgrees /\ PublishedAgrees

LEMMA AgreeReflexive == ASSUME NEW t PROVE Agree(t, t)
  BY DEF Agree

LEMMA AgreeTransitive ==
  ASSUME NEW p, NEW t, NEW u, Agree(p, t), Agree(t, u)
  PROVE  Agree(p, u)
  BY DEF Agree

LEMMA InitHolds == Init => IInv
  <1> SUFFICES ASSUME Init PROVE IInv
    OBVIOUS
  <1>1. Fits
    <2>1. ASSUME NEW e \in Editors PROVE IsPage(page[e]) /\ page[e].saving = None
      <3>1. page[e] = [form |-> None, saving |-> None, publishing |-> None]
        BY DEF Init
      <3>2. IsPage(page[e])
        BY <3>1, Zenon DEF IsPage
      <3> QED
        BY <3>1, <3>2
    <2> QED
      BY <2>1 DEF Init, Fits
  <1>2. SavesAgree /\ EnrichedAgrees
    BY DEF Init, SavesAgree, EnrichedAgrees
  <1>3. PublishedAgrees
    BY AgreeReflexive DEF Init, PublishedAgrees, Published
  <1> QED
    BY <1>1, <1>2, <1>3 DEF IInv

-----------------------------------------------------------------------------
(* What a step does to the requests under way.                             *)

\* Requests begin, move on or end, but no save begins and nothing is written.
PagesGoOn ==
  /\ DOMAIN page' = Editors
  /\ \A i \in Editors :
       /\ IsPage(page'[i])
       /\ page'[i].saving \in {page[i].saving, None}

LEMMA FormChanges ==
  ASSUME Fits, NEW e \in Editors, NEW d, page' = [page EXCEPT ![e].form = d]
  PROVE  PagesGoOn
  <1>1. PICK f, s, g : page[e] = [form |-> f, saving |-> s, publishing |-> g]
    BY DEF Fits, IsPage
  <1>2. /\ DOMAIN page' = Editors
        /\ page'[e] = [page[e] EXCEPT !.form = d]
        /\ \A i \in Editors \ {e} : page'[i] = page[i]
    BY DEF Fits
  <1>3. page'[e] = [form |-> d, saving |-> s, publishing |-> g]
    BY <1>1, <1>2
  <1>4. page[e].saving = s
    BY <1>1
  <1>5. IsPage(page'[e])
    BY <1>3, Zenon DEF IsPage
  <1>6. page'[e].saving \in {page[e].saving, None}
    BY <1>3, <1>4
  <1> QED
    BY <1>2, <1>5, <1>6 DEF Fits, PagesGoOn

LEMMA PublishingChanges ==
  ASSUME Fits, NEW e \in Editors, NEW p, page' = [page EXCEPT ![e].publishing = p]
  PROVE  PagesGoOn
  <1>1. PICK f, s, g : page[e] = [form |-> f, saving |-> s, publishing |-> g]
    BY DEF Fits, IsPage
  <1>2. /\ DOMAIN page' = Editors
        /\ page'[e] = [page[e] EXCEPT !.publishing = p]
        /\ \A i \in Editors \ {e} : page'[i] = page[i]
    BY DEF Fits
  <1>3. page'[e] = [form |-> f, saving |-> s, publishing |-> p]
    BY <1>1, <1>2
  <1>4. page[e].saving = s
    BY <1>1
  <1>5. IsPage(page'[e])
    BY <1>3, Zenon DEF IsPage
  <1>6. page'[e].saving \in {page[e].saving, None}
    BY <1>3, <1>4
  <1> QED
    BY <1>2, <1>5, <1>6 DEF Fits, PagesGoOn

LEMMA SavingEnds ==
  ASSUME Fits, NEW e \in Editors, page' = [page EXCEPT ![e].saving = None]
  PROVE  PagesGoOn
  <1>1. PICK f, s, g : page[e] = [form |-> f, saving |-> s, publishing |-> g]
    BY DEF Fits, IsPage
  <1>2. /\ DOMAIN page' = Editors
        /\ page'[e] = [page[e] EXCEPT !.saving = None]
        /\ \A i \in Editors \ {e} : page'[i] = page[i]
    BY DEF Fits
  <1>3. page'[e] = [form |-> f, saving |-> None, publishing |-> g]
    BY <1>1, <1>2
  <1>4. page[e].saving = s
    BY <1>1
  <1>5. IsPage(page'[e])
    BY <1>3, Zenon DEF IsPage
  <1>6. page'[e].saving \in {page[e].saving, None}
    BY <1>3, <1>4
  <1> QED
    BY <1>2, <1>5, <1>6 DEF Fits, PagesGoOn

LEMMA GoingOnKeeps ==
  ASSUME IInv, PagesGoOn, UNCHANGED <<text, meta, enriched, crossed>>
  PROVE  IInv'
  <1>1. Fits'
    BY DEF IInv, Fits, PagesGoOn
  <1>2. SavesAgree'
    BY DEF IInv, SavesAgree, PagesGoOn
  <1>3. EnrichedAgrees' /\ PublishedAgrees'
    BY DEF IInv, EnrichedAgrees, PublishedAgrees, Published
  <1> QED
    BY <1>1, <1>2, <1>3 DEF IInv

\* The steps of a page that neither save nor publish.
LEMMA PageKeeps ==
  ASSUME IInv, NEW e \in Editors,
         \/ Fetch(e)
         \/ \E n \in Editable : AddEntry(e, n)
         \/ \E x \in page[e].form.entries : RemoveEntry(e, x) \/ \E s \in page[e].form.entries : Tick(e, x, s)
         \/ \E t \in Texts : Say(e, t)
         \/ Publish(e)
         \/ PublishRead(e)
         \/ Fail(e)
  PROVE  IInv'
  <1>1. UNCHANGED <<text, meta, enriched, crossed>>
    BY DEF Fetch, AddEntry, RemoveEntry, Tick, Say, Edited, Publish, PublishRead, Fail, tables
  <1>fits. Fits
    BY DEF IInv
  <1>2. ASSUME NEW d, Editing(e, d) PROVE PagesGoOn
    <2>1. page' = [page EXCEPT ![e].form = d]
      BY <1>2 DEF Editing
    <2> QED
      BY <1>fits, <2>1, FormChanges
  <1>3. ASSUME Fetch(e) PROVE PagesGoOn
    <2>1. Editing(e, Draft)
      BY <1>3 DEF Fetch
    <2> QED
      BY <1>2, <2>1
  <1>4. ASSUME NEW d, Edited(e, d) PROVE PagesGoOn
    <2>1. Editing(e, d)
      BY <1>4 DEF Edited
    <2> QED
      BY <1>2, <2>1
  <1>5. ASSUME NEW p, page' = [page EXCEPT ![e].publishing = p] PROVE PagesGoOn
    BY <1>fits, <1>5, PublishingChanges
  <1>6. ASSUME NEW n, AddEntry(e, n) PROVE PagesGoOn
    <2>1. \E d : Edited(e, d)
      BY <1>6 DEF AddEntry
    <2> QED
      BY <1>4, <2>1
  <1>7. ASSUME NEW x, RemoveEntry(e, x) \/ \E s : Tick(e, x, s) PROVE PagesGoOn
    <2>1. \E d : Edited(e, d)
      BY <1>7 DEF RemoveEntry, Tick
    <2> QED
      BY <1>4, <2>1
  <1>8. ASSUME NEW t, Say(e, t) PROVE PagesGoOn
    <2>1. \E d : Edited(e, d)
      BY <1>8 DEF Say
    <2> QED
      BY <1>4, <2>1
  <1>9. ASSUME Publish(e) \/ PublishRead(e) PROVE PagesGoOn
    <2>1. Publish(e) => \E p : page' = [page EXCEPT ![e].publishing = p]
      BY DEF Publish
    <2>2. PublishRead(e) => \E p : page' = [page EXCEPT ![e].publishing = p]
      <3> HAVE PublishRead(e)
      <3> DEFINE p == [page[e].publishing EXCEPT !.there = [n \in Names |-> DOMAIN rows[n]]]
      <3>1. PICK f, s, g : page[e] = [form |-> f, saving |-> s, publishing |-> g]
        BY <1>fits DEF Fits, IsPage
      <3>2. page' = [page EXCEPT ![e].publishing = p]
        BY <3>1 DEF PublishRead
      <3> HIDE DEF p
      <3> QED
        BY <3>2
    <2> QED
      BY <1>5, <1>9, <2>1, <2>2
  <1>10. ASSUME Fail(e) PROVE PagesGoOn
    <2>1. page' = [page EXCEPT ![e].saving = None] \/ page' = [page EXCEPT ![e].publishing = None]
      BY <1>10 DEF Fail
    <2> QED
      BY <1>fits, <1>5, <2>1, SavingEnds
  <1>11. PagesGoOn
    BY <1>3, <1>6, <1>7, <1>8, <1>9, <1>10
  <1> QED
    BY <1>1, <1>11, GoingOnKeeps

-----------------------------------------------------------------------------
(* The steps that read, write or make what was read late.                  *)

LEMMA SaveKeeps == ASSUME IInv, NEW e \in Editors, Save(e) PROVE IInv'
  <1>1. PICK f, s, g : page[e] = [form |-> f, saving |-> s, publishing |-> g]
    BY DEF IInv, Fits, IsPage
  <1>2. PICK d : d = Sanitized(page[e].form)
    OBVIOUS
  <1>3. PICK t : t = Published
    OBVIOUS
  <1>4. PICK r : r = [draft |-> d, published |-> t, late |-> FALSE]
    OBVIOUS
  <1>5. /\ DOMAIN page' = Editors
        /\ \A i \in Editors \ {e} : page'[i] = page[i]
        /\ page'[e] = [page[e] EXCEPT !.saving = r]
    BY <1>2, <1>3, <1>4 DEF Save, IInv, Fits
  <1>6. UNCHANGED <<text, meta, enriched, crossed>>
    BY DEF Save, tables
  <1>7. IsPage(page'[e]) /\ IsSaving(page'[e].saving) /\ page'[e].saving.published = t
    <2>1. page'[e] = [form |-> f, saving |-> r, publishing |-> g]
      BY <1>1, <1>5
    <2>2. IsPage(page'[e])
      BY <2>1, Zenon DEF IsPage
    <2>3. IsSaving(r)
      BY <1>4, Zenon DEF IsSaving
    <2> QED
      BY <1>4, <2>1, <2>2, <2>3
  <1>8. Fits'
    BY <1>5, <1>6, <1>7 DEF IInv, Fits
  <1>9. SavesAgree'
    BY <1>3, <1>5, <1>6, <1>7 DEF IInv, SavesAgree, PublishedAgrees
  <1>10. EnrichedAgrees' /\ PublishedAgrees'
    BY <1>6 DEF IInv, EnrichedAgrees, PublishedAgrees, Published
  <1> QED
    BY <1>8, <1>9, <1>10 DEF IInv

LEMMA SaveCommitKeeps == ASSUME IInv, NEW e \in Editors, SaveCommit(e) PROVE IInv'
  <1>1. PICK f, s, g : page[e] = [form |-> f, saving |-> s, publishing |-> g]
    BY DEF IInv, Fits, IsPage
  <1>2. s # None /\ page[e].saving = s
    BY <1>1 DEF SaveCommit
  <1>3. PICK d, t : \E l \in BOOLEAN : s = [draft |-> d, published |-> t, late |-> l]
    BY <1>2 DEF IInv, Fits, IsSaving
  <1>4. PICK l \in BOOLEAN : s = [draft |-> d, published |-> t, late |-> l]
    BY <1>3
  <1>5. s.draft = d /\ s.published = t /\ s.late = l
    BY <1>4
  <1>6. /\ DOMAIN page' = Editors
        /\ \A i \in Editors \ {e} : page'[i] = page[i]
        /\ page'[e] = [[page[e] EXCEPT !.saving = None] EXCEPT !.form = d]
    <2>1. page' = [page EXCEPT ![e] = [[page[e] EXCEPT !.saving = None] EXCEPT !.form = d]]
      BY <1>1, <1>2, <1>5 DEF SaveCommit, IInv, Fits
    <2> QED
      BY <2>1 DEF IInv, Fits
  <1>7. page'[e] = [form |-> d, saving |-> None, publishing |-> g]
    <2>1. [page[e] EXCEPT !.saving = None] = [form |-> f, saving |-> None, publishing |-> g]
      BY <1>1
    <2> QED
      BY <1>6, <2>1
  <1>8. UNCHANGED <<text, enriched>> /\ crossed' = (crossed \/ l)
    BY <1>2, <1>5 DEF SaveCommit, tables
  <1>9. meta' = [draft |-> d, published |-> t]
    BY <1>2, <1>5 DEF SaveCommit, Stored
  <1>10. ~crossed' => Agree(t, text)
    BY <1>2, <1>5, <1>8 DEF IInv, Fits, SavesAgree
  <1>11. PublishedAgrees'
    BY <1>8, <1>9, <1>10, AgreeReflexive DEF PublishedAgrees, Published
  <1>12. IsPage(page'[e]) /\ page'[e].saving = None
    <2>1. IsPage(page'[e])
      BY <1>7, Zenon DEF IsPage
    <2> QED
      BY <1>7, <2>1
  <1>13. Fits'
    BY <1>6, <1>8, <1>12 DEF IInv, Fits
  <1>14. SavesAgree' /\ EnrichedAgrees'
    BY <1>6, <1>8, <1>12 DEF IInv, Fits, SavesAgree, EnrichedAgrees
  <1> QED
    BY <1>11, <1>13, <1>14 DEF IInv

\* Every save and every redemption under way becomes late.
IsLate(r) == IsSaving(r) /\ r.late

LEMMA LateSaves == ASSUME NEW r, r # None => IsSaving(r) PROVE Late(r) = None \/ IsLate(Late(r))
  <1>1. CASE r = None
    BY <1>1 DEF Late
  <1>2. CASE r # None
    <2>1. PICK d, t : \E l \in BOOLEAN : r = [draft |-> d, published |-> t, late |-> l]
      BY <1>2 DEF IsSaving
    <2>2. PICK l \in BOOLEAN : r = [draft |-> d, published |-> t, late |-> l]
      BY <2>1
    <2>3. Late(r) = [r EXCEPT !.late = TRUE]
      BY <1>2 DEF Late
    <2>4. Late(r) = [draft |-> d, published |-> t, late |-> TRUE]
      BY <2>2, <2>3
    <2>5. IsSaving(Late(r))
      BY <2>4, Zenon DEF IsSaving
    <2> QED
      BY <2>4, <2>5 DEF IsLate
  <1> QED
    BY <1>1, <1>2

LEMMA LateEnriched ==
  ASSUME NEW r, r # None => IsEnriched(r)
  PROVE  Late(r) = None \/ (IsEnriched(Late(r)) /\ Late(r).late)
  <1>1. CASE r = None
    BY <1>1 DEF Late
  <1>2. CASE r # None
    <2>1. PICK t, x : \E l \in BOOLEAN : r = [text |-> t, step |-> x, late |-> l]
      BY <1>2 DEF IsEnriched
    <2>2. PICK l \in BOOLEAN : r = [text |-> t, step |-> x, late |-> l]
      BY <2>1
    <2>3. Late(r) = [r EXCEPT !.late = TRUE]
      BY <1>2 DEF Late
    <2>4. Late(r) = [text |-> t, step |-> x, late |-> TRUE]
      BY <2>2, <2>3
    <2>5. IsEnriched(Late(r))
      BY <2>4, Zenon DEF IsEnriched
    <2> QED
      BY <2>4, <2>5
  <1> QED
    BY <1>1, <1>2

\* Page i after somebody else's publication.
LEMMA OvertakenIsLate ==
  ASSUME IInv, NEW i \in Editors
  PROVE  /\ \E f, g : Overtaken(i) = [form |-> f, saving |-> Late(page[i].saving), publishing |-> g]
         /\ Late(page[i].saving) = None \/ IsLate(Late(page[i].saving))
  <1>1. PICK f, s, g : page[i] = [form |-> f, saving |-> s, publishing |-> g]
    BY DEF IInv, Fits, IsPage
  <1>2. Overtaken(i) = [form |-> f, saving |-> Late(s), publishing |-> g] /\ page[i].saving = s
    BY <1>1 DEF Overtaken
  <1> QED
    BY <1>2, LateSaves DEF IInv, Fits

LEMMA OvertakingKeeps ==
  ASSUME IInv, DOMAIN page' = Editors, enriched' = Outdated(enriched),
         \A i \in Editors : IsPage(page'[i]) /\ (page'[i].saving = None \/ IsLate(page'[i].saving)),
         crossed' \in BOOLEAN, Agree(Published', text') \/ crossed'
  PROVE  IInv'
  <1>1. /\ DOMAIN enriched' = Redeemers
        /\ \A r \in Redeemers : enriched'[r] # None => IsEnriched(enriched'[r]) /\ enriched'[r].late
    BY LateEnriched DEF IInv, Fits, Outdated
  <1>2. Fits'
    BY <1>1 DEF Fits, IsLate
  <1>3. SavesAgree'
    BY DEF SavesAgree, IsLate
  <1>4. EnrichedAgrees'
    BY <1>1 DEF EnrichedAgrees
  <1> QED
    BY <1>2, <1>3, <1>4 DEF IInv, PublishedAgrees

\* What is published is what the row says, and all that was read is late.
LEMMA PublishCommitKeeps == ASSUME IInv, NEW e \in Editors, PublishCommit(e) PROVE IInv'
  <1>1. PICK d : d = page[e].publishing.draft
    OBVIOUS
  <1>2. /\ DOMAIN page' = Editors
        /\ \A i \in Editors \ {e} : page'[i] = Overtaken(i)
        /\ page'[e] = [[Overtaken(e) EXCEPT !.publishing = None] EXCEPT !.form = d]
    BY <1>1 DEF PublishCommit
  <1>3. enriched' = Outdated(enriched) /\ crossed' = FALSE /\ text' = d.text
    BY <1>1 DEF PublishCommit
  <1>4. meta' = [draft |-> d, published |-> d.text]
    BY <1>1 DEF PublishCommit, Stored
  <1>5. page'[e] = [form |-> d, saving |-> Late(page[e].saving), publishing |-> None]
    <2>1. PICK f, g : Overtaken(e) = [form |-> f, saving |-> Late(page[e].saving), publishing |-> g]
      BY OvertakenIsLate
    <2>2. [Overtaken(e) EXCEPT !.publishing = None] =
            [form |-> f, saving |-> Late(page[e].saving), publishing |-> None]
      BY <2>1
    <2> QED
      BY <1>2, <2>2
  <1>6. ASSUME NEW i \in Editors
        PROVE  IsPage(page'[i]) /\ (page'[i].saving = None \/ IsLate(page'[i].saving))
    <2>1. PICK f, g : page'[i] = [form |-> f, saving |-> Late(page[i].saving), publishing |-> g]
      BY <1>2, <1>5, OvertakenIsLate
    <2>2. IsPage(page'[i])
      BY <2>1, Zenon DEF IsPage
    <2>3. page'[i].saving = Late(page[i].saving)
      BY <2>1
    <2> QED
      BY <2>2, <2>3, OvertakenIsLate
  <1>7. Agree(Published', text')
    BY <1>3, <1>4, AgreeReflexive DEF Published
  <1> QED
    BY <1>2, <1>3, <1>6, <1>7, OvertakingKeeps

LEMMA UpdateSalonKeeps == ASSUME IInv, NEW t \in Texts, UpdateSalon(t) PROVE IInv'
  <1>1. DOMAIN page' = Editors /\ \A i \in Editors : page'[i] = Overtaken(i)
    BY DEF UpdateSalon
  <1>2. enriched' = Outdated(enriched) /\ crossed' = (crossed \/ meta # None) /\ meta' = meta
    BY DEF UpdateSalon
  <1>3. ASSUME NEW i \in Editors
        PROVE  IsPage(page'[i]) /\ (page'[i].saving = None \/ IsLate(page'[i].saving))
    <2>1. PICK f, g : page'[i] = [form |-> f, saving |-> Late(page[i].saving), publishing |-> g]
      BY <1>1, OvertakenIsLate
    <2>2. IsPage(page'[i])
      BY <2>1, Zenon DEF IsPage
    <2>3. page'[i].saving = Late(page[i].saving)
      BY <2>1
    <2> QED
      BY <2>2, <2>3, OvertakenIsLate
  <1>4. Agree(Published', text') \/ crossed'
    BY <1>2, AgreeReflexive DEF Published
  <1>5. crossed' \in BOOLEAN
    BY <1>2 DEF IInv, Fits
  <1> QED
    BY <1>1, <1>2, <1>3, <1>4, <1>5, OvertakingKeeps

\* What redemption r has read goes on as x, or ends.
GoesOn(r, x) == x = None \/ \E y : x = [enriched[r] EXCEPT !.step = y]

LEMMA GoneOn ==
  ASSUME Fits, NEW r \in Redeemers, enriched[r] # None, NEW x, GoesOn(r, x)
  PROVE  /\ DOMAIN [enriched EXCEPT ![r] = x] = Redeemers
         /\ \A q \in Redeemers \ {r} : [enriched EXCEPT ![r] = x][q] = enriched[q]
         /\ [enriched EXCEPT ![r] = x][r] = x
         /\ x # None => IsEnriched(x) /\ x.text = enriched[r].text /\ x.late = enriched[r].late
  <1>1. PICK t, y : \E l \in BOOLEAN : enriched[r] = [text |-> t, step |-> y, late |-> l]
    BY DEF Fits, IsEnriched
  <1>2. PICK l \in BOOLEAN : enriched[r] = [text |-> t, step |-> y, late |-> l]
    BY <1>1
  <1>3. x # None => \E z : x = [text |-> t, step |-> z, late |-> l]
    <2>1. \A z : [enriched[r] EXCEPT !.step = z] = [text |-> t, step |-> z, late |-> l]
      BY <1>2
    <2> QED
      BY <2>1 DEF GoesOn
  <1>4. x # None => IsEnriched(x)
    BY <1>3, Zenon DEF IsEnriched
  <1>5. x # None => x.text = t /\ x.late = l
    BY <1>3
  <1> QED
    BY <1>2, <1>4, <1>5 DEF Fits

LEMMA GoingOnEnriches ==
  ASSUME IInv, NEW r \in Redeemers, enriched[r] # None, NEW x, GoesOn(r, x),
         enriched' = [enriched EXCEPT ![r] = x], UNCHANGED <<text, meta, page, crossed>>
  PROVE  IInv'
  <1>1. /\ DOMAIN enriched' = Redeemers
        /\ \A q \in Redeemers \ {r} : enriched'[q] = enriched[q]
        /\ enriched'[r] = x
        /\ x # None => IsEnriched(x) /\ x.text = enriched[r].text /\ x.late = enriched[r].late
    BY GoneOn DEF IInv
  <1>2. Fits'
    BY <1>1 DEF IInv, Fits
  <1>3. EnrichedAgrees'
    BY <1>1 DEF IInv, EnrichedAgrees
  <1>4. SavesAgree' /\ PublishedAgrees'
    BY DEF IInv, SavesAgree, PublishedAgrees, Published
  <1> QED
    BY <1>2, <1>3, <1>4 DEF IInv

\* A redemption writes the row: as it was read, completed, or late.
LEMMA CompleteKeeps ==
  ASSUME IInv, NEW r \in Redeemers, enriched[r] # None, NEW x, GoesOn(r, x), NEW t, Complete(r, t, x),
         enriched[r].late \/ Agree(text, t)
  PROVE  IInv'
  <1>1. /\ text' = t /\ UNCHANGED <<meta, page>>
        /\ enriched' = IF t = text THEN [enriched EXCEPT ![r] = x] ELSE Outdated([enriched EXCEPT ![r] = x])
        /\ crossed' = (crossed \/ (enriched[r].late /\ t # text))
    BY DEF Complete
  <1>2. CASE t = text
    <2>1. crossed' = crossed
      BY <1>1, <1>2 DEF IInv, Fits
    <2> QED
      BY <1>1, <1>2, <2>1, GoingOnEnriches
  <1>3. CASE t # text
    <2>1. PICK next : next = [enriched EXCEPT ![r] = x]
      OBVIOUS
    <2>2. DOMAIN next = Redeemers /\ \A q \in Redeemers : next[q] # None => IsEnriched(next[q])
      BY <2>1, GoneOn DEF IInv, Fits
    <2>3. enriched' = Outdated(next)
      BY <1>1, <1>3, <2>1
    <2>4. /\ DOMAIN enriched' = Redeemers
          /\ \A q \in Redeemers : enriched'[q] # None => IsEnriched(enriched'[q]) /\ enriched'[q].late
      BY <2>2, <2>3, LateEnriched DEF Outdated
    <2>5. crossed' \in BOOLEAN /\ (~crossed' => ~crossed /\ Agree(text, text'))
      <3>1. enriched[r].late \in BOOLEAN
        BY DEF IInv, Fits, IsEnriched
      <3> QED
        BY <1>1, <1>3, <3>1 DEF IInv, Fits
    <2>6. Fits'
      BY <1>1, <2>4, <2>5 DEF IInv, Fits
    <2>7. SavesAgree'
      BY <1>1, <2>5, AgreeTransitive DEF IInv, SavesAgree
    <2>8. EnrichedAgrees'
      BY <2>4 DEF EnrichedAgrees
    <2>9. PublishedAgrees'
      BY <1>1, <2>5, AgreeReflexive, AgreeTransitive DEF IInv, PublishedAgrees, Published
    <2> QED
      BY <2>6, <2>7, <2>8, <2>9 DEF IInv
  <1> QED
    BY <1>2, <1>3

\* What a redemption that was not overtaken writes completes what the row says.
LEMMA EnrichKeeps == ASSUME IInv, NEW r \in Redeemers, Enrich(r) PROVE IInv'
  <1>1. CASE EnrichRead(r)
    <2>1. PICK x : x = [text |-> text, step |-> "asked", late |-> FALSE]
      OBVIOUS
    <2>2. IsEnriched(x) /\ x.text = text
      BY <2>1 DEF IsEnriched
    <2>3. enriched' = [enriched EXCEPT ![r] = x] /\ UNCHANGED <<text, meta, page, crossed>>
      BY <1>1, <2>1 DEF EnrichRead, tables
    <2>4. /\ DOMAIN enriched' = Redeemers
          /\ \A q \in Redeemers \ {r} : enriched'[q] = enriched[q]
          /\ enriched'[r] = x
      BY <2>3 DEF IInv, Fits
    <2>5. Fits'
      BY <2>2, <2>3, <2>4 DEF IInv, Fits
    <2>6. EnrichedAgrees'
      BY <2>2, <2>3, <2>4 DEF IInv, EnrichedAgrees
    <2>7. SavesAgree' /\ PublishedAgrees'
      BY <2>3 DEF IInv, SavesAgree, PublishedAgrees, Published
    <2> QED
      BY <2>5, <2>6, <2>7 DEF IInv
  <1>2. CASE EnrichWrite(r)
    <2>1. PICK found : found = Completed(enriched[r].text)
      OBVIOUS
    <2>2. PICK t : t = [c \in Columns |-> IF c = "phone" /\ found[c] = None THEN text[c] ELSE found[c]]
      OBVIOUS
    <2>3. PICK x : x = [enriched[r] EXCEPT !.step = "written"]
      OBVIOUS
    <2>4. enriched[r] # None /\ Complete(r, t, x)
      BY <1>2, <2>1, <2>2, <2>3 DEF EnrichWrite
    <2>5. GoesOn(r, x)
      BY <2>3, Zenon DEF GoesOn
    <2>6. ASSUME ~enriched[r].late PROVE Agree(text, t)
      <3>1. ASSUME NEW c \in Columns PROVE t[c] = text[c] \/ (text[c] = None /\ t[c] = Place[c])
        <4>1. enriched[r].text[c] = text[c]
          BY <2>4, <2>6 DEF IInv, EnrichedAgrees
        <4>2. found[c] = IF text[c] = None THEN Place[c] ELSE text[c]
          BY <2>1, <4>1 DEF Completed
        <4>3. t[c] = IF c = "phone" /\ found[c] = None THEN text[c] ELSE found[c]
          BY <2>2
        <4> QED
          BY <4>2, <4>3
      <3> QED
        BY <3>1 DEF Agree
    <2> QED
      BY <2>4, <2>5, <2>6, CompleteKeeps
  <1>3. CASE EnrichFallback(r)
    <2>1. PICK words \in {enriched[r].text["words"], Completed(enriched[r].text)["words"]} :
            Complete(r, [c \in Columns |-> IF c = "words" THEN words ELSE text[c]], None)
      BY <1>3 DEF EnrichFallback
    <2>2. PICK t : t = [c \in Columns |-> IF c = "words" THEN words ELSE text[c]]
      OBVIOUS
    <2>3. enriched[r] # None /\ Complete(r, t, None) /\ GoesOn(r, None)
      BY <1>3, <2>1, <2>2 DEF EnrichFallback, GoesOn
    <2>4. ASSUME ~enriched[r].late PROVE Agree(text, t)
      <3>1. "words" \in Columns
        BY DEF Columns
      <3>2. enriched[r].text["words"] = text["words"]
        BY <2>3, <2>4, <3>1 DEF IInv, EnrichedAgrees
      <3>3. words = text["words"] \/ (text["words"] = None /\ words = Place["words"])
        BY <3>1, <3>2 DEF Completed
      <3> QED
        BY <2>2, <3>3 DEF Agree
    <2> QED
      BY <2>3, <2>4, CompleteKeeps
  <1>4. CASE EnrichPhotosRead(r)
    <2>1. PICK x : x = IF \A n \in Photos : Shown(n) = {} THEN [enriched[r] EXCEPT !.step = "bare"] ELSE None
      OBVIOUS
    <2>2. GoesOn(r, x)
      BY <2>1 DEF GoesOn
    <2>3. /\ enriched[r] # None /\ UNCHANGED <<text, meta, page, crossed>>
          /\ enriched' = [enriched EXCEPT ![r] = x]
      BY <1>4, <2>1 DEF EnrichPhotosRead, tables, IInv, Fits
    <2> QED
      BY <2>2, <2>3, GoingOnEnriches
  <1>5. CASE EnrichPhotos(r) \/ EnrichEnd(r)
    <2>1. GoesOn(r, None)
      BY DEF GoesOn
    <2>2. /\ enriched[r] # None /\ UNCHANGED <<text, meta, page, crossed>>
          /\ enriched' = [enriched EXCEPT ![r] = None]
      BY <1>5 DEF EnrichPhotos, EnrichEnd, tables
    <2> QED
      BY <2>1, <2>2, GoingOnEnriches
  <1> QED
    BY <1>1, <1>2, <1>3, <1>4, <1>5 DEF Enrich

LEMMA NextHolds == IInv /\ [Next]_vars => IInv'
  <1> SUFFICES ASSUME IInv, [Next]_vars PROVE IInv'
    OBVIOUS
  <1>1. CASE UNCHANGED vars
    BY <1>1 DEF vars, IInv, Fits, SavesAgree, EnrichedAgrees, PublishedAgrees, Published
  <1>2. ASSUME NEW s, CreateService(s) \/ \E k : RemoveService(s, k) PROVE IInv'
    BY <1>2 DEF CreateService, RemoveService, IInv, Fits, SavesAgree, EnrichedAgrees, PublishedAgrees, Published
  <1> QED
    BY <1>1, <1>2, PageKeeps, SaveKeeps, SaveCommitKeeps, PublishCommitKeeps, UpdateSalonKeeps, EnrichKeeps
       DEF Next

\* The salon's row says what was published, or what the place says where that was
\* left open, however saves, publications, redemptions and changes of the salon
\* interleave, unless one wrote what it had read before another wrote (saveDraft,
\* enrichSalonFromGooglePlaces) or the row was changed outside the editor.
THEOREM PublishedStaysTrue == Spec => []PublishedAgrees
  <1>1. IInv => PublishedAgrees
    BY DEF IInv
  <1> QED
    BY <1>1, InitHolds, NextHolds, PTL DEF Spec

-----------------------------------------------------------------------------
(* Rows.  A draft has at most one entry of a name more than rows of it     *)
(* were made outside the editor (GoodDraft): an entry is added only where  *)
(* none has the name, and of the ids the tables do not show all become the *)
(* one that has none.  A publication hides what was there when it read the *)
(* rows and is not in its draft, so what it leaves and does not know was   *)
(* made outside since (GoodPublication).  Pictures of the salon's place    *)
(* are made by redemptions that saw none (Bare), each once, and no draft   *)
(* makes any.                                                              *)

\* What the editor is used with: finitely many pages and redemptions; the names of
\* services are not those of photos, owners do not add the pictures of the place,
\* and only services are made outside the editor.
EditorNames ==
  /\ IsFiniteSet(Editors) /\ IsFiniteSet(Redeemers)
  /\ Services \cap Photos = {}
  /\ Pictured \subseteq Photos /\ Pictured \cap Editable = {}
  /\ Elsewhere \subseteq Services

Own == Names \ Pictured

\* The rows of n made outside the editor, when r are the rows and m what was made.
Made(r, m, n) == {k \in DOMAIN r[n] : <<n, k>> \in m}

Few(S, r, m, n) == IsFiniteSet(S) /\ Cardinality(S) <= 1 + Cardinality(Made(r, m, n))

IsEntry(x) == \E n, k, refs : x = [name |-> n, id |-> k, refs |-> refs]

IsDraft(d) == \E E, t : d = [entries |-> E, text |-> t] /\ \A x \in E : IsEntry(x)

IdsOf(d, n) == {x.id : x \in {y \in d.entries : y.name = n}}

\* A draft has few entries of a name, and none that would make a row of a
\* picture of the place.
GoodDraft(d, r, m) ==
  /\ IsDraft(d)
  /\ \A n \in Own : Few(IdsOf(d, n), r, m, n)
  /\ \A x \in d.entries : x.name \in Pictured => x.id # New

\* Rows made since a publication read them were made outside the editor.
GoodPublication(p, r, m) ==
  /\ \E d, there : p = [draft |-> d, there |-> there]
  /\ GoodDraft(p.draft, r, m)
  /\ p.there # None =>
       \A n \in Own :
         /\ DOMAIN r[n] \ p.there[n] \subseteq Made(r, m, n)
         /\ Cardinality(IdsOf(p.draft, n)) <= 1 + Cardinality(Made(r, m, n) \cap p.there[n])

GoodPage(p, r, m) ==
  /\ p.form # None => GoodDraft(p.form, r, m)
  /\ p.saving # None => GoodDraft(p.saving.draft, r, m)
  /\ p.publishing # None => GoodPublication(p.publishing, r, m)

\* The redemptions that are about to make the pictures of the place.
Bare(x) == {o \in Redeemers : x[o] # None /\ x[o].step = "bare"}

\* Few rows are shown of any name, and of a picture of the place as many as
\* there are redemptions, those that are about to make one included.
GoodRows(r, m, x) ==
  /\ r \in [Names -> Seq(BOOLEAN)]
  /\ \A n \in Own : Few({k \in DOMAIN r[n] : r[n][k]}, r, m, n)
  /\ \A n \in Pictured :
       Cardinality({k \in DOMAIN r[n] : r[n][k]}) + Cardinality(Bare(x)) <= Cardinality(Redeemers)

GoodMeta(t, r, m) == t # None => GoodDraft(t.draft, r, m)

OnceInv ==
  /\ GoodRows(rows, made, enriched)
  /\ IsFiniteSet(made)
  /\ GoodMeta(meta, rows, made)
  /\ \A e \in Editors : GoodPage(page[e], rows, made)

LEMMA RowsFinite ==
  ASSUME NEW r \in [Names -> Seq(BOOLEAN)], NEW n \in Names
  PROVE  /\ DOMAIN r[n] = 1..Len(r[n]) /\ Len(r[n]) \in Nat
         /\ IsFiniteSet(DOMAIN r[n])
         /\ \A S \in SUBSET DOMAIN r[n] : IsFiniteSet(S) /\ Cardinality(S) \in Nat
  <1>1. r[n] \in Seq(BOOLEAN)
    OBVIOUS
  <1>2. DOMAIN r[n] = 1..Len(r[n]) /\ Len(r[n]) \in Nat
    BY <1>1
  <1>3. IsFiniteSet(DOMAIN r[n])
    BY <1>2, FS_Interval
  <1> QED
    BY <1>2, <1>3, FS_Subset, FS_CardinalityType

LEMMA MadeFinite ==
  ASSUME NEW r \in [Names -> Seq(BOOLEAN)], NEW m, NEW n \in Names
  PROVE  /\ IsFiniteSet(Made(r, m, n)) /\ Cardinality(Made(r, m, n)) \in Nat
         /\ \A T : /\ IsFiniteSet(Made(r, m, n) \cap T) /\ Cardinality(Made(r, m, n) \cap T) \in Nat
                   /\ IsFiniteSet(Made(r, m, n) \ T) /\ Cardinality(Made(r, m, n) \ T) \in Nat
  <1>1. Made(r, m, n) \subseteq DOMAIN r[n]
    BY DEF Made
  <1>2. \A T : Made(r, m, n) \cap T \subseteq DOMAIN r[n] /\ Made(r, m, n) \ T \subseteq DOMAIN r[n]
    BY <1>1
  <1> QED
    BY <1>1, <1>2, RowsFinite

\* Rows that are added, and what is made, let a draft have more entries.
Grows(r, m, s, q) == m \subseteq q /\ \A n \in Names : DOMAIN r[n] \subseteq DOMAIN s[n]

LEMMA MadeGrows ==
  ASSUME NEW r \in [Names -> Seq(BOOLEAN)], NEW m, NEW s \in [Names -> Seq(BOOLEAN)], NEW q,
         Grows(r, m, s, q), NEW n \in Names
  PROVE  /\ Made(r, m, n) \subseteq Made(s, q, n)
         /\ Cardinality(Made(r, m, n)) <= Cardinality(Made(s, q, n))
         /\ \A T : Cardinality(Made(r, m, n) \cap T) <= Cardinality(Made(s, q, n) \cap T)
  <1>1. Made(r, m, n) \subseteq Made(s, q, n)
    BY DEF Grows, Made
  <1>2. \A T : Made(r, m, n) \cap T \subseteq Made(s, q, n) \cap T
    BY <1>1
  <1> QED
    BY <1>1, <1>2, MadeFinite, FS_Subset

LEMMA GoodStays ==
  ASSUME NEW r \in [Names -> Seq(BOOLEAN)], NEW m, NEW s \in [Names -> Seq(BOOLEAN)], NEW q,
         Grows(r, m, s, q)
  PROVE  /\ \A d : GoodDraft(d, r, m) => GoodDraft(d, s, q)
         /\ \A t : GoodMeta(t, r, m) => GoodMeta(t, s, q)
         /\ \A S, n : n \in Names /\ Few(S, r, m, n) => Few(S, s, q, n)
  <1>1. ASSUME NEW S, NEW n \in Names, Few(S, r, m, n) PROVE Few(S, s, q, n)
    <2>1. Cardinality(S) \in Nat
      BY <1>1, FS_CardinalityType DEF Few
    <2>2. Cardinality(Made(r, m, n)) \in Nat /\ Cardinality(Made(s, q, n)) \in Nat
      BY MadeFinite
    <2>3. Cardinality(Made(r, m, n)) <= Cardinality(Made(s, q, n))
      BY MadeGrows
    <2> QED
      BY <1>1, <2>1, <2>2, <2>3 DEF Few
  <1>2. ASSUME NEW d, GoodDraft(d, r, m) PROVE GoodDraft(d, s, q)
    BY <1>1, <1>2 DEF GoodDraft, Own
  <1> QED
    BY <1>1, <1>2 DEF GoodMeta

LEMMA PageStays ==
  ASSUME NEW r \in [Names -> Seq(BOOLEAN)], NEW m, NEW s \in [Names -> Seq(BOOLEAN)], NEW q,
         Grows(r, m, s, q), \A n \in Own : DOMAIN s[n] \ DOMAIN r[n] \subseteq Made(s, q, n),
         NEW p, GoodPage(p, r, m)
  PROVE  GoodPage(p, s, q)
  <1>1. ASSUME NEW x, GoodPublication(x, r, m) PROVE GoodPublication(x, s, q)
    <2>1. GoodDraft(x.draft, s, q)
      BY <1>1, GoodStays DEF GoodPublication
    <2>2. ASSUME x.there # None, NEW n \in Own
          PROVE  /\ DOMAIN s[n] \ x.there[n] \subseteq Made(s, q, n)
                 /\ Cardinality(IdsOf(x.draft, n)) <= 1 + Cardinality(Made(s, q, n) \cap x.there[n])
      <3>1. n \in Names
        BY DEF Own
      <3>2. DOMAIN s[n] \ x.there[n] \subseteq Made(s, q, n)
        BY <1>1, <2>2, <3>1, MadeGrows DEF GoodPublication
      <3>3. Cardinality(IdsOf(x.draft, n)) \in Nat
        BY <1>1, FS_CardinalityType DEF GoodPublication, GoodDraft, Few
      <3>4. Cardinality(Made(r, m, n) \cap x.there[n]) <= Cardinality(Made(s, q, n) \cap x.there[n])
        BY <3>1, MadeGrows
      <3>5. Cardinality(IdsOf(x.draft, n)) <= 1 + Cardinality(Made(r, m, n) \cap x.there[n])
        BY <1>1, <2>2 DEF GoodPublication
      <3>6. /\ Cardinality(Made(r, m, n) \cap x.there[n]) \in Nat
            /\ Cardinality(Made(s, q, n) \cap x.there[n]) \in Nat
        BY <3>1, MadeFinite
      <3> QED
        BY <3>2, <3>3, <3>4, <3>5, <3>6
    <2> QED
      BY <1>1, <2>1, <2>2 DEF GoodPublication
  <1>2. \A d : GoodDraft(d, r, m) => GoodDraft(d, s, q)
    BY GoodStays
  <1> QED
    BY <1>1, <1>2, Zenon DEF GoodPage

-----------------------------------------------------------------------------
(* Drafts.                                                                 *)

Offering(n, k) == {<<o[3], o[4]>> : o \in {x \in offers : x[1] = n /\ x[2] = k}}

TableEntries == UNION {{[name |-> n, id |-> k, refs |-> Offering(n, k)] : k \in Shown(n)} : n \in Names}

LEMMA TablesAreGood ==
  ASSUME OnceInv PROVE GoodDraft(FromTables, rows, made)
  <1>1. FromTables = [entries |-> TableEntries, text |-> text]
    BY DEF FromTables, Offering, TableEntries
  <1>2. ASSUME NEW x \in TableEntries
        PROVE  \E n \in Names : \E k \in Shown(n) : x = [name |-> n, id |-> k, refs |-> Offering(n, k)]
    BY DEF TableEntries
  <1>3. \A n \in Names : \A k \in Shown(n) : [name |-> n, id |-> k, refs |-> Offering(n, k)] \in TableEntries
    BY DEF TableEntries
  <1>4. \A x \in TableEntries : IsEntry(x)
    BY <1>2, Zenon DEF IsEntry
  <1>5. IsDraft(FromTables)
    BY <1>1, <1>4, Zenon DEF IsDraft
  <1>6. FromTables.entries = TableEntries
    BY <1>1
  <1>7. ASSUME NEW n \in Own PROVE IdsOf(FromTables, n) = Shown(n)
    <2>1. IdsOf(FromTables, n) \subseteq Shown(n)
      BY <1>2, <1>6 DEF IdsOf
    <2>2. ASSUME NEW k \in Shown(n) PROVE k \in IdsOf(FromTables, n)
      <3>1. PICK x \in TableEntries : x = [name |-> n, id |-> k, refs |-> Offering(n, k)]
        BY <1>3 DEF Own
      <3>2. x.name = n /\ x.id = k
        BY <3>1
      <3> QED
        BY <1>6, <3>2 DEF IdsOf
    <2> QED
      BY <2>1, <2>2
  <1>8. ASSUME NEW x \in TableEntries PROVE x.id # New
    <2>1. PICK n \in Names : \E k \in Shown(n) : x.id = k
      BY <1>2
    <2>2. rows \in [Names -> Seq(BOOLEAN)]
      BY DEF OnceInv, GoodRows
    <2>3. DOMAIN rows[n] = 1..Len(rows[n]) /\ Len(rows[n]) \in Nat
      BY <2>2, RowsFinite
    <2> QED
      BY <2>1, <2>3 DEF Shown, New
  <1> QED
    BY <1>5, <1>6, <1>7, <1>8 DEF GoodDraft, OnceInv, GoodRows, Shown

LEMMA StoredIsGood == ASSUME OnceInv PROVE GoodDraft(Draft, rows, made)
  BY TablesAreGood DEF Draft, OnceInv, GoodMeta

LEMMA SanitizedIsGood ==
  ASSUME EditorNames, OnceInv, NEW d, GoodDraft(d, rows, made)
  PROVE  GoodDraft(Sanitized(d), rows, made)
  <1>1. PICK E, t : d = [entries |-> E, text |-> t] /\ \A x \in E : IsEntry(x)
    BY DEF GoodDraft, IsDraft
  <1> DEFINE F == {[x EXCEPT !.id = Kept(x)] : x \in E}
  <1>2. Sanitized(d) = [entries |-> F, text |-> t] /\ d.entries = E
    <2>1. d.entries = E
      BY <1>1
    <2>2. Sanitized(d) = [d EXCEPT !.entries = F]
      BY <2>1 DEF Sanitized
    <2> HIDE DEF F
    <2> QED
      BY <1>1, <2>1, <2>2
  <1>3. ASSUME NEW x \in E
        PROVE  \E n, k, refs : /\ x = [name |-> n, id |-> k, refs |-> refs]
                               /\ [x EXCEPT !.id = Kept(x)] = [name |-> n, id |-> Kept(x), refs |-> refs]
    <2>1. PICK n, k, refs : x = [name |-> n, id |-> k, refs |-> refs]
      BY <1>1 DEF IsEntry
    <2>2. [x EXCEPT !.id = Kept(x)] = [name |-> n, id |-> Kept(x), refs |-> refs]
      BY <2>1
    <2> QED
      BY <2>1, <2>2
  <1>4. ASSUME NEW x \in E
        PROVE  /\ IsEntry([x EXCEPT !.id = Kept(x)])
               /\ [x EXCEPT !.id = Kept(x)].name = x.name /\ [x EXCEPT !.id = Kept(x)].id = Kept(x)
    <2>1. PICK n, k, refs : /\ x = [name |-> n, id |-> k, refs |-> refs]
                            /\ [x EXCEPT !.id = Kept(x)] = [name |-> n, id |-> Kept(x), refs |-> refs]
      BY <1>3
    <2>2. IsEntry([x EXCEPT !.id = Kept(x)])
      BY <2>1, Zenon DEF IsEntry
    <2> QED
      BY <2>1, <2>2
  <1>5. ASSUME NEW y \in F
        PROVE  IsEntry(y) /\ \E x \in E : y.name = x.name /\ y.id = Kept(x)
    <2>1. PICK x \in E : y = [x EXCEPT !.id = Kept(x)]
      OBVIOUS
    <2> QED
      BY <2>1, <1>4
  <1>6. ASSUME NEW x \in E PROVE \E y \in F : y.name = x.name /\ y.id = Kept(x)
    <2>1. [x EXCEPT !.id = Kept(x)] \in F
      OBVIOUS
    <2> QED
      BY <2>1, <1>4
  <1> HIDE DEF F
  <1>7. IsDraft(Sanitized(d)) /\ Sanitized(d).entries = F
    <2>1. IsDraft(Sanitized(d))
      BY <1>2, <1>5, Zenon DEF IsDraft
    <2> QED
      BY <1>2, <2>1
  <1>8. ASSUME NEW n \in Own PROVE Few(IdsOf(Sanitized(d), n), rows, made, n)
    <2> DEFINE f == [k \in IdsOf(d, n) |-> IF n \in Photos \/ k \in Shown(n) THEN k ELSE New]
    <2>1. ASSUME NEW x \in E, x.name = n PROVE x.id \in IdsOf(d, n) /\ f[x.id] = Kept(x)
      BY <1>2, <2>1 DEF IdsOf, Kept
    <2>2. ASSUME NEW k \in IdsOf(d, n) PROVE f[k] \in IdsOf(Sanitized(d), n)
      <3>1. PICK x \in E : x.name = n /\ x.id = k
        BY <1>2 DEF IdsOf
      <3>2. f[k] = Kept(x)
        BY <2>1, <3>1
      <3> QED
        BY <1>6, <1>7, <3>1, <3>2 DEF IdsOf
    <2>3. ASSUME NEW k \in IdsOf(Sanitized(d), n) PROVE \E j \in IdsOf(d, n) : f[j] = k
      <3>1. PICK y \in F : y.name = n /\ y.id = k
        BY <1>7 DEF IdsOf
      <3>2. PICK x \in E : x.name = n /\ k = Kept(x)
        BY <1>5, <3>1
      <3> QED
        BY <2>1, <3>2
    <2>4. f \in Surjection(IdsOf(d, n), IdsOf(Sanitized(d), n))
      <3>1. DOMAIN f = IdsOf(d, n) /\ f = [k \in IdsOf(d, n) |-> f[k]]
        OBVIOUS
      <3> HIDE DEF f
      <3>2. f \in [IdsOf(d, n) -> IdsOf(Sanitized(d), n)]
        BY <2>2, <3>1
      <3> QED
        BY <2>3, <3>2 DEF Surjection
    <2> HIDE DEF f
    <2>5. IsFiniteSet(IdsOf(d, n)) /\ Cardinality(IdsOf(d, n)) <= 1 + Cardinality(Made(rows, made, n))
      BY DEF GoodDraft, Few
    <2>6. /\ IsFiniteSet(IdsOf(Sanitized(d), n))
          /\ Cardinality(IdsOf(Sanitized(d), n)) <= Cardinality(IdsOf(d, n))
      BY <2>4, <2>5, FS_Surjection
    <2>7. n \in Names /\ rows \in [Names -> Seq(BOOLEAN)]
      BY DEF Own, OnceInv, GoodRows
    <2> QED
      BY <2>5, <2>6, <2>7, FS_CardinalityType, MadeFinite DEF Few
  <1>9. ASSUME NEW y \in F, y.name \in Pictured PROVE y.id # New
    <2>1. PICK x \in E : y.name = x.name /\ y.id = Kept(x)
      BY <1>5
    <2> QED
      BY <1>2, <1>9, <2>1 DEF Kept, GoodDraft, EditorNames
  <1> QED
    BY <1>7, <1>8, <1>9 DEF GoodDraft

\* What the owner makes of a form.
LEMMA AddedIsGood ==
  ASSUME EditorNames, OnceInv, NEW d, GoodDraft(d, rows, made), NEW n \in Editable,
         \A x \in d.entries : x.name # n, NEW k
  PROVE  GoodDraft([d EXCEPT !.entries = @ \cup {[name |-> n, id |-> k, refs |-> {}]}], rows, made)
  <1> DEFINE a == [name |-> n, id |-> k, refs |-> {}]
  <1>1. PICK E, t : d = [entries |-> E, text |-> t] /\ \A x \in E : IsEntry(x)
    BY DEF GoodDraft, IsDraft
  <1>2. PICK c : c = [d EXCEPT !.entries = @ \cup {a}]
    OBVIOUS
  <1>3. c = [entries |-> E \cup {a}, text |-> t] /\ d.entries = E
    BY <1>1, <1>2
  <1>4. IsEntry(a) /\ a.name = n /\ a.id = k
    <2>1. IsEntry(a)
      BY Zenon DEF IsEntry
    <2> QED
      BY <2>1
  <1> HIDE DEF a
  <1>5. IsDraft(c) /\ c.entries = E \cup {a}
    <2>1. \A x \in E \cup {a} : IsEntry(x)
      BY <1>1, <1>4
    <2>2. IsDraft(c)
      BY <1>3, <2>1, Zenon DEF IsDraft
    <2> QED
      BY <1>3, <2>2
  <1>6. ASSUME NEW j \in Own PROVE Few(IdsOf(c, j), rows, made, j)
    <2>1. CASE j # n
      <3>1. IdsOf(c, j) = IdsOf(d, j)
        BY <1>3, <1>4, <1>5, <2>1 DEF IdsOf
      <3> QED
        BY <3>1 DEF GoodDraft
    <2>2. CASE j = n
      <3>1. IdsOf(c, j) = {k}
        BY <1>3, <1>4, <1>5, <2>2 DEF IdsOf
      <3>2. j \in Names /\ rows \in [Names -> Seq(BOOLEAN)]
        BY DEF Own, OnceInv, GoodRows
      <3>3. IsFiniteSet({k}) /\ Cardinality({k}) = 1
        BY FS_Singleton
      <3>4. Cardinality(Made(rows, made, j)) \in Nat
        BY <3>2, MadeFinite
      <3> QED
        BY <3>1, <3>3, <3>4 DEF Few
    <2> QED
      BY <2>1, <2>2
  <1>7. \A x \in c.entries : x.name \in Pictured => x.id # New
    BY <1>3, <1>4, <1>5 DEF GoodDraft, EditorNames
  <1>8. GoodDraft(c, rows, made)
    BY <1>5, <1>6, <1>7 DEF GoodDraft
  <1> QED
    BY <1>2, <1>8 DEF a

LEMMA RemovedIsGood ==
  ASSUME OnceInv, NEW d, GoodDraft(d, rows, made), NEW x
  PROVE  GoodDraft([d EXCEPT !.entries = @ \ {x}], rows, made)
  <1>1. PICK E, t : d = [entries |-> E, text |-> t] /\ \A y \in E : IsEntry(y)
    BY DEF GoodDraft, IsDraft
  <1>2. PICK c : c = [d EXCEPT !.entries = @ \ {x}]
    OBVIOUS
  <1>3. c = [entries |-> E \ {x}, text |-> t] /\ d.entries = E
    BY <1>1, <1>2
  <1>4. IsDraft(c) /\ c.entries = E \ {x}
    <2>1. \A y \in E \ {x} : IsEntry(y)
      BY <1>1
    <2>2. IsDraft(c)
      BY <1>3, <2>1, Zenon DEF IsDraft
    <2> QED
      BY <1>3, <2>2
  <1>5. ASSUME NEW n \in Own PROVE Few(IdsOf(c, n), rows, made, n)
    <2>1. IdsOf(c, n) \subseteq IdsOf(d, n)
      BY <1>3, <1>4 DEF IdsOf
    <2>2. Few(IdsOf(d, n), rows, made, n) /\ n \in Names /\ rows \in [Names -> Seq(BOOLEAN)]
      BY DEF GoodDraft, Own, OnceInv, GoodRows
    <2> QED
      BY <2>1, <2>2, FS_Subset, FS_CardinalityType, MadeFinite DEF Few
  <1>6. GoodDraft(c, rows, made)
    BY <1>3, <1>4, <1>5 DEF GoodDraft
  <1> QED
    BY <1>2, <1>6

LEMMA TickedIsGood ==
  ASSUME NEW d, GoodDraft(d, rows, made), NEW x \in d.entries, NEW refs
  PROVE  GoodDraft([d EXCEPT !.entries = (@ \ {x}) \cup {[x EXCEPT !.refs = refs]}], rows, made)
  <1> DEFINE a == [x EXCEPT !.refs = refs]
  <1>1. PICK E, t : d = [entries |-> E, text |-> t] /\ \A y \in E : IsEntry(y)
    BY DEF GoodDraft, IsDraft
  <1>2. PICK c : c = [d EXCEPT !.entries = (@ \ {x}) \cup {a}]
    OBVIOUS
  <1>3. c = [entries |-> (E \ {x}) \cup {a}, text |-> t] /\ d.entries = E
    BY <1>1, <1>2
  <1>4. IsEntry(a) /\ a.name = x.name /\ a.id = x.id
    <2>1. PICK n, k, ticked : x = [name |-> n, id |-> k, refs |-> ticked]
      BY <1>1, <1>3 DEF IsEntry
    <2>2. a = [name |-> n, id |-> k, refs |-> refs]
      BY <2>1
    <2>3. IsEntry(a)
      BY <2>2, Zenon DEF IsEntry
    <2> QED
      BY <2>1, <2>2, <2>3
  <1> HIDE DEF a
  <1>5. IsDraft(c) /\ c.entries = (E \ {x}) \cup {a}
    <2>1. \A y \in (E \ {x}) \cup {a} : IsEntry(y)
      BY <1>1, <1>4
    <2>2. IsDraft(c)
      BY <1>3, <2>1, Zenon DEF IsDraft
    <2> QED
      BY <1>3, <2>2
  <1>6. ASSUME NEW n \in Own PROVE IdsOf(c, n) = IdsOf(d, n)
    BY <1>3, <1>4, <1>5 DEF IdsOf
  <1>7. \A y \in c.entries : y.name \in Pictured => y.id # New
    BY <1>3, <1>4, <1>5 DEF GoodDraft
  <1>8. GoodDraft(c, rows, made)
    BY <1>5, <1>6, <1>7 DEF GoodDraft
  <1> QED
    BY <1>2, <1>8 DEF a

LEMMA SaidIsGood ==
  ASSUME NEW d, GoodDraft(d, rows, made), NEW said
  PROVE  GoodDraft([d EXCEPT !.text = said], rows, made)
  <1>1. PICK E, t : d = [entries |-> E, text |-> t] /\ \A y \in E : IsEntry(y)
    BY DEF GoodDraft, IsDraft
  <1>2. PICK c : c = [d EXCEPT !.text = said]
    OBVIOUS
  <1>3. c = [entries |-> E, text |-> said] /\ d.entries = E
    BY <1>1, <1>2
  <1>4. IsDraft(c) /\ c.entries = d.entries
    <2>1. IsDraft(c)
      BY <1>1, <1>3, Zenon DEF IsDraft
    <2> QED
      BY <1>3, <2>1
  <1>5. GoodDraft(c, rows, made)
    BY <1>4 DEF GoodDraft, IdsOf
  <1> QED
    BY <1>2, <1>5
-----------------------------------------------------------------------------
(* Pages.                                                                  *)

LEMMA PageIs ==
  ASSUME Fits, NEW e \in Editors
  PROVE  page[e] = [form |-> page[e].form, saving |-> page[e].saving, publishing |-> page[e].publishing]
  <1>1. PICK f, s, g : page[e] = [form |-> f, saving |-> s, publishing |-> g]
    BY DEF Fits, IsPage
  <1> QED
    BY <1>1

LEMMA PageBecomes ==
  ASSUME Fits, OnceInv, NEW e \in Editors, NEW p,
         p = [form |-> p.form, saving |-> p.saving, publishing |-> p.publishing],
         p.form \in {page[e].form, None} \/ GoodDraft(p.form, rows, made),
         p.saving \in {page[e].saving, None} \/ GoodDraft(p.saving.draft, rows, made),
         p.publishing \in {page[e].publishing, None} \/ GoodPublication(p.publishing, rows, made)
  PROVE  GoodPage(p, rows, made)
  BY DEF OnceInv, GoodPage

LEMMA FormIsGood ==
  ASSUME Fits, OnceInv, NEW e \in Editors, NEW d, GoodDraft(d, rows, made), page' = [page EXCEPT ![e].form = d]
  PROVE  \A i \in Editors : GoodPage(page'[i], rows, made)
  <1>1. PICK f, s, g : page[e] = [form |-> f, saving |-> s, publishing |-> g]
    BY PageIs
  <1>2. page'[e] = [form |-> d, saving |-> s, publishing |-> g] /\ \A i \in Editors \ {e} : page'[i] = page[i]
    <2>1. page'[e] = [page[e] EXCEPT !.form = d] /\ \A i \in Editors \ {e} : page'[i] = page[i]
      BY DEF Fits
    <2> QED
      BY <1>1, <2>1
  <1>3. page[e].saving = s /\ page[e].publishing = g
    BY <1>1
  <1>4. GoodPage(page[e], rows, made)
    BY DEF OnceInv
  <1>5. GoodPage(page'[e], rows, made)
    BY <1>2, <1>3, <1>4 DEF GoodPage
  <1> QED
    BY <1>2, <1>5 DEF OnceInv

LEMMA SavingIsGood ==
  ASSUME Fits, OnceInv, NEW e \in Editors, NEW r, r # None => GoodDraft(r.draft, rows, made),
         page' = [page EXCEPT ![e].saving = r]
  PROVE  \A i \in Editors : GoodPage(page'[i], rows, made)
  <1>1. PICK f, s, g : page[e] = [form |-> f, saving |-> s, publishing |-> g]
    BY PageIs
  <1>2. page'[e] = [form |-> f, saving |-> r, publishing |-> g] /\ \A i \in Editors \ {e} : page'[i] = page[i]
    <2>1. page'[e] = [page[e] EXCEPT !.saving = r] /\ \A i \in Editors \ {e} : page'[i] = page[i]
      BY DEF Fits
    <2> QED
      BY <1>1, <2>1
  <1>3. page[e].form = f /\ page[e].publishing = g
    BY <1>1
  <1>4. GoodPage(page[e], rows, made)
    BY DEF OnceInv
  <1>5. GoodPage(page'[e], rows, made)
    BY <1>2, <1>3, <1>4 DEF GoodPage
  <1> QED
    BY <1>2, <1>5 DEF OnceInv

LEMMA PublishingIsGood ==
  ASSUME Fits, OnceInv, NEW e \in Editors, NEW r, r # None => GoodPublication(r, rows, made),
         page' = [page EXCEPT ![e].publishing = r]
  PROVE  \A i \in Editors : GoodPage(page'[i], rows, made)
  <1>1. PICK f, s, g : page[e] = [form |-> f, saving |-> s, publishing |-> g]
    BY PageIs
  <1>2. page'[e] = [form |-> f, saving |-> s, publishing |-> r] /\ \A i \in Editors \ {e} : page'[i] = page[i]
    <2>1. page'[e] = [page[e] EXCEPT !.publishing = r] /\ \A i \in Editors \ {e} : page'[i] = page[i]
      BY DEF Fits
    <2> QED
      BY <1>1, <2>1
  <1>3. page[e].form = f /\ page[e].saving = s
    BY <1>1
  <1>4. GoodPage(page[e], rows, made)
    BY DEF OnceInv
  <1>5. GoodPage(page'[e], rows, made)
    BY <1>2, <1>3, <1>4 DEF GoodPage
  <1> QED
    BY <1>2, <1>5 DEF OnceInv

\* What makes a save late leaves its draft, and the rest of the page.
LEMMA OvertakenIs ==
  ASSUME Fits, OnceInv, NEW i \in Editors
  PROVE  /\ Overtaken(i) =
              [form |-> page[i].form, saving |-> Late(page[i].saving), publishing |-> page[i].publishing]
         /\ Late(page[i].saving) # None => GoodDraft(Late(page[i].saving).draft, rows, made)
         /\ GoodPage(Overtaken(i), rows, made)
  <1>1. PICK f, s, g : page[i] = [form |-> f, saving |-> s, publishing |-> g]
    BY PageIs
  <1>2. page[i].form = f /\ page[i].saving = s /\ page[i].publishing = g
    BY <1>1
  <1>3. Overtaken(i) = [form |-> f, saving |-> Late(s), publishing |-> g]
    BY <1>1 DEF Overtaken
  <1>4. GoodPage(page[i], rows, made)
    BY DEF OnceInv
  <1>5. Late(s) # None => GoodDraft(Late(s).draft, rows, made)
    <2>1. CASE s = None
      BY <2>1 DEF Late
    <2>2. CASE s # None
      <3>1. PICK d, t : \E l \in BOOLEAN : s = [draft |-> d, published |-> t, late |-> l]
        BY <1>2, <2>2 DEF Fits, IsSaving
      <3>2. Late(s) = [draft |-> d, published |-> t, late |-> TRUE] /\ s.draft = d
        <4>1. PICK l \in BOOLEAN : s = [draft |-> d, published |-> t, late |-> l]
          BY <3>1
        <4>2. Late(s) = [s EXCEPT !.late = TRUE]
          BY <2>2 DEF Late
        <4> QED
          BY <4>1, <4>2
      <3>3. Late(s).draft = s.draft
        BY <3>2
      <3> QED
        BY <1>2, <1>4, <2>2, <3>3 DEF GoodPage
    <2> QED
      BY <2>1, <2>2
  <1>6. GoodPage(Overtaken(i), rows, made)
    BY <1>2, <1>3, <1>4, <1>5 DEF GoodPage
  <1> QED
    BY <1>2, <1>3, <1>5, <1>6

LEMMA BareFinite ==
  ASSUME EditorNames, NEW x
  PROVE  /\ IsFiniteSet(Bare(x)) /\ Cardinality(Bare(x)) \in Nat
         /\ Cardinality(Redeemers) \in Nat /\ Cardinality(Bare(x)) <= Cardinality(Redeemers)
  <1>1. Bare(x) \subseteq Redeemers
    BY DEF Bare
  <1> QED
    BY <1>1, FS_Subset, FS_CardinalityType DEF EditorNames

\* What makes a redemption late leaves what it is about to do.
LEMMA LateBare ==
  ASSUME NEW x, \A r \in Redeemers : x[r] # None => IsEnriched(x[r])
  PROVE  Bare(Outdated(x)) \subseteq Bare(x)
  <1>1. ASSUME NEW y, y # None => IsEnriched(y), Late(y) # None, Late(y).step = "bare"
        PROVE  y # None /\ y.step = "bare"
    <2>1. y # None
      BY <1>1 DEF Late
    <2>2. PICK t, z : \E l \in BOOLEAN : y = [text |-> t, step |-> z, late |-> l]
      BY <1>1, <2>1 DEF IsEnriched
    <2>3. PICK l \in BOOLEAN : y = [text |-> t, step |-> z, late |-> l]
      BY <2>2
    <2>4. Late(y) = [y EXCEPT !.late = TRUE]
      BY <2>1 DEF Late
    <2>5. Late(y) = [text |-> t, step |-> z, late |-> TRUE]
      BY <2>3, <2>4
    <2> QED
      BY <1>1, <2>1, <2>3, <2>5
  <1> QED
    BY <1>1 DEF Bare, Outdated

-----------------------------------------------------------------------------
(* Steps that write no rows.                                               *)

LEMMA TablesStay ==
  ASSUME EditorNames, OnceInv, UNCHANGED <<rows, made>>, GoodMeta(meta', rows, made),
         \A e \in Editors : GoodPage(page'[e], rows, made),
         Bare(enriched') \subseteq Bare(enriched) \/ \A n \in Pictured : Shown(n) = {}
  PROVE  OnceInv'
  <1>1. ASSUME NEW n \in Pictured
        PROVE  Cardinality(Shown(n)) + Cardinality(Bare(enriched')) <= Cardinality(Redeemers)
    <2>1. /\ Cardinality(Bare(enriched)) \in Nat /\ Cardinality(Bare(enriched')) \in Nat
          /\ Cardinality(Redeemers) \in Nat /\ Cardinality(Bare(enriched')) <= Cardinality(Redeemers)
      BY BareFinite
    <2>2. n \in Names /\ rows \in [Names -> Seq(BOOLEAN)]
      BY DEF EditorNames, Names, OnceInv, GoodRows
    <2>3. Cardinality(Shown(n)) \in Nat
      BY <2>2, RowsFinite DEF Shown
    <2>4. CASE Bare(enriched') \subseteq Bare(enriched)
      <3>1. Cardinality(Bare(enriched')) <= Cardinality(Bare(enriched))
        BY <2>4, BareFinite, FS_Subset
      <3>2. Cardinality(Shown(n)) + Cardinality(Bare(enriched)) <= Cardinality(Redeemers)
        BY DEF OnceInv, GoodRows, Shown
      <3> QED
        BY <2>1, <2>3, <3>1, <3>2
    <2>5. CASE Shown(n) = {}
      BY <2>1, <2>5, FS_EmptySet
    <2> QED
      BY <2>4, <2>5
  <1>2. GoodRows(rows, made, enriched')
    BY <1>1 DEF OnceInv, GoodRows, Shown
  <1> QED
    BY <1>2 DEF OnceInv

LEMMA PageKeepsFew ==
  ASSUME EditorNames, Fits, OnceInv, NEW e \in Editors,
         \/ Fetch(e)
         \/ \E n \in Editable : AddEntry(e, n)
         \/ \E x \in page[e].form.entries : RemoveEntry(e, x) \/ \E s \in page[e].form.entries : Tick(e, x, s)
         \/ \E t \in Texts : Say(e, t)
         \/ Save(e)
         \/ Publish(e)
         \/ PublishRead(e)
         \/ Fail(e)
  PROVE  OnceInv'
  <1>1. UNCHANGED <<rows, made, meta, enriched>>
    BY DEF Fetch, AddEntry, RemoveEntry, Tick, Say, Edited, Save, Publish, PublishRead, Fail, tables
  <1>2. ASSUME \A i \in Editors : GoodPage(page'[i], rows, made) PROVE OnceInv'
    <2>1. GoodMeta(meta', rows, made)
      BY <1>1 DEF OnceInv
    <2> QED
      BY <1>1, <1>2, <2>1, TablesStay
  <1>3. page[e].form # None => GoodDraft(page[e].form, rows, made)
    BY DEF OnceInv, GoodPage
  <1>4. ASSUME NEW d, GoodDraft(d, rows, made), Editing(e, d) PROVE OnceInv'
    BY <1>2, <1>4, FormIsGood DEF Editing
  <1>5. CASE Fetch(e)
    BY <1>4, <1>5, StoredIsGood DEF Fetch
  <1>6. ASSUME NEW n \in Editable, AddEntry(e, n) PROVE OnceInv'
    <2> DEFINE k == IF n \in Photos THEN New ELSE Temporary
    <2>1. /\ page[e].form # None /\ \A x \in page[e].form.entries : x.name # n
          /\ Editing(e, [page[e].form EXCEPT !.entries = @ \cup {[name |-> n, id |-> k, refs |-> {}]}])
      BY <1>6 DEF AddEntry, Edited
    <2> HIDE DEF k
    <2>2. GoodDraft([page[e].form EXCEPT !.entries = @ \cup {[name |-> n, id |-> k, refs |-> {}]}], rows, made)
      BY <1>3, <2>1, AddedIsGood
    <2> QED
      BY <1>4, <2>1, <2>2
  <1>7. ASSUME NEW x \in page[e].form.entries, RemoveEntry(e, x) PROVE OnceInv'
    <2>1. page[e].form # None /\ Editing(e, [page[e].form EXCEPT !.entries = @ \ {x}])
      BY <1>7 DEF RemoveEntry, Edited
    <2>2. GoodDraft([page[e].form EXCEPT !.entries = @ \ {x}], rows, made)
      BY <1>3, <2>1, RemovedIsGood
    <2> QED
      BY <1>4, <2>1, <2>2
  <1>8. ASSUME NEW x \in page[e].form.entries, NEW s, Tick(e, x, s) PROVE OnceInv'
    <2> DEFINE ref == <<s.name, s.id>>
    <2>1. PICK ticked : ticked = (IF ref \in x.refs THEN x.refs \ {ref} ELSE x.refs \cup {ref})
      OBVIOUS
    <2>2. [x EXCEPT !.refs = IF ref \in @ THEN @ \ {ref} ELSE @ \cup {ref}] = [x EXCEPT !.refs = ticked]
      BY <2>1
    <2>3. page[e].form # None /\
          Editing(e, [page[e].form EXCEPT !.entries = (@ \ {x}) \cup {[x EXCEPT !.refs = ticked]}])
      BY <1>8, <2>2, Zenon DEF Tick, Edited
    <2>4. GoodDraft([page[e].form EXCEPT !.entries = (@ \ {x}) \cup {[x EXCEPT !.refs = ticked]}], rows, made)
      BY <1>3, <2>3, TickedIsGood
    <2> QED
      BY <1>4, <2>3, <2>4
  <1>9. ASSUME NEW t, Say(e, t) PROVE OnceInv'
    <2>1. page[e].form # None /\ Editing(e, [page[e].form EXCEPT !.text = t])
      BY <1>9 DEF Say, Edited
    <2>2. GoodDraft([page[e].form EXCEPT !.text = t], rows, made)
      BY <1>3, <2>1, SaidIsGood
    <2> QED
      BY <1>4, <2>1, <2>2
  <1>10. CASE Save(e)
    <2>1. PICK d : d = Sanitized(page[e].form)
      OBVIOUS
    <2>2. PICK r : r = [draft |-> d, published |-> Published, late |-> FALSE]
      OBVIOUS
    <2>3. page[e].form # None /\ page' = [page EXCEPT ![e].saving = r]
      BY <1>10, <2>1, <2>2 DEF Save
    <2>4. GoodDraft(r.draft, rows, made)
      BY <1>3, <2>1, <2>2, <2>3, SanitizedIsGood
    <2> QED
      BY <1>2, <2>3, <2>4, SavingIsGood
  <1>11. CASE Publish(e)
    <2>1. PICK d : d = Sanitized(Draft)
      OBVIOUS
    <2>2. PICK r : r = [draft |-> d, there |-> None]
      OBVIOUS
    <2>3. page' = [page EXCEPT ![e].publishing = r]
      BY <1>11, <2>1, <2>2 DEF Publish
    <2>4. GoodDraft(d, rows, made)
      BY <2>1, StoredIsGood, SanitizedIsGood
    <2>5. GoodPublication(r, rows, made)
      BY <2>2, <2>4 DEF GoodPublication
    <2> QED
      BY <1>2, <2>3, <2>5, PublishingIsGood
  <1>12. CASE PublishRead(e)
    <2>1. PICK there : there = [n \in Names |-> DOMAIN rows[n]]
      OBVIOUS
    <2>2. page[e].publishing # None /\ GoodPublication(page[e].publishing, rows, made)
      BY <1>12 DEF PublishRead, OnceInv, GoodPage
    <2>3. PICK d, t : page[e].publishing = [draft |-> d, there |-> t]
      BY <2>2 DEF GoodPublication
    <2>4. PICK r : r = [draft |-> d, there |-> there]
      OBVIOUS
    <2>5. page' = [page EXCEPT ![e].publishing = r]
      <3>1. PICK f, s, g : page[e] = [form |-> f, saving |-> s, publishing |-> g]
        BY PageIs
      <3>2. [page[e].publishing EXCEPT !.there = there] = r
        BY <2>3, <2>4
      <3>3. page' = [page EXCEPT ![e].publishing = [page[e].publishing EXCEPT !.there = there]]
        BY <1>12, <2>1, <3>1 DEF PublishRead, Fits
      <3> QED
        BY <3>2, <3>3
    <2>6. ASSUME NEW n \in Own
          PROVE  /\ DOMAIN rows[n] \ there[n] \subseteq Made(rows, made, n)
                 /\ Cardinality(IdsOf(d, n)) <= 1 + Cardinality(Made(rows, made, n) \cap there[n])
      <3>1. there[n] = DOMAIN rows[n]
        BY <2>1 DEF Own
      <3>2. Made(rows, made, n) \cap there[n] = Made(rows, made, n)
        BY <3>1 DEF Made
      <3>3. Few(IdsOf(d, n), rows, made, n)
        BY <2>2, <2>3 DEF GoodPublication, GoodDraft
      <3> QED
        BY <3>1, <3>2, <3>3 DEF Few
    <2>7. GoodPublication(r, rows, made)
      <3>1. r.draft = d /\ r.there = there /\ GoodDraft(d, rows, made)
        BY <2>2, <2>3, <2>4 DEF GoodPublication
      <3>2. \E c, gone : r = [draft |-> c, there |-> gone]
        BY <2>4, Zenon
      <3> QED
        BY <2>6, <3>1, <3>2 DEF GoodPublication
    <2> QED
      BY <1>2, <2>5, <2>7, PublishingIsGood
  <1>13. CASE Fail(e)
    BY <1>2, <1>13, SavingIsGood, PublishingIsGood DEF Fail
  <1> QED
    BY <1>5, <1>6, <1>7, <1>8, <1>9, <1>10, <1>11, <1>12, <1>13

LEMMA SaveCommitKeepsFew ==
  ASSUME EditorNames, Fits, OnceInv, NEW e \in Editors, SaveCommit(e)
  PROVE  OnceInv'
  <1>1. PICK f, s, g : page[e] = [form |-> f, saving |-> s, publishing |-> g]
    BY PageIs
  <1>2. page[e].saving = s /\ page[e].publishing = g /\ s # None /\ GoodDraft(s.draft, rows, made)
    BY <1>1 DEF SaveCommit, OnceInv, GoodPage
  <1>3. UNCHANGED <<rows, made, enriched>> /\ meta' = [draft |-> s.draft, published |-> s.published]
    BY <1>2 DEF SaveCommit, Stored, tables
  <1>4. /\ page'[e] = [form |-> s.draft, saving |-> None, publishing |-> g]
        /\ \A i \in Editors \ {e} : page'[i] = page[i]
    <2>1. page' = [page EXCEPT ![e] = [[page[e] EXCEPT !.saving = None] EXCEPT !.form = s.draft]]
      BY <1>1, <1>2 DEF SaveCommit, Fits
    <2>2. /\ page'[e] = [[page[e] EXCEPT !.saving = None] EXCEPT !.form = s.draft]
          /\ \A i \in Editors \ {e} : page'[i] = page[i]
      BY <2>1 DEF Fits
    <2>3. [page[e] EXCEPT !.saving = None] = [form |-> f, saving |-> None, publishing |-> g]
      BY <1>1
    <2> QED
      BY <2>2, <2>3
  <1>5. GoodPage(page[e], rows, made)
    BY DEF OnceInv
  <1>6. GoodPage(page'[e], rows, made)
    BY <1>2, <1>4, <1>5 DEF GoodPage
  <1>7. \A i \in Editors : GoodPage(page'[i], rows, made)
    BY <1>4, <1>6 DEF OnceInv
  <1>8. GoodMeta(meta', rows, made)
    BY <1>2, <1>3 DEF GoodMeta
  <1> QED
    BY <1>3, <1>7, <1>8, TablesStay

LEMMA UpdateSalonKeepsFew ==
  ASSUME EditorNames, Fits, OnceInv, NEW t \in Texts, UpdateSalon(t)
  PROVE  OnceInv'
  <1>1. UNCHANGED <<rows, made, meta>> /\ enriched' = Outdated(enriched) /\ \A i \in Editors : page'[i] = Overtaken(i)
    BY DEF UpdateSalon
  <1>2. \A i \in Editors : GoodPage(page'[i], rows, made)
    BY <1>1, OvertakenIs
  <1>3. GoodMeta(meta', rows, made)
    BY <1>1 DEF OnceInv
  <1>4. Bare(enriched') \subseteq Bare(enriched)
    BY <1>1, LateBare DEF Fits
  <1> QED
    BY <1>1, <1>2, <1>3, <1>4, TablesStay

\* A redemption that goes on without having seen the photos is not about to
\* make any.
LEMMA GoneOnBare ==
  ASSUME Fits, NEW r \in Redeemers, enriched[r] # None, NEW x, GoesOn(r, x), x # None => x.step # "bare"
  PROVE  /\ Bare([enriched EXCEPT ![r] = x]) \subseteq Bare(enriched) \ {r}
         /\ Bare(Outdated([enriched EXCEPT ![r] = x])) \subseteq Bare(enriched) \ {r}
  <1>1. PICK next : next = [enriched EXCEPT ![r] = x]
    OBVIOUS
  <1>2. /\ next[r] = x /\ \A q \in Redeemers \ {r} : next[q] = enriched[q]
        /\ \A q \in Redeemers : next[q] # None => IsEnriched(next[q])
    BY <1>1, GoneOn DEF Fits
  <1>3. Bare(next) \subseteq Bare(enriched) \ {r}
    BY <1>2 DEF Bare
  <1>4. Bare(Outdated(next)) \subseteq Bare(next)
    BY <1>2, LateBare
  <1> QED
    BY <1>1, <1>3, <1>4

LEMMA EnrichKeepsFew ==
  ASSUME EditorNames, Fits, OnceInv, NEW r \in Redeemers, Enrich(r), ~EnrichPhotos(r)
  PROVE  OnceInv'
  <1>1. UNCHANGED <<rows, made, meta, page>>
    BY DEF Enrich, EnrichRead, EnrichWrite, EnrichPhotosRead, EnrichFallback, EnrichEnd, Complete, tables
  <1>2. \A i \in Editors : GoodPage(page'[i], rows, made)
    BY <1>1 DEF OnceInv
  <1>3. GoodMeta(meta', rows, made)
    BY <1>1 DEF OnceInv
  <1>4. ASSUME NEW t, NEW x, enriched[r] # None, GoesOn(r, x), x # None => x.step # "bare", Complete(r, t, x)
        PROVE  Bare(enriched') \subseteq Bare(enriched)
    <2>1. \/ enriched' = [enriched EXCEPT ![r] = x]
          \/ enriched' = Outdated([enriched EXCEPT ![r] = x])
      BY <1>4 DEF Complete
    <2> QED
      BY <1>4, <2>1, GoneOnBare
  <1>5. Bare(enriched') \subseteq Bare(enriched) \/ \A n \in Pictured : Shown(n) = {}
    <2>1. CASE EnrichRead(r)
      <3>1. PICK x : x = [text |-> text, step |-> "asked", late |-> FALSE]
        OBVIOUS
      <3>2. x.step # "bare" /\ enriched' = [enriched EXCEPT ![r] = x]
        BY <2>1, <3>1 DEF EnrichRead
      <3>3. enriched'[r].step # "bare" /\ \A q \in Redeemers \ {r} : enriched'[q] = enriched[q]
        BY <3>2 DEF Fits
      <3> QED
        BY <3>3 DEF Bare
    <2>2. CASE EnrichWrite(r)
      <3>1. PICK t, x : x = [enriched[r] EXCEPT !.step = "written"] /\ Complete(r, t, x)
        BY <2>2 DEF EnrichWrite
      <3>2. enriched[r] # None /\ GoesOn(r, x)
        BY <2>2, <3>1, Zenon DEF EnrichWrite, GoesOn
      <3>3. x.step # "bare"
        BY <3>1, <3>2 DEF Fits, IsEnriched
      <3> QED
        BY <1>4, <3>1, <3>2, <3>3
    <2>3. CASE EnrichFallback(r)
      <3>1. enriched[r] # None /\ GoesOn(r, None) /\ \E t : Complete(r, t, None)
        BY <2>3 DEF EnrichFallback, GoesOn
      <3> QED
        BY <1>4, <3>1
    <2>4. CASE EnrichEnd(r)
      <3>1. enriched[r] # None /\ GoesOn(r, None) /\ enriched' = [enriched EXCEPT ![r] = None]
        BY <2>4 DEF EnrichEnd, GoesOn
      <3> QED
        BY <3>1, GoneOnBare
    <2>5. CASE EnrichPhotosRead(r)
      <3>1. CASE \A n \in Photos : Shown(n) = {}
        BY <3>1 DEF EditorNames
      <3>2. CASE ~ \A n \in Photos : Shown(n) = {}
        <4>1. enriched[r] # None /\ GoesOn(r, None) /\ enriched' = [enriched EXCEPT ![r] = None]
          BY <2>5, <3>2 DEF EnrichPhotosRead, GoesOn
        <4> QED
          BY <4>1, GoneOnBare
      <3> QED
        BY <3>1, <3>2
    <2> QED
      BY <2>1, <2>2, <2>3, <2>4, <2>5 DEF Enrich
  <1> QED
    BY <1>1, <1>2, <1>3, <1>5, TablesStay

-----------------------------------------------------------------------------
(* Steps that write rows.                                                  *)

LEMMA RowsChange ==
  ASSUME OnceInv,
         rows' \in [Names -> Seq(BOOLEAN)], IsFiniteSet(made'),
         \A n \in Names : DOMAIN rows[n] \subseteq DOMAIN rows'[n], made \subseteq made',
         \A n \in Own : DOMAIN rows'[n] \ DOMAIN rows[n] \subseteq Made(rows', made', n),
         GoodRows(rows', made', enriched'), UNCHANGED <<meta, page>>
  PROVE  OnceInv'
  <1>1. rows \in [Names -> Seq(BOOLEAN)] /\ Grows(rows, made, rows', made')
    BY DEF OnceInv, GoodRows, Grows
  <1>2. PICK r, m, s, q : r = rows /\ m = made /\ s = rows' /\ q = made'
    OBVIOUS
  <1>3. GoodMeta(meta, s, q)
    BY <1>1, <1>2, GoodStays DEF OnceInv
  <1>4. ASSUME NEW e \in Editors PROVE GoodPage(page[e], s, q)
    BY <1>1, <1>2, PageStays DEF OnceInv
  <1> QED
    BY <1>2, <1>3, <1>4 DEF OnceInv

LEMMA Appended ==
  ASSUME NEW s \in Seq(BOOLEAN)
  PROVE  /\ Append(s, TRUE) \in Seq(BOOLEAN)
         /\ Len(s) \in Nat /\ DOMAIN s = 1..Len(s)
         /\ DOMAIN Append(s, TRUE) = DOMAIN s \cup {Len(s) + 1} /\ Len(s) + 1 \notin DOMAIN s
         /\ {k \in DOMAIN Append(s, TRUE) : Append(s, TRUE)[k]} = {k \in DOMAIN s : s[k]} \cup {Len(s) + 1}
  <1>1. /\ Append(s, TRUE) \in Seq(BOOLEAN) /\ Len(s) \in Nat /\ DOMAIN s = 1..Len(s)
        /\ Len(Append(s, TRUE)) = Len(s) + 1 /\ DOMAIN Append(s, TRUE) = 1..(Len(s) + 1)
    OBVIOUS
  <1>2. DOMAIN Append(s, TRUE) = DOMAIN s \cup {Len(s) + 1} /\ Len(s) + 1 \notin DOMAIN s
    BY <1>1
  <1>3. Append(s, TRUE)[Len(s) + 1] = TRUE /\ \A k \in DOMAIN s : Append(s, TRUE)[k] = s[k]
    BY <1>1
  <1> QED
    BY <1>1, <1>2, <1>3

LEMMA CreateServiceKeepsFew ==
  ASSUME EditorNames, OnceInv, NEW s \in Elsewhere, CreateService(s)
  PROVE  OnceInv'
  <1> DEFINE k == Len(rows[s]) + 1
  <1>1. /\ rows' = [rows EXCEPT ![s] = Append(@, TRUE)] /\ made' = made \cup {<<s, k>>}
        /\ UNCHANGED <<meta, page, enriched>>
    BY DEF CreateService
  <1>2. rows \in [Names -> Seq(BOOLEAN)] /\ s \in Names /\ s \notin Pictured
    BY DEF OnceInv, GoodRows, EditorNames, Names
  <1>3. rows'[s] = Append(rows[s], TRUE) /\ \A n \in Names \ {s} : rows'[n] = rows[n]
    BY <1>1, <1>2
  <1>4. /\ rows[s] \in Seq(BOOLEAN) /\ Append(rows[s], TRUE) \in Seq(BOOLEAN)
        /\ DOMAIN rows'[s] = DOMAIN rows[s] \cup {k} /\ k \notin DOMAIN rows[s]
        /\ {j \in DOMAIN rows'[s] : rows'[s][j]} = Shown(s) \cup {k}
    BY <1>2, <1>3, Appended DEF Shown
  <1>5. rows' \in [Names -> Seq(BOOLEAN)] /\ IsFiniteSet(made')
    <2>1. IsFiniteSet(made')
      BY <1>1, FS_AddElement DEF OnceInv
    <2> QED
      BY <1>1, <1>2, <1>4, <2>1
  <1> HIDE DEF k
  <1>6. made \subseteq made' /\ \A n \in Names : DOMAIN rows[n] \subseteq DOMAIN rows'[n]
    BY <1>1, <1>3, <1>4
  <1>7. \A n \in Own : DOMAIN rows'[n] \ DOMAIN rows[n] \subseteq Made(rows', made', n)
    BY <1>1, <1>3, <1>4 DEF Made, Own
  <1>8. Made(rows', made', s) = Made(rows, made, s) \cup {k} /\ k \notin Made(rows, made, s)
    BY <1>1, <1>4 DEF Made
  <1>9. Few(Shown(s) \cup {k}, rows', made', s)
    <2>1. Few(Shown(s), rows, made, s)
      BY <1>2 DEF OnceInv, GoodRows, Own, Shown
    <2>2. IsFiniteSet(Made(rows, made, s)) /\ Cardinality(Made(rows, made, s)) \in Nat
      BY <1>2, MadeFinite
    <2>3. Cardinality(Made(rows', made', s)) = Cardinality(Made(rows, made, s)) + 1
      BY <1>8, <2>2, FS_AddElement
    <2>4. /\ IsFiniteSet(Shown(s)) /\ Cardinality(Shown(s)) \in Nat
          /\ Cardinality(Shown(s)) <= 1 + Cardinality(Made(rows, made, s))
      BY <2>1, FS_CardinalityType DEF Few
    <2>5. IsFiniteSet(Shown(s) \cup {k}) /\ Cardinality(Shown(s) \cup {k}) <= Cardinality(Shown(s)) + 1
      BY <2>4, FS_AddElement
    <2>6. Cardinality(Shown(s) \cup {k}) \in Nat
      BY <2>5, FS_CardinalityType
    <2> QED
      BY <2>2, <2>3, <2>4, <2>5, <2>6 DEF Few
  <1>10. ASSUME NEW n \in Own PROVE Few({j \in DOMAIN rows'[n] : rows'[n][j]}, rows', made', n)
    <2>1. CASE n = s
      BY <1>4, <1>9, <2>1
    <2>2. CASE n # s
      <3>1. n \in Names /\ rows'[n] = rows[n]
        BY <1>3, <2>2 DEF Own
      <3>2. PICK S : S = Shown(n)
        OBVIOUS
      <3>3. Few(S, rows, made, n)
        BY <3>2 DEF OnceInv, GoodRows, Shown
      <3>4. Grows(rows, made, rows', made')
        BY <1>6 DEF Grows
      <3>5. Few(S, rows', made', n)
        BY <1>2, <1>5, <3>1, <3>3, <3>4, GoodStays
      <3> QED
        BY <3>1, <3>2, <3>5 DEF Shown
    <2> QED
      BY <2>1, <2>2
  <1>11. GoodRows(rows', made', enriched')
    <2>1. ASSUME NEW n \in Pictured PROVE rows'[n] = rows[n]
      BY <1>2, <1>3 DEF EditorNames, Names
    <2> QED
      BY <1>1, <1>5, <1>10, <2>1 DEF GoodRows, OnceInv
  <1> QED
    BY <1>1, <1>5, <1>6, <1>7, <1>11, RowsChange

LEMMA RemoveServiceKeepsFew ==
  ASSUME EditorNames, OnceInv, NEW s \in Elsewhere, NEW k, RemoveService(s, k)
  PROVE  OnceInv'
  <1>1. k \in DOMAIN rows[s] /\ rows' = [rows EXCEPT ![s][k] = FALSE] /\ UNCHANGED <<made, meta, page, enriched>>
    BY DEF RemoveService
  <1>2. rows \in [Names -> Seq(BOOLEAN)] /\ s \in Names /\ s \notin Pictured
    BY DEF OnceInv, GoodRows, EditorNames, Names
  <1>3. rows'[s] = [rows[s] EXCEPT ![k] = FALSE] /\ \A n \in Names \ {s} : rows'[n] = rows[n]
    BY <1>1, <1>2
  <1>4. rows[s] \in Seq(BOOLEAN) /\ rows'[s] \in Seq(BOOLEAN) /\ DOMAIN rows'[s] = DOMAIN rows[s]
    <2>1. rows[s] \in Seq(BOOLEAN)
      BY <1>2
    <2>2. Len(rows[s]) \in Nat /\ rows[s] \in [1..Len(rows[s]) -> BOOLEAN]
      BY <2>1
    <2>3. rows'[s] \in [1..Len(rows[s]) -> BOOLEAN]
      BY <1>3, <2>2
    <2> QED
      BY <2>1, <2>2, <2>3
  <1>5. rows' \in [Names -> Seq(BOOLEAN)]
    BY <1>1, <1>2, <1>3, <1>4
  <1>6. \A n \in Names : DOMAIN rows[n] = DOMAIN rows'[n]
    BY <1>3, <1>4
  <1>7. {j \in DOMAIN rows'[s] : rows'[s][j]} \subseteq Shown(s)
    BY <1>1, <1>3, <1>4 DEF Shown
  <1>8. ASSUME NEW n \in Own PROVE Few({j \in DOMAIN rows'[n] : rows'[n][j]}, rows', made', n)
    <2>1. n \in Names /\ Few(Shown(n), rows, made, n) /\ {j \in DOMAIN rows'[n] : rows'[n][j]} \subseteq Shown(n)
      BY <1>3, <1>7 DEF OnceInv, GoodRows, Shown, Own
    <2>2. PICK S : S = {j \in DOMAIN rows'[n] : rows'[n][j]}
      OBVIOUS
    <2>3. IsFiniteSet(S) /\ Cardinality(S) <= Cardinality(Shown(n))
      BY <2>1, <2>2, FS_Subset DEF Few
    <2>4. Made(rows', made', n) = Made(rows, made, n)
      BY <1>1, <1>6, <2>1 DEF Made
    <2> QED
      BY <1>2, <2>1, <2>2, <2>3, <2>4, FS_CardinalityType, MadeFinite DEF Few
  <1>9. GoodRows(rows', made', enriched')
    <2>1. ASSUME NEW n \in Pictured PROVE rows'[n] = rows[n]
      BY <1>2, <1>3 DEF EditorNames, Names
    <2> QED
      BY <1>1, <1>5, <1>8, <2>1 DEF GoodRows, OnceInv
  <1>10. IsFiniteSet(made')
    BY <1>1 DEF OnceInv
  <1> QED
    BY <1>1, <1>5, <1>6, <1>9, <1>10, RowsChange DEF Own

\* A salon that showed no photos when a redemption looked shows those of its
\* place once more.
LEMMA EnrichPhotosKeepsFew ==
  ASSUME EditorNames, Fits, OnceInv, NEW o \in Redeemers, EnrichPhotos(o)
  PROVE  OnceInv'
  <1>1. /\ rows' = [n \in Names |-> IF n \in Pictured THEN Append(rows[n], TRUE) ELSE rows[n]]
        /\ enriched' = [enriched EXCEPT ![o] = None] /\ UNCHANGED <<made, meta, page>>
        /\ enriched[o] # None /\ enriched[o].step = "bare"
    BY DEF EnrichPhotos
  <1>2. rows \in [Names -> Seq(BOOLEAN)] /\ Pictured \subseteq Names
    BY DEF OnceInv, GoodRows, EditorNames, Names
  <1>3. ASSUME NEW n \in Pictured
        PROVE  /\ rows'[n] \in Seq(BOOLEAN) /\ DOMAIN rows[n] \subseteq DOMAIN rows'[n]
               /\ {k \in DOMAIN rows'[n] : rows'[n][k]} = Shown(n) \cup {Len(rows[n]) + 1}
    <2>1. rows'[n] = Append(rows[n], TRUE) /\ rows[n] \in Seq(BOOLEAN)
      BY <1>1, <1>2
    <2> QED
      BY <2>1, Appended DEF Shown
  <1>4. \A n \in Own : n \in Names /\ rows'[n] = rows[n]
    BY <1>1 DEF Own
  <1>5. ASSUME NEW n \in Names PROVE rows'[n] \in Seq(BOOLEAN) /\ DOMAIN rows[n] \subseteq DOMAIN rows'[n]
    BY <1>2, <1>3, <1>4 DEF Own
  <1>6. rows' \in [Names -> Seq(BOOLEAN)]
    <2>1. rows' = [n \in Names |-> rows'[n]]
      BY <1>1
    <2> QED
      BY <1>5, <2>1
  <1>7. \A n \in Own : Made(rows', made', n) = Made(rows, made, n)
    BY <1>1, <1>4 DEF Made
  <1>8. GoodRows(rows', made', enriched')
    <2>1. Bare(enriched) = Bare(enriched') \cup {o} /\ o \notin Bare(enriched')
      BY <1>1 DEF Bare, Fits
    <2>2. Cardinality(Bare(enriched')) \in Nat /\ Cardinality(Bare(enriched)) = Cardinality(Bare(enriched')) + 1
      BY <2>1, BareFinite, FS_AddElement
    <2>3. ASSUME NEW n \in Pictured
          PROVE  Cardinality({k \in DOMAIN rows'[n] : rows'[n][k]}) + Cardinality(Bare(enriched'))
                   <= Cardinality(Redeemers)
      <3>1. PICK j : {k \in DOMAIN rows'[n] : rows'[n][k]} = Shown(n) \cup {j}
        BY <1>3
      <3>2. IsFiniteSet(Shown(n)) /\ Cardinality(Shown(n)) \in Nat
        BY <1>2, RowsFinite DEF Shown
      <3>3. PICK S : S = Shown(n) \cup {j}
        OBVIOUS
      <3>4. Cardinality(S) \in Nat /\ Cardinality(S) <= Cardinality(Shown(n)) + 1
        BY <3>2, <3>3, FS_AddElement, FS_CardinalityType
      <3>5. Cardinality(Shown(n)) + Cardinality(Bare(enriched)) <= Cardinality(Redeemers)
        BY DEF OnceInv, GoodRows, Shown
      <3>6. Cardinality(Redeemers) \in Nat
        BY BareFinite
      <3>7. Cardinality(S) + Cardinality(Bare(enriched')) <= Cardinality(Redeemers)
        BY <2>2, <3>2, <3>4, <3>5, <3>6
      <3> QED
        BY <3>1, <3>3, <3>7
    <2>4. ASSUME NEW n \in Own PROVE Few({k \in DOMAIN rows'[n] : rows'[n][k]}, rows', made', n)
      BY <1>4, <1>7 DEF OnceInv, GoodRows, Few
    <2> QED
      BY <1>6, <2>3, <2>4 DEF GoodRows
  <1>9. IsFiniteSet(made')
    BY <1>1 DEF OnceInv
  <1> QED
    BY <1>1, <1>4, <1>5, <1>6, <1>8, <1>9, RowsChange

\* What a publication makes of the rows of a name.
LEMMA RowsAfterAre ==
  ASSUME OnceInv, NEW n \in Names, NEW p,
         \A x \in p.draft.entries : x.name = n => n \in Own \/ x.id # New
  PROVE  /\ RowsAfter(n, p) \in Seq(BOOLEAN)
         /\ DOMAIN rows[n] \subseteq DOMAIN RowsAfter(n, p)
         /\ \A k \in DOMAIN RowsAfter(n, p) :
              RowsAfter(n, p)[k] =>
                \/ k \in DOMAIN rows[n] /\ k \in Ids(p.draft, n)
                \/ k \in Shown(n) /\ k \notin p.there[n]
                \/ k = Len(rows[n]) + 1 /\ New \in IdsOf(p.draft, n)
  <1>1. rows[n] \in Seq(BOOLEAN)
    BY DEF OnceInv, GoodRows
  <1> DEFINE s == [k \in DOMAIN rows[n] |-> k \in Ids(p.draft, n) \/ (rows[n][k] /\ k \notin p.there[n])]
             t == IF \E x \in p.draft.entries : x.name = n /\ x.id = New THEN <<TRUE>> ELSE <<>>
  <1>2. /\ Len(rows[n]) \in Nat /\ DOMAIN rows[n] = 1..Len(rows[n])
        /\ s \in Seq(BOOLEAN) /\ Len(s) = Len(rows[n])
        /\ \A k \in DOMAIN rows[n] : s[k] <=> k \in Ids(p.draft, n) \/ (rows[n][k] /\ k \notin p.there[n])
    <2>1. Len(rows[n]) \in Nat /\ DOMAIN rows[n] = 1..Len(rows[n]) /\ \A k \in DOMAIN rows[n] : rows[n][k] \in BOOLEAN
      BY <1>1
    <2>2. \A k \in DOMAIN rows[n] : (k \in Ids(p.draft, n) \/ (rows[n][k] /\ k \notin p.there[n])) \in BOOLEAN
      OBVIOUS
    <2>3. s \in [1..Len(rows[n]) -> BOOLEAN]
      BY <2>1, <2>2
    <2>4. s \in Seq(BOOLEAN) /\ Len(s) = Len(rows[n])
      <3> HIDE DEF s
      <3> QED
        BY <2>1, <2>3
    <2> QED
      BY <2>1, <2>4
  <1>3. t \in Seq(BOOLEAN) /\ (t = <<>> \/ (t = <<TRUE>> /\ New \in IdsOf(p.draft, n)))
    <2>1. <<>> \in Seq(BOOLEAN) /\ <<TRUE>> \in Seq(BOOLEAN)
      OBVIOUS
    <2>2. (\E x \in p.draft.entries : x.name = n /\ x.id = New) <=> New \in IdsOf(p.draft, n)
      BY DEF IdsOf
    <2> QED
      BY <2>1, <2>2
  <1>4. RowsAfter(n, p) = s \o t
    BY DEF RowsAfter
  <1> HIDE DEF s, t
  <1>5. CASE t = <<>>
    <2>1. s \o t = s
      BY <1>2, <1>5
    <2> QED
      BY <1>2, <1>4, <2>1 DEF Shown
  <1>6. CASE t = <<TRUE>> /\ New \in IdsOf(p.draft, n)
    <2>1. /\ s \o t \in Seq(BOOLEAN) /\ DOMAIN (s \o t) = 1..(Len(rows[n]) + 1)
          /\ \A k \in DOMAIN rows[n] : (s \o t)[k] = s[k]
      BY <1>2, <1>6
    <2> QED
      BY <1>2, <1>4, <1>6, <2>1 DEF Shown
  <1> QED
    BY <1>3, <1>5, <1>6

\* Of a name the owner may add: what is shown is in the draft, or was made
\* outside the editor since the rows were read.
LEMMA PublishedFew ==
  ASSUME OnceInv, NEW n \in Own, NEW p, p.there # None, GoodPublication(p, rows, made), NEW S,
         \A k \in S : \/ k \in DOMAIN rows[n] /\ k \in Ids(p.draft, n)
                      \/ k \in Shown(n) /\ k \notin p.there[n]
                      \/ k = Len(rows[n]) + 1 /\ New \in IdsOf(p.draft, n)
  PROVE  Few(S, rows, made, n)
  <1>1. rows \in [Names -> Seq(BOOLEAN)] /\ n \in Names
    BY DEF OnceInv, GoodRows, Own
  <1>2. DOMAIN rows[n] = 1..Len(rows[n]) /\ Len(rows[n]) \in Nat /\ IsFiniteSet(DOMAIN rows[n])
    BY <1>1, RowsFinite
  <1>3. IsFiniteSet(IdsOf(p.draft, n)) /\ Cardinality(IdsOf(p.draft, n)) \in Nat
    BY FS_CardinalityType DEF GoodPublication, GoodDraft, Few
  <1> DEFINE A == DOMAIN rows[n] \cap Ids(p.draft, n)
             D == IF New \in IdsOf(p.draft, n) THEN A \cup {Len(rows[n]) + 1} ELSE A
             C == Made(rows, made, n) \ p.there[n]
  <1>4. IsFiniteSet(D) /\ Cardinality(D) \in Nat /\ Cardinality(D) <= Cardinality(IdsOf(p.draft, n))
    <2>1. A \subseteq IdsOf(p.draft, n) \ {New}
      BY DEF Ids, IdsOf
    <2>2. /\ IsFiniteSet(IdsOf(p.draft, n) \ {New}) /\ Cardinality(IdsOf(p.draft, n) \ {New}) \in Nat
          /\ Cardinality(IdsOf(p.draft, n) \ {New}) =
               IF New \in IdsOf(p.draft, n) THEN Cardinality(IdsOf(p.draft, n)) - 1
               ELSE Cardinality(IdsOf(p.draft, n))
      BY <1>3, FS_RemoveElement, FS_CardinalityType
    <2> HIDE DEF A
    <2>3. IsFiniteSet(A) /\ Cardinality(A) \in Nat /\ Cardinality(A) <= Cardinality(IdsOf(p.draft, n) \ {New})
      BY <2>1, <2>2, FS_Subset, FS_CardinalityType
    <2>4. /\ IsFiniteSet(A \cup {Len(rows[n]) + 1}) /\ Cardinality(A \cup {Len(rows[n]) + 1}) \in Nat
          /\ Cardinality(A \cup {Len(rows[n]) + 1}) <= Cardinality(A) + 1
      <3>1. PICK k : k = Len(rows[n]) + 1
        OBVIOUS
      <3>2. IsFiniteSet(A \cup {k}) /\ Cardinality(A \cup {k}) = IF k \in A THEN Cardinality(A) ELSE Cardinality(A) + 1
        BY <2>3, FS_AddElement
      <3> QED
        BY <2>3, <3>1, <3>2
    <2> QED
      BY <1>3, <2>2, <2>3, <2>4
  <1>5. /\ IsFiniteSet(C) /\ Cardinality(C) \in Nat
        /\ Cardinality(Made(rows, made, n)) \in Nat /\ Cardinality(Made(rows, made, n) \cap p.there[n]) \in Nat
        /\ Cardinality(C) = Cardinality(Made(rows, made, n)) - Cardinality(Made(rows, made, n) \cap p.there[n])
    <2>1. IsFiniteSet(Made(rows, made, n))
      BY <1>1, MadeFinite
    <2>2. Cardinality(C) = Cardinality(Made(rows, made, n)) - Cardinality(Made(rows, made, n) \cap p.there[n])
      BY <2>1, FS_Difference
    <2> QED
      BY <1>1, <2>2, MadeFinite
  <1>6. S \subseteq D \cup C
    <2>1. DOMAIN rows[n] \ p.there[n] \subseteq Made(rows, made, n)
      BY DEF GoodPublication
    <2> QED
      BY <2>1 DEF Shown
  <1>7. Cardinality(IdsOf(p.draft, n)) <= 1 + Cardinality(Made(rows, made, n) \cap p.there[n])
    BY DEF GoodPublication
  <1> HIDE DEF C, D
  <1>8. IsFiniteSet(D \cup C) /\ Cardinality(D \cup C) \in Nat /\ Cardinality(D \cup C) <= Cardinality(D) + Cardinality(C)
    <2>1. IsFiniteSet(D \cap C) /\ Cardinality(D \cap C) \in Nat
      BY <1>4, FS_Intersection, FS_CardinalityType
    <2>2. IsFiniteSet(D \cup C) /\ Cardinality(D \cup C) = Cardinality(D) + Cardinality(C) - Cardinality(D \cap C)
      BY <1>4, <1>5, FS_Union
    <2>3. Cardinality(D \cup C) \in Nat
      BY <2>2, FS_CardinalityType
    <2> QED
      BY <1>4, <1>5, <2>1, <2>2, <2>3
  <1>9. IsFiniteSet(S) /\ Cardinality(S) \in Nat /\ Cardinality(S) <= Cardinality(D \cup C)
    BY <1>6, <1>8, FS_Subset, FS_CardinalityType
  <1> QED
    BY <1>3, <1>4, <1>5, <1>7, <1>8, <1>9 DEF Few

LEMMA PublishCommitKeepsFew ==
  ASSUME EditorNames, Fits, OnceInv, NEW e, Editors = {e}, PublishCommit(e)
  PROVE  OnceInv'
  <1> DEFINE p == page[e].publishing
  <1>1. /\ p # None /\ p.there # None /\ Writable(p) /\ GoodPublication(p, rows, made)
        /\ GoodDraft(p.draft, rows, made)
    BY DEF PublishCommit, OnceInv, GoodPage, GoodPublication
  <1>2. /\ rows' = [n \in Names |-> RowsAfter(n, p)]
        /\ meta' = [draft |-> p.draft, published |-> p.draft.text]
        /\ enriched' = Outdated(enriched) /\ made' = made
    BY DEF PublishCommit, Stored
  <1>3. page'[e] = [form |-> p.draft, saving |-> Late(page[e].saving), publishing |-> None]
    <2>1. page'[e] = [[Overtaken(e) EXCEPT !.publishing = None] EXCEPT !.form = p.draft]
      BY DEF PublishCommit
    <2>2. [Overtaken(e) EXCEPT !.publishing = None] =
            [form |-> page[e].form, saving |-> Late(page[e].saving), publishing |-> None]
      <3>1. PICK f, s, g : Overtaken(e) = [form |-> f, saving |-> s, publishing |-> g]
                           /\ f = page[e].form /\ s = Late(page[e].saving)
        BY OvertakenIs
      <3> QED
        BY <3>1
    <2>3. PICK f, s, d : f = page[e].form /\ s = Late(page[e].saving) /\ d = p.draft
      OBVIOUS
    <2>4. page'[e] = [[form |-> f, saving |-> s, publishing |-> None] EXCEPT !.form = d]
      BY <2>1, <2>2, <2>3
    <2> QED
      BY <2>3, <2>4
  <1>4. Late(page[e].saving) # None => GoodDraft(Late(page[e].saving).draft, rows, made)
    BY OvertakenIs
  <1> HIDE DEF p
  <1>5. rows \in [Names -> Seq(BOOLEAN)] /\ Pictured \subseteq Names
    BY DEF OnceInv, GoodRows, EditorNames, Names
  <1>6. ASSUME NEW n \in Names
        PROVE  /\ rows'[n] \in Seq(BOOLEAN) /\ DOMAIN rows[n] \subseteq DOMAIN rows'[n]
               /\ \A k \in DOMAIN rows'[n] :
                    rows'[n][k] =>
                      \/ k \in DOMAIN rows[n] /\ k \in Ids(p.draft, n)
                      \/ k \in Shown(n) /\ k \notin p.there[n]
                      \/ k = Len(rows[n]) + 1 /\ New \in IdsOf(p.draft, n)
    <2>1. rows'[n] = RowsAfter(n, p)
      BY <1>2
    <2>2. \A x \in p.draft.entries : x.name = n => n \in Own \/ x.id # New
      BY <1>1 DEF GoodDraft, Own
    <2> QED
      BY <2>1, <2>2, RowsAfterAre
  <1>7. rows' \in [Names -> Seq(BOOLEAN)]
    <2>1. rows' = [n \in Names |-> rows'[n]]
      BY <1>2
    <2> QED
      BY <1>6, <2>1
  <1>8. Grows(rows, made, rows', made')
    BY <1>2, <1>6 DEF Grows
  <1>9. ASSUME NEW n \in Own PROVE Few({k \in DOMAIN rows'[n] : rows'[n][k]}, rows', made', n)
    <2>1. PICK S : S = {k \in DOMAIN rows'[n] : rows'[n][k]}
      OBVIOUS
    <2>2. n \in Names
      BY DEF Own
    <2>3. Few(S, rows, made, n)
      BY <1>1, <1>6, <2>1, <2>2, PublishedFew
    <2>4. Few(S, rows', made', n)
      BY <1>5, <1>7, <1>8, <2>2, <2>3, GoodStays
    <2> QED
      BY <2>1, <2>4
  <1>10. ASSUME NEW n \in Pictured PROVE {k \in DOMAIN rows'[n] : rows'[n][k]} \subseteq Shown(n)
    <2>1. n \in Names /\ n \in Photos
      BY <1>5 DEF EditorNames
    <2>2. New \notin IdsOf(p.draft, n)
      BY <1>1 DEF GoodDraft, IdsOf
    <2>3. ASSUME NEW k \in DOMAIN rows[n], k \in Ids(p.draft, n) PROVE k \in Shown(n)
      <3>1. PICK x \in p.draft.entries : x.name = n /\ x.id = k /\ k # New
        BY <2>3 DEF Ids
      <3>2. rows[x.name][x.id]
        BY <1>1, <2>1, <3>1 DEF Writable
      <3> QED
        BY <3>1, <3>2 DEF Shown
    <2> QED
      BY <1>6, <2>1, <2>2, <2>3
  <1>11. GoodRows(rows', made', enriched')
    <2>1. ASSUME NEW n \in Pictured
          PROVE  Cardinality({k \in DOMAIN rows'[n] : rows'[n][k]}) + Cardinality(Bare(enriched'))
                   <= Cardinality(Redeemers)
      <3>1. Cardinality(Shown(n)) + Cardinality(Bare(enriched)) <= Cardinality(Redeemers)
        BY DEF OnceInv, GoodRows, Shown
      <3>2. IsFiniteSet(Shown(n)) /\ Cardinality(Shown(n)) \in Nat
        BY <1>5, RowsFinite DEF Shown
      <3>3. PICK S : S = {k \in DOMAIN rows'[n] : rows'[n][k]}
        OBVIOUS
      <3>4. Cardinality(S) \in Nat /\ Cardinality(S) <= Cardinality(Shown(n))
        BY <1>10, <3>2, <3>3, FS_Subset, FS_CardinalityType
      <3>5. Bare(enriched') \subseteq Bare(enriched)
        BY <1>2, LateBare DEF Fits
      <3>6. /\ Cardinality(Bare(enriched)) \in Nat /\ Cardinality(Bare(enriched')) \in Nat
            /\ Cardinality(Bare(enriched')) <= Cardinality(Bare(enriched)) /\ Cardinality(Redeemers) \in Nat
        BY <3>5, BareFinite, FS_Subset
      <3>7. Cardinality(S) + Cardinality(Bare(enriched')) <= Cardinality(Redeemers)
        BY <3>1, <3>2, <3>4, <3>6
      <3> QED
        BY <3>3, <3>7
    <2> QED
      BY <1>7, <1>9, <2>1 DEF GoodRows
  <1>12. PICK r, m, s, q, d : r = rows /\ m = made /\ s = rows' /\ q = made' /\ d = p.draft
    OBVIOUS
  <1>13. GoodDraft(d, s, q)
    BY <1>1, <1>5, <1>7, <1>8, <1>12, GoodStays
  <1>14. Late(page[e].saving) # None => GoodDraft(Late(page[e].saving).draft, s, q)
    <2>1. PICK c : c = Late(page[e].saving).draft
      OBVIOUS
    <2>2. GoodDraft(c, rows, made) => GoodDraft(c, s, q)
      BY <1>5, <1>7, <1>8, <1>12, GoodStays
    <2> QED
      BY <1>4, <2>1, <2>2
  <1>15. GoodPage(page'[e], s, q)
    BY <1>3, <1>12, <1>13, <1>14 DEF GoodPage
  <1>16. GoodMeta(meta', s, q)
    BY <1>2, <1>12, <1>13 DEF GoodMeta
  <1>17. IsFiniteSet(made')
    BY <1>2 DEF OnceInv
  <1> QED
    BY <1>11, <1>12, <1>15, <1>16, <1>17 DEF OnceInv

-----------------------------------------------------------------------------
(* What the invariant gives.                                               *)

LEMMA OnceStarts == ASSUME EditorNames, Init PROVE OnceInv
  <1>1. ASSUME NEW n \in Names
        PROVE  /\ rows[n] \in Seq(BOOLEAN)
               /\ n \in Photos => {k \in DOMAIN rows[n] : rows[n][k]} = {}
               /\ {k \in DOMAIN rows[n] : rows[n][k]} = {} \/ {k \in DOMAIN rows[n] : rows[n][k]} = {1}
    <2>1. rows[n] = IF n \in Photos THEN <<>> ELSE <<TRUE>>
      BY DEF Init
    <2>2. <<>> \in Seq(BOOLEAN) /\ <<TRUE>> \in Seq(BOOLEAN)
      OBVIOUS
    <2>3. DOMAIN <<>> = {} /\ DOMAIN <<TRUE>> = {1} /\ <<TRUE>>[1] = TRUE
      OBVIOUS
    <2> QED
      BY <2>1, <2>2, <2>3
  <1>2. rows \in [Names -> Seq(BOOLEAN)]
    BY <1>1 DEF Init
  <1>3. /\ \A n \in Names : Cardinality({k \in DOMAIN rows[n] : rows[n][k]}) <= 1
        /\ \A n \in Names : IsFiniteSet({k \in DOMAIN rows[n] : rows[n][k]})
    <2>1. Cardinality({}) = 0 /\ IsFiniteSet({}) /\ Cardinality({1}) = 1 /\ IsFiniteSet({1})
      BY FS_EmptySet, FS_Singleton
    <2>2. ASSUME NEW n \in Names, NEW S, S = {k \in DOMAIN rows[n] : rows[n][k]}
          PROVE  IsFiniteSet(S) /\ Cardinality(S) <= 1
      <3>1. S = {} \/ S = {1}
        BY <1>1, <2>2
      <3>2. CASE S = {}
        BY <2>1, <3>2
      <3>3. CASE S = {1}
        BY <2>1, <3>3
      <3> QED
        BY <3>1, <3>2, <3>3
    <2> QED
      BY <2>2
  <1>4. ASSUME NEW n \in Own PROVE Few({k \in DOMAIN rows[n] : rows[n][k]}, rows, made, n)
    <2>1. n \in Names
      BY DEF Own
    <2>2. Cardinality(Made(rows, made, n)) \in Nat
      BY <1>2, <2>1, MadeFinite
    <2>3. PICK S : S = {k \in DOMAIN rows[n] : rows[n][k]}
      OBVIOUS
    <2>4. IsFiniteSet(S) /\ Cardinality(S) \in Nat /\ Cardinality(S) <= 1
      BY <1>3, <2>1, <2>3, FS_CardinalityType
    <2> QED
      BY <2>2, <2>3, <2>4 DEF Few
  <1>5. GoodRows(rows, made, enriched)
    <2>1. Bare(enriched) = {}
      BY DEF Init, Bare
    <2>2. ASSUME NEW n \in Pictured
          PROVE  Cardinality({k \in DOMAIN rows[n] : rows[n][k]}) + Cardinality(Bare(enriched))
                   <= Cardinality(Redeemers)
      <3>1. {k \in DOMAIN rows[n] : rows[n][k]} = {}
        BY <1>1 DEF EditorNames, Names
      <3>2. PICK S : S = {}
        OBVIOUS
      <3>3. Cardinality(S) = 0 /\ Cardinality(Redeemers) \in Nat
        BY <3>2, BareFinite, FS_EmptySet
      <3>4. Cardinality(S) + Cardinality(S) <= Cardinality(Redeemers)
        BY <3>3
      <3> QED
        BY <2>1, <3>1, <3>2, <3>4
    <2> QED
      BY <1>2, <1>4, <2>2 DEF GoodRows
  <1>6. IsFiniteSet(made) /\ GoodMeta(meta, rows, made)
    BY FS_EmptySet DEF Init, GoodMeta
  <1>7. \A e \in Editors : GoodPage(page[e], rows, made)
    BY DEF Init, GoodPage
  <1> QED
    BY <1>5, <1>6, <1>7 DEF OnceInv

LEMMA OnceKeeps ==
  ASSUME EditorNames, NEW e, Editors = {e}, Fits, OnceInv, Next
  PROVE  OnceInv'
  <1>1. ASSUME NEW s \in Elsewhere, CreateService(s) \/ \E k \in 1..MaxRows : RemoveService(s, k) PROVE OnceInv'
    BY <1>1, CreateServiceKeepsFew, RemoveServiceKeepsFew
  <1>2. CASE \E r \in Redeemers : Enrich(r)
    BY <1>2, EnrichKeepsFew, EnrichPhotosKeepsFew
  <1>3. CASE \E t \in Texts : UpdateSalon(t)
    BY <1>3, UpdateSalonKeepsFew
  <1>4. CASE SaveCommit(e)
    BY <1>4, SaveCommitKeepsFew
  <1>5. CASE PublishCommit(e)
    BY <1>5, PublishCommitKeepsFew
  <1>6. CASE \/ Fetch(e)
             \/ \E n \in Editable : AddEntry(e, n)
             \/ \E x \in page[e].form.entries : RemoveEntry(e, x) \/ \E s \in page[e].form.entries : Tick(e, x, s)
             \/ \E t \in Texts : Say(e, t)
             \/ Save(e)
             \/ Publish(e)
             \/ PublishRead(e)
             \/ Fail(e)
    BY <1>6, PageKeepsFew
  <1> QED
    BY <1>1, <1>2, <1>3, <1>4, <1>5, <1>6 DEF Next

LEMMA OnceCounts == ASSUME EditorNames, OnceInv PROVE ShownOnce
  <1>1. rows \in [Names -> Seq(BOOLEAN)]
    BY DEF OnceInv, GoodRows
  <1>2. ASSUME NEW n \in Names \ Pictured PROVE Cardinality(Shown(n)) <= 1 + Cardinality({p \in made : p[1] = n})
    <2> DEFINE P == {p \in made : p[1] = n}
               Q == {p \in P : p[2] \in DOMAIN rows[n] /\ <<n, p[2]>> \in made}
               f == [p \in Q |-> p[2]]
    <2>1. IsFiniteSet(P) /\ Cardinality(P) \in Nat
      BY FS_Subset, FS_CardinalityType DEF OnceInv
    <2>2. IsFiniteSet(Q) /\ Cardinality(Q) \in Nat /\ Cardinality(Q) <= Cardinality(P)
      <3> HIDE DEF P
      <3>1. Q \subseteq P
        OBVIOUS
      <3> HIDE DEF Q
      <3> QED
        BY <2>1, <3>1, FS_Subset, FS_CardinalityType
    <2>3. f \in Surjection(Q, Made(rows, made, n))
      <3>1. ASSUME NEW k \in Made(rows, made, n) PROVE <<n, k>> \in Q /\ f[<<n, k>>] = k
        BY <3>1 DEF Made
      <3>2. f \in [Q -> Made(rows, made, n)]
        BY DEF Made
      <3> HIDE DEF f, Q
      <3> QED
        BY <3>1, <3>2 DEF Surjection
    <2> HIDE DEF f, P, Q
    <2>4. Cardinality(Made(rows, made, n)) <= Cardinality(Q)
      BY <2>2, <2>3, FS_Surjection
    <2>5. Cardinality(Made(rows, made, n)) \in Nat
      BY <1>1, MadeFinite
    <2>6. IsFiniteSet(Shown(n)) /\ Cardinality(Shown(n)) \in Nat
      BY <1>1, RowsFinite DEF Shown
    <2>7. Cardinality(Shown(n)) <= 1 + Cardinality(Made(rows, made, n))
      BY <2>5, <2>6 DEF OnceInv, GoodRows, Own, Few, Shown
    <2>8. Cardinality(Shown(n)) <= 1 + Cardinality(P)
      BY <2>1, <2>2, <2>4, <2>5, <2>6, <2>7
    <2> QED
      BY <2>8 DEF P
  <1>3. ASSUME NEW n \in Pictured PROVE Cardinality(Shown(n)) <= Cardinality(Redeemers)
    <2>1. n \in Names
      BY DEF EditorNames, Names
    <2>2. Cardinality(Shown(n)) \in Nat
      BY <1>1, <2>1, RowsFinite DEF Shown
    <2>3. Cardinality(Bare(enriched)) \in Nat /\ Cardinality(Redeemers) \in Nat
      BY BareFinite
    <2>4. Cardinality(Shown(n)) + Cardinality(Bare(enriched)) <= Cardinality(Redeemers)
      BY DEF OnceInv, GoodRows, Shown
    <2> QED
      BY <2>2, <2>3, <2>4
  <1> QED
    BY <1>2, <1>3 DEF ShownOnce

\* With the editor on one page, visitors see one row of a name and at most one
\* more for each row made outside the editor (publishDraft), and a picture of the
\* salon's place as often as there are redemptions at once; whatever the names, as
\* long as owners do not add the pictures of the place themselves.
THEOREM ShownStaysOnce ==
  ASSUME EditorNames
  PROVE  Spec => []ShownOnce
  <1>1. CASE Cardinality(Editors) # 1
    <2>1. ShownOnce
      BY <1>1 DEF ShownOnce
    <2> QED
      BY <2>1, PTL
  <1>2. CASE Cardinality(Editors) = 1
    <2>1. PICK e : Editors = {e}
      BY <1>2, FS_Singleton DEF EditorNames
    <2>2. Init => IInv /\ OnceInv
      BY InitHolds, OnceStarts
    <2>3. IInv /\ OnceInv /\ [Next]_vars => (IInv /\ OnceInv)'
      <3> SUFFICES ASSUME IInv, OnceInv, [Next]_vars PROVE IInv' /\ OnceInv'
        OBVIOUS
      <3>1. IInv'
        BY NextHolds
      <3>2. CASE Next
        BY <2>1, <3>1, <3>2, OnceKeeps DEF IInv
      <3>3. CASE UNCHANGED vars
        <4>1. UNCHANGED <<rows, made, meta, page, enriched>>
          BY <3>3 DEF vars
        <4>2. GoodMeta(meta', rows, made) /\ \A i \in Editors : GoodPage(page'[i], rows, made)
          BY <4>1 DEF OnceInv
        <4>3. enriched' = enriched /\ rows' = rows /\ made' = made
          BY <4>1
        <4>4. OnceInv'
          BY <4>2, <4>3, Zenon, TablesStay
        <4> QED
          BY <3>1, <4>4
      <3> QED
        BY <3>1, <3>2, <3>3
    <2>4. OnceInv => ShownOnce
      BY OnceCounts
    <2> QED
      BY <2>2, <2>3, <2>4, PTL DEF Spec
  <1> QED
    BY <1>1, <1>2
=============================================================================
