---------------------------- MODULE ReviewsProofs ----------------------------
(***************************************************************************)
(* That masters and salons show the rating of their reviews, for every set *)
(* of bookings, ratings and requests.                                      *)
(*                                                                         *)
(* RatingsTold speaks of subjects nobody is about to write.  It is carried *)
(* by what a request has counted: as long as a request is alone with a     *)
(* subject it really is the only one about it (AloneIsAlone), what it      *)
(* found is the subject's rating (FoundIsRight), and a subject that is not *)
(* in doubt is written only by a request that is alone with it             *)
(* (OthersAreInDoubt).  The redemption of a code writes a salon that is in *)
(* doubt from then on, or what is there.                                   *)
(***************************************************************************)
EXTENDS Reviews, FiniteSetTheorems, TLAPS

\* The shape of the tables and of the requests in flight.
Fits ==
  /\ DOMAIN req = Handlers
  /\ DOMAIN told = Subjects
  /\ DOMAIN review = Bookings
  /\ \A h \in Handlers :
       /\ req[h].step \in {"create", "delete"} => req[h].booking \in Bookings
       /\ req[h].step \in {"asked", "enriched"} =>
            \E s \in Subjects : \E r : req[h] = [step |-> req[h].step, salon |-> s, seen |-> r]
       /\ req[h].step = "count" =>
            /\ req[h] = [step |-> "count", found |-> req[h].found, left |-> req[h].left,
                         alone |-> req[h].alone]
            /\ req[h].left \subseteq Subjects

AloneIsAlone ==
  \A s \in Subjects : \A h \in Recalculating(s) :
    s \in req[h].alone => Recalculating(s) = {h}

FoundIsRight ==
  \A s \in Subjects : \A h \in Recalculating(s) :
    s \in req[h].alone /\ s \in DOMAIN req[h].found => req[h].found[s] = Aggregate(s)

OthersAreInDoubt ==
  \A s \in Subjects \ doubt : \A h \in Recalculating(s) : s \in req[h].alone

IInv == Fits /\ AloneIsAlone /\ FoundIsRight /\ OthersAreInDoubt /\ RatingsTold

-----------------------------------------------------------------------------
(* What the operators say.                                                 *)

LEMMA ConcernedAreSubjects == \A b \in Bookings : Concerned(b) \subseteq Subjects
  BY DEF Concerned, Subjects

\* No rating at all.
LEMMA NoTotals ==
  ASSUME NEW f, DOMAIN f = {}
  PROVE  Totals(f) = [count |-> 0, sum |-> 0]
  <1> DEFINE Pick(s) == CHOOSE x \in s : TRUE
             Steps(g) == [s \in SUBSET {} |-> IF s = {} THEN 0 ELSE f[Pick(s)] + g[s \ {Pick(s)}]]
             sum == MapThenSumSet(LAMBDA b : f[b], {})
             none == [s \in SUBSET {} |-> 0]
  <1>1. PICK it : it = (CHOOSE g : g = Steps(g)) /\ sum = it[{}]
    BY DEF MapThenSumSet, MapThenFoldSet
  <1>2. none = Steps(none)
    OBVIOUS
  <1>3. it = Steps(it)
    <2> HIDE DEF Steps
    <2>1. \E g : g = Steps(g)
      BY <1>2
    <2> QED
      BY <1>1, <2>1
  <1>4. it[{}] = 0
    BY <1>3
  <1>5. Cardinality({}) = 0
    BY FS_EmptySet
  <1>6. sum = 0
    BY <1>1, <1>4
  <1> QED
    BY <1>5, <1>6 DEF Totals

\* A review counts for nobody but the master and the salon of its visit.
LEMMA OthersRated ==
  ASSUME NEW b \in Bookings, NEW s \in Subjects, s \notin Concerned(b), None \notin Subjects,
         \A a \in Bookings \ {b} : review'[a] = review[a]
  PROVE  Aggregate(s)' = Aggregate(s)
  <1>1. s \notin {MasterOf[b], SalonOf[b]}
    BY DEF Concerned
  <1>2. Rated(s)' = Rated(s) /\ b \notin Rated(s)
    BY <1>1 DEF Rated
  <1>3. [a \in Rated(s) |-> review[a].rating]' = [a \in Rated(s) |-> review[a].rating]
    BY <1>2 DEF Rated
  <1> QED
    BY <1>3 DEF Aggregate

LEMMA SameReviews == ASSUME review' = review, NEW s PROVE Aggregate(s)' = Aggregate(s)
  BY DEF Aggregate, Rated

-----------------------------------------------------------------------------
LEMMA InitHolds == Init => IInv
  <1> SUFFICES ASSUME Init PROVE IInv
    OBVIOUS
  <1>1. \A h \in Handlers : req[h].step = "idle"
    BY DEF Init, Idle
  <1>2. \A s : Recalculating(s) = {}
    BY <1>1 DEF Recalculating
  <1>3. Fits
    BY <1>1 DEF Fits, Init
  <1>4. \A s \in Subjects : Aggregate(s) = [count |-> 0, sum |-> 0]
    <2> TAKE s \in Subjects
    <2>1. Rated(s) = {}
      BY DEF Rated, Init
    <2>2. DOMAIN [b \in Rated(s) |-> review[b].rating] = {}
      BY <2>1
    <2> QED
      BY <2>2, NoTotals DEF Aggregate
  <1>5. RatingsTold
    BY <1>4 DEF RatingsTold, Init, Unrated
  <1> QED
    BY <1>2, <1>3, <1>5 DEF IInv, AloneIsAlone, FoundIsRight, OthersAreInDoubt

\* A step that begins a request, ends one that has changed nothing, or writes
\* what is in doubt then.
LEMMA QuietKeeps ==
  ASSUME IInv, NEW h \in Handlers, req[h].step # "count",
         NEW r, req' = [req EXCEPT ![h] = r], r.step # "count",
         r.step \in {"create", "delete"} => r.booking \in Bookings,
         r.step \in {"asked", "enriched"} =>
           \E s \in Subjects : \E x : r = [step |-> r.step, salon |-> s, seen |-> x],
         review' = review, doubt \subseteq doubt',
         DOMAIN told' = Subjects, \A s \in Subjects \ doubt' : told'[s] = told[s]
  PROVE  IInv'
  <1>1. \A i \in Handlers : i # h => req'[i] = req[i]
    BY DEF IInv, Fits
  <1>2. req'[h] = r /\ DOMAIN req' = Handlers
    BY DEF IInv, Fits
  <1>3. Fits'
    BY <1>1, <1>2 DEF IInv, Fits
  <1>4. \A s : Recalculating(s)' = Recalculating(s)
    BY <1>1, <1>2 DEF Recalculating
  <1>5. \A s : \A i \in Recalculating(s) : req'[i] = req[i]
    BY <1>1 DEF Recalculating
  <1>6. \A s : Aggregate(s)' = Aggregate(s)
    BY SameReviews
  <1>7. AloneIsAlone'
    BY <1>4, <1>5 DEF IInv, AloneIsAlone
  <1>8. FoundIsRight'
    BY <1>4, <1>5, <1>6 DEF IInv, FoundIsRight
  <1>9. OthersAreInDoubt'
    BY <1>4, <1>5 DEF IInv, OthersAreInDoubt
  <1>10. RatingsTold'
    BY <1>4, <1>6 DEF IInv, RatingsTold
  <1> QED
    BY <1>3, <1>7, <1>8, <1>9, <1>10 DEF IInv

\* A change of the review of b, by h: of what it concerns, nobody is alone with
\* what somebody else is about to write.
LEMMA ChangedKeeps ==
  ASSUME IInv, None \notin Subjects, NEW h \in Handlers, req[h].step # "count",
         NEW b \in Bookings, Changed(h, b), told' = told, DOMAIN review' = Bookings,
         \A a \in Bookings \ {b} : review'[a] = review[a]
  PROVE  IInv'
  <1> DEFINE shared == {s \in Concerned(b) : Recalculating(s) # {}}
             fresh == [step |-> "count", found |-> [s \in {} |-> 0], left |-> Concerned(b),
                       alone |-> Concerned(b) \ shared]
  <1>1. DOMAIN req' = Handlers /\ req'[h] = fresh /\ doubt' = doubt \cup shared
    BY DEF Changed
  <1>2. \A i \in Handlers \ {h} : req'[i] = req[i] \/ req'[i] = [req[i] EXCEPT !.alone = @ \ shared]
    BY DEF Changed
  <1>3. \A i \in Handlers \ {h} : req[i].step = "count" =>
          req'[i] = [step |-> "count", found |-> req[i].found, left |-> req[i].left,
                     alone |-> req'[i].alone]
          /\ req'[i].alone \in {req[i].alone, req[i].alone \ shared}
    <2> TAKE i \in Handlers \ {h}
    <2> HAVE req[i].step = "count"
    <2>1. req[i] = [step |-> "count", found |-> req[i].found, left |-> req[i].left,
                    alone |-> req[i].alone]
      BY DEF IInv, Fits
    <2>2. CASE req'[i] = req[i]
      BY <2>1, <2>2
    <2>3. CASE req'[i] = [req[i] EXCEPT !.alone = @ \ shared]
      BY <2>1, <2>3
    <2> QED
      BY <1>2, <2>2, <2>3
  <1>4. \A i \in Handlers \ {h} : req[i].step # "count" => req'[i] = req[i]
    BY DEF Changed, Recalculating
  <1>same. \A i \in Handlers \ {h} :
          /\ req'[i].step = "count" <=> req[i].step = "count"
          /\ req[i].step = "count" => req'[i].left = req[i].left /\ req'[i].found = req[i].found
    <2> TAKE i \in Handlers \ {h}
    <2>1. CASE req[i].step = "count"
      <3>1. req'[i] = [step |-> "count", found |-> req[i].found, left |-> req[i].left,
                       alone |-> req'[i].alone]
        BY <1>3, <2>1
      <3> QED
        BY <2>1, <3>1
    <2>2. CASE req[i].step # "count"
      BY <1>4, <2>2
    <2> QED
      BY <2>1, <2>2
  <1>5. \A s : \A i \in Handlers \ {h} : i \in Recalculating(s)' <=> i \in Recalculating(s)
    BY <1>same DEF Recalculating
  <1>6. \A s : h \notin Recalculating(s) /\ (h \in Recalculating(s)' <=> s \in Concerned(b))
    BY <1>1 DEF Recalculating
  <1>7. \A s : \A i \in Recalculating(s) : s \in shared => s \notin req'[i].alone
    BY <1>6 DEF Changed, Recalculating
  <1> HIDE DEF shared
  <1>8. \A s : shared \subseteq Concerned(b) /\ (s \in Concerned(b) \ shared => Recalculating(s) = {})
               /\ (s \in shared => Recalculating(s) # {})
    BY DEF shared
  <1>9. \A s \in Subjects \ Concerned(b) : Aggregate(s)' = Aggregate(s)
    BY OthersRated
  <1>10. Concerned(b) \subseteq Subjects
    BY ConcernedAreSubjects
  <1>11. Fits'
    <2>1. \A i \in Handlers : req'[i].step \in {"create", "delete"} => req'[i].booking \in Bookings
      BY <1>1, <1>3, <1>4 DEF IInv, Fits
    <2>2. \A i \in Handlers : req'[i].step = "count" =>
            /\ req'[i] = [step |-> "count", found |-> req'[i].found, left |-> req'[i].left,
                          alone |-> req'[i].alone]
            /\ req'[i].left \subseteq Subjects
      BY <1>1, <1>3, <1>4, <1>10 DEF IInv, Fits
    <2>3. \A i \in Handlers : req'[i].step \in {"asked", "enriched"} =>
            \E s \in Subjects : \E r : req'[i] = [step |-> req'[i].step, salon |-> s, seen |-> r]
      BY <1>1, <1>3, <1>4 DEF IInv, Fits
    <2> QED
      BY <1>1, <2>1, <2>2, <2>3 DEF IInv, Fits
  <1>12. ASSUME NEW s \in Subjects, NEW i \in Recalculating(s)', s \in req'[i].alone
         PROVE  /\ Recalculating(s)' = {i}
                /\ s \in DOMAIN req'[i].found => req'[i].found[s] = Aggregate(s)'
    <2>1. i \in Handlers
      BY <1>12 DEF Recalculating
    <2>2. CASE i = h
      <3>1. Recalculating(s) = {}
        BY <1>1, <1>8, <1>12, <2>2
      <3>2. Recalculating(s)' \subseteq Handlers
        BY DEF Recalculating
      <3> QED
        BY <1>1, <1>5, <1>12, <2>2, <3>1, <3>2
    <2>3. CASE i # h
      <3>1. i \in Recalculating(s) /\ s \in req[i].alone
        BY <1>3, <1>4, <1>5, <1>12, <2>1, <2>3 DEF Recalculating
      <3>2. s \notin Concerned(b)
        BY <1>7, <1>8, <1>12, <3>1
      <3>3. Recalculating(s)' = Recalculating(s)
        BY <1>5, <1>6, <3>2 DEF Recalculating
      <3>4. req'[i].found = req[i].found
        BY <1>same, <2>1, <2>3, <3>1 DEF Recalculating
      <3> QED
        BY <1>9, <3>1, <3>2, <3>3, <3>4 DEF IInv, AloneIsAlone, FoundIsRight
    <2> QED
      BY <2>2, <2>3
  <1>13. ASSUME NEW s \in Subjects, s \notin doubt', NEW i \in Recalculating(s)'
         PROVE  s \in req'[i].alone
    <2>1. s \notin shared /\ s \notin doubt
      BY <1>1, <1>13
    <2>2. CASE i = h
      BY <1>1, <1>6, <1>13, <2>1, <2>2
    <2>3. CASE i # h
      <3>1. i \in Handlers /\ i \in Recalculating(s)
        BY <1>5, <1>13, <2>3 DEF Recalculating
      <3>2. s \in req[i].alone
        BY <2>1, <3>1 DEF IInv, OthersAreInDoubt
      <3> QED
        BY <1>3, <2>1, <2>3, <3>1, <3>2 DEF Recalculating
    <2> QED
      BY <2>2, <2>3
  <1>14. RatingsTold'
    <2> SUFFICES ASSUME NEW s \in Subjects, s \notin doubt', Recalculating(s)' = {}
                 PROVE  told'[s] = Aggregate(s)'
      BY DEF RatingsTold
    <2>1. s \notin Concerned(b)
      BY <1>6
    <2>2. Recalculating(s) = {}
      BY <1>5, <1>6 DEF Recalculating
    <2> QED
      BY <1>1, <1>9, <2>1, <2>2 DEF IInv, RatingsTold
  <1> QED
    BY <1>11, <1>12, <1>13, <1>14 DEF IInv, AloneIsAlone, FoundIsRight, OthersAreInDoubt

LEMMA CountKeeps ==
  ASSUME IInv, NEW h \in Handlers, NEW c \in Subjects, Count(h, c)
  PROVE  IInv'
  <1> DEFINE found == [t \in DOMAIN req[h].found \cup {c} |->
                         IF t = c THEN Aggregate(c) ELSE req[h].found[t]]
  <1>1. req[h] = [step |-> "count", found |-> req[h].found, left |-> req[h].left,
                  alone |-> req[h].alone] /\ req[h].left \subseteq Subjects
    BY DEF IInv, Fits, Count
  <1>2. req' = [req EXCEPT ![h] = [req[h] EXCEPT !.found = found]]
    BY DEF Count, Continue
  <1>3. req'[h] = [step |-> "count", found |-> found, left |-> req[h].left, alone |-> req[h].alone]
    BY <1>1, <1>2 DEF IInv, Fits
  <1>4. DOMAIN req' = Handlers /\ \A i \in Handlers \ {h} : req'[i] = req[i]
    BY <1>2 DEF IInv, Fits
  <1>5. \A s : Recalculating(s)' = Recalculating(s)
    BY <1>1, <1>3, <1>4 DEF Recalculating
  <1>6. \A s : Aggregate(s)' = Aggregate(s)
    BY SameReviews DEF Count
  <1>7. \A i \in Handlers : req'[i].alone = req[i].alone
    BY <1>3, <1>4
  <1>8. \A s : Recalculating(s) \subseteq Handlers
    BY DEF Recalculating
  <1>9. Fits'
    BY <1>1, <1>3, <1>4 DEF IInv, Fits, Count
  <1>10. AloneIsAlone'
    BY <1>5, <1>7, <1>8 DEF IInv, AloneIsAlone
  <1>11. FoundIsRight'
    <2> SUFFICES ASSUME NEW s \in Subjects, NEW i \in Recalculating(s), s \in req[i].alone,
                        s \in DOMAIN req'[i].found
                 PROVE  req'[i].found[s] = Aggregate(s)
      BY <1>5, <1>6, <1>7, <1>8 DEF FoundIsRight
    <2>1. CASE i = h /\ s = c
      BY <1>3, <2>1
    <2>2. CASE i = h /\ s # c
      <3>1. s \in DOMAIN req[h].found /\ req'[h].found[s] = req[h].found[s]
        BY <1>3, <2>2
      <3> QED
        BY <2>2, <3>1 DEF IInv, FoundIsRight
    <2>3. CASE i # h
      BY <1>4, <1>8, <2>3 DEF IInv, FoundIsRight
    <2> QED
      BY <2>1, <2>2, <2>3
  <1>12. OthersAreInDoubt'
    BY <1>5, <1>7, <1>8 DEF IInv, OthersAreInDoubt, Count
  <1>13. RatingsTold'
    BY <1>5, <1>6 DEF IInv, RatingsTold, Count
  <1> QED
    BY <1>9, <1>10, <1>11, <1>12, <1>13 DEF IInv

\* What a request alone with a subject writes is the subject's rating.
LEMMA WriteKeeps ==
  ASSUME IInv, NEW h \in Handlers, NEW w \in Subjects, Write(h, w)
  PROVE  IInv'
  <1> DEFINE last == req[h].left = {w}
  <1>1. /\ req[h].step = "count" /\ req[h].left \subseteq Subjects
        /\ req[h] = [step |-> "count", found |-> req[h].found, left |-> req[h].left,
                     alone |-> req[h].alone]
    BY DEF IInv, Fits, Write
  <1>2. w \in req[h].left /\ w \in DOMAIN req[h].found
    BY DEF Write, Turn
  <1>3. h \in Recalculating(w)
    BY <1>1, <1>2 DEF Recalculating
  <1>4. \/ last /\ req'[h] = Idle
        \/ ~last /\ req'[h] = [step |-> "count", found |-> req[h].found,
                               left |-> req[h].left \ {w}, alone |-> req[h].alone]
    BY <1>1 DEF IInv, Fits, Write, Continue
  <1>5. DOMAIN req' = Handlers /\ \A i \in Handlers \ {h} : req'[i] = req[i]
    BY DEF IInv, Fits, Write, Continue
  <1>6. \A s : \A i \in Handlers \ {h} : i \in Recalculating(s)' <=> i \in Recalculating(s)
    BY <1>5 DEF Recalculating
  <1>7. \A s : h \in Recalculating(s)' <=> h \in Recalculating(s) /\ s # w
    BY <1>1, <1>4 DEF Recalculating, Idle
  <1>8. \A s : Recalculating(s) \subseteq Handlers /\ Recalculating(s)' \subseteq Handlers
    BY DEF Recalculating
  <1>9. \A s : \A i \in Recalculating(s)' : req'[i].alone = req[i].alone /\ req'[i].found = req[i].found
    BY <1>1, <1>4, <1>5, <1>8 DEF Recalculating, Idle
  <1>10. \A s : Aggregate(s)' = Aggregate(s)
    BY SameReviews DEF Write
  <1>11. \A s \in Subjects \ {w} : Recalculating(s)' = Recalculating(s)
    BY <1>6, <1>7, <1>8
  <1>12. Recalculating(w)' = Recalculating(w) \ {h}
    BY <1>6, <1>7, <1>8
  <1>13. Fits'
    BY <1>1, <1>4, <1>5 DEF IInv, Fits, Write, Idle
  <1>14. AloneIsAlone'
    <2> SUFFICES ASSUME NEW s \in Subjects, NEW i \in Recalculating(s)', s \in req'[i].alone
                 PROVE  Recalculating(s)' = {i}
      BY DEF AloneIsAlone
    <2>1. s \in req[i].alone /\ i \in Recalculating(s)
      BY <1>9, <1>11, <1>12
    <2>2. Recalculating(s) = {i}
      BY <2>1 DEF IInv, AloneIsAlone
    <2> QED
      BY <1>11, <1>12, <2>2
  <1>15. FoundIsRight'
    <2> SUFFICES ASSUME NEW s \in Subjects, NEW i \in Recalculating(s)', s \in req'[i].alone,
                        s \in DOMAIN req'[i].found
                 PROVE  req'[i].found[s] = Aggregate(s)'
      BY DEF FoundIsRight
    <2>1. s \in req[i].alone /\ s \in DOMAIN req[i].found /\ i \in Recalculating(s)
      BY <1>9, <1>11, <1>12
    <2> QED
      BY <1>9, <1>10, <2>1 DEF IInv, FoundIsRight
  <1>16. w \in req[h].alone => told'[w] = Aggregate(w) /\ Recalculating(w)' = {}
    <2> HAVE w \in req[h].alone
    <2>1. told'[w] = req[h].found[w]
      BY DEF IInv, Fits, Write
    <2>2. req[h].found[w] = Aggregate(w)
      BY <1>2, <1>3 DEF IInv, FoundIsRight
    <2>3. Recalculating(w) = {h}
      BY <1>3 DEF IInv, AloneIsAlone
    <2> QED
      BY <1>12, <2>1, <2>2, <2>3
  <1>17. \A s \in Subjects \ {w} : told'[s] = told[s] /\ (s \in doubt' <=> s \in doubt)
    BY DEF IInv, Fits, Write
  <1>18. w \notin req[h].alone => w \in doubt /\ doubt' = doubt
    BY <1>3 DEF IInv, OthersAreInDoubt, Write
  <1>19. OthersAreInDoubt'
    <2> SUFFICES ASSUME NEW s \in Subjects, s \notin doubt', NEW i \in Recalculating(s)'
                 PROVE  s \in req'[i].alone
      BY DEF OthersAreInDoubt
    <2>1. s # w
      BY <1>16, <1>18
    <2>2. s \in req[i].alone
      BY <1>11, <1>17, <2>1 DEF IInv, OthersAreInDoubt
    <2> QED
      BY <1>9, <2>2
  <1>20. RatingsTold'
    BY <1>10, <1>11, <1>16, <1>17, <1>18 DEF IInv, RatingsTold
  <1> QED
    BY <1>13, <1>14, <1>15, <1>19, <1>20 DEF IInv

\* What a request that fails has not written is in doubt.
LEMMA FailKeeps ==
  ASSUME IInv, NEW h \in Handlers, Fail(h)
  PROVE  IInv'
  <1>1. DOMAIN req' = Handlers /\ req'[h] = Idle /\ \A i \in Handlers \ {h} : req'[i] = req[i]
    BY DEF IInv, Fits, Fail, Finish, Continue
  <1>2. \A s : Recalculating(s)' = Recalculating(s) \ {h}
    BY <1>1 DEF Recalculating, Idle
  <1>3. \A s : \A i \in Recalculating(s)' : req'[i] = req[i]
    BY <1>1, <1>2 DEF Recalculating
  <1>4. \A s : h \in Recalculating(s) => s \in doubt'
    BY DEF Fail, Recalculating
  <1>5. doubt \subseteq doubt' /\ told' = told
    BY DEF Fail
  <1>6. \A s : Aggregate(s)' = Aggregate(s)
    BY SameReviews DEF Fail
  <1>7. Fits'
    BY <1>1 DEF IInv, Fits, Fail, Idle
  <1>8. AloneIsAlone'
    BY <1>2, <1>3 DEF IInv, AloneIsAlone
  <1>9. FoundIsRight'
    BY <1>2, <1>3, <1>6 DEF IInv, FoundIsRight
  <1>10. OthersAreInDoubt'
    BY <1>2, <1>3, <1>5 DEF IInv, OthersAreInDoubt
  <1>11. RatingsTold'
    <2> SUFFICES ASSUME NEW s \in Subjects, s \notin doubt', Recalculating(s)' = {}
                 PROVE  told'[s] = Aggregate(s)'
      BY DEF RatingsTold
    <2>1. Recalculating(s) = {}
      BY <1>2, <1>4
    <2> QED
      BY <1>5, <1>6, <2>1 DEF IInv, RatingsTold
  <1> QED
    BY <1>7, <1>8, <1>9, <1>10, <1>11 DEF IInv

LEMMA EnrichReadKeeps ==
  ASSUME IInv, NEW h \in Handlers, NEW s \in Subjects, EnrichRead(h, s)
  PROVE  IInv'
  <1>1. PICK r : r = [step |-> "asked", salon |-> s, seen |-> told[s]]
    OBVIOUS
  <1>2. /\ req[h].step # "count" /\ req' = [req EXCEPT ![h] = r] /\ UNCHANGED <<review, told, doubt>>
        /\ DOMAIN told = Subjects
    BY <1>1 DEF EnrichRead, Continue, Idle, IInv, Fits
  <1>3. r.step = "asked" /\ \E t \in Subjects : \E x : r = [step |-> r.step, salon |-> t, seen |-> x]
    BY <1>1
  <1> QED
    BY <1>2, <1>3, QuietKeeps

\* What the place is written over is in doubt, unless it stays what it is.
LEMMA EnrichAsKeeps ==
  ASSUME IInv, NEW h \in Handlers, EnrichWrite(h) \/ EnrichFallback(h)
  PROVE  IInv'
  <1>1. PICK s \in Subjects : \E x : req[h] = [step |-> req[h].step, salon |-> s, seen |-> x]
    BY DEF EnrichWrite, EnrichFallback, IInv, Fits
  <1>2. PICK x : req[h] = [step |-> req[h].step, salon |-> s, seen |-> x]
    BY <1>1
  <1>3. req[h].salon = s /\ req[h].seen = x /\ req[h].step \in {"asked", "enriched"}
    BY <1>2 DEF EnrichWrite, EnrichFallback
  <1>4. PICK r : EnrichAs(h, r) /\ (r = Idle \/ r = [req[h] EXCEPT !.step = "enriched"])
    BY DEF EnrichWrite, EnrichFallback
  <1>5. r = Idle \/ r = [step |-> "enriched", salon |-> s, seen |-> x]
    BY <1>2, <1>4
  <1>6. /\ r.step \notin {"count", "create", "delete"}
        /\ r.step \in {"asked", "enriched"} =>
             \E t \in Subjects : \E y : r = [step |-> r.step, salon |-> t, seen |-> y]
    BY <1>5 DEF Idle
  <1>7. PICK rating \in Completions(req[h]) : told' = [told EXCEPT ![s] = rating]
    BY <1>3, <1>4 DEF EnrichAs
  <1>8. DOMAIN told' = Subjects /\ told'[s] = rating /\ \A t \in Subjects \ {s} : told'[t] = told[t]
    BY <1>7 DEF IInv, Fits
  <1>9. doubt \subseteq doubt' /\ (s \notin doubt' => told' = told)
    BY <1>3, <1>4 DEF EnrichAs
  <1>10. \A t \in Subjects \ doubt' : told'[t] = told[t]
    BY <1>3, <1>7, <1>8, <1>9 DEF Completions
  <1>11. req' = [req EXCEPT ![h] = r] /\ review' = review
    BY <1>4 DEF EnrichAs, Continue
  <1> QED
    BY <1>3, <1>6, <1>8, <1>9, <1>10, <1>11, QuietKeeps

LEMMA NextHolds ==
  ASSUME IInv, None \notin Subjects, [Next]_vars
  PROVE  IInv'
  <1>1. CASE UNCHANGED vars
    BY <1>1 DEF vars, IInv, Fits, AloneIsAlone, FoundIsRight, OthersAreInDoubt, RatingsTold,
                Recalculating, Aggregate, Rated
  <1>told. DOMAIN told = Subjects
    BY DEF IInv, Fits
  <1>2. ASSUME NEW h \in Handlers, NEW b \in Bookings, FindReview(h, b) PROVE IInv'
    <2> DEFINE r == [step |-> "delete", booking |-> b, number |-> review[b].number]
    <2>1. req[h].step # "count" /\ req' = [req EXCEPT ![h] = r] /\ UNCHANGED <<review, told, doubt>>
      BY <1>2 DEF FindReview, Continue, Idle
    <2>2. r.step = "delete" /\ r.booking \in Bookings
      OBVIOUS
    <2> HIDE DEF r
    <2> QED
      BY <1>told, <2>1, <2>2, QuietKeeps
  <1>3. ASSUME NEW h \in Handlers, NEW b \in Bookings, NEW n \in Ratings, CheckReview(h, b, n)
        PROVE  IInv'
    <2> DEFINE r == [step |-> "create", booking |-> b, rating |-> n]
    <2>1. req[h].step # "count" /\ req' = [req EXCEPT ![h] = r] /\ UNCHANGED <<review, told, doubt>>
      BY <1>3 DEF CheckReview, Continue, Idle
    <2>2. r.step = "create" /\ r.booking \in Bookings
      OBVIOUS
    <2> HIDE DEF r
    <2> QED
      BY <1>told, <2>1, <2>2, QuietKeeps
  <1>4. ASSUME NEW h \in Handlers, Insert(h) \/ Delete(h) PROVE IInv'
    <2> DEFINE b == req[h].booking
    <2>1. b \in Bookings /\ req[h].step # "count"
      BY <1>4 DEF Insert, Delete, IInv, Fits
    <2>2. Changed(h, b) /\ told' = told
      BY <1>4 DEF Insert, Delete
    <2>3. DOMAIN review' = Bookings /\ \A a \in Bookings \ {b} : review'[a] = review[a]
      BY <1>4 DEF Insert, Delete, IInv, Fits
    <2> HIDE DEF b
    <2> QED
      BY <2>1, <2>2, <2>3, ChangedKeeps
  <1> QED
    BY <1>1, <1>2, <1>3, <1>4, CountKeeps, WriteKeeps, FailKeeps, EnrichReadKeeps, EnrichAsKeeps DEF Next, SalonPages

-----------------------------------------------------------------------------
\* Every visit is to a master: Booking.masterId is not optional.
Staffed == \A b \in Bookings : MasterOf[b] # None

\* The rating of a master or a salon is that of its reviews, whatever requests
\* create and delete reviews and redeem codes together, unless two changes
\* overlapped or one failed after its change (recalculateAggregates), or the
\* salon's place was written over a rating that was not there or had changed
\* since it was read (enrichSalonFromGooglePlaces).
THEOREM RatingsStayTold ==
  ASSUME Staffed
  PROVE  Spec => []RatingsTold
  <1>1. None \notin Subjects
    BY DEF Staffed, Subjects
  <1>2. IInv /\ [Next]_vars => IInv'
    BY <1>1, NextHolds
  <1>3. IInv => RatingsTold
    BY DEF IInv
  <1> QED
    BY <1>2, <1>3, InitHolds, PTL DEF Spec

=============================================================================
