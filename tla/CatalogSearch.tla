--------------------------- MODULE CatalogSearch ---------------------------
(***************************************************************************)
(* CatalogService.getNearby and the ExternalPlacesProvider behind it: what *)
(* is near a place, page by page.  All requests are for one cache key (a   *)
(* position, a radius, a category and filters); a search goes like this:   *)
(*                                                                         *)
(*   Miss     the salons and masters are read, and the workers set out;    *)
(*            each takes the next zone when it is done with one            *)
(*   Fetched, Again, GivenUp   one zone's request to the external service  *)
(*   Finish   the results are joined, merged, cached for two minutes and   *)
(*            cut into a page                                              *)
(*                                                                         *)
(* Nothing keeps two requests from searching at once; the one that ends    *)
(* later fills the cache.  A visitor walks through the pages by cursors    *)
(* that say nothing but an offset.                                         *)
(***************************************************************************)
EXTENDS Integers, Sequences, FiniteSetsExt, Functions, Folds

CONSTANTS
  Visitors,       \* each has one request in flight at most
  Salons,         \* what PickMe lists itself: salons and independent masters
  Zones,          \* the zones of a radius, in the order they are asked: 1 .. n
  Workers,        \* requests to the external service at once
  MaxAttempts,    \* attempts a zone is worth
  PlacesIn,       \* zone -> the places found there
  Same,           \* pairs of items isSamePlace takes for one place
  Demo,           \* items of demonstration profiles
  Outside,        \* items beyond the radius
  Wanted,         \* items the filters let pass
  Rows,           \* PickMe's own in the order the tables give them
  Order,          \* all items by demonstration, partnership and distance
  PageSize,
  MaxEntries      \* bound: cache entries made

VARIABLES
  listed,         \* rows of the tables that are shown
  entry,          \* the cache entry
  entries,        \* how many entries there were
  fresh,          \* the entry is not yet two minutes old
  search,         \* the search a visitor's request is running
  walk            \* a visitor's walk through the pages

vars == <<listed, entry, entries, fresh, search, walk>>

-----------------------------------------------------------------------------
Idle == [state |-> "idle"]

NoEntry == [number |-> 0]

Start == [offset |-> 0, seen |-> {}, number |-> 0, more |-> TRUE]

Init ==
  /\ listed = Salons
  /\ entry = NoEntry
  /\ entries = 0
  /\ fresh = FALSE
  /\ search = [v \in Visitors |-> Idle]
  /\ walk = [v \in Visitors |-> Start]

\* What the zones answer, a place of several of them once.
Found(zones) == UNION {PlacesIn[z] : z \in zones}

\* A worker's turn at the z-th zone of the radius, if there is one.
Turned(z) == IF z \in Zones THEN [zone |-> z, attempt |-> 1] ELSE Idle

InReach(items) == items \ Outside

\* applyFilters
Filtered(items) == items \cap Wanted

SamePlace(x, y) == x = y \/ <<x, y>> \in Same \/ <<y, x>> \in Same

Sorted(items, order) ==
  MapThenFoldSet(LAMBDA x, kept : IF x \in items THEN Append(kept, x) ELSE kept,
                 <<>>, LAMBDA i : order[i], LAMBDA S : Max(S), DOMAIN order)

\* What is not the same place as something before it.
Merged(items) ==
  MapThenFoldSet(LAMBDA x, kept : IF \E i \in DOMAIN kept : SamePlace(kept[i], x)
                                  THEN kept ELSE Append(kept, x),
                 <<>>, LAMBDA i : items[i], LAMBDA S : Max(S), DOMAIN items)

\* mergeNearbyResults and applyFilters: PickMe's own come first in the merge,
\* demonstration profiles at any distance; the external places were cut to the
\* radius, and sorted, before.
Prepared(own, external) ==
  LET near == Sorted(InReach(own) \cup (own \cap Demo), Rows) \o Sorted(InReach(external), Order)
  IN Sorted(Filtered(Range(Merged(near))), Order)

\* Mutant: the last page is taken for one with more to come, until it is empty.
MoreIfFull(offset, count, total) == count < PageSize

HasMore(offset, count, total) == offset + count < total

\* The answer to visitor v: the page at its offset, dropped into what it has.
Turn(v, e) ==
  LET from == walk[v].offset
      to == IF from + PageSize < Len(e.items) THEN from + PageSize ELSE Len(e.items)
      page == {e.items[i] : i \in from + 1 .. to}
      count == IF to > from THEN to - from ELSE 0
  IN walk' = [walk EXCEPT ![v] =
                [offset |-> from + count,
                 seen |-> walk[v].seen \cup page,
                 number |-> IF from = 0 \/ walk[v].number = e.number THEN e.number ELSE -1,
                 more |-> HasMore(from, count, Len(e.items))]]

Walking(v) == search[v] = Idle /\ walk[v].more

-----------------------------------------------------------------------------
\* A page out of the cache.
Hit(v) ==
  /\ Walking(v)
  /\ fresh
  /\ Turn(v, entry)
  /\ UNCHANGED <<listed, entry, entries, fresh, search>>

\* The workers begin with the first zones.
Miss(v) ==
  /\ Walking(v)
  /\ ~fresh
  /\ search' = [search EXCEPT ![v] =
       [state |-> "searching", own |-> listed, done |-> {}, failed |-> {},
        next |-> Cardinality(Workers) + 1,
        worker |-> [w \in Workers |-> Turned(w)]]]
  /\ UNCHANGED <<listed, entry, entries, fresh, walk>>

Busy(v, w) == search[v].state = "searching" /\ search[v].worker[w] # Idle

\* The worker is done with its zone, and takes the next in the same turn.
Take(v, w, outcome) ==
  LET s == search[v]
      z == s.worker[w].zone
  IN search' = [search EXCEPT ![v] =
       [s EXCEPT !.done = IF outcome = "done" THEN @ \cup {z} ELSE @,
                 !.failed = IF outcome = "failed" THEN @ \cup {z} ELSE @,
                 !.next = IF @ \in Zones THEN @ + 1 ELSE @,
                 !.worker[w] = Turned(s.next)]]

Fetched(v, w) ==
  /\ Busy(v, w)
  /\ Take(v, w, "done")
  /\ UNCHANGED <<listed, entry, entries, fresh, walk>>

\* Status 429 or 5xx: another attempt at once, three in all.
Again(v, w) ==
  /\ Busy(v, w)
  /\ search[v].worker[w].attempt < MaxAttempts
  /\ search' = [search EXCEPT ![v].worker[w].attempt = @ + 1]
  /\ UNCHANGED <<listed, entry, entries, fresh, walk>>

\* Another error, a timeout among them, or the last attempt: the zone is left out.
GivenUp(v, w) ==
  /\ Busy(v, w)
  /\ Take(v, w, "failed")
  /\ UNCHANGED <<listed, entry, entries, fresh, walk>>

\* Nothing was found and some zone failed.
Fails(s) == s.failed # {} /\ Found(s.done) = {}

Over(v) == search[v].state = "searching" /\ \A w \in Workers : search[v].worker[w] = Idle

Finish(v) ==
  /\ Over(v)
  /\ ~Fails(search[v])
  /\ entries < MaxEntries
  /\ LET s == search[v]
         new == [number |-> entries + 1, done |-> s.done, failed |-> s.failed, own |-> s.own,
                 items |-> Prepared(s.own, Found(s.done))]
     IN /\ entry' = new
        /\ Turn(v, new)
  /\ entries' = entries + 1
  /\ fresh' = TRUE
  /\ search' = [search EXCEPT ![v] = Idle]
  /\ UNCHANGED listed

\* 503 CATALOG_PROVIDER_UNAVAILABLE: the visitor may try again.
Unavailable(v) ==
  /\ Over(v)
  /\ Fails(search[v]) \/ entries = MaxEntries
  /\ search' = [search EXCEPT ![v] = Idle]
  /\ UNCHANGED <<listed, entry, entries, fresh, walk>>

\* The request of v is over, as Finish and Unavailable leave it.
Ends(v) == Over(v) /\ search' = [search EXCEPT ![v] = Idle]

Restart(v) ==
  /\ search[v] = Idle
  /\ walk[v] # Start
  /\ walk' = [walk EXCEPT ![v] = Start]
  /\ UNCHANGED <<listed, entry, entries, fresh, search>>

Age ==
  /\ fresh
  /\ fresh' = FALSE
  /\ UNCHANGED <<listed, entry, entries, search, walk>>

\* A salon is hidden; what is cached still shows it.
Hide ==
  /\ \E s \in listed : listed' = listed \ {s}
  /\ UNCHANGED <<entry, entries, fresh, search, walk>>

Work(v, w) == Fetched(v, w) \/ Again(v, w) \/ GivenUp(v, w)

Next ==
  \/ \E v \in Visitors : Hit(v) \/ Miss(v) \/ Finish(v) \/ Unavailable(v) \/ Restart(v)
  \/ \E v \in Visitors, w \in Workers : Work(v, w)
  \/ Age
  \/ Hide

\* Every request of a worker is answered or cut off after seven seconds.
Fairness ==
  \A v \in Visitors :
    /\ WF_search(Ends(v))
    /\ \A w \in Workers : WF_vars(Work(v, w))

Spec == Init /\ [][Next]_vars /\ Fairness
-----------------------------------------------------------------------------
(* Properties.                                                             *)

Items == Salons \cup Found(Zones)

EntryOK(e) ==
  /\ e.number \in 1 .. MaxEntries
  /\ e.done \subseteq Zones /\ e.failed \subseteq Zones
  /\ e.own \subseteq Salons
  /\ Range(e.items) \subseteq Items

SearchOK(s) ==
  /\ s.own \subseteq Salons
  /\ s.done \subseteq Zones /\ s.failed \subseteq Zones
  /\ s.next \in Nat
  /\ s.worker \in [Workers -> {Idle} \cup [zone : Zones, attempt : 1 .. MaxAttempts]]

\* The type invariant: a request makes MaxAttempts attempts, no more.
TypeOK ==
  /\ listed \subseteq Salons
  /\ entry # NoEntry => EntryOK(entry)
  /\ fresh => entry # NoEntry
  /\ \A v \in Visitors :
       /\ search[v] # Idle => SearchOK(search[v])
       /\ walk[v].offset \in Nat
       /\ walk[v].seen \subseteq Items
       /\ walk[v].number \in -1 .. MaxEntries

\* What the cache holds is what the zones answered: each zone was asked, none
\* twice, at least one answered.  Whatever was found in reach and passes the
\* filters is listed, or it was merged with something found that is listed, or
\* that the filters took away with it.
EntryHonest ==
  entry # NoEntry =>
    LET near == Found(entry.done) \cup entry.own
    IN /\ entry.done \cup entry.failed = Zones
       /\ entry.done \cap entry.failed = {}
       /\ entry.done # {}
       /\ Range(entry.items) \subseteq near \cap Wanted
       /\ \A x \in near \ Outside : x \in Wanted =>
            \E y \in near : SamePlace(x, y) /\ (y \in Range(entry.items) \/ y \notin Wanted)

\* Who walked to the end through the pages of one entry has seen all of it.
PagesCover ==
  \A v \in Visitors :
    ~walk[v].more /\ walk[v].number = entry.number => walk[v].seen = Range(entry.items)

\* What visitors are told of the catalogue is what was found: the entry that is
\* shown holds the answers of the zones, and the pages together hold the entry.
CatalogueHonest == EntryHonest /\ PagesCover

\* Every search ends, whatever the external service answers.
SearchEnds(v) == search[v] # Idle ~> search[v] = Idle

SearchesEnd == \A v \in Visitors : SearchEnds(v)
=============================================================================
