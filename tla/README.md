# PickMe / Pikme: a TLA+ verification project

Pikme is a booking marketplace for salons and independent masters: a NestJS
service over PostgreSQL (Prisma), a React client, and a small package of shared
types. This directory holds TLA+ models of its core logic, the TLC instances
that check them, and TLAPS proofs about them. Files of the service below are
relative to `src/backend/src`, those of the client to `src/frontend/src`, with
these abbreviations:

| | file | | file |
|---|---|---|---|
| `BS` | `bookings/bookings.service.ts` | `SC` | `schedules/schedules.service.ts` |
| `SL` | `bookings/booking-slots.ts` | `ED` | `salons/salon-editor.service.ts` |
| `AU` | `auth/auth.service.ts` | `RE` | `reviews/reviews.service.ts` |
| `VO` | `vouchers/vouchers.service.ts` | `CT` | `catalog/catalog.service.ts` |
| `PA` | `payments/payments.service.ts` | `XP` | `catalog-providers/external-places.provider.ts` |
| `SU` | `subscriptions/subscriptions.service.ts` | `API` | client: `shared/api/client.ts` |
| `CL` | `business-claims/business-claims.service.ts` | `SD` | client: `views/SalonDetailPage.tsx` |
| `AC` | `business-access-codes/business-access-codes.service.ts` | `PO` | client: `features/business-claims/PartnerOnboarding.tsx` |
| `PAR` | `partner-access-requests/partner-access-requests.service.ts` | `AD` | `admin/admin.controller.ts` |

## 1. The system

Nearly everything of interest happens in HTTP handlers of the backend. Node runs
the handlers of one process on one thread, but every `await` lets another handler
run, several processes may serve one database, and the only exclusion between
two handlers is what PostgreSQL gives them. The default isolation level is
READ COMMITTED; `createBooking` alone asks for Serializable (BS 888-890). No
handler locks a row explicitly, no update carries a version, and there is no
background job: nothing in the backend happens but by a request. The rest
happens in the browser, where pages keep forms and tokens between requests,
answers are lost, and callbacks see what was true when they were made.

| component | state | operations | what makes it correct |
|---|---|---|---|
| bookings | Booking, BookingStatusHistory, BookingPayment rows | create, confirm, reject, cancel, complete, no-show, reschedule | no master booked twice; decisions follow the transition rule; the history explains the row; what is booked was offered |
| booking-slots, catalogue availability | none (pure) | slots of a day, next free moment, the week of a master | what is told is true of hours, breaks and the bookings that are read |
| schedules | WorkingSchedule, ScheduleBreak | replace a week, create/update/delete a break | a master has one week; nobody else's breaks change |
| payments, bonus ledger | BookingPayment, BonusCreditLedger | intent, provider webhook, use a voucher | a paid booking stays paid; balances never negative |
| vouchers | VoucherCode, VoucherRedemption | generate, redeem, revoke | never more redemptions than allowed; each grants once |
| subscriptions | PartnerSubscription, PartnerPayment | checkout, and all who extend or end one | every payment extends the period by what was paid |
| business claims, access codes | BusinessClaim, BusinessAccessCode, SalonAdmin, User.role | claim, trial, approve, reject, revoke, redeem code | one owner per business; a code is redeemed once; a grant is whole |
| partner access requests | PartnerAccessRequest | create, change status, issue code, activate | one open request per email; no code lost sight of |
| auth | RefreshToken, User | login, refresh, logout, logout all, change password | a refresh token is used once; a logout ends what it should end |
| client session | access token, refresh in flight, failure latch | request, refresh, restore | nobody is signed out but by the server, a doubled refresh or one that a login overtook; every call ends |
| reviews | Review, rating columns | create, delete | the stored average is the average |
| salon editor and its page | draft and published JSON of a salon, its rows | edit, save, publish | what is published is shown, once |
| staff of a new partner | draft records, the rows of a page | type, autosave, publish, remove | one record for a row, none published lost |
| catalogue near a place | a cache, zones asked in turn | search, page | what is listed is what was found; every search ends |
| booking page | a form, its draft in the browser | seven steps, one request | one visit makes one booking |
| favorites, notifications, portfolio | single rows | inserts, updates, deletes | no protocol: each operation is one statement |

How they interact: handlers share the database and call each other's services
in-process (payments calls the bonus ledger inside its transaction, access codes
call auth to issue a session after their own, partner requests call vouchers).
Booking handlers read schedules and services, and write payments, history,
notifications and audit rows; reviews read the status of a booking; codes,
claims, vouchers, checkouts and the administrator all write subscriptions; the
editor, the service and salon endpoints and the redemption of a code all write
a salon. The client holds an access token in memory, and the refresh token in a
cookie the browser sends by itself. All components and what can go wrong in
them, each at its line, are in `PROJECT.json` (`components`, `hazards`).

What is hard, in one sentence per kind: handlers check on one connection and
write on another later (stale state, interleaving); sequences of individually
legal calls reach states no call would create (reschedule after cancel, publish
from a form that never learned its ids); several statements without a
transaction stop half way (checkout, replacing a week, ratings); webhooks,
refreshes, saves and confirmations are repeated, lost and reordered by the
outside; a page's callbacks are older than what they write over.

## 2. The modules

| module | role |
|---|---|
| `Calendar` | what the booking handlers promise: bookings open, are decided, and move, each in one step |
| `Bookings` | the booking handlers of `BS`, one action per atomic part, and their properties |
| `BookingsProofs` | the inductive invariant of `Bookings`, its history, working time and refinement; handlers that run alone, creates that run together |
| `SignIns` | what the session handlers promise: a sign-in begins once, belongs to one user, and never comes back |
| `Sessions` | the refresh tokens of `AU` and the handlers that issue, rotate and revoke them |
| `SessionsProofs` | the inductive invariant of `Sessions`, that it implements `SignIns`, and what one request at a time keeps |
| `Vouchers` | the codes of `VO`, the bonus credit ledger, and the payments of `PA` that codes discount |
| `VouchersProofs` | the bounds on counters and repetitions, and, with sums over the ledger, those on money |
| `Ownership` | claims and access codes: how a user becomes the owner of a salon |
| `OwnershipProofs` | the inductive invariant of `Ownership`; the same for `PartnerRequests`, `Subscriptions`, `StaffDrafts` and `Offers`; the parts of `MCPartners` that are instances of proved modules |
| `Subscriptions` | the subscription rows of one salon and all who write them |
| `PartnerRequests` | requests for access, their statuses and the codes made for them |
| `SalonEditor` | the editor's page, draft and publication, and the others who write a salon |
| `SalonEditorProofs` | that the salon's row says what was published, and that it shows each name once |
| `StaffDrafts` | the staff a new partner enters: the page's autosave and the records |
| `WorkingHours` | the weeks and breaks of masters |
| `WorkingHoursProofs` | that a master keeps one week |
| `Reviews` | reviews and the ratings they add up to |
| `ReviewsProofs` | that those ratings are the reviews' |
| `Availability` | four answers about free time, compared with what free means |
| `Offers` | what a salon offers while it changes, and what one request books of it |
| `BookingPage` | the seven steps of a booking, its draft and its request |
| `HomeVisitPage` | the seven steps of a home visit, its calendar and its draft |
| `ClientSession` | the browser's side of a session |
| `ClientSessionProofs` | that a page stays signed in; that the two booking pages do what they show; that the catalogue tells what was found; that what `Availability` answers is what the tables say |
| `CatalogSearch` | the search near a place, its cache and its pages |
| `MCBookings`, `MCBookingsApart`, `MCSessions`, `MCVouchers`, `MCPartners`, `MCServices` | instances for TLC |

An `MC` module has a variable `part`, which the first state sets, and its properties name
the part they are about. The parts of `MCBookingsApart`, `MCSessions` and `MCVouchers` are
restrictions of one module they extend: which handlers may run, and with what bounds.
Those of `MCPartners` and `MCServices` are instances of different modules; the actions of
one alone run, and the variables of the others keep the value `Nothing`. Instances of
`Offers`, `CatalogSearch` and `Availability` have their constants in a record (`Visit(c)`,
`Search(c)`, `Told(c)`), so that what is proved for every such record is proved of the
parts. `Ownership` and `ClientSession` are what these two extend, so that what is proved
of them is what the run checks. Where a module has proofs of its own, the instance is of
the proof module, which brings its theorems along.

### Bookings and the code

State. `booking` is the Booking table, a row having the master, the interval,
the status, the duration of its first service (`base`, the `service` relation)
and the state of the BookingPayment created with it. `journal` is the booking's
BookingStatusHistory rows, each joined with the AuditLog action and the
notifications that the same transaction inserts: they carry the same values and
are written by the same statements. `req` holds what a handler has in its local
variables between two awaits. `now` is the clock. `disturbed` is a history
variable: the bookings ever moved, or reopened from an inactive status.

| action | code | notes |
|---|---|---|
| `CreateSnapshot` | BS 537-766 | all checks; the snapshot of the transaction, the loop over candidate masters in order, the first free one wins |
| `CreateCommit` | BS 768-892 | booking, payment, history in one transaction; dooms creates it conflicts with |
| `StatusRead` | BS 1052-1098 | the read, the early return when nothing changes, the transition test |
| `StatusCommit` | BS 1100-1170 | update by id, history row with the status that was *read* |
| `MoveRead` | BS 932-978 | the read and the new end, from the first service's duration |
| `MoveCheck` | BS 980-996, 1230-1275 | a second read: the master's other bookings near the new day |
| `MoveCommit` | BS 998-1050 | update by id, status derived from the one read |
| `Abandon` | | an error, a rollback or the death of the process: nothing is written |
| `Tick` | | time passes |

Atomicity. A transaction is one action where its statements cannot be told
apart from one: a status change or a move begins by updating the row by primary
key, which holds the row's lock until the commit, and all else it does is
insert. The Serializable transaction of a create is two actions, snapshot and
commit. Two of them that overlap in time conflict when each one's search for
clashing bookings (BS 740-754) covers the row the other inserts; PostgreSQL then
commits one and aborts the other, which the model records as the fate
`"doomed"`. Only Serializable transactions count for that rule, which is why a
move at READ COMMITTED escapes it. PostgreSQL may abort more transactions than
it must; `Abandon` covers that.

Not modelled in `Bookings`: who may call (the access checks of each endpoint
decide before anything is read; the model lets any actor that has an endpoint
take any decision it offers), quotes and prices (a quote is its two durations;
`Offers` has them), changes of a schedule under a create (the schedules are
constant), the lists, and what notifications say. Bookings written by other parts of
the program (the seed, the administrator's reset of demonstration data) are not
there.

`Calendar` has no handlers and no reads. `Bookings!ImplementsCalendar` is the
refinement: the place of a booking is its row's master and interval, its past is
the set of statuses of its history, it is steady until it is in `disturbed`.
What the abstraction gives up is what the code gives up: a decision is legal for
a status the booking *has had*, and a moved booking promises nothing about time.

### Sessions and the code

State. `token` is the RefreshToken table: whether the row is revoked, its user,
its family, the row it replaced and the row that replaced it. A family, a random
id in the code, is named by the first token that carries it. `account` has of the
User table what decides about sessions: a version of the password and whether
the account is active. `expired` are the tokens whose signature no longer
verifies because their time is over; `verifyRefreshToken` rejects them before
their row is read, so an expired token is never recognised as reused. `req` is
what a handler holds between two awaits. `vouched` and `closed` are history
variables: the password each token's sign-in was made with, and the families
that existed when all sessions of their user were revoked.

| action | code | notes |
|---|---|---|
| `LoginRead`, `LoginCommit` | AU 133-190, 403-411 | the row is read once, password and account state are judged by it; the token is written later |
| `IssueSessionPublic` | `business-access-codes.service.ts` 370-374 | a session for a user who was let in without a password |
| `RefreshRead`, `RefreshUser`, `RefreshCommit` | AU 192-222, 247-283, 413-494 | row read and tested, user read and tested, then the transaction that updates the old row by id and inserts the new |
| `ReuseRevoke` | AU 224-245 | one statement over what the user has by then |
| `Logout`, `LogoutAll` | AU 285-330 | one `updateMany` each |
| `ChangeRead`, `ChangeCommit` | AU 332-383 | password verified, then stored together with the revocation |
| `Suspend`, `Reactivate`, `RevokeSessions`, `SetAccess` | `users/users.service.ts` 94-166, AD 259-301 | the last changes `isActive` only |
| `Abandon`, `Expire` | | errors and crashes; time |

Each commit is one action: the single statements are atomic, and the
transactions begin by updating the row (or rows) they depend on and otherwise
insert. Not modelled: the access token (it is never stored and stays valid until
it expires), hashing, cookies, registration, which is a login that creates its user.

`Sessions!ImplementsSignIns` maps a family to a sign-in. It is on while one of
its tokens is live or a handler that read one live may still rotate it, and
over after that, for good. The second half of that condition is the price of
the race below: with live tokens alone the refinement would fail.

### Vouchers and the code

State. `code` is the VoucherCode table: the kind (a credit, a discount, or one
of the four partner types, which differ only in what they do to subscriptions),
the limit, the counter, and where its validity stands. `redemption` is the
VoucherRedemption table, each row joined with the amount of the
BonusCreditLedger row the same transaction inserts: positive for a credit
granted, negative for one used, 0 for none. `payment` is the BookingPayment
table. `req` is what a handler holds between two awaits. Amounts are integers:
`Worth` is what a code grants or takes off (of an amount and a percentage the
larger, PA 295-304), `Price` a booking's total. Who may redeem what, which the
code derives from assignments, memberships and the scope in a code's metadata,
is the constants `Partners`, `MayRedeem` and `MayPayWith`.

| action | code | notes |
|---|---|---|
| `Generate`, `Revoke`, `Time` | VO 41-123, 180-212; the clock | a code begins in or before its validity, and is over once |
| `RedeemRead` | VO 214-349 | the tests: status, dates, limit, role, assignment, membership, an earlier redemption |
| `RedeemCommit` | VO 351-374, 453-470 | redemption, counter + 1, ledger row in one transaction |
| `PayRead` | PA 195-293 | the same tests inside the transaction of the payment |
| `PayBalance` | PA 306-324, 424-443 | a second read: the ledger rows that have not expired |
| `PayCommit` | PA 107-142, 326-369 | redemption, counter + 1, ledger row, payment |
| `PayPlain` | PA 31-163 | a payment without a code is one insert |
| `Webhook` | PA 165-193 | sets the status whatever it was |
| `Abandon` | | an error, a rollback or the death of the process |

Atomicity. The test of a code and the search for an earlier redemption are two
reads but one action: handlers never remove redemptions, so a search that finds
nothing would have found nothing at the time of the test, and what happens
between the two reads can as well happen after both. The balance falls as
well as rises and is an action of its own. A transaction at READ COMMITTED
inserts its redemption and increments the counter, whose row lock it then holds
to the end; everything after that is an insert of its own rows. The unique key
of VoucherRedemption on code, user and booking is in `Used`; it does not bite
where the booking is null. Not modelled: what a partner code does to a
subscription (VO 376-451), currencies (all are one), the lists, the payment a
booking's creation inserts (it has no code), and the administrator's reset of
demonstration data, the one operation that removes redemptions.

### Partners: Ownership, Subscriptions, PartnerRequests

`Ownership` has the tables Salon (its external place), BusinessClaim, SalonAdmin,
User.role, BusinessAccessCode, PartnerSubscription (the row and its plan only) and the
audit rows that tell who redeemed a code.

| action | code |
|---|---|
| `ClaimRead`, `MakeSalon`, `ClaimOwnerRead`, `ClaimWrite` | CL 31-196, 665-699 |
| `ApproveRead`, `ApproveCommit`, `EndClaim` | CL 479-663: approve, reject, revoke |
| `TrialRead`, `TrialCommit`; `CodeRead`, `CodeCreate`, `CodeIssued` | CL 201-420 |
| `CreateCode`, `RevokeCode` | AC 40-128, 494-523 |
| `RedeemRead`, `MakeSalon`, `RedeemOwnerRead`, `Enrich`, `RedeemCommit` | AC 133-364, 391-489 |
| `RemoveMemberships`, `ChangeRole`, `RedeemVoucher` | `users/users.service.ts` 168-227, VO 383-451 |

A request names a salon, a place, or both, and nothing asks whether the one is the
other's (`Pages`; AC 133-207, CL 46-57): a redemption that names both gives the
salon that place (`Enrich`), whatever place it had. So the salons of one place are
bounded by nothing, and no property says they are. What the place of a claim was is
not kept; `CodeRead` lets it be any.

The bounds of `GrantsBounded` count handlers: every test of the code is made before the
transaction that rests on it, so as many requests as saw a thing free may take
it. `AccessIsWhole` says that no grant stops half way, which is what the
transactions are for. `OwnersKeepTheirClaim` is an action property: with one
request at a time no claim of an owner becomes an open one again.

`Subscriptions` is one salon's rows with their dates, in months. `checkout` is
four statements (`CheckoutPay`, `CheckoutRead`, `Extend`, `CheckoutLink`, SU
70-172); access codes, partner vouchers, the approval of a claim, the trial and
the administrator's switch (`CodeRead`, `VoucherRead`, `ApproveTrial`,
`TrialRead`, `TrialCreate`, `EnableRead`, `Disable`) write the same rows, each
from a read of its own. `PaidMonthsGranted` and `NeverShortened` hold of
requests that come one at a time, with failures between any two statements, and
not of two checkouts at once: both read one end and one extension is lost.
`Tick` assumes that no request is in flight for a month, so that each sees at
most one month begin (`Began`): the end an extension computed is then never
earlier than one the administrator's switch sets meanwhile.

`PartnerRequests` is the table of requests and the vouchers made for them, with
create, updateStatus, createAccessCodeForRequest (three awaits: `CodeRead`,
`CodeMint`, `CodeWrite`) and `markActivated` (PAR 14-237). A code that was made
is readable only in the request's metadata; `orphans` are those whose handler
died before it wrote them there.

### The salon: SalonEditor, WorkingHours, StaffDrafts, Reviews

`SalonEditor` has the rows of services, staff and photos by name (`rows`), what
staff offer (`offers`), the salon's row as two texts (`Columns`: the words of
columns that are never null, where None is a placeholder such as "Unbekannt", and
the phone, for those that may be null), the JSON column (`meta`), the pages (`page`:
the form, a save and a publication under way), and the redemptions that complete
the salon from its place (`enriched`, one record for each of `Redeemers`).

| action | code |
|---|---|
| `Fetch`, `AddEntry`, `RemoveEntry`, `Tick`, `Say` | SD 765-808, 1101-1262, 1857-2250: the form |
| `Save`, `SaveCommit` | ED 181-235: the metadata is read, then written back whole |
| `Publish`, `PublishRead`, `PublishCommit` | ED 237-690: the draft, the rows there are, the transaction |
| `CreateService`, `RemoveService`, `UpdateSalon` | `services/services.service.ts` 66-181, `salons/salons.service.ts` 232-290 |
| `EnrichRead`, `EnrichWrite`, `EnrichPhotosRead`, `EnrichPhotos`, `EnrichFallback`, `EnrichEnd` | AC 391-489: reads the salon, asks the internet, writes back what it read and, where that was empty or a placeholder, what the place says (`Completed`, `business-access-codes/salon-enrichment.ts` 28-69) |

An entry of a draft has an id only after a publication made a row for it and
the page fetched it; `Ids` and `Sanitized` say which entries stand for which
rows, and that is where names get two rows or staff lose their services.
`PublishedAgrees` compares column by column: what was published, or, where that left
something open (ED 608-610 stores null for an empty phone), nothing or what the place
says. It excuses (`crossed`) a save or a completion that wrote what it had read before
another write, and the row's change outside the editor. Nothing keeps two redemptions
apart (AC 460-468): both may find no photos and both insert the place's, so `ShownOnce`
bounds a photo of the place by the redemptions at once, and every other name by one.

`WorkingHours` has the three statements of `replaceMy` (`DeleteBreaks`,
`DeleteRows`, `InsertRows`, SC 66-100, each committed by itself), breaks (SC
102-195) and the hours a publication writes (ED 504-535, in its transaction).
`WeeksKept` records in `beside` and `bare` which replacements overlapped and
which left nothing.

`StaffDrafts` joins the page of a new partner (PO 36-443) with the controller that keeps
its records. A timer holds the `View` of the render that set it: that is how a save
restores what was removed. `Reviews` is a change of a review (`Insert`, `Delete`) followed
by two counts, of the master's and of the salon's reviews, and then two writes in the same
order, each awaited before the next (RE 148-293). The salon's rating has a second writer
(`EnrichRead`, `EnrichWrite`, `EnrichFallback`; AC 448-449, 478-479, `salon-enrichment.ts`
64-65): a redemption stores the place's rating where it read none, and what it read
elsewhere. A salon it changed is in `doubt`, as is one made for a place, which begins with
the place's rating, until a request alone with the salon counts anew.

### Customers: Availability, Offers, BookingPage, ClientSession, CatalogSearch

`Availability` keeps nothing: the first state draws hours, breaks, bookings and
profiles of the staff, one step computes an answer by the code's algorithm,
and the invariants compare it with a definition of idle time that has no cursor,
no raster and no boundary. `AskSlots` is SL 36-228 with BS 344-535; `AskMaster`
and `AskSalon` are CT 158-271 and 761-1087; `AskWeek` is the week
`MasterDetailPage.tsx` (118-251) works out for itself. The page is compared only
on `Plain` days; elsewhere (a break that ends before it begins, a booking past
midnight) it differs from the server and nothing in the repository says it does not.

Two things decide which bookings an answer has seen. Lists of salons read the bookings
by salon (CT 922-934), so a salon tells nothing of what its masters do elsewhere:
`AskSalon` takes the set of listed salons, `NextIsFirst` is about the bookings in them
(`BookedIn`), and a list of masters (CT 793-806) about all. And the page has a clock of
its own. The server's local time is taken to be UTC; the browser is in any zone of
`Zones`, whose offset is fixed (no change to summer time). The page compares the UTC date
of a booking with the UTC date of its own midnight (`DateOf`; lines 156-158, 171-174, 198)
but counts minutes on its own clock, and offers a time as that minute of that date, in
UTC. In a zone ahead of UTC the column of a day therefore shows bookings of the day
before: only where every booking begins on the date its day has on the page is the page
right about its own clock (`Plain` says so, `FitsIn` is the clock), and only in UTC is
what it offers what the server would accept (the last conjunct of `WeekAgrees`).

`Offers` keeps the sequence of states the offer went through (`past`); the page
is shown any of them, `createBooking` reads in five statements (`ReadPrice`,
`ReadPrimary`, `ReadStaff`, `ReadSkills`, `ReadMode`, BS 574-694, 1411-1435) and
`Commit`s (BS 737-790). Owner and administrator change services, skills, links,
profiles, mode and room between any two. `BookingPage` is the same page seen as
steps and drafts (SD 614-636, 1292-1395, 2131-2681); the server is external to
it: a request is booked, refused, or its answer is lost. `HomeVisitPage` is the
other page with seven steps (`views/MasterDetailPage.tsx`): it sends nothing, its
last step shows a booking no server knows, and the calendar of a master without
salon stands beside every step, so that a press on a free time changes what the
steps have chosen while days pass and the draft of an earlier day comes back. In which
zone a slot is printed (lines 402, 694) is rendering and left out.

`ClientSession` has the calls of the page, the refreshes they share
(`promise`), the restoration beside them, the failure latch and the cookie
(API 14-158, `features/auth/hooks/useRestoreSession.ts`). The server is external
and is what `Sessions` makes of it: a current token is rotated, a used one ends
the session. The page may sign in while a refresh of an earlier session (`"other"`) is
under way. Its answer is granted or refused, and replaces the cookie whoever has signed in
since (AU 271-277, `Kept`); if its token had been passed on before, every session of
its user ends (AU 224-228). So a page can lose a session it has just begun, and
`SessionKept` excuses that: no session is lost that begins with no refresh under way.

`CatalogSearch` has the search of CT 379-734 and its workers (XP 486-740): zones
taken in turn, attempts, results merged by `isSamePlace`, cached for two
minutes, cut into pages by offsets (`views/HomePage.tsx` 485-560). Which items
are alike, far away or filtered out are constants; zone geometry is not modelled.

## 3. The runs

Time of day in `Bookings` is counted in slots and a day has four of them; shifts
run from slot 1 to slot 6, past midnight. Bookings, handlers, users, tokens and
rows are symmetric where no property or action names one of them; masters of
`Bookings`, which are ordered, are numbers and not symmetric.

| run | question | result |
|---|---|---|
| `race` | any two booking handlers interleaved: types, the exclusion creates give, a history that tells row and past, refinement of `Calendar` | holds |
| `apart` | three creates over two masters: is one ever booked twice? Handlers one at a time, clock moving: a chain of history rows, the transition rule, working time, double booking only across midnight | holds |
| `double_booking` | may a reschedule and another handler take one slot? | yes: finding |
| `reopened` | may an inactive booking become active? | yes, by a reschedule: finding |
| `sessions` | two users, two handlers: sound parent and successor columns, refinement of `SignIns`; one at a time: one live token in a family, no session survives its password | holds |
| `survivor` | may a session survive a sign-out on all devices? | yes, a refresh in flight: finding |
| `vouchers` | counter and redemptions agree, how far limits, repetitions and balances are overshot, discounts match the ledger; one at a time: only credit that expired after it was used makes a payment dear | holds |
| `partners` | the parts of `MCPartners`, listed at its head | holds |
| `services` | the parts of `MCServices`; every call and every search ends | holds |
| `others_breaks` | does replacing a week remove somebody else's break? | yes: finding |
| `staff_without_service` | may a publication show staff who offer nothing? | yes: finding |
| `shown_published` | may the page call published what is not? | yes: finding |

### Why the bounds are enough

Bookings. Two bookings and two handlers are the smallest instance in which one handler
acts on what another has just changed; three creates are needed for a chain of conflicts.
The clock moves once, past a start. `MaxRows` bounds the history of a booking (three rows
are enough for create, change, change over it, or create, cancel, reopen). The two parts
of `apart` are restrictions of one instance: `creates` lets only `createBooking` run, with
what a `StatusRead` adds that never commits, and isolates the Serializable transaction;
`AloneRows`, `AloneMasters` and `CreatesBases` bound each part and nothing else. In the
part `alone` the handler may still be abandoned between any two of its steps, so a crash
there is covered. The properties of `alone` fail with a second handler: two status changes
read the same status and both commit. With one, a master is booked twice only by a
reschedule past midnight, because `isRescheduleSlotAvailable` reads no booking that starts
after the new day (BS 1262). Deadlock is checked in the runs of `MCBookings`,
`MCBookingsApart` and `MCSessions`: a handler can always be started or abandoned.

Sessions. A fork is a token that both handlers read and both rotate, the second
overwriting the successor the first wrote: three tokens, two handlers. Two users
tell whose sessions a step ends. The part `alone` has passwords that change and one
request at a time that reads before it writes; those that are one statement (a
sign-out, the administrator's) come between its steps. Its properties fail with
two that read.

Vouchers. The bounds of `LimitBounded`, `RepeatBounded` and `OverdraftBounded`
are tight: TLC finds states at each when it is lowered by one. Two handlers on
one code reach them; with two redemptions allowed the second one is the last,
and three redemption rows leave room for one too many. For credit to expire
after it was used a second code must still be valid to pay with, hence the two
codes of its part `alone`; `Within` keeps `together` to one code and `alone` to one
request. Deadlock is not checked: rows and codes are used up.

`partners`, part by part. `alone`: one request at a time, a place that may get two salons
and one that names it, two users; `together`: two requests on one salon, the smallest in
which a check is overtaken, without places, which no property of the part depends on
(`GrantsStayBounded` is proved with them). `paying`: two rows, two payments, terms of one and two months;
time moves twice, for a row that ends while an extension of it is under way and one that
has ended before; a subscription reaches month three at most. `texts`: two pages and no
redemption, where only texts change; `filled`: one page and two redemptions, where words
are a placeholder; `rows`: one page on which a service comes
and goes, up to three rows of it; `photos`: the same with a photo a salon cannot do
without and one its place has, and two redemptions; `beside`: services made outside the
editor. `hours`: two masters, two weeks, one break, two requests. `reviews`: two visits to
one salon, which a redemption may complete; the place's rating is none the reviews can add
up to. `requests` and `requested`: two requests for one email, one and two handlers.
`offered`, `priced`, `changing`: two masters and one change, two rates and one change, one
master and two changes; a change between two given reads needs one, a change back two.
`staff`: two records, five presses, one lost answer.

`services`, part by part. `session`: two calls share a refresh while a third
refresh, the restoration, runs beside; reloads at any time. `crowd`: two
visitors and one worker, so that one search overtakes another's cache entry;
`wide`: two workers on three zones with an item found in two of them. `booking`:
two requests, two masters, one slot: the second request meets the slot taken or
the other master free; `choosing`: two services. `visit`: two services, a calendar of
two days, two days that pass: a draft is older than what the calendar shows.
`told`: two masters with each of four sets of hours and four sets of
bookings, chosen at the boundaries (two rows on a day, breaks past midnight,
bookings that touch, overlap and run past midnight, one of another salon and one of
none), asked at three instants, by lists with and without the other salon, and by a
browser in UTC, ahead of it and behind it.

Deadlock is not checked in `partners`, `services` and the violation runs of
their modules: visitors, customers, owners and the administrator may stop.

Every property of a passing run has a mutant in `PROJECT.json`: a definition
changed as a plausible bug would change it (a lower isolation level, columns
swapped, a guard dropped, a statement moved out of its transaction), under which
TLC finds the property violated.

### Fairness and liveness

`EveryRequestEnds` is the one liveness property: every call of the browser's
client comes to an end, also one that waits for somebody else's refresh or is
sent again after it, and so does every search of the catalogue. It assumes weak
fairness of three things and no more. A call is answered or cut off: a fetch of
`request()` has an `AbortController` with a timeout of ten seconds (API 40-61), unless
the caller gives a signal of its own (API 51), which replaces that one; such a call ends
when its caller aborts it or its connection fails, like a refresh. A refresh is
answered or its connection fails: that fetch has no timeout of its own, and the
network stack is what ends it. A worker's request is cut off after seven seconds
(XP 645-740) and a search whose workers are done comes to its end, an answer or an
error (`Ends`: the search of a visitor is over after `Finish` and after `Unavailable`,
and after no other step). Nothing is assumed of
users, of reloads or of the server's tables. The handlers of the backend have no
fairness: any of them may be abandoned at any await, no job retries it, and a
pending booking waits for a person; there is nothing that code promises will
eventually happen.

### Findings

Six runs expect a violation; each quotes the words of the repository it
contradicts in `PROJECT.json` (`findings`): a reschedule takes a slot already
taken (BS 998), makes a cancelled booking active (BS 1004); a session survives
the sign-out on all devices (AU 481); replacing a week removes the breaks of
every master (SC 80); a publication shows staff with no service (ED 466); a page
shows a failed publication as done (PO 239).

## 4. The proofs

Each theorem is of a specification whose constants are any that satisfy the
assumptions named, and cites nothing but what is proved here and the library's
facts about finite sets. TLC evaluated every inductive invariant on the runs before
it was proved. A theorem about `Spec` of a component speaks of every
number of requests at once; one about an `MCSpec` is the property of the run
itself, at the constants of its parts. All listed theorems are in `PROJECT.json`
(`theorems`); eight modules hold them.

### Bookings (`BookingsProofs`)

For every set of bookings, handlers, masters, start times, quotes and shifts, from
four assumptions (`Masters` and `Starts` are sets of naturals, durations are
positive, the bounds are naturals):

| theorem | statement |
|---|---|
| `TypeCorrect`, `SteadyBookingsExclude` | `Spec => []TypeOK`, `Spec => []SteadyExclusion` |
| `JournalStaysTrue` | `Spec => []JournalIsTrue` |
| `WorkStaysInHours` | `Spec => []InsideWorkingTime` |
| `BookingsImplementCalendar` | `Spec => ImplementsCalendar` |
| `ConcurrentCreatesExclude` | `MCSpec => []CreatesExclude` |
| `WorkInHoursAlone`, `ChainWhenAlone`, `MidnightWhenAlone` | `MCSpec => []WorkingTimeAlone`, `[]ChainedAlone`, `[]MidnightAlone` |
| `LegalWhenAlone` | `MCSpec => LegalAlone` |

`SteadyExclusion` is not inductive: it says nothing of a create between its
snapshot and its commit. `IInv` adds `CreatesAreClear`, that a create which
PostgreSQL has not doomed still meets no steady booking. A commit of another
create preserves it by `Excludes`; a status change preserves it because it makes
no booking active that was inactive and stays steady; and a move leaves the
steady set. `ReadsWereReal` (what a handler read is in the booking's past),
`DecisionsAreGuarded` and `StatusInPast` serve the refinement and the history: they
make the stale decision of a handler legal for some past status, which is what
`Calendar` asks for. The refinement is one lemma per action. That work stays in
hours needs of a request in flight that what it is about to write was checked
(`RequestsInHours`).

Handlers one at a time know more (`Known`): nobody else is in flight
(`OneAtATime`), what one has read is what the tables hold (`ReadsAreFresh`), a
create about to commit meets nobody (`CreatesMeetNobody`), a move nobody it could
see (`MovesMeetNobodyRead`). What a move cannot see starts on the day after its new
one, or ended before the day before it; so a booking that meets it can only start
after midnight, and the move crosses it. Where creates alone run nothing is ever
disturbed, and every booking is steady.

### Sessions (`SessionsProofs`)

For every set of users, tokens and handlers, from the assumptions that `None` is
neither a token nor a user and that the bound on password changes is positive:

| theorem | statement |
|---|---|
| `TypeCorrect`, `ChainsStaySound` | `Spec => []TypeOK`, `Spec => []ChainsAreSound` |
| `SessionsImplementSignIns` | `Spec => ImplementsSignIns` |
| `OneEndWhenAlone`, `PasswordVouchesWhenAlone` | `MCSpec => []OneEndAlone`, `MCSpec => []PasswordVouchesAlone` |

`ChainsAreSound` alone is not inductive: a rotation must know that the token it
replaces exists (`RotationsExist`), and the refinement that the first token of
a family does and has the family's user (`FamiliesHaveRoots`). There are only
three things a step does to the table, and each has a lemma: it revokes live
rows (`FadingKeepsTable`), adds the first token of a family (`IssueKeepsTable`),
or adds a successor (`RotationKeepsTable`). The refinement is argued over the
tokens that carry a family on: a reader takes up only live tokens, a rotation
hands the family to the new one, and whatever stops being carried on belongs
to one user, which is the `End` of `SignIns` (`FamiliesEnd`). Alone, a token that is
live, or that a handler holds to rotate, is the end of its family and was vouched
for by the password of today (`HeldAlone`): the rotation replaces what it holds,
and the change of a password leaves nothing live that it did not vouch for.

### Vouchers and the ledger (`VouchersProofs`)

For every set of codes, users and payments, finite sets of bookings, handlers and
redemptions, and every table of amounts, prices and permissions in which no customer
is a partner:

| theorem | statement |
|---|---|
| `TypeCorrect` | `Spec => []TypeOK` |
| `CountsAreRight`, `LimitStaysBounded`, `RepeatsStayBounded` | `Spec => []CountsTellUses`, `[]LimitBounded`, `[]RepeatBounded` |
| `LedgerStaysPaid` | `Spec => []LedgerPaysDiscounts` |
| `OverdraftStaysBounded`, `OverchargeStaysBounded` | `Spec => []OverdraftBounded`, `[]OverchargeBounded` |
| `OverchargesNothingAlone` | `MCSpec => []OverchargeAlone` |

A bound on the counter is not inductive while handlers are in flight that have
tested the code already. `RoomForAll` counts each of them as if it had
redeemed: a commit turns one in flight into one counted, and a test admits a
handler only while the counter is below the limit, when even all handlers
together stay within the bound. `RepeatsForAll` does the same for the
redemptions of one user without a booking, where a test admits a handler only
when there is none.

Balances are sums over the ledger, folds whose order nothing determines.
`SumIsAdditive` ties such a fold to any function that adds up row by row, whatever
the order (`Additive`), `SumsExist` gives one for every finite set, and the facts
that are used, that a sum is an integer, grows by the row that is added and
depends on its rows alone, follow. The induction over finite sets is the
well-foundedness of proper inclusion (`SmallestSet`: of the sets for which a claim
fails one is smallest), for the induction theorems of the library take an operator.
The bound on overdrafts is again a count: `Spenders` of a customer are the handlers
are about to spend credit by the balance they read, and `Backed` says that one of
them could still do so and leave the ledger overdrawn by no more than one booking for
each handler that is not a spender; whoever spends becomes one of those.

### Partners (`OwnershipProofs`)

`Ownership`, for every set of users, salons, codes and places and every finite set of
handlers, where `None` names none of them:

| theorem | statement |
|---|---|
| `TypeCorrect` | `Spec => []TypeOK` |
| `AccessStaysWhole` | `Spec => []AccessIsWhole` |
| `GrantsStayBounded` | `Spec => []GrantsBounded` |
| `OwnersKeepClaims` | `Spec => OwnersKeepTheirClaim` |
| `ClaimsKeptInPart` | `MCSpec => ClaimsKeptAlone` |

The bounds of `GrantsBounded` are carried by counting those under way: an owner in being
counts as one (`OwnersBounded`, over `Entitled`), a redemption under way as one
(`RedemptionsBounded`), since each began when it saw none. That a claim which one request
is to reopen is still ended when it does (`ReopensEnded`, `EndedUntilOpened`) is true of
one handler only.

The four modules that say how much, not who, are proved in the same module through
instances with parameters, for any constants, and then at those of the parts:

| theorem | of | statement | hypotheses |
|---|---|---|---|
| `RequestsStayAccounted` | `PartnerRequests` | `Spec => []RequestsAccounted` | lengths are lengths, `None` is no code, finitely many handlers |
| `RequestsAccountedInParts` | parts `requests`, `requested` | `MCSpec => []RequestsAccounted` | |
| `PaidMonthsStayGranted` | `Subscriptions`, one handler | `Spec => []PaidMonthsGranted` and `Spec => NeverShortened` | lengths are positive, `None` is no subscription |
| `PaidMonthsInPart`, `NeverShortenedInPart` | part `paying` | `MCSpec => []PaidMonthsGranted`, `MCSpec => NeverShortened` | |
| `DraftsStayKept` | `StaffDrafts` | `Spec => []DraftsKept` | some name is not blank, the row without a record has no record's id, `None` is neither row nor request |
| `DraftsKeptInPart` | part `staff` | `MCSpec => []DraftsKept` | |
| `OffersStayKept` | `Offers` | `Spec => []OffersKept` | masters are numbers, and so are prices, lengths and the bound on modifiers; what masters can do is a service |
| `OffersKeptInParts` | parts `offered`, `priced`, `changing` | `MCSpec => []OffersKept` | |

`OpenCounted` counts a handler that saw no open request of an email, and will write one,
as an open request. `CodesKnown` says that with one handler a code made for a request is
the one it tells of, is held by the handler, or is an orphan. For `PaidMonthsGranted` the
payment under way is what has to be counted: `Paid` says that a checkout's payment is
linked to nothing until its last statement, `Longer` that the row an extension found ends
no later than it will, and `LongEnough` that a row is as long as the sum of what is linked
to it and, while its link is missing, of that payment too. The sum argument is the one
about ledgers. `Longer` is where `Tick`'s assumption is used: it bounds by one month how
far time runs ahead of an extension, which is at least a month. `DraftsKept` bounds the
records by one row and what excuses more, so what has to be counted is what the row
without a record may still become (`Owing`): a request under way counts one, and the row
one more unless that request is what the page shows as being saved, or if a timer will
send it (`RecordsCounted`). A row has a timer or such a request, never both (`OneOfTwo`),
and what a removal found to be a draft is still one or was published while it was removed
(`RemovesDrafts`). `OffersKept` speaks of moments: what is booked was offered, each part
of it at some moment of the request. The history `past` only grows, so a moment that was
found stays one, and each statement of createBooking has an invariant that names the
moment of what it has read, since the request began: the time that was chosen
(`SlotOffered`), the price (`PriceRead`), who works there (`StaffRead`) and can do it
(`SkillsRead`), and how the salon takes bookings (`ModeRead`). That lengths agree although
modifiers are counted once by the page and once by the server is `LengthsAgree`.

`WeeksKeptInPart`, `RatingsToldInPart` and `PublishedAgreesInParts` bring the theorems of
the next three modules to the parts `hours`, `reviews`, and `texts`, `filled` and
`beside`. `ShownOnceInParts` brings `ShownStaysOnce` to `rows`, `photos` and `beside`.
They need `NamesAssumption` of `MCPartners`, what `None` stands for is no user and no row;
`DraftsKeptInPart` needs `StaffAssumption`, that the names of rows and records differ.

### Weeks, ratings, what is published

| theorem | statement | hypothesis |
|---|---|---|
| `WorkingHoursProofs!WeeksStayKept` | `Spec => []WeeksKept` | there is a day |
| `ReviewsProofs!RatingsStayTold` | `Spec => []RatingsTold` | `Staffed`: a booking has a master (`schema.prisma` 484) |
| `SalonEditorProofs!PublishedStaysTrue` | `Spec => []PublishedAgrees` | none |
| `SalonEditorProofs!ShownStaysOnce` | `Spec => []ShownOnce` | `EditorNames`: finitely many pages; services and photos have different names; owners do not add the pictures of the place, and finitely many redemptions do; only services are made outside the editor |

`WeeksKept` is carried by what a replacement, or a publication, will no longer delete:
rows it does not know of were written by one that overlapped it (`OthersOverlapped`),
which two requests for one master are as soon as both are under way (`OverlapsAreKnown`).
`RatingsTold` speaks of subjects nobody is about to write; it is carried by what a request
counted: one that is alone with a subject really is (`AloneIsAlone`), what it found is the
rating (`FoundIsRight`), and whoever is not alone leaves the subject in doubt
(`OthersAreInDoubt`). `PublishedAgrees` is carried by what writers read: what a save that
nothing overtook has read as published, the row says (`SavesAgree`), and what a redemption
that nothing overtook has read, the row still is (`EnrichedAgrees`); completing twice
completes no more than once (`AgreeTransitive`). `RatingsTold` needs nothing for the
second writer but that it leaves what a salon shows, or the salon in doubt
(`EnrichAsKeeps`). `ShownOnce` is carried, for pictures of the place, by counting the
redemptions that found no photo and are about to add them (`Bare`), and for all other
names by the drafts, wherever one is kept: on the page, in a save, in a publication under
way or in the snapshot. A draft has at most one entry of a name more than rows of it were
made outside (`GoodDraft`), and what a publication leaves shown without knowing it was
made outside since it read the rows (`GoodPublication`). Every row made outside must
count, also one that was removed since: a draft that still names such a row makes it anew.
That takes a third row of one name, which is why `rows` and `beside` allow three.

### The browser (`ClientSessionProofs`)

| theorem | statement | hypothesis |
|---|---|---|
| `PageIsTyped`, `SessionStaysKept` | `Spec => []TypeOK`, `Spec => []SessionKept` | the names of calls, of the restoration and of no promise differ |
| `SessionKeptInPart` | `MCSpec => []SessionKept` | |
| `VisitsBookOnce` | `BookingPage`: `Spec => []BookedOnce` | the list has a first service, the bound on requests is a number |
| `VisitsAreAsShown` | `HomeVisitPage`: `Spec => []ConfirmedAsShown` | the same, the calendar and the days that pass are numbers, `None` is neither a service nor a slot |
| `BookedOnceInParts` | `MCSpec => []BookedOnce` | |
| `CatalogueStaysHonest` | `CatalogSearch`: `Spec => []CatalogueHonest` | `CatalogNames`: zones and workers are numbered and there is one of each; the page size is a number; the rows of PickMe have every salon, the order every item |
| `CatalogueHonestInParts` | `MCSpec => []CatalogueHonest` | |
| `AnswersStayTrue` | `Availability`: `Spec => []AnswersTrue` | `CalendarsHold`: minutes divide the raster and the raster the day, a week has two days or more; hours end on the day they begin and breaks begin on it; bookings and visits take time; staff, rows and bookings are finite; zones are whole numbers, and no clock shows a time before its days begin to be counted |
| `AnswersTrueInPart` | `MCSpec => []AnswersTrue` | |
| `PartsStayTyped` | `MCSpec => []PartsTyped` | |

`SessionKept` is carried by three facts about refreshes
under way, which hold of a session that nothing excuses: there is at most one
(`OneAtATime`), it holds no token that was passed on already or is of an earlier
session (`NoneStale`), and the current token is in the browser or in an answer to the
refresh that had it (`Carried`). That a call begins a refresh only when no other
call's is under way is `PromiseTold`. A visit to the booking page makes one booking
because what is open or booked never outnumbers what excuses it and the one that is
expected (`OpenBounded`); the last page has no request open and no draft
(`LastPage`), and no form, draft or request asks for a service nobody chose (`OfChoice`).
For the home visit, form and draft each show what was chosen with the slot they
hold (`AsShown`): the calendar beside the steps can replace the slot at any step, and
a draft of an earlier day comes back.

A search that is over has missed no zone (`OverIsWhole`): each zone before the next one was
answered, was given up, or is at one worker, and a worker rests only when no zone is left
(`Searching`). A walk has seen exactly the pages up to its offset as long as they are of the
entry there is (`Walked`), whoever replaced that entry meanwhile. What `Sorted` and `Merged`
leave of a sequence is a claim about a fold: the fold over the first n elements
exists and keeps what it should for every n, since there is no smallest n for which
it does not (`FoldIsThere`, `FoldKeeps`). So `merged` loses nothing, whatever places
are alike (`MergedKeeps`); that being alike is not transitive is why the property asks for
one place like the missing one, and not for all of them.

Nothing changes in `Availability` but what was asked, so its invariant is only what the
tables hold (`TablesHold`); the proof is about the algorithms. A slot is a moment of the
raster with an idle visit after it (`SlotsAreGood`), since the first of each row's slots
is rounded up to the raster and loses less than a minute (`CeilIsFirst`). The cursor of
the catalogue is a fold over the bookings in the way: whatever subset of them it has
passed, all time before it is taken, and each of them is over by then or, once a gap is
found, begins later (`PassingIsThere`, `CursorPasses`), by induction over the subsets; so
the first shift with room holds the first idle moment (`NextSlotsAreFirst`) and a salon's
is the first of several (`NextOfSeveral`); all of it for whatever bookings the answer
reads. On a `Plain` day a visit meets a booking exactly when their minutes on the
browser's clock meet (`BusyIsMet`), which takes that different days of a page have
different dates (`DatesDiffer`) and that its bookings reach as far as its week
(`HomeTodayIs`). So a visit fits exactly when its minutes do (`FitsInMinutes`), a cell is
free only when its visit fits, and is free when a visit not shorter than the cell fits
(`CellIsFree`); in UTC to fit is what the server asks (`FitsIsFree`). That hours end on
their day is what schedules and salon editor accept; that a booking takes time is
`createBooking` adding positive durations.

The theorems about parts rest on one invariant of `MCServices` (`PartsInvariant`): in
each part its module's invariant. `PartsStayTyped` adds to them what the honesty
of the catalogue does not need (`CatalogTyped`): the attempts of its workers, the
number of its entries and what a walk may have seen.

### Model-checked only

- `PartsSound`: the types of the parts of `MCPartners`. Those of `Ownership` itself are
  proved, as are those of `Bookings`, `Sessions`, `Vouchers` and of all parts of
  `MCServices`; for the other instances a weaker shape was enough.
- `EveryRequestEnds`: liveness under fairness is beyond the prover.

## 5. Not modelled

- Rows that one statement writes and nothing else depends on: favorites,
  notifications, the portfolio, profiles, `updateMe` of masters, `updateBreak`.
- Registration (a user and a first token in one go; from the token on it is a
  login), the administrator's texts, audit log and reset of demonstration data.
- `salons.create` and the lists of salons, bookings, payments and reviews, which are reads.
- The scopes a voucher's metadata can hold, the text of a code and its hash.
- The search by text, which has no cache, the proxy of pictures, the geometry of
  the zones, the mapping of an external place's fields, the providers besides the
  aggregated one, and the demo data of the client.
- Pages that show what one request returns; rendering, wording and layout.
- Time zones but for the week of a master's page: the server's local time is UTC (its
  container sets no other), clocks are not put forward or back, and in whose time a page
  prints a slot is rendering.
- Access checks: who may call an endpoint is decided before anything else; the
  models let any actor that has an endpoint use it.
- A change of working hours under a create: `Bookings` has constant hours,
  `WorkingHours` no bookings; the two together are beyond what a run explores.
  `Offers` has the effect, as room a master loses while a request is read.

## 6. What could come next

The types of those parts of `MCPartners` for which a weaker shape was enough. A larger
composition of `ClientSession` with `Sessions`, with two browsers of one user.
