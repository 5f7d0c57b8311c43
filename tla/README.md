# Formal models of indok-api

TLA+ models of the parts of this repository in which several requests, workers
and crashes meet in the same rows of the database. The models are checked with
TLC on small instances; what matters most is proved with TLAPS for every number
of users, slots, requests, workers, payment attempts, cabins, bookings,
organizations, members, documents and browsers.

Everything below refers to the sources under `src/`. The application itself
lives in `src/src/`.

## 1. The system

indok-api is a GraphQL API (Fastify, Apollo) with Postgres behind Prisma, Redis
sessions, and BullMQ workers that run in processes of their own. A resolver
calls one operation of a service; a service calls repositories, other services
and queues. There is no lock: what is between two `await`s may interleave with
any other request or job, and the repositories defend their rows with `version`
columns and `where` clauses, re-read and retry.

| Component | State | Operations | Interacts with |
|---|---|---|---|
| Event sign-ups (`services/events`, `repositories/events`) | rows `Event`, `EventSlot`, `EventSignUp`, each with a version | `signUp`, `retractSignUp`, `removeSignUp`, `update`, `create`, `promoteFromWaitList`, queries | orders (ticket events), the queue `sign-up`, permissions, users |
| Sign-up worker (`services/events/worker.ts`) | jobs of the queue `sign-up` | `event-capacity-increased` | calls `promoteFromWaitList`, then queues mails |
| Payments, orders, products (`services/products`, `repositories/products`) | rows `Order`, `PaymentAttempt`, `Product`, `Merchant`; jobs of `payment-processing` | `create`, `initiatePaymentAttempt`, `updatePaymentAttemptState`, `capture`, polling | Vipps (external), the queue, mail |
| Cabins (`services/cabins`) | rows `Booking`, `BookingSemester`, `BookingTerms`, `BookingContact`, `Cabin` | `newBooking`, `updateBookingStatus`, `updateBookingSemester`, `createCabin`, `updateCabin`, `updateBookingContact`, `updateBookingTerms`, the calendar, `totalCost` | mail, files, permissions |
| Organizations, members, permissions (`services/organizations`) | rows `Organization`, `Member`; roles; feature permissions | `create`, `update`, `addMember`, `removeMember`, `updateRole`, `hasRole`, `hasFeaturePermission` | asked by nearly every other service |
| Auth (`services/auth`, `lib/fastify`) | the session in Redis: code verifier, user | `authorizationUrl`, `authorizationCode`, `login`, `logout`, the study program | Feide (external), users |
| Users (`services/users`) | rows `User`, `StudyProgram` | `create`, `login`, `update`, `superUpdateUser`, `createStudyProgram` | auth, mail |
| Mail (`services/mail`) | jobs of the queue `email` | `send`, `sendAsync`, `sendAsyncBulk` and a worker | the mail provider (external) |
| Documents, files (`services/documents`, `services/files`) | rows `Document`, `DocumentCategory`, `File`, blobs | create, update, delete; a signed URL | blob storage (external), permissions |
| Listings (`services/listings`) | rows `Listing` | create, update, delete | permissions |
| Server, GraphQL, BullMQ wrappers, infrastructure | none of their own | wiring | everything |

What is hard in each of them, and what makes it correct:

* **Event sign-ups.** Every write is computed from rows read before one or more
  awaits; `signUp` retries up to twenty times; an update computes whole rows and
  writes them later; a promotion writes a row of a wait list it read earlier; a
  freed seat must reach the wait list through a queue. Correct means: the
  remaining capacities agree with the confirmed sign-ups at all times, a
  confirmed user has a seat of a slot that exists and is open to the user's year,
  freed seats are filled in the order of the wait list, once, and the promoted
  are told.
* **Payments.** A payment lives in the database, in Vipps and in two kinds of
  jobs, and polling bumps the order's version every two seconds. Correct means:
  the status of the order agrees with its attempts and they with Vipps; money is
  captured at most once for an order; an order that was captured is recorded as
  captured; an authorised attempt is eventually captured.
* **Cabins.** Confirmed bookings are read cabin by cabin, then the semesters, then
  the clock, and the status is written without a condition; the free intervals
  are merged, cut and shifted by a day several times. Correct means: confirmed
  bookings of a cabin never share a day; exactly the stays that are free and lie
  in an open semester are accepted; the calendar shows what would be accepted;
  who books gets a receipt.
* **Organizations.** The last admin may not leave, but the check counts before
  it removes, and the role that permits it is read in one or two queries before.
  Correct means: an organization keeps an admin; nobody writes, or is refused,
  but for the rights they had during the call; feature permissions come from
  super users.
* **Documents, files, listings.** An update reads the categories it will
  disconnect before it writes. Correct means: the document has the categories it
  was given, and what was written was permitted.
* **Auth and users.** The session is loaded before a request and stored after it,
  also with an error; a first login reads, creates, announces, logs in and asks
  Feide, each in a step of its own. Correct means: one account for a person,
  announced once; the study programs are those Feide lists; the graduation year
  changes once a year.
* **Mail.** A job has one attempt: a mail is sent once, or its job is kept as
  failed.

## 2. The modules

| Module | What it is |
|---|---|
| `SeatAllocation` | What sign-ups promise, without a database: users are out, waiting or seated; seats are granted, freed, resized. |
| `EventSignUps` | The state of the sign-up component and one action for each stretch of code between two awaits. It also holds, next to the definitions they change, the operators named `Mutant of ...`: plausible bugs that show each property can fail. |
| `EventSignUpsProperties` | The type invariant, the properties, the refinement mapping to `SeatAllocation` and the inductive invariant. |
| `MCEventSignUps` and the `.cfg` files | The instances TLC checks. |
| `OrderPayment` | What payments promise: an order's payments are begun, authorised, ended, charged; the order is captured. |
| `Payments` | One order, its attempts, Vipps, the queue `payment-processing`, its workers and the calls that initiate payments; again with the mutants. |
| `PaymentsProperties` | Types, properties, the inductive invariant and the mapping to `OrderPayment`. |
| `MCPayments` and its `.cfg` files | The instances TLC checks. |
| `Payments_proofs` | Types, the invariants and the refinement of `Payments`, and when an order is charged once and captured, proved. |
| `EventSignUps_proofs` | Types and the accounting of seats, the wait list, promotions and their mails, proved. |
| `SeatAllocation_proofs` | `EventSignUps` implements `SeatAllocation`, proved. |
| `CabinCalendar` | The calendar of the cabins as operators: bookable, occupied and valid intervals, prices, the validation of a booking. |
| `CabinCalendar_proofs` | The calendar accepts the free stays and shows what it accepts; the types, sums of prices included; proved. |
| `CabinReservations` | What the bookings promise: each day of a cabin has at most one holder. |
| `CabinBookings` | Bookings, cabins, semesters, contact, terms and receipts; calls of guests and admins, the mail worker. Extends `CabinCalendar`. |
| `CabinBookingsProperties`, `MCCabins` | Types, properties, the mapping to `CabinReservations`; the instances. |
| `CabinBookings_proofs` | Confirmed bookings are apart, and `CabinBookings` implements `CabinReservations`, proved for one confirming admin. |
| `Memberships` | Organizations, members, roles and both permission checks, query by query. |
| `Archive` | Listings, documents, categories and files, composed with `Memberships`: the step relation of the two is `Archive`'s. |
| `OrganizationsProperties`, `MCOrganizations` | Types and properties of the two; the instances. |
| `Organizations_proofs` | Types, that an admin remains, and that an update sets the categories of a document, proved. |
| `Permissions_proofs` | The three properties of permissions, proved. |
| `Sessions` | Logins at Feide, sessions, users, study programs, the registration mail. |
| `SessionsProperties`, `MCSessions` | Types, properties and the instance. |
| `Sessions_proofs` | Types, one account and one mail for a person, study programs and years, proved. |

Every module of a component holds its plausible bugs, `Mutant of ...`, next to
the definitions they change.

### How `EventSignUps` corresponds to the code

The state: `event`, `slot`, `signUp` and `inactive` are the rows of one event
(events share no rows, so one stands for all). A user has at most one active and
one inactive row because of `@@unique([userId, eventId, active])`; `signUp[u]`
and `inactive[u]` are those two. `product` is the product of a ticket event as
far as `orders.create` uses it. `jobs` is the queue `sign-up`, `mailed` the
sign-ups a mail was queued for, `req` and `worker` the calls and jobs under way:
a program counter and the values read so far. Everything a process remembers is
in those two, so whatever the code reads early and uses late is stale in the
model too.

Actions, in the order of the code:

| Code | Actions |
|---|---|
| `EventService.signUp` | `SignUp`, `SignUpGetEvent`, `SignUpFindSlot`, `SignUpConfirm`, `SignUpWaitlist`; ticket events: `SignUpGetProduct`, `SignUpCreateOrder`, `SignUpAddOrder` |
| `retractSignUp` | `Retract`, `RetractGetSignUp`, then `DemoteRead`, `DemoteWrite`, `EventCapacityChanged` |
| `removeSignUp` | `Remove`, then the same three |
| `update` | `Update` (read and validate), `UpdateWrite` |
| the worker and `promoteFromWaitList` | `TakeJob`, `WorkerGetEvent`, `Promote`, `FindManySignUps`, `PromoteFindSlot`, `PromoteUpdateRead`, `PromoteUpdateWrite`, `SendAsyncBulk` |
| repository writes, used by the above | `CreateConfirmedSignUp`, `CreateOnWaitlistSignUp`, `MakeOnWaitlistSignUpConfirmed`, `MakeActiveSignUpInactive`, `WrittenSlot`, `WithOrder` |
| the world | `Tick` (the clock), `RequestFails` (a process dies, Redis refuses a job), `WorkerStalls` (a worker dies; BullMQ runs a stalled job once more) |

What was decided in translating it:

* One Prisma call, or one `$transaction` of an array of calls, is one atomic
  step. Postgres serialises writes to a row and evaluates a `where` clause again
  on the row it finally locks; the concurrency tests of the repository
  (`sign-up.test.ts`, the stress tests) rely on it. The read of
  `getWithSlotsAndCategories` is one step, apart from the write it is used for.
* A write whose `where` clause matches nothing throws `NotFoundError` and changes
  nothing. When a sign-up meets both a missing seat and an existing sign-up,
  either error may come first.
* `updateMany` and `deleteMany` on slots skip the slots whose version changed,
  and the rest of the update is written. `update` compares the event's version
  and does not increment it.
* `makeActiveSignUpInactive` leaves the event's version alone when the sign-up
  was on the wait list. A row `updateSlot` gives `gradeYears: undefined` keeps
  its years, because Prisma ignores undefined.
* A job that throws is not retried (no job sets `attempts`); one that stalls is
  run once more.
* Permissions, organisations and user information are checked before anything
  is read that can change here; the model only makes calls that pass, given by
  the constants `MaySignUp`, `MayRetract`, `MayRemove`, `MayUpdate`. The ids of
  created slots are fresh; an update changes a slot at most once and does not
  both change and drop it.
* `signUpsRetractable` is fixed at creation: the schema `updateEvent` validates
  with does not let it through.
* Categories, names, descriptions, dates other than the sign-up window, contact
  data and prices are left out: no branch of these operations depends on them.

### How `Payments` corresponds to the code

`order` and `attempts` are the rows of one order (orders share no rows but the
product, which payments only read). `vipps` and `charged` are what Vipps keeps,
`redirected` the payments whose URL a client has been given: the payer can
approve no other. `polls` holds the repeats left of each polling job, `jobs` the
capture jobs and the jobs that wait again after a failure or a stall. The
reference of attempt *n* of the order is *n*, so `order.attempt + 1` is the
reference `getPaymentReference` makes for the next attempt.

| Code | Actions |
|---|---|
| `initiatePaymentAttempt` | `InitiatePaymentAttempt`, `VippsCreate`, `CreatePaymentAttempt`, `UpdateOrderRead`, `UpdateOrderWrite`, `AddPollingJob` |
| the polling job, `updatePaymentAttemptState` | `TakePoll`, `UpdateGetOrder`, `GetRemotePaymentState`, `UpdatePaymentAttempt`, `RemoveRepeatable`, `AddCaptureJob` |
| the capture job, `capture` | `TakeJob`, `CaptureGetOrder`, `VippsCapture`, `CaptureReadOrder`, `CaptureWriteOrder`, `SendReceipt` |
| the world | `Settle` (the payer, or Vipps), `RequestFails`, `WorkerStalls` |

* A job is taken and its attempt read in one step: nothing else can see a job
  that has been taken. Reads of rows that never change (product, merchant) are
  part of the step that follows them.
* `DownstreamServiceError` (no token, a failed capture) puts the job back;
  `moveToDelayed(60_000)` is a time long past, so a poll may run again at once.
  A failed `payment.info` is an `InternalServerError` and ends the poll. A lost
  race is a `NotFoundError` and ends the job.
* Vipps is external: it refuses to create a reference it knows and to capture a
  payment twice, and any call may fail, or succeed without an answer, where
  `FailingCalls` says so. What it does with a payment the payer aborts, that
  expires or that fails is the same to the code: `FAILED`.
* No code writes `CANCELLED`, `REFUNDED` or `TERMINATED`; the checks for them
  never apply. Prices, mails other than the receipt, and the permission to list
  attempts are left out.
* The last poll finds the payment settled: the comment at `payments.ts:365`
  chooses the 300 repeats so that they outlast the ten minutes a payment lives.
* The model starts after `InitiallyOpen` initiations, one after the other, each
  of which incremented the order's version twice.

### How `CabinBookings` corresponds to the code

Time is counted in days. The code stores the start of the first and the end of
the last day of a stay, in milliseconds, and shifts ends to the next day when it
makes intervals; in the model a stay is its first and last day and an interval is
half-open, which keeps every comparison of the code. `booking` is the table of
bookings in the order of their creation, `terms` the files of the booking terms,
`emails`, `receipts` and `failed` the jobs `cabin-booking-receipt`.

| Code | Actions |
|---|---|
| `newBooking` | `NewBooking`, `FindOccupied` once for each cabin, `ValidateNewBooking`, `CalculateCost`, `CreateBooking`, `SendBookingConfirmation` |
| `updateBookingStatus` | `UpdateBookingStatus`, `FindOccupied`, `ValidateConfirmation`, `UpdateBooking` |
| `updateBookingSemester` | `UpdateBookingSemester`, `CreateBookingSemester` |
| `createCabin`, `updateCabin`, `updateBookingContact` | `CreateCabin`, `UpdateCabin`, `UpdateBookingContact` |
| `updateBookingTerms` | `UpdateBookingTerms`, `CreateBookingTerms` |
| the mail worker | `TakeReceiptJob`, `SendReceipt` |
| `getOccupiedDateIntervals`, `getBookableDateIntervals`, `getValidBookingIntervals`, `validateBooking`, `getPrice`, `totalCost` | the operators of `CabinCalendar` with the same names |
| `getAvailabilityCalendar`, `getAvailabilityForMonth` | `CalendarDay`, for each day |
| the world | `Upload` (a client uses its URL), `Tick`, `CallFails` |

* The permission `CABIN_ADMIN` does not change here: `Admins` have it.
* `getValidBookingIntervals` walks over the days of each bookable interval and
  collects runs; the model says which intervals those are. A run that ends at an
  occupied day, or at the end of the bookable interval, is an interval between
  two such ends; one shorter than two days is dropped.
* `Interval.merge` merges at most two semesters. `BookableDateIntervals` says when
  they become one; the mutant of it merges after the shift by a day.
* The last call of `newBooking` adds the receipt job. A process that dies before
  it, and a job without a file of the terms, are remembered in `unannounced` and
  `failed`, which only the property reads.
* `update` ignores a field that is null or absent, while the creation it falls
  back to has defaults for absent fields and refuses null.
* Contact data of guests, feedback and questions are left out; so is the total of
  the prices a client asks for before it books, which is `TotalCost` again.

### How `Memberships` and `Archive` correspond to the code

`member` is a table of rows that may be gone: an id read earlier is an index, and
its row may be `NoRow` when it is used. A client is a session of a user; a user
may have several. `req[p].pc` is the query the call is at: `"admin"` and `"role"`
are the two of `hasOrganizationRole`, `"organizations"` and `"studyProgram"` those
of `hasFeaturePermission`. A super user needs neither. `args` is what a call on
listings and documents carries besides.

| Code | Actions |
|---|---|
| `permissions.hasRole` | `IsAdmin`, `HasRequiredRole` |
| `permissions.hasFeaturePermission` | `FindOrganizations`, `ReadStudyProgram` |
| `removeMember` | `RemoveMember`, `CountAdmins`, `DeleteMember` |
| `addMember`, `updateRole` | `AddMember`, `CreateMember`; `UpdateRole`, `WriteRole` |
| `organizations.create`, `organizations.update` | `CreateOrganization`; `SuperUserUpdatesOrganization`, or `UpdateOrganization` and `WriteOrganization` |
| `ListingService` | `CreateListing`, `UpdateListing`, `DeleteListing`, each followed by its `Write...` |
| `DocumentService` and its categories | `CreateDocument`, `CreateFile`, `WriteNewDocument`; `UpdateDocument`, `ReadCategories`, `WriteDocument`; `DeleteDocument`, `DeleteCategory` and their `Write...` |
| the world | `CallFails` |

* `been` is a history variable: for each call under way, what its user was
  entitled to at each moment since it began. No action reads it; `Remember`, a
  conjunct of `Next`, only adds to it. It lets `WritesAreEntitled` say "at some
  moment of the call" instead of "now", which no code without locks can promise.
* `categoriesToDisconnect` holds ids, `connectOrCreate` works with names: a
  category that was deleted and created again in between has a new id.
* Study programs of users are constants here; logos, descriptions, colours and
  the dates of listings are left out. Deleting an organization is no operation.
* Nobody is stopped from making a super user of somebody else; whether a caller
  is one is read with the session, once for each request.

### How `Sessions` corresponds to the code

A browser has one session and one request under way. The session plugin loads the
session before a request and stores it with the response, also with that of an
error; a process that dies stores nothing, so the browser keeps the old session.
`flows` are the authorizations Feide has not called back for; a new one replaces
the code verifier of the old one.

| Code | Actions |
|---|---|
| `/login`, `/study-program` (`authorizationUrl`) | `GenerateAuthorizationUrl` |
| `/login/callback`, `/study-program/callback` | `Callback`, `GetByFeideID`, `CreateUser`, `SendRegistration`, `Login`, `FetchGroups`, `GetStudyProgram`, `CreateStudyProgram`, `ReadForStudyProgram`, `WriteStudyProgram` |
| `/logout` | `Logout` |
| `users.update`, `users.superUpdateUser` | `UpdateUser`, `ReadUser`, `WriteUser`; `SuperUpdateUser` |
| the job `user-registration` | `Welcome` |
| the world | `RequestThrows`, `ProcessDies`, `Tick` |

* A person logs in at Feide as themselves (`PersonAt`), and Feide hands a token
  out only for the verifier a flow was begun with. `Tells` are the lists of study
  programs Feide may give; an empty one ends the request.
* `getByFeideID` answers null for a missing user and for a failed query alike.
* Users are never deleted, so the logout of the request hook, for a session whose
  user is gone, cannot happen. Neither can the one `/login/callback` keeps for an
  error result of `updateStudyProgramForUser`: that is the answer to a session
  without a user, and the user was set a line before.
* A year has `Year` ticks. `changed` is a history variable: when a user's last own
  change of the year was decided.
* Names, phone numbers, allergies and the grade year computed from the graduation
  year are left out. On the latter the comment and the code differ: the comment of
  `gradeYear` (`domain/users.ts:124`) speaks of the start of August, and the code
  (`domain/users.ts:140`) changes the year with July.

## 3. What TLC checks

The runs of the sign-ups are instances in `MCEventSignUps`. A request handles one
operation, so three requests are three concurrent or consecutive calls. Once every request has
ended and the queue is empty nothing is left to do: that is the end of an
instance and not a deadlock, and `CHECK_DEADLOCK` is off for that reason only.
`QueueDrains` shows the other half, that work under way does end.

| Run | Instance | Shows |
|---|---|---|
| `seats` | a ticket event, 3 users of different or unknown year, 2 slots of one seat, 3 requests that sign up, retract, remove, 1 worker, crashes, the window closes; 109,524 states | `TypeOK`, `EventSeatsAccounted`, `WaitListHasNoOrder`, `SeatsInv`, `ConfirmedInEligibleSlot`, `MailedOnce`, `ImplementsSeatAllocation` |
| `updates` | 2 users, 3 slot ids (full, free, unused), updates that grow, shrink, create, delete, close, a sign-up, a removal, crashes; 19,566 states | `ConfirmedHoldsSlot`, `SeatsInv` |
| `refill` | a full event of 2, both retract or are removed, 2 wait, 2 worker processes; 6,132 states | `FreedSeatsAreFilled`, `QueueDrains`, `PromotedInOrder` |

Why the bounds are enough to be interesting. A race for a seat needs a seat and
two who want it; a stale row needs a third party that changes it between read
and write: three requests and a worker. A slot of one seat is at both its limits,
full and empty, all the time. Two slots are the least for which the event's and
the slot's capacity differ, three for an update that creates one, changes one
and deletes one. `MaxAttempts` is 2 or 3 instead of 20: the second attempt is the
one that finds what the first left behind. `MaxNow = 1` lets the window close
once. Where the time, the updates or the crashes are not the question they are
switched off. The proofs cover every other size for the safety properties.

The runs of the payments are instances in `MCPayments`; here too an instance
ends when nothing is left to do.

| Run | Instance | Shows |
|---|---|---|
| `payments` | an order with one open attempt, 2 requests that may add a second, 2 workers, 2 polls for each, one call that fails or loses its answer (creating, polling, capturing), crashes; 3,013,867 states | `PaymentsTypeOK`, `OrderFollowsAttempts`, `CapturedWasCharged`, `AttemptsMirrorVipps`, `PaymentsInv`, `ImplementsOrderPayment` |
| `charges` | two open attempts, both of which the payer may approve, 1 worker, 3 polls each, two calls that fail and delay their job; 23,028 states | `ChargedOnce`, `ReservedIsBeingCaptured`, `AuthorizedIsCaptured`, `PaymentQueueDrains` |

Two attempts are the least that compete for one order; two requests, two workers
and a poll in between are the least that make every row a process holds stale;
two polls let a payment be settled between them. `MaxRefs`, `PollLimit` and
`MaxFailures` bound the model and are arbitrary in the proofs. The instance of
`charges` says under which conditions an order is charged once and captured in
the end: one worker process, no initiation under way while an attempt is
captured, no crash and no lost answer of a capture. `double_charge` allows an
initiation and breaks the first. With a lost answer the retried capture is
refused by Vipps, and delayed, for ever; with a failed `payment.info` at the very
last poll an approved payment goes unnoticed; both are listed as hazards.

The other components have one passing run each.

| Run | Instance | Shows |
|---|---|---|
| `cabins` | a week of six days, 2 cabins of which one is created during the run, a pending and a cancelled booking, a guest who books one cabin or both across the end of a semester, one admin who confirms and reverts three times, one who cancels, opens, moves and closes semesters, changes a cabin, renews the terms; midnight, crashes; 26,424 states | `CabinsTypeOK`, `ConfirmedDoNotOverlap`, `AcceptsExactlyFreeStays`, `CalendarShowsWhatIsAccepted`, `ImplementsReservations`, `ReceiptIsSent` |
| `organizations` | an organization of two admins and a member, room for a second one; one client removes, demotes and updates a document twice, one adds, promotes, publishes and deletes, a super user creates organizations, documents, feature permissions; every call may fail; 174,283 states | `OrganizationsTypeOK`, `OrganizationKeepsAdmin`, `WritesAreEntitled`, `DenialsHaveAReason`, `FeaturePermissionsFromSuperUsers`, `UpdateSetsTheCategories` |
| `sessions` | a person who logs in for the first time in two browsers at once and then sets a year up to three times, a super user who changes study program and logs out; abandoned and overwritten flows, failing queries, crashes, a tick; 293,863 states | `SessionsTypeOK`, `WelcomedOnce`, `ProgramsComeFromFeide`, `WelcomeIsSent`, `YearChangesOnceAYear` |

`AcceptsExactlyFreeStays` and `CalendarShowsWhatIsAccepted` compare the interval
arithmetic, in every reachable state, with what it should amount to, for all sets
of cabins and all stays of the week: adjacent and overlapping semesters, one
whose end lies before its start, bookings that touch each other, today inside
and outside. Six days hold two bookings of the least length with a day between
them, and every place of a booking relative to the ends of two semesters. A week
has both kinds of prices.

In `organizations` the third party is what makes rows stale: someone who is
promoted, demoted or removed between the two queries of a permission, or between
the permission and the write. Two calls of the remover are the least that could
take both admins. One client alone removes and demotes, is no super user and is
alone in updating documents: `last_admin` shows what two removers do; a super
user who is no member may demote the last admin; two updates of a document may
leave the union of their categories. In `sessions` one browser updates the
profile: two at once both pass the check of the year. `Year = 0` and one tick
make "more than a year later" happen within the run.

### Fairness

`FairSpec` assumes weak fairness of every pending continuation of a request and
of every step of a worker: Node runs the callbacks of settled promises, and
BullMQ polls its queue for as long as the process lives. Nothing forces a client
to call, time to pass or a process to die; `refill` and `charges` leave crashes
out (`MayCrash = FALSE`), because a job that was never queued, or that stalled
twice, is lost by design of the queue. `Payments` assumes the same of its requests and
workers, and that Vipps settles every payment: payments expire after ten minutes.
`CabinBookings` and `Sessions` assume it of the continuations of a call and of
the mail worker; their runs have crashes, and `ReceiptIsSent` and `WelcomeIsSent`
except exactly the bookings and persons whose call or job was cut off, which the
variables `unannounced`, `failed` and `lost` name.

### Where the code and what is said of it disagree

Each of these runs checks one claim of a comment, a test or the schema, and TLC
shows a run of the code that breaks it.

| Run | Claim | What happens |
|---|---|---|
| `ticket_order` | `ConfirmedTicketHasOrder` | `signUp` takes the `NotFoundError` of `createOrder` for a lost seat and tries again; the user is signed up already and keeps a confirmed ticket without an order |
| `double_charge` | `ChargedOnce` | an initiation increments the order's version between the read and the write of the capture's `updateOrder`: the order is charged and stays reserved, and its second attempt is charged too |
| `double_booking` | `ConfirmedDoNotOverlap` | two admins confirm two pending bookings of the same days; each looks up the confirmed bookings before the other writes |
| `last_admin` | `OrganizationKeepsAdmin` | two admins leave; each counts two before the other is gone |

Four more were found with these models, on instances that are not kept as runs:

* *A late sign-up.* A user who saw a full event (`events/service.ts:656`) joins the
  wait list after a seat was freed and its promotion job has run; the seat stays
  free beside a waiting user until the capacity changes again.
* *Lost mails.* The number of promotions comes from one read of the event
  (`events/worker.ts:67`). When a sign-up takes a seat during the job, the next
  promotion throws, and those promoted before are never mailed: a job has one
  attempt.
* *A crash after a poll.* The worker dies between storing `AUTHORIZED` and adding
  the capture job (`payments.ts:478`); later polls skip the final attempt.
* *A lost reference.* A poll increments the order's version while Vipps creates the
  next payment (`payments.ts:320`): no row is written, and the next initiation
  repeats the reference, which Vipps refuses.

`FreedSeatsAreFilled` holds in the `refill` instance, where no new user arrives
during a job: the late sign-up needs exactly what that instance leaves out. In the same way
`PromotedInOrder` is checked where every slot is open to every year. With a slot
that is not, the first of the wait list can be passed over for want of an open
slot and the next one gets the slot that opens meanwhile: `promoteFromWaitList`
asks for a slot anew for every sign-up of the list.

`MailedOnce` is checked with one worker. With two, a worker that finds a sign-up
confirmed already counts it as promoted by itself and mails it again; no document
promises otherwise. `ConfirmedInEligibleSlot` is checked without slot updates:
the confirming write compares the seats but not the years of the slot, so an
update that narrows the years in between goes unnoticed. On the instance of
`updates` TLC finds it violated that way; section 4 says which updates do no harm.

`YearChangesOnceAYear` has an exception besides two browsers: a super user sets
the year a user asks for just before the user's request reads the row, and
another one before it writes. The read found nothing to change and took no time
(`users/service.ts:207`), the write changes the year, and a second change passes
the check. `sessions` has no super user who sets years, and the theorem excludes
one who sets the year of a person who does so too.

Three more effects of rows read twice are visible in the model and have no run of
their own. A user of an event that is not retractable who retracts from the wait
list while being promoted loses the confirmed sign-up (`service.ts:959`): the
status that was checked is not the status of the row that is written. A removal
that overlaps a retraction and a new sign-up of the same user removes the new one
(`repository.ts:858`). Two updates that read the same version overwrite each
other's columns, because `update` compares the version and does not increment it
(`repository.ts:231`); no seat is lost, which `updates` and the proofs show.

## 4. What is proved

`EventSignUps_proofs`, for all values of the constants that satisfy
`ConstantsAssumption`, `WorkloadAssumption` and `InitialAssumption` (a finite set
of users, an undefined value that is no number, calls of the right type, and an
initial state in which the seats add up):

* `TypeCorrect`: `Spec => []TypeOK`.
* `Invariance`: `Spec => [](TypeOK /\ SeatsInv)`.
* `SeatsAreAccounted`: `Spec => [](EventSeatsAccounted /\ SlotSeatsAccounted)`.
* `ConfirmedKeepTheirSlot`: `Spec => []ConfirmedHoldsSlot`.
* `WaitingHaveNoOrder`: `Spec => []WaitListHasNoOrder`, if nobody waits with an
  order at first.
* `PromotionIsMailedOnce`: `Spec => MailedOnce`, with one worker process and the
  same condition.
* `ConfirmedInOpenSlotIfKept`: `Spec /\ [][ClosesNoFoundSlot]_vars =>
  ConfirmedInEligibleSlot`.

`SeatAllocation_proofs`, with `PlacesAssumption` (slot ids are uuids, so none is
"OUT" or "WAITING"):

* `SeatAllocationImplemented`: `Spec => ImplementsSeatAllocation`.

The accounting of seats is not inductive: a request about to write an old row or
an old plan would break it. `SeatsInv` adds what makes that impossible.
`DatabaseInv` speaks of the rows alone: the accounts, that confirmed sign-ups and
no others have a slot, that ids are below `nextId`, that absent slots have no
seats. `RequestInv` and `WorkerInv` speak of what a process holds:
`ReadEarlier(u, row)` says that a row it read is still the user's row unless its
version has grown or the row is gone for good, so a write that compares the
version writes to the row it read; `PlanAccounted` says that what an update is
about to write agrees with the confirmed sign-ups *as long as the event still has
the version the update read*. The latter rests on every change of a seat
incrementing the event's version, and is the reason why the missing increment in
`update` itself loses columns but never a seat.

The proof has one lemma for each repository write (`CreateConfirmedInv`,
`MakeConfirmedInv`, `MakeInactiveInv`, `UpdateWriteInv`, ...), each on the
counting lemma `SeatTaken`; the lemma `ReadsAreStable`, which shows that what a
process holds survives any such write of another; and one step for each action
(`RequestSeatsInv`, `WorkerSeatsInv`). The refinement proof reuses the invariant:
a write that succeeds is `Grant`, `Queue`, `Leave` or `Resize`, and every other
step leaves places and capacities alone.

The other three theorems each add a part to `SeatsInv`:

* `OrderInv`: a sign-up with an order is confirmed, and the one a request makes an
  order for is confirmed or gone (`Ordered`). Between creating the order and
  storing it the user may retract, be removed and sign up again; ids are not
  used twice and a confirmed row never returns to the wait list, so the order
  never ends up on a row that waits.
* `MailInv`: whoever was mailed about, or is about to be, is confirmed until the
  row is gone (`Settled`); what the worker is about to mail, and the sign-ups it
  may still promote, were not mailed about (`MailFits`). A second worker would
  break it: it still has on its list a sign-up the first has promoted and mailed.
* `EligibleInv` says that a slot that was found open to a year is still open to it
  when the sign-up is confirmed in it, or is gone, and then the write fails.
  `ClosesNoFoundSlot` is what that needs: no step takes from a slot the years of
  a user who has found it and is not yet confirmed. That is a condition on the
  behaviour and not on the workload: updates that widen slots, that change,
  create and delete other slots or resize them are all allowed. Without it the
  property fails, as said above.

`Payments_proofs`, for all values of the constants that satisfy
`PaymentsAssumption`, any sets of requests and workers, with failing calls, lost
answers and dying processes:

* `PaymentsTypeCorrect`, `PaymentsInvariance`: `[]PaymentsTypeOK`, `[]PaymentsInv`.
* `OrderAgreesWithAttempts`, `CapturedOrderWasCharged`,
  `StoredAttemptsMirrorVipps`: the three invariants about rows and Vipps.
* `OrderPaymentImplemented`: `Spec => ImplementsOrderPayment`. No payment is begun
  once one is authorised, no final state changes, and an order is captured only
  with a payment that was charged.

None of these is inductive alone: an order written from a row read two awaits
before would break each of them. `PaymentsInv` adds `RequestHolds` and
`WorkerHolds`: an order or attempt row that is held has a version at most that of
the row, and if the versions are equal the row has not changed (`HeldOrder`,
`HeldAttempt`); so a write that passes its `where` clause writes to what was
read. They also keep what was checked before an await and cannot be undone (an
authorised attempt, a charged payment). The proof shows once that what a process
holds survives any step that only moves rows forward (`Progress`,
`RequestWaits`, `WorkerWaits`); each action then only has to be looked at for the
process that takes it.

`ChargedOnce` is not true of the code in general, as `double_charge` shows. Two
theorems say what it takes, for any number of attempts, polls and requests:

* `OneChargeIfUndisturbed`: with one worker process (`OneWorker`) and no lost
  answer of a capture (`NoAnswerIsLost`), `Spec /\ [][LeavesCharge]_vars =>
  []ChargedOnce`.
* `ReservedIsCapturedIfUndisturbed`: with one worker process, `Spec /\
  [][LeavesCapture]_vars => []ReservedIsBeingCaptured`: an order that is reserved
  has a capture job, or a worker on its way to add one or to capture the order.

`LeavesCharge` and `LeavesCapture` name the steps that spoil it. `OvertakesNoWrite`,
in both: no initiation writes the order between the read of `updateOrder` in
`capture` and its write, the race of `double_charge`; initiations at any other
time are allowed. `ForgetsNoCapture`: no worker dies between the capture at Vipps
and the write of it. `KillsNoWorker`: no worker dies at all, since one that dies
between storing `AUTHORIZED` and adding the capture job leaves a reserved order
to nobody. Each hypothesis is needed: without any one of them TLC finds a
counterexample on a small instance. The invariants are `WriteInv` (what a worker
holds when it is about to write a capture is the order as it is), `ChargeInv`
(a payment that was charged is the only one, and its order is captured or about
to be written so) and `CaptureInv`.

`Organizations_proofs`, for all values of the constants that satisfy
`MembershipsAssumption` and `ArchiveAssumption`:

* `OrganizationsTypeCorrect`: `Spec => []OrganizationsTypeOK`. The types alone are
  not inductive: a call that writes what it was given must have been given it.
  `Fits` says which fields a call under way has.
* `OrganizationAlwaysHasAdmin`: `Spec => []OrganizationKeepsAdmin`, if one client
  alone removes and demotes and does not demote as a super user (`OneRemover`),
  and every organization starts with an admin (`StartsWithAdmins`). The run
  `last_admin` shows that the first cannot be dropped. `AdminsInv` adds what that
  client has read and asked (`PendingCall`): the row it read is still there, with
  its organization; after a count of more than one admin there is more than one;
  a demotion that was permitted was permitted to an admin, who is another
  admin than the one demoted, since nobody changes their own role and nobody else
  could have removed the client's own row.
* `OneUpdaterSetsTheCategories`: `Spec => UpdateSetsTheCategories`, if one client
  alone updates documents (`OneUpdater`; with two, what one connects the other has
  not read and does not disconnect) and documents are connected to categories
  that exist at first (`StartsConnected`, the foreign key). Others may create and
  delete documents and categories between the read and the write. `LabelsInv`
  keeps `DocumentsConnected`; `CallsAreAsked`, that a call under way is one its
  client may make; and `LabelsPending`, what the updater knows before its
  write: the categories it is about to disconnect are not asked for, and all
  others the document still has are. Deleting a category only makes the document
  lose it, and a category created meanwhile is a new row, so both are stable.

`Permissions_proofs`, from the same two assumptions and nothing else, for any
number of clients and whoever is added, removed, promoted or demoted meanwhile:

* `FeaturePermissionsAreSuperUsers`: `Spec => FeaturePermissionsFromSuperUsers`.
* `OnlyTheEntitledWrite`: `Spec => WritesAreEntitled`.
* `OnlyForAReasonDenied`: `Spec => DenialsHaveAReason`.

Both of the latter rest on `EntitledInv`: a call asks for the role its operation
requires on the organization of the row it is about (`Asks`, which needs that
rows keep their user and organization), and what it was granted or refused so far
was true at a moment `been` remembers (`Backed`).

`CabinBookings_proofs`, for all values of the constants that satisfy
`CalendarAssumption` and `BookingsAssumption`, if one admin alone confirms
(`OneConfirmer`; `double_booking` shows why) and the confirmed bookings there are
at first are apart (`StartsApart`):

* `OneConfirmerKeepsApart`: `Spec => []ConfirmedDoNotOverlap`.
* `OneConfirmerReserves`: `Spec => ImplementsReservations`.

`CabinsInv` adds `Confirming`: of the cabins the confirmer has looked up, the
intervals it holds contain those of every confirmed booking. That is stable
because nobody else confirms; it is superfluous intervals that appear, when a
booking is cancelled meanwhile. Then a stay inside a valid interval meets no
confirmed booking (`AvailableIsApart`).
Costs and capacities are sums by folds; `Shapes` leaves them open, because no
other conjunct depends on them. For the refinement, `HoldersOf` has at most one element
(`OneHolder`), and a write of a status moves exactly the days of one booking
(`UpdateMovesHolder`).

`CabinCalendar_proofs`, from the same two assumptions, for any bookings, semesters
and number of admins, confirmed bookings that overlap included:

* `AcceptsFreeStays`: `Spec => []AcceptsExactlyFreeStays`.
* `CalendarIsAccurate`: `Spec => []CalendarShowsWhatIsAccepted`.
* `CabinsTypeCorrect`: `Spec => []CabinsTypeOK`.

The first two assume that `Days` is a run of numbers (`DaysAreARun`); `Days` is
the bound of the model, and a calendar has no gaps. They are about the interval
arithmetic: `MergeFacts` and `BookableFacts` say what becomes of two semesters,
`NightsAreBookable` that a stay whose nights are all in open semesters lies in
one bookable interval even across two of them, `ValidFacts` what a valid interval
is, `ValidAreApart` that two of them share no day, and `FreeRunIsValid` that a
run of free days grows to a valid interval (the least and the greatest end of
it, by `Smallest` and `Largest`). `CalendarInv` only adds the shapes of the rows.
For the types, a sum by `MapThenSumSet` is the choice of a function that
satisfies a recursive equation. `SumExists` shows that one exists, for sums over
at most *n* elements by the least *n* for which there is none, and `SumIsNat`
that any of them gives a number; `CapacityIsNat`, `PriceIsNat` and
`TotalCostIsNat` apply them. `Carries` adds to the types that a booker's cabins
exist, between the check and the price too, because cabins are never deleted.

`Sessions_proofs`, for all values of the constants that satisfy the assumptions of
`Sessions`, any number of browsers, failing requests and dying processes:

* `SessionsTypeCorrect`: `Spec => []SessionsTypeOK`. `HasUser` adds that a request is
  about a person, who has an account once it is past the creation.
* `WelcomeOnce`: `Spec => []WelcomedOnce`. `AnnouncedOnce` counts, for a person,
  the jobs, the mails and the requests about to add a job: one at most, and
  none before the account exists, since only the request whose insert succeeded
  goes on to announce.
* `StudyProgramsAreFromFeide`: `Spec => []ProgramsComeFromFeide`, if that
  holds at first and sessions are of the browser's person (`StartsFromFeide`). `FeideInv` adds that
  a request acts for the person at its browser (`Own`) and that the program it
  is about to write is one Feide listed for that person (`Listed`), whichever of
  two logins created it.
* `OneUpdaterChangesOnceAYear`: `Spec => YearChangesOnceAYear`, if the year of a
  person is set from one browser, by the person and super users together, and
  sessions are of the browser's person at first (the `OneUpdater` of this module). `YearInv` adds that
  the last own change is the stored time (`Stamped`) and that what was decided on
  the row that was read is right for the row that is written (`Decided`). The
  first condition cannot be dropped; section 3 describes the behaviour in which a
  super user sets the year before and after the read.

Only model-checked: the liveness properties (`FreedSeatsAreFilled`,
`QueueDrains`, `AuthorizedIsCaptured`, `PaymentQueueDrains`, `ReceiptIsSent`,
`WelcomeIsSent`), because fairness and ENABLED are out of TLAPS's reach here; and
`PromotedInOrder`, which holds in its instance and not in general, as said in
section 3.

## 5. Not modelled, and what comes next

Not modelled at all: GraphQL resolvers and types, server wiring, the blob storage
and mail provider adapters, the BullMQ wrappers and the infrastructure; they
have no state of their own whose order of change matters. Of the modelled
services the queries are left out where they only read rows and map them, and
these operations that write:

* `events.create` and the categories of events, products and merchants, which are
  one write of fresh rows;
* `superUpdateUser` giving away `isSuperUser`: `SuperUsers` is a constant;
* the contents of mails.

What could come next:

1. `PromotedInOrder` as a theorem, under the condition that every slot is open to
   every year.
2. Ticket sign-ups composed with real orders and payments in place of `product`.
3. The safety half of the liveness properties: that a job which waits has work
   left to do.
