# Velo API: a verification development

Velo is a NestJS service over Postgres (Prisma). It takes a learner driver from
registration to the practical exam: theory course, RENACH, LADV, lessons with an
instructor, and a payment held in escrow between the two. Handlers keep no state
in memory. Every `await` gives up control, the database runs at READ COMMITTED,
and the deployment is serverless (`vercel.json`), so what a handler has read may
be stale when it writes and its process may die between any two awaits. Crons and
the webhooks of the payment provider Asaas run beside the requests.

Nearly all of what can go wrong here lies between two awaits, where unit tests
with a mocked Prisma do not look. That is what the modules describe: **one action
per stretch of code between two awaits**, and in each request slot what the
handler still remembers from the awaits before.

Contents: [inventory](#1-inventory), [modules and code](#2-modules-and-code),
[runs](#3-runs), [fairness](#4-fairness), [proofs](#5-proofs),
[model-checked only](#6-what-is-only-model-checked),
[known disagreements](#7-where-code-and-documents-disagree),
[not modelled](#8-not-modelled), [plan](#9-plan).

Paths below are relative to `src/src/modules/` unless they start with `docs/`,
`README.md` or `prisma/`.

## 1. Inventory

| component | state | operations | what is hard | what makes it correct |
|---|---|---|---|---|
| escrow (`payments/payments.service.ts`, `escrow-retry.service.ts`, `admin/`) | `Payment` row per lesson | charge, releaseEscrow, resolveDispute, resolveReleaseFailed, webhooks, retry cron | lost answers of the provider, retries, overlapping crons, webhooks at any time | paid once, only with collected money, rows that tell what the provider did, custody that ends |
| lessons (`lessons/lessons.service.ts`) | `Lesson` row | create, accept, reject, cancel, check-in, check-out, biometry, PATCH, stale-booking cron | status read in one await and written in another; payment calls in the middle | upcoming means charged; paid means given |
| Asaas client and webhooks | at the provider | charge, refund, transfer, tokenize, events | accepted calls whose answer is lost; repeated, late, lost events | idempotency keys |
| sessions (`auth/`) | `RefreshToken` rows | login, refresh, logout, nightly purge | two refreshes with one token; reuse while a rotation is in flight | one usable token per session; ended sessions stay ended |
| passwords (`auth/`, `mail/`) | reset token and expiry on the account row | forgotPassword, resetPassword | one token column overwritten and cleared while a password is hashed | a token works once and only while it is the latest |
| calendar (`lessons`, `busy-slots`) | `Lesson`, `BusySlot` rows of an instructor | book, block, move, delete, cancel | check, then write | no shared start, no lesson in a blocked hour |
| journey (`journey/`, `renach-process/`, `ladv-process/`, `students/`) | `Student`, `RenachProcess` rows, stored stage | start theory, schedule/submit/complete RENACH, upload/enter LADV, declare ready, booking gate, refresh | stage computed from three reads and written later | the stage, the declaration and the booking are earned |
| wallet (`payment-methods/`) | `PaymentMethod` rows, `Student.asaasCustomerId` | addCard, seedTest, remove, setDefault | count, clear and promote in separate statements | one default card, of the student's customer |
| instructor licence (`admin/`, `instructors/`, `compliance/credentials.worker.ts`) | credential and CNH columns | approve, PATCH, seedTest, nightly sweeps, booking gate | sweep, approval and booking all write by id what they decided earlier | nothing booked without approval; what has expired is swept, nothing else |
| telemetry (`telemetria/`, check-out) | `LessonTelemetry`, `LessonEvent` rows, `Lesson.integrityHash` | registerBatch, speeding analysis, hash at check-out | rows inserted around the hash; points stored and their events lost | the hash covers what was acknowledged; events match points |
| ratings (`lessons`, feedback) | feedback columns, `Instructor.rating` | giveStudentFeedback | aggregate read, stored later | the profile shows an average the lessons have had |
| availability (`availability/`) | weekly grid | add, replace all | delete and insert without a common lock | a replacement removes what it found, all or nothing |
| academy (`academy/`) | `Question`, `StudentSimuladoHistory` rows, a cache in memory | getSimulado, submitSimulado, seedQuestions | a cache nobody invalidates, a seed in two statements | a stale pool does not outlive the cache entry |
| checklist (`compliance/compliance.service.ts`, `students/checklist.service.ts`) | `StudentChecklist` row | report, updateStep, getChecklist | steps derived from three reads and written later, beside ticks by hand | steps are earned or ticked; a report leaves what the rows say |
| vehicles (`vehicles/`) | `Vehicle` rows | create, upsert, photo | find, then create | one vehicle per instructor |
| validation (`validation/`) | none | CNH, CPF, CEP, plate | check digits that fold ten into zero | two digits swapped are noticed |
| health, mail, guards, DTOs, seed, scripts | none | - | little | - |

The components meet in few places. `accept` awaits `charge`; check-out, cron and
admin await `releaseEscrow`; cancel and admin await `resolveDispute`. `charge`
reads the wallet's default card. `create` asks the journey, then the instructor's
row, then the calendar. RENACH, LADV and the theory course call
`JourneyService.refresh`; check-out, PATCH and the sweeps change what the stage
is computed from and do not. The crons (retry, stale bookings, purge,
credentials) call nothing but the database and `releaseEscrow`.

`PROJECT.json` lists each hazard at its line with the properties that watch it. Where
a property excuses the very race a hazard describes, because nothing in the code
prevents it, or asks only for a weaker fact, the hazard's note says what is not
caught.

## 2. Modules and code

| module | models | kind |
|---|---|---|
| `Asaas` | the provider: accepted keys, announced events | external, from its use in the client |
| `Escrow` | `PaymentsService`, `EscrowRetryService` | component, extends `Asaas` |
| `LessonLifecycle` | `LessonsService` with the escrow it calls | composition, extends `Escrow` |
| `EscrowLedger` | what the escrow promises about each movement of money, under its key | abstract specification |
| `LessonLifecycleProps` | properties, inductive invariant, refinement mapping | |
| `RefreshTokens` | sessions | component |
| `Session` | what rotation promises: a chain of tokens | abstract specification |
| `PasswordReset` | reset tokens | component |
| `Booking` | lessons and busy slots of one instructor and day | composition of two services |
| `Calendar` | what a calendar promises about starts | abstract specification |
| `JourneyStage` | `computeStageFromData`, the OCR verdict, the booking gate | pure operators |
| `Journey` | everything that writes one student's journey | composition, extends `JourneyStage` |
| `Wallet` | saved cards and the Asaas customer | component |
| `Credentials` | one instructor's licence, nightly sweep, booking gate | composition |
| `Telemetry` | `TelemetriaService`, `NavigatorService`, `ShieldService`, the hash of `checkOut` | composition around one lesson |
| `Ratings` | `giveStudentFeedback` | component |
| `Availability` | `AvailabilityService` | component |
| `Academy` | the pool of questions and its cache | component |
| `Checklist` | `ComplianceService`, `ChecklistService`, `submitSimulado` | composition |
| `Vehicles` | `VehiclesService` | component |
| `Cnh` | `validateCnh` and the answer to a number | pure operators in a small machine |
| `Handlers` | the constants these small services share | |
| `Services` | `PasswordReset` and the modules from `Telemetry` to `Cnh`, side by side | composition |

`MC*` modules hold the definitions of the configurations; `*_proofs` modules the
theorems. `Spec` and `LiveSpec` are in each component's module. The modules that
`Services` joins, all but `PasswordReset`, name theirs after themselves
(`TelemetrySpec`, `RatingsInit`, ...).

**Money.** `lesson[l]` and `payment[l]` are the rows, `charge`, `paid`,
`transfers`, `outcome` and `refunds` what the provider knows. A slot `req[r]` is a
handler in flight: `pc` names the next stretch of code (`release.transfer` is the
code from the call of `transferPix` on), `caller` who awaits it, `attempts` and
`todo` the locals of the cron loop. A call to the provider has three outcomes:
refused; accepted and answered; accepted with the answer lost, which the service
sees as a refusal. Events may be delivered whenever they may have been sent, any
number of times. `transfers[l]` is a set of payment ids because the idempotency
key of a transfer is the id of the payment row: a second row would be a second
key. A client's PATCH may write any status (`update`). The gap between check-in
and check-out is chosen from `Elapsed` and rounded to minutes as the code does.

As an `EscrowLedger`, every movement is kept under the idempotency key it was sent
with: a repetition under one key is a stutter, a second key is a second movement.
There is one payout of a lesson, and it needs money collected and a charge on
record. There are two keys of refunds, that of `resolveDispute` and that of
`resolveReleaseFailed`; the ledger allows the second only to a lesson `underReview`,
that is, while an administrator is between reading `RELEASE_FAILED` and his last
write, and a review begins only at a lesson `givenUp`. It does not promise that
only one refund key is used, nor that a refund excludes a payout: the code ensures
neither (section 7).

**Sessions.** A row stands for the secret it hashes. Refresh is three awaits:
find, consume (the conditional `updateMany`), issue. Reuse revokes the family in
a step of its own. As a `Session`, a family is at the set of its live tokens, and
`rotating` while a request is between consume and issue: `consume` is `Use`, the
insert is `Grant`, and logout, revocation, the purge and a crash in between are
`End`.

**Passwords.** `account[a]` is the reset columns of a student or an instructor.
Mail needs no channel: a token may be used at any time after it was stored.
`Shadowed` instructors have the email of a student, who is looked for first. An
instructor shadowed only later behaves like one that is reached until then.
forgotPassword finds its row and updates it by id in two awaits; ids do not
change and the find decides nothing else, so the model makes it one step.

**Calendar.** `Dates` are the date *values* clients send for the day: the services
compare instants for equality, so two instants of one day are different dates to
them. One value means that all clients normalise. `Times` are numbers; the code
compares "HH:MM" as text in one service and as minutes in the other, which agree
for padded times. The unique index is a constant, since the migrations create it
and `schema.prisma` does not declare it. The index counts cancelled lessons too,
so the start of a cancelled lesson cannot be booked again; and a cancelled lesson
may come back (`Revive`), by a PATCH or by an accept that read its status before
the cancellation. `met`, `revived` and `moved` are histories: rows whose requests
were in flight beside one of the other service, lessons that came back, busy slots
whose times were changed. As a `Calendar`, what is given is the pair of start and
lesson of every row, cancelled or not.

**Journey.** The student's columns are reduced to what `computeStageFromData`
compares; a LADV is valid until a day; a lesson row is what `loadSnapshot` makes
of it, compliant or not and how many minutes. The two queries of `Promise.all`
come back in either order. `held` is a history of the facts that were ever true,
which is what "earned" means when each of them may since have lapsed.

**Wallet.** A card is named by its Asaas token, which is unique. `setDefault`
runs two statements in one transaction at READ COMMITTED: the rows the first
finds are remembered, and both writes are published at once (`SwapDefault`). Two
histories excuse what nothing in the code prevents: `upset`, for requests that
overlap or die, and `raced`, for a request that sets out to create the customer
while another does (`Ensuring`).

**Credentials.** `cnhExpiry` is free text. The sweep compares it as text with the
present, the gate turns it into a `Date`; the model gives each text the instant
at which either begins to refuse it, so a text may pass one, both or none.
`overtaken` is a history: the approvals in flight beside which another has saved.

**Telemetry.** A batch stands for the rows it inserts, `stored` for the rows of
`LessonTelemetry`, a hash for the set of rows it was computed from. `registerBatch`
is three awaits (status, insert, analyse), check-out two that matter (read and hash,
save). Check-in and PATCH are there because they reopen a lesson or overwrite its
hash; whatever else writes the status is among PATCH's choices. `seal` and
`reopened` are histories.

**Ratings.** An average is kept as the sum and the count it is of, so that two
different averages are never equal by chance. `averages` is the history of those
the lessons have had, `Stats` the set of those they can have; `solo` and `settled`
tell when a rating ran to its end alone.

**Availability.** `deleteMany` takes the rows it sees when it starts; it waits for a
transaction that has deleted one of them and not yet committed (`Blocked`), and
does not look again at rows that came meanwhile. A grid stands for its rows.

**Academy.** A seed stands for the rows it creates. The entry of the cache ages with
`TickCache` and lasts `SIMULADO_CACHE_TTL` ticks; `late` marks what was read before
the table changed and cached after it. The look into the cache, the read of the
table and the write to the cache are three awaits.

**Checklist.** `dossier` is what the three reads of the report look for, as it is
now: a passed simulado, 120 minutes of completed lessons, a valid LADV. Lessons and
LADVs have modules of their own; here they change as they may (`DossierChanges`).
The reads of the report's `Promise.all` come back in any order. `medico` and
`psicotecnico` are accepted by `updateStep` but have no column, so that the upsert
throws: nothing changes, and there is no action for them.

**Vehicles.** `findFirst` without an order may return any vehicle (`FindVehicle`).
A plate that is taken makes the transaction fail, a vehicle created without a plate
stores the empty one, and that one is unique too. `posted` and `contended` are
histories: vehicles by POST or registration, instructors with overlapping requests.

**CNH.** The two sums, their fold of ten into zero and the reduction of the second
digit are translated digit by digit; the machine types a number, swaps two
neighbouring digits, and asks the service. The provider has a status for each
number in its fixture (`Known`) and NOT_FOUND for all others.

Abstracted everywhere: wording of errors, logging, response shapes, selected
columns, amounts and names. Authentication, throttling and DTO validation decide
who may call; the models let every call through that the validators let through.

## 3. Runs

| run | question | states | bounds |
|---|---|---|---|
| `LessonSafety` | can any interleaving of two requests, crons, webhooks, lost answers and crashes break the money? | 2.5M | 1 lesson, 2 slots, all endpoints, 2 attempts |
| `LessonLiveness` | does custody end, and every request, with overlapping retries? | 295k | 1 lesson, 2 slots, the calls that concern release |
| `EscrowBatch` | does one failing or disputed payment spoil a batch? | 480k | 2 lessons, one in dispute, 1 slot, biometry |
| `ReleaseAndRefund` | violation: money to both parties | - | 1 lesson, 1 slot |
| `RejectCharged` | violation: a rejected lesson is charged | - | 1 lesson, 2 slots |
| `RefreshTokens` | can racing refreshes fork or revive a session, or do they keep it a chain? | 131k | 3 rows, 2 families, 2 requests |
| `RefreshReuse` | violation: a token survives the revocation of its family | - | 2 rows, 1 family |
| `Booking` | are starts given as a calendar gives them, and can a lesson and a block share an hour? | 1.2M | 2 lessons, 2 busy slots, 3 times, 2 requests |
| `Journey` | can stale snapshots award a stage, a declaration or a booking? | 890k | 2 slots, 3 starts, 1 lesson, 3 days |
| `Wallet` | is there one default card, of the right customer? | 2.5M | 3 cards, 2 customers, 2 requests |
| `Credentials` | can approval, sweep and booking overtake each other? | 234k | 2 requests, 4 instants, 3 texts |
| `Services` | eight services that share no row: which stale or half-done writes can remain? | 800k | below |

What they show, property by property, stands in comments above each property.
Only `LessonSafety` checks a type invariant in the run; those of the other modules
are proved (section 5), and so is `NoSharedStart`, which `ImplementsCalendar`
contains.

**How `Services` is composed.** Its services share no row, so that their joint
states would be a product in which nothing interacts. In the module `Services` the
variable `service` says which of them a behaviour exercises; the others stay in
their initial states, and the reachable states are the sum. Every service keeps its
own `Init` and `Next` unchanged, so that what is proved of one holds of it there
(`Composition`, section 5). Where no CNH is typed the form shows a number the
provider has as valid. `MCServices` only gives values.

**Why the bounds are enough to see the interesting cases.**
- Two slots give every race of two handlers, and a crashed handler leaves its slot
  free, so a retry after a crash is included.
- `MaxAttempts = 2` has a first failure, which is counted, and a last, which gives
  up; overlapping runs write counters they read before. The proofs hold for any.
- One lesson is enough where handlers look at one lesson; the batch run has two
  because the loop looks at several. `Disputed` lessons are initial because
  no code writes `disputeOpened`: a dispute is opened in the database.
- `Elapsed` is 2970 seconds, 49.5 minutes, which `Math.round` makes 50, the least
  that is paid, or 3000.
- `Calls` leaves out endpoints from the liveness runs only. `PatchStatuses` is
  `completed` in `LessonSafety`: `UpcomingIsCharged` is about lessons whose status
  no client overwrites with `upcoming`.
- Three times are the fewest with two intervals that overlap without sharing a
  start, and an interval that ends where another starts; requests with the end
  before the start are among them. `LessonIdLeft` and `BusySlotIdLeft` stop
  requests for which no row id is left.
- Journey: `Horizon = 2` has a day on which the LADV is valid and two on which it
  is not; three starts allow two racing handlers after one that set the scene.
  Lessons of 60 and 120 minutes are on either side of the legal minimum.
- Credentials: with `TwoYears = 1` and four instants a credential expires, is
  swept, is approved again and expires again. The three texts are a date that
  passes, one no check refuses, and one both refuse.
- Services, two requests in flight everywhere. Passwords: three accounts, one of
  them hidden by a student with its email, and three tokens, so that one account
  asks again, twice, while resets are in flight. Telemetry: two batches, of 60 km/h
  and of 60, 61 and 90, on either side of the threshold. Ratings: two lessons rated,
  rated again and taken back, with scores 1 and 5. Availability: four requests, one
  of them with an empty grid, so that two replacements overlap after one that
  brought rows. Academy: two seeds and an entry of three ticks. Checklist: 20 and
  21 right answers, 14 and 15 minutes, on either side of both limits. Vehicles: two
  instructors, three vehicles, the empty plate and another. CNH: all bodies over
  0, 1 and 9, whose sums reach every remainder, and the provider's three numbers, one
  of each status.

Symmetry is declared only in runs without liveness properties, over sets whose
elements no configuration tells apart.

`CHECK_DEADLOCK FALSE` stands in `Journey` (its calendar and its requests are
bounded and end), `Services` (tokens, batches, grids, seeds and vehicles are
bounded) and `RejectCharged` (its two endpoints may leave nothing to call).

## 4. Fairness

- **LessonLifecycle.** Weak fairness of each slot's next step: a server runs a
  handler on and the provider answers or the call fails. Strong fairness of
  `RetryStart`: the cron fires for ever, and that the model's slots happen to be
  busy when it fires is no reason for a server not to run it. From some time on
  nothing crashes: a server that dies in every run promises nothing. Clients,
  admin and webhooks owe nothing.
- **RefreshTokens.** Weak fairness of the nightly purge alone.
- **Journey.** Weak fairness of the clock and of the worker's two steps.
- **Credentials.** Weak fairness of the sweep; its server stops dying in sweeps.
- **Services.** None: the properties are of safety. Nothing there retries or resumes
  what a crash has left, so that there is nothing to promise.
- The violation runs are of safety properties and use no fairness.

## 5. Proofs

Every theorem is checked by TLAPS for all values of the constants, from the named
assumptions in the modules: `None` is none of the ids, `MaxAttempts` is positive,
disputed lessons are lessons, times are numbers, documents and lesson rows are of
their types, the wallet's tokens are finite, two years and the life of a cache
entry are positive, CNH bodies are nine digits and the provider's numbers eleven. TLC
evaluates
the same assumptions in the runs.

Each module follows one argument: an inductive `IndInv` holds initially, is kept
by each action (one step per action, below it one per conjunct it may disturb),
and implies the property.

**LessonLifecycle_proofs.** `IndInv` is `TypeOK`, `MoneyInv(l)` for the rows and
`SlotInv(r)` for the handlers. The properties are not inductive alone:
`NoTransferWithoutFunds` needs that a handler about to transfer has seen `HELD`,
and that this, although the row may have changed since, still means `paid`, as
nothing makes `paid` false again. `OneTransferPerLesson` needs that all accepted
keys are the id of the one row. `PaidLessonWasGiven` needs that check-in is never
undone and that a row with a duration was checked in.
Theorems: `Agreement`, `Typed`, `FundsFirst`, `PaidOnce`, `RowsAreTrue`
(released and refunded rows), `PaidForLessons`; `ChargedBeforeUpcoming` with an
invariant of its own, under the assumption that no client writes `upcoming`; and
`Refinement`: under the mapping in `LessonLifecycleProps` every step is a step of
`EscrowLedger` or moves no money. Transfers and refunds map key by key, so that a
second one under another key would need a ledger step of its own: that a transfer
has none follows from `MoneyInv` (accepted keys are the id of the one row), that
`resolveReleaseFailed` has one from the slot being in review until its write. The
lemmas sort the steps by what they do to the ledger: charge, record, collect, pay,
refund, give up, begin or end a review.

**RefreshTokens_proofs.** While a rotation is about to issue a token, its family
has no live token and no second rotation; a request knows the family of its row
as long as the row exists. Hence `Typed`, `OneLiveToken` and `SessionsEndForGood`.
`Refinement`: under the mapping of section 2 each step is one of `Session` or a
stutter. The insert is a `Grant` only because its family is still rotating and its
token is nobody's, and `consume` a `Use` only because the live token it finds is the
only one: both come from the invariant.

**Booking_proofs.** Two arguments.
- Under the assumption that the database has the index, the starts of all rows are
  distinct, cancelled rows included (`Distinct`); `IndexPreventsDoubleBooking`
  follows, and `Refinement`: bookings implement `Calendar`, because no row ever
  loses or changes its start.
- `ChecksKeepApart` assumes nothing. Its invariant is `NoLessonInBusySlot`, which
  says what the history of each row excuses, and `CheckInv`, which says the same of
  requests in flight: a booking about to insert has found no busy slot over its
  hours but one that was moved or whose request it has met, and a block no lesson
  but one that came back or whose request it has met. Each insert then hands on to
  the row what its request knew.

**Journey_proofs.** Every snapshot shows only facts in `held` although its three
reads are of different moments, and an undisturbed request has read the present
rows. `StagesAreEarned`, `ReadinessIsEarned`, `GateHolds`, `RefreshIsExact`. Of the
pure `computeStageFromData`, `MoreFactsNoLowerStage`: it takes nobody back for having
done more. What lowers a stage is a fact that has lapsed, such as a LADV that is
replaced or a RENACH that is reopened, or a snapshot from before it came true.

**Wallet_proofs.** `OneCustomer` holds for overlapping requests too. Its
`CustomerInv` says that, until two requests create the customer side by side, at
most one is about to; all others work for the customer on record, and so do all
cards; and while one is about to there is neither customer nor card. A request's
own step keeps it (`ContinueOwn`), and what a request knows stays true while
others step (`OthersKeep`), as cards keep their customers and rows are never
deleted. `OneDefaultCard` follows the one handler that runs undisturbed through
its awaits, to wherever it may die.

**Credentials_proofs.** A date means that an admin has approved; a sweep about to
write has found an expired date that only an approval may have changed since; an
approval about to write that no other has overtaken does not write an earlier date
than the row's. `ApprovalsExtend` therefore needs no assumption that approvals do
not overlap: it names the one that shortens.

**PasswordReset_proofs.** A row holds the latest token of its account or none; a
reset in flight holds a token of its account, the latest unless a newer one was
stored since, and not a used one unless it was shared.

**Services_proofs.** One inductive invariant per service, in the service's module.
`Composition` shows that a behaviour of `Services` is a behaviour of each service,
so that all theorems below, and those of PasswordReset_proofs, carry over:
`Guarantees` collects them, `ServicesTyped` is the type invariant of the whole.
- `TelemetryInv`: a batch past its insert is stored; a check-out in flight carries
  a hash that holds every batch acknowledged when it was computed; as long as
  nobody reopens the lesson, what is not admitted at the seal is still to come.
  Theorems `HashCovers`, `EventsMatch`.
- `RatingsInv`: what a request has aggregated is an average the lessons have had,
  and the present one while it is alone. `ShowsAverage`. The sum itself is never
  expanded: the proof needs only that it is a function of the scores.
- `AvailabilityInv`: rows belong to requests that are done, and those never come
  back. `GridReplaced`.
- `AcademyInv`: an entry that is not late and differs from the table was cached
  before the table changed, so that the change is no older than the entry.
  `PoolRecent`.
- `ChecklistInv`: what a report has derived has been true, and is true still if
  nothing disturbed it. `ChecklistEarned`, `ReportsAreCurrent`.
- `VehiclesInv`: an undisturbed upsert that found no vehicle is the only one of an
  instructor who still has none. `KeepsOneVehicle`.
- `SwapsAreCaught` needs no invariant but the type of the number: a swap moves the
  difference of the two digits from one sum to the other, so that equal first
  digits hide a ten in exactly one of the two numbers, and then the reduction by
  two makes the second digits differ.

## 6. What is only model-checked

The liveness properties (`HeldIsDecided`, `RequestsEnd`, `StaleRowsArePurged`,
`ExpiredLadvFails`, `CredentialsExpire`, `LapsedCnhBlocks`): the prover does not
reason about fairness and ENABLED. The violations: a counterexample needs no proof.
Every safety property of a run, the three refinements included, is also a theorem.

Two things are stated so that nothing has to be proved by induction over data: the
proofs take the sum of the scores in `Ratings` and of the minutes in `JourneyStage`
as functions of the rows, whatever they compute.

## 7. Where code and documents disagree

Shown by a run, and listed under `findings`:
- the admin can refund a released payment (`docs/architecture.md:99`);
- a reject beside an accept cancels a charged lesson (`lessons.controller.ts:75`);
- a rotation in flight outlives the revocation of its family
  (`docs/architecture.md:111`).

Seen while modelling, without a run of their own:
- lessons with different starts may overlap (`docs/business-logic.md:113`), and a
  booking that races a block, a busy slot moved over it, or a cancelled lesson that
  comes back, lands in a busy slot;
- RENACH and LADV take a student past a theory course never started
  (`docs/business-logic.md:5`, `README.md:19`);
- a refund by `resolveReleaseFailed` has a key of its own: after a refund whose
  answer was lost, or beside a `resolveDispute` in flight, the student may be
  refunded twice; `docs/architecture.md:102` calls only `charge` and
  `releaseEscrow` idempotent;
- a late payment event can put a decided payment back to `HELD`, a cancel refunds
  only what it finds `HELD`, a charge may stay `PENDING` when its event came first
  (`FLOW_AND_FEATURES.md:216` and `:179`, the comment at `lessons.service.ts:252`);
- a release for an ineligible lesson counts as a failed attempt and ends in
  `RELEASE_FAILED`, which only an admin leaves (`docs/business-logic.md:181`,
  `docs/architecture.md:136`);
- a PATCH with a null hash, or a second check-out, changes the hash of a lesson in
  dispute (`docs/architecture.md:106`, `docs/business-logic.md:191`; no code opens
  a dispute, so that no run is spent on it); telemetry may be
  stored after the hash (`docs/business-logic.md:191`), and events are not hashed
  (`:204`);
- the sweep may fail a LADV uploaded a moment ago (`credentials.worker.ts:66`
  against `:18`);
- two first cards added together may both, or neither, be the default
  (`FLOW_AND_FEATURES.md:121`);
- PATCH cannot set `credentialValidUntil` (`FLOW_AND_FEATURES.md:145`), an inactive
  instructor can be booked (`README.md:37`), and a CNH text such as 31/12/2030
  passes sweep and gate for ever (`docs/business-logic.md:111`);
- an instructor with the email of a student cannot reset the password, and
  sessions survive a reset;
- a simulado must take fifteen minutes or more, the documents say at most fifteen
  (`docs/business-logic.md:139`, `:149`), and an answer given twice counts twice;
- the theory step follows a passed simulado only when a report is made, not
  automatically (`docs/business-logic.md:151`), a report takes back steps ticked by
  hand, and `medico` and `psicotecnico` (`:137`) cannot be stored;
- the report counts completed lessons of any length, without hash or in dispute
  (`compliance.service.ts:35`); the practical summary does not (`:131`,
  `docs/business-logic.md:140`);
- booking does not look at the weekly grid;
- some CNH bodies have no valid check digits, as the second comes to ten, and the
  numbers the provider's fixture has as expired or suspended never pass the check;
- `schema.prisma` lacks the index `docs/database.md:180` promises.

## 8. Not modelled

- *Single-row create, read, update and delete* of profiles and of the feedback an
  instructor writes: no two steps to interleave, or only a lost update of a column.
- *Practical summary, timeline, earnings, lists*: read-only.
- *Texts, blockers and percentages* of the journey: derived from the stage.
- *OCR text recognition, uploads, mail delivery, geography, plate and CPF checks*:
  I/O or stateless; the OCR's verdict on what it recognised is modelled.
- *Guards, throttling, authentication of webhooks*: who may call, not what happens.
- *prisma/seed.ts, prisma/questions.ts, DTOs and their messages*: data and wiring.

## 9. Plan

Done, most important first: money (`Asaas`, `Escrow`, `LessonLifecycle`, the
refinement of `EscrowLedger`), sessions with the refinement of `Session`, the
calendar with the refinement of `Calendar`, journey, wallet, licence, passwords,
and the small services joined in `Services`. All safety properties are proved as
well as checked.

Left, in order of worth:
1. A log that is sealed once, implemented by `Telemetry` as long as no lesson is
   reopened.
2. The stored default card as what `charge` reads: `Wallet` and `Escrow` joined over
   one student.
