# CinemaSeat in TLA+

This directory holds the specifications kept beside CinemaSeat: TLA+ modules of
the booking core and of what talks to it, TLC configurations that check them on
small instances, and theorems that TLAPS proves for every instance. Paths below
are relative to the repository (`backend/...` is `src/backend/...` in
`PROJECT.json`); `PROJECT.json` maps every definition to the lines it stands for.

## 1. The system

CinemaSeat sells seats of a show. A visitor picks seats in the browser, holds
them for a few minutes, verifies a phone with a one-time code, pays through an
external gateway that answers by webhook seconds later, and gets a ticket. The
API runs in several replicas behind nginx over one Postgres; one worker process
runs timers and RabbitMQ consumers. Nothing is shared between replicas but the
database (the code for a Redis cache of the catalogue is there, but nothing
ever connects it, see section 5).

| Component | State it keeps | Operations | Talks to |
|---|---|---|---|
| Seat holds and bookings (`bookingService.js`, `seatRepository.js`, `bookingRepository.js`) | `show_seats` (status, hold_until), `bookings`, `booking_seats` | `createHold`, `cancelBooking`, `expireStaleHoldsAndBookings`; blind writes by payments | Postgres row locks; `outbox_events` |
| Payments (`paymentService.js`, `paymentRepository.js`) | `payments`, `payment_events`; what a request has read | `initiateCharge`, `processWebhookCallback`, `requestRefund` | gateway client, bookings, seats, outbox |
| Reconciler (`workers/paymentReconciler.js`) | the list of stuck payments of a run | `reconcileStuckPayments` every 30 s | `processWebhookCallback` |
| Sweeper (`workers/holdSweeper.js`) | an open transaction | every 10 s | bookings, seats |
| Outbox publisher, RabbitMQ channel, consumers (`workers/outboxPublisher.js`, `config/rabbitmq.js`, `workers/*Consumer.js`) | `outbox_events`, the cached channel and its setup, `processed_events`, `notifications` | publish every 3 s, consume, acknowledge, reject | RabbitMQ |
| Gateway client (`services/gatewayClient.js`) | circuit breaker of one replica | `charge`, `refund`, `sendOtp`, `verifyOtp` | gateway |
| OTP (`services/otpService.js`, `otpRepository.js`) | `otp_verifications` | `sendOtp`, `verifyOtp` | gateway client |
| Gateway (`gateway/server.js`, a mock of an external service) | a loop with a timer per callback to send | `/charge`, `/refund`, `/otp/*`; webhooks with retries, duplicates, growing delays | webhooks of the API |
| Webhook route (`middleware/rateLimiter.js`, `hmacVerifier.js`, `webhookController.js`) | requests counted in this window, per replica | admit or answer 429; handle the event | `processWebhookCallback` |
| Browser: picking, paying, waiting (`frontend/src/components/SeatPicker.tsx`, `app/checkout`, `app/booking`) | per page: seat map and selection, checkout step and countdown, poll | the clicks, `setInterval`s, fetches | API |
| Browser: catalogue pages (`frontend/src/app`, `api/client.ts`, `api/mock.ts`) | the page that is rendered, from several calls | home, showtimes, seat map, each with a fallback to fixtures | API |
| Static page of the backend (`backend/public/app.js`) | one global state object, intervals | choose a show, hold, pay, look at the ticket | API |
| Catalogue (`catalogService.js`, `config/redis.js`) | `movies`, `shows`, ... | reads, creates, deletes | Postgres |
| Authentication, signatures, routes (`middleware/`, `authService.js`) | - | per request | - |
| Compose files, nginx, load tests, scripts | - | - | - |

### What makes it hard

- **READ COMMITTED and blind updates.** `holdSeatsTx` is one guarded UPDATE and
  safe by itself. Everything else writes by primary key what an earlier read,
  often outside the transaction, suggested: `cancelBooking`, callbacks, refunds,
  the sweeper.
- **Time.** A hold ends by the clock of the database; nobody is told. Until the
  sweeper comes the seat is free for others and the booking still PENDING.
- **The gateway answers when it likes:** before `/charge` answers, after the
  hold ended, twice, or never. Callbacks name a booking, not a payment, and are
  matched to the newest payment of that booking.
- **The reconciler** makes up FAILED events for payments whose callback is late.
- **One process, overlapping timers:** `setInterval` does not wait for the run
  before, so sweeps, reconciler runs and publisher runs overlap with themselves,
  and share a channel that one of them may still be setting up; a rejected promise
  ends the worker.
- **Bodies that cannot be read:** `request` in `client.ts` turns an error while the
  body of an answer is read into an answer with nothing in it (:73). An aborted, cut
  or garbled answer is then an empty list or an empty hall, not a failure.
- **A shared breaker:** calls that were out when it tripped still report to it.
- **Callbacks are at-least-once, up to a point:** an attempt whose answer was lost
  is repeated while its handler still runs, on whichever replica; a sender gives
  up after eight attempts, which 429s use up too, and dies with its process.
- **The browser:** answers out of order, closures with old state, buttons whose
  disabling is all there is against a second charge. The static page disables
  none: holds, countdowns and charges of several bookings overlap.
- **Fallbacks:** a catalogue page is made of several calls, any of which may fail
  while the catalogue changes, and fixtures take the place of what is missing.

### What makes each component correct

- Seats and bookings: a seat has one owner; the row of an owned seat says so; a
  seat that is taken has an owner; the sweeper frees only holds that ran out; a
  booking loses a seat only by its own end; holds that ran out come back.
- Payments: one charge per idempotency key, sent once; a confirmation uses up an
  event of a charge of that booking which the gateway took; an event that is
  recorded takes effect, or has nothing left to do; a payment changes together with
  its booking; the newest payment does not stay PENDING.
- Outbox: a published event is somewhere or known lost; nobody is notified
  twice; an event recorded and not notified is in the dead letter queue or was
  itself being worked on when the process ended.
- Codes: VERIFIED only if the gateway said so; a number of guesses bounded by the
  requests that run together and those that end before they are counted.
- Breaker: opens only for faults, serves its cooldown.
- Callbacks: a charge is decided once, its event acts once and never against the
  decision; what a sender counts as delivered is committed; senders end.
- Browser: the selection agrees with the map, the map never goes back, one
  charge per visit, polls end.
- Static page: the countdown is that of the booking which would be paid, one
  charge per opening of the modal, a ticket only for what was paid, and a way
  back to the hold button.
- Catalogue pages: fixtures are labelled, a film that is on is not said to be off
  (but for lost bodies and forced fixtures), a hold is of what was selected, a fixture map gives way to the live one.

## 2. Modules

| Module | Models | Extends / refines |
|---|---|---|
| `SeatAllocation` | who has which seat, and how seats change hands | the abstract view of `SeatBooking` and of `Checkout` |
| `SeatBooking` | seats, bookings, hold, cancel, sweep, the clock | implements `SeatAllocation`; the abstract view of `Checkout` |
| `Callbacks` | what a payment callback promises | the abstract view of `Webhooks` and of `Checkout` |
| `Checkout` | payments, webhooks, refunds, reconciler, gateway | extends `SeatBooking`, implements `SeatSpec`, `SeatAllocation` and `Callbacks` |
| `Webhooks` | senders, limiters, handlers and transactions of callbacks | implements `Callbacks` |
| `Outbox` | publisher runs, channel, broker, consumer | |
| `CircuitBreaker` | the breaker as a component: reports of calls, time | |
| `OtpVerification` | the OTP table and its handlers, behind the breaker | extends `CircuitBreaker` |
| `Client` | one visitor: picker, checkout and booking page, calls in flight, the API as they see it | |
| `StaticPage` | the page the API serves, its calls in flight, the API as it sees it | |
| `Browse` | home, showtimes and seat page, fixtures, the catalogue | |
| `SeatBookingProofs`, `CheckoutProofs`, `WebhooksProofs`, `OutboxProofs`, `OtpProofs`, `ClientProofs`, `StaticPageProofs`, `BrowseProofs` | theorems of the module of that name (`OtpProofs`: of `CircuitBreaker` too) | |
| `MC*` | small sets and symmetry for TLC | |

### SeatBooking

`seat`, `booking` are the tables; `booking[b].seats` is `booking_seats` and
`grant` the `hold_until` returned to the client. `cancelling` holds the requests
that passed the status check of `cancelBooking`, which is made before BEGIN.
`sweep[w]` is the open transaction of a sweep: the seats its first UPDATE locked and
the bookings its SELECT found; what is locked cannot be written by others
(`WriteBooking`, `CreateHold` and the first UPDATE of other sweeps wait), what is
found can. `Sweepers` are the sweeps that may be under way together: the timer does
not wait for the last one, which lasts as long as its locks make it wait. A sweep
that waited takes, in the code, only what had lapsed when it began, since `NOW()` is
the start of its transaction; in the model it takes what has lapsed by the time it
gets the locks, which is what a sweep begun then takes. Every other transaction
is one step at its commit, which is sound at READ COMMITTED because it is one
guarded UPDATE, or blind UPDATEs by key under row locks.

`ConfirmBooking` and `FailBooking` are the writes of payments. In this module
they may come at any time for any booking, so what is proved of it holds
whatever payments do; `Checkout` says when they come.

Blind writes can hand a seat to two bookings. `trespass` records the seats to
which that happened, and the ownership properties speak of all other seats: they
show that blind writes over a live owner are the *only* way ownership breaks.
`NeverSoldTwice` (run `sold_twice`) shows that this way is open.

`SeatAllocation` is the same without rows, times and transactions: the seats each
booking has. `Take` is a hold (or a late payment whose seats are still free),
`GiveBack` any end of bookings, `Overwrite` a late payment or cancellation over
seats that others have, `Forfeit` a sweep that ends bookings which have seats.
`SeatBooking` implements it with `owns` the seats of a booking outside `trespass`
(`SeatsOf`) and `contested` as `trespass` (`AllocationIsKept`). It says what the
invariants of one state do not: a booking takes its seats all at once, keeps every
one of them until it ends or they are overwritten, and no seat goes from one booking
to another in one step.

### Checkout

A handler is a request being served; `job[h]` is what it has read. `ChargeRead`,
`ChargeCreate`, `ChargeSend` are the three parts of `initiateCharge` (lookups,
INSERT, call to the gateway), `HookRead` and `HookDuplicate`/`HookAgain`/
`HookSucceeded`/`HookFailed` the two of `processWebhookCallback` (reads, then the
writes at commit), `RefundRead`/`RefundApply` those of `requestRefund`.
`ReconcileFind`/`ReconcileNext` are a run of the reconciler, `stuck[r]` the rest of
its list and `job[r]` its transaction; `Reconcilers` are the runs that may overlap.
Their events are FAILED with a fresh id (`ReconcileEvent`; two runs that take up one
payment in the same millisecond would make the same id, and the second would find a
duplicate, which is left out). `gateway[p]` is the gateway's verdict on a charge;
from then on its callback may arrive any number of times, so duplicates, retries
and the delay of 2-15 s need no state. That the gateway and the way there can be
replaced by this is what `Callbacks` is for, below. `RequestLost` ends any request at any
point: crash, database error, refused or failed call.

### Callbacks and Webhooks

`Callbacks` has two steps: the gateway decides a charge, and the backend acts on
the event of a decided charge that it has not acted on. `Webhooks` says how the
event travels: `sender[c][i]` is a run of `sendWebhookWithRetry` (`timer`: its
`setTimeout` runs, `out`: its `fetch` has not returned), the second copy being the
duplicate the gateway may draw when the first timer fires. `hook[h]` is a request
in `/webhooks/payment`: admitted (`begun`), past the INSERT into
`payment_events` (`tx`), answered (`ok`, `bad`); `heard` is whether its sender
still listens. `used` is the limiter of a replica, which keeps its counters in its
own memory. `Insert` is the INSERT on the unique `event_id`: while another
transaction has it in hand it waits, and if it is committed it finds the
duplicate. `ReplicaCrash`, `GatewayCrash`, `AnswerLost`, `Rollback` and
`Unreachable` are the faults.

Both modules implement `Callbacks`, `Webhooks` with `acted <- {c : acts[c] > 0}`,
`Checkout` with `verdict <- gateway` and `acted <- recorded`: the events `Checkout`
acts on are such as `Webhooks` delivers. The two are not composed in one module;
`Checkout` lets a callback come whenever a sender might bring it.

### Outbox

One action per `await` of `processOutboxEvents` and of the consumer callback, and
`getRabbitMQChannel` in its parts: `Connect` and `Connected` (:12-13), which makes the
channel the module's, `Bind` and `SetUp` (:16-53), which make and find its exchange,
queue and bindings, `NotConnected` (:54). The setup is of the module's channel, not of
a local one: when a later caller has replaced it, the rest of the setup goes to the
replacement. `CachedChannel` hands out whatever is cached, half set up or closed.
Publisher runs and the consumer are its callers, so a connection is named by the
caller that opened it. `wire[k]` are messages written to a connection and not read by
the broker, `queue` the durable queue once `bound`; until then the exchange drops what
arrives. There are no publisher confirms, so `wire` is lost with its connection
(`lost` is a history of both). `Crash` ends the process at any point;
`ConnectionLost` leaves it alive with a dead cached channel; `ConsumeFails` is the 404
for a queue that is not there yet. `ConsumerCheck` has the failing INSERT, which sends
the message to the dead letter queue, recorded or not. The asserts and binds
of a setup are one step and one queue stands for both; a message written before even
the exchange is there (a 404, an 'error' event) is one of the crashes.
The analytics consumer is the same without `ConsumerWork` and has no module of its own.

### CircuitBreaker and OtpVerification

`calling` are the calls in flight; each ends in `CallOk`, `CallRejected` (4xx,
reported to nobody) or `CallFailed`. `wait` is `nextAttemptTime - now`.
`OtpVerification` puts the codes of one reference behind it, together with
charges and refunds on the same replica (`OtherCall`), because these trip the
breaker for codes too. Every SQL statement of `otpService.js` is a step, and may throw
instead (`StatementThrows`); `ReplicaDies` ends all requests of the replica at once and
starts it again with a closed breaker (`BreakerRestart`). `lost[r]` is a history: the
requests that turned to the gateway about a code and ended before the UPDATE that
would have counted them.

### Client

`picker`, `checkout`, `poll` are the React state of the three pages; `fetches`,
`hold`, `asks` and `checkout.request` the calls in flight, which are answered in
any order, late or with an error. `seats`/`version`, `booking`, `sent`/`open`/
`charges` are the API as these pages can tell it. `version` lets us say that the
map never goes back. An answer may come without its body (`MapArrivesEmpty`): the
picker then shows a hall without seats, `NoSeats`. `Refresh` aborts the call before
it, and `Aborted` says what that leaves: nothing, if it was waiting for its answer; if
its body was being read, an empty hall, or the seats if only the show was outstanding.

### StaticPage

`show`, `selected`, `active`, `handle` are fields of the global `state` object of
`app.js`; `ticking` are the intervals that run, by the booking they were started
for; that only the one `handle` can stop does so is to be shown. `holds` and `pays` are the
calls of `handleHoldSeats` and `executePaymentCharge` in flight, each with what it
captured: the page is free to change under them, because nothing is disabled and
nothing is aborted. The charge goes on to the 2.5 s timer and to the look at the
booking (`CheckTimer`, `CheckRead`, `CheckArrives`), which reads `active` anew.
`booked` and `charged` are the API: bookings, and payments by idempotency key.
Seats of a show that come late are kept as "any seat may look free".

### Browse

A page of the frontend is rendered on the server from one to three calls made one
after the other, each of which may fail or be skipped. `load` is the page under
way with what has been answered, `shown` the page on screen, so that the catalogue
(`movies`, `shows`) may change in between. A call is answered, is answered without a
body, fails, or is not made at all (`forceMocks`). `missing` and `unread` are histories
since the page was opened: films the catalogue was without, and whether a body was
lost. `FromFixtures`, `WithoutFilm` and
`Inferred` are the three fallbacks. `Toggle`, `RefreshAnswered`, `RefreshFails`,
`HoldGranted` are the seat picker once more, here for what a map of fixtures does
to it; `Client` has the rest.

## 3. Runs

Twelve runs, each a question. "Violation" runs check one sentence of the
repository against what the code does. The type invariants are not among the
properties of the runs: they are proved (section 4).

| Run | Bounds | What it shows |
|---|---|---|
| `seat_safety` | 2 seats, 2 bookings, 2 overlapping sweeps, hold of 1 tick, clock to 4 | ownership invariants, no booking moves another's seat, `SeatBooking` implements `SeatAllocation`, lapsed holds come back and bookings that lost a seat end |
| `checkout_safety` | 1 seat, 2 bookings, 2 keys, 2 payments, 1 handler + 1 reconciler run + 1 sweep | every confirmed booking was paid; payments move with their booking; `Checkout` implements `SeatBooking` |
| `checkout_race` | 1 booking, 2 keys, 2 payments, 2 handlers, 2 overlapping reconciler runs | each charge is sent once, an event confirms once, a recorded event takes effect; `Checkout` implements `Callbacks` |
| `checkout_liveness` | 1 seat, 2 bookings, 3 payments, 1 handler, clock to 1, from `RetriedInit`, fair worker | the newest payment of a booking is settled though callbacks are lost and other payments stay on the reconciler's list |
| `webhook_delivery` | 1 charge with 2 senders, 2 replicas, 2 handlers, 2 attempts, limit 2 | answers find their attempt, an event acts once, delivered means committed, senders end; `Webhooks` implements `Callbacks` |
| `outbox_safety` | 1 event, 2 overlapping runs, 2 slots, 2 copies, 1 fault | at most one notification; where an event is that is marked PUBLISHED or recorded; nothing is given up unless written or after a fault |
| `otp_safety` | 2 handlers, 2 codes, 2 attempts, threshold 2, cooldown 1, 1 uncounted request | guesses, VERIFIED and that it stays, the cooldown |
| `client_safety` | 2 seats, 2 calls in flight, 3 changes, 2 visits | the pages against late, lost, empty, aborted and reordered answers; polls end |
| `page_safety` | 1 show, 1 seat, 2 holds and 1 charge in flight, 2 bookings, 2 openings | countdown, charges, tickets, and the way back to the hold button |
| `browse_safety` | 2 live films with a show each, 2 fixtures | labels, absences, whole holds; a fixture map gives way |
| `sold_twice` | violation | "the same seat is never sold twice" (README.md:3): a late callback confirms a booking whose seat was sold to another |
| `cancel_confirmed` | violation | "Cannot cancel a confirmed booking directly" (bookingService.js:127): the check is before the transaction |

### Bounds, and why they are enough

- *Seats, bookings.* Ownership relates one seat to at most two bookings; the
  second seat makes a hold and a booking that lost only part of its seats.
  Two bookings on one seat are enough to lose, retake and revive it.
- *Clock.* `HoldTime` 1 and `MaxTime` 4 leave two holds one after the other and
  time after each; `CreateHold` grants no hold the clock would not outlast, so
  that stopping the clock hides no expiry. In `Checkout.cfg` `HoldTime` is 0: a
  hold is good for the instant it was granted in and lapses with the next tick,
  which keeps the product with payments small and every order of lapse,
  takeover, callback and sweep.
- *Payments.* `MaxPayments` 2: callbacks are matched to the newest payment, and
  older/newest is all the code tells apart. `StuckAge` 0 lets the reconciler
  give up one tick after the charge, before or after the hold ends. The liveness
  run has a third payment, of another booking: only then can one payment keep the
  reconciler from another. It starts in `RetriedInit`, a state `Init` leads to in
  which a booking was charged twice and cancelled, because from `Init` three
  payments do not fit the run's time.
- *Sweeps and reconciler runs.* Two of a kind overlap in `seat_safety` and in
  `checkout_race`: a third would wait for the same rows or read the same list. With
  two sweeps at a time the other runs of `Checkout` are beyond TLC; what it adds there
  is in the proofs, which are for any number of both.
- *Handlers.* Two requests between whose steps the other acts; in
  `checkout_safety` the reconciler and the sweeper are the second actor.
- *Outbox.* `MaxCopies` bounds the copies of one event on their way, two being what
  overlapping runs and redeliveries need; `MaxFaults` crashes and lost connections
  together. What happens to one event does not depend on others but through the order
  of a batch, which the proofs have (any number of events).
- *Webhooks.* Senders of different charges share only limiters and handlers. One
  charge has two senders, hence two attempts of the same event at once, on two
  replicas; `OtherHook` stands for everybody else at the limiter. `MaxRetries` 2
  stands for 8, `MaxHooks` 2 for 60.
- *Static page.* Two hold calls in flight overlap in every order and grant two
  bookings also on one seat, since a hold that ran out is released; choosing the
  same show again does all that choosing another would. `MaxOpenings` 2 gives a
  second key; a second charge in flight is a second click, which the API answers
  by key.
- *Catalogue pages.* Two films tell the one asked for from another, and so do the
  two fixtures, of which one is the film `inferMovieId` knows. `LiveSeats` and
  `DemoSeats` share some labels and not all.
- *OTP.* `MaxAttempts` stands for 5, `FailureThreshold` for 5, `Cooldown` for
  10 s, `Lifetime` for 5 min. `MaxLost` is how many requests on one row may end
  uncounted; the bound on guesses grows by one with each, which is proved for any
  number. The failure count is kept up to the threshold,
  above which the code does not tell counts apart.
- *Client.* `MaxVersion` bounds the changes of the hall while the picker is
  open, `MaxVisits` mounts of the checkout page, `Asks` the `getBooking` calls
  in flight, `GiveUp` the 120 s of the poll in intervals, `HoldTtl` the 300 s.

Deadlock is checked in `otp_safety`, `page_safety` and `browse_safety`. Elsewhere
`CHECK_DEADLOCK FALSE` is set because the modelled world may really stop: all
bookings ended and the clock at its bound, all events handled, all senders ended,
the visitor on the page of an expired hold.

### Fairness

- `SeatBooking`: the sweeper runs on `setInterval` as long as the worker lives,
  so a find that stays possible happens (WF, for each of the sweeps that may overlap).
  A sweep may be the victim of a deadlock and roll back, and is tried again 10 s
  later: SF on its commit says it is not the victim for ever. With overlapping sweeps
  that is not enough: each might commit while it has locked nothing and be the victim
  whenever it has. SF on `LockingCommit` says that those which have locked seats are
  not all victims for ever; the first of them has nobody to wait for, so a database
  that breaks a deadlock by ending one of two lets it through sooner or later.
- `Checkout`: the same, the clock, the reconciler's timer and loop (WF), and SF on
  its transaction for any one payment, which may be rolled back as well, for each run
  that may be under way. SF on its
  transactions together would not be enough, and TLC says so: a payment which is not
  the newest of its booking stays PENDING and on every list
  (`paymentReconciler.js:12-24` fails the newest), and an error ends the run, so it
  could be taken first each time and the run be cut off after it. A run with one booking, or with two
  payments, does not show this. Callbacks, clients and the gateway are
  not fair: they may stay away for ever.
- `Webhooks`: a `setTimeout` fires, and a request that a sender waits for is served
  and answered (WF, for each sender). Nothing makes it end well, and requests nobody
  waits for need not end.
- `Client`: the browser runs its interval, and a `fetch` ends in an answer or an
  error. The visitor need not do anything.
- `StaticPage`: a countdown that runs gets to its end (WF).
- `Browse`: the picker asks again every few seconds and, as long as a map of
  fixtures is shown, the API does not stay away for ever (WF): this is the condition
  of the banner's own promise, "when available".

Except for that last one, liveness properties speak of what the code itself must
do and rely on the fairness of no other party.

## 4. Theorems

Checked by TLAPS for every value of the constants (any number of seats, bookings,
keys, handlers, payments; any times), under the assumptions named in the modules
(bounds are naturals, thresholds positive, the handlers of a replica and the slots of
a consumer are finitely many, a run of the reconciler is not a handler, and there is
some sweep and some such run).

| Theorem | Says |
|---|---|
| `SeatTypeCorrect`, `SeatInvariant`, `SeatHasOneOwner`, `OwnersHaveTheirSeats`, `TakenSeatsHaveOwners`, `SweepSparesLiveHolds` | `SeatSpec => []SeatInv` and its parts |
| `OwnersMoveTheirSeats` | a seat moves with its owner's end or by a recorded trespass only |
| `SeatBookingKeepsAllocation`, `CheckoutKeepsAllocation` | both implement `SeatAllocation` |
| `SoldTwiceWasOverwritten` | a seat two confirmed bookings name was overwritten, or swept from a booking that had it |
| `TypeCorrect`, `CheckoutImplementsSeatBooking` | types; every step of `Checkout` is a step or a stutter of `SeatBooking` |
| `CheckoutOneOwner`, `CheckoutSweepSparesLiveHolds` | what was proved of `SeatBooking`, carried over by the refinement |
| `PayInvariant`, `KeyChargesOnce`, `GatewayCalledOnce`, `CallbacksCarryVerdicts`, `TicketsArePaid` | `Spec => []PayInv` and its parts |
| `ConfirmsUseUpEvents`, `RecordedEventsTakeEffect`, `PaymentsMoveWithBookings` | what a step of `Checkout` may never do |
| `CheckoutKeepsCallbacks`, `WebhooksKeepCallbacks` | both implement `Callbacks` |
| `WebhooksTypeCorrect`, `AnswersFindTheirAttempt`, `TransactionsExclude`, `EventsActOnce`, `DeliveredIsCommitted` | delivery, for any number of attempts, replicas and handlers and any limit |
| `OtpTypeCorrect`, `OtpInvariant`, `VerifiedAccepted`, `VerifiedForGood`, `GuessesAreBounded` | the codes |
| `OnlyFaultsTrip`, `CooldownServed` | the breaker |
| `OutboxTypeCorrect`, `NotifiedAtMostOnce`, `RecordedWereAnswered`, `PublishedCanBeFound`, `GivenUpOnlyAfterFaults` | the outbox, for any number of events, runs asking for channels, slots, copies and faults |
| `ClientTypeCorrect`, `VisitsChargeOnce`, `SelectionIsFree`, `MapOnlyGoesForward` | picking and paying |
| `PageTypeCorrect`, `CountdownFollowsBooking`, `OpeningsChargeOnce`, `TicketsWerePaid` | the static page |
| `BrowseTypeCorrect`, `FixturesAreLabelled`, `AbsencesAreTrue`, `HoldsAreWhole` | the catalogue pages |
| `LapsedSeatsAreReclaimed`, `LostBookingsEnd`, `CheckoutReclaimsLapsedSeats`, `CheckoutEndsLostBookings` | holds that ran out come back and their bookings end, with and without payments |
| `NewestPaymentsSettle` | the newest payment of a booking does not stay PENDING (up to 64 ticks and payments) |
| `EverySenderEnds`, `EveryPollStops` | retries and polls end (up to the code's eight attempts and sixty polls) |
| `HoldButtonComesBack`, `DemoGivesWay` | the way back to the hold button; fixtures give way |

**Why one owner is inductive.** `OneOwner` alone is not: to grant a hold the code
looks at the row of the seat, not at bookings. `OwnerHasSeat` ties the two: an
owned seat outside `trespass` is BOOKED, or HELD until exactly the time granted.
Hence a seat that is AVAILABLE or lapsed has no owner (`HoldableUnowned`), and
a hold makes the only one. The sweeper needs `SweepsOnlyLapsed`: what it locked
is still lapsed when it commits, since nobody else could write it and time only
moves on. Of overlapping sweeps one at a time has seats locked (`OneSweepLocks`). The
proof goes seat by seat (`SeatBySeat`) with a lemma per action.

**Why tickets are paid.** `ConfirmedWasPaid` needs the callback in progress to
be honest: `CallbackCarriesVerdict` keeps, from the reads to the commit, that a
SUCCEEDED event names a charge of that booking which the gateway took. That in
turn needs the verdict not to change, which is `ChargedOnce`: a handler about to
call the gateway is alone with its payment and the gateway has not seen it, and
that needs `OneChargePerKey`'s row to be new.

**The refinement** is by identity on the variables of `SeatBooking`; the steps of
payments map to `ConfirmBooking`, `FailBooking` or stuttering
(`StepIsSeatStep`). TLC checks the same in `checkout_safety`.

**Action properties.** `OnlyOwnerMovesSeat` and the two of `Checkout` are proved
step by step from the invariants: a sold seat has no time left (`SoldHasNoTime`),
so no sweep takes it, and the booking a callback writes is the one it read
(`CallbackReadItsBooking`).

**Why a recorded event takes effect.** What is recorded is dropped when it comes again,
so an event that is let go in the step that records it is let go for good. That is
right only if the SUCCEEDED status the callback went by, which may be stale, came from
an event of that booking already recorded: `SucceededWasPaid` keeps this for the rows
of the table and for what callbacks in progress have seen of them, and `PaidStays`
says that it does not wear off when the row is overwritten. The event that paid may
since have been undone by a refund or a failure; the property does not say that the
booking is CONFIRMED, because it need not be.

**Why an event acts once.** The COMMIT keeps it only if the event is not recorded
yet. `Insert` saw to that, and it stays so because no second transaction has the
event in hand (`OneTransaction`, `TransactionIsFirst`). `AnswersTheAttempt` pairs a
sender that waits with the one handler it listens to; without it a late answer
could stop a sender whose event was rolled back. The refinement of `Callbacks`
follows: the step that acts is that COMMIT.

**The codes.** `VerifiedWasAccepted` becomes false only where a handler writes
VERIFIED, a step after the gateway's answer; `MarksAccepted` says that a handler
about to do so holds a 200, `RowsExist` that its row is in the table.
`VerifiedForGood` adds that nobody who read the row earlier is left.
`GuessesBounded` needs an account (`Budget`): while a row lets requests in, the
gateway was asked at most once for each attempt written, each request between its
call and its UPDATE (`Asks`), and each that ended there (`lost`), so with those let in
but not yet through the guesses stay below `MaxAttempts` plus the number of handlers
plus those lost; a row that has closed stays closed
(`MarksClose`, `RowsClose`), and only the requests already let in remain.
`OnlyFaultsTrip` and `CooldownServed` follow from the breaker's five reports;
`StepIsReport` reduces each step of the handlers to one of them.

**The outbox.** `Consumed` carries the consumer's side: `WorkIsFirst` says that the
INSERT into `processed_events` lets one slot work on an event, ever, so a
notification is the first one; `CutOffIsQueued` and `CheckedIsRecorded` say what
redelivery may find. What became of a recorded event is said of that event alone:
`cutOff` has those being worked on when the process ended, and no other fault excuses
one. `Traced` (`WritesAreTraced`) follows an event from the run that wrote it to where
it ended, since PUBLISHED is written a step after the socket; `CallsAreAsked` and
`FaultsAreCounted` say who is setting up a channel and that a closed one was a fault.

**The browser.** `ClientTypes` needs `OnTheWay`: only a granted hold leads to
checkout. One charge per visit needs what may still be paid (`ChargesLeft`), and a
map that never goes back what is still in flight (`MapsInOrder`).

**The static page.** The countdown is inductive as it stands. One charge per
opening needs to know where keys come from (`KeysWereOpened`), a ticket what a
status read earlier stands for (`PaidWhenConfirmed`).

**The catalogue pages.** `LoadIsHonest` is what a loader keeps from the calls that
were answered, and that a live film it goes without has been missing, or a body lost,
or nobody asked (`MayBeAbsent`); `SelectedIsOffered` that a selection is of the map on
screen.

**The seat allocation.** An action of `SeatBooking` maps to `Take`, `GiveBack`,
`Overwrite`, `Forfeit` or to a stutter. That a hold takes from nobody is
`HoldableUnowned` again; that the write of a booking which still runs meets nobody
else's seat is `OneOwner` (`SeatsApart`). `Checkout` follows by its own refinement.

**Liveness.** The prover has no rules for `ENABLED`, so that fairness bites is a
premise of each of these theorems: `SweepCanRun`, `SweeperCanRun`,
`ReconcilerCanRun`, `CallbacksCanRun`, `PollCanRun`, `TimerCanEnd`,
`RefreshCanConnect` say of each fair action that it is enabled where its guards
hold, and nothing else. TLC, given them as invariants on the instances of the runs,
finds them true; they are true in general by reading the action, and the theorems
use fairness only through them. From there:

- *Sweeps* (`SweepKeepsFinding`, `CommitEnds`). A seat that lapsed after a sweep
  began is not in it, but that sweep ends, by commit or rollback, and the next one
  finds it; what it found it still has when it commits. With several sweeps, those
  that lock seats cannot all go on rolling back (`LockingCommitEnds`), so that no seat
  is locked time and again, and any one sweep then gets to look (`SomeSweeps`).
- *The newest payment.* The reconciler's transaction waits for the seats a sweep
  has locked, so first: the clock stops, the first sweep that begins then frees all
  that lapsed, and no seat is locked from then on (`Clear`). Then: a list made
  before the payment was stuck gets shorter or is given up (`ListEnds`), the next
  one has the payment on it, so its turn comes over and over (`TurnComes`), and
  its own fairness settles it: the row the reconciler finds is the payment's,
  since it is the newest, and its FAILED event was never seen (`TakeAndSettle`).
- *Senders.* While a sender waits one handler listens to it (`HeardInvariant`), and
  each answer brings it one attempt further or to its end (`Tried`).
- *Polls.* An interval that runs fires again, since each call it made ends.
- *The hold button* returns because while it is hidden a countdown runs.

Counting to a bound is an induction over temporal formulas, which the prover does
not have. These proofs double instead: what gets from k to k + m for every k gets
from k to k + 2m. So they reach eight attempts and sixty polls, which are the code's
own, and, for `NewestPaymentsSettle`, 64 ticks and 64 payments, where the code has
no bound and the model has.

Only model-checked: that the fair actions are enabled where their guards hold.

The parts of `SeatInv` not listed in the table are proved as conjuncts of it.

## 5. Where code and text part

Shown by a violation run: see the table in section 3. Met while modelling and not
given a run:

- A FAILED event turns a SUCCEEDED payment into FAILED and cancels its booking;
  only SUCCEEDED after SUCCEEDED is stopped (paymentService.js:139).
- A charge may be opened on a hold that ran out: only the status is asked
  (paymentService.js:22), the timer is the browser's (HoldTimer.tsx:7).
- Two idempotency keys open two charges for one booking;
  docs/architecture.md:151 names an index that does not exist.
- The sweeper may expire a booking confirmed after it was found
  (bookingService.js:172-175).
- A PENDING booking all of whose seats went to others is never expired
  (bookingRepository.js:110); docs/architecture.md:100 says it is.
- Concurrent verifications pass the limit of five attempts by one each
  (otpService.js:47), and a guess is counted only after the gateway was asked, by a
  statement that may fail (:64, :69, :76) or a replica that may die before it: such a
  guess is never counted. `GuessesBounded` states both; an open circuit costs an
  attempt.
- A late verification marks a VERIFIED row FAILED or EXPIRED.
- README.md:190 and docs/architecture.md:62 promise seats locked in sorted order;
  no query sorts them. Postgres breaks the deadlocks.
- A webhook that fails in the database answers 500 (webhookController.js:11 says
  always 200), and the gateway gives up after eight tries (server.js:13).
- HALF_OPEN lets every call through. 4xx answers leave it HALF_OPEN.
- Checkout goes on with a made-up booking reference when the code cannot be sent
  (checkout page:78; docs/api.md:102 says a missing OTP must not cost the seat),
  and counts down 300 s of its own (README.md:207 says the server's time).
- The seat picker does not catch a failed hold: its button stays disabled.
- Redis is never connected: `getRedisClient`, which would, is only called where
  `isConnected()` is true already (redis.js:8, 34). Every cache lookup goes to the
  database and the limiters count for themselves (rateLimiter.js:19); README.md:191
  and docs/architecture.md:67, 117 describe a cache and limits across replicas.
- The reconciler means to "mark FAILED and release seats" of the stuck payment
  (paymentReconciler.js:13); its event names the booking, and the newest payment of
  the booking is the one that is failed, which may be another.
- "Outbox events remain PENDING" when RabbitMQ is away (outboxPublisher.js:21), but
  the channel that is cached is handed out after its connection is gone
  (rabbitmq.js:9): `publish` throws, and the event is FAILED, which nothing fetches.
  `GivenUpWasWrittenOrCutOff` is what does hold.
- The channel is cached before its setup (rabbitmq.js:13): on a broker that does not
  have the queue yet, an overlapping run publishes what the exchange drops and marks
  it PUBLISHED, and a consumer started on it gets a 404 whose 'error' event ends the
  worker. Two callers that both find no channel open two connections, of which the
  first is never closed. A setup that fails leaves its channel cached.
- "Reject message to DLQ if retry exhausted" (notificationConsumer.js:69): there is no
  retry; one exception, that of the idempotency check (:24) too, is enough. An event
  may so be dead-lettered without having been recorded, and one whose message comes
  back after the worker died in the middle of it is skipped as processed (:25).
- An answer whose body cannot be read counts as an answer with nothing in it
  (client.ts:73): a film that is on is "not on this week", a hall has no seats and the
  visitor's selection is dropped, and a hold that was granted has no id, with which
  checkout goes on to a made-up reference. An abort while the body is read is one such
  case, in the picker (SeatPicker.tsx:59).
- A site built to use fixtures asks nobody, and says of any film that is not a fixture
  that it "isn't on this week" (showtimes page:30, :59).
- "This page updates itself the moment the gateway responds" (booking page:34) goes
  on being shown when the page has stopped asking: `fetchBooking` sees the booking
  of its first render, null, so any failed call ends the polling (:98).
- `inferMovieId` knows one film. The seat map of another fixture film has no title
  and no way back, and a live show in an outage is headed with the film it knows
  (app/seats page:183).
- If the showtimes of a live film cannot be had, the page says "New showtimes are
  added overnight" (app/showtimes page), and a show that was deleted opens on a
  fixture map. mock.ts:7-12 says that every page falls back; the home page does not.
- Static page: the look 2.5 s after a charge uses the booking of that moment and
  fails on none (app.js:392), and there is no second look. A key that was used for
  another booking is answered with that booking's payment (paymentService.js:31).

## 6. Not modelled

- The Redis cache: it has no behaviour as the code stands (section 5).
- Authentication, tokens and signatures: functions of one request. The limiters of
  other routes than callbacks: they refuse requests, which the models allow
  anywhere.
- Theatres, screens and `updateMovie`: they change nothing that is told apart.
- Static page: the code section, the booking history, the health badge, the film
  grid; frontend: slider, hero, the resend cooldown of checkout. These fetch and
  show, and keep nothing that the modelled parts read.
- `/refund` and `/otp/*` of the mock gateway: answered from nothing, no state. Two
  refunds of one payment may both reach it (paymentService.js:252).
- Deletion of movies with their bookings and payments is in `Browse` for what pages
  show; `Checkout` has no deletion.
- Deployment, load tests, scripts.

Amounts, names, prices, phones and layout are left out everywhere. Ties of
`created_at`, and a payment inserted in another order than `created_at` says, are
left out of `Checkout` (`pay` is in that order). In `Checkout` the gateway is
over-approximated: it may call back at any time, any number of times, and never.
One replica's breaker is modelled; others have their own.

## 7. Plan

Done, in this order: `SeatBooking` and its proofs; `Checkout`, the refinement and
its proofs; `Outbox`; `CircuitBreaker`, `OtpVerification` and proofs; `Client`;
`Callbacks` and `Webhooks` with proofs of delivery and of both refinements;
`StaticPage` and `Browse` with proofs; proofs of `Outbox`, `Client`, the action
properties and the bound on guesses; `SeatAllocation`, both refinements of it, and the
proofs of liveness; overlapping sweeps and reconciler runs, the setup of the channel,
statements that fail, replicas that die and bodies that are lost, with the proofs that
they touch.

Next:
1. Proofs: what `SeatAllocation` promises, by itself; the sweeper's two findings of
   section 5 as theorems of what is then still kept; liveness of `Outbox`, for which
   the repository promises nothing yet (no confirms).
2. `Checkout` with deletion of movies, and refunds as state of the gateway.
3. The resend cooldown of checkout and the code section of the static page.
4. Two replicas' breakers in front of one gateway.

## 8. Running

In this directory: `tlc -config SeatBooking.cfg MCSeatBooking` (and likewise for
the other pairs named in `PROJECT.json`), `tlapm SeatBookingProofs.tla`. With
two workers the runs take from seconds to three minutes each; the largest are those of
`Checkout`, `OtpVerification` (2.8 million states) and `Outbox` (2.2 million).
