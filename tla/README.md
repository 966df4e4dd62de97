# Trip Mate backend: a verified model

TLA+ modules kept beside the NestJS backend of Trip Mate, a travel marketplace:
users post bookings, offices bid on them, a customer pays an offer through the Tap
payment gateway, and the money ends in the wallets of the office and of the
platform's admin. The modules are translated from the code under `src/src/module`;
TLC checks them on small instances and TLAPS proves the theorems of the `*Proofs`
modules for every value of the constants.

## 1. The system

One Node process serves HTTP requests, socket events, an hourly cron job and Bull
workers. Every handler is an `async` function: between two `await`s nothing else
runs, at each `await` anything may. State lives in PostgreSQL through TypeORM, in
Redis for the queues of Bull alone, and in the memory of the process for the sockets, the
cache (`CacheModule.register` without a store) and the table of services.

Three facts about TypeORM shape everything below:

- `repo.find*` returns objects of its own for every call (and for every row of a
  join); there is no identity map. `repo.save(entity)` writes back every loaded
  column that differs from the row: a stale copy *overwrites*. A relation that was
  not loaded is left alone.
- Unique columns and relations are what the decorators of the entities say. The only migration
  of the repository is empty, so the models that rest on one (a booking has one review, a
  phone one account) assume a database that was synchronized with the entities.
- `dataSource.transaction` is PostgreSQL's READ COMMITTED, and no query of the
  repository asks for a row lock.

| component | state | operations | made hard by |
|---|---|---|---|
| wallet (`wallet/`) | `office_wallets` (available, pending), `wallet_transactions` | credit pending / available, hourly release, request / approve / reject / cancel a withdrawal | no lock and no transaction: stale copies, crashes between two saves |
| bookings (`bookings/`, with bundle) | `bookings` (status, paidAmount, selectedOffer, deletedAt) | create (four kinds and the bundle), cancel, soft-delete, `changeStatus` | stale copies saved by payment, offers, cancel |
| offers (`offers/`) | `offers` (status, price, office) | create (replaces the office's open one), update, accept (rejects the others) | check in one statement, write in another; READ COMMITTED |
| payment (`payment/`) | `payment_transactions`, `payment_settings`, the gateway's charges | initiate partial / full / subscription payment, webhook, redirect page, side effects, split | repeated webhooks, early redirects, no transaction, errors swallowed |
| subscription (`subscription/`) | `subscription_plans`, `office_subscriptions`, two cache keys, account status | plans and their features, subscribe, cancel, trial, status and feature checks | cache filled with what was read before a change; two statements; a TTL of 0 |
| coupon, booking settings (`coupon/`, `bookings/settings/`) | `coupons`; `booking_settings` and a copy in memory | create, edit, remove, validate; switch a service on or off | an edition saves a row read before; row and memory are set one after the other |
| otp, session, account, registration (`otp/`, `auth/`, `account/`, `user/`) | one-time codes, sessions, accounts | register, generate / verify a code, login, refresh, logout, changes of phone, email, password and status | saves of rows read earlier, rotation against logout, attempts counted in memory |
| office (`office/`) | `office_profiles` with a change request, employees, a details cache | review of a registration, blocking, request / approve / reject a change, hire / remove employees, details | a cache of the profile, statuses driven from three modules |
| role (`role/`) | admin and office roles, assignments | create, edit by merging, delete, assign | pieces of one JSON column edited apart |
| chat (`chat/`) | conversations, participants, messages, sockets in memory | connect, disconnect, send, list, mark read | lookups awaited between connect and disconnect; unread counts of many conversations in one query |
| notification (`notification/`) | notification rows, Bull jobs, devices | create and queue, send with three attempts, batches and segments, mark read | crash between the row and the job, retries, a worker that writes after the reader |
| review (`review/`) | reviews | create, update, hide, delete, statistics | check then insert |
| report (`report/`) | none | sums, counts and daily charts for admins and offices | days of two time zones, inclusive ends |
| interceptors (`common/interceptors/`) | none | who is served on a route, and admitted to a feature | they decide by statuses and caches other requests change |
| the rest | banners, file upload, logging, error formatting | CRUD, I/O, layout | nothing |

How they interact: an offer moves its booking to UNDER_NEGOTIATION and, accepted, to
OFFER_ACCEPTED; a captured payment moves the booking to PARTIALLY_PAID or COMPLETED,
makes the offer ACCEPTED and selected, and credits two wallets (`creditPending` for the
office, `creditAdminAvailable` for the admin); a cron job turns pending credits into
available money after seven days; withdrawals take it out. A captured subscription payment
starts a subscription and makes the office ACTIVE, which its review, the verification of its
phone, its employer and an admin also decide; the interceptors look at that status and at
two cache keys. Notifications are sent from events other components emit; an offer lets the
customer and the office's team chat, and a completed booking lets the customer review.

What must hold, component by component (§3 says of each how far it is checked, and where the
code falls short of it): with requests one at a time and nothing failed, money is neither made
nor lost, nor a withdrawal paid twice, and however they overlap no wallet is overdrawn
(wallet); one request at a time, a decision is final and there is one selected offer (offers),
and a booking only moves forward (bookings); nothing is shown as paid that was not captured, a captured
charge is acknowledged, and nobody is credited more than the offer is worth (payment);
an office has one paid subscription and is admitted to what it paid for, by the plan as it was
cached (subscription); a coupon an admin removed gives nothing (coupon); what an admin sent last
stands (roles, plans, services); a code is tried a bounded number of times, a session that was logged out stays
out, and no save of an older row undoes what an owner changed (auth, account); who is served
as an office was let in, and what an office shows is its profile (office); an account is
online exactly while it has a registered socket, which only one that closed during its lookup
outlives, and no unread message is hidden (chat); a notification is forgotten only where an
error leaves it, none is handed over too often, and what was read stays read (notification); a
review rests on a completed booking, and is counted alike everywhere (review); the figures of a
period are the same wherever they are shown, the daily profit of an office aside (report).

## 2. The modules

| module | models | state ↔ code |
|---|---|---|
| `Escrow` | what the wallets promise, abstractly: `Deposit`, and `PayOut` of a request once | `funds`, `settled` |
| `Wallet` | `wallet.service.ts`, one action per SQL statement | `wallet`, `opened` = `office_wallets`; `tx` = credits and withdrawals of `wallet_transactions`, `audit` = their RELEASE rows; `due` = `releasableAt` reached; `job[h]` = the copies and the remaining statements of request `h` |
| `BookingStatus` | `Booking.changeStatus` | the transition table |
| `Marketplace` | one booking and its offers: `bookings.service.ts`, `bundle.service.ts`, `offers.service.ts` | `booking`, `offer` = the rows; `task[h]` = what request `h` read and will write |
| `PaymentMath` | the amounts of `payment.service.ts` in halalas | pure operators |
| `Checkout` | `payment.service.ts` for booking payments, on top of `Marketplace` | `payment`, `settings` = the rows, `charge` = the gateway, `credited` = `getTotalCreditedForBooking`, `proc[h]` = a payment request |
| `Requests` | how the process serves requests: the base of the modules below | `req[h]` = where a handler stands and what it has read; `serial` = requests one at a time; `dropped` = one was cut between two statements |
| `Accounts` | `account.service.ts`, `user.service.ts` | `account` = the rows; `asked` = what owners asked for; `proved` = how a phone came by its mark: by a code since it was set, or given (a row made verified, a new number in place of a verified one) |
| `Offices` | `office.service.ts`, `role-process.interceptor.ts` | `office`, `employee` = the rows, `details` = the cache of `getOfficeDetails`; `cleared`, `letIn` = who was let in |
| `Otp` | `otp.service.ts` | `code` = the rows, with their age; `wrong`, `accepted` = inputs compared and codes accepted |
| `Auth` | `auth.service.ts`, `registeration.service.ts`, `session.service.ts`, on `Otp` and `Offices` | `session` = the rows; `ended` = those logged out |
| `Reports` | `report.service.ts` | `made`, `paid` = the offers and payments reports are made of, `joined` = the date of an account, `profile` = the rows of `user_profiles`; `now`, `east` = the clock and the server's zone; the figures are operators. On `Auth`: `ReportsSpec` is every request on people, and the rows that come meanwhile |
| `Roles` | `role.service.ts` | `role`, `assigned` = the rows; `granted` = the permissions of the last request that sent any. A request becomes an object with every section a property of its own, undefined where it was left out (`Whole`), so the spread of the old permissions keeps none of them (`Merged`) |
| `Subscriptions` | `subscription.service.ts`, the subscription payments of `payment.service.ts`, `subscription.interceptor.ts` | `plan`, `feature`, `sub`, `pay` = the rows; `known`, `shown` = the keys `subscription_status_` and `active_subscription_`, the latter a copy of the row and of its plan's features (`Copy`), with what an admin had given the plan by then (`asked`, history) |
| `Coupons` | `coupon.service.ts`, `booking-settings.service.ts` | `coupon`, `setting` = the rows; `enabled`, `booted` = the copy in memory |
| `BackOffice` | what admins set up and offices live by, in one process: `Subscriptions`, `Coupons` and `Roles`, with restarts | theirs; `Reboot` empties `known`, `shown`, `details` and `enabled`, which are in memory |
| `Chat` | `chat.service.ts` | `conversation`, `participant`, `message` = the rows; `offered` = the offers a chat needs |
| `ChatGateway` | `chat.gateway.ts`, `online-status.service.ts`, on `Chat` | `socketUsers`, `userSockets`, `online` = the tables in memory; `rooms`; `socket` = where `handleConnection` and `handleDisconnect` stand |
| `Notifications` | `notification.service.ts`, `.processor.ts`, `.listener.ts`, `push.service.ts`, the answers of the SMS and e-mail services | `notification`, `device`, `template` = the rows; `sendJob`, `batch`, `segment` = the jobs in Bull; `accepted`, `reached` = what providers took; `trouble` = what errors left behind (rows a batch let go of, recipients it saved no row for, attempts that marked nothing) and whether the process died |
| `Reviews` | `review.service.ts` | `review` = the rows; `completed` = bookings that are over |
| `Messaging` | what people tell each other, in one process: `ChatGateway`, `Notifications` and `Reviews`, while accounts, offices and employees change | theirs; `Crash` closes every socket and empties `socketUsers`, `userSockets`, `online` and `details`, which are in memory |
| `Sums` | the sum of the amounts in a set of rows, as `BooksBalance`, `PaidMatchesLedger`, `Stats` and the reports write it | a pure operator |
| `MCWallet`, `MCMarketplace`, `MCCheckout` | instances for TLC | symmetry, settings |
| `MCAccounts`, `MCSubscriptions`, `MCMessaging` | compositions for TLC | `focus` = which requests come; the starting points |
| `WalletProofs`, `CheckoutProofs` | theorems about overlapping requests on the money (§4); the second half of `WalletProofs` is about requests one at a time | |
| `SerialProofs` | theorems about offers and payments with requests one at a time | |
| `AccountProofs` | theorems about `Auth!IdentitySpec` and `Reports!ReportsSpec` | |
| `CatalogProofs` | theorems about `Coupons!CouponsSpec` and `Roles!RolesSpec` | |
| `SubscriptionProofs` | theorems about `Subscriptions!SubscriptionsSpec` and `BackOffice!BackOfficeSpec` | |
| `MessagingProofs` | theorems about `Notifications!NotificationsSpec`, `Reviews!ReviewsSpec`, `ChatGateway!ChatSpec` and `Messaging!MessagingSpec` | |
| `SumProofs` | what a sum is after one of its rows has changed, and a sum taken class by class | |

What composes what: `Checkout` extends `Marketplace` (with `BookingStatus`) and
`PaymentMath`; `Wallet` implements `Escrow`, by `Promise == INSTANCE Escrow WITH funds <-
heldFor, settled <- paidOut`. `Auth!IdentitySpec` is every request on accounts, codes, sessions
and offices, from empty tables: the specification the theorems about them are of.
`Reports!ReportsSpec` puts under them the rows that reports read: each request on people also
dates the accounts it makes (`PeopleStep`), offers and payments come and are decided at any
moment, and `deleteProfile`, whose two statements no transaction joins, may end after the first
(`DeleteProfile`). An office that has made an offer is not deleted, since `offers.office_id` is a
foreign key without a rule for deletion (`OfficesOfOffers`).
`Coupons!CouponsSpec` (coupons, settings and restarts) and `Roles!RolesSpec` are the same for
what an admin keeps; they leave open what becomes of the accounts.
`Subscriptions!SubscriptionsSpec` is every request on plans, subscriptions and their payments,
served one at a time, with the approval and the deletion of an office; it starts from any
accounts and offices and leaves open what becomes of employees.
`BackOffice!BackOfficeSpec` puts all three into one process: their requests come one at a time in
any order on the same handlers, none before the settings are loaded, and the process may be
restarted at any moment, which cuts the request on its way and empties every cache in memory.
`Notifications!NotificationsSpec` is every event, message, request, job and worker, with requests
overlapping or not and a process that may die once; of accounts, offices and employees it leaves
open what becomes of them (`PeopleChange`), except that rows of accounts stay and that the id of
a new account is one no message on its way is addressed to. `Reviews!ReviewsSpec` is every
request on reviews while bookings are completed. `ChatGateway!ChatSpec` is every request of the
chat, over HTTP and over sockets, with every step of every socket in between, whether requests
overlap or not; accounts, offices and employees change as they like.
`Messaging!MessagingSpec` puts these three into one process: their requests share the handlers,
overlapping or not, and so do the requests that decide whom a message reaches
(`PeopleRequests`: edits of accounts, employees that come and go, offices that leave). The process
may die once, with every request and socket on its way; Redis keeps the queue. Offices and
employees that register themselves are left to `IdentitySpec` and, as far as messages
notice them, to `PeopleChange`. `Requests` <- `Accounts` <- `Offices` <- `Subscriptions`,
`Chat`, `Notifications`, `Reviews`; `Otp` and `Offices` <- `Auth` <- `Reports`. So the
subscription of an office, its status and who is served as that office are one state, and
so are an employee that leaves and the chats it could see.

Shape of the models. A request is a record with the place it has reached and the copies
it has read. Its first action reads (and checks, and throws); each later one is one
database write; what one `dataSource.transaction` writes is one action, at its commit.
With one handler requests never overlap; with two, any two do. In the modules on
`Requests` this is a choice of the initial state: `serial` behaviours serve one request at
a time and still may cut one, once, between two statements (`Drop`), the others overlap.
A property that holds only without overlap is written `serial => ...`, one that needs every
request to have come to its end says `~dropped` or `Resting`.

Abstractions, all of them on the side of the code:

- `repo.save` is one atomic write of the loaded columns. Its inner SELECT and UPDATE are
  not split.
- In `Marketplace` the rows an `UPDATE ... WHERE` selects are fixed by an action of its
  own, and rows another transaction has decided by the commit are left alone, as
  PostgreSQL does when it re-evaluates the WHERE of a locked row. Lock waits and deadlock
  victims are `Abort`, which ends a request without a trace.
- Soft-deleted bookings are found by no query (`Found`); a stale save brings one back,
  because the copy's empty `deletedAt` is written too.
- In `Checkout`, the payment handler's reads of the offer and the booking are one action
  (`Load`), and so are asking for a charge, saving its id and returning its page
  (`CreateCharge`): the customer cannot pay before the page is returned.
- The wallets in `Checkout` are the sums `getTotalCreditedForBooking` returns; what one
  credit does to a wallet row is `Wallet`'s subject. The admin account is assumed to exist.
- Amounts are integers (halalas). `Math.round(x * 100) / 100` of a percentage is
  `(price * percent + 50) \div 100`; binary fractions that lie just under a half are not
  modelled. `partialPayment.advanceAmount ?` tests the string the driver returns, "0.00"
  included, so it is always true of a partial payment.
- A coupon's discount is any member of `Discounts`, cut to the charge as
  `calculateDiscount` does. The split's `OF-SAVED-` branch is unreachable: no code makes
  such a cart id.
- In `Marketplace`, `Checkout` and `Wallet` the customer and the admin are one actor each
  and authorization is left out. `Offices!Served` and `Subscriptions!Admits` are the two
  interceptors that decide by state; a blocked office passes the first one, and so does one whose
  status an admin set to CREATED through `updateOfficeByAdmin` (`LetsIn`).
- An office is known by the id of its account, a booking by its customer and a number. A
  deleted account's address is its id, as in the code. Phones are in their normal form.
- bcrypt looks at 72 bytes, and two refresh tokens of an account agree in these: the
  comparison in `validateSession` never fails, and `Auth` needs no hash.
- A code has three ages (under a minute, older, lapsed), a subscription three (days, last
  second, over), a coupon three (before, in and after its window), and time moves them one
  at a time. In `Reports` an instant is a half day and a month `DaysPerMonth` days.
- A section of a role, a plan feature, a notification template and a message are single
  values. Templates are known by their language, channels by what their provider can answer:
  SMS and push swallow their errors, e-mail throws.
- A Bull job that threw comes again until three attempts are used up; a job whose process
  died is given back from its beginning, once (`maxStalledCount`).
- `validateAndApply`, `canCreateMoreEmployees`, `enforceFeatureAccess` and `getFeatureLimit`
  are called from nowhere, so no action is made of them.

## 3. What is checked

All configurations say `CHECK_DEADLOCK FALSE`: ids are bounded, and when they are used
up and every row is decided there is nothing left to do.

| run | question | bounds |
|---|---|---|
| `wallet_serial` | served one at a time, do wallets keep the books and implement `Escrow`? is every due credit released? | 1 account, 3 rows, amounts 1 and 2, 1 failure |
| `wallet_concurrent` | what survives overlapping requests? | 2 handlers, 3 rows, 1 failure |
| `wallet_release` (violation) | is the pending balance what is still held? | 2 credits, no failure |
| `market_serial` | replacement, acceptance, edition of offers | 3 offers, 2 offices, 2 prices |
| `checkout_serial` | caps on credits, paid amount against the ledger, forward moves | 2 offers, 2 offices, 2 payments, 2 settings, 1 interruption |
| `checkout_concurrent` | what survives overlapping payments, cancellations, acceptances? | 2 handlers, 1 offer, 2 payments |
| `checkout_live` | does every captured payment end as a success? | 1 offer, 2 payments, coupon or none, 1 interruption |
| `accounts` | do owners keep what they were given, and is only who was let in served? are codes, sessions, cached details and reports right? | 2 accounts, 3 emails and phones, 2 codes of 2 attempts, 2 sessions, 1 employee, 2 offers and payments over 2 days; 2 handlers |
| `subscriptions` | is an office admitted to what it paid for, also while its plan is edited, do edits stand, do caches tell the table? | 2 plans with 2 features, 3 subscriptions, 1 payment, 2 coupons with 7 amounts, 2 services, 2 admin roles and 1 office role, 2 sections; in `editions` a plan loses a feature or gets it back (`Editions`); one request at a time |
| `messaging` | what do chats, sockets, notifications and reviews show, alone and together, and after a death of the process? | 3 accounts, 2 conversations, 3 messages, 2 sockets, 3 notifications, 1 batch, 3 reviews; 2 handlers |
| `checkout_duplicate` (violation) | is no more credited than was charged? | 1 offer, 2 payments |
| `checkout_unpaid` (violation) | is a completed booking fully paid? | 1 offer, 2 payments |

Why the bounds are enough: three rows let a withdrawal stand between two credits of one
wallet, or two withdrawals compete for one credit; two amounts let one be larger than
what is left. Two offers of two offices let a payment be made for an offer that another
payment has displaced; two payments of each kind let a webhook, a redirect and a second
charge interleave; two settings let the rates change between a charge and its split. One
failure may hit any statement; webhooks and redirects may repeat without bound. Two
handlers show every lost update that needs one reader and one writer.

The three composed runs start from several states, each with the requests that matter to
some question (`focus`), since the product of all tables would only repeat itself: what a
review of an office and a chat do meanwhile does not change what a coupon gives. A focus
takes in every module whose state the question relates: `staff` reviews, blocks and employs
while phones are changed and verified; `overlap` does so with two requests interleaved;
`subscribers` pays, tries, cancels, checks and removes an office, and it and
`services` also restart the process; `editions` edits the plan meanwhile; `chat` lets an employee
leave between messages, `sockets` closes them at every await. `accounts` has `codes`,
`phones`, `sessions`, `profile`, `staff`, `overlap`, `admin`, `offers`, `payments`;
`subscriptions` has `plans`, `subscribers`, `editions`, `coupons`, `services`, `roles`; `messaging` has
`chat`, `overlap`, `sockets`, `events`, `teams`, `devices`, `letters`, `segments`, `reviews`
and `together`, in which a conversation is opened while its office is notified and loses its
employee, with requests overlapping. In `teams` and `together` the worker's reads and updates do
not throw, as they may in `events` and `letters`: the errors of a worker are its own matter, and
the product would be large. In `sockets`, `events`, `teams`, `devices`, `letters`,
`segments` and `together` the process may also die (`Crash`), in `sockets` between two requests,
in `together` once a conversation is open and a recipient has a row.
In `chat` every offer stands from the start, a second booking is talked about after the first,
and the employee leaves when both conversations are open; in `letters` one account marks its
notifications as read and a deletion takes all of an account; bookings complete in order.
Handlers, and sockets, are interchangeable in every definition, so the run takes both as symmetric.
Two codes let a new one replace an old one; two attempts let a code be wrong, then right,
and be used up; two sessions let one be logged out while the other lives. Three
subscriptions let a trial, a paid one and its successor follow each other, and the one
payment may be notified any number of times. Three messages in two conversations let one of
them be read later than the other while a third was written in between (an employee leaves
after the first, and requests that overlap send two); two sockets of one
account let one close while the other stays. Three notifications give each recipient a row,
and a fourth one would only wait. The amounts and discounts include 0, rounding up and down,
a full and an excessive discount. Reviews are edited one request at a time and written by two. Employees are one: what a removal must undo is undone row
by row.

What the runs show, and what they do not. Several properties are stated "with requests
one at a time": with two in flight they do not hold of this code, because a save writes a
stale copy. The overlap runs check what does survive: no overdraft, no decision taken
back to PENDING, nothing shown as paid without a capture, and no office served that nobody
ever let in (`NeverActiveUnasked`). What does not: codes can be accepted twice, a rotation
writes over a logout, two subscriptions, two conversations, or two reviews of one office that
name no booking can be inserted, and a cache can be filled with an old answer. The three violation runs are
disagreements between the code and its own text:

- `wallet_release`: the hourly job says it moves each amount "from pending to available"
  (`wallet.service.ts:217`), but the due rows carry separate copies of the wallet, and of
  two credits of one wallet released in the same hour one stays in the pending balance.
- `checkout_duplicate`: the redirect page refuses to process a payment twice
  (`wasAlreadySuccessful`, `payment.service.ts:466`); the webhook does not, and a second
  delivery credits the office again, up to the price of the offer.
- `checkout_unpaid`: a full payment is charged `finalPrice - advanceAmount` whether or not
  an advance was ever paid (`payment.service.ts:308`), and its capture makes the booking
  COMPLETED (`:763`, "Booking fully paid"): the advance is never asked for.

What else the models had to take from the code, and a reader may not expect. None of it has
a run of its own; where a property speaks of it, its name is given, and the comment of the
property names the exception:

- A socket that closes while its account is looked up is registered after its disconnect
  was handled and stays so for ever (`PresenceTrue`); the socket of an employee that was
  removed stays in its rooms.
- A phone keeps the mark of the number before it when an admin, the user or an approved change
  request puts in another (`account.service.ts:257`, `user.service.ts:72`, `office.service.ts:546`),
  though `changePhone` takes it away. `VerifiedIsProved` names these as the mark being `"given"`,
  with the rows that are made verified.
- A key cached in the last second of a subscription has a TTL of 0 and never lapses
  (`KeysTrue`); an approval adds a trial beside a paid subscription. `updatePlan`
  (`subscription.service.ts:105-164`) drops no key, so the `active_subscription_` key admits by the
  features it was cached with (`:287-300`), until the subscription ends or another one begins:
  `FeaturesAsPaid` says so while a copy is `Outdated`, and asks for the plan's own otherwise.
- An edit of a role that sends some sections of its permissions turns the others off: the
  DTO has every section as a property of its own (target ES2023, `main.ts` with `transform`), and
  the spread at `role.service.ts:69` and `:136` writes `undefined` over the old ones, which jsonb
  drops. `PermissionsAsSent` says what is stored, not what the spread is there for.
- A request cut between a notification's row and its job leaves the row PENDING for ever, as
  `docs/notification-system-report.md:167` admits. So does a job whose every attempt ends in a
  read that throws (`notification.processor.ts:31`) or in a `catch` whose own update throws
  (`:137`), and a batch that swallows an exception after its insert (`:279`, `:421`). One that
  swallows it before (`:172`, `:188`, `:328`) leaves the recipient without a row. `PendingHasJob` and
  `AdminRowsOnce` except these by what `trouble` has recorded, row by row. A late
  `updateStatus` puts SENT over READ, though the read flag stays.
- On a page of conversations that were all read, `batchCountUnread` counts in each the messages
  since the one read earliest: the refining that the comments announce (`chat.service.ts:860`,
  `:892-894`) is skipped (`:895`). `UnreadNeverHidden` says exactly that number is shown there.
- On a server east of UTC the charts lose the rows of their first day, and the daily profit
  of an office is always 0, looked up by a name it was not stored under
  (`report.service.ts:258`; `DailyProfitIsLost`, a conjunct of `ReportsAgree`).
- `deleteProfile` cut between its two statements leaves a user that logs in and pays but is in
  no list of users: what users paid then falls short of what came in (`FiguresAgree`).
- `docs/review-api-docs.md:13-14` and `:156-157` promise a completed booking with the office and one
  review of it. The code looks for a completed booking with any office
  (`review.service.ts:48-58`) and, when a booking is named, for a review of that booking only
  (`:77-83`): an office may have a review per booking and one more that names none
  (`ReviewsEarned`).
- `findActiveOfferOrThrow` accepts any offer, whatever became of it (`docs/chat-api.md:25` asks
  for an active one), `adminOfficesPaginatedSummary` sums every offer whatever became of it, and no
  request sets `reviewStatus`.

Every property has a mutant in `PROJECT.json`: a one-definition change of the model, of
the kind a slip in the code would be, that makes TLC find the property violated.

### Fairness

`Wallet!FairSpec`: a request that has begun goes on (weak fairness of `Continue`: an
`await` on the database returns or throws), and the scheduler starts the hourly job
(weak fairness of `ReleaseRead`: `@Cron(EVERY_HOUR)`). Nothing is assumed of offices,
customers or the admin. `Checkout!FairSpec`: begun requests go on, and the webhook of a
captured charge is delivered as long as the payment is not saved as a success (strong
fairness of `Delivery`, because another request may be in the way: the gateway repeats a
webhook that did not succeed, and the customer's redirect is not assumed at all). The
composed runs check safety only and assume no fairness.

## 4. What is proved

tlapm checks every theorem from nothing; assumptions are the named ASSUMEs of the
modules, which TLC evaluates in every run that uses them. They say that `None` is no id
and no row, that amounts, prices and percentages are what their columns hold
(`AmountsPositive`, `PricesPositive`, `SettingsArePercentages`, `DiscountsNat`, `AmountsAreNat`, and
`RatingsAssumption`: the DTOs admit ratings from 1 to 5), that the bounds of a run are numbers
(`MaxFailuresNat`, `MaxCodesNat`, `MaxSubsNat`, `MaxNotificationsNat`, `MaxMessagesNat`), which channels there are
(`ChannelsAssumption`: those of the code, push among them), that a code allows at least one attempt, and that there are finitely many offices (`OfficesFinite`: they are summed
over). Accounts, rows, offers and handlers may be infinitely many.

The theorems come in two kinds. Those about overlapping requests hold for any set
`Handlers`. Those about requests one at a time assume `Handlers = {h}` where the module has
no other way to say so (`Wallet`, `Marketplace`, `Checkout`), and in the modules on
`Requests` are of properties that begin with `serial =>`. With two requests in flight the
code does not have these properties: a save writes a stale copy (§3).

### Money, requests overlapping

`WalletProofs`, for any number of accounts, rows, amounts and overlapping requests:

- `TypeCorrect`: `Spec => []TypeOK`.
- `WalletsStayCovered`: `Spec => []NoNegativeAvailable`. Non-negativity of the row is not
  inductive, since a request may save an old copy. `SafeInv` adds that every copy a
  request still holds is non-negative too, and that the copy of an approval covers its
  amount; each save then writes something that was already checked. Withdrawals debit
  only copies they compared with the amount *in the same step* as the read.
- `DecisionsAreFinal`: `Spec => DecidedStaysDecided`. `RowInv` says which rows a request
  can still write: the image an approval or a decision carries is never PENDING once the
  row exists, and a row being inserted is one nobody else can see.

`CheckoutProofs`, first for any number of offers, offices, prices and overlapping requests on
offers alone:

- `MarketTypeCorrect`: `MarketSpec => []MarketTypeOK` (a conjunct of the type `checkout_serial`
  checks).
- `SelectionSurvives`: `MarketSpec => []SelectionBacked`. A row, once made, could be
  unmade by a request that saves a copy; `OfferInv` says that no copy in flight is of a
  row that does not exist, and that an id being inserted is used by no other request.
  `Sound` and `MarketInv` carry `SelectionBacked` over to the copies of the booking that
  a cancellation, a deletion or an expiry still holds.

Next, the arithmetic of `PaymentMath`, for every price, percentage and
earlier credit:

- `PercentIsAPart`: an advance is never more than the price.
- `SplitWithinBounds`: a split takes nothing back, hands out no more than was paid, and
  takes neither side above its target.
- `TwoPaymentsSettle`: a partial payment and the full one after it settle both targets
  to the halala, which is why the rounding of the two charges cannot leave a residue.

Then, for any number of offers, payments, settings, overlapping requests and interruptions,
from these and the lemmas about offers:

- `CheckoutTypeCorrect`: `Spec => []TypeOK`. A split looks up what an office was credited,
  so the type of the credits rests on the rows: `PaymentInv` (a payment is for an offer
  that was made), `ProcInv` (the copy of the offer a request holds has the office of the
  row) and `OfficesMadeThem` are part of the induction.
- `PaymentsKeepSelection`: `Spec => []SelectionBacked`. The side effects save copies of the
  offer and of the booking; `OffersKept` says that no step unmakes an offer or changes its
  office, which is what every copy is compared with.
- `NothingPaidWithoutCapture`: `Spec => []NothingWithoutCapture`. `Held` says that a request
  past its verdict is about a captured charge, `ChargedByOne` that a second charge never
  overwrites the first, and `MoneyInv` that the copies of the booking still in flight show
  no money and no completion that nobody paid for; `PaymentsKept` (a capture is for good)
  makes all of it stable under the other requests.

### Money, one request at a time

`SumProofs`. The sum of a set is a fold of the community modules, and what a fold computes is
an induction over the set. No theorem of the library that does this induction can be
instantiated here, so `SmallestSubset` takes its place: of the subsets of a finite set that
satisfy a condition there is one of least cardinality, and a smallest counterexample to
"every finite set has a sum" has a smaller one. `SumOfTake` (a sum with and without one of
its members) and `SumOfSame` (sums of equal amounts are equal) are what the proofs about money
use; those about reviews use `SumOfOnes` (a sum of ones is the cardinality) and `SumByClass`
(rows may be summed class by class, the weight of a class times how many are in it).

The second half of `WalletProofs`, for any number of accounts, rows, amounts and failures:

- `CreditsReleasedOnce`: `Spec => []ReleasedOnce`. `SerialInv` says what the request in
  flight knows at each of its statements. Its copies of a wallet are current, but for the
  release job: after the first of two credits of one wallet the copies it goes on with are
  those of before, whose *sum* of available and pending money alone is still right
  (`ReleaseShape`). The weaker fact is what makes the books balance all the same.
- `BooksAlwaysBalance`: `Spec => []BooksBalance`, and `HeldCreditsAreCovered`: `Spec =>
  []HeldCreditsCovered`. `BooksInv` is the balance at every statement: a row that the
  wallet already counts and that is not inserted yet (`Unrecorded`) stands in for it.
  `FinitelyMany` says that only finitely many rows were ever inserted, so that the sums exist
  although `Rows` may be infinite.
- `WalletImplementsEscrow`: `Spec => ImplementsEscrow`, the refinement of `Escrow`. Initial
  states map to initial states, and every statement maps to `Deposit`, to `PayOut` or to a
  stutter (`DepositStep`, `PayOutStep`, `QuietStep`).

`SerialProofs`, for any number of offers, offices, payments and rates, whatever is refused or
cut short. A request takes several steps, but with nobody in between what it has read is
what is there when it writes (`Current`), so each step amounts to one whole operation or to
nothing (`StepIsOperation`), and the operations keep the properties:

- `OneOpenOfferPerOffice` (`OnePendingPerOffice`), `AcceptedOfferIsSelected`
  (`AcceptedIsSelected`), `DecisionsAreFinal` (`DecisionsFinal`) for `MarketSpec`.
- `OfficesWithinPrice` (`OfficeCreditCap`), `AdminWithinTarget` (`AdminCreditCap`),
  `PaidIsCredited` (`PaidMatchesLedger`) and `BookingMovesForward` (`MovesForward`) for
  `Spec` of `Checkout`. `PayInv` says of the payment in flight that its copies are current
  (`Copied`), that what it will still credit stays under the caps (`Bounded`, from
  `SplitWithinBounds`), and that the paid amount of the booking is the ledger plus what this
  payment has added to it and not credited yet (`Ledger`). A webhook that comes again starts
  a payment request of its own, so the caps hold however often it does.

### Accounts, codes, sessions and offices

`AccountProofs` is of `IdentitySpec`, for any number of accounts, codes,
attempts, sessions, offices, employees and requests, one of which may be cut.

- `IdentityTypes`: `[]AuthTypeOK`, requests overlapping or not. `TypeInv` adds what a
  request holds (`ReqTyped`): an account that was made, with the role it will keep; a code or
  a session that was issued; a row of its table. It also says that the account of an office
  or of an employee is an office account, which is what `SoftDelete` and `SetStatus` of it
  need, and that one at a time only one request is on its way (`OneBusy`).
- `LoggedOutNeverReturns` (`LoggedOutStaysOut`): a refresh on its way holds the session as it
  is. `OnlyOneLiveCode` (`OneLiveCode`) and `CodesAreTriedOut` (`CodeTriesBounded`):
  `CodeInv` counts the wrong inputs of a code by its attempts, says that a code judged is the
  newest and still pending, and that there is none left between the expiry of the old codes
  and the insert of the new one, wherever a request is cut.
- `OwnersKeepTheirData` (`OwnerDataKept`) and `VerifiedPhonesAreProved` (`VerifiedIsProved`):
  `OwnerInv` says that the row a verification will save agrees with what the owner was given,
  and that the account found by the identifier after the code was accepted is the one whose
  code it was: phones and emails are unique, and one at a time nobody takes them meanwhile.
  `MarkKept` is what a write that leaves `isPhoneVerified` alone does: the new number has the
  mark if the old one had, and then it counts as given.
- `ServedOfficesAreLetIn`: `[]OfficeAccessGranted`. With requests overlapping, `LetInInv`
  covers the statuses and rows requests may still save: each lets in nobody who was not let
  in once. One at a time and none cut, `ClearedInv` says it of who has not been put out since;
  it needs that an account belongs to one employee at most and to no office besides
  (`OneEmployer`), and that a removal on its way to its row accounts for an employee whose
  account is already blocked (`BeingCleared`).
- `ShownNamesAreCurrent`: `[]ShownNameCurrent`. `DetailsInv` says that a name that is not the
  profile's is about to be dropped (`BeingDropped`) or was edited by an admin, and that a
  reader on its way to the cache has read the name the profile still has.

### Reports

Also in `AccountProofs`, of `ReportsSpec`, for any number of accounts, offices, employees,
requests, offers and payments, any prices and amounts, any clock and any length of a month.
Only the tables of accounts, offers and payments are assumed finite (`TablesAreFinite`): their rows
are summed.

- `ReportTypes` (`ReportsTypeOK`). The type of the accounts is `TypeInv`, which holds of every request
  on people whatever rows come in between (`ReportsKept`).
- `ReportsAlwaysAgree` (`ReportsAgree`), requests overlapping or not, one of them cut. Two halves:
  what the rows are, and what then follows for their sums.
  `ReportRows` is the invariant. An account has the date of its row, and no later one than now
  (`Joined`). An offer is of an office that is still there (`OffersOfOffices`), by the foreign key; without
  it an admin would count offers that no office sees. A payment for a booking is of a user that
  joined before it, a payment for a subscription is not of a user (`PaymentsOfPayers`): this rests on
  `TypeInv`, where no request that may still save an account changes its role, and on accounts being
  blocked rather than deleted. A profile is of a user (`ProfilesOfUsers`), never the other way round,
  because of the cut.
- The sums are lemmas of `SumProofs`, by induction on finite sets without the induction theorem: the
  smallest subset that disobeys (`SmallestSubset`) has a member, and without it obeys.
  `SumByFiber`: the sums over the rows of each value of a figure add up to the sum over the rows whose
  figure is among the values; `CountByFiber` is the same of numbers of rows, `SumOfPairs` adds two
  amounts row by row. With the day of a row as the figure they give every chart (`ChartSum`,
  `ChartCount`): the days that are named (`DayKey`) are those of the period, less the first one east
  of UTC. With the office of an offer they give `OfficesAddUp`, with the payer of a payment
  `UsersPay`.

### Coupons, services and roles

`CatalogProofs`, for any number of coupons, services, roles, sections, accounts and requests,
one of which may be cut:

- `DiscountIsAPart`: a discount lies between nothing and the amount, for every kind, value
  and amount.
- `CouponTypes` and `CouponsGiveWhatTheyPromise`: `CouponsSpec => []CouponsSound`, requests
  overlapping or not. `RetiredRows` says that the row of a removed coupon stays and stays
  inactive; it holds because the row a removal saves is inactive whatever was read
  (`CouponReq`), an edition takes the coupon back, and a row that was made is never
  unmade (`CouponsStay`), so that an insert on its way cannot revive it.
- `GuardBelievesTheTable`: `CouponsSpec => []ServiceAsSet`, restarts included. `CacheInv` says
  that one at a time the cache differs from the table only in the service whose setting was
  just saved, and that the request about to write it carries what the table says.
- `RoleTypes` and `PermissionsStand`: `RolesSpec => []PermissionsAsSent`, the half of `EditsStand`
  about roles (the whole of it is `EditsOfAdminsStand`, below). `UpdatesFresh` says that the
  permissions an update will save are those of the row as it is, or what was sent with the
  sections it left out off. With requests overlapping the code does not have
  this property.

### Subscriptions and plans

`SubscriptionProofs` is of `SubscriptionsSpec`, for any number of offices, plans, features,
subscriptions, payments and cached entries. Requests come one at a time, one of them may be cut
between two of its statements, and days go by, keys lapse and charges settle at any moment.
Besides that `None` is no row and no id (`NoneIsNoSubscriptionRow`), only `MaxSubs` is assumed
to be a number. With one request at a time the whole of what is on its way is one record
(`Now`), and the invariant says of each of its points what it still owes.

- `SubscriptionTypes`: the rows, the keys and the request are well typed, whatever is cut.
- `PlanStands`: `[]PlanAsWanted`, the half of `EditsStand` about plans. `updatePlan` clears the
  features and attaches them again one by one, so no step but the last leaves the plan as
  wanted; `OnCourse` says that what is attached and what is still to do make up what was sent.
- `OneSubscriptionAtATime` (`OneSubscription`). `Single` is the property for every subscription,
  trials included, of an office that has no trial beside another subscription. `Knows` says
  that between the expiry of the old rows and the insert of the new one the office has none,
  that a cancellation still holds the active row, and that whoever is about to write
  OFFICE_NO_SUBSCRIPTION to the account has ended the row. A cut leaves an office without
  a subscription rather than with two.
- `PaidGetsSubscription` (`PaidIsSubscribed`). `PaidRows`: a payment that has succeeded has its
  row, or the request on its way is making it. A verdict goes on to the effects unless the
  payment is a success already, in which case its row is there from before; that is why a
  webhook after a redirect, or the other way round, is harmless.
- `KeysTellTheTruth` (`KeysTrue`, with `FeaturesAsPaid`). `Fits` says of every office that the
  account and both keys agree with its rows, or that the request on its way is at a point from
  which it will still drop the key that does not. A key may stand for a row that has ended by
  the clock (`Ended`), and an entry without an expiry is excepted, as in the property. A copy of a plan was
  read while no edit of it was on its way, so what it holds is what an admin had given the plan by
  then (`Faithful`), and no later step writes the copy. From these it follows that `Admits` lets in
  an office exactly while a subscription runs that includes the feature, by the plan as it is or,
  while the copy is older than its last edit, by the copy.

Then, of `BackOfficeSpec`, with coupons, services and roles in the same process and restarts:

- `BackOfficeTypes` (`SubscriptionsAllTypeOK`), `EditsOfAdminsStand` (`EditsStand`) and
  `BackOfficeStands`, which says that what was proved of subscriptions, payments, cached answers,
  coupons and settings apart holds of them together. `BackOfficeInv` is the conjunction of the three
  invariants. The points a request of one component can stand at are none of another's (`Among`), so
  a step of one keeps the invariants of the others: it touches none of their rows, and what it
  holds is none of their business (`OthersKeepSubscriptions`, `OthersKeepSettings`,
  `OthersKeepRoles`). A restart leaves a request nowhere and every key empty
  (`RebootKeepsSubscriptions`): an empty key tells no lie, and the settings are loaded again from
  the table before anybody is served.

### Notifications, reviews and chats

`MessagingProofs`, first for any number of accounts, employees, devices, rows, jobs, batches and
requests that overlap. One request may be cut, and the process may die once, at any point.

- `NotificationTypes`: rows, jobs, batches and devices are well typed.
- `NotificationsStand`: `NotificationsSpec => []NotificationsKept`. `Placed` says that a row
  waits for its job, has one or is in the hands of a batch, and only one of these, so that what
  is about to be queued has not been sent yet. `Counted` makes the bound inductive: what a
  provider took of a row is at most the attempts its job has used up, one more while it
  stands after the provider's answer, and one more for a process that died. `SegmentCounted` is
  the same of the one job of a segment. `OneRowEach` counts, account by account, the rows of
  admins' messages against the messages that have served it, which a death of the process alone
  can upset. `ReadAsMarked`: the flag `read` is true of exactly the rows somebody marked,
  because `updateStatus` writes its columns only and the other writers of a row are its insert and
  the requests that mark it. `PendingHasJob`, a conjunct of the property, is inductive with these.
  `Troubles` keeps the record of errors honest: a row still PENDING has left unmarked every
  attempt its job has used up (`Unmarked`), and a batch does not come back to a recipient whose
  row it could not save (`Skipped`), so that neither exception covers a row that nothing happened
  to.

Then for any number of authors, offices, bookings, reviews and requests, one of which may be cut:

- `ReviewTypes`: the rows and the completed bookings are well typed.
- `ReviewsStand`: `ReviewsSpec => []ReviewsSound`. `ReviewRequests`: a request on its way carries
  a review that is earned, and the row a save writes differs from the row as it is in its rating
  and its visibility at most. `ReviewRows`: no two reviews name one booking, requests overlapping or
  not (the unique relation), and one request at a time an author has one review of an office that
  names none (the code looks it up before it inserts). That
  the total, the average and the bars are of the same reviews is `SumByClass`, for any set
  of reviews (`StatsAreAlike`).

Then for any number of conversations, accounts, messages, sockets and requests, one of which
may be cut:

- `ChatTypes`: rows, messages, sockets and the tables in memory are well typed.
- `ChatsStand`: `ChatSpec => []ChatSound`. `TalkRequest` says what a request makes sure of before it
  writes: between the insert of the team and that of its own row it is about to add what is
  missing, so that whoever sends or marks has a row (`SendersTakePart`); one at a time the pair
  it is creating has no conversation, and the message it will mark is the latest one. `TalkGrows`
  (rows, messages and conversations are only added) makes this stable under the other requests
  and under the sockets, whose listings add rows at any moment. `NothingHidden` needs no
  induction: counting from the earliest reading of a page counts at least what counting from each
  reading does, because `Since` only falls with the moment; a page with a conversation
  that was never read is counted again exactly, and on any other the surplus is what was written
  since the conversation read earliest. Maxima and minima of bounded sets
  (`BoundedMax`, `BoundedMin`) rest on `SmallestSubset` too.
- `PresenceStands`: `ChatSpec => []PresenceTrue`. `SocketStands` says, for each place a socket
  stands at, which tables hold it: none while its account is looked up, all from then until it
  hangs up, only `socketUsers` while its last listing is awaited. A socket that was closed
  during the lookup is registered afterwards; it is the exception the property names (`early`).

Last, of `MessagingSpec`, with all of these in one process that may die:

- `MessagingTypes` (`MessagingTypeOK`) and `MessagingStands`, which says that `ChatSound`,
  `PresenceTrue`, `NotificationsKept` and `ReviewsSound` hold of them together. `MessagingInv` is
  the conjunction of the three invariants and of `PeopleInv`: accounts, offices and requests on
  them are well typed, and offices and employees with an account have its row. A request of one
  kind stands at points that are none of another's (`TalkPoints`, `NotifyPoints`,
  `ReviewPoints`, `PeoplePoints`), so whatever moves in one kind is `Foreign` to the others
  (`OthersKeepTalk`, `OthersKeepNotifications`, `OthersKeepReviews`, `OthersKeepPeople`). A step
  of people changes who is told of an event and who may read a conversation, which the
  invariants of chats and notifications bear because they speak of rows and of what was already
  decided, never of who works where now. `NewIds` is the one thing they ask of people: an account
  made now is not yet among those a batch was made for. `CrashKeeps`: the sockets, the tables about
  them and the requests go together, so no table is left that holds a socket nobody closes
  (`SocketsGone`); a job that was being worked on is given back, and the bound on what a provider
  takes allows for that.

### What stays with TLC

- Liveness (`DueIsReleased`, `CapturedEndsInSuccess`): tlapm has no rules for `WF`, `SF` and
  `ENABLED` here.

## 5. Plan

Done: the money (wallet, then offers and bookings, then payment on top of them); accounts,
codes, sessions and offices; plans, subscriptions and the settings of an admin; chat,
sockets, notifications and reviews; reports. Proved: the money, with requests overlapping and
one at a time, with the refinement of `Escrow`; accounts and offices; coupons, services and
roles; plans and subscriptions; notifications, reviews, chats and sockets; reports. Every safety
property of the passing runs is a theorem, that of the compositions too. Next:

1. Liveness of the queue, by TLC: a job that Bull keeps ends in SENT or FAILED, under weak
   fairness of the worker.

## 6. What is not modelled

`PROJECT.json` lists every component with its status. Left out for good: banners and file
upload (rows nobody reads, I/O to an image store), the transport of SMS and e-mail beyond
what it answers, the payment details, support messages and descriptive data of offices and
users (single-row writes nothing else depends on), lists with their filters and pages, DTOs,
mappers, logging and error formatting. Guards are modelled where they decide by state that
requests change (sessions, `Served`, `Admits`, services switched off, access to a
conversation); roles on routes and the validation of inputs are not.
