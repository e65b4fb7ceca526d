# TLA+ models of the ERP

This directory holds TLA+ specifications of the ERP's own core logic (`src/erp/packages/core`,
`src/erp/apps/worker`, `src/erp/apps/license_server` and the desktop client in `src/erp/apps/desktop`), the TLC
configurations that check them on small instances, and proofs checked by TLAPS. `PROJECT.json` lists the
components, the runs, the mutants each property is tested against, the source lines every definition models,
the hazards of the code and the theorems.

To check a run: `tlc -config OneOrder.cfg MCOrderFinance`; the module of every run is in `PROJECT.json`. To check
the proofs: `tlapm` on each of `OrderFinanceProofs`, `SyncProofs`, `BookProofs`, `TradeProofs`,
`AccessProofs`, `StoreProofs`, `BackOfficeProofs` and `SumLemmas`.

## 1. The system

A FastAPI service, a background worker, a Next.js front end and a desktop client over one PostgreSQL database
(SQLite for local installations). Several companies share the database; every query is scoped by company, so
the models look at one company.

A request opens one session, calls one service function and commits; a `ServiceError` rolls everything back.
Sessions are READ COMMITTED with `autoflush=False` and `expire_on_commit=False`
(`packages/core/db/session.py`): a row that was read stays cached in the session and only changed attributes
are written. The worker (`apps/worker/main.py`) is one loop, `run_once`, which commits several times per cycle
and talks to remote systems between commits.

| Component | State | Operations | Talks to | What makes it correct | Modules |
|---|---|---|---|---|---|
| Orders and payments | `orders`, `payments` | create, change status, record payment, refund | ledger, review, stock, push | payments never exceed the total; a refund is final and takes everything back | `OrderFinance`, `OrderSessions` |
| Delivery | `delivery_assignments` | assign, reassign, status of the rider | review, push | one assignment per order; delivery makes lines eligible | `OrderFinance` |
| Finance review, rider cash | `vendor_order_items.finance_status`, `cod_collections`, remittances, payouts | decide on a line, submit and reconcile COD, remit, pay out | payments, ledger | a vendor is paid only for what was delivered and paid; a rider never remits or is paid more than is due | `OrderFinance`, `VendorLines`, `RiderCash` |
| Marketplace | vendors, vendor lines, settlements, product assignments | onboard, settle, assign | ledger | a line is settled once, after approval; a product has one vendor | `VendorLines`, `VendorCatalogue`, `VendorAccess` |
| Ledger and accounting | `ledger_journals`, periods, projections | post, reverse, lock a period | all money flows | one journal per event, reversed at most once; projections agree | `JournalBook`, chains in `OrderFinance` |
| Sync runs | `sync_run_logs` | enqueue, recover, claim, checkpoint, finish, retry | worker, API | one run at a time; every run ends | `SyncRuns` |
| Sync outbox | `sync_outbox`, `external_resource_map` | enqueue, claim, push, supersede, retry | WooCommerce | every edit reaches the store, no product twice | `SyncOutbox`, `ProductImages`, `ProductVideos`, `MediaQueue`, `StoreStock` |
| Webhooks and import | `sync_inbox_logs`, mapped rows | receive, pull | WooCommerce, stock | each delivery once; stock deducted and restored once | `StorePull`, `StoreOrders`, `StoreTerms`, `Customers` |
| Store connection | one settings row | configure, test, call | WooCommerce | a call is made once; what is known is of this store | `StoreSettings`, `StoreRequests` |
| Push notifications | `push_notifications`, `push_subscriptions` | queue, register, deliver, retry | browsers | every notification is settled; repetitions are bounded | `PushOutbox` |
| Inventory, shop, POS | stock movements, reservations, purchases, supplier accounts | move, reserve, sell, return, purchase, pay | orders, outbox | stock never negative; supplier balance is the sum of its entries | `ShopStock` |
| Vendor inventory ledger | balance rows and entries | record, reverse, reconcile | settlements | a balance is the sum of its entries | `VendorStock` |
| Licensing | licenses, activations | activate, validate, renew, revoke | license server | a key of the server is used on one device, every license for its term | `Licensing` |
| Authentication, onboarding | sessions, tokens, throttles, users, links | sign in, refresh, cut off, approve | all of the API | who was cut off stays out; nobody else is | `AuthSessions`, `Throttle`, `Accounts`, `VendorAccess` |
| Desktop client | forms, lists, background tasks | show, pick, send | API | what is changed is what was picked | `DesktopShell` and four pages |
| WhatsApp queue | templates, messages | queue, send | mock adapter | a message is queued once and says how it went | `WhatsAppQueue` |

The hard behaviour is in three places: long sequences of legal calls by different staff around one order
(money), one database seen by several sessions that cache what they read (worker, concurrent requests), and
remote systems that may have done what the caller never heard of (WooCommerce, push services). The hazards are
listed line by line in `PROJECT.json`.

## 2. How the modules fit together, and what is left

Four modules are specifications with runs of their own: `OrderFinance` (which implements `VendorSale`, the
promise to a vendor), `SyncRuns`, `SyncOutbox` and `PushOutbox`. The components these four take for granted
(calls of one request at a time, an outbox that is told of every edit) are 28 further modules, which
`BackOffice` puts side by side. `MC*` modules only give values to constants.

Every module has one action per call or per part of a call between two commits, a type invariant, a few
properties and no recursive operator, so that all can be proved about. `TradeProofs` and `AccessProofs` prove
facts of single components; `BackOfficeProofs` carries them over to the composition.

Left of the plan: the invariants of the remaining components of `BackOffice` (section 9); order-status records
of the outbox; expenses and company settings.

## 3. Orders, delivery, review, settlement: `OrderFinance`

One action per service call, since a call is one transaction:

| Action | Code |
|---|---|
| `CreateOrder`, `ChangeOrderStatus`, `RefundOrder`, `RecordPayment` | `order_services.py`: `create_order`, `change_order_status`, `_reverse_order_finance_postings`, `record_payment` |
| `CreateAssignment`, `ReassignAssignment`, `ChangeAssignmentStatus` | `delivery_services.py` |
| `SubmitCod`, `RejectCod`, `ReconcileCod`, `ApproveVendorItem`, `RejectVendorItem` | `finance_services.py` |
| `CreateVendorSettlement` | `marketplace_services.py` |
| `ReverseJournal`, `SetPeriodStatus` | `ledger_services.py` |
| `SetRiderActive` | user administration |

State: `status` and `paid` of an order, `payment` rows, the one `assignment` and `collection` an order can
have, `finance` (review stage) and `settlementOf` of each vendor line, the accounting `period`, and `chain`.
The ledger is reduced to `chain[e]`, the number of journals in the chain posting, reversal, reversal of the
reversal, ... of the event `e` (a payment, an approval, a settlement, a rider's earning or its deduction): the
idempotency key allows one posting per event and a journal is reversed only while its status is "posted", so
the lines of `e` count exactly when the length is odd. Amounts are integers in minor units, shares are rounded
as Python's `round` does.

`VendorSale` is the promise made to a vendor: a sale becomes eligible only when delivered and paid in full,
each stage is passed once and in order, and a refund takes it back for good. `OrderFinance` implements it with
`stage <- finance`, `delivered`, `funded` and `refunded` read from the order.

| Run | Instance | Shows |
|---|---|---|
| `one_order` (160,962 states) | one order of 4, two vendors, three payment rows, COD, one hand reversal per event | `TypeOK`, `PaidIsSumOfPayments`, `NeverOverpaid`, `SaleBacked`, `ReviewMatchesLedger`, `RefundReversesOriginals`, `RefundIsFinal` |
| `two_orders` (105,720 states) | two orders of one vendor, two settlements | `VendorNeverOverdrawn`, `RefundedNetsToZero`, `ImplementsVendorSale` |
| `late_approval` (violation) | as `one_order` | a line eligible before the return is approved after it, against the comment at `accounting_services.py:879` |
| `rejected_cod` (violation) | as `one_order`, riders keep trying | a rejected collection can never be corrected, against `docs/user-guide/rider-guide.md:102` |

The bounds: two lines of different vendors and three payments are enough for part payments, a rejected
payment and COD to meet in one order; two orders and two settlements for lines settled together and apart.
`MaxChain = 2` lets staff reverse a journal by hand once, before or after a refund. In `two_orders`
nobody reverses by hand: `VendorNeverOverdrawn` and `RefundedNetsToZero` fail when a reversal is reversed in turn (section 8).
Identical payment and settlement rows are symmetric. Only `rejected_cod` is temporal; its fairness says that a
rider goes on submitting while the code lets him.

## 4. Sync runs and the worker: `SyncRuns`

`rows` is `sync_run_logs`; `key` says whether a row holds the company's unique `active_key`. A worker is idle,
`planning` (it has read the stale rows in `recover_stale_woocommerce_sync_records` and not yet written them),
`executing` or down. `ReadStale`, then `Schedule` or `AbortCycle`, are `run_once` up to its commit: recovery
and the enqueueing of outbox work and the claim are one transaction, but the read is an earlier statement of
it, and under READ COMMITTED other workers commit between the two. `Checkpoint`, `FinishRun`, `RateLimitRun`,
`GiveUpRun` and `FailRun` are the ends of `run_woocommerce_sync`; they write by primary key from a cached row.
`Crash`, `Restart`, `LeaseRunsOut`, `Stall` (a lease runs out under a live worker) and `RunRetryDue` are the
environment.

| Run | Instance | Shows |
|---|---|---|
| `sync_one_worker` (35,446 states) | one worker, 3 runs, 2 attempts, 2 crashes, 2 stalls | `RunsTypeOK`, `RunsAccounted` (`KeyMatchesStatus`, `AttemptsBounded`), `FinishedIsFinal`, `EveryRunEnds` |
| `sync_two_workers` (927,110 states) | two workers, 3 runs, a crash and a stall | `ExclusiveSync`, `ExecutorHoldsRow`, both as long as no worker has died or stalled; the rest of the state space is there for `AbortCycle` |
| `sync_recovery_race` (violation) | two workers, one run, one crash | two workers recover the same run and both execute it (`ClaimedOnce`), against `woocommerce_services.py:2788` |

Fairness (`FairSpec`): a worker's cycle and the end of its run are weakly fair because `run_loop` never stops
and remote requests have timeouts; a dead worker is restarted by the service manager; leases and backoffs end
because time passes. A run is not assumed to succeed.

## 5. Product pushes: `SyncOutbox`

A record is identified by product and content, as its idempotency key is. `ClaimRecord` commits the attempt,
`PreparePush` reads the product and looks for a listing when it retries without a mapping, `SendPush` reaches
the store, `SettlePush` commits the mapping, the record and every superseded record. Edits commit between any
two of these. The store is external: it creates or updates a listing, or refuses (`RefusePush`), takes the
request and the answer is lost (`LoseAnswer`, repeated by the HTTP layer up to `Tries`), limits the rate
(`LimitRate`), or its staff delete the listing (`RemoveListing`). `queue` holds the attempt counters the
worker read, because a counter that `enqueue_sync_outbox` resets meanwhile is overwritten from the cache.

| Run | Instance | Shows |
|---|---|---|
| `outbox_one_product` (197,318 states) | one product, two contents, one edit, 2 attempts, 2 tries, one fault of each kind, two deletions | `TypeOK`, `ListingsAccounted` (an interrupted create is found again: `InterruptedCreateRecovered`; what the ERP does not know in the store is bounded by its faults: `OrphansAccounted`), `MonotonePublishing`, `OutboxDrains` |
| `outbox_lost_edit` (violation) | the same without faults, publishing runs for ever | an edit that commits while the product is pushed is marked synced with it and never sent (`EditsReachStore`), against `docs/woocommerce_sync_setup.md:78` |

Products do not share records, mappings or listings, so one product is enough; two attempts let a record be
used up. `MaxListings` exceeds what the faults can create, so it never stops a request. `FairSpec` lets the
worker go on and time pass; `PublishingSpec` adds that a publishing run starts again and again, which makes the
counterexample stronger, not weaker.

## 6. Notifications: `PushOutbox`

Business changes append to `notes` in their own transaction; the worker's transaction is `batch`: it selects
due notifications, delivers each to every active subscription and commits at the end of the batch
(`apps/worker/main.py:52`). A crash drops the batch but not the messages, so `received`, which no table holds,
counts what the devices were shown.

| Run | Instance | Shows |
|---|---|---|
| `push_two_devices` (739,480 states) | two devices, two changes, two riders, 2 attempts, batches of one, one crash | `PushTypeOK`, `DeliveryRecorded` (what is marked sent was received: `SentWasReceived`; no device shows it more often than attempts and crashes allow: `RepeatsBounded`), `SettledIsFinal`, `EveryNoteSettles` |
| `push_reassigned` (violation) | one device, three changes | a delivery given back to an earlier rider queues nothing (`EveryChangeNotified`), against `docs/push_notifications.md:36` |

Both configurations run `PushOutbox` itself. `BatchLimit` is 1 so that it matters with two notifications.
Fairness: the worker polls for ever, time passes.

## 7. The components around them: `BackOffice`

`BackOffice` extends 28 component modules. The variable `part` names the one component that runs and never
changes; each `Run...` action takes a step of it and leaves all other variables alone. Components share no
variables: each has among its own steps whatever changes the rows it reads, so that interleaving two of them
would multiply states and show nothing new. The variables of the others are `Off`, except for those that a
property of every behaviour speaks of (shop, vendor stock, orders, licenses, images, books), which keep their
initial values. `VIEW TheState` leaves the variables that stand still out of the fingerprint; it hides nothing
a step can change but, in five components, which of several sessions that are alike does what (`Nameless`). `CHECK_DEADLOCK FALSE`, because every component has a budget of calls and may use it up.

The run `back_office` (module `MCBackOffice`, 1.2 million states) checks every component. Overlapping requests are
modelled by a step that reads and a step that writes, as the code does between two commits. Most promises hold
only but for overlaps the code does not exclude; each property names its exceptions, and the histories it needs
for it (`lapped`, `overlaps`, `causes`...) are variables marked as such.

| Part | Code | Instance | Promises |
|---|---|---|---|
| `ShopStock` | shop and inventory services: movements, POS, purchases, online orders | two sessions, one product, three commits | `ShopSound`; `CatalogueHeals`: a movement that ran alone leaves the catalogue right. Two imports of an unchanged order that overlap restore its stock twice, against "exactly once" (`woocommerce_services.py:3315`): `outdated` names such orders |
| `VendorStock` | `_balance_for_update`, `post_inventory_movement` | two sessions, three movements | `VendorStockSound`: the balance is the sum of its movements, never short, none booked twice |
| `OrderSessions` | `record_payment`, `change_order_status` | two sessions, total 3, four calls | `PaidMinorWithinTotal`, `RefundLeavesNothing`; `ClosedForGood` |
| `VendorLines` | `decide_vendor_item`, `create_vendor_settlement`, refunds, the vendor's work | two lines, two clerks, three calls | `LinePaidOnce`, `FinanceAsPosted`, `RefundTakesAllBack`, `HistoryLeadsHere` |
| `RiderCash` | COD acceptance, remittances, payouts, adjustments | two desks, one collection, two remittances | `PayoutsBacked`, `CashBacked`, `CollectedOnce`, `RemittedAsBooked`, `RunningBalance` |
| `StorePull` | incremental and full pulls, webhooks, reconciliation | two products, pages of one | `PulledUpToCheckpoint`, `ArchivedIfGoneOrHidden` |
| `StoreRequests` | `make_woocommerce_request` | three attempts, two modes, two ways for the keys | `OnceUnlessUnheard`, `FailedDidNothing` |
| `StoreSettings` | the row of credentials, mode, checkpoints | two administrators, eight steps | `KeysStay`, `SecretStays`, `MarkHonest`, `PluginOfThisStore` |
| `StoreOrders` | import of products and orders | three rows, four steps | vendors credited, sales paid and stocked once |
| `Customers` | import of customers | three rows, two addresses | `OneCustomerEach`, `CustomersGetThrough`, `OrdersFindTheirBuyer` |
| `StoreStock` | stock taken from and sent to the store | one product, seven steps | `StoreOffersWhatThereIs`, `WooFollowsStore` |
| `StoreTerms` | categories and brands published and imported | three slugs, two edits, two runs | `RunAgrees`, `GetsThrough`, `LoopsMade`, `OperatorsKept` |
| `VendorCatalogue` | assignments, listings, commission rules | three products, two vendors, four calls | `OneOwner`, `PagesKeepOut`, `HeldBack`, `OwnerMayList`, `RulesMeant` |
| `ProductImages` | forms, pushes, the store's gallery | three rows, three media, a fault | `Distinct`, `ShownOnce`, `StoreImagesKept`; `RemovalKept` |
| `ProductVideos` | links, files, the manifest | two rows, two forms, a fault | `NoChangeForgotten`, but for a last video removed once more (section 8); `FilesKept` |
| `MediaQueue` | media records and their retry | two edits, two attempts | `UnsentIsTold`, but for an upload, or removals alone from a listed product, not queued until the next publishing run, and an edit during a push |
| `JournalBook` | ledger and older accounting | three postings, two settings | `ReversedOnce`, `DriftExplained`, `ReconciliationKnown`, `ProjectedAsPosted`, `ReportAdds`; `ClosedBooksStay` |
| `Licensing` | activation with and without a server, offline file, revocation | two devices, one key, five days, three calls | `ValidAsGranted`, `OneDevicePerKey` (of keys the server gave; an installation without one signs any key for itself and for a year); `LocalRevocationHolds` |
| `AuthSessions` | login, rotation, cut-off; desktop and browser clients | two callers, two pairs, one cut | `OneHeir`, `CutOffHolds`, `FamilyEnds`, `NoFalseAlarm` |
| `Throttle` | `check_auth_throttle`, `record_auth_throttle_attempt` | limit 2, windows of 2 minutes, four attempts | `RefusedForCause`; `BrakeHolds`: with a block as long as the window, fewer than twice the limit less one get through in a window, but for those let in before |
| `Accounts` | first administrator, approvals, links | two requests, two administrators, two links | `SetUpOnce`, `AdministratorLeft`, `LetInByDecision`, `FlagsAgree`, `LinkOnce` |
| `VendorAccess` | ties of users and vendors, repairs on sign-in | two users, two vendors, five steps | `LetInForWhatHeActsFor`, `LeftInPeace`, `RoleStaysOff`, `StoppedStays` |
| `DesktopShell` | sign-in, background tasks, timers | three epochs | `ScreenMatchesClient`, `SignedOutStays`, `BusyEnds` |
| `DesktopVendors` | the marketplace page | two vendors, four steps | `WorkspaceMeant`, `DoneToMeant`, `ListIsRead` |
| `DesktopProducts` | the product form | three products, four steps | `SavesWhatWasTyped` (of the fields the form has; `besides` stands for what it has no room for, and every save takes away), `FormOfAProduct` |
| `DesktopAdmin` | users and roles | two users, four steps | `ChangedAsAsked`, `HiredAsAsked`, `SomebodyIsLeft` |
| `DesktopSync` | the buttons that start a run | three runs | `ButtonsComeBack`, `OneWatch` |
| `WhatsAppQueue` | queue and send | two senders, two keys, four sendings | `AcceptedIsQueued`, `StatusOfLastSending` |

The invariants of the run are conjunctions of these: `OrdersKept` (`OrderSessions`, `VendorLines`), `PullKept` (`StorePull`,
`StoreRequests`, `StoreSettings`), `AuthKept` (`AuthSessions`, `Throttle`), `AccountsKept` (`Accounts`, `VendorAccess`),
`DesktopKept` (the five desktop parts), `StoreOrdersKept` (`StoreOrders`, `Customers`, `WhatsAppQueue`, `StoreStock`),
`MediaSound` (images, videos, queue), `CatalogueSound` (`VendorCatalogue`, `StoreTerms`), and one each for the shop, the
vendor stock, rider cash, licenses and books. `EndedStaysEnded` is `ClosedForGood`, `LocalRevocationHolds`, `RemovalKept`
and `ClosedBooksStay`. Bounds are budgets of calls: each is large enough for two calls of every kind to overlap
and a third to find what they left, which is where the exceptions named in the properties first happen. In `StoreTerms`
the two terms may be nested at the start, so that two edits make each of the loops `LoopsMade` tells apart: by an operator's
parent, by staff, by a renamed slug, and by a parent an import put back.

## 8. Other disagreements met while modelling

These are in the models' behaviour or next to it, and no run is spent on them.

Money:

- A refund reverses the whole settlement of its lines (`order_services.py:395`), so another order's paid line
  is owed again and never settled anew.
- The shares of a part payment are rounded one by one and a negative remainder is refused
  (`accounting_services.py:856`), so some part payments are impossible although the comment above promises them.
- A refund before approval leaves the legacy vendor balance at the sale (`accounting_services.py:952`).
- A payment whose reversal was reversed by hand is not found by the refund (`order_services.py:343`). After
  hand reversals `VendorNeverOverdrawn` and `RefundedNetsToZero` fail.
- A settlement gives a line the status "allocated", which is not in `VENDOR_ORDER_ITEM_TRANSITIONS`: the vendor can
  do nothing more with it. Settlements made at the same time each post and pay; a refund reverses the last.
- `docs/authentication_vendor_ledger.md:78` says "Locked and closed periods reject postings"; a posting creates a
  full-year period where it finds none that is open. `accounting_periods` do not bind ledger journals.
- Overlapping acceptances of one collection without a rider's fee both record a payment; an acceptance that
  overlaps a refusal of a remittance leaves a rejected one with a journal.
- Cancelling an order reverses no payment; a POS sale books its total as received even when it is not.

The store:

- A worker that outlives its lease clears the key of a run another worker has taken over, and a second run may
  start beside it (`woocommerce_services.py:5647`); a run that lost its key so can block every later cycle, because
  recovery sets the key again (line 2752).
- A product edited from A to B and back to A finds its record synced and is not sent (line 1044).
- Enqueueing a failed record resets its attempts (line 1047), and the lookup before a second create asks for
  `attempts > 1` (line 4945); `ListingsAccounted` bounds what follows.
- A record recovered with its last attempt used is pending for good (line 4766).
- `docs/sync_architecture.md` gives vendor jobs a key of their own; the code uses the company's. Its line 110 speaks
  of conflicts that nothing but a test creates, and lines 61-80 of a bound that prevents pages from shifting; they
  shift, and reconciliation may archive a product that is still in the store.
- The record of a product without videos has the hash of an empty list (lines 2326-2355), and one that was sent is
  not sent again: only the first time a product loses its last video is the store told, against the docstring at line 2093,
  "so removed videos are cleared remotely." `unsaid` names such videos.
- Failed webhook deliveries are never retried (`woocommerce_services.py:5293`); a late one overwrites newer content and
  revives an archived product or image.
- Import by slug maps two terms to one; chains and swaps of names stop the runs. An incremental run of the company imports before it
  publishes, and so sets back what operators changed, against "rather than silent overwrites" of `docs/sync_architecture.md`;
  a run of products publishes first, one for a vendor or of the outbox imports nothing. Only terms that products refer
  to are published, with the ones above them (lines 1820-1863): what an operator changes in others never gets to the store.
- An order with a product made in the ERP and without variants stops every pull; the payment of an order is
  recorded at its first import only; later changes of the store are refused while `push_status` is not enqueued.
- Pages of customers stop at an account whose e-mail or phone another customer has; orders are then not pulled.
- Saving the settings overwrites the checkpoint or REST mode another request has stored; changing the site keeps
  checkpoints and mappings.
- `pending_update` of an image never clears (line 2974), so it is pushed again in every run. A form that only removes
  images of a listed product queues nothing until the next publishing run (lines 2086-2089); against
  `docs/production_deployment.md:153` an image added in the store between the reading and the writing of a push is lost.

Users and programs:

- Failures of paused accounts are rolled back and not counted by the throttle; registrations, resets and
  activations count successes too and share a limit per address.
- Two browser tabs that refresh the same cookie end the login; a login verified before a password reset commits
  outlives it (`services.py:833`); two administrators can disable each other.
- An installation never asks the license server again: a revocation there reaches it only with the next activation.
  Without `license_server_url`, the default (`config.py:57`), it signs any key for itself, for a year, whoever
  else uses it (`licensing_services.py:189`).
- The desktop shows the answer of an earlier selection in the workspace of a later one; a product saved from a form
  keeps its first category only (`desktop/main.py:2147`), is sent with the quantity the form was opened with, and loses what
  the tables of variants and images have no column for (lines 2089-2138): the variant's stock, weight, description and image,
  the image's variant (`catalog_services.py:624`, `736`, `797`).
- One device that is reached settles the notification for all (`push_services.py:535`).
- No worker sends WhatsApp messages; the key that makes one unique is unique across companies.

## 9. What is proved

All theorems hold for every value of the constants the named assumptions allow, so for any number of orders,
sessions, workers, devices, calls and faults.

`OrderFinanceProofs` and `SumLemmas`, from `ConstantTypes`, `NullIsNoRow` and `FiniteLines` (amounts of requests are
positive, as their schemas demand; `None` is no row; the lines and payment rows are finite):

| Theorem | Says |
|---|---|
| `TypeCorrect`, `PaymentsCapped` | `TypeOK`, `NeverOverpaid` |
| `PaidIsSum` | `PaidIsSumOfPayments` |
| `SalesBacked`, `ReviewAgrees`, `RefundsReverse` | `SaleBacked`, `ReviewMatchesLedger`, `RefundReversesOriginals` |
| `InvAlways` | the inductive invariant `Inv` |
| `NeverOverdrawn` | `VendorNeverOverdrawn`, if approvals and settlements are not reversed by hand (`LinesUncorrected`) |
| `RefundedNets` | `RefundedNetsToZero`, if nothing is reversed by hand (`Uncorrected`) |
| `Implements` | `ImplementsVendorSale` |
| `RefundsAreFinal` | `RefundIsFinal` |

`Inv` is `TypeOK`, `SaleBacked`, `ReviewMatchesLedger`, `RefundReversesOriginals` and `Housekeeping`. The last
says what the others silently rely on: a line has no stage exactly while its order does not exist, an unused
payment row belongs to no order, a payment that is not `paid` has no original journal standing, and a refunded
order has nothing paid and no line that is eligible, approved or paid. Without it `RefundReversesOriginals` is
not inductive: a payment recorded or a settlement made later could belong to a refunded order. There is one lemma
per action (`PaymentStep` serves both ways a payment comes in, `QuietStep` the actions that touch no money).
`Implements` maps each action to the steps of `VendorSale` line by line. The sums are sums of a function over a
finite set; `SumLemmas` proves what is needed of them (a sum split into groups, one summand changed, bounds) by
induction over the cardinality of the set. `PaidIsSum` needs that a payment's amount never changes while it counts,
`NeverOverdrawn` that the settlement of a line stands exactly while the line is paid (`LinesStand`), `RefundedNets`
that each event of an order was posted at most once (`PostedOnce`). The two hypotheses are those of the run
`two_orders`; without them TLC refutes both properties (section 8).

`SyncProofs`, of the runs, of the outbox and of the notifications, each from the assumptions of its module:

| Theorem | Says |
|---|---|
| `RunsTyped` | `RunsTypeOK` |
| `SyncExcludes`, `ExecutorsHoldRows` | `ExclusiveSync`, `ExecutorHoldsRow` |
| `OneWorkerAccounts`, `OneWorkerFinishes` | with one worker, `RunsAccounted` and `FinishedIsFinal` |
| `OutboxTyped` | `TypeOK` |
| `PublishingMonotone` | `MonotonePublishing` |
| `ListingsTrue` | `ListingsAccounted` |
| `PushTyped`, `DeliveriesTrue`, `SettledStays` | `PushTypeOK`, `DeliveryRecorded`, `SettledIsFinal` |

`SyncInv` is `RunsTypeOK` and, while no worker has died and no lease has run out, `Quiet(rows, workers)`: nothing a
planning worker has read looked abandoned, an executing worker's row is running under its name and holds the
key, the rows with the key are exactly the active ones and there is at most one, and every running row has a
live lease and an executor. `ExclusiveSync` alone is not inductive, since the exclusion comes from the unique
key and survives a cycle only if its recovery has nothing to recover. `Quiet` takes the table and the memories
as arguments, because `Schedule` passes through a table no state shows: recovered and extended, not yet claimed
from. `WorkerInv` of the single worker is `RunsTypeOK` and `Account`: keys are held by active rows, what it plans to
recover still is stale, its run holds its row, and attempts are left. With two workers TLC refutes each of its parts.

`OutboxInv` adds to the types that the queue holds open records with the attempts read of them, that the mapping and
the target of a push are listings of their product, and that no listing, payload or answer is of a later edit than
the product (`StoreBehind`, `PayloadAhead`: what is pushed is not older than what is there). `AccountInv` is what
`ListingsTrue` adds to it: listings are taken out only by a counted fault (`NothingGone`), the listings the mapping does not
know are no more than crashes and lost answers (`OrphansFew`), and of a product that was not edited and had no refusals
the record of the first content counts its attempts without a gap, so that whatever is in the store and not in the
mapping is looked for before it is sent again (`FirstPush`).

`PushInv` is the types, the bound of attempts of an open notification, that a batch consists of open ones, and that
what is sent was received and not more often than it was tried.

`TradeProofs`:

| Theorem | Says |
|---|---|
| `LocksKept`, `VendorStockTrue` | a session between lock and commit holds the balance row alone; `VendorStockSound` |
| `OrderSessionsTrue`, `OrderSessionsTyped`, `ClosedStaysClosed` | `OrderSessionsSound`, `OrderSessionsTypeOK`, `ClosedForGood` |
| `LinesTrue` | `VendorLinesSound` |
| `RiderTrue` | `RiderSound` |
| `ShopTrue`, `CatalogueHealed` | `ShopSound`, `CatalogueHeals` |
| `VendorCatalogueTrue` | `VendorCatalogueTypeOK`, `VendorCatalogueSound` |
| `ImagesTrue`, `RemovalStays` | `ImagesTypeOK`, `ImagesSound`; `RemovalKept` |
| `VideosTrue` | `VideosTypeOK`, `VideosSound` |
| `MediaQueueTrue` | `MediaQueueTypeOK`, `MediaQueueSound` |

`LockInv` says that one session holds the row and what it read is what is there. `OrderInv` says of every open call
that what it read fits the order unless another call ended meanwhile. `LinesInv` is the conjunction, line by line, of
the four promises, of what the row, the journal, the settlements and the history of a line have to do with each
other (`RowAgrees`), and of what every open call has read of it or has seen happen since (`JobsFit`): a settlement that
found a line unpaid has seen every settlement of it, a refund has read all there is to take back or has seen an
approval or a settlement. The exceptions of the properties are exactly what the calls have seen. `RiderInv` bounds, for every call of the desk, how
far what it summed may differ from the rows now. `ShopInv` says of every open transaction what it read or covers
(`ShopFits`: the order it holds, the stock its sale was checked against, the receipt it pays) and of every two that
they do not hold the same rows (`AllApart`); the invariant fails for a stock taken twice by imports that overlap, and
that is how `outdated` came into the model. `CatalogueInv` adds to the promises of `VendorCatalogue` that, until the office
transfers or reassigns a product, its row, its assignment, its listing and whoever has its page open are one vendor's.

`ImagesInv` is the longest. `ShownOnce` counts what the gallery shows of a row; what is inductive (`MadeOnce`) counts every
attachment made of it that the store, the row, an open form or the push's session still knows (`Held`). A row without
an attachment may be uploaded: so one more copy must be allowed for it (`MayMake`), or there is an attachment made of it
that the store's answer will be matched to by its URL (`FoundByUrl`, `RowsFree`), and the same holds of what a push has
cached (`PushFree`). `MarkedTaken` says that what is marked for removal and was the staff's own was taken off by an
operator, and `FetchedAll` that during a push only the staff adds to the gallery. `SavedAs`, `ReconciledAs` and `ImportedAs` say once what a
form, an answer and a webhook make of a row, and the steps use only these. `Number` is known to be an injection, not
which one: the theorems hold for every choice of new ids. `VideosInv` says that a push which is building has
read what is there but for the rows changed since, and one that was answered has shown it; `MediaInv` that while
images are to be sent the record of their newest version is open, and what a retry has listed is of older ones.

`AccessProofs`: `LicensesTrue` (`LicenseSound`), `LicensesTyped` (`LicenseTypeOK`), `RevocationHolds` (`LocalRevocationHolds`). `LicenseInv`
says that whatever an installation holds, in row, file or unfinished activation, is backed by a record of the server, or was signed there for a time that is known.
`AuthTrue` (`AuthSound`): `AuthInv` is `TablesTrue` of the server and `DesktopAlone` of the client. The first says of every
call what it has read and may still rely on (`CallFits`: a token it has consumed can still be used, what a revocation has not
listed has slipped through it, and a cut-off since it began has marked it), of two calls that they have not written one
token, and of a cut-off that what it does not cover was marked; the lemmas named `...Tables` take one action each. The
second says that of the threads of the desktop program one refreshes, and that nobody else has the token it presents or
was answered. `ThrottleTrue` (`ThrottleSound`): `RowBrakes` counts, of the attempts of a scope, those since the row
began, those after its first minute and those in the window before it; the bound 2 * limit - 2 is the sum of the first and
the last, because a row whose first attempt was answered follows either a full one, which blocked for a whole window, or
one that had not reached the limit. That proof made `Retention` a number in `ThrottleAssumption`, which had not said so.
`AccountsTrue` (`AccountsTypeOK`, `AccountsSound`): `AccountsInv` says of every open request that what it read fits the rows, or
another request ended meanwhile (`QueriesFit`, by kind: `AdminFits`, `PersonFits`, `LinkFits`), and that a link is used
at most once and only by consuming it (`LinksTrue`). `VendorAccessTrue` (`VendorAccessTypeOK`, `VendorAccessSound`): `AccessInv` adds to the
promises that a user has one tie to a vendor and an absent user none (`TiedOnce`), without which the repair of
unambiguous ties could tie a user it does not mean.

The desktop client is there too: `DesktopShellTrue` (`DesktopSound`), `DesktopVendorsTrue` (`DesktopVendorsSound`),
`DesktopProductsTrue`, `DesktopAdminTrue` and `DesktopSyncTrue` (type invariant and `...Sound` of each page). `ShellInv` says of
every task under way for whom it was started, and that a task that signs in is the only one that can put somebody
on the screen, unless a refresh ran across it (`TasksFit`, `SignInAlone`, `SignedOutFor`). `VendorPageInv` says that
the workspace is of the row that was chosen, or its answer is still waited for, or one of the slips the property names
happened. `ProductPageInv` is `FormFits`: every field of the form is as it was typed, or as the row was when it was
read and the row has changed `since`. `OfficeInv` says what the ticks, the order being sent and the form of a new user
have to do with the account picked (`FormFitsPick`, `OrderFits`, `HiringFits`), and `SyncPageInv` that the buttons
are off as long as a timer polls.

`StoreProofs` is about what the ERP reads from the store and remembers of it, each from its module's assumption:

| Theorem | Says |
|---|---|
| `StorePullTrue` | `PullSound` |
| `StoreRequestsTrue` | `StoreRequestsTypeOK`, `StoreRequestsSound` |
| `StoreSettingsTrue` | `StoreSettingsTypeOK`, `StoreSettingsSound` |
| `StoreOrdersTrue` | `StoreOrderTypeOK`, `StoreOrdersSound` |
| `CustomersTrue` | `CustomersTypeOK`, `CustomersSound` |
| `StoreStockTrue` | `StoreStockTypeOK`, `StoreStockSound` |
| `WhatsAppTrue` | `WhatsAppTypeOK`, `WhatsAppSound` |

`PullInv` says of a run that every product it is to read is imported, on a page it will still fetch, among the
items it has fetched, or was hidden by a shift of the pages (`Covers`), and that a product outside the rest of the window is
dated before it (`LastPage`). `RequestsInv` bounds the performances by the answers that were not heard. `SettingsInv` says that
whoever holds a row of settings in hand holds what some save, test or run left there (`InHand`). `StoreStockInv` accounts for the
stock: what the store has is the truth less what was not sent, unless a call wrote over what it had not read
(`Unspoilt`). `CustomersInv` keeps, while nothing troubled the rows, one row for each account with the address the store
has of it (`WorldFits`). `StoreOrdersInv` says of every row of goods which product of the store it was made of, that a
mapping points to a row of its own product, that the sales have the vendor, payments and stock their status demands
(`TradeFits`), and that a run that was refused had one of the named reasons. An import takes a page apart with a fold; `SalesFold`
and `WaresFold` show that a fold keeps whatever its step keeps: the function that defines a fold over sets of numbers is proved to exist by
`FoldExists` (by induction on the largest number), and the rest is a natural induction over `1..n`.

`BookProofs` is about the ledger and the older books, from `JournalBookAssumption`: `BooksTrue` (`BookSound`) and
`BooksStayClosed` (`ClosedBooksStay`). `BookSound` compares two sets of books, so `BookInv` says how each row of the one came of
the other: a journal has the key and the lines of whoever posts journals of its source, and a reversal those of
the journal it reverses (`JournalsFit`, `SourceFits`); a journal is marked as reversed exactly while one that reverses it
is posted (`StatusesFit`); an entry of the older books is a copy of its journal, line by line on the rows that mirrored its
accounts (`EntriesFit`), while every mirrored row has the code it is mirrored by unless it was renamed (`MirrorFits`); and
an entry has a journal of its source with the same debits, a journal that is projected an entry of its source, and a
vendor's row too, but for the sources a caller may name himself (`TieFits`). `DriftExplained` is then kept by each posting by itself: what it adds to the ledger's balance, to the
vendor's and to the journals without an entry. That the report of payables adds up (`ReportAdds`) is a natural
induction over the journals of a month (`MonthAdds`), in which a debit takes from the lots what they hold of it (`AgedOwes`).

`BackOfficeProofs`: `StepOfPart` shows that a step of `BackOffice` leaves `part` alone and is a step of the components
it runs or none; with it the invariants above become invariants of the composition:

| Theorem | Says |
|---|---|
| `LicenseStands` | `LicenseKept` |
| `OrdersStand` | `OrdersKept` |
| `VendorStockStands` | `VendorStockSound` |
| `RiderStands` | `RiderKept` |
| `ShopStands`, `CatalogueStands` | `ShopKept`, `CatalogueHeals` |
| `SessionsStand` | `AuthKept` |
| `AccountsStand` | `AccountsKept` |
| `MediaStands` | `MediaSound` |
| `DesktopStands` | `DesktopKept` |
| `PullStands` | `PullKept` |
| `StoreOrdersStand` | `StoreOrdersKept` |
| `BooksStand` | `BookKept` |
| `EndedStands` | `EndedStaysEnded` |

`EndedStands` rests on `BookStep`, `OrderReopened`, `LicenseRevived` and `RemovalsStayStep`: the four are about what a
call may do that had read what was before.

The proofs changed the models. In two places a model was wrong: `StoreOrders` noted the first row of a product only at
the end of an import, though an order of the same import already asks for it (`due`), and a guard that stopped imports
once all rows were taken was never justified by the code (`trade.first` is noted when the row is mapped, and there
are rows enough for what is imported); and a draft of `JournalBook` could be on an
account that no row of the chart had yet, which the foreign key of `journal_lines` forbids. Elsewhere they did not
change what the models say of the code: `StorePull` keeps pages as sets with
the order of the store instead of sorted sequences, `StoreRequests` names the addresses left to try, `DesktopShell`
states its bound of epochs in the guards, `DesktopAdmin`, `Customers` and `StoreOrders` state what their constants must be (at
least an administrator, rows enough for what is imported); `ShopStock` has `outdated`, `Retention` and
the rows and attachments of `ProductImages` are said to be a number and finite, `None` is no merchant of
`VendorCatalogue`, whose `RulesMeant` now also says that a rule of another product or
category is used only if its vendor or its category is the line's, and new ids of
`ProductImages` are any unused ones rather than the smallest.

Checked by TLC only: the liveness properties (`EveryRunEnds`, `EveryNoteSettles`, `OutboxDrains`), which are out of the
prover's reach, and of `BackOffice`:

- `CatalogueSound` as a whole: `StoreTerms` folds the terms of a page over its rows and walks the parents of a
  category until it finds a loop; what such a walk computes needs induction over its data. Its part of
  `VendorCatalogue` is proved (`VendorCatalogueTrue`).
- The type invariants gathered in `BackOfficeTypeOK`, of which those named above are proved of their components.

## 10. What is not modelled

- The lines of a journal, expenses, reports and diagnostics: read-outs of what is posted. Backup: file copies. Module
  manifests: static checks.
- Parsing of payloads, product variations, coupons and reviews: data conversion.
- Cryptography, signatures of webhooks, the expiry of refresh tokens; the permissions are taken as given.
- Order-status records of the outbox, which settle like product records.
- Addresses, notes, tags and archiving of customers; warehouses, suppliers and settings: one row at a time.
- The finance, ledger, license and company pages of the desktop, the web portal, the front end and the WordPress
  plugin: presentation over the API.
- Migrations, deployment and scripts.
- Crashes within `MediaQueue` and attempts cached by the worker there: `SyncOutbox` has both.
- `allow_negative_vendor_stock` (`ledger_services.py:926`, off by default), the `baseline` of an online order's
  `reservation_status` (`woocommerce_services.py:3212`), plain client errors of the store (line 2882), which are answered at
  once, and an empty gallery on import.

Simplifications that none of the promises depends on:

- `StoreSettings`: a run holds the row to its end and a failing one leaves nothing of it; the worker commits after each page
  (lines 4426, 5414), which frees the row and keeps the pages.
- `SyncRuns.Schedule` takes the attempts of a run recovered twice from the table, where the code adds one to those it read.
- `SyncOutbox`: `KeepTarget` keeps the id of a listing that is gone, where the code deletes the mapping (lines 4973-4979) and finds no
  listing either way; `Payload` is the product's current content, where a session may serve one it read a record before.
- `RiderCash`: an earning booked by another acceptance meanwhile is refused by its key, where the code may find and return it
  (`finance_services.py:515`, `553`); both only when requests overlap.
