# Wasla: TLA+ models and proofs of the paths where order matters

Wasla is a multi-tenant commerce platform (Django, PostgreSQL, Celery). Merchants run stores,
customers fill carts and pay orders through external providers, and the platform keeps two books
per store: a *wallet* (`apps/wallet`) and a *settlement ledger* (`apps/settlements`). This project
models the parts in which several requests, tasks, webhooks or processes work on the same rows:
the two books, the payments that feed them, checkout with its coupons, returns and refunds, the
sending of e-mails and the import of products.

Operations are database transactions under PostgreSQL's READ COMMITTED isolation
(`config/database_hardening.py`: `ATOMIC_REQUESTS = False`, explicit `transaction.atomic`). The
models therefore make one step of each point at which another transaction can be observed or
waited for: an unlocked read, a `SELECT ... FOR UPDATE`, and the final writes with the commit. A
raised exception, and the loss of the worker or of its connection, roll everything back
(`Raise`, `Refuse`, `NoEffect`, `Crash`, `Abort`). What is not in a transaction, a task of the
broker or a call of a gateway, is a step of its own and is not undone.

## Inventory

| Component | State | Operations | What makes it correct |
|---|---|---|---|
| wallet (`apps/wallet/services/wallet_service.py`) | `Wallet`, `WalletTransaction`, `WithdrawalRequest` | order paid / delivered / refunded, request, approve, reject, mark paid, credit, debit | stored balances are the sums of the transactions; an event counts once per reference; a withdrawal is debited once |
| settlement ledger (`apps/settlements/application/use_cases`) | `LedgerAccount`, `LedgerEntry`, `Settlement`, `SettlementItem` | credit an order, create / approve / pay a settlement | an order settles once; entries match the status; balance is the sum of the entries; no overdraft |
| fee allocation (`apps/settlements/domain/fees.py`) | none | percent and flat fee over the orders of a settlement | shares add up to the fees, and only the last order can get something back |
| settlement records and invoices (`process_successful_payment.py`, `generate_monthly_invoice_draft.py`) | `SettlementRecord`, `Invoice`, `InvoiceLine` | record a paid attempt, draft a month's invoice | every record is invoiced exactly once (neither runs as written) |
| payments (`apps/payments`) | `PaymentIntent`, `PaymentAttempt`, `WebhookEvent`, `Payment` | initiate, confirm, webhook, risk review | a charge counts once; each event applies once; what is shown confirmed was recorded and credited; flagged attempts wait for a reviewer |
| checkout, cart, coupons | `Cart`, `CheckoutSession`, `Coupon`, `CouponUsageLog`, `Order` | change items, apply a coupon, start, address, shipping, place the order | a session becomes one order; a confirmed session is final; amounts add up; usage limits hold |
| returns and refunds (`apps/orders/services`) | `ReturnMerchandiseAuthorization`, `RefundTransaction`, `Order.refunded_amount` | request, approve, track, receive, inspect, complete; request, process, complete, fail | refunds fit the order; every completion is counted; a completed refund was debited |
| orders: lifecycle, stock | `Order`, `Inventory`, `StockReservation` | create, pay, transition, reserve, release | statuses follow the table; stock is not oversold (reservation does not run as written) |
| e-mails (`apps/emails`) | `EmailLog`, the broker's queue | record, enqueue, send, retry | no more messages than senders that could not confirm theirs; `sent` is true; retries deliver |
| imports (`apps/imports`) | `ImportJob`, `ImportRowError`, `Product` | create, validate, run | SKUs are unique; each row is a product or an error; counts add up; imports end |
| subscriptions (`apps/subscriptions`) | subscriptions, billing cycles, invoices, dunning attempts | activate, bill, pay, retry, suspend | one active plan per store; a period is billed once (billing does not run as written) |
| the other apps | configuration, telemetry, messages, reports | row-by-row edits | no invariant across rows |

Interactions: a provider's webhook or callback runs `apply_payment_success`, which marks the
order paid (taking stock, crediting the wallet), records a `Payment`, credits the settlement
ledger and creates a shipment, all in the webhook's transaction. Order transitions release wallet
funds at delivery; refunds debit the wallet and move the order's status. Placing an order reads the
cart, redeems its coupon and confirms its session in one transaction. Settlement creation reads
orders and items. E-mails are handed to the broker after the commit of what they report. The rows of
orders, wallets, settlements, checkout sessions and coupons are locked; the ledger account, the
refund, the return, the e-mail log and the import job are not.

What is hard: transactions that compute on rows they read without a lock; repeated and reordered
provider events; decisions made twice on instances fetched earlier; a check made before a lock and
relied on after it; retries that meet a unique constraint; answers lost after the work was done;
inserts that wait for each other; work lost with a worker. `PROJECT.json` lists each such place
under `hazards`, at its line.

## Modules

| Module | Models | Checked by |
|---|---|---|
| `WalletContract` | what the wallet promises: each order credits once, money becomes available only out of pending, a payout leaves once and after an approval | refined by `WalletService` |
| `WalletService` | the locked operations of `WalletService`, with their two kinds of row lock | `MCWallet`, `WalletProofs` |
| `WalletAdjust` | the same with `credit` and `debit`, which take no lock, and the repair of old balances | `MCWalletAdjust`, `WalletProofs` |
| `WalletProofs` | inductive invariants, theorems and refinement for `WalletService` and `WalletAdjust` | TLAPS |
| `LedgerContract` | what the settlement ledger promises: an order is credited once and settled in one batch; a batch is cleared once, then paid out once, each with its entries | refined by `SettlementLedger` |
| `SettlementLedger` | the ledger account of one store and the four use cases | `MCSettlement`, `SettlementProofs` |
| `FeeAllocation` | how the fees of a settlement are divided among its orders | `MCSettlement`, `SettlementProofs` |
| `SettlementProofs` | inductive invariants and theorems for `SettlementLedger` and `FeeAllocation`, and the refinement | TLAPS |
| `PaymentContract` | what payments promise: money is recorded and credited for a reported success only, and for good; what is confirmed was recorded, and is not confirmed while it is held | refined by `Payments` |
| `Payments` | the payments of one order: initiation, webhooks, outcomes, risk review | `MCPayments`, `PaymentsProofs` |
| `PaymentsProofs` | inductive invariant, theorems and refinement for `Payments` | TLAPS |
| `CouponContract` | what coupons promise: one use per order, within both limits, counted as logged | refined by `Checkout` |
| `Checkout` | carts, coupons, checkout sessions and the orders they become | `MCCheckout`, `CheckoutProofs` |
| `CheckoutProofs` | inductive invariant, theorems and refinement for `Checkout` | TLAPS |
| `Returns` | the returns and refunds of one order | `MCReturns`, `ReturnsProofs` |
| `ReturnsProofs` | inductive invariant and theorems for `Returns` | TLAPS |
| `EmailDelivery` | an e-mail from its idempotency key to sent or failed | `MCEmailDelivery`, `EmailProofs` |
| `EmailProofs` | inductive invariant and theorems for `EmailDelivery` | TLAPS |
| `ProductImport` | imports of one store, row by row | `MCProductImport`, `ImportProofs` |
| `ImportProofs` | inductive invariant and theorems for `ProductImport` | TLAPS |
| `SumTheorems` | what sums over finite sets do when a term or an element changes | TLAPS; used by the proofs of wallet, settlements and returns |

### WalletService

`row` is the committed `Wallet`. The transaction table is kept as what the code reads of it:
`recorded[e][r]` says which (event, reference) pairs exist and `posted[e][b]` is the signed sum of
event `e` in bucket `b`, so that `Computed(b)` is the sum `ledger_integrity_check` computes. A
worker's `pc` walks through `get_wallet` (the unlocked read of `get_or_create_wallet`),
`lock_request`, `lock_wallet` and `locked`. The bodies `OnOrderPaid`, `OnOrderDelivered`,
`OnRefund`, `CreateWithdrawalRequest`, `ApproveWithdrawal`, `RejectWithdrawal` and
`MarkWithdrawalPaid` run with the locks held and commit; `AlreadyDone` is their early returns and
`Refuse` their errors. `local` is the copy the body computes on. Callers are taken to pass a store's
own currency and tenant, so the other columns `get_or_create_wallet` may update stay as they are.
Amounts are whole hundredths.

Where the balance is in step with the buckets, `get_or_create_wallet` only reads; `GetWallet` says
so in its guard. `WalletAdjust` has the rest: the wallets migration 0002 left with a balance and
empty buckets (`Legacy`, `LegacyBalances`), and the repair `get_or_create_wallet` answers them
with (`FindOutOfStep`, `RepairBalance`; `Fetch` and `SaveBalance` outside a transaction); its fair
form, `AdjustFairSpec`, is the one whose calls return, repairs included. It also
adds `instance`, the `Wallet` object a caller fetched outside a transaction and passes to `credit`
or `debit`. Their writes wait for the row lock, as every UPDATE does, but the values were computed
before.

### SettlementLedger

`account` is the committed `LedgerAccount`; `credited` the orders with a `LedgerEntry` (the column
is unique); `entries[s][k]` counts a settlement's entries; `settlement[s].orders` are its items,
unique per order. A use case locks its order or settlement, reads the account without a lock
(`ReadAccount`), and commits values computed from that copy. `FindsEntry` is the tenant filter of
the idempotency check: `LedgerEntry.objects.for_tenant(order.tenant_id)` filters on `store_id`, so
it finds the entry only where the two ids are equal (`TenantIsStore`). `OrderPaid` is the
environment: the two ways an order counts as paid. Fees are any total from `FeeTotals`.

The refinement of `LedgerContract` forgets the account, the locks, the workers and which settlement is
which: a batch is a settlement's orders and net (`Batch`), and the `journal` is the number of
`LedgerEntry` rows. `OrderPaid` is the contract's `Earn`, `CreditOrderPayment` its `Credit`,
`CreateSettlement` its `Gather`, `ApproveSettlement` its `Clear`, `MarkSettlementPaid` its `PayOut`. What the
contract leaves out is the balance, because lost updates do break that.

### FeeAllocation

`allocate_fees` as functions on sequences of totals: `FlatShares` gives the last order what rounding
has left of the flat fee, `AllocateFees` adds the percentage and rounds half up, as
`ROUND_HALF_UP` does for both signs. Decimals have 28 digits: `Precision` is a constant of which
`PrecisionAssumption` says only that fees and totals, times the number of orders, are far below it. The
runs keep four digits, which decide every rounding the same way for the totals used. The module EXTENDS `SettlementLedger`, so that
`FeesAddUp` is about the orders of the settlements that are reached, in every order the query,
which has no ORDER BY, may return them. Its reference is the sum of the percentages and the flat fee.

### Payments

One order, the payments initiated for it, and the events its provider sends. `order` is the `Order`
(status, payment status, number of shipments); `intent` and `attempt` hold the `PaymentIntent` and
the `PaymentAttempt` of each idempotency key; `event` is the status of each `WebhookEvent`;
`payments` counts the `Payment` rows of a reference; `credited` says that the settlement ledger
has the order's entry. `charged`, `sent` and `acked` belong to the provider: the charges it
opened, the events it reports, those it was answered with 200.

| Use case | Actions |
|---|---|
| `InitiatePaymentUseCase` | `Initiate` (locks the order) then `Repeat`, `FlagAttempt`, or `Charge` one or more times and `CommitInitiation` or `CommitDummyPayment` |
| `HandleWebhookEventUseCase` | `Deliver` (reads the intent), `IntentNotFound`, `AlreadyHandled`, `LockEvent`, `LockOrder`, then `HoldFlagged`, `ApplySuccess`, `RefuseSuccess`, `ApplyFailure` or `ApplyPending` |
| risk review | `StartApprove` (reads the attempt), `FinishApprove`, `Reject` |
| other writers of the order | `StartLifecycle`, `FinishLifecycle` (`OrderLifecycleService.transition` to paid), `ApproveBnpl` |
| exceptions and crashes | `Abort`, at every step of a transaction |

Each use case is one transaction. `local` keeps what it read: the intent's status, read before the
transaction, and one snapshot of the order, of the ledger entry and of the `Payment` row, read
under the order's lock. A gateway call happens inside the transaction and is not undone by its
rollback: a charge that is not committed stays in `charged`.

The refinement of `PaymentContract` forgets threads, intents, event rows and locks: `reported` are the
charges the provider sent a success for, `recorded` those with a `Payment` row, `held` the attempts
that wait for review (`Waiting`). `ApplySuccess` is the contract's `Apply`, `CommitDummyPayment` its
`PayTest`, `FlagAttempt` its `Hold`, and so is `HoldFlagged` where it sends an approved attempt back;
`FinishApprove` and `Reject` are its `Review`, which releases the attempt. What the code then does with an
approved attempt is told under the disagreements below.

`Applies` is where a success gets through. `mark_as_paid` calls `AccountingService.calculate_net`,
which does not exist, and so raises for every order that is not paid already; the order must have
become paid otherwise. The one writer that can is `OrderLifecycleService.transition`, whose table
allows pending to paid; it is public, and no caller in the repository passes "paid". The success path
is kept as it is written. Where the tenant's id is not the store's, a second success of a credited order
raises too (`TenantIsStore`): the `payments` run takes them equal, so that repeated successes go
through. (`bnpl/services.py` is the module that is imported; the directory
`bnpl/services/` has no `__init__.py`.)

### Checkout

One store: carts, their coupons, the checkout sessions and the orders. A request that writes one
shopper's rows at once is one action (`ChangeItems`, `ClearCart`, `ApplyCoupon`, `RemoveCoupon`,
`SaveAddress`, `SelectShipping`); `get_cart`, which revalidates the coupon and writes it and the
discount if they changed, is the end of nearly all of them (`Revalidated`, `SaveCart`).
`StartCheckout` / `CreateSession` is the read of the newest session and the insertion of another.
`CreateOrderFromCheckoutUseCase` is `LockSession` (with the cart read in the same step),
`CreateOrder` (the plan's limit, the order, the unlocked check of the coupon), `RedeemCoupon` (the
coupon's row locked, both limits again, and the order recomputed without a discount if they refuse) and
`ConfirmSession`, the commit. `RedeemFails` is the `except Exception: pass` of the redemption: the
discount stays without a use. A request brings the cart of whoever makes it, which nothing compares with
the session's (`SelectShipping`, `LockSession`): the actions choose any cart, and the theorems are about
any number of them; the run has one cart, because two exceed what TLC explores, so there the requester's
is the session's. `draft` is what the transaction has written and nobody else sees;
`SessionFree`, `CouponFree` and `CartFree` are the row locks. The order's amounts are the session's,
its items are the requester's cart's, as in the code. `SaveAddress` and `SelectShipping` take the
session's lock before they read it and commit at once, so they are single steps: what `ConfirmedIsFinal`
asks of them is the guard they evaluate under that lock, in a request that comes too late. Tax and total are functions of `taxable` and are not
computed. Discounts are fixed amounts; the percentage kinds differ in the number only. An item out of
stock, and every other exception, is `Abort`.

### Returns

One order, its returns, its refunds and the merchant's wallet. `FetchRma` and `FetchRefund` are
`get_object` or the task's query: the instance is not locked, and `job.seen` is the status the
checks of `ReturnsService` and `RefundsService` see. `ChangeStatus`, `InspectReturn` and
`CompleteRma` are the workflow of a return; `RequestRefund` up to `InsertRefund` is
`request_refund`, whose lock on the order runs from the check of what is left to the commit
(`OrderFree`); `AskGateway`, `CompleteRefund`, `CannotDebit` and `FailRefund` are `process_refund`.
The gateway stub refunds whatever has a successful `Payment`. `completions` is a history: how many
transactions completed a refund. A refund completed by two tasks is counted by the order and taken from
the merchant twice; `RefundedIsCounted` counts with it (`returns_service.py:471`) and is about the two
staying together, not about that.

The callers are those the repository has: `views/commerce.py` and `tasks.py`. As deployed they may not be
reachable: `apps/orders/urls.py` routes none of the commerce views, and they, the tasks and the admin import
`wasla.apps.orders` where the installed application is `apps.orders`. The view's `create_request` also
passes `description=` (`commerce.py:300`), which `request_rma` does not accept, so through that view the
call ends in a TypeError; `RequestRma` is the service's method. A request for a refund that names a return
(`rma_id`, `commerce.py:480-490`) runs the same locked code as one that a completed return makes, with the
check of the return's active refund; `RequestRefund` has the requests without a return.

### EmailDelivery

`log` is the status of the `EmailLog` of each idempotency key. `SendEmail`, `Record` and
`RecordRefused` are `SendEmailUseCase.execute`, with the provider resolved before the transaction;
`Enqueue` and `FallBack` are `enqueue_send_email`, which sends in the web process when `delay()`
raises, whether or not the broker took the task. `ReadLog` to `MarkFailed` is `_send_email_now`,
which reads and writes the log without a lock in either kind of process; `Retry` is
`autoretry_for` with `max_retries`. Every step may raise and end in the `except` clause that writes
"failed" (`tasks.py:43-45, 49-52, 64-67, 95-99`): before the message is out (`Raises`), when the gateway's
answer is lost (`SendTimesOut`), in `mark_sent`, before or after its commit (`MarkSentRaises`), and in that
clause itself (`MarkFailedRaises`). The soft time limit of a task (`settings.py:673`) is an exception like
any other and is among these; the hard limit kills the process. A task that raised is retried, also
when its message was out. The environment kills processes (`Crash`), makes `delay()` raise although the
broker took the task (`FallBack(w, TRUE)`) and changes the settings (`Configure`). The SMTP connection has
no timeout (`provider_resolver.py:74`): a call that never returns is a `Crash` of its process.
`accepted`, `unconfirmed` (messages that were out when their sender raised), `failures`, `doubled`,
`disputed` (`mark_sent` committed and raised), `unmarked` (the failure was not written), `fellBack` and
`lost` are histories that no guard reads.

### ProductImport

Each request creates a job, validates its file and runs it, three transactions one after another
(`CreateJob`; `Validate` or `RefuseFile`; `StartRun`, one step per row, `FinishRun`). A row is a name,
an explicit SKU or none, and whether its content is valid. `run` holds the import's locals and what
it inserted and has not committed. An insert of a SKU waits while another import has it in flight
(`Insert` is disabled), is refused when the SKU is committed (`RefuseCommitted`), and is failed by the
database when the waits form a cycle (`BreakDeadlock`); the savepoint makes each an error of its
row. `CreateProduct` and `EditProduct` are the merchant's form and API (`catalog/views.py:75-88`,
`forms.py:21`, `api.py:161-230`), `DeleteProduct` is the administration (`catalog/admin.py:21`): a
product may give up the SKU an import has read or refused, and `existing_skus` is not read again.
`taken`, `lost`, `freed` (SKUs given up after the import came to know them) and `removed` are histories.

## Runs

Each passing run explores its whole state space; every property of every passing run is broken by
a plausible bug, written as an operator next to the definition it replaces (comment `Fault:`).

| Run | Bounds | Shows |
|---|---|---|
| `wallet_service` | 2 workers, 2 requests, amounts 1 and 2, one reference | balances equal transactions, decisions are final, events and payouts count once, the contract is kept |
| `wallet_liveness` | `WalletAdjust` with 2 workers, 1 request, 1 adjustment, legacy balance 1, fair | locked operations return, also where a repair takes the wallet's lock early |
| `wallet_adjust` | 2 workers, 2 adjustments, legacy balance 0 or 2 | no overdraft even with lost updates; the pending bucket loses none |
| `settlement_race` | 2 workers, 2 orders of totals 2 and 3 in overlapping periods, 2 settlements, fees 1 or 6 | settled once, posted once, credited once, no negative balance; the contract is kept |
| `settlement_serial` | 1 worker, 3 orders of totals 3, 3 and 0, 2 settlements, fees 1 or 7; rates 0, 2.5 and 50 %, flat fees 0, 1, 2, 5 | balance is the sum of the entries; allocated fees add up |
| `payments` | 2 workers, 2 keys, 2 gateways, 1 charge, 2 events of any outcome | a charge counts once, flagged attempts wait for a reviewer, an event applies once; the contract is kept |
| `payments_regress` | 1 worker, 1 key, 2 events | **violation**: a late pending event takes an intent out of succeeded |
| `checkout` | 2 workers, 1 cart, 2 customers, 3 sessions, 1 coupon good for one use, plan limit 2 | a session becomes one order, final and with amounts that add up; coupons keep their contract |
| `returns` | 2 workers, 1 return, 3 refunds of 1 or 2, order total 2, funds 1 or 4 | refunds requested fit the order, completions are counted, completed means debited |
| `returns_over` | as `returns` | **violation**: more than the order's total is refunded |
| `emails` | 2 web processes, 2 workers, 1 key, 5 retries, fair | each message too many was out when its sender raised, sent is true, retries deliver |
| `imports` | 2 imports, files of 1 and 2 rows, 1 SKU used by hand, edits and deletions, fair | SKUs once, rows accounted for, refusals true or stale, imports end |

Why the bounds are enough. Two workers give every pairwise interleaving of the steps, and no rule of
the code is about three. Two requests (settlements, keys, events, imports) let one be decided while
another depends on the same row. In the wallet, two amounts let one request fit and both together
not. In the settlement runs the periods overlap, so that two settlements compete for an order, and
one fee exceeds every gross; three orders, two of them equal, are the fewest for which rounding leaves
the last a negative share. In `payments`, a charge and two events give a charge reported twice, a
success before a failure or the reverse, a charge that was rolled back and reported, and a second
attempt, flagged, that takes the outcome of the first; with two charges the properties hold as well,
in a state space too large for a routine run, and the theorems are about any number. In `checkout`,
three sessions are one more than the two that requests can hold at once and than the plan allows,
one coupon use and two customers make the limits bind, per coupon and per customer, and a cart of price
0 and 2 is below and at the minimum purchase. In `returns`, the third refund is the one that
follows a completed and a failed one; funds of 1 cannot pay a refund of 2. In `emails`,
`MaxRetries` is the code's own 5; one key is enough because no step relates two. In `imports`, the
rows leave their SKU to the import or claim the first or the second, so that two files can collide with
each other, with the merchant and in opposite orders (the deadlock); `MaxSuffix` is one more than
the SKUs that can be in use. `MaxAdjustments`, `MaxSessions` and `MaxRefunds` bound what is
otherwise unbounded; every other model is finite because references, requests, orders, charges and
events are used up. Crashes are possible at every step.

`MCPayments` checks modulo renaming of workers, keys, charges and events, none of which the
specification tells apart, and modulo `acked`, which no guard reads. The other symmetric runs
rename workers, and settlements or customers, only; no run with a liveness property uses symmetry.

Deadlock is checked except in `returns` and `imports`, where everything that was bounded may be used
up or over.

Fairness. `wallet_liveness` (`AdjustFairSpec`): weak fairness of a worker's own steps, since a started
transaction is executed to its end, and strong fairness of taking a row lock, by a SELECT FOR UPDATE or
by the UPDATE of a repair, since PostgreSQL serves the waiters of a row in queue order. Adjustments are
not fair. `emails`: weak fairness of each process's steps, since a request that runs goes
on and a free worker takes what is queued (a gateway call that hangs for good is a crash, above);
nothing is fair about crashes, gateways or settings, so that
`RetriesDeliver` has to name every way an e-mail may fail. `imports`: weak fairness of each request's
own steps, among which the database's deadlock detection (`BreakDeadlock`); no crash, storage failure or
refusal has to happen. Calls, new requests and crashes are never fair.

## Proofs

The proof modules hold for every value of the constants, under the assumptions named in the modules
(amounts are naturals, bounds are naturals, "no key", "no worker" and the like are none, the tables
that are counted or added up are finite, web processes are not workers, decimals have more digits than
fees and totals).

* **Sums.** The amounts are added up with `SumFunctionOnSet`, a fold the community modules define by a
  recursive function that takes elements out of a set as `CHOOSE` names them. The library's induction
  theorems cannot be instantiated; `SumTheorems` replaces them by `LeastSubset`, which says that a
  nonempty collection of subsets of a finite set has a least member. Applied to the subsets for which a
  statement fails, it gives that the recursive function exists (`SumsExist`), that any element may be
  taken out first (`SumRemove`), and from these what the components need: a sum when one term
  changes (`SumChange`), when an element is added, over disjoint sets, of a sum of functions, bounded by
  its terms, and renumbered.
* **Wallet.** The invariant that is inductive says, besides types and `LedgerIntegrity`: a worker
  past its lock step holds the locks its operation needs; a worker in `locked` that holds the wallet
  has `local = row`; a decision past its status check sees the status it
  required. The first two are needed because the bodies compute on `local`; the third because the
  status is checked one step before it is changed. From it follow the theorems `Integrity`,
  `NoDoubleRecording`, `DecisionsAreFinal`, and the refinement `ImplementsContract`, action by action.
  `PayoutsAreDebitedOnce`: a request turns paid only in the step that posts its amount.
* **Wallet with adjustments.** `LedgerIntegrity` is lost, so the invariant cannot lean on it.
  `AdjustIInv` says instead that the row, each worker's locked copy and each caller's stale instance are
  separately non-negative, whichever of them is stale, because the copy that is judged is the copy that
  is written (`NeverOverdrawn`), and that a decision still holds the request it read. What the transactions and requests say does not depend on the row
  (`AdjustedPayoutsAreDebitedOnce`, `AdjustmentsKeepTheHistory`). How far lost updates reach is the
  subject of two more theorems: never to the pending bucket, which no unlocked operation writes
  (`PendingStaysExact`); and the available bucket keeps its distance from its transactions as long as no
  instance is in use while another worker has one or holds the row (`AdjustsAlone`;
  `NoUpdateLostUnlessTwo`, whose invariant `InstancesAreFresh` is that every instance has the row's
  available bucket).
* **Settlement.** Copies of the account are stale by design, so the invariant does not relate them to
  the account: it says that they, too, are non-negative, that a settlement under decision is held by
  its worker and has the required status, and that the entries match the status. `SettledOnce`
  rests on the unique item. `CreditsAreIdempotent` adds that a credit past its check has found no
  entry and holds the order, which is true where the tenant's id is the store's.
  What stale copies do break is the balance, and `BalanceUnlessTwoWrite` says how much has to go wrong
  for it: in every behaviour in which no two transactions are between the SELECT and the UPDATE of the
  account at once (`OneAtTheAccount`), with any number of workers, both balances are the sums of the
  entries. Its invariant is that the copy of whoever is there is the account
  (`CopiesAreCurrent`). `SerialBalance` is the case of one worker, which the run checks.
  `LifecycleIsOrdered` gives the order of a settlement's statuses, and `SettlementImplementsContract` puts
  the rest together, without any such hypothesis. It needs that a settlement has orders
  (`BatchesHaveOrders`): only then do different settlements, whose orders are disjoint, have different
  batches, so that clearing or paying out one is not doing another twice (`BatchesDiffer`).
* **Fees.** `SettlementFeesAddUp` is arithmetic: every share but the last is a rounding, so not negative and
  within half a hundredth of its exact value; hence the last share is at least minus half of that many;
  it is added to a percentage and rounded again, and the total is one short only when that sum is
  below zero and a tie. Multiplications by `Precision` are taken apart in lemmas of their own
  (`AllocatedFees` and before), because the prover's arithmetic is linear. That an order list is a
  permutation of a settlement's orders gives the totals (`SumReindexed`), and that a settlement
  never consists of free orders only (`GrossIsPositive`) is what the division by the total needs.
* **Payments.** What a transaction relies on is that nothing it read has changed when it commits. The
  invariant says so part by part: between locking the order and the end, the snapshot of order,
  ledger entry and payment row *is* the stored state (`HoldsOrder`); whoever holds an event's row has
  an event that is not handled (`HoldsEvent`); the intent a webhook found still carries the
  charge's reference (`KnowsIntent`, the part that makes the read outside the transaction
  harmless); a charge in progress is the first use of its key (`KeyIsNew`); an intent exists only with
  its attempt (`IntentsHaveAttempts`). Then a second success finds the `Payment` row and the
  shipment (`PaymentsCountOnce`), an attempt moves to confirmed only in the step that records and credits
  (`ConfirmationsAreBacked`), and an event leaves "none" once (`EventsAreAppliedOnce`). Whoever waits for
  review has the flag (`FlagsOK`), which is what the handler asks of the attempt it is about to move:
  so only a reviewer releases it (`FlaggedAttemptsAreHeld`). The flag outlives the approval, and
  `ApprovalConfirmsNothing` says what follows: a flagged attempt is never confirmed. `PaymentsImplementContract` maps each action to a step or
  a stutter of `PaymentContract`; it needs that an attempt that does not exist carries nothing
  (`UnusedIsClean`) and that a success is applied while its event is still among those sent.
  `OnlyPendingEventsRegress` bounds the violation that `payments_regress` shows: if providers report no
  charge pending, no thread, retry or stale intent takes one out of succeeded.
* **Checkout.** `LocksOK`: a session has one holder, for whom it stays at PAYMENT without an order.
  `SessionsOK`: confirmed and having an order are the same. `DraftsOK`: the order a transaction has
  written is of the session it holds, and adds up; at "redeem" it has a discount and no coupon yet.
  `OrdersOK`: the same of the committed orders. One order per session and the finality of a confirmed
  session follow. For the refinement, what the two limits say when the coupon's row is locked still holds
  at the commit, because nobody else can be there with the same coupon, and `timesUsed` counts the
  log.
* **Returns.** `Reserved`: whoever is about to insert a refund is alone with the order, its return has no
  active refund, and its amount fits beside the active ones; a failure may end a reservation or make
  room, and only the holder of the order's lock takes room. With it `RequestsFit`, the whole of
  `RequestsAreCovered`, whatever the instances the workers hold. `CompletionsAreDebited` needs only that a
  task works on a refund that exists (`Placed`); `CompletionsAreCounted` that a completion adds its
  amount to the order's in the transaction that counts it.
  `NoOverRefundUnlessTwoProcess` bounds the violation that `returns_over` shows: as long as no two tasks
  process one refund at once (`OneTaskPerRefund`), the merchant pays no more than the order cost. Its
  invariant (`PaidInv`) is that what is processed is initiated, what was debited is completed, and the
  active refunds fit.
* **E-mails.** The invariant follows an e-mail: the web process that recorded it carries it, and so
  does at most one task, in the queue or with a worker (`OneWebProcess`, `OneTask`); until the broker's
  answer is lost there is the one or the other (`Apart`). `Budget` counts what was accepted and what
  each of the two may still make a gateway accept: an attempt that raises after its message was out gives
  the next one its allowance. `KeysPreventDuplicates` and `LogsAreTruthful`
  follow.
* **Imports.** The uncommitted inserts of imports that run are apart from each other and from the
  committed products (`SkusOK`); `Accounts` says what an import has done with the rows behind the one
  at hand, where a product is known by its job and row, through every edit; what it holds against a SKU is
  true, was true when it read it, or is one of its own faults (`RefusedOK`).

What some properties do not say. `LedgerIntegrity` is about the locked operations; what the unlocked
`credit` and `debit` lose is the subject of `WalletAdjust`. `CreditIsIdempotent` and the repeated successes
of `payments` are checked where the tenant's id is the store's (`TenantIsStore`). `BalanceIsSumOfEntries`
is checked with one worker, where it is about each operation's arithmetic; with two it fails, and
`BalanceUnlessTwoWrite` says when. `FinishLifecycle` can repeat "paid" under `SuccessCountsOnce` although no
caller passes "paid" today.

Every safety property that a passing run checks is a theorem. Only model-checked are `CallsReturn`,
`RetriesDeliver` and `ImportsEnd`, which are liveness under fairness. The two violations are
theorems under the hypothesis that excludes their cause, as told above.

## Where the code and its documents disagree

Two are runs, and entries of `findings` in `PROJECT.json`:

* an intent goes back from succeeded to pending, which `docs/PAYMENT_COMPLIANCE.md:241` rules out
  (`payments_regress`);
* a refund that one task completed is overwritten as failed by another, and its amount can be refunded
  again (`returns_over`), where `apps/orders/tests/test_production_commerce.py:325` says "Test refund
  validation prevents over-refunding." With one task per refund it does
  (`NoOverRefundUnlessTwoProcess`).

The others follow from the same models, and are stated here without a run of their own:

* A payment that is flagged and then approved is never confirmed.
  `docs/PAYMENT_SECURITY_ARCHITECTURE.md:205-207` says "Admin decides / Approve → proceed",
  `apps/payments/models.py:456` "Flagged payments require manual approval before settlement.", and
  `test_flagged_payment_requires_manual_approval`
  (`apps/payments/tests/test_enterprise_hardening.py:269`) expects the approved attempt to be pending.
  It is, but the approval leaves `is_flagged` set (`interfaces/api/views.py:249-252`), and the webhook
  handler asks that flag, not the status (`handle_webhook_event.py:214`): the next event, a success too,
  sends the attempt back to flagged and is itself ignored, with its delivery answered by 200.
  (`HoldFlagged`; the theorem `ApprovalConfirmsNothing`. `FlaggedIsHeld` and the contract are about an
  attempt while it waits for review only, and hold with or without this.)
* A row of an import is refused as a duplicate for a SKU that no product has any more, if a product gave it
  up while the import ran: the SKUs are read once (`run_import_job.py:46-48`), and the row gets
  "Duplicate SKU." (`:72-73`). (`freed` in `RefusedSkuIsTaken`.)
* `approve_withdrawal` compares a request with the available balance alone, so two requests that fit one
  by one are both approved; `docs/ENTERPRISE_ACCOUNTING_SYSTEM.md:231` says of the effective balance
  "This prevents over-withdrawal of approved requests."
  (`ApproveWithdrawal` looks at `local.available` only.)
* `credit` and `debit` take no lock and lose updates; line 815 of the same document says "All wallet
  mutations use `select_for_update()` to prevent race conditions". (`LedgerIntegrity` of
  `WalletService` fails in `WalletAdjust`; `PendingStaysExact` and `NoUpdateLostUnlessTwo` say how far.)
* The settlement use cases read the `LedgerAccount` without a lock and lose updates;
  `config/database_hardening.py:298-304` says "Check: Balance = sum(all ledger entries)".
  (`BalanceIsSumOfEntries` with two workers; `BalanceUnlessTwoWrite` says that nothing else breaks it.)
* `credit_order_payment.py:23` says "Idempotent per order."; where the tenant's id is not the store's,
  the second call runs into the unique constraint. (`CreditIsIdempotent` with `TenantIsStore = FALSE`.)
* `mark_as_paid` calls `AccountingService.calculate_net`, which does not exist, so a success is never
  applied to a pending order; `apps/payments/tests.py:96` expects it to be paid.
* An order whose coupon `validate_coupon` refuses before the redemption (it was disabled, or its
  customer has used it), or whose redemption raises anything but a refusal
  (`create_order_from_checkout.py:189-191`), keeps the discount of the session and logs no use. `Checkout`
  has both (`CreateOrder` goes to "commit"; `RedeemFails`), and `CouponContract` is about redemptions only.

## Plan

What is here was built in this order: wallet, settlement ledger, payments; then the fees, checkout with
its coupon contract, returns, e-mails and imports. What is left, by what it would add:

1. A composition of `Payments`, `WalletService` and `Returns`, so that the funds of an order are
   followed from the charge to the payout or the refund.
2. The portal's approval of a store's plan, with the races listed below.

## Not modelled

Of the parts that have a module:

* *Payments*: telemetry, provider logs, invoices and text messages, which no later step reads; the
  signature and replay checks of a webhook, which end in an exception and are among the aborts; the
  status "retry_pending", which an attempt has only within its own transaction; a provider that
  answers an initiation without a reference. Neither orchestrator is imported anywhere,
  `ConfirmPaymentUseCase` has no caller and `refund_idempotency_service.py` does not compile.
* *Checkout, cart, coupons*: single items, stock and abandoned-cart fields; other orders of the plan's month; the coupon's admin form, which saves the `times_used` it was
  opened with; `revoke_coupon_usage`, which nothing calls.
* *Returns*: the numbers and items of a return; the status "processing", which the gateway stub never
  leaves a refund in; `process_rma_refund` and `fail_refund`, which nothing calls.
* *E-mails and imports*: rendering, the gateways, the parsing of the file and the storage of pictures.
  An import whose process died stays in CREATED or VALIDATING and is not taken up again (`Crash`);
  nothing promises more, and the API answers the job it loaded before the run
  (`imports/interfaces/api/views.py:73-82`).

Parts without a module, with what was found where they do not run as written:

* *Stock and order lifecycle.* `reserve_stock` fails with a TypeError and has no caller,
  `StockManagementService` has no caller, and the transition to delivered calls the accounting
  function that does not exist. `shipping/views/api.py:60-75` saves a shipment's status before the
  order's transition, outside a transaction; the transition checks an instance that is not locked.
* *Monthly invoices and settlement records.* `process_successful_payment` has no caller, and the
  invoice draft's `select_for_update` over an outer join is refused by PostgreSQL.
* *Settlement tasks and automation.* `process_pending_settlements` raises NameError in every store,
  batch creation raises FieldError, `platform_fee_service` does not import.
* *Subscriptions.* `create_subscription` passes a number to a date column, `create_invoice` reads a
  relation that raises while there is no invoice, the charge is a stub that fails, and nothing
  schedules the billing. What runs is row by row: `subscribe_store` (`subscription_service.py:39`) can
  leave two active plans, `tenants/services/provisioning.py:169` calls `update_or_create` by a column
  that is not unique, and the portal checks a transaction's status without a lock
  (`admin_portal/views.py:633-658`). Each is two statements that race, with no protocol around them.
* *Tenants and domains* refer to statuses of a `StoreDomain` that do not exist; the rest is
  configuration and middleware. The tenant filter is modelled where the settlement ledger depends on it.
* *Plugins, purchases, text messages, one-time codes*: one unlocked check and one write each
  (uninstalling while a dependent is enabled; receiving a purchase order twice; a message sent in the
  transaction that logs it; the attempts of a code).

Presentation, configuration, telemetry, model providers, file formats and tax documents have no state
machine of their own, or are outside what a model checker can say; they are most of the repository's
lines. The `components` of `PROJECT.json` name every part with its reason.
