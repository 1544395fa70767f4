------------------------------ MODULE Payments ------------------------------
(***************************************************************************)
(* apps/payments: how one order is paid.  Customers initiate payments      *)
(* (InitiatePaymentUseCase), the provider reports outcomes by webhook, any *)
(* number of times and in any order (HandleWebhookEventUseCase), success   *)
(* and failure are applied to the order (payment_outcomes.py), and         *)
(* administrators review flagged attempts.  The order is also written      *)
(* elsewhere: marked paid by OrderLifecycleService.transition, which trusts *)
(* the copy of the order its caller read before, and approved by BNPL.     *)
(*                                                                         *)
(* Each use case is one transaction.  A webhook reads the intent before it *)
(* begins, then locks its event's row, the order and the latest attempt.   *)
(* What a transaction reads under the order's lock is taken as one         *)
(* snapshot when it obtains the lock.                                      *)
(***************************************************************************)
EXTENDS Integers, FiniteSets

CONSTANTS Workers,        \* request threads
          Keys,           \* idempotency keys of payment initiations
          Gateways,       \* payment providers; "dummy" is the one for testing
          Refs,           \* references a provider gives to its charges
          EventIds,       \* identities of provider events
          TenantIsStore,  \* the tenant's id equals the store's
          Reported,       \* outcomes the provider reports
          NoWorker, NoKey, NoRef, NoEvent

Outcomes        == {"succeeded", "failed", "pending", "requires_action"}
IntentStatuses  == {"none"} \cup Outcomes
AttemptStatuses == {"none", "pending", "confirmed", "failed", "flagged"}
EventStatuses   == {"none", "processed", "ignored"}
Final           == {"processed", "ignored"}

ASSUME KeysAssumption == IsFiniteSet(Keys) /\ NoKey \notin Keys
ASSUME NoneAssumption == NoWorker \notin Workers /\ NoRef \notin Refs
ASSUME NoEventAssumption == NoEvent \notin [ref: Refs \cup {NoRef}, outcome: Outcomes]
ASSUME TenantAssumption == TenantIsStore \in BOOLEAN
ASSUME ReportedAssumption == Reported \subseteq Outcomes

VARIABLES
  order,      \* the Order: status, payment_status, number of shipments
  intent,     \* PaymentIntent per key: status and provider_reference
  attempt,    \* PaymentAttempt per key: status, is_flagged, rank of created_at
  event,      \* status of the WebhookEvent row per event id
  payments,   \* number of Payment rows per reference
  credited,   \* CreditOrderPayment has recorded the order's LedgerEntry
  charged,    \* provider: references of the charges it opened
  sent,       \* provider: the reference and outcome an event reports
  acked,      \* provider: events answered with 200
  orderLock, eventLock,                  \* row locks
  pc, call, local                        \* per worker: step, call, what it read

tables   == <<order, intent, attempt, event, payments, credited>>
provider == <<charged, sent, acked>>
locks    == <<orderLock, eventLock>>
vars == <<order, intent, attempt, event, payments, credited,
          charged, sent, acked, orderLock, eventLock, pc, call, local>>

Order   == [status: {"pending", "paid", "processing", "shipped"},
            payment: {"pending", "paid", "confirmed", "failed"}, shipments: Nat]
Message == [ref: Refs, outcome: Outcomes]
Calls   == [op: {"webhook"}, event: EventIds]
             \cup [op: {"initiate"}, key: Keys, gateway: Gateways, ref: Refs \cup {NoRef}]
             \cup [op: {"approve"}, key: Keys]
             \cup [op: {"lifecycle"}]
NoCall  == [op |-> "none"]

NewOrder == [status |-> "pending", payment |-> "pending", shipments |-> 0]
Nothing  == [key |-> NoKey, status |-> "none", order |-> NewOrder,
             recorded |-> FALSE, credited |-> FALSE]
Copy     == [key: Keys \cup {NoKey}, status: IntentStatuses, order: Order,
             recorded: BOOLEAN, credited: BOOLEAN]

Init ==
  /\ order = NewOrder
  /\ intent = [k \in Keys |-> [status |-> "none", ref |-> NoRef]]
  /\ attempt = [k \in Keys |-> [status |-> "none", gateway |-> "", flagged |-> FALSE, rank |-> 0]]
  /\ event = [e \in EventIds |-> "none"]
  /\ payments = [r \in Refs |-> 0]
  /\ credited = FALSE
  /\ charged = {} /\ acked = {}
  /\ sent = [e \in EventIds |-> NoEvent]
  /\ orderLock = NoWorker
  /\ eventLock = [e \in EventIds |-> NoWorker]
  /\ pc = [w \in Workers |-> "idle"]
  /\ call = [w \in Workers |-> NoCall]
  /\ local = [w \in Workers |-> Nothing]

-----------------------------------------------------------------------------
(* Helpers *)

\* state_machine.py, for the statuses a commit can leave.
Allowed == [none      |-> {},
            pending   |-> {"confirmed", "failed", "flagged"},
            flagged   |-> {"pending", "failed"},
            confirmed |-> {},
            failed    |-> {}]

\* transition_payment_attempt_status: a transition that is not allowed is logged.
Moved(from, to) == IF to \in Allowed[from] THEN to ELSE from

Attempts(g) == {k \in Keys : attempt[k].status # "none" /\ attempt[k].gateway = g}

\* The attempt a webhook is about: not the intent's, but its provider's latest.
Latest(key) == CHOOSE k \in Attempts(attempt[key].gateway) :
                 \A l \in Attempts(attempt[key].gateway) : attempt[l].rank <= attempt[k].rank

NextRank == 1 + Cardinality({k \in Keys : attempt[k].status # "none"})

\* was_paid, and the early return of apply_payment_failure
WasPaid(o) == o.payment = "paid" \/ o.status = "paid"

\* A shipment is created where the order, as it was read, has none; it is shipped.
Shipped(o) ==
  IF o.shipments = 0 /\ o.status \in {"paid", "processing"}
  THEN [order EXCEPT !.status = "shipped", !.shipments = @ + 1] ELSE order

\* The end of a transaction: the row locks are released.
Return(w) ==
  /\ orderLock' = IF orderLock = w THEN NoWorker ELSE orderLock
  /\ eventLock' = [e \in EventIds |-> IF eventLock[e] = w THEN NoWorker ELSE eventLock[e]]
  /\ pc' = [pc EXCEPT ![w] = "idle"]
  /\ call' = [call EXCEPT ![w] = NoCall]
  /\ local' = [local EXCEPT ![w] = Nothing]

\* Nothing is written: an early answer, or an exception and its rollback.
NoEffect(w) == Return(w) /\ UNCHANGED <<tables, provider>>

\* save() of an intent whose status was read before the transaction
Saved(k, seen, s) == IF seen # s THEN [intent EXCEPT ![k].status = s] ELSE intent

Acknowledge(w) == /\ acked' = acked \cup {call[w].event}
                  /\ UNCHANGED <<charged, sent>>

Step(w, at) == /\ pc' = [pc EXCEPT ![w] = at]
               /\ UNCHANGED <<tables, provider, eventLock>>

Begin(w, c, at) == /\ pc[w] = "idle"
                   /\ call' = [call EXCEPT ![w] = c]
                   /\ Step(w, at)
                   /\ UNCHANGED orderLock

-----------------------------------------------------------------------------
(* The provider, and the order's other writers *)

\* The provider reports an outcome of a charge under a new event id.
Send(e, r, o) ==
  /\ sent[e] = NoEvent /\ r \in charged
  /\ sent' = [sent EXCEPT ![e] = [ref |-> r, outcome |-> o]]
  /\ UNCHANGED <<tables, charged, acked, locks, pc, call, local>>

StartLifecycle(w) ==
  /\ order.status = "pending"
  /\ Begin(w, [op |-> "lifecycle"], "lifecycle") /\ UNCHANGED local

\* Only the status is saved: payment_status keeps its value.
FinishLifecycle(w) ==
  /\ pc[w] = "lifecycle" /\ orderLock = NoWorker
  /\ order' = [order EXCEPT !.status = "paid"]
  /\ Return(w)
  /\ UNCHANGED <<intent, attempt, event, payments, credited, provider>>

\* BnplPaymentOrchestrator.process_webhook, approved
ApproveBnpl ==
  /\ orderLock = NoWorker
  /\ order' = [order EXCEPT !.status = "processing", !.payment = "confirmed"]
  /\ UNCHANGED <<intent, attempt, event, payments, credited, provider, locks, pc, call, local>>

-----------------------------------------------------------------------------
(* InitiatePaymentUseCase *)

\* The order is locked and read first: nothing is known before.
Initiate(w, k, g) ==
  /\ pc[w] = "idle" /\ orderLock = NoWorker
  /\ call' = [call EXCEPT ![w] = [op |-> "initiate", key |-> k, gateway |-> g, ref |-> NoRef]]
  /\ orderLock' = w
  /\ local' = [local EXCEPT ![w].order = order, ![w].credited = credited]
  /\ Step(w, "locked")

Initiating(w, at) == pc[w] = at /\ call[w].op = "initiate"

\* A paid order, or a key seen before: the answer is the stored one.  With the
\* key of a failed attempt the insertion violates the unique constraint.
Repeat(w) ==
  /\ Initiating(w, "locked")
  /\ local[w].order.payment = "paid" \/ attempt[call[w].key].status # "none"
  /\ NoEffect(w)

Proceeds(w) == /\ Initiating(w, "locked")
               /\ local[w].order.payment # "paid" /\ attempt[call[w].key].status = "none"

\* The risk score is above 70, or six payments came from one address in five minutes.
FlagAttempt(w) ==
  /\ Proceeds(w)
  /\ attempt' = [attempt EXCEPT ![call[w].key] =
                   [status |-> "flagged", gateway |-> call[w].gateway, flagged |-> TRUE, rank |-> NextRank]]
  /\ Return(w)
  /\ UNCHANGED <<order, intent, event, payments, credited, provider>>

\* The gateway is called inside the transaction, again when a call fails: a charge
\* the provider opened stays open whatever becomes of the transaction.
Charge(w) ==
  /\ Proceeds(w) \/ Initiating(w, "charged")
  /\ \E r \in Refs \ charged :
       /\ charged' = charged \cup {r}
       /\ call' = [call EXCEPT ![w].ref = r]
  /\ pc' = [pc EXCEPT ![w] = "charged"]
  /\ UNCHANGED <<tables, sent, acked, locks, local>>

Initiated(w, s) ==
  LET k == call[w].key IN
  /\ attempt' = [attempt EXCEPT ![k] =
                   [status |-> "pending", gateway |-> call[w].gateway, flagged |-> FALSE, rank |-> NextRank]]
  /\ intent' = [intent EXCEPT ![k] = [status |-> s, ref |-> call[w].ref]]

CommitInitiation(w) ==
  /\ Initiating(w, "charged") /\ call[w].gateway # "dummy"
  /\ Initiated(w, "pending")
  /\ Return(w)
  /\ UNCHANGED <<order, event, payments, credited, provider>>

-----------------------------------------------------------------------------
(* apply_payment_success: payment_outcomes.py *)

\* An order that is not paid never gets past mark_as_paid: ValueError unless it
\* is pending, otherwise AttributeError (AccountingService has no calculate_net).
\* A second credit is found again only where the tenant's id is the store's:
\* elsewhere the ledger entry's unique constraint raises.
Applies(w) == WasPaid(local[w].order) /\ (TenantIsStore \/ ~local[w].credited)

\* The payment is recorded once per reference, the order credited and shipped.
Succeed(w, ref, recorded) ==
  /\ payments' = IF recorded THEN payments ELSE [payments EXCEPT ![ref] = @ + 1]
  /\ credited' = TRUE
  /\ order' = Shipped(local[w].order)

\* The dummy gateway's payments succeed at once; their attempt stays pending.
CommitDummyPayment(w) ==
  /\ Initiating(w, "charged") /\ call[w].gateway = "dummy"
  /\ Applies(w)
  /\ Initiated(w, "succeeded")
  /\ Succeed(w, call[w].ref, payments[call[w].ref] > 0)
  /\ Return(w)
  /\ UNCHANGED <<event, provider>>

-----------------------------------------------------------------------------
(* HandleWebhookEventUseCase *)

\* The intent is read before the transaction begins.
Deliver(w, e) ==
  LET known == {k \in Keys : intent[k].ref = sent[e].ref} IN
  /\ sent[e] # NoEvent
  /\ IF known = {} THEN UNCHANGED local
     ELSE \E k \in known :
       local' = [local EXCEPT ![w].key = k, ![w].status = intent[k].status]
  /\ Begin(w, [op |-> "webhook", event |-> e], "lock_event")

\* The event is stored as failed, for no store, and answered with 200 all the same.
IntentNotFound(w) ==
  /\ pc[w] = "lock_event" /\ local[w].key = NoKey
  /\ Acknowledge(w) /\ Return(w) /\ UNCHANGED tables

AlreadyHandled(w) ==
  /\ pc[w] = "lock_event" /\ local[w].key # NoKey
  /\ eventLock[call[w].event] = NoWorker /\ event[call[w].event] \in Final
  /\ Acknowledge(w) /\ Return(w) /\ UNCHANGED tables

\* Fault: the event's row is neither locked nor looked at.
LockEventFree(w) ==
  /\ pc[w] = "lock_event" /\ local[w].key # NoKey
  /\ eventLock' = [eventLock EXCEPT ![call[w].event] = w]
  /\ pc' = [pc EXCEPT ![w] = "lock_order"]
  /\ UNCHANGED <<tables, provider, orderLock, call, local>>

LockEvent(w) ==
  /\ pc[w] = "lock_event" /\ local[w].key # NoKey
  /\ eventLock[call[w].event] = NoWorker /\ event[call[w].event] \notin Final
  /\ eventLock' = [eventLock EXCEPT ![call[w].event] = w]
  /\ pc' = [pc EXCEPT ![w] = "lock_order"]
  /\ UNCHANGED <<tables, provider, orderLock, call, local>>

\* Fault: the order is read without a lock.
LockOrderFree(w) ==
  /\ pc[w] = "lock_order"
  /\ orderLock' = w
  /\ local' = [local EXCEPT ![w].order = order, ![w].credited = credited,
       ![w].recorded = payments[sent[call[w].event].ref] > 0]
  /\ Step(w, "locked") /\ UNCHANGED call

\* select_for_update on the order, and what is read under it
LockOrder(w) ==
  /\ pc[w] = "lock_order" /\ orderLock = NoWorker
  /\ orderLock' = w
  /\ local' = [local EXCEPT ![w].order = order, ![w].credited = credited,
       ![w].recorded = payments[sent[call[w].event].ref] > 0]
  /\ Step(w, "locked") /\ UNCHANGED call

Handling(w) == pc[w] = "locked" /\ call[w].op = "webhook"

\* Fault: the attempt the charge was made for is asked, not the one that is moved.
HeldByOwnAttempt(w) == attempt[local[w].key].flagged

\* Intents are only made for attempts that are not flagged: the attempt decides.
Held(w) == attempt[Latest(local[w].key)].flagged

\* The event's row, the latest attempt and the intent as the handler leaves them
Conclude(w, eventStatus, attemptStatus) ==
  LET k == Latest(local[w].key) IN
  /\ event' = [event EXCEPT ![call[w].event] = eventStatus]
  /\ attempt' = [attempt EXCEPT ![k].status = Moved(@, attemptStatus)]
  /\ Acknowledge(w) /\ Return(w)

HoldFlagged(w) ==
  /\ Handling(w) /\ Held(w)
  /\ Conclude(w, "ignored", "flagged")
  /\ UNCHANGED <<order, intent, payments, credited>>

Handles(w, outcomes) ==
  Handling(w) /\ ~Held(w) /\ sent[call[w].event].outcome \in outcomes

ApplySuccess(w) ==
  /\ Handles(w, {"succeeded"}) /\ Applies(w)
  /\ intent' = Saved(local[w].key, local[w].status, "succeeded")
  /\ Succeed(w, sent[call[w].event].ref, local[w].recorded)
  /\ Conclude(w, "processed", "confirmed")

\* Fault: the exception of mark_as_paid is swallowed.
RefuseSuccessQuietly(w) ==
  /\ Handles(w, {"succeeded"}) /\ ~Applies(w)
  /\ Conclude(w, "processed", "confirmed")
  /\ UNCHANGED <<order, intent, payments, credited>>

RefuseSuccess(w) ==
  /\ Handles(w, {"succeeded"}) /\ ~Applies(w)
  /\ NoEffect(w)

\* apply_payment_failure does nothing to a paid order.
ApplyFailure(w) ==
  /\ Handles(w, {"failed"})
  /\ IF WasPaid(local[w].order) THEN UNCHANGED <<intent, order>>
     ELSE /\ intent' = Saved(local[w].key, local[w].status, "failed")
          /\ order' = [order EXCEPT !.payment = "failed"]
  /\ Conclude(w, "processed", "failed")
  /\ UNCHANGED <<payments, credited>>

ApplyPending(w) ==
  LET outcome == sent[call[w].event].outcome IN
  /\ Handles(w, {"pending", "requires_action"})
  /\ intent' = Saved(local[w].key, local[w].status, outcome)
  /\ Conclude(w, "processed", "pending")
  /\ UNCHANGED <<order, payments, credited>>

-----------------------------------------------------------------------------
(* Risk review: interfaces/api/views.py *)

\* A webhook holds the row of the attempt it is about.
AttemptLocked(k) == \E w \in Workers : Handling(w) /\ Latest(local[w].key) = k

\* The attempt is read flagged ...
StartApprove(w, k) ==
  /\ attempt[k].status = "flagged"
  /\ Begin(w, [op |-> "approve", key |-> k], "approve") /\ UNCHANGED local

\* Fault: the decision is saved as the attempt's status.
FinishApproveDecision(w) ==
  LET k == call[w].key IN
  /\ pc[w] = "approve" /\ ~AttemptLocked(k)
  /\ attempt' = [attempt EXCEPT ![k].status = "approved"]
  /\ Return(w)
  /\ UNCHANGED <<order, intent, event, payments, credited, provider>>

\* ... and its status saved, is_flagged left as it was.
FinishApprove(w) ==
  LET k == call[w].key IN
  /\ pc[w] = "approve" /\ ~AttemptLocked(k)
  /\ attempt' = [attempt EXCEPT ![k].status = "pending"]
  /\ Return(w)
  /\ UNCHANGED <<order, intent, event, payments, credited, provider>>

\* Any attempt can be rejected, whatever its status.
Reject(k) ==
  /\ attempt[k].status # "none" /\ ~AttemptLocked(k)
  /\ attempt' = [attempt EXCEPT ![k].status = "failed"]
  /\ UNCHANGED <<order, intent, event, payments, credited, provider, locks, pc, call, local>>

-----------------------------------------------------------------------------

\* A crash, a gateway's error, a payment blocked or a signature refused
Abort(w) == pc[w] # "idle" /\ NoEffect(w)

Handle(w) == \/ IntentNotFound(w) \/ AlreadyHandled(w) \/ LockEvent(w) \/ LockOrder(w)
             \/ HoldFlagged(w) \/ ApplySuccess(w) \/ RefuseSuccess(w)
             \/ ApplyFailure(w) \/ ApplyPending(w)

Next ==
  \/ ApproveBnpl
  \/ \E k \in Keys : Reject(k)
  \/ \E e \in EventIds, r \in Refs, o \in Reported : Send(e, r, o)
  \/ \E w \in Workers :
       \/ Handle(w) \/ Abort(w)
       \/ StartLifecycle(w) \/ FinishLifecycle(w)
       \/ Repeat(w) \/ FlagAttempt(w) \/ Charge(w)
       \/ CommitInitiation(w) \/ CommitDummyPayment(w) \/ FinishApprove(w)
       \/ \E k \in Keys, g \in Gateways : Initiate(w, k, g)
       \/ \E k \in Keys : StartApprove(w, k)
       \/ \E e \in EventIds : Deliver(w, e)

Spec == Init /\ [][Next]_vars

-----------------------------------------------------------------------------
(* Properties *)

Pcs == {"idle", "lock_event", "lock_order", "locked", "charged", "approve", "lifecycle"}

\* What the tables, the provider and the threads hold.
TypeOK ==
  /\ order \in Order
  /\ intent \in [Keys -> [status: IntentStatuses, ref: Refs \cup {NoRef}]]
  /\ attempt \in [Keys -> [status: AttemptStatuses, gateway: Gateways \cup {""}, flagged: BOOLEAN, rank: Nat]]
  /\ event \in [EventIds -> EventStatuses]
  /\ payments \in [Refs -> Nat]
  /\ credited \in BOOLEAN
  /\ charged \in SUBSET Refs /\ acked \in SUBSET EventIds
  /\ sent \in [EventIds -> Message \cup {NoEvent}]
  /\ orderLock \in Workers \cup {NoWorker}
  /\ eventLock \in [EventIds -> Workers \cup {NoWorker}]
  /\ pc \in [Workers -> Pcs]
  /\ call \in [Workers -> Calls \cup {NoCall}]
  /\ local \in [Workers -> Copy]

\* However often and under however many event ids the provider reports a charge,
\* and however often the order is marked paid meanwhile, the charge is recorded as
\* a payment at most once and the order is shipped at most once
\* (apply_payment_success checks for both before it creates them).
SuccessCountsOnce == order.shipments <= 1 /\ \A r \in Refs : payments[r] <= 1

\* An attempt is shown confirmed only when a payment was recorded and the order
\* credited: the attempt is moved after apply_payment_success, which may raise.
ConfirmedIsBacked ==
  (\E k \in Keys : attempt[k].status = "confirmed")
     => credited /\ \E r \in Refs : payments[r] = 1

\* Attempts a reviewer has to decide about.
Waiting == {k \in Keys : attempt[k].status = "flagged"}

\* While an attempt waits for review, no event of its provider takes it further or is
\* applied over it, whichever charge the event is about and whoever reviews, retries or
\* initiates meanwhile: only a reviewer's decision releases it, and an event that is
\* processed finds the latest attempt released (handle_webhook_event.py, models.py:456).
ReviewReleases ==
  /\ Waiting \subseteq Waiting' \/ UNCHANGED <<order, intent, event, payments, credited>>
  /\ \A e \in EventIds : event[e] # "processed" /\ event'[e] = "processed" =>
       \E k \in Keys : intent[k].ref = sent[e].ref /\ Latest(k) \notin Waiting
FlaggedIsHeld == [][ReviewReleases]_vars

\* An intent changes only as an event about it is handled, to what the event
\* reports, and an event is handled once: its row is final from then on.
AppliesEvents ==
  /\ \A e \in EventIds : event[e] \in Final => event'[e] = event[e]
  /\ \A k \in Keys :
       intent[k].status \notin {"none", intent'[k].status} =>
         \E e \in EventIds :
           /\ event[e] = "none" /\ event'[e] = "processed"
           /\ sent[e] = [ref |-> intent[k].ref, outcome |-> intent'[k].status]
AppliedOnce == [][AppliesEvents]_vars

\* docs/PAYMENT_COMPLIANCE.md: an intent that succeeded cannot become pending again.
IntentNeverRegresses ==
  [][\A k \in Keys : intent[k].status = "succeeded" => intent'[k].status # "pending"]_vars

\* Money is recorded as PaymentContract promises, at every interleaving.
Contract == INSTANCE PaymentContract WITH
  reported  <- {sent[e].ref : e \in {d \in EventIds : sent[d] # NoEvent /\ sent[d].outcome = "succeeded"}},
  recorded  <- {r \in Refs : payments[r] > 0},
  shipped   <- order.shipments > 0,
  confirmed <- {k \in Keys : attempt[k].status = "confirmed"},
  held      <- Waiting,
  tests     <- {k \in Keys : attempt[k].gateway = "dummy"}

KeepsContract == Contract!Spec
==============================================================================
