---------------------------- MODULE WalletService ----------------------------
(***************************************************************************)
(* apps/wallet/services/wallet_service.py: the money operations of one     *)
(* merchant's wallet, called concurrently by web requests and tasks.       *)
(*                                                                         *)
(* Each call is a database transaction under READ COMMITTED: it may first  *)
(* read the wallet row without a lock (get_or_create_wallet), then takes   *)
(* the row with SELECT ... FOR UPDATE, computes on the copy it read and    *)
(* commits.  The withdrawal operations lock the request's row before the   *)
(* wallet's.  The WalletTransaction table is kept as what the code reads   *)
(* of it: which (event, reference) pairs exist, and signed sums.           *)
(***************************************************************************)
EXTENDS Integers, FiniteSets, Functions

CONSTANTS Workers,      \* request threads and task workers
          Refs,         \* references passed by callers
          Withdrawals,  \* identities of withdrawal requests
          Amounts,      \* amounts, in hundredths, after _to_decimal
          NoWorker      \* an unlocked row

ASSUME AmountsAssumption == Amounts \subseteq Nat
ASSUME NoWorkerAssumption == NoWorker \notin Workers
ASSUME WithdrawalsAssumption == IsFiniteSet(Withdrawals)

Buckets   == {"available", "pending"}
RefEvents == {"order_paid", "order_delivered", "refund"}
Events    == RefEvents \cup {"withdrawal", "adjustment"}
Decisions == {"approve", "reject", "mark_paid"}
Statuses  == {"none", "pending", "approved", "rejected", "paid"}

VARIABLES
  row,          \* the committed Wallet row
  recorded,     \* recorded[e][r]: amount of the transactions of event e, reference r
  posted,       \* posted[e][b]: signed sum of event e's transactions in bucket b
  withdrawal,   \* the WithdrawalRequest table
  walletLock, requestLock,              \* row locks
  pc, call, local                       \* per worker: step, call, copy of the row

tables == <<row, recorded, posted, withdrawal>>
locks  == <<walletLock, requestLock>>
vars   == <<row, recorded, posted, withdrawal, walletLock, requestLock, pc, call, local>>

Row == [available: Int, pending: Int, balance: Int]
EmptyRow == [available |-> 0, pending |-> 0, balance |-> 0]
NoCall == [op |-> "none"]
RefCalls      == [op: RefEvents, ref: Refs, amount: Amounts]
RequestCalls  == [op: {"request"}, id: Withdrawals, amount: Amounts]
DecisionCalls == [op: Decisions, id: Withdrawals]

\* No call of this service has been made yet.
NothingDone ==
  /\ recorded = [e \in RefEvents |-> [r \in Refs |-> 0]]
  /\ withdrawal = [d \in Withdrawals |-> [status |-> "none", amount |-> 0]]
  /\ walletLock = NoWorker
  /\ requestLock = [d \in Withdrawals |-> NoWorker]
  /\ pc = [w \in Workers |-> "idle"]
  /\ call = [w \in Workers |-> NoCall]
  /\ local = [w \in Workers |-> EmptyRow]

Init ==
  /\ row = EmptyRow
  /\ posted = [e \in Events |-> [b \in Buckets |-> 0]]
  /\ NothingDone

-----------------------------------------------------------------------------
(* Helpers *)

\* _sync_total_balance
Synced(wallet) == [wallet EXCEPT !.balance = wallet.available + wallet.pending]

\* Fault: the idempotency check finds nothing.
NeverExists(e, r) == FALSE

\* wallet.transactions.filter(event_type=e, reference=r).exists()
Exists(e, r) == recorded[e][r] > 0

Smaller(x, y) == IF x <= y THEN x ELSE y

\* Fault: the connection goes back to the pool with its row locks still held.
ReturnHolding(w) ==
  /\ pc' = [pc EXCEPT ![w] = "idle"]
  /\ call' = [call EXCEPT ![w] = NoCall]
  /\ local' = [local EXCEPT ![w] = EmptyRow]
  /\ UNCHANGED locks

\* The end of a transaction, by commit or rollback: the locks are released.
Return(w) ==
  /\ walletLock' = IF walletLock = w THEN NoWorker ELSE walletLock
  /\ requestLock' = [d \in Withdrawals |-> IF requestLock[d] = w THEN NoWorker
                                                                 ELSE requestLock[d]]
  /\ pc' = [pc EXCEPT ![w] = "idle"]
  /\ call' = [call EXCEPT ![w] = NoCall]
  /\ local' = [local EXCEPT ![w] = EmptyRow]

\* A caller that holds the locks it needs executes the body of operation op.
Body(w, op) == pc[w] = "locked" /\ call[w].op = op

\* A ValueError: the transaction is rolled back.
Raise(w) == Return(w) /\ UNCHANGED tables

-----------------------------------------------------------------------------
(* Entering a transaction and taking its row locks *)

\* Amounts that are not positive are refused before anything is read.
Call(w, c) ==
  /\ pc[w] = "idle"
  /\ c.op \notin Decisions => c.amount > 0
  /\ call' = [call EXCEPT ![w] = c]
  /\ pc' = [pc EXCEPT ![w] = IF c.op \in Decisions THEN "lock_request" ELSE "get_wallet"]
  /\ UNCHANGED <<row, recorded, posted, withdrawal, walletLock, requestLock, local>>

\* get_or_create_wallet reads the row without a lock.  Where it finds balance out of
\* step it repairs it: WalletAdjust models that, here balance is always in step.
GetWallet(w) ==
  /\ pc[w] = "get_wallet"
  /\ row = Synced(row)
  /\ local' = [local EXCEPT ![w] = row]
  /\ pc' = [pc EXCEPT ![w] = "lock_wallet"]
  /\ UNCHANGED <<row, recorded, posted, withdrawal, walletLock, requestLock, call>>

\* Fault: get() without select_for_update(): nobody waits for the row.
LockWalletFree(w) ==
  /\ pc[w] = "lock_wallet"
  /\ walletLock' = w
  /\ local' = [local EXCEPT ![w] = row]
  /\ pc' = [pc EXCEPT ![w] = "locked"]
  /\ UNCHANGED <<row, recorded, posted, withdrawal, requestLock, call>>

\* Wallet.objects.select_for_update().get(pk=wallet.pk)
LockWallet(w) ==
  /\ pc[w] = "lock_wallet"
  /\ walletLock = NoWorker
  /\ walletLock' = w
  /\ local' = [local EXCEPT ![w] = row]
  /\ pc' = [pc EXCEPT ![w] = "locked"]
  /\ UNCHANGED <<row, recorded, posted, withdrawal, requestLock, call>>

\* The status a decision requires of the request it is about.
Required(op) == IF op = "mark_paid" THEN "approved" ELSE "pending"

\* Fault: the request is read without a lock before its status is checked.
LockRequestFree(w) ==
  LET c == call[w] IN
  /\ pc[w] = "lock_request"
  /\ withdrawal[c.id].status = Required(c.op)
  /\ pc' = [pc EXCEPT ![w] = IF c.op = "reject" THEN "locked" ELSE "lock_wallet"]
  /\ UNCHANGED <<row, recorded, posted, withdrawal, walletLock, requestLock, call, local>>

\* WithdrawalRequest.objects.select_for_update()...first(), then the status check.
\* approve and mark_paid join the wallet in the same SELECT, which locks its row too:
\* LockWallet stands for that.  The status cannot change once the request is held.
LockRequest(w) ==
  LET c == call[w] IN
  /\ pc[w] = "lock_request"
  /\ requestLock[c.id] = NoWorker
  /\ \/ /\ withdrawal[c.id].status = Required(c.op)
        /\ requestLock' = [requestLock EXCEPT ![c.id] = w]
        /\ pc' = [pc EXCEPT ![w] = IF c.op = "reject" THEN "locked" ELSE "lock_wallet"]
        /\ UNCHANGED <<row, recorded, posted, withdrawal, walletLock, call, local>>
     \/ /\ withdrawal[c.id].status # Required(c.op)
        /\ Raise(w)

-----------------------------------------------------------------------------
(* The bodies, run while the row locks are held *)

OnOrderPaid(w) ==
  LET c == call[w] IN
  /\ Body(w, "order_paid")
  /\ ~Exists("order_paid", c.ref)
  /\ recorded' = [recorded EXCEPT !["order_paid"][c.ref] = c.amount]
  /\ posted' = [posted EXCEPT !["order_paid"]["pending"] = @ + c.amount]
  /\ row' = Synced([local[w] EXCEPT !.pending = @ + c.amount])
  /\ UNCHANGED withdrawal
  /\ Return(w)

\* Fault: the whole amount asked for is released.
ReleasableUncapped(w) == call[w].amount

\* Only what is still pending can be released, however much the caller asks.
Releasable(w) == Smaller(local[w].pending, call[w].amount)

OnOrderDelivered(w) ==
  LET c == call[w]
      x == Releasable(w) IN
  /\ Body(w, "order_delivered")
  /\ ~Exists("order_delivered", c.ref)
  /\ x > 0
  /\ recorded' = [recorded EXCEPT !["order_delivered"][c.ref] = x]
  /\ posted' = [posted EXCEPT !["order_delivered"]["pending"] = @ - x,
                                 !["order_delivered"]["available"] = @ + x]
  /\ row' = Synced([local[w] EXCEPT !.pending = @ - x, !.available = @ + x])
  /\ UNCHANGED withdrawal
  /\ Return(w)

PendingDeduction(w)   == Smaller(local[w].pending, call[w].amount)
AvailableDeduction(w) == call[w].amount - PendingDeduction(w)

OnRefund(w) ==
  LET c == call[w]
      p == PendingDeduction(w)
      a == AvailableDeduction(w) IN
  /\ Body(w, "refund")
  /\ ~Exists("refund", c.ref)
  /\ a <= local[w].available
  /\ recorded' = [recorded EXCEPT !["refund"][c.ref] = c.amount]
  /\ posted' = [posted EXCEPT !["refund"]["pending"] = @ - p,
                                 !["refund"]["available"] = @ - a]
  /\ row' = Synced([local[w] EXCEPT !.pending = @ - p, !.available = @ - a])
  /\ UNCHANGED withdrawal
  /\ Return(w)

\* Nothing is set aside for the request: neither the other requests nor the
\* approved ones are subtracted from the balance it is compared with.
CreateWithdrawalRequest(w) ==
  LET c == call[w] IN
  /\ Body(w, "request")
  /\ c.amount <= local[w].available
  /\ withdrawal[c.id].status = "none"         \* reference codes are unique
  /\ withdrawal' = [withdrawal EXCEPT ![c.id] = [status |-> "pending", amount |-> c.amount]]
  /\ row' = local[w]
  /\ UNCHANGED <<recorded, posted>>
  /\ Return(w)

ApproveWithdrawal(w) ==
  LET d == call[w].id IN
  /\ Body(w, "approve")
  /\ withdrawal[d].amount <= local[w].available
  /\ withdrawal' = [withdrawal EXCEPT ![d].status = "approved"]
  /\ UNCHANGED <<row, recorded, posted>>
  /\ Return(w)

\* Fault: a status that is not among the model's choices.
RejectWithdrawalDeclined(w) ==
  /\ Body(w, "reject")
  /\ withdrawal' = [withdrawal EXCEPT ![call[w].id].status = "declined"]
  /\ UNCHANGED <<row, recorded, posted>>
  /\ Return(w)

RejectWithdrawal(w) ==
  /\ Body(w, "reject")
  /\ withdrawal' = [withdrawal EXCEPT ![call[w].id].status = "rejected"]
  /\ UNCHANGED <<row, recorded, posted>>
  /\ Return(w)

MarkWithdrawalPaid(w) ==
  LET d == call[w].id
      x == withdrawal[d].amount IN
  /\ Body(w, "mark_paid")
  /\ x <= local[w].available
  /\ posted' = [posted EXCEPT !["withdrawal"]["available"] = @ - x]
  /\ row' = Synced([local[w] EXCEPT !.available = @ - x])
  /\ withdrawal' = [withdrawal EXCEPT ![d].status = "paid"]
  /\ UNCHANGED recorded
  /\ Return(w)

\* The early returns of the event handlers: the transaction commits what
\* get_or_create_wallet wrote and nothing else.
AlreadyDone(w) ==
  /\ pc[w] = "locked"
  /\ call[w].op \in RefEvents
  /\ \/ Exists(call[w].op, call[w].ref)
     \/ call[w].op = "order_delivered" /\ Releasable(w) <= 0
  /\ row' = local[w]
  /\ UNCHANGED <<recorded, posted, withdrawal>>
  /\ Return(w)

\* The balance checks that end in ValueError, and the unique reference code.
Refuse(w) ==
  /\ \/ /\ Body(w, "refund")
        /\ ~Exists("refund", call[w].ref)
        /\ AvailableDeduction(w) > local[w].available
     \/ /\ Body(w, "request")
        /\ \/ call[w].amount > local[w].available
           \/ withdrawal[call[w].id].status # "none"
     \/ /\ \E op \in {"approve", "mark_paid"} : Body(w, op)
        /\ withdrawal[call[w].id].amount > local[w].available
  /\ Raise(w)

\* The worker dies or its connection is lost: the database rolls back.
Crash(w) == pc[w] # "idle" /\ Raise(w)

-----------------------------------------------------------------------------
Calls(w) ==
  \E c \in RefCalls \cup RequestCalls \cup DecisionCalls : Call(w, c)

Perform(w) ==
  \/ OnOrderPaid(w) \/ OnOrderDelivered(w) \/ OnRefund(w)
  \/ CreateWithdrawalRequest(w) \/ ApproveWithdrawal(w)
  \/ RejectWithdrawal(w) \/ MarkWithdrawalPaid(w)
  \/ AlreadyDone(w) \/ Refuse(w)

Lock(w) == LockRequest(w) \/ LockWallet(w)

Next == \E w \in Workers :
  Calls(w) \/ GetWallet(w) \/ Lock(w) \/ Perform(w) \/ Crash(w)

Spec == Init /\ [][Next]_vars

-----------------------------------------------------------------------------
(* Properties *)

\* The tables, locks and per-worker data have the types the code gives them.
TypeOK ==
  /\ row \in Row
  /\ recorded \in [RefEvents -> [Refs -> Nat]]
  /\ posted \in [Events -> [Buckets -> Int]]
  /\ withdrawal \in [Withdrawals -> [status: Statuses, amount: Nat]]
  /\ walletLock \in Workers \cup {NoWorker}
  /\ requestLock \in [Withdrawals -> Workers \cup {NoWorker}]
  /\ pc \in [Workers -> {"idle", "get_wallet", "lock_request", "lock_wallet", "locked"}]
  /\ call \in [Workers -> {NoCall} \cup RefCalls \cup RequestCalls \cup DecisionCalls]
  /\ local \in [Workers -> Row]

\* The balance of bucket b recomputed from the transactions.
Computed(b) == posted["order_paid"][b] + posted["order_delivered"][b] + posted["refund"][b]
             + posted["withdrawal"][b] + posted["adjustment"][b]

\* ledger_integrity_check always answers is_valid: each stored balance is the sum
\* of the transactions of its bucket, balance is their total and none is negative.
LedgerIntegrity ==
  /\ row.available = Computed("available")
  /\ row.pending = Computed("pending")
  /\ row.balance = row.available + row.pending
  /\ row.available >= 0 /\ row.pending >= 0

WithStatus(s) == {d \in Withdrawals : withdrawal[d].status = s}
Total(ds) == SumFunctionOnSet([d \in Withdrawals |-> withdrawal[d].amount], ds)

\* Every withdrawal marked paid has debited the wallet by its amount exactly once,
\* and no other withdrawal has, whatever two administrators do at the same time.
PayoutsDebitOnce ==
  -posted["withdrawal"]["available"] = Total(WithStatus("paid"))

\* An (event, reference) pair, once recorded, is never recorded again: a repeated
\* order_paid, order_delivered or refund call changes neither sums nor balances.
RecordedOnce ==
  [][\A e \in RefEvents :
       /\ \A r \in Refs : recorded[e][r] > 0 => recorded'[e][r] = recorded[e][r]
       /\ recorded[e] = recorded'[e] => posted'[e] = posted[e]]_vars

\* A request is decided along pending -> approved -> paid or pending -> rejected,
\* and its amount is fixed when it is made, however the decisions interleave.
RequestLifecycle ==
  [][\A d \in Withdrawals : withdrawal'[d] # withdrawal[d] =>
       /\ <<withdrawal[d].status, withdrawal'[d].status>> \in
            {<<"none", "pending">>, <<"pending", "approved">>,
             <<"pending", "rejected">>, <<"approved", "paid">>}
       /\ withdrawal[d].status # "none" => withdrawal'[d].amount = withdrawal[d].amount]_vars

\* Every call ends: the two kinds of row lock never make workers wait in a cycle.
CallsReturn == \A w \in Workers : pc[w] # "idle" ~> pc[w] = "idle"

\* The promise of WalletContract, kept by every commit.
Contract == INSTANCE WalletContract WITH
  pending   <- row.pending,
  available <- row.available,
  credited  <- {r \in Refs : recorded["order_paid"][r] > 0},
  released  <- {r \in Refs : recorded["order_delivered"][r] > 0},
  refunded  <- {r \in Refs : recorded["refund"][r] > 0},
  approved  <- WithStatus("approved"),
  paidOut   <- WithStatus("paid")

KeepsContract == Contract!Spec
=============================================================================
