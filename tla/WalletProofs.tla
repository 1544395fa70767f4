---------------------------- MODULE WalletProofs ----------------------------
(***************************************************************************)
(* Theorems about WalletService, for every set of workers, references,     *)
(* requests and amounts: its types, ledger integrity, the two action       *)
(* properties, payouts and the implementation of WalletContract; and about *)
(* WalletAdjust: what its unlocked adjustments and repairs leave true.     *)
(***************************************************************************)
EXTENDS WalletAdjust, SumTheorems, TLAPS

-----------------------------------------------------------------------------
(* The inductive invariant *)

\* A call in progress is what its step says it is, for a positive amount.
CallFitsStep(w) ==
  /\ pc[w] = "idle" <=> call[w] = NoCall
  /\ pc[w] = "get_wallet" => call[w].op \in RefEvents \cup {"request"}
  /\ pc[w] = "lock_request" => call[w].op \in Decisions
  /\ pc[w] = "lock_wallet" => call[w].op # "reject"
  /\ call[w].op \in RefEvents \cup {"request"} => call[w].amount > 0

\* Whoever is past SELECT ... FOR UPDATE owns the row, and its copy is current.
CopyIsCurrent(w) ==
  pc[w] = "locked" /\ call[w].op # "reject" => walletLock = w /\ local[w] = row

\* A decision that passed its status check keeps the request as it found it.
RequestIsHeld(w) ==
  pc[w] \in {"lock_wallet", "locked"} /\ call[w].op \in Decisions =>
    /\ requestLock[call[w].id] = w
    /\ withdrawal[call[w].id].status = Required(call[w].op)

RequestsArePositive ==
  \A d \in Withdrawals : withdrawal[d].status # "none" => withdrawal[d].amount > 0

IInv ==
  /\ TypeOK
  /\ LedgerIntegrity
  /\ RequestsArePositive
  /\ \A w \in Workers : CallFitsStep(w) /\ CopyIsCurrent(w) /\ RequestIsHeld(w)

-----------------------------------------------------------------------------
(* Facts about calls and about the end of a transaction *)

\* What both specifications say of the types of the requests, the transactions and
\* the calls.
BooksTyped ==
  /\ posted \in [Events -> [Buckets -> Int]]
  /\ withdrawal \in [Withdrawals -> [status: Statuses, amount: Nat]]
  /\ call \in [Workers -> {NoCall} \cup RefCalls \cup RequestCalls \cup DecisionCalls]

LEMMA CallTyped ==
  ASSUME BooksTyped, NEW w \in Workers
  PROVE  /\ call[w].op \in RefEvents => call[w].ref \in Refs /\ call[w].amount \in Nat
         /\ call[w].op = "request" => call[w].id \in Withdrawals /\ call[w].amount \in Nat
         /\ call[w].op \in Decisions => call[w].id \in Withdrawals
<1>1. call[w] \in {NoCall} \cup RefCalls \cup RequestCalls \cup DecisionCalls
  BY DEF BooksTyped
<1>2. CASE call[w] = NoCall
  BY <1>2 DEF NoCall, RefEvents, Decisions
<1>3. CASE call[w] \in RefCalls
  BY <1>3, AmountsAssumption DEF RefCalls, RefEvents, Decisions
<1>4. CASE call[w] \in RequestCalls
  BY <1>4, AmountsAssumption DEF RequestCalls, RefEvents, Decisions
<1>5. CASE call[w] \in DecisionCalls
  BY <1>5 DEF DecisionCalls, RefEvents, Decisions
<1> QED BY <1>1, <1>2, <1>3, <1>4, <1>5

LEMMA CallFields ==
  ASSUME TypeOK, NEW w \in Workers
  PROVE  /\ call[w].op \in RefEvents => call[w].ref \in Refs /\ call[w].amount \in Nat
         /\ call[w].op = "request" => call[w].id \in Withdrawals /\ call[w].amount \in Nat
         /\ call[w].op \in Decisions => call[w].id \in Withdrawals
BY CallTyped DEF TypeOK, BooksTyped

LEMMA ReturnTypes ==
  ASSUME TypeOK, NEW w \in Workers, Return(w)
  PROVE  /\ walletLock' \in Workers \cup {NoWorker}
         /\ requestLock' \in [Withdrawals -> Workers \cup {NoWorker}]
         /\ pc' \in [Workers -> {"idle", "get_wallet", "lock_request", "lock_wallet", "locked"}]
         /\ call' \in [Workers -> {NoCall} \cup RefCalls \cup RequestCalls \cup DecisionCalls]
         /\ local' \in [Workers -> Row]
<1>1. EmptyRow \in Row
  BY DEF EmptyRow, Row
<1> QED BY <1>1 DEF TypeOK, Return

\* A transaction that writes only rows it has locked, or a request that was not
\* there, disturbs no other worker when it ends.
LEMMA ReturnKeeps ==
  ASSUME IInv, NEW w \in Workers, Return(w),
         row' = row \/ walletLock = w,
         \A d \in Withdrawals :
           \/ withdrawal'[d] = withdrawal[d]
           \/ requestLock[d] = w
           \/ withdrawal[d].status = "none"
  PROVE  \A v \in Workers : CallFitsStep(v)' /\ CopyIsCurrent(v)' /\ RequestIsHeld(v)'
<1> SUFFICES ASSUME NEW v \in Workers
             PROVE  CallFitsStep(v)' /\ CopyIsCurrent(v)' /\ RequestIsHeld(v)'
  OBVIOUS
<1>1. /\ TypeOK
      /\ CallFitsStep(v) /\ CopyIsCurrent(v) /\ RequestIsHeld(v)
  BY DEF IInv
<1>2. CASE v = w
  <2>1. pc'[v] = "idle" /\ call'[v] = NoCall
    BY <1>1, <1>2 DEF Return, TypeOK
  <2> QED BY <2>1 DEF CallFitsStep, CopyIsCurrent, RequestIsHeld, NoCall, RefEvents
<1>3. CASE v # w
  <2>1. /\ pc'[v] = pc[v] /\ call'[v] = call[v] /\ local'[v] = local[v]
        /\ walletLock = v => walletLock' = v
        /\ \A d \in Withdrawals : requestLock[d] = v => requestLock'[d] = v
    BY <1>1, <1>3 DEF Return, TypeOK
  <2>2. CallFitsStep(v)'
    BY <1>1, <2>1 DEF CallFitsStep
  <2>3. CopyIsCurrent(v)'
    BY <1>1, <1>3, <2>1 DEF CopyIsCurrent
  <2>4. RequestIsHeld(v)'
    <3> SUFFICES ASSUME pc[v] \in {"lock_wallet", "locked"}, call[v].op \in Decisions
                 PROVE  /\ requestLock'[call[v].id] = v
                        /\ withdrawal'[call[v].id].status = Required(call[v].op)
      BY <2>1 DEF RequestIsHeld
    <3>1. /\ call[v].id \in Withdrawals
          /\ requestLock[call[v].id] = v
          /\ withdrawal[call[v].id].status = Required(call[v].op)
      BY <1>1, CallFields DEF RequestIsHeld
    <3>2. withdrawal'[call[v].id] = withdrawal[call[v].id]
      BY <1>3, <3>1 DEF Required
    <3> QED BY <2>1, <3>1, <3>2
  <2> QED BY <2>2, <2>3, <2>4
<1> QED BY <1>2, <1>3

\* The early returns, refusals and crashes: no table changes.
LEMMA NothingWritten ==
  ASSUME IInv, NEW w \in Workers, Return(w), UNCHANGED tables
  PROVE  IInv'
<1>1. TypeOK'
  BY ReturnTypes DEF IInv, TypeOK, tables
<1>2. LedgerIntegrity' /\ RequestsArePositive'
  BY DEF IInv, LedgerIntegrity, Computed, RequestsArePositive, tables
<1>3. \A v \in Workers : CallFitsStep(v)' /\ CopyIsCurrent(v)' /\ RequestIsHeld(v)'
  BY ReturnKeeps DEF tables
<1> QED BY <1>1, <1>2, <1>3 DEF IInv

-----------------------------------------------------------------------------
(* Entering a transaction and locking *)

\* A step of worker w that writes no table and takes no row another worker holds.
LEMMA StepOfOneWorker ==
  ASSUME IInv, TypeOK', NEW w \in Workers, UNCHANGED tables,
         \A v \in Workers \ {w} :
           /\ pc'[v] = pc[v] /\ call'[v] = call[v] /\ local'[v] = local[v]
           /\ walletLock = v => walletLock' = v
           /\ \A d \in Withdrawals : requestLock[d] = v => requestLock'[d] = v,
         CallFitsStep(w)', CopyIsCurrent(w)', RequestIsHeld(w)'
  PROVE  IInv'
<1>1. LedgerIntegrity' /\ RequestsArePositive'
  BY DEF IInv, LedgerIntegrity, Computed, RequestsArePositive, tables
<1>2. ASSUME NEW v \in Workers, v # w
      PROVE  CallFitsStep(v)' /\ CopyIsCurrent(v)' /\ RequestIsHeld(v)'
  <2>1. TypeOK /\ CallFitsStep(v) /\ CopyIsCurrent(v) /\ RequestIsHeld(v)
    BY DEF IInv
  <2>2. CallFitsStep(v)'
    BY <1>2, <2>1 DEF CallFitsStep
  <2>3. CopyIsCurrent(v)'
    BY <1>2, <2>1 DEF CopyIsCurrent, tables
  <2>4. RequestIsHeld(v)'
    BY <1>2, <2>1, CallFields DEF RequestIsHeld, tables
  <2> QED BY <2>2, <2>3, <2>4
<1> QED BY <1>1, <1>2 DEF IInv

LEMMA CallStep ==
  ASSUME IInv, NEW w \in Workers, Calls(w)
  PROVE  IInv'
<1>1. PICK c \in RefCalls \cup RequestCalls \cup DecisionCalls : Call(w, c)
  BY DEF Calls
<1>2. TypeOK /\ CallFitsStep(w) /\ CopyIsCurrent(w) /\ RequestIsHeld(w)
  BY DEF IInv
<1>3. TypeOK'
  BY <1>1, <1>2 DEF TypeOK, Call
<1>4. /\ c # NoCall
      /\ c.op \in RefEvents \cup {"request"} \cup Decisions
      /\ c.op \in RefEvents \cup {"request"} <=> c.op \notin Decisions
  BY DEF RefCalls, RequestCalls, DecisionCalls, RefEvents, Decisions, NoCall
<1>5. /\ call'[w] = c
      /\ pc'[w] = IF c.op \in Decisions THEN "lock_request" ELSE "get_wallet"
      /\ c.op \notin Decisions => c.amount > 0
  BY <1>1, <1>2 DEF Call, TypeOK
<1>6. CallFitsStep(w)' /\ CopyIsCurrent(w)' /\ RequestIsHeld(w)'
  BY <1>4, <1>5 DEF CallFitsStep, CopyIsCurrent, RequestIsHeld
<1> QED BY <1>1, <1>2, <1>3, <1>6, StepOfOneWorker DEF Call, TypeOK, tables

LEMMA GetWalletStep ==
  ASSUME IInv, NEW w \in Workers, GetWallet(w)
  PROVE  IInv'
<1>1. TypeOK /\ CallFitsStep(w) /\ CopyIsCurrent(w) /\ RequestIsHeld(w) /\ LedgerIntegrity
  BY DEF IInv
<1>2. row = Synced(row)
  BY <1>1 DEF LedgerIntegrity, Synced, TypeOK, Row
<1>3. TypeOK'
  BY <1>1 DEF TypeOK, GetWallet
<1>4. call'[w] = call[w] /\ pc'[w] = "lock_wallet" /\ call[w].op \in RefEvents \cup {"request"}
  BY <1>1, <1>2 DEF GetWallet, TypeOK, CallFitsStep
<1>5. CallFitsStep(w)' /\ CopyIsCurrent(w)' /\ RequestIsHeld(w)'
  BY <1>1, <1>4 DEF CallFitsStep, CopyIsCurrent, RequestIsHeld, RefEvents, Decisions, NoCall, GetWallet
<1> QED BY <1>1, <1>3, <1>5, StepOfOneWorker DEF GetWallet, TypeOK, tables

LEMMA LockWalletStep ==
  ASSUME IInv, NEW w \in Workers, LockWallet(w)
  PROVE  IInv'
<1>1. TypeOK /\ CallFitsStep(w) /\ CopyIsCurrent(w) /\ RequestIsHeld(w)
  BY DEF IInv
<1>2. TypeOK'
  BY <1>1 DEF TypeOK, LockWallet
<1>3. /\ call'[w] = call[w] /\ pc'[w] = "locked" /\ pc[w] = "lock_wallet"
      /\ walletLock' = w /\ local'[w] = row /\ row' = row
      /\ requestLock' = requestLock /\ withdrawal' = withdrawal
  BY <1>1 DEF LockWallet, TypeOK
<1>4. CallFitsStep(w)' /\ CopyIsCurrent(w)' /\ RequestIsHeld(w)'
  BY <1>1, <1>3 DEF CallFitsStep, CopyIsCurrent, RequestIsHeld, NoCall
<1> QED BY <1>1, <1>2, <1>4, StepOfOneWorker, NoWorkerAssumption DEF LockWallet, TypeOK, tables

LEMMA LockRequestStep ==
  ASSUME IInv, NEW w \in Workers, LockRequest(w)
  PROVE  IInv'
<1>1. TypeOK /\ CallFitsStep(w) /\ CopyIsCurrent(w) /\ RequestIsHeld(w)
  BY DEF IInv
<1> DEFINE d == call[w].id
<1>2. call[w].op \in Decisions /\ d \in Withdrawals /\ pc[w] = "lock_request" /\ call[w] # NoCall
  BY <1>1, CallFields DEF CallFitsStep, LockRequest
<1>3. CASE Raise(w)
  BY <1>3, NothingWritten DEF Raise
<1>4. CASE ~Raise(w)
  <2>1. /\ requestLock[d] = NoWorker /\ withdrawal[d].status = Required(call[w].op)
        /\ requestLock' = [requestLock EXCEPT ![d] = w]
        /\ pc' = [pc EXCEPT ![w] = IF call[w].op = "reject" THEN "locked" ELSE "lock_wallet"]
        /\ UNCHANGED <<row, recorded, posted, withdrawal, walletLock, call, local>>
    BY <1>4 DEF LockRequest
  <2>2. TypeOK'
    BY <1>1, <1>2, <2>1 DEF TypeOK
  <2>3. CallFitsStep(w)' /\ CopyIsCurrent(w)' /\ RequestIsHeld(w)'
    BY <1>1, <1>2, <2>1 DEF TypeOK, CallFitsStep, CopyIsCurrent, RequestIsHeld, RefEvents, Decisions
  <2> QED BY <1>1, <1>2, <2>1, <2>2, <2>3, StepOfOneWorker, NoWorkerAssumption DEF TypeOK, tables
<1> QED BY <1>3, <1>4

-----------------------------------------------------------------------------
(* The bodies of the operations *)

\* A body that keeps the tables typed and the books balanced keeps IInv, as long
\* as it wrote only what it had locked.
LEMMA BodyKeeps ==
  ASSUME IInv, NEW w \in Workers, Return(w),
         row' \in Row, recorded' \in [RefEvents -> [Refs -> Nat]],
         posted' \in [Events -> [Buckets -> Int]],
         withdrawal' \in [Withdrawals -> [status: Statuses, amount: Nat]],
         LedgerIntegrity', RequestsArePositive',
         row' = row \/ walletLock = w,
         \A d \in Withdrawals :
           \/ withdrawal'[d] = withdrawal[d]
           \/ requestLock[d] = w
           \/ withdrawal[d].status = "none"
  PROVE  IInv'
<1>1. TypeOK'
  BY ReturnTypes DEF IInv, TypeOK
<1> QED BY <1>1, ReturnKeeps DEF IInv

\* What a worker knows once its row locks are held.
LEMMA Locked ==
  ASSUME IInv, NEW w \in Workers, pc[w] = "locked"
  PROVE  /\ row \in Row /\ recorded \in [RefEvents -> [Refs -> Nat]]
         /\ posted \in [Events -> [Buckets -> Int]]
         /\ withdrawal \in [Withdrawals -> [status: Statuses, amount: Nat]]
         /\ call[w].op # "reject" => walletLock = w /\ local[w] = row
         /\ call[w].op \in RefEvents =>
              call[w].ref \in Refs /\ call[w].amount \in Nat /\ call[w].amount > 0
         /\ call[w].op = "request" =>
              call[w].id \in Withdrawals /\ call[w].amount \in Nat /\ call[w].amount > 0
         /\ call[w].op \in Decisions =>
              /\ call[w].id \in Withdrawals
              /\ requestLock[call[w].id] = w
              /\ withdrawal[call[w].id].status = Required(call[w].op)
<1>1. TypeOK /\ CallFitsStep(w) /\ CopyIsCurrent(w) /\ RequestIsHeld(w)
  BY DEF IInv
<1>2. /\ row \in Row /\ recorded \in [RefEvents -> [Refs -> Nat]]
      /\ posted \in [Events -> [Buckets -> Int]]
      /\ withdrawal \in [Withdrawals -> [status: Statuses, amount: Nat]]
  BY <1>1 DEF TypeOK
<1>3. call[w].op # "reject" => walletLock = w /\ local[w] = row
  BY <1>1 DEF CopyIsCurrent
<1> QED BY <1>1, <1>2, <1>3, CallFields DEF CallFitsStep, RequestIsHeld, RefEvents

LEMMA SyncedRow ==
  ASSUME NEW r \in Row, NEW a \in Int, NEW p \in Int
  PROVE  /\ Synced([r EXCEPT !.pending = p, !.available = a]) \in Row
         /\ Synced([r EXCEPT !.pending = p]) \in Row
         /\ Synced([r EXCEPT !.available = a]) \in Row
<1>1. ASSUME NEW q \in Row PROVE Synced(q) \in Row
  <2>1. q.available + q.pending \in Int
    BY DEF Row
  <2> QED BY <2>1 DEF Synced, Row
<1>2. /\ [r EXCEPT !.pending = p, !.available = a] \in Row
      /\ [r EXCEPT !.pending = p] \in Row
      /\ [r EXCEPT !.available = a] \in Row
  BY DEF Row
<1> QED BY <1>1, <1>2

LEMMA OnOrderPaidStep ==
  ASSUME IInv, NEW w \in Workers, OnOrderPaid(w)
  PROVE  IInv'
<1> DEFINE r == call[w].ref
           x == call[w].amount
<1>1. /\ row \in Row /\ recorded \in [RefEvents -> [Refs -> Nat]]
      /\ posted \in [Events -> [Buckets -> Int]]
      /\ walletLock = w /\ local[w] = row /\ r \in Refs /\ x \in Nat
  BY Locked DEF OnOrderPaid, Body, RefEvents
<1>2. /\ row' = Synced([row EXCEPT !.pending = @ + x])
      /\ recorded' = [recorded EXCEPT !["order_paid"][r] = x]
      /\ posted' = [posted EXCEPT !["order_paid"]["pending"] = @ + x]
      /\ withdrawal' = withdrawal /\ Return(w)
  BY <1>1 DEF OnOrderPaid
<1>3. LedgerIntegrity'
  BY <1>1, <1>2 DEF IInv, LedgerIntegrity, Computed, Synced, Row, Events, RefEvents, Buckets
<1>4. row' \in Row
  <2>1. row.pending + x \in Int
    BY <1>1 DEF Row
  <2> QED BY <1>1, <1>2, <2>1, SyncedRow
<1>5. recorded' \in [RefEvents -> [Refs -> Nat]]
  BY <1>1, <1>2 DEF RefEvents
<1>6. posted' \in [Events -> [Buckets -> Int]]
  BY <1>1, <1>2 DEF Events, RefEvents, Buckets
<1>7. RequestsArePositive' /\ withdrawal' \in [Withdrawals -> [status: Statuses, amount: Nat]]
  BY <1>2 DEF IInv, TypeOK, RequestsArePositive
<1> QED BY <1>1, <1>2, <1>3, <1>4, <1>5, <1>6, <1>7, BodyKeeps

LEMMA OnOrderDeliveredStep ==
  ASSUME IInv, NEW w \in Workers, OnOrderDelivered(w)
  PROVE  IInv'
<1> DEFINE r == call[w].ref
           x == Releasable(w)
<1>1. /\ row \in Row /\ recorded \in [RefEvents -> [Refs -> Nat]]
      /\ posted \in [Events -> [Buckets -> Int]]
      /\ walletLock = w /\ local[w] = row /\ r \in Refs /\ call[w].amount \in Nat
  BY Locked DEF OnOrderDelivered, Body, RefEvents
<1>2. x \in Nat /\ x > 0 /\ x <= row.pending
  BY <1>1 DEF OnOrderDelivered, Releasable, Smaller, Row
<1>3. /\ row' = Synced([row EXCEPT !.pending = @ - x, !.available = @ + x])
      /\ recorded' = [recorded EXCEPT !["order_delivered"][r] = x]
      /\ posted' = [posted EXCEPT !["order_delivered"]["pending"] = @ - x,
                                  !["order_delivered"]["available"] = @ + x]
      /\ withdrawal' = withdrawal /\ Return(w)
  BY <1>1 DEF OnOrderDelivered
<1> HIDE DEF x
<1>4. LedgerIntegrity'
  BY <1>1, <1>2, <1>3 DEF IInv, LedgerIntegrity, Computed, Synced, Row, Events, RefEvents, Buckets
<1>5. row' \in Row
  <2>1. row.pending - x \in Int /\ row.available + x \in Int
    BY <1>1, <1>2 DEF Row
  <2> QED BY <1>1, <1>3, <2>1, SyncedRow
<1>6. recorded' \in [RefEvents -> [Refs -> Nat]]
  BY <1>1, <1>2, <1>3 DEF RefEvents
<1>7. posted' \in [Events -> [Buckets -> Int]]
  BY <1>1, <1>2, <1>3 DEF Events, RefEvents, Buckets
<1>8. RequestsArePositive' /\ withdrawal' \in [Withdrawals -> [status: Statuses, amount: Nat]]
  BY <1>3 DEF IInv, TypeOK, RequestsArePositive
<1> QED BY <1>1, <1>3, <1>4, <1>5, <1>6, <1>7, <1>8, BodyKeeps

LEMMA OnRefundStep ==
  ASSUME IInv, NEW w \in Workers, OnRefund(w)
  PROVE  IInv'
<1> DEFINE r == call[w].ref
           p == PendingDeduction(w)
           a == AvailableDeduction(w)
<1>1. /\ row \in Row /\ recorded \in [RefEvents -> [Refs -> Nat]]
      /\ posted \in [Events -> [Buckets -> Int]]
      /\ walletLock = w /\ local[w] = row /\ r \in Refs /\ call[w].amount \in Nat
  BY Locked DEF OnRefund, Body, RefEvents
<1>2. /\ p \in Int /\ a \in Int
      /\ p <= row.pending /\ a <= row.available
  BY <1>1 DEF OnRefund, PendingDeduction, AvailableDeduction, Smaller, Row
<1>3. /\ row' = Synced([row EXCEPT !.pending = @ - p, !.available = @ - a])
      /\ recorded' = [recorded EXCEPT !["refund"][r] = call[w].amount]
      /\ posted' = [posted EXCEPT !["refund"]["pending"] = @ - p,
                                  !["refund"]["available"] = @ - a]
      /\ withdrawal' = withdrawal /\ Return(w)
  BY <1>1 DEF OnRefund
<1> HIDE DEF p, a
<1>4. LedgerIntegrity'
  BY <1>1, <1>2, <1>3 DEF IInv, LedgerIntegrity, Computed, Synced, Row, Events, RefEvents, Buckets
<1>5. row' \in Row
  <2>1. row.pending - p \in Int /\ row.available - a \in Int
    BY <1>1, <1>2 DEF Row
  <2> QED BY <1>1, <1>3, <2>1, SyncedRow
<1>6. recorded' \in [RefEvents -> [Refs -> Nat]]
  BY <1>1, <1>3 DEF RefEvents
<1>7. posted' \in [Events -> [Buckets -> Int]]
  BY <1>1, <1>2, <1>3 DEF Events, RefEvents, Buckets
<1>8. RequestsArePositive' /\ withdrawal' \in [Withdrawals -> [status: Statuses, amount: Nat]]
  BY <1>3 DEF IInv, TypeOK, RequestsArePositive
<1> QED BY <1>1, <1>3, <1>4, <1>5, <1>6, <1>7, <1>8, BodyKeeps

LEMMA CreateWithdrawalRequestStep ==
  ASSUME IInv, NEW w \in Workers, CreateWithdrawalRequest(w)
  PROVE  IInv'
<1> DEFINE d == call[w].id
<1>1. /\ row \in Row /\ withdrawal \in [Withdrawals -> [status: Statuses, amount: Nat]]
      /\ local[w] = row /\ d \in Withdrawals /\ call[w].amount \in Nat /\ call[w].amount > 0
  BY Locked DEF CreateWithdrawalRequest, Body
<1>2. /\ withdrawal[d].status = "none"
      /\ withdrawal' = [withdrawal EXCEPT ![d] = [status |-> "pending", amount |-> call[w].amount]]
      /\ row' = row /\ recorded' = recorded /\ posted' = posted /\ Return(w)
  BY <1>1 DEF CreateWithdrawalRequest
<1>3. LedgerIntegrity'
  BY <1>2 DEF IInv, LedgerIntegrity, Computed
<1>4. withdrawal' \in [Withdrawals -> [status: Statuses, amount: Nat]]
  BY <1>1, <1>2 DEF Statuses
<1>5. RequestsArePositive'
  BY <1>1, <1>2 DEF IInv, RequestsArePositive
<1> QED BY <1>1, <1>2, <1>3, <1>4, <1>5, BodyKeeps DEF IInv, TypeOK

\* Approvals and rejections change the status of the request they hold.
LEMMA DecisionStep ==
  ASSUME IInv, NEW w \in Workers, ApproveWithdrawal(w) \/ RejectWithdrawal(w)
  PROVE  IInv'
<1> DEFINE d == call[w].id
<1>1. /\ withdrawal \in [Withdrawals -> [status: Statuses, amount: Nat]]
      /\ d \in Withdrawals /\ requestLock[d] = w /\ withdrawal[d].status = "pending"
  BY Locked DEF ApproveWithdrawal, RejectWithdrawal, Body, Decisions, Required
<1>2. PICK s \in {"approved", "rejected"} :
        /\ withdrawal' = [withdrawal EXCEPT ![d].status = s]
        /\ row' = row /\ recorded' = recorded /\ posted' = posted /\ Return(w)
  BY DEF ApproveWithdrawal, RejectWithdrawal
<1>3. LedgerIntegrity'
  BY <1>2 DEF IInv, LedgerIntegrity, Computed
<1>4. withdrawal' \in [Withdrawals -> [status: Statuses, amount: Nat]]
  BY <1>1, <1>2 DEF Statuses
<1>5. RequestsArePositive'
  BY <1>1, <1>2 DEF IInv, RequestsArePositive
<1> QED BY <1>1, <1>2, <1>3, <1>4, <1>5, BodyKeeps DEF IInv, TypeOK

LEMMA MarkWithdrawalPaidStep ==
  ASSUME IInv, NEW w \in Workers, MarkWithdrawalPaid(w)
  PROVE  IInv'
<1> DEFINE d == call[w].id
           x == withdrawal[d].amount
<1>1. /\ row \in Row /\ posted \in [Events -> [Buckets -> Int]]
      /\ withdrawal \in [Withdrawals -> [status: Statuses, amount: Nat]]
      /\ walletLock = w /\ local[w] = row
      /\ d \in Withdrawals /\ requestLock[d] = w /\ withdrawal[d].status = "approved"
  BY Locked DEF MarkWithdrawalPaid, Body, Decisions, Required
<1>2. /\ x \in Nat /\ x <= row.available
      /\ posted' = [posted EXCEPT !["withdrawal"]["available"] = @ - x]
      /\ row' = Synced([row EXCEPT !.available = @ - x])
      /\ withdrawal' = [withdrawal EXCEPT ![d].status = "paid"]
      /\ recorded' = recorded /\ Return(w)
  BY <1>1 DEF MarkWithdrawalPaid
<1> HIDE DEF x
<1>3. LedgerIntegrity'
  BY <1>1, <1>2 DEF IInv, LedgerIntegrity, Computed, Synced, Row, Events, RefEvents, Buckets
<1>4. row' \in Row
  <2>1. row.available - x \in Int
    BY <1>1, <1>2 DEF Row
  <2> QED BY <1>1, <1>2, <2>1, SyncedRow
<1>5. posted' \in [Events -> [Buckets -> Int]]
  BY <1>1, <1>2 DEF Events, RefEvents, Buckets
<1>6. withdrawal' \in [Withdrawals -> [status: Statuses, amount: Nat]]
  BY <1>1, <1>2 DEF Statuses
<1>7. RequestsArePositive'
  BY <1>1, <1>2 DEF IInv, RequestsArePositive
<1> QED BY <1>1, <1>2, <1>3, <1>4, <1>5, <1>6, <1>7, BodyKeeps DEF IInv, TypeOK

LEMMA AlreadyDoneStep ==
  ASSUME IInv, NEW w \in Workers, AlreadyDone(w)
  PROVE  IInv'
<1>1. local[w] = row
  BY Locked DEF AlreadyDone, RefEvents
<1> QED BY <1>1, NothingWritten DEF AlreadyDone, tables

-----------------------------------------------------------------------------
(* The invariant *)

LEMMA InitIInv == Init => IInv
<1> SUFFICES ASSUME Init PROVE IInv
  OBVIOUS
<1>1. TypeOK
  BY DEF Init, NothingDone, TypeOK, Row, EmptyRow, Statuses
<1>2. LedgerIntegrity
  BY DEF Init, NothingDone, LedgerIntegrity, Computed, EmptyRow, Events, RefEvents, Buckets
<1>3. RequestsArePositive
  BY DEF Init, NothingDone, RequestsArePositive
<1>4. \A w \in Workers : CallFitsStep(w) /\ CopyIsCurrent(w) /\ RequestIsHeld(w)
  BY DEF Init, NothingDone, CallFitsStep, CopyIsCurrent, RequestIsHeld, NoCall, RefEvents
<1> QED BY <1>1, <1>2, <1>3, <1>4 DEF IInv

LEMMA NextIInv == IInv /\ [Next]_vars => IInv'
<1> SUFFICES ASSUME IInv, [Next]_vars PROVE IInv'
  OBVIOUS
<1>1. CASE UNCHANGED vars
  BY <1>1 DEF vars, IInv, TypeOK, LedgerIntegrity, Computed, RequestsArePositive,
              CallFitsStep, CopyIsCurrent, RequestIsHeld
<1>2. ASSUME NEW w \in Workers,
             Calls(w) \/ GetWallet(w) \/ Lock(w) \/ Perform(w) \/ Crash(w)
      PROVE  IInv'
  <2>1. CASE Calls(w)
    BY <2>1, CallStep
  <2>2. CASE GetWallet(w)
    BY <2>2, GetWalletStep
  <2>3. CASE LockRequest(w)
    BY <2>3, LockRequestStep
  <2>4. CASE LockWallet(w)
    BY <2>4, LockWalletStep
  <2>6. CASE OnOrderPaid(w)
    BY <2>6, OnOrderPaidStep
  <2>7. CASE OnOrderDelivered(w)
    BY <2>7, OnOrderDeliveredStep
  <2>8. CASE OnRefund(w)
    BY <2>8, OnRefundStep
  <2>9. CASE CreateWithdrawalRequest(w)
    BY <2>9, CreateWithdrawalRequestStep
  <2>10. CASE ApproveWithdrawal(w) \/ RejectWithdrawal(w)
    BY <2>10, DecisionStep
  <2>11. CASE MarkWithdrawalPaid(w)
    BY <2>11, MarkWithdrawalPaidStep
  <2>12. CASE AlreadyDone(w)
    BY <2>12, AlreadyDoneStep
  <2>13. CASE Refuse(w) \/ Crash(w)
    BY <2>13, NothingWritten DEF Refuse, Crash, Raise
  <2> QED BY <1>2, <2>1, <2>2, <2>3, <2>4, <2>6, <2>7, <2>8, <2>9, <2>10, <2>11,
             <2>12, <2>13 DEF Lock, Perform
<1> QED BY <1>1, <1>2 DEF Next

THEOREM Invariance == Spec => []IInv
<1> QED BY InitIInv, NextIInv, PTL DEF Spec

\* The data of the service keep their types.
THEOREM TypeSafety == Spec => []TypeOK
<1>1. IInv => TypeOK
  BY DEF IInv
<1> QED BY <1>1, Invariance, PTL

\* ledger_integrity_check answers is_valid whenever the wallet row is committed,
\* for any number of concurrent callers: the row locks suffice.
THEOREM Integrity == Spec => []LedgerIntegrity
<1>1. IInv => LedgerIntegrity
  BY DEF IInv
<1> QED BY <1>1, Invariance, PTL

-----------------------------------------------------------------------------
(* The action properties *)

RecordedStep ==
  \A e \in RefEvents :
    /\ \A r \in Refs : recorded[e][r] > 0 => recorded'[e][r] = recorded[e][r]
    /\ recorded[e] = recorded'[e] => posted'[e] = posted[e]

\* A step of one call of the service, under either specification.
LEMMA ServiceRecordsOnce ==
  ASSUME BooksTyped, recorded \in [RefEvents -> [Refs -> Nat]], NEW w \in Workers,
         Calls(w) \/ GetWallet(w) \/ Lock(w) \/ Perform(w) \/ Crash(w),
         call[w].op \in RefEvents => call[w].amount > 0
  PROVE  RecordedStep
<1> USE DEF RefEvents
<1>1. CASE UNCHANGED <<recorded, posted>>
  BY <1>1 DEF RecordedStep
<1>2. ASSUME pc[w] = "locked", call[w].op \in RefEvents
      PROVE  /\ recorded \in [RefEvents -> [Refs -> Nat]]
             /\ posted \in [Events -> [Buckets -> Int]]
             /\ call[w].ref \in Refs /\ call[w].amount \in Nat /\ call[w].amount > 0
  BY <1>2, CallTyped DEF BooksTyped
<1>3. CASE OnOrderPaid(w)
  <2>1. /\ recorded \in [RefEvents -> [Refs -> Nat]]
        /\ posted \in [Events -> [Buckets -> Int]]
        /\ call[w].ref \in Refs /\ call[w].amount \in Nat /\ call[w].amount > 0
    BY <1>2, <1>3 DEF OnOrderPaid, Body
  <2> QED BY <1>3, <2>1 DEF OnOrderPaid, Exists, RecordedStep, Events
<1>4. CASE OnOrderDelivered(w)
  <2>1. /\ recorded \in [RefEvents -> [Refs -> Nat]]
        /\ posted \in [Events -> [Buckets -> Int]]
        /\ call[w].ref \in Refs
    BY <1>2, <1>4 DEF OnOrderDelivered, Body
  <2>2. /\ Releasable(w) > 0
        /\ ~Exists("order_delivered", call[w].ref)
        /\ recorded' = [recorded EXCEPT !["order_delivered"][call[w].ref] = Releasable(w)]
        /\ posted' = [posted EXCEPT !["order_delivered"]["pending"] = @ - Releasable(w),
                                    !["order_delivered"]["available"] = @ + Releasable(w)]
    BY <1>4 DEF OnOrderDelivered
  <2>3. recorded'["order_delivered"][call[w].ref] # recorded["order_delivered"][call[w].ref]
    BY <2>1, <2>2 DEF Exists
  <2> QED BY <2>1, <2>2, <2>3 DEF Exists, RecordedStep, Events
<1>5. CASE OnRefund(w)
  <2>1. /\ recorded \in [RefEvents -> [Refs -> Nat]]
        /\ posted \in [Events -> [Buckets -> Int]]
        /\ call[w].ref \in Refs /\ call[w].amount \in Nat /\ call[w].amount > 0
    BY <1>2, <1>5 DEF OnRefund, Body
  <2>2. /\ ~Exists("refund", call[w].ref)
        /\ recorded' = [recorded EXCEPT !["refund"][call[w].ref] = call[w].amount]
        /\ posted' = [posted EXCEPT !["refund"]["pending"] = @ - PendingDeduction(w),
                                    !["refund"]["available"] = @ - AvailableDeduction(w)]
    BY <1>5 DEF OnRefund
  <2>3. recorded'["refund"][call[w].ref] # recorded["refund"][call[w].ref]
    BY <2>1, <2>2 DEF Exists
  <2> QED BY <2>1, <2>2, <2>3 DEF Exists, RecordedStep, Events
<1>6. CASE MarkWithdrawalPaid(w)
  <2>1. recorded' = recorded /\ \A e \in RefEvents : posted'[e] = posted[e]
    BY <1>6 DEF MarkWithdrawalPaid, BooksTyped, Events
  <2> QED BY <2>1 DEF RecordedStep
<1> QED BY <1>1, <1>3, <1>4, <1>5, <1>6
        DEF Calls, Call, GetWallet, Lock, LockWallet, LockRequest, Perform,
            CreateWithdrawalRequest, ApproveWithdrawal, RejectWithdrawal, AlreadyDone, Refuse,
            Crash, Raise, tables

LEMMA RecordedOnceStep == IInv /\ [Next]_vars => [RecordedStep]_vars
BY ServiceRecordsOnce DEF Next, IInv, TypeOK, BooksTyped, CallFitsStep

\* A repeated call with a known reference has no effect, whoever makes it and
\* however it overlaps the first one.
THEOREM NoDoubleRecording == Spec => RecordedOnce
<1>1. Spec => [][RecordedStep]_vars
  BY Invariance, RecordedOnceStep, PTL DEF Spec
<1> QED BY <1>1, PTL DEF RecordedOnce, RecordedStep

LifecycleStep ==
  \A d \in Withdrawals : withdrawal'[d] # withdrawal[d] =>
    /\ <<withdrawal[d].status, withdrawal'[d].status>> \in
         {<<"none", "pending">>, <<"pending", "approved">>,
          <<"pending", "rejected">>, <<"approved", "paid">>}
    /\ withdrawal[d].status # "none" => withdrawal'[d].amount = withdrawal[d].amount

LEMMA ServiceKeepsLifecycle ==
  ASSUME BooksTyped, NEW w \in Workers,
         Calls(w) \/ GetWallet(w) \/ Lock(w) \/ Perform(w) \/ Crash(w),
         RequestIsHeld(w)
  PROVE  LifecycleStep
<1>1. CASE UNCHANGED withdrawal
  BY <1>1 DEF LifecycleStep
<1>2. withdrawal \in [Withdrawals -> [status: Statuses, amount: Nat]]
  BY DEF BooksTyped
<1>3. CASE CreateWithdrawalRequest(w)
  BY <1>2, <1>3 DEF CreateWithdrawalRequest, LifecycleStep
<1>4. ASSUME pc[w] = "locked", call[w].op \in Decisions
      PROVE  call[w].id \in Withdrawals /\ withdrawal[call[w].id].status = Required(call[w].op)
  BY <1>4, CallTyped DEF RequestIsHeld
<1>5. CASE ApproveWithdrawal(w) \/ RejectWithdrawal(w)
  <2>1. call[w].id \in Withdrawals /\ withdrawal[call[w].id].status = "pending"
    BY <1>4, <1>5 DEF ApproveWithdrawal, RejectWithdrawal, Body, Decisions, Required
  <2> QED BY <1>2, <1>5, <2>1 DEF ApproveWithdrawal, RejectWithdrawal, LifecycleStep
<1>6. CASE MarkWithdrawalPaid(w)
  <2>1. call[w].id \in Withdrawals /\ withdrawal[call[w].id].status = "approved"
    BY <1>4, <1>6 DEF MarkWithdrawalPaid, Body, Decisions, Required
  <2> QED BY <1>2, <1>6, <2>1 DEF MarkWithdrawalPaid, LifecycleStep
<1> QED BY <1>1, <1>3, <1>5, <1>6
        DEF Calls, Call, GetWallet, Lock, LockWallet, LockRequest, Perform,
            OnOrderPaid, OnOrderDelivered, OnRefund, AlreadyDone, Refuse, Crash, Raise, tables

LEMMA RequestLifecycleStep == IInv /\ [Next]_vars => [LifecycleStep]_vars
BY ServiceKeepsLifecycle DEF Next, IInv, TypeOK, BooksTyped

\* Two administrators deciding the same request at once cannot both succeed.
THEOREM DecisionsAreFinal == Spec => RequestLifecycle
<1>1. Spec => [][LifecycleStep]_vars
  BY Invariance, RequestLifecycleStep, PTL DEF Spec
<1> QED BY <1>1, PTL DEF RequestLifecycle, LifecycleStep

-----------------------------------------------------------------------------
(* Payouts *)

LEMMA TotalType ==
  ASSUME BooksTyped, NEW ds \in SUBSET Withdrawals
  PROVE  Total(ds) \in Nat
<1> DEFINE f == [d \in Withdrawals |-> withdrawal[d].amount]
<1>1. IsFiniteSet(ds) /\ \A d \in ds : f[d] \in Nat
  BY WithdrawalsAssumption, FS_Subset DEF BooksTyped
<1> HIDE DEF f
<1>2. SumFunctionOnSet(f, ds) \in Nat
  BY <1>1, SumType
<1> QED BY <1>2 DEF Total, f

\* Requests that keep their amounts keep their total.
LEMMA TotalStays ==
  ASSUME NEW ds \in SUBSET Withdrawals,
         \A d \in ds : withdrawal'[d].amount = withdrawal[d].amount
  PROVE  SumFunctionOnSet([d \in Withdrawals |-> withdrawal'[d].amount], ds) = Total(ds)
<1> DEFINE f == [d \in Withdrawals |-> withdrawal[d].amount]
           g == [d \in Withdrawals |-> withdrawal'[d].amount]
<1>1. IsFiniteSet(ds) /\ \A d \in ds : f[d] = g[d]
  BY WithdrawalsAssumption, FS_Subset
<1> HIDE DEF f, g
<1>2. SumFunctionOnSet(f, ds) = SumFunctionOnSet(g, ds)
  BY <1>1, SumSame
<1> QED BY <1>2 DEF Total, f, g

\* What is paid and what was debited stay the same.
LEMMA PayoutsStay ==
  ASSUME PayoutsDebitOnce, posted'["withdrawal"]["available"] = posted["withdrawal"]["available"],
         WithStatus("paid")' = WithStatus("paid"),
         \A d \in WithStatus("paid") : withdrawal'[d].amount = withdrawal[d].amount
  PROVE  PayoutsDebitOnce'
<1>1. WithStatus("paid") \in SUBSET Withdrawals
  BY DEF WithStatus
<1>2. Total(WithStatus("paid"))' =
        SumFunctionOnSet([d \in Withdrawals |-> withdrawal'[d].amount], WithStatus("paid")')
  BY DEF Total
<1>3. Total(WithStatus("paid"))' = Total(WithStatus("paid"))
  BY <1>1, <1>2, TotalStays
<1> QED BY <1>3 DEF PayoutsDebitOnce

\* A payout adds the amount of its request to both sides.
LEMMA PayoutCounts ==
  ASSUME PayoutsDebitOnce, BooksTyped, NEW d \in Withdrawals, withdrawal[d].status # "paid",
         withdrawal' = [withdrawal EXCEPT ![d].status = "paid"],
         posted' = [posted EXCEPT !["withdrawal"]["available"] = @ - withdrawal[d].amount]
  PROVE  PayoutsDebitOnce'
<1> DEFINE ds == WithStatus("paid")
           f == [e \in Withdrawals |-> withdrawal[e].amount]
<1>1. ds \in SUBSET Withdrawals /\ IsFiniteSet(ds) /\ d \notin ds
  BY WithdrawalsAssumption, FS_Subset DEF WithStatus
<1>2. \A e \in Withdrawals : withdrawal'[e].amount = withdrawal[e].amount
  BY DEF BooksTyped
<1>3. ds' = ds \cup {d}
  BY DEF WithStatus, BooksTyped
<1>4. \A e \in ds \cup {d} : f[e] \in Int
  BY <1>1 DEF BooksTyped
<1>5. f[d] = withdrawal[d].amount
  OBVIOUS
<1> HIDE DEF f, ds
<1>6. SumFunctionOnSet(f, ds \cup {d}) = SumFunctionOnSet(f, ds) + f[d]
  BY <1>1, <1>4, SumAdd
<1>7. Total(ds \cup {d}) = Total(ds) + withdrawal[d].amount
  BY <1>5, <1>6 DEF Total, f
<1>8. Total(ds)' = SumFunctionOnSet([e \in Withdrawals |-> withdrawal'[e].amount], ds')
  BY DEF Total
<1>9. Total(ds)' = Total(ds \cup {d})
  BY <1>1, <1>2, <1>3, <1>8, TotalStays
<1>10. /\ posted'["withdrawal"]["available"]
            = posted["withdrawal"]["available"] - withdrawal[d].amount
       /\ posted["withdrawal"]["available"] \in Int /\ withdrawal[d].amount \in Int
  BY DEF BooksTyped, Events, Buckets
<1>11. Total(ds) \in Nat
  BY <1>1, TotalType
<1>12. -posted["withdrawal"]["available"] = Total(ds)
  BY DEF PayoutsDebitOnce, ds
<1>13. -posted'["withdrawal"]["available"] = Total(ds)'
  BY <1>7, <1>9, <1>10, <1>11, <1>12
<1> QED BY <1>13 DEF PayoutsDebitOnce, ds

\* A step of one call: only mark_withdrawal_paid makes a request paid, and debits it.
LEMMA ServiceKeepsPayouts ==
  ASSUME PayoutsDebitOnce, BooksTyped, NEW w \in Workers,
         Calls(w) \/ GetWallet(w) \/ Lock(w) \/ Perform(w) \/ Crash(w),
         pc[w] = "locked" /\ call[w].op \in Decisions =>
           withdrawal[call[w].id].status = Required(call[w].op)
  PROVE  PayoutsDebitOnce'
<1> USE DEF Decisions, Required
<1>1. withdrawal \in [Withdrawals -> [status: Statuses, amount: Nat]]
      /\ posted \in [Events -> [Buckets -> Int]]
  BY DEF BooksTyped
<1>2. CASE UNCHANGED <<posted, withdrawal>>
  BY <1>2, PayoutsStay DEF WithStatus
<1>3. CASE OnOrderPaid(w) \/ OnOrderDelivered(w) \/ OnRefund(w)
  <2>1. withdrawal' = withdrawal /\ posted'["withdrawal"] = posted["withdrawal"]
    BY <1>1, <1>3 DEF OnOrderPaid, OnOrderDelivered, OnRefund, Events, RefEvents
  <2> QED BY <2>1, PayoutsStay DEF WithStatus
<1>4. CASE CreateWithdrawalRequest(w)
  <2>1. posted' = posted /\ withdrawal[call[w].id].status = "none"
        /\ withdrawal' = [withdrawal EXCEPT ![call[w].id] =
                            [status |-> "pending", amount |-> call[w].amount]]
    BY <1>4 DEF CreateWithdrawalRequest
  <2>2. WithStatus("paid")' = WithStatus("paid")
        /\ \A d \in WithStatus("paid") : withdrawal'[d] = withdrawal[d]
    BY <1>1, <2>1 DEF WithStatus
  <2> QED BY <2>1, <2>2, PayoutsStay
<1>5. CASE ApproveWithdrawal(w) \/ RejectWithdrawal(w)
  <2>1. call[w].id \in Withdrawals /\ withdrawal[call[w].id].status = "pending"
    BY <1>5, CallTyped DEF ApproveWithdrawal, RejectWithdrawal, Body
  <2>2. PICK s \in {"approved", "rejected"} :
          posted' = posted /\ withdrawal' = [withdrawal EXCEPT ![call[w].id].status = s]
    BY <1>5 DEF ApproveWithdrawal, RejectWithdrawal
  <2>3. WithStatus("paid")' = WithStatus("paid")
        /\ \A d \in WithStatus("paid") : withdrawal'[d] = withdrawal[d]
    BY <1>1, <2>1, <2>2 DEF WithStatus
  <2> QED BY <2>2, <2>3, PayoutsStay
<1>6. CASE MarkWithdrawalPaid(w)
  <2>1. call[w].id \in Withdrawals /\ withdrawal[call[w].id].status = "approved"
    BY <1>6, CallTyped DEF MarkWithdrawalPaid, Body
  <2> QED BY <1>6, <2>1, PayoutCounts DEF MarkWithdrawalPaid
<1> QED BY <1>2, <1>3, <1>4, <1>5, <1>6
        DEF Calls, Call, GetWallet, Lock, LockWallet, LockRequest, Perform, AlreadyDone, Refuse,
            Crash, Raise, tables

LEMMA InitPayouts ==
  ASSUME WithStatus("paid") = {}, posted["withdrawal"]["available"] = 0
  PROVE  PayoutsDebitOnce
<1>1. Total({}) = 0
  BY SumEmpty DEF Total
<1>2. Total(WithStatus("paid")) = 0
  BY <1>1
<1> QED BY <1>2 DEF PayoutsDebitOnce

LEMMA NextPayouts == IInv /\ PayoutsDebitOnce /\ [Next]_vars => PayoutsDebitOnce'
<1> SUFFICES ASSUME IInv, PayoutsDebitOnce, [Next]_vars PROVE PayoutsDebitOnce'
  OBVIOUS
<1>1. CASE UNCHANGED vars
  BY <1>1, PayoutsStay DEF vars, WithStatus
<1>2. CASE Next
  BY <1>2, ServiceKeepsPayouts DEF Next, IInv, TypeOK, BooksTyped, RequestIsHeld
<1> QED BY <1>1, <1>2

\* What has been debited for withdrawals is the total of those marked paid: no two
\* administrators pay one request twice, and none is paid without its debit.
THEOREM PayoutsAreDebitedOnce == Spec => []PayoutsDebitOnce
<1>1. Init => PayoutsDebitOnce
  BY InitPayouts DEF Init, NothingDone, WithStatus, Events, Buckets
<1> QED BY <1>1, NextPayouts, Invariance, PTL DEF Spec

-----------------------------------------------------------------------------
(* The service implements the contract *)

Credited == {r \in Refs : recorded["order_paid"][r] > 0}
Released == {r \in Refs : recorded["order_delivered"][r] > 0}
Refunded == {r \in Refs : recorded["refund"][r] > 0}

LEMMA InitContract == Init => Contract!Init
BY DEF Init, NothingDone, Contract!Init, EmptyRow, WithStatus, RefEvents

LEMMA NextContract == IInv /\ [Next]_vars => [Contract!Next]_(Contract!contractVars)
<1> SUFFICES ASSUME IInv, NEW w \in Workers,
                    Calls(w) \/ GetWallet(w) \/ Lock(w) \/ Perform(w) \/ Crash(w)
             PROVE  [Contract!Next]_(Contract!contractVars)
  BY DEF Next, vars, Contract!contractVars, WithStatus
<1>1. CASE UNCHANGED <<row, recorded, withdrawal>>
  BY <1>1 DEF Contract!contractVars, WithStatus
<1>2. /\ row \in Row /\ recorded \in [RefEvents -> [Refs -> Nat]]
      /\ withdrawal \in [Withdrawals -> [status: Statuses, amount: Nat]]
      /\ row.pending >= 0 /\ row.available >= 0
  BY DEF IInv, TypeOK, LedgerIntegrity
<1>3. CASE OnOrderPaid(w)
  <2> DEFINE r == call[w].ref
             x == call[w].amount
  <2>1. local[w] = row /\ r \in Refs /\ x \in Nat /\ x > 0
    BY <1>3, Locked DEF OnOrderPaid, Body, RefEvents
  <2>2. recorded' = [recorded EXCEPT !["order_paid"][r] = x] /\ recorded["order_paid"][r] = 0
    BY <1>2, <1>3, <2>1 DEF OnOrderPaid, Exists, RefEvents
  <2>3. /\ Credited' = Credited \cup {r} /\ r \notin Credited
        /\ Released' = Released /\ Refunded' = Refunded
    BY <1>2, <2>1, <2>2 DEF Credited, Released, Refunded, RefEvents
  <2>4. /\ row'.pending \in Int /\ row'.pending > row.pending
        /\ row'.available = row.available
    BY <1>2, <1>3, <2>1 DEF OnOrderPaid, Synced, Row
  <2>5. WithStatus("approved")' = WithStatus("approved") /\ WithStatus("paid")' = WithStatus("paid")
    BY <1>3 DEF OnOrderPaid, WithStatus
  <2>6. PICK q \in Refs : q = r
    BY <2>1
  <2>7. Contract!Credit(q)
    BY <2>3, <2>4, <2>5, <2>6 DEF Contract!Credit, Credited, Released, Refunded
  <2> QED BY <2>7 DEF Contract!Next
<1>4. CASE OnOrderDelivered(w)
  <2> DEFINE r == call[w].ref
             x == Releasable(w)
  <2>1. /\ local[w] = row /\ r \in Refs
        /\ x \in Nat /\ x > 0 /\ x <= row.pending
    BY <1>2, <1>4, Locked DEF OnOrderDelivered, Body, RefEvents, Releasable, Smaller, Row
  <2>2. /\ recorded' = [recorded EXCEPT !["order_delivered"][r] = x]
        /\ recorded["order_delivered"][r] = 0
        /\ row' = Synced([row EXCEPT !.pending = @ - x, !.available = @ + x])
    BY <1>2, <1>4, <2>1 DEF OnOrderDelivered, Exists, RefEvents
  <2> HIDE DEF x
  <2>3. /\ Released' = Released \cup {r} /\ r \notin Released
        /\ Credited' = Credited /\ Refunded' = Refunded
    BY <1>2, <2>1, <2>2 DEF Credited, Released, Refunded, RefEvents
  <2>4. /\ row'.pending \in 0 .. (row.pending - 1)
        /\ row'.available = row.available + (row.pending - row'.pending)
    BY <1>2, <2>1, <2>2 DEF Synced, Row
  <2>5. WithStatus("approved")' = WithStatus("approved") /\ WithStatus("paid")' = WithStatus("paid")
    BY <1>4 DEF OnOrderDelivered, WithStatus
  <2>6. PICK q \in Refs : q = r
    BY <2>1
  <2>7. Contract!Release(q)
    BY <2>3, <2>4, <2>5, <2>6 DEF Contract!Release, Credited, Released, Refunded
  <2> QED BY <2>7 DEF Contract!Next
<1>5. CASE OnRefund(w)
  <2> DEFINE r == call[w].ref
             p == PendingDeduction(w)
             a == AvailableDeduction(w)
  <2>1. local[w] = row /\ r \in Refs /\ call[w].amount \in Nat /\ call[w].amount > 0
    BY <1>5, Locked DEF OnRefund, Body, RefEvents
  <2>2. /\ p \in 0 .. row.pending /\ a \in 0 .. row.available
        /\ p + a = call[w].amount
        /\ a > 0 => p = row.pending
    BY <1>2, <1>5, <2>1 DEF OnRefund, PendingDeduction, AvailableDeduction, Smaller, Row
  <2>3. /\ recorded' = [recorded EXCEPT !["refund"][r] = call[w].amount]
        /\ recorded["refund"][r] = 0
        /\ row' = Synced([row EXCEPT !.pending = @ - p, !.available = @ - a])
    BY <1>2, <1>5, <2>1 DEF OnRefund, Exists, RefEvents
  <2> HIDE DEF p, a
  <2>4. /\ Refunded' = Refunded \cup {r} /\ r \notin Refunded
        /\ Credited' = Credited /\ Released' = Released
    BY <1>2, <2>1, <2>3 DEF Credited, Released, Refunded, RefEvents
  <2>5. row'.pending = row.pending - p /\ row'.available = row.available - a
    BY <1>2, <2>2, <2>3 DEF Synced, Row
  <2>6. /\ row'.pending \in 0 .. row.pending /\ row'.available \in 0 .. row.available
        /\ row'.pending + row'.available < row.pending + row.available
        /\ row'.available < row.available => row'.pending = 0
    BY <1>2, <2>1, <2>2, <2>5 DEF Row
  <2>7. WithStatus("approved")' = WithStatus("approved") /\ WithStatus("paid")' = WithStatus("paid")
    BY <1>5 DEF OnRefund, WithStatus
  <2>8. PICK q \in Refs : q = r
    BY <2>1
  <2>9. Contract!Deduct(q)
    BY <2>4, <2>6, <2>7, <2>8 DEF Contract!Deduct, Credited, Released, Refunded
  <2> QED BY <2>9 DEF Contract!Next
<1>6. CASE CreateWithdrawalRequest(w)
  <2>1. /\ row' = row /\ recorded' = recorded
        /\ withdrawal' = [withdrawal EXCEPT ![call[w].id] =
                            [status |-> "pending", amount |-> call[w].amount]]
        /\ withdrawal[call[w].id].status = "none"
    BY <1>6, Locked DEF CreateWithdrawalRequest, Body
  <2>2. WithStatus("approved")' = WithStatus("approved") /\ WithStatus("paid")' = WithStatus("paid")
    BY <1>2, <2>1 DEF WithStatus
  <2> QED BY <2>1, <2>2 DEF Contract!contractVars
<1>7. CASE ApproveWithdrawal(w) \/ RejectWithdrawal(w)
  <2> DEFINE d == call[w].id
  <2>1. d \in Withdrawals /\ withdrawal[d].status = "pending"
    BY <1>7, Locked DEF ApproveWithdrawal, RejectWithdrawal, Body, Decisions, Required
  <2>2. CASE ApproveWithdrawal(w)
    <3>1. /\ row' = row /\ recorded' = recorded
          /\ withdrawal' = [withdrawal EXCEPT ![d].status = "approved"]
      BY <2>2 DEF ApproveWithdrawal
    <3>2. /\ WithStatus("approved")' = WithStatus("approved") \cup {d}
          /\ WithStatus("paid")' = WithStatus("paid")
          /\ d \notin WithStatus("approved") \cup WithStatus("paid")
      BY <1>2, <2>1, <3>1 DEF WithStatus
    <3>3. Contract!Approve(d)
      BY <3>1, <3>2 DEF Contract!Approve
    <3> QED BY <2>1, <3>3 DEF Contract!Next
  <2>3. CASE RejectWithdrawal(w)
    <3>1. /\ row' = row /\ recorded' = recorded
          /\ withdrawal' = [withdrawal EXCEPT ![d].status = "rejected"]
      BY <2>3 DEF RejectWithdrawal
    <3>2. WithStatus("approved")' = WithStatus("approved") /\ WithStatus("paid")' = WithStatus("paid")
      BY <1>2, <2>1, <3>1 DEF WithStatus
    <3> QED BY <3>1, <3>2 DEF Contract!contractVars
  <2> QED BY <1>7, <2>2, <2>3
<1>8. CASE MarkWithdrawalPaid(w)
  <2> DEFINE d == call[w].id
             x == withdrawal[d].amount
  <2>1. /\ d \in Withdrawals /\ withdrawal[d].status = "approved" /\ local[w] = row
    BY <1>8, Locked DEF MarkWithdrawalPaid, Body, Decisions, Required
  <2>2. /\ x \in Nat /\ x > 0 /\ x <= row.available
        /\ recorded' = recorded
        /\ row' = Synced([row EXCEPT !.available = @ - x])
        /\ withdrawal' = [withdrawal EXCEPT ![d].status = "paid"]
    BY <1>2, <1>8, <2>1 DEF MarkWithdrawalPaid, IInv, RequestsArePositive
  <2> HIDE DEF x
  <2>3. row'.available \in 0 .. (row.available - 1) /\ row'.pending = row.pending
    BY <1>2, <2>2 DEF Synced, Row
  <2>4. /\ WithStatus("approved")' = WithStatus("approved") \ {d}
        /\ WithStatus("paid")' = WithStatus("paid") \cup {d}
        /\ d \in WithStatus("approved")
    BY <1>2, <2>1, <2>2 DEF WithStatus
  <2>5. Contract!PayOut(d)
    BY <2>2, <2>3, <2>4 DEF Contract!PayOut
  <2> QED BY <2>1, <2>5 DEF Contract!Next
<1>9. CASE AlreadyDone(w)
  <2>1. row' = row
    BY <1>9, Locked DEF AlreadyDone, RefEvents
  <2> QED BY <1>1, <1>9, <2>1 DEF AlreadyDone
<1> QED BY <1>1, <1>3, <1>4, <1>5, <1>6, <1>7, <1>8, <1>9
        DEF Calls, Call, GetWallet, Lock, LockWallet, LockRequest, Perform,
            Refuse, Crash, Raise, tables

\* Every commit of the service is a step of WalletContract, and every other step
\* leaves what the contract speaks of alone.
THEOREM ImplementsContract == Spec => KeepsContract
<1>1. Spec => Contract!Init /\ [][Contract!Next]_(Contract!contractVars)
  BY InitContract, NextContract, Invariance, PTL DEF Spec
<1> QED BY <1>1, PTL DEF KeepsContract, Contract!Spec

-----------------------------------------------------------------------------
(* The wallet with unlocked adjustments and repairs: no operation overdraws it *)

AdjustTypeOK ==
  /\ row \in Row
  /\ recorded \in [RefEvents -> [Refs -> Nat]]
  /\ BooksTyped
  /\ walletLock \in Workers \cup {NoWorker}
  /\ requestLock \in [Withdrawals -> Workers \cup {NoWorker}]
  /\ pc \in [Workers -> {"idle", "get_wallet", "repair", "lock_request", "lock_wallet", "locked"}]
  /\ local \in [Workers -> Row]
  /\ instance \in [Workers -> [stage: {"none", "repair", "ready"}, wallet: Row]]
  /\ adjustments \in Nat

Covered(wallet) == wallet.available >= 0 /\ wallet.pending >= 0

\* A step of get_or_create_wallet belongs to a call that is not a decision.
StepFits(w) ==
  /\ pc[w] \in {"get_wallet", "repair"} => call[w].op \in RefEvents \cup {"request"}
  /\ pc[w] = "lock_request" => call[w].op \in Decisions
  /\ call[w].op \in RefEvents => call[w].amount > 0

\* The copies go stale, and none of them is overdrawn: what is computed on a copy
\* that covers the deduction and then written covers it too.
AdjustIInv ==
  /\ AdjustTypeOK
  /\ NoOverdraft
  /\ \A w \in Workers :
       Covered(local[w]) /\ Covered(instance[w].wallet) /\ StepFits(w) /\ RequestIsHeld(w)

\* The end of a transaction that wrote a row in which nothing is overdrawn, and only
\* requests that it held or made.
LEMMA AdjustReturn ==
  ASSUME AdjustIInv, NEW w \in Workers, Return(w), UNCHANGED adjustVars,
         row' \in Row, Covered(row'), recorded' \in [RefEvents -> [Refs -> Nat]],
         posted' \in [Events -> [Buckets -> Int]],
         withdrawal' \in [Withdrawals -> [status: Statuses, amount: Nat]],
         \A d \in Withdrawals :
           \/ withdrawal'[d] = withdrawal[d]
           \/ requestLock[d] = w
           \/ withdrawal[d].status = "none"
  PROVE  AdjustIInv'
<1>1. AdjustTypeOK
  BY DEF AdjustIInv
<1>2. EmptyRow \in Row /\ Covered(EmptyRow)
  BY DEF EmptyRow, Row, Covered
<1>3. AdjustTypeOK'
  BY <1>1, <1>2 DEF AdjustTypeOK, BooksTyped, Return, adjustVars
<1>4. NoOverdraft'
  BY DEF NoOverdraft, Covered
<1>5. ASSUME NEW v \in Workers
      PROVE  (Covered(local[v]) /\ Covered(instance[v].wallet) /\ StepFits(v) /\ RequestIsHeld(v))'
  <2>1. Covered(local[v]) /\ Covered(instance[v].wallet) /\ StepFits(v) /\ RequestIsHeld(v)
    BY DEF AdjustIInv
  <2>2. CASE v = w
    <3>1. pc'[v] = "idle" /\ call'[v] = NoCall /\ local'[v] = EmptyRow /\ instance'[v] = instance[v]
      BY <1>1, <2>2 DEF Return, AdjustTypeOK, BooksTyped, adjustVars
    <3> QED BY <1>2, <2>1, <3>1 DEF StepFits, RequestIsHeld, NoCall, RefEvents, Covered
  <2>3. CASE v # w
    <3>1. /\ pc'[v] = pc[v] /\ call'[v] = call[v] /\ local'[v] = local[v]
          /\ instance'[v] = instance[v]
          /\ \A d \in Withdrawals : requestLock[d] = v => requestLock'[d] = v
      BY <1>1, <2>3 DEF Return, AdjustTypeOK, BooksTyped, adjustVars
    <3>2. RequestIsHeld(v)'
      <4> SUFFICES ASSUME pc[v] \in {"lock_wallet", "locked"}, call[v].op \in Decisions
                   PROVE  /\ requestLock'[call[v].id] = v
                          /\ withdrawal'[call[v].id].status = Required(call[v].op)
        BY <3>1 DEF RequestIsHeld
      <4>1. /\ call[v].id \in Withdrawals
            /\ requestLock[call[v].id] = v
            /\ withdrawal[call[v].id].status = Required(call[v].op)
        BY <1>1, <2>1, CallTyped DEF RequestIsHeld, AdjustTypeOK
      <4>2. withdrawal'[call[v].id] = withdrawal[call[v].id]
        BY <2>3, <4>1 DEF Required
      <4> QED BY <3>1, <4>1, <4>2
    <3> QED BY <2>1, <3>1, <3>2 DEF StepFits, Covered
  <2> QED BY <2>2, <2>3
<1> QED BY <1>3, <1>4, <1>5 DEF AdjustIInv

\* A step of one worker inside a transaction that writes no table.
LEMMA AdjustStep ==
  ASSUME AdjustIInv, AdjustTypeOK', NEW w \in Workers, UNCHANGED tables, UNCHANGED adjustVars,
         \A v \in Workers \ {w} :
           /\ pc'[v] = pc[v] /\ call'[v] = call[v] /\ local'[v] = local[v]
           /\ \A d \in Withdrawals : requestLock[d] = v => requestLock'[d] = v,
         Covered(local'[w]), StepFits(w)', RequestIsHeld(w)'
  PROVE  AdjustIInv'
<1>1. NoOverdraft'
  BY DEF AdjustIInv, NoOverdraft, tables
<1>2. ASSUME NEW v \in Workers, v # w
      PROVE  Covered(local'[v]) /\ StepFits(v)' /\ RequestIsHeld(v)'
  <2>1. AdjustTypeOK /\ Covered(local[v]) /\ StepFits(v) /\ RequestIsHeld(v)
    BY DEF AdjustIInv
  <2>2. /\ pc'[v] = pc[v] /\ call'[v] = call[v] /\ local'[v] = local[v]
        /\ \A d \in Withdrawals : requestLock[d] = v => requestLock'[d] = v
    BY <1>2
  <2>3. call[v].op \in Decisions => call[v].id \in Withdrawals
    BY <2>1, CallTyped DEF AdjustTypeOK
  <2> QED BY <2>1, <2>2, <2>3 DEF StepFits, RequestIsHeld, tables
<1>3. \A v \in Workers : Covered(instance'[v].wallet)
  BY DEF AdjustIInv, adjustVars
<1> QED BY <1>1, <1>2, <1>3 DEF AdjustIInv

\* A step outside a transaction.
LEMMA OutsideStep ==
  ASSUME AdjustIInv, AdjustTypeOK', UNCHANGED <<withdrawal, requestLock, pc, call, local>>,
         NoOverdraft', \A v \in Workers : Covered(instance'[v].wallet)
  PROVE  AdjustIInv'
BY DEF AdjustIInv, StepFits, RequestIsHeld, Covered

LEMMA EnterStep ==
  ASSUME AdjustIInv, NEW w \in Workers, Calls(w) \/ GetWallet(w) \/ LockWallet(w),
         UNCHANGED adjustVars
  PROVE  AdjustIInv'
<1>1. AdjustTypeOK /\ Covered(local[w]) /\ StepFits(w) /\ RequestIsHeld(w) /\ Covered(row)
  BY DEF AdjustIInv, NoOverdraft, Covered
<1>2. CASE Calls(w)
  <2>1. PICK c \in RefCalls \cup RequestCalls \cup DecisionCalls : Call(w, c)
    BY <1>2 DEF Calls
  <2>2. \/ c.op \in RefEvents \cup {"request"} /\ c.op \notin Decisions
        \/ c.op \in Decisions /\ c.op \notin RefEvents \cup {"request"}
    BY DEF RefCalls, RequestCalls, DecisionCalls, RefEvents, Decisions
  <2>3. AdjustTypeOK'
    BY <1>1, <2>1 DEF Call, AdjustTypeOK, BooksTyped, adjustVars
  <2>4. /\ call'[w] = c /\ local'[w] = local[w]
        /\ pc'[w] = IF c.op \in Decisions THEN "lock_request" ELSE "get_wallet"
        /\ c.op \notin Decisions => c.amount > 0
    BY <1>1, <2>1 DEF Call, AdjustTypeOK, BooksTyped
  <2>5. StepFits(w)' /\ RequestIsHeld(w)'
    BY <2>2, <2>4 DEF StepFits, RequestIsHeld
  <2>6. /\ UNCHANGED tables /\ requestLock' = requestLock
        /\ \A v \in Workers \ {w} : pc'[v] = pc[v] /\ call'[v] = call[v] /\ local'[v] = local[v]
    BY <1>1, <2>1 DEF Call, tables, AdjustTypeOK, BooksTyped
  <2> QED BY <1>1, <2>3, <2>4, <2>5, <2>6, AdjustStep
<1>3. CASE GetWallet(w)
  <2>1. AdjustTypeOK'
    BY <1>1, <1>3 DEF GetWallet, AdjustTypeOK, BooksTyped, adjustVars
  <2>2. /\ call'[w] = call[w] /\ local'[w] = row /\ pc'[w] = "lock_wallet"
        /\ call[w].op \in RefEvents \cup {"request"}
    BY <1>1, <1>3 DEF GetWallet, AdjustTypeOK, StepFits
  <2>3. StepFits(w)' /\ RequestIsHeld(w)'
    BY <1>1, <2>2 DEF StepFits, RequestIsHeld, RefEvents, Decisions
  <2>4. /\ UNCHANGED tables /\ requestLock' = requestLock
        /\ \A v \in Workers \ {w} : pc'[v] = pc[v] /\ call'[v] = call[v] /\ local'[v] = local[v]
    BY <1>1, <1>3 DEF GetWallet, tables, AdjustTypeOK
  <2> QED BY <1>1, <2>1, <2>2, <2>3, <2>4, AdjustStep
<1>4. CASE LockWallet(w)
  <2>1. AdjustTypeOK'
    BY <1>1, <1>4 DEF LockWallet, AdjustTypeOK, BooksTyped, adjustVars
  <2>2. /\ call'[w] = call[w] /\ local'[w] = row /\ pc'[w] = "locked" /\ pc[w] = "lock_wallet"
        /\ withdrawal' = withdrawal /\ requestLock' = requestLock
    BY <1>1, <1>4 DEF LockWallet, AdjustTypeOK
  <2>3. StepFits(w)' /\ RequestIsHeld(w)'
    BY <1>1, <2>2 DEF StepFits, RequestIsHeld
  <2>4. /\ UNCHANGED tables
        /\ \A v \in Workers \ {w} : pc'[v] = pc[v] /\ call'[v] = call[v] /\ local'[v] = local[v]
    BY <1>1, <1>4 DEF LockWallet, tables, AdjustTypeOK
  <2> QED BY <1>1, <2>1, <2>2, <2>3, <2>4, AdjustStep
<1> QED BY <1>2, <1>3, <1>4

LEMMA AdjustNothingWritten ==
  ASSUME AdjustIInv, NEW w \in Workers, Raise(w), UNCHANGED adjustVars
  PROVE  AdjustIInv'
BY AdjustReturn DEF Raise, tables, AdjustIInv, AdjustTypeOK, BooksTyped, NoOverdraft, Covered

LEMMA AdjustLockRequest ==
  ASSUME AdjustIInv, NEW w \in Workers, LockRequest(w), UNCHANGED adjustVars
  PROVE  AdjustIInv'
<1>1. AdjustTypeOK /\ Covered(local[w]) /\ StepFits(w)
  BY DEF AdjustIInv
<1> DEFINE d == call[w].id
<1>2. call[w].op \in Decisions /\ d \in Withdrawals /\ pc[w] = "lock_request"
  BY <1>1, CallTyped DEF StepFits, LockRequest, AdjustTypeOK
<1>3. CASE Raise(w)
  BY <1>3, AdjustNothingWritten
<1>4. CASE ~Raise(w)
  <2>1. /\ requestLock[d] = NoWorker /\ withdrawal[d].status = Required(call[w].op)
        /\ requestLock' = [requestLock EXCEPT ![d] = w]
        /\ pc' = [pc EXCEPT ![w] = IF call[w].op = "reject" THEN "locked" ELSE "lock_wallet"]
        /\ UNCHANGED <<row, recorded, posted, withdrawal, walletLock, call, local>>
    BY <1>4 DEF LockRequest
  <2>2. AdjustTypeOK'
    BY <1>1, <1>2, <2>1 DEF AdjustTypeOK, BooksTyped, adjustVars
  <2>3. StepFits(w)' /\ RequestIsHeld(w)'
    BY <1>1, <1>2, <2>1 DEF AdjustTypeOK, StepFits, RequestIsHeld
  <2> QED BY <1>1, <1>2, <2>1, <2>2, <2>3, AdjustStep, NoWorkerAssumption DEF AdjustTypeOK, tables
<1> QED BY <1>3, <1>4

\* What a worker knows of its copy and its call when it runs a body.
LEMMA AdjustLocked ==
  ASSUME AdjustIInv, NEW w \in Workers, pc[w] = "locked"
  PROVE  /\ local[w] \in Row /\ Covered(local[w])
         /\ recorded \in [RefEvents -> [Refs -> Nat]]
         /\ posted \in [Events -> [Buckets -> Int]]
         /\ withdrawal \in [Withdrawals -> [status: Statuses, amount: Nat]]
         /\ call[w].op \in RefEvents =>
              call[w].ref \in Refs /\ call[w].amount \in Nat /\ call[w].amount > 0
         /\ call[w].op = "request" => call[w].id \in Withdrawals /\ call[w].amount \in Nat
         /\ call[w].op \in Decisions =>
              /\ call[w].id \in Withdrawals
              /\ requestLock[call[w].id] = w
              /\ withdrawal[call[w].id].status = Required(call[w].op)
<1>1. AdjustTypeOK /\ BooksTyped /\ Covered(local[w]) /\ StepFits(w) /\ RequestIsHeld(w)
  BY DEF AdjustIInv, AdjustTypeOK
<1>2. /\ local[w] \in Row /\ recorded \in [RefEvents -> [Refs -> Nat]]
      /\ posted \in [Events -> [Buckets -> Int]]
      /\ withdrawal \in [Withdrawals -> [status: Statuses, amount: Nat]]
  BY <1>1 DEF AdjustTypeOK, BooksTyped
<1> QED BY <1>1, <1>2, CallTyped DEF StepFits, RequestIsHeld

LEMMA AdjustEvents ==
  ASSUME AdjustIInv, NEW w \in Workers, OnOrderPaid(w) \/ OnOrderDelivered(w) \/ OnRefund(w),
         UNCHANGED adjustVars
  PROVE  AdjustIInv'
<1> DEFINE r == call[w].ref
           x == call[w].amount
<1>1. /\ local[w] \in Row /\ local[w].pending >= 0 /\ local[w].available >= 0
      /\ recorded \in [RefEvents -> [Refs -> Nat]]
      /\ posted \in [Events -> [Buckets -> Int]]
      /\ withdrawal \in [Withdrawals -> [status: Statuses, amount: Nat]]
      /\ r \in Refs /\ x \in Nat /\ x > 0
  BY AdjustLocked DEF OnOrderPaid, OnOrderDelivered, OnRefund, Body, RefEvents, Covered
<1>2. withdrawal' = withdrawal /\ Return(w)
  BY DEF OnOrderPaid, OnOrderDelivered, OnRefund
<1>3. CASE OnOrderPaid(w)
  <2>1. /\ row' = Synced([local[w] EXCEPT !.pending = @ + x])
        /\ recorded' = [recorded EXCEPT !["order_paid"][r] = x]
        /\ posted' = [posted EXCEPT !["order_paid"]["pending"] = @ + x]
    BY <1>3 DEF OnOrderPaid
  <2>2. local[w].pending + x \in Int
    BY <1>1 DEF Row
  <2>3. row' \in Row
    BY <1>1, <2>1, <2>2, SyncedRow
  <2>4. Covered(row')
    BY <1>1, <2>1 DEF Covered, Synced, Row
  <2>5. recorded' \in [RefEvents -> [Refs -> Nat]]
    BY <1>1, <2>1 DEF RefEvents
  <2>6. posted' \in [Events -> [Buckets -> Int]]
    BY <1>1, <2>1 DEF Events, RefEvents, Buckets
  <2> QED BY <1>1, <1>2, <2>3, <2>4, <2>5, <2>6, AdjustReturn
<1>4. CASE OnOrderDelivered(w)
  <2> DEFINE y == Releasable(w)
  <2>1. y \in Nat /\ y <= local[w].pending
    BY <1>1 DEF Releasable, Smaller, Row
  <2>2. /\ row' = Synced([local[w] EXCEPT !.pending = @ - y, !.available = @ + y])
        /\ recorded' = [recorded EXCEPT !["order_delivered"][r] = y]
        /\ posted' = [posted EXCEPT !["order_delivered"]["pending"] = @ - y,
                                    !["order_delivered"]["available"] = @ + y]
    BY <1>4 DEF OnOrderDelivered
  <2> HIDE DEF y
  <2>3. local[w].pending - y \in Int /\ local[w].available + y \in Int
    BY <1>1, <2>1 DEF Row
  <2>4. row' \in Row
    BY <1>1, <2>2, <2>3, SyncedRow
  <2>5. Covered(row')
    BY <1>1, <2>1, <2>2 DEF Covered, Synced, Row
  <2>6. recorded' \in [RefEvents -> [Refs -> Nat]]
    BY <1>1, <2>1, <2>2 DEF RefEvents
  <2>7. posted' \in [Events -> [Buckets -> Int]]
    BY <1>1, <2>1, <2>2 DEF Events, RefEvents, Buckets
  <2> QED BY <1>1, <1>2, <2>4, <2>5, <2>6, <2>7, AdjustReturn
<1>5. CASE OnRefund(w)
  <2> DEFINE p == PendingDeduction(w)
             a == AvailableDeduction(w)
  <2>1. p \in Int /\ a \in Int /\ p <= local[w].pending /\ a <= local[w].available
    BY <1>1, <1>5 DEF OnRefund, PendingDeduction, AvailableDeduction, Smaller, Row
  <2>2. /\ row' = Synced([local[w] EXCEPT !.pending = @ - p, !.available = @ - a])
        /\ recorded' = [recorded EXCEPT !["refund"][r] = x]
        /\ posted' = [posted EXCEPT !["refund"]["pending"] = @ - p,
                                    !["refund"]["available"] = @ - a]
    BY <1>5 DEF OnRefund
  <2> HIDE DEF p, a
  <2>3. local[w].pending - p \in Int /\ local[w].available - a \in Int
    BY <1>1, <2>1 DEF Row
  <2>4. row' \in Row
    BY <1>1, <2>2, <2>3, SyncedRow
  <2>5. Covered(row')
    BY <1>1, <2>1, <2>2 DEF Covered, Synced, Row
  <2>6. recorded' \in [RefEvents -> [Refs -> Nat]]
    BY <1>1, <2>2 DEF RefEvents
  <2>7. posted' \in [Events -> [Buckets -> Int]]
    BY <1>1, <2>1, <2>2 DEF Events, RefEvents, Buckets
  <2> QED BY <1>1, <1>2, <2>4, <2>5, <2>6, <2>7, AdjustReturn
<1> QED BY <1>3, <1>4, <1>5

LEMMA AdjustRequests ==
  ASSUME AdjustIInv, NEW w \in Workers, UNCHANGED adjustVars,
         \/ CreateWithdrawalRequest(w) \/ ApproveWithdrawal(w)
         \/ RejectWithdrawal(w) \/ MarkWithdrawalPaid(w)
  PROVE  AdjustIInv'
<1> USE DEF Decisions, Required
<1> DEFINE d == call[w].id
<1>1. /\ local[w] \in Row /\ Covered(local[w])
      /\ row \in Row /\ Covered(row)
      /\ recorded \in [RefEvents -> [Refs -> Nat]]
      /\ posted \in [Events -> [Buckets -> Int]]
      /\ withdrawal \in [Withdrawals -> [status: Statuses, amount: Nat]]
      /\ d \in Withdrawals
  BY AdjustLocked DEF CreateWithdrawalRequest, ApproveWithdrawal, RejectWithdrawal,
                      MarkWithdrawalPaid, Body, AdjustIInv, AdjustTypeOK, NoOverdraft, Covered
<1>2. recorded' = recorded /\ Return(w)
  BY DEF CreateWithdrawalRequest, ApproveWithdrawal, RejectWithdrawal, MarkWithdrawalPaid
<1>3. CASE CreateWithdrawalRequest(w)
  <2>1. /\ row' = local[w] /\ posted' = posted /\ withdrawal[d].status = "none"
        /\ withdrawal' = [withdrawal EXCEPT ![d] = [status |-> "pending", amount |-> call[w].amount]]
    BY <1>3 DEF CreateWithdrawalRequest
  <2>2. call[w].amount \in Nat
    BY <1>3, AdjustLocked DEF CreateWithdrawalRequest, Body
  <2>3. withdrawal' \in [Withdrawals -> [status: Statuses, amount: Nat]]
    BY <1>1, <2>1, <2>2 DEF Statuses
  <2>4. \A e \in Withdrawals : withdrawal'[e] = withdrawal[e] \/ withdrawal[e].status = "none"
    BY <1>1, <2>1
  <2> QED BY <1>1, <1>2, <2>1, <2>3, <2>4, AdjustReturn
<1>4. CASE ApproveWithdrawal(w) \/ RejectWithdrawal(w)
  <2>1. requestLock[d] = w
    BY <1>4, AdjustLocked DEF ApproveWithdrawal, RejectWithdrawal, Body
  <2>2. PICK s \in {"approved", "rejected"} :
          row' = row /\ posted' = posted /\ withdrawal' = [withdrawal EXCEPT ![d].status = s]
    BY <1>4 DEF ApproveWithdrawal, RejectWithdrawal
  <2>3. withdrawal' \in [Withdrawals -> [status: Statuses, amount: Nat]]
    BY <1>1, <2>2 DEF Statuses
  <2>4. \A e \in Withdrawals : withdrawal'[e] = withdrawal[e] \/ requestLock[e] = w
    BY <1>1, <2>1, <2>2
  <2> QED BY <1>1, <1>2, <2>2, <2>3, <2>4, AdjustReturn
<1>5. CASE MarkWithdrawalPaid(w)
  <2> DEFINE x == withdrawal[d].amount
  <2>1. requestLock[d] = w
    BY <1>5, AdjustLocked DEF MarkWithdrawalPaid, Body
  <2>2. /\ x \in Nat /\ x <= local[w].available
        /\ posted' = [posted EXCEPT !["withdrawal"]["available"] = @ - x]
        /\ row' = Synced([local[w] EXCEPT !.available = @ - x])
        /\ withdrawal' = [withdrawal EXCEPT ![d].status = "paid"]
    BY <1>1, <1>5 DEF MarkWithdrawalPaid
  <2> HIDE DEF x
  <2>3. local[w].available - x \in Int
    BY <1>1, <2>2 DEF Row
  <2>4. row' \in Row
    BY <1>1, <2>2, <2>3, SyncedRow
  <2>5. Covered(row')
    BY <1>1, <2>2 DEF Covered, Synced, Row
  <2>6. posted' \in [Events -> [Buckets -> Int]]
    BY <1>1, <2>2 DEF Events, RefEvents, Buckets
  <2>7. withdrawal' \in [Withdrawals -> [status: Statuses, amount: Nat]]
    BY <1>1, <2>2 DEF Statuses
  <2>8. \A e \in Withdrawals : withdrawal'[e] = withdrawal[e] \/ requestLock[e] = w
    BY <1>1, <2>1, <2>2
  <2> QED BY <1>1, <1>2, <2>4, <2>5, <2>6, <2>7, <2>8, AdjustReturn
<1> QED BY <1>3, <1>4, <1>5

LEMMA AdjustEarlyReturns ==
  ASSUME AdjustIInv, NEW w \in Workers, AlreadyDone(w) \/ Refuse(w) \/ Crash(w),
         UNCHANGED adjustVars
  PROVE  AdjustIInv'
<1>1. CASE AlreadyDone(w)
  <2>1. /\ local[w] \in Row /\ Covered(local[w])
        /\ recorded \in [RefEvents -> [Refs -> Nat]]
        /\ posted \in [Events -> [Buckets -> Int]]
        /\ withdrawal \in [Withdrawals -> [status: Statuses, amount: Nat]]
    BY <1>1, AdjustLocked DEF AlreadyDone
  <2> QED BY <1>1, <2>1, AdjustReturn DEF AlreadyDone
<1>2. CASE Refuse(w) \/ Crash(w)
  BY <1>2, AdjustNothingWritten DEF Refuse, Crash
<1> QED BY <1>1, <1>2

\* The repair of a balance that is out of step, in a transaction.
LEMMA RepairStep ==
  ASSUME AdjustIInv, NEW w \in Workers, FindOutOfStep(w) \/ RepairBalance(w)
  PROVE  AdjustIInv'
<1>1. /\ AdjustTypeOK /\ StepFits(w) /\ Covered(row) /\ row \in Row
      /\ local[w] \in Row /\ local \in [Workers -> Row]
  BY DEF AdjustIInv, NoOverdraft, Covered, AdjustTypeOK
<1>2. /\ UNCHANGED tables /\ requestLock' = requestLock /\ UNCHANGED adjustVars
      /\ \A v \in Workers \ {w} : pc'[v] = pc[v] /\ call'[v] = call[v] /\ local'[v] = local[v]
  BY <1>1 DEF FindOutOfStep, RepairBalance, AdjustTypeOK, locks
<1>3. call' = call /\ call[w].op \in RefEvents \cup {"request"}
  BY <1>1 DEF FindOutOfStep, RepairBalance, StepFits
<1>4. PICK q \in Row : local' = [local EXCEPT ![w] = q] /\ Covered(q)
  <2>1. CASE FindOutOfStep(w)
    BY <1>1, <2>1 DEF FindOutOfStep
  <2>2. CASE RepairBalance(w)
    <3> DEFINE b == Synced(local[w]).balance
    <3>1. b = local[w].available + local[w].pending
      BY <1>1 DEF Synced, Row
    <3>2. b \in Int
      BY <1>1, <3>1 DEF Row
    <3>3. local' = [local EXCEPT ![w] = [row EXCEPT !.balance = b]]
      BY <2>2 DEF RepairBalance
    <3> HIDE DEF b
    <3>4. [row EXCEPT !.balance = b] \in Row /\ Covered([row EXCEPT !.balance = b])
      BY <1>1, <3>2 DEF Row, Covered
    <3> QED BY <3>3, <3>4
  <2> QED BY <2>1, <2>2
<1>5. PICK s \in {"repair", "locked"} : pc' = [pc EXCEPT ![w] = s]
  BY DEF FindOutOfStep, RepairBalance
<1>6. walletLock' \in Workers \cup {NoWorker}
  BY <1>1 DEF FindOutOfStep, RepairBalance, AdjustTypeOK, locks
<1>7. AdjustTypeOK'
  BY <1>1, <1>2, <1>3, <1>4, <1>5, <1>6 DEF AdjustTypeOK, BooksTyped, tables, adjustVars
<1>8. Covered(local'[w]) /\ pc'[w] = s
  BY <1>1, <1>4, <1>5 DEF AdjustTypeOK
<1>9. StepFits(w)' /\ RequestIsHeld(w)'
  BY <1>1, <1>3, <1>8 DEF StepFits, RequestIsHeld, RefEvents, Decisions
<1> QED BY <1>2, <1>3, <1>7, <1>8, <1>9, AdjustStep

\* credit and debit, on the instance the caller fetched.
LEMMA AdjustmentStep ==
  ASSUME AdjustIInv, NEW w \in Workers, NEW x \in Int, Adjust(w, x),
         instance[w].wallet.available + x >= 0
  PROVE  AdjustIInv'
<1> DEFINE copy == instance[w].wallet
           a == copy.available + x
           wallet == Synced([copy EXCEPT !.available = a])
<1>1. /\ AdjustTypeOK /\ row \in Row /\ Covered(row) /\ copy \in Row /\ Covered(copy)
      /\ instance \in [Workers -> [stage: {"none", "repair", "ready"}, wallet: Row]]
      /\ posted \in [Events -> [Buckets -> Int]]
  BY DEF AdjustIInv, NoOverdraft, Covered, AdjustTypeOK, BooksTyped
<1>2. a \in Int /\ a >= 0
  BY <1>1 DEF Row
<1>3. /\ adjustments' = adjustments + 1
      /\ posted' = [posted EXCEPT !["adjustment"]["available"] = @ + x]
      /\ row' = [row EXCEPT !.available = wallet.available, !.balance = wallet.balance]
      /\ instance' = [instance EXCEPT ![w].wallet = wallet]
      /\ UNCHANGED <<recorded, withdrawal, walletLock, requestLock, pc, call, local>>
  BY <1>1 DEF Adjust
<1>4. wallet.available = a /\ wallet.pending = copy.pending
  BY <1>1 DEF Synced, Row
<1> HIDE DEF a
<1>5. wallet \in Row
  BY <1>1, <1>2, SyncedRow
<1> HIDE DEF wallet
<1>6. row' \in Row /\ NoOverdraft'
  BY <1>1, <1>2, <1>3, <1>4, <1>5 DEF Row, NoOverdraft, Covered
<1>7. posted' \in [Events -> [Buckets -> Int]]
  BY <1>1, <1>3 DEF Events, Buckets
<1>8. /\ instance' \in [Workers -> [stage: {"none", "repair", "ready"}, wallet: Row]]
      /\ \A v \in Workers : Covered(instance'[v].wallet)
  <2>1. Covered(wallet)
    BY <1>1, <1>2, <1>4 DEF Covered
  <2> QED BY <1>1, <1>3, <1>5, <2>1 DEF AdjustIInv
<1>9. AdjustTypeOK'
  BY <1>1, <1>3, <1>6, <1>7, <1>8 DEF AdjustTypeOK, BooksTyped
<1> QED BY <1>3, <1>6, <1>8, <1>9, OutsideStep

LEMMA InstanceStep ==
  ASSUME AdjustIInv, NEW w \in Workers, Fetch(w) \/ SaveBalance(w) \/ Forget(w)
  PROVE  AdjustIInv'
<1>1. /\ AdjustTypeOK /\ row \in Row /\ Covered(row)
      /\ instance \in [Workers -> [stage: {"none", "repair", "ready"}, wallet: Row]]
      /\ instance[w].wallet \in Row /\ Covered(instance[w].wallet)
  BY DEF AdjustIInv, NoOverdraft, Covered, AdjustTypeOK
<1>2. /\ UNCHANGED <<recorded, posted, withdrawal, walletLock, requestLock, pc, call, local,
                     adjustments>>
  BY DEF Fetch, SaveBalance, Forget, vars
<1>3. row' \in Row /\ Covered(row')
  <2>1. CASE SaveBalance(w)
    <3> DEFINE copy == instance[w].wallet
               b == Synced(copy).balance
    <3>1. b = copy.available + copy.pending
      BY <1>1 DEF Synced, Row
    <3>2. b \in Int /\ row' = [row EXCEPT !.balance = b]
      BY <1>1, <2>1, <3>1 DEF SaveBalance, Row
    <3> HIDE DEF b
    <3> QED BY <1>1, <3>2 DEF Row, Covered
  <2>2. CASE Fetch(w) \/ Forget(w)
    BY <1>1, <2>2 DEF Fetch, Forget, vars
  <2> QED BY <2>1, <2>2
<1>4. PICK s \in {"none", "repair", "ready"}, q \in Row :
        instance' = [instance EXCEPT ![w] = [stage |-> s, wallet |-> q]] /\ Covered(q)
  <2>1. CASE Fetch(w)
    BY <1>1, <2>1 DEF Fetch
  <2>2. CASE SaveBalance(w)
    <3> DEFINE copy == instance[w].wallet
               q == Synced(copy)
    <3>1. q.available = copy.available /\ q.pending = copy.pending
      BY <1>1 DEF Synced, Row
    <3>2. copy.available \in Int /\ copy = [copy EXCEPT !.available = copy.available]
      BY <1>1 DEF Row
    <3>3. q \in Row
      BY <1>1, <3>2, SyncedRow
    <3>4. instance' = [instance EXCEPT ![w] = [stage |-> "ready", wallet |-> q]]
      BY <2>2 DEF SaveBalance
    <3>5. Covered(q)
      BY <1>1, <3>1 DEF Covered
    <3> QED BY <3>3, <3>4, <3>5
  <2>3. CASE Forget(w)
    <3>1. EmptyRow \in Row /\ Covered(EmptyRow)
      BY DEF EmptyRow, Row, Covered
    <3> QED BY <2>3, <3>1 DEF Forget, NoInstance
  <2> QED BY <2>1, <2>2, <2>3
<1>5. /\ instance' \in [Workers -> [stage: {"none", "repair", "ready"}, wallet: Row]]
      /\ \A v \in Workers : Covered(instance'[v].wallet)
  BY <1>1, <1>4 DEF AdjustIInv
<1>6. AdjustTypeOK' /\ NoOverdraft'
  BY <1>1, <1>2, <1>3, <1>5 DEF AdjustTypeOK, BooksTyped, NoOverdraft, Covered
<1> QED BY <1>2, <1>5, <1>6, OutsideStep

LEMMA AdjustInitIInv == AdjustInit => AdjustIInv
<1> SUFFICES ASSUME AdjustInit PROVE AdjustIInv
  OBVIOUS
<1>1. PICK b \in LegacyBalances : Legacy(b)
  BY DEF AdjustInit
<1>2. b \in Nat
  BY LegacyBalancesAssumption
<1>3. row = [available |-> 0, pending |-> 0, balance |-> b]
  BY <1>1 DEF Legacy, EmptyRow
<1>4. posted \in [Events -> [Buckets -> Int]]
  BY <1>1, <1>2 DEF Legacy
<1>5. AdjustTypeOK
  BY <1>2, <1>3, <1>4 DEF AdjustInit, NothingDone, AdjustTypeOK, BooksTyped, Row, EmptyRow,
                          NoInstance, Statuses
<1>6. NoOverdraft
  BY <1>3 DEF NoOverdraft
<1>7. ASSUME NEW w \in Workers
      PROVE  Covered(local[w]) /\ Covered(instance[w].wallet) /\ StepFits(w) /\ RequestIsHeld(w)
  BY DEF AdjustInit, NothingDone, NoInstance, Covered, EmptyRow, StepFits, RequestIsHeld, NoCall,
         RefEvents
<1> QED BY <1>5, <1>6, <1>7 DEF AdjustIInv

LEMMA AdjustNextIInv == AdjustIInv /\ [AdjustNext]_<<vars, adjustVars>> => AdjustIInv'
<1> SUFFICES ASSUME AdjustIInv, [AdjustNext]_<<vars, adjustVars>> PROVE AdjustIInv'
  OBVIOUS
<1>1. CASE UNCHANGED <<vars, adjustVars>>
  BY <1>1 DEF vars, adjustVars, AdjustIInv, AdjustTypeOK, BooksTyped, NoOverdraft, Covered,
              StepFits, RequestIsHeld
<1>2. ASSUME NEW w \in Workers, Serve(w) PROVE AdjustIInv'
  <2>1. UNCHANGED adjustVars
    BY <1>2 DEF Serve
  <2> QED BY <1>2, <2>1, EnterStep, AdjustLockRequest, AdjustEvents, AdjustRequests,
             AdjustEarlyReturns DEF Serve, Lock, Perform
<1>3. ASSUME NEW w \in Workers, NEW x \in Amounts, Credit(w, x) \/ Debit(w, x)
      PROVE  AdjustIInv'
  <2>1. x \in Int /\ -x \in Int
    BY AmountsAssumption
  <2>2. instance[w].wallet.available \in Int /\ instance[w].wallet.available >= 0
    BY DEF AdjustIInv, AdjustTypeOK, Row, Covered
  <2>3. CASE Credit(w, x)
    BY <2>1, <2>2, <2>3, AdjustmentStep DEF Credit
  <2>4. CASE Debit(w, x)
    BY <2>1, <2>2, <2>4, AdjustmentStep DEF Debit
  <2> QED BY <1>3, <2>3, <2>4
<1> QED BY <1>1, <1>2, <1>3, RepairStep, InstanceStep DEF AdjustNext

THEOREM AdjustInvariance == AdjustSpec => []AdjustIInv
<1> QED BY AdjustInitIInv, AdjustNextIInv, PTL DEF AdjustSpec

\* Neither bucket is ever overdrawn, although credit and debit neither lock the row
\* nor read it again, and whatever the wallet held before the buckets existed.
THEOREM NeverOverdrawn == AdjustSpec => []NoOverdraft
<1>1. AdjustIInv => NoOverdraft
  BY DEF AdjustIInv
<1> QED BY <1>1, AdjustInvariance, PTL

\* Adjustments add no transaction of the other events and touch no request.
LEMMA AdjustmentsTouchNoRequest ==
  ASSUME AdjustIInv, NEW w \in Workers,
         \/ FindOutOfStep(w) \/ RepairBalance(w) \/ Fetch(w) \/ SaveBalance(w) \/ Forget(w)
         \/ \E x \in Amounts : Credit(w, x) \/ Debit(w, x)
  PROVE  /\ UNCHANGED <<recorded, withdrawal>>
         /\ \A e \in RefEvents \cup {"withdrawal"} : posted'[e] = posted[e]
<1>1. posted \in [Events -> [Buckets -> Int]]
  BY DEF AdjustIInv, AdjustTypeOK, BooksTyped
<1>2. CASE \E x \in Amounts : Credit(w, x) \/ Debit(w, x)
  BY <1>1, <1>2 DEF Credit, Debit, Adjust, Events, RefEvents
<1>3. CASE FindOutOfStep(w) \/ RepairBalance(w) \/ Fetch(w) \/ SaveBalance(w) \/ Forget(w)
  BY <1>3 DEF FindOutOfStep, RepairBalance, Fetch, SaveBalance, Forget, tables, vars
<1> QED BY <1>2, <1>3

LEMMA AdjustNextPayouts ==
  AdjustIInv /\ PayoutsDebitOnce /\ [AdjustNext]_<<vars, adjustVars>> => PayoutsDebitOnce'
<1> SUFFICES ASSUME AdjustIInv, PayoutsDebitOnce, [AdjustNext]_<<vars, adjustVars>>
             PROVE  PayoutsDebitOnce'
  OBVIOUS
<1>1. CASE UNCHANGED <<vars, adjustVars>>
  BY <1>1, PayoutsStay DEF vars, WithStatus
<1>2. ASSUME NEW w \in Workers, Serve(w) PROVE PayoutsDebitOnce'
  BY <1>2, ServiceKeepsPayouts DEF Serve, AdjustIInv, AdjustTypeOK, RequestIsHeld
<1>3. ASSUME NEW w \in Workers,
             \/ FindOutOfStep(w) \/ RepairBalance(w) \/ Fetch(w) \/ SaveBalance(w) \/ Forget(w)
             \/ \E x \in Amounts : Credit(w, x) \/ Debit(w, x)
      PROVE  PayoutsDebitOnce'
  <2>1. withdrawal' = withdrawal /\ posted'["withdrawal"] = posted["withdrawal"]
    BY <1>3, AdjustmentsTouchNoRequest
  <2> QED BY <2>1, PayoutsStay DEF WithStatus
<1> QED BY <1>1, <1>2, <1>3 DEF AdjustNext

\* Adjustments, repairs and the balance from before the buckets change nothing of it:
\* each withdrawal marked paid has still been debited exactly once.
THEOREM AdjustedPayoutsAreDebitedOnce == AdjustSpec => []PayoutsDebitOnce
<1>1. AdjustInit => PayoutsDebitOnce
  BY InitPayouts DEF AdjustInit, Legacy, NothingDone, WithStatus, Events, Buckets
<1> QED BY <1>1, AdjustInvariance, AdjustNextPayouts, PTL DEF AdjustSpec

LEMMA AdjustRecordsOnce ==
  AdjustIInv /\ [AdjustNext]_<<vars, adjustVars>> => [RecordedStep]_vars
<1> SUFFICES ASSUME AdjustIInv, AdjustNext PROVE RecordedStep
  BY DEF vars
<1>1. ASSUME NEW w \in Workers, Serve(w) PROVE RecordedStep
  BY <1>1, ServiceRecordsOnce DEF Serve, AdjustIInv, AdjustTypeOK, StepFits
<1>2. ASSUME NEW w \in Workers,
             \/ FindOutOfStep(w) \/ RepairBalance(w) \/ Fetch(w) \/ SaveBalance(w) \/ Forget(w)
             \/ \E x \in Amounts : Credit(w, x) \/ Debit(w, x)
      PROVE  RecordedStep
  BY <1>2, AdjustmentsTouchNoRequest DEF RecordedStep
<1> QED BY <1>1, <1>2 DEF AdjustNext

LEMMA AdjustKeepsLifecycle ==
  AdjustIInv /\ [AdjustNext]_<<vars, adjustVars>> => [LifecycleStep]_vars
<1> SUFFICES ASSUME AdjustIInv, AdjustNext PROVE LifecycleStep
  BY DEF vars
<1>1. ASSUME NEW w \in Workers, Serve(w) PROVE LifecycleStep
  BY <1>1, ServiceKeepsLifecycle DEF Serve, AdjustIInv, AdjustTypeOK
<1>2. ASSUME NEW w \in Workers,
             \/ FindOutOfStep(w) \/ RepairBalance(w) \/ Fetch(w) \/ SaveBalance(w) \/ Forget(w)
             \/ \E x \in Amounts : Credit(w, x) \/ Debit(w, x)
      PROVE  LifecycleStep
  BY <1>2, AdjustmentsTouchNoRequest DEF LifecycleStep
<1> QED BY <1>1, <1>2 DEF AdjustNext

\* The idempotency of the event handlers and the path of a withdrawal request do not
\* depend on the balance being in step, nor on credit and debit waiting for the row.
THEOREM AdjustmentsKeepTheHistory == AdjustSpec => RecordedOnce /\ RequestLifecycle
<1>1. AdjustSpec => [][RecordedStep]_vars
  BY AdjustInvariance, AdjustRecordsOnce, PTL DEF AdjustSpec
<1>2. AdjustSpec => [][LifecycleStep]_vars
  BY AdjustInvariance, AdjustKeepsLifecycle, PTL DEF AdjustSpec
<1> QED BY <1>1, <1>2, PTL DEF RecordedOnce, RecordedStep, RequestLifecycle, LifecycleStep
-----------------------------------------------------------------------------
(* What a lost update can cost: only the available bucket, only by adjustments *)

\* What the ledger has more than the row: 0 in a wallet that ledger_integrity_check
\* accepts.
MissingPending   == Computed("pending") - row.pending
MissingAvailable == Computed("available") - row.available

\* Under the row lock the buckets of the copy are those of the row; the balance need
\* not be, where a repair wrote it.
CopyHasBuckets(w) ==
  pc[w] = "locked" /\ call[w].op # "reject" =>
    /\ walletLock = w
    /\ local[w].available = row.available /\ local[w].pending = row.pending

\* A worker with an instance is outside a transaction.
OneThing(w) == instance[w].stage # "none" => pc[w] = "idle"

CopiesHaveBuckets == \A w \in Workers : CopyHasBuckets(w) /\ OneThing(w)

\* No transaction holds the row, and nobody has an instance, while another worker has one.
AdjustsAlone ==
  \A v, w \in Workers : instance[w].stage # "none" /\ v # w =>
    instance[v].stage = "none" /\ pc[v] # "locked"

\* Then no instance is stale.
InstancesAreFresh ==
  \A w \in Workers : instance[w].stage # "none" => instance[w].wallet.available = row.available

LEMMA RowIsWhole ==
  ASSUME NEW r \in Row
  PROVE  Synced(r).available = r.available /\ Synced(r).pending = r.pending
BY DEF Synced, Row

\* Transactions of one event, moving p and a.
LEMMA ComputedMoves ==
  ASSUME NEW e \in Events, NEW p \in Int, NEW a \in Int,
         posted \in [Events -> [Buckets -> Int]], posted' \in [Events -> [Buckets -> Int]],
         posted'[e]["pending"] = posted[e]["pending"] + p,
         posted'[e]["available"] = posted[e]["available"] + a,
         \A d \in Events \ {e} : posted'[d] = posted[d]
  PROVE  /\ Computed("pending")' = Computed("pending") + p
         /\ Computed("available")' = Computed("available") + a
<1>1. \A d \in Events : /\ posted[d]["pending"] \in Int /\ posted[d]["available"] \in Int
                        /\ posted'[d]["pending"] \in Int /\ posted'[d]["available"] \in Int
  BY DEF Buckets
<1>2. Events = {"order_paid", "order_delivered", "refund", "withdrawal", "adjustment"}
  BY DEF Events, RefEvents
<1>3. ASSUME NEW b \in Buckets, NEW x \in Int, posted'[e][b] = posted[e][b] + x
      PROVE  Computed(b)' = Computed(b) + x
  <2>1. \A d \in Events : posted[d][b] \in Int /\ posted'[d][b] \in Int
    BY <1>3
  <2>2. \A d \in Events \ {e} : posted'[d][b] = posted[d][b]
    OBVIOUS
  <2> QED BY <1>2, <1>3, <2>1, <2>2 DEF Computed
<1> QED BY <1>3 DEF Buckets

LEMMA ComputedType ==
  ASSUME posted \in [Events -> [Buckets -> Int]]
  PROVE  Computed("pending") \in Int /\ Computed("available") \in Int
BY DEF Computed, Events, RefEvents, Buckets

\* A body that moves the buckets of a current copy as its transactions say.
LEMMA MovesAreConserved ==
  ASSUME AdjustIInv, AdjustIInv', NEW e \in Events, NEW p \in Int, NEW a \in Int,
         posted'[e]["pending"] = posted[e]["pending"] + p,
         posted'[e]["available"] = posted[e]["available"] + a,
         \A d \in Events \ {e} : posted'[d] = posted[d],
         row'.pending = row.pending + p, row'.available = row.available + a
  PROVE  MissingPending' = MissingPending /\ MissingAvailable' = MissingAvailable
<1>1. /\ posted \in [Events -> [Buckets -> Int]] /\ posted' \in [Events -> [Buckets -> Int]]
      /\ row.pending \in Int /\ row.available \in Int
  BY DEF AdjustIInv, AdjustTypeOK, BooksTyped, Row
<1>2. /\ Computed("pending")' = Computed("pending") + p
      /\ Computed("available")' = Computed("available") + a
  BY <1>1, ComputedMoves
<1> QED BY <1>1, <1>2, ComputedType DEF MissingPending, MissingAvailable

LEMMA BodiesConserve ==
  ASSUME AdjustIInv, AdjustIInv', NEW w \in Workers, CopyHasBuckets(w),
         OnOrderPaid(w) \/ OnOrderDelivered(w) \/ OnRefund(w) \/ MarkWithdrawalPaid(w)
  PROVE  /\ walletLock = w
         /\ MissingPending' = MissingPending /\ MissingAvailable' = MissingAvailable
<1>1. /\ local[w] \in Row
      /\ posted \in [Events -> [Buckets -> Int]]
      /\ call[w].op \in RefEvents => call[w].amount \in Nat
      /\ withdrawal \in [Withdrawals -> [status: Statuses, amount: Nat]]
      /\ call[w].op \in Decisions => call[w].id \in Withdrawals
  BY AdjustLocked DEF OnOrderPaid, OnOrderDelivered, OnRefund, MarkWithdrawalPaid, Body
<1>2. /\ walletLock = w
      /\ local[w].available = row.available /\ local[w].pending = row.pending
  BY DEF CopyHasBuckets, OnOrderPaid, OnOrderDelivered, OnRefund, MarkWithdrawalPaid, Body
<1>3. row.available \in Int /\ row.pending \in Int
  BY <1>1, <1>2 DEF Row
<1>4. CASE OnOrderPaid(w)
  <2> DEFINE x == call[w].amount
             r == [local[w] EXCEPT !.pending = @ + x]
  <2>1. x \in Int /\ local[w].pending + x \in Int
    BY <1>1, <1>4 DEF OnOrderPaid, Body, RefEvents, Row
  <2>2. row' = Synced(r) /\ posted' = [posted EXCEPT !["order_paid"]["pending"] = @ + x]
    BY <1>4 DEF OnOrderPaid
  <2> HIDE DEF x
  <2>3. r \in Row /\ r.pending = row.pending + x /\ r.available = row.available + 0
    BY <1>1, <1>2, <1>3, <2>1 DEF Row
  <2> HIDE DEF r
  <2>4. row'.pending = row.pending + x /\ row'.available = row.available + 0
    BY <2>2, <2>3, RowIsWhole
  <2>5. /\ posted'["order_paid"]["pending"] = posted["order_paid"]["pending"] + x
        /\ posted'["order_paid"]["available"] = posted["order_paid"]["available"] + 0
        /\ \A d \in Events \ {"order_paid"} : posted'[d] = posted[d]
    BY <1>1, <2>1, <2>2 DEF Events, RefEvents, Buckets
  <2> QED BY <1>2, <2>1, <2>4, <2>5, MovesAreConserved DEF Events, RefEvents
<1>5. CASE OnOrderDelivered(w)
  <2> DEFINE x == Releasable(w)
             r == [local[w] EXCEPT !.pending = @ - x, !.available = @ + x]
  <2>1. x \in Int /\ -x \in Int /\ local[w].pending - x \in Int /\ local[w].available + x \in Int
    BY <1>1, <1>5 DEF OnOrderDelivered, Body, RefEvents, Releasable, Smaller, Row
  <2>2. /\ row' = Synced(r)
        /\ posted' = [posted EXCEPT !["order_delivered"]["pending"] = @ - x,
                                    !["order_delivered"]["available"] = @ + x]
    BY <1>5 DEF OnOrderDelivered
  <2> HIDE DEF x
  <2>3. r \in Row /\ r.pending = row.pending + (-x) /\ r.available = row.available + x
    BY <1>1, <1>2, <1>3, <2>1 DEF Row
  <2> HIDE DEF r
  <2>4. row'.pending = row.pending + (-x) /\ row'.available = row.available + x
    BY <2>2, <2>3, RowIsWhole
  <2>5. /\ posted'["order_delivered"]["pending"] = posted["order_delivered"]["pending"] + (-x)
        /\ posted'["order_delivered"]["available"] = posted["order_delivered"]["available"] + x
        /\ \A d \in Events \ {"order_delivered"} : posted'[d] = posted[d]
    BY <1>1, <2>1, <2>2 DEF Events, RefEvents, Buckets
  <2> QED BY <1>2, <2>1, <2>4, <2>5, MovesAreConserved DEF Events, RefEvents
<1>6. CASE OnRefund(w)
  <2> DEFINE p == PendingDeduction(w)
             a == AvailableDeduction(w)
             r == [local[w] EXCEPT !.pending = @ - p, !.available = @ - a]
  <2>1. p \in Int /\ a \in Int
    BY <1>1, <1>6 DEF OnRefund, Body, RefEvents, PendingDeduction, AvailableDeduction, Smaller, Row
  <2>2. /\ row' = Synced(r)
        /\ posted' = [posted EXCEPT !["refund"]["pending"] = @ - p,
                                    !["refund"]["available"] = @ - a]
    BY <1>6 DEF OnRefund
  <2> HIDE DEF p, a
  <2>3. -p \in Int /\ -a \in Int /\ local[w].pending - p \in Int /\ local[w].available - a \in Int
    BY <1>1, <2>1 DEF Row
  <2>4. r \in Row /\ r.pending = row.pending + (-p) /\ r.available = row.available + (-a)
    BY <1>1, <1>2, <1>3, <2>1, <2>3 DEF Row
  <2> HIDE DEF r
  <2>5. row'.pending = row.pending + (-p) /\ row'.available = row.available + (-a)
    BY <2>2, <2>4, RowIsWhole
  <2>6. /\ posted'["refund"]["pending"] = posted["refund"]["pending"] + (-p)
        /\ posted'["refund"]["available"] = posted["refund"]["available"] + (-a)
        /\ \A d \in Events \ {"refund"} : posted'[d] = posted[d]
    BY <1>1, <2>1, <2>2 DEF Events, RefEvents, Buckets
  <2> QED BY <1>2, <2>3, <2>5, <2>6, MovesAreConserved DEF Events, RefEvents
<1>7. CASE MarkWithdrawalPaid(w)
  <2> DEFINE x == withdrawal[call[w].id].amount
             r == [local[w] EXCEPT !.available = @ - x]
  <2>1. x \in Int /\ -x \in Int /\ local[w].available - x \in Int
    BY <1>1, <1>7 DEF MarkWithdrawalPaid, Body, Decisions, Row
  <2>2. row' = Synced(r) /\ posted' = [posted EXCEPT !["withdrawal"]["available"] = @ - x]
    BY <1>7 DEF MarkWithdrawalPaid
  <2> HIDE DEF x
  <2>3. r \in Row /\ r.pending = row.pending + 0 /\ r.available = row.available + (-x)
    BY <1>1, <1>2, <1>3, <2>1 DEF Row
  <2> HIDE DEF r
  <2>4. row'.pending = row.pending + 0 /\ row'.available = row.available + (-x)
    BY <2>2, <2>3, RowIsWhole
  <2>5. /\ posted'["withdrawal"]["pending"] = posted["withdrawal"]["pending"] + 0
        /\ posted'["withdrawal"]["available"] = posted["withdrawal"]["available"] + (-x)
        /\ \A d \in Events \ {"withdrawal"} : posted'[d] = posted[d]
    BY <1>1, <2>1, <2>2 DEF Events, RefEvents, Buckets
  <2> QED BY <1>2, <2>1, <2>4, <2>5, MovesAreConserved DEF Events, RefEvents
<1> QED BY <1>4, <1>5, <1>6, <1>7

\* Every step of the service keeps both differences, and moves a bucket only under the
\* row lock.
LEMMA ServiceConserves ==
  ASSUME AdjustIInv, AdjustIInv', NEW w \in Workers, CopyHasBuckets(w), Serve(w)
  PROVE  /\ MissingPending' = MissingPending /\ MissingAvailable' = MissingAvailable
         /\ \/ row'.available = row.available /\ row'.pending = row.pending
            \/ pc[w] = "locked" /\ walletLock = w
<1>1. CASE OnOrderPaid(w) \/ OnOrderDelivered(w) \/ OnRefund(w) \/ MarkWithdrawalPaid(w)
  BY <1>1, BodiesConserve DEF OnOrderPaid, OnOrderDelivered, OnRefund, MarkWithdrawalPaid, Body
<1>2. CASE CreateWithdrawalRequest(w) \/ AlreadyDone(w)
  <2>1. /\ posted' = posted
        /\ row'.available = row.available /\ row'.pending = row.pending
    BY <1>2 DEF CreateWithdrawalRequest, AlreadyDone, Body, CopyHasBuckets, RefEvents
  <2> QED BY <2>1 DEF MissingPending, MissingAvailable, Computed
<1>3. CASE UNCHANGED <<row, posted>>
  BY <1>3 DEF MissingPending, MissingAvailable, Computed
<1> QED BY <1>1, <1>2, <1>3
        DEF Serve, Calls, Call, GetWallet, Lock, LockWallet, LockRequest, Perform,
            ApproveWithdrawal, RejectWithdrawal, Refuse, Crash, Raise, tables

\* Repairs write the balance only, and an adjustment never the pending bucket.
LEMMA OutsideConserves ==
  ASSUME AdjustIInv, NEW w \in Workers,
         \/ FindOutOfStep(w) \/ RepairBalance(w) \/ Fetch(w) \/ SaveBalance(w) \/ Forget(w)
  PROVE  /\ MissingPending' = MissingPending /\ MissingAvailable' = MissingAvailable
         /\ row'.available = row.available /\ row'.pending = row.pending
<1>1. row \in Row
  BY DEF AdjustIInv, AdjustTypeOK
<1>2. posted' = posted
  BY DEF FindOutOfStep, RepairBalance, Fetch, SaveBalance, Forget, tables, vars
<1>3. row'.available = row.available /\ row'.pending = row.pending
  BY <1>1 DEF FindOutOfStep, RepairBalance, Fetch, SaveBalance, Forget, tables, vars, Row
<1> QED BY <1>2, <1>3 DEF MissingPending, MissingAvailable, Computed

LEMMA AdjustedBuckets ==
  ASSUME AdjustIInv, NEW w \in Workers, NEW x \in Int, Adjust(w, x)
  PROVE  /\ posted'["adjustment"]["available"] = posted["adjustment"]["available"] + x
         /\ posted'["adjustment"]["pending"] = posted["adjustment"]["pending"]
         /\ \A d \in Events \ {"adjustment"} : posted'[d] = posted[d]
         /\ row'.pending = row.pending
         /\ row'.available = instance[w].wallet.available + x
         /\ instance'[w].wallet.available = row'.available
         /\ \A v \in Workers \ {w} : instance'[v] = instance[v]
<1> DEFINE a == instance[w].wallet.available + x
           copy == [instance[w].wallet EXCEPT !.available = a]
           wallet == Synced(copy)
<1>1. /\ posted \in [Events -> [Buckets -> Int]] /\ row \in Row /\ instance[w].wallet \in Row
      /\ instance \in [Workers -> [stage: {"none", "repair", "ready"}, wallet: Row]]
  BY DEF AdjustIInv, AdjustTypeOK, BooksTyped
<1>2. /\ posted' = [posted EXCEPT !["adjustment"]["available"] = @ + x]
      /\ row' = [row EXCEPT !.available = wallet.available, !.balance = wallet.balance]
      /\ instance' = [instance EXCEPT ![w].wallet = wallet]
  BY <1>1 DEF Adjust
<1>3. a \in Int
  BY <1>1 DEF Row
<1>4. copy \in Row /\ copy.available = a
  BY <1>1, <1>3 DEF Row
<1> HIDE DEF copy
<1>5. wallet.available = a
  BY <1>4, RowIsWhole
<1> HIDE DEF wallet
<1>6. row'.pending = row.pending /\ row'.available = a /\ instance'[w].wallet.available = a
  BY <1>1, <1>2, <1>5 DEF Row
<1>7. /\ posted'["adjustment"]["available"] = posted["adjustment"]["available"] + x
      /\ posted'["adjustment"]["pending"] = posted["adjustment"]["pending"]
      /\ \A d \in Events \ {"adjustment"} : posted'[d] = posted[d]
  BY <1>1, <1>2 DEF Events, RefEvents, Buckets
<1> QED BY <1>1, <1>2, <1>6, <1>7

LEMMA AdjustmentsConservePending ==
  ASSUME AdjustIInv, AdjustIInv', NEW w \in Workers, NEW x \in Int, Adjust(w, x)
  PROVE  MissingPending' = MissingPending
<1>1. /\ posted \in [Events -> [Buckets -> Int]] /\ posted' \in [Events -> [Buckets -> Int]]
  BY DEF AdjustIInv, AdjustTypeOK, BooksTyped
<1>2. /\ posted'["adjustment"]["available"] = posted["adjustment"]["available"] + x
      /\ posted'["adjustment"]["pending"] = posted["adjustment"]["pending"]
      /\ \A d \in Events \ {"adjustment"} : posted'[d] = posted[d]
      /\ row'.pending = row.pending
  BY AdjustedBuckets
<1>3. posted["adjustment"]["pending"] \in Int /\ "adjustment" \in Events
  BY <1>1 DEF Events, Buckets
<1>4. Computed("pending")' = Computed("pending") + 0
  BY <1>1, <1>2, <1>3, ComputedMoves
<1> QED BY <1>1, <1>2, <1>4, ComputedType DEF MissingPending

\* A worker's step that leaves the buckets alone, or holds the row, leaves every other
\* worker's copy current.
LEMMA CopiesKeepBuckets ==
  ASSUME AdjustIInv, CopiesHaveBuckets, NEW w \in Workers,
         \/ row'.available = row.available /\ row'.pending = row.pending
         \/ walletLock = w \/ walletLock = NoWorker,
         \A v \in Workers \ {w} :
           /\ pc'[v] = pc[v] /\ call'[v] = call[v] /\ local'[v] = local[v]
           /\ instance'[v] = instance[v]
           /\ walletLock = v => walletLock' = v,
         CopyHasBuckets(w)', OneThing(w)'
  PROVE  CopiesHaveBuckets'
<1> SUFFICES ASSUME NEW v \in Workers, v # w PROVE CopyHasBuckets(v)' /\ OneThing(v)'
  BY DEF CopiesHaveBuckets
<1>1. CopyHasBuckets(v) /\ OneThing(v) /\ v # NoWorker
  BY NoWorkerAssumption DEF CopiesHaveBuckets
<1>2. /\ pc'[v] = pc[v] /\ call'[v] = call[v] /\ local'[v] = local[v]
      /\ instance'[v] = instance[v]
      /\ walletLock = v => walletLock' = v
  OBVIOUS
<1> QED BY <1>1, <1>2 DEF CopyHasBuckets, OneThing

\* What a step of w leaves of the other workers.
OthersStay(w) ==
  \A v \in Workers \ {w} :
    /\ pc'[v] = pc[v] /\ call'[v] = call[v] /\ local'[v] = local[v]
    /\ instance'[v] = instance[v]
    /\ walletLock = v => walletLock' = v

LEMMA ReturnLeaves ==
  ASSUME AdjustIInv, NEW w \in Workers, Return(w), UNCHANGED adjustVars
  PROVE  OthersStay(w) /\ pc'[w] = "idle"
BY DEF AdjustIInv, AdjustTypeOK, BooksTyped, Return, adjustVars, OthersStay

LEMMA ServiceLeaves ==
  ASSUME AdjustIInv, CopiesHaveBuckets, NEW w \in Workers, Serve(w)
  PROVE  OthersStay(w) /\ CopyHasBuckets(w)' /\ OneThing(w)'
<1>1. AdjustTypeOK /\ StepFits(w) /\ UNCHANGED adjustVars /\ instance[w] = NoInstance
  BY DEF AdjustIInv, Serve
<1>2. OneThing(w)'
  BY <1>1 DEF OneThing, NoInstance, adjustVars
<1>3. CASE Return(w)
  BY <1>1, <1>2, <1>3, ReturnLeaves DEF CopyHasBuckets
<1>4. CASE Calls(w)
  <2>1. PICK c \in RefCalls \cup RequestCalls \cup DecisionCalls : Call(w, c)
    BY <1>4 DEF Calls
  <2>2. OthersStay(w) /\ pc'[w] # "locked"
    BY <1>1, <2>1 DEF AdjustTypeOK, BooksTyped, Call, adjustVars, OthersStay
  <2> QED BY <1>2, <2>2 DEF CopyHasBuckets
<1>5. CASE GetWallet(w)
  BY <1>1, <1>2, <1>5 DEF GetWallet, AdjustTypeOK, BooksTyped, adjustVars, OthersStay, CopyHasBuckets
<1>6. CASE LockWallet(w)
  <2>1. OthersStay(w)
    BY <1>1, <1>6, NoWorkerAssumption
       DEF LockWallet, AdjustTypeOK, BooksTyped, adjustVars, OthersStay
  <2>2. walletLock' = w /\ local'[w] = row /\ row' = row
    BY <1>1, <1>6 DEF LockWallet, AdjustTypeOK
  <2> QED BY <1>2, <2>1, <2>2 DEF CopyHasBuckets
<1>7. CASE LockRequest(w) /\ ~Return(w)
  <2>1. /\ pc' = [pc EXCEPT ![w] = IF call[w].op = "reject" THEN "locked" ELSE "lock_wallet"]
        /\ UNCHANGED <<row, walletLock, call, local>>
    BY <1>7 DEF LockRequest, Raise
  <2>2. OthersStay(w)
    BY <1>1, <2>1 DEF AdjustTypeOK, adjustVars, OthersStay
  <2>3. call'[w].op # "reject" => pc'[w] # "locked"
    BY <1>1, <2>1 DEF AdjustTypeOK
  <2> QED BY <1>2, <2>2, <2>3 DEF CopyHasBuckets
<1> QED BY <1>3, <1>4, <1>5, <1>6, <1>7
        DEF Serve, Lock, LockRequest, Perform, OnOrderPaid, OnOrderDelivered, OnRefund,
            CreateWithdrawalRequest, ApproveWithdrawal, RejectWithdrawal, MarkWithdrawalPaid,
            AlreadyDone, Refuse, Crash, Raise

\* In a transaction the worker has no instance.
LEMMA RepairLeaves ==
  ASSUME AdjustIInv, CopiesHaveBuckets, NEW w \in Workers, FindOutOfStep(w) \/ RepairBalance(w)
  PROVE  OthersStay(w) /\ CopyHasBuckets(w)' /\ OneThing(w)'
<1>1. AdjustTypeOK /\ OneThing(w) /\ row \in Row
  BY DEF AdjustIInv, AdjustTypeOK, CopiesHaveBuckets
<1>2. instance[w].stage = "none" /\ UNCHANGED adjustVars
  BY <1>1 DEF FindOutOfStep, RepairBalance, OneThing
<1>3. OneThing(w)'
  BY <1>2 DEF OneThing, adjustVars
<1>4. CASE FindOutOfStep(w)
  BY <1>1, <1>3, <1>4
     DEF FindOutOfStep, AdjustTypeOK, locks, adjustVars, OthersStay, CopyHasBuckets
<1>5. CASE RepairBalance(w)
  <2> DEFINE b == Synced(local[w]).balance
  <2>1. /\ walletLock = NoWorker /\ walletLock' = w /\ row' = row
        /\ local' = [local EXCEPT ![w] = [row EXCEPT !.balance = b]]
        /\ pc' = [pc EXCEPT ![w] = "locked"] /\ call' = call
    BY <1>5 DEF RepairBalance, tables
  <2> HIDE DEF b
  <2>2. local'[w].available = row.available /\ local'[w].pending = row.pending
    BY <1>1, <2>1 DEF AdjustTypeOK, Row
  <2>3. OthersStay(w)
    BY <1>1, <2>1, <1>2, NoWorkerAssumption DEF AdjustTypeOK, adjustVars, OthersStay
  <2> QED BY <1>3, <2>1, <2>2, <2>3 DEF CopyHasBuckets
<1> QED BY <1>4, <1>5

LEMMA OutsideLeaves ==
  ASSUME AdjustIInv, CopiesHaveBuckets, NEW w \in Workers,
         \/ Fetch(w) \/ SaveBalance(w) \/ Forget(w)
         \/ \E x \in Int : Adjust(w, x)
  PROVE  OthersStay(w) /\ CopyHasBuckets(w)' /\ OneThing(w)'
<1>1. /\ AdjustTypeOK /\ CopyHasBuckets(w) /\ OneThing(w)
      /\ instance \in [Workers -> [stage: {"none", "repair", "ready"}, wallet: Row]]
  BY DEF AdjustIInv, AdjustTypeOK, CopiesHaveBuckets
<1>2. /\ UNCHANGED <<walletLock, pc, call, local>>
      /\ pc[w] = "idle"
  BY <1>1 DEF Fetch, SaveBalance, Forget, Adjust, vars, OneThing
<1>3. PICK i : instance' = [instance EXCEPT ![w] = i]
  BY <1>1 DEF Fetch, SaveBalance, Forget, Adjust
<1> QED BY <1>1, <1>2, <1>3 DEF OthersStay, CopyHasBuckets, OneThing

LEMMA AdjustNextConserves ==
  ASSUME AdjustIInv, AdjustIInv', CopiesHaveBuckets, [AdjustNext]_<<vars, adjustVars>>
  PROVE  CopiesHaveBuckets' /\ MissingPending' = MissingPending
<1>1. CASE UNCHANGED <<vars, adjustVars>>
  BY <1>1 DEF vars, adjustVars, CopiesHaveBuckets, CopyHasBuckets, OneThing, MissingPending, Computed
<1>2. ASSUME NEW w \in Workers, Serve(w)
      PROVE  CopiesHaveBuckets' /\ MissingPending' = MissingPending
  <2>1. CopyHasBuckets(w)
    BY DEF CopiesHaveBuckets
  <2> QED BY <1>2, <2>1, ServiceLeaves, ServiceConserves, CopiesKeepBuckets DEF OthersStay
<1>3. ASSUME NEW w \in Workers,
             FindOutOfStep(w) \/ RepairBalance(w) \/ Fetch(w) \/ SaveBalance(w) \/ Forget(w)
      PROVE  CopiesHaveBuckets' /\ MissingPending' = MissingPending
  BY <1>3, RepairLeaves, OutsideLeaves, OutsideConserves, CopiesKeepBuckets DEF OthersStay
<1>4. ASSUME NEW w \in Workers, NEW x \in Int, Adjust(w, x)
      PROVE  CopiesHaveBuckets' /\ MissingPending' = MissingPending
  <2>1. walletLock = NoWorker
    BY <1>4 DEF Adjust
  <2> QED BY <1>4, <2>1, OutsideLeaves, AdjustmentsConservePending, CopiesKeepBuckets DEF OthersStay
<1>5. \A x \in Amounts : x \in Int /\ -x \in Int
  BY AmountsAssumption
<1> QED BY <1>1, <1>2, <1>3, <1>4, <1>5 DEF AdjustNext, Credit, Debit

LEMMA InitConserves == AdjustInit => CopiesHaveBuckets /\ MissingPending = 0
<1> SUFFICES ASSUME AdjustInit PROVE CopiesHaveBuckets /\ MissingPending = 0
  OBVIOUS
<1>1. PICK b \in LegacyBalances : Legacy(b)
  BY DEF AdjustInit
<1>2. row.pending = 0 /\ \A e \in Events : posted[e]["pending"] = 0
  BY <1>1 DEF Legacy, EmptyRow, Buckets
<1>3. MissingPending = 0
  BY <1>2 DEF MissingPending, Computed, Events, RefEvents
<1>4. CopiesHaveBuckets
  BY DEF AdjustInit, NothingDone, NoInstance, CopiesHaveBuckets, CopyHasBuckets, OneThing
<1> QED BY <1>3, <1>4

\* Lost updates never reach the money of undelivered orders: whatever credit, debit and
\* the repairs overwrite, the pending bucket is the sum of its transactions.
THEOREM PendingStaysExact == AdjustSpec => []PendingIsExact
<1> DEFINE Exact == CopiesHaveBuckets /\ MissingPending = 0
<1>1. AdjustInit => Exact
  BY InitConserves
<1>2. AdjustIInv /\ AdjustIInv' /\ Exact /\ [AdjustNext]_<<vars, adjustVars>> => Exact'
  BY AdjustNextConserves
<1>3. AdjustIInv /\ Exact => PendingIsExact
  <2> SUFFICES ASSUME AdjustIInv, MissingPending = 0 PROVE PendingIsExact
    OBVIOUS
  <2>1. row.pending \in Int /\ Computed("pending") \in Int
    BY ComputedType DEF AdjustIInv, AdjustTypeOK, BooksTyped, Row
  <2> QED BY <2>1 DEF MissingPending, PendingIsExact
<1> HIDE DEF Exact
<1> QED BY <1>1, <1>2, <1>3, AdjustInvariance, PTL DEF AdjustSpec

LEMMA FreshAdjustmentConserves ==
  ASSUME AdjustIInv, AdjustIInv', InstancesAreFresh, NEW w \in Workers, NEW x \in Int, Adjust(w, x)
  PROVE  MissingAvailable' = MissingAvailable
<1>1. /\ posted \in [Events -> [Buckets -> Int]] /\ posted' \in [Events -> [Buckets -> Int]]
      /\ row.available \in Int
  BY DEF AdjustIInv, AdjustTypeOK, BooksTyped, Row
<1>2. instance[w].wallet.available = row.available
  BY DEF Adjust, InstancesAreFresh
<1>3. /\ posted'["adjustment"]["available"] = posted["adjustment"]["available"] + x
      /\ posted'["adjustment"]["pending"] = posted["adjustment"]["pending"]
      /\ \A d \in Events \ {"adjustment"} : posted'[d] = posted[d]
      /\ row'.available = row.available + x
  BY <1>2, AdjustedBuckets
<1>4. posted'["adjustment"]["pending"] = posted["adjustment"]["pending"] + 0 /\ "adjustment" \in Events
  BY <1>1, <1>3 DEF Events, Buckets
<1>5. Computed("available")' = Computed("available") + x
  BY <1>1, <1>3, <1>4, ComputedMoves
<1> QED BY <1>1, <1>3, <1>5, ComputedType DEF MissingAvailable

LEMMA AloneConserves ==
  ASSUME AdjustIInv, AdjustIInv', CopiesHaveBuckets, InstancesAreFresh, AdjustsAlone,
         [AdjustNext]_<<vars, adjustVars>>
  PROVE  InstancesAreFresh' /\ MissingAvailable' = MissingAvailable
<1>1. /\ instance \in [Workers -> [stage: {"none", "repair", "ready"}, wallet: Row]]
      /\ row \in Row
  BY DEF AdjustIInv, AdjustTypeOK
<1>2. CASE UNCHANGED <<vars, adjustVars>>
  BY <1>2 DEF vars, adjustVars, InstancesAreFresh, MissingAvailable, Computed
<1>3. ASSUME NEW w \in Workers, Serve(w)
      PROVE  InstancesAreFresh' /\ MissingAvailable' = MissingAvailable
  <2>1. CopyHasBuckets(w) /\ instance' = instance /\ instance[w].stage = "none"
    BY <1>3 DEF CopiesHaveBuckets, Serve, adjustVars, NoInstance
  <2>2. MissingAvailable' = MissingAvailable
    BY <1>3, <2>1, ServiceConserves
  <2>3. row'.available = row.available \/ pc[w] = "locked"
    BY <1>3, <2>1, ServiceConserves
  <2>4. pc[w] = "locked" => \A v \in Workers : instance[v].stage = "none"
    BY <2>1 DEF AdjustsAlone
  <2> QED BY <2>1, <2>2, <2>3, <2>4 DEF InstancesAreFresh
<1>4. ASSUME NEW w \in Workers, FindOutOfStep(w) \/ RepairBalance(w)
      PROVE  InstancesAreFresh' /\ MissingAvailable' = MissingAvailable
  BY <1>4, OutsideConserves DEF FindOutOfStep, RepairBalance, tables, adjustVars, InstancesAreFresh
<1>5. ASSUME NEW w \in Workers, Fetch(w) \/ SaveBalance(w) \/ Forget(w)
      PROVE  InstancesAreFresh' /\ MissingAvailable' = MissingAvailable
  <2>1. row'.available = row.available /\ MissingAvailable' = MissingAvailable
    BY <1>5, OutsideConserves
  <2>2. PICK s, q :
          /\ instance' = [instance EXCEPT ![w] = [stage |-> s, wallet |-> q]]
          /\ s # "none" => q.available = row.available
    <3>1. CASE Fetch(w)
      BY <3>1 DEF Fetch
    <3>2. CASE SaveBalance(w)
      <4> DEFINE wallet == Synced(instance[w].wallet)
      <4>1. wallet.available = instance[w].wallet.available
        BY <1>1, RowIsWhole
      <4>2. instance' = [instance EXCEPT ![w] = [stage |-> "ready", wallet |-> wallet]]
        BY <3>2 DEF SaveBalance
      <4>3. instance[w].wallet.available = row.available
        BY <3>2 DEF SaveBalance, InstancesAreFresh
      <4> HIDE DEF wallet
      <4> QED BY <4>1, <4>2, <4>3
    <3>3. CASE Forget(w)
      BY <3>3 DEF Forget, NoInstance
    <3> QED BY <1>5, <3>1, <3>2, <3>3
  <2>3. instance'[w] = [stage |-> s, wallet |-> q] /\ \A v \in Workers \ {w} : instance'[v] = instance[v]
    BY <1>1, <2>2
  <2> QED BY <2>1, <2>2, <2>3 DEF InstancesAreFresh
<1>6. ASSUME NEW w \in Workers, NEW x \in Int, Adjust(w, x)
      PROVE  InstancesAreFresh' /\ MissingAvailable' = MissingAvailable
  <2>1. /\ instance'[w].wallet.available = row'.available
        /\ \A v \in Workers \ {w} : instance'[v] = instance[v]
    BY <1>6, AdjustedBuckets
  <2>2. \A v \in Workers \ {w} : instance[v].stage = "none"
    BY <1>6 DEF Adjust, AdjustsAlone
  <2>3. InstancesAreFresh'
    BY <2>1, <2>2 DEF InstancesAreFresh
  <2> QED BY <1>6, <2>3, FreshAdjustmentConserves
<1>7. \A x \in Amounts : x \in Int /\ -x \in Int
  BY AmountsAssumption
<1> QED BY <1>2, <1>3, <1>4, <1>5, <1>6, <1>7 DEF AdjustNext, Credit, Debit

\* credit and debit lose an update only to another adjustment, or to a transaction that
\* holds the row, while an instance is in use: as long as that does not happen, the ledger
\* and the available bucket stay as far apart as migration 0002 left them.
THEOREM NoUpdateLostUnlessTwo ==
  AdjustSpec /\ []AdjustsAlone => [][MissingAvailable' = MissingAvailable]_<<vars, adjustVars>>
<1> DEFINE Fresh == CopiesHaveBuckets /\ InstancesAreFresh
<1>1. AdjustInit => Fresh
  <2>1. AdjustInit => InstancesAreFresh
    BY DEF AdjustInit, InstancesAreFresh, NoInstance
  <2> QED BY <2>1, InitConserves
<1>2. AdjustIInv /\ AdjustIInv' /\ Fresh /\ AdjustsAlone /\ [AdjustNext]_<<vars, adjustVars>> =>
        Fresh' /\ [MissingAvailable' = MissingAvailable]_<<vars, adjustVars>>
  BY AdjustNextConserves, AloneConserves
<1> HIDE DEF Fresh
<1> QED BY <1>1, <1>2, AdjustInvariance, PTL DEF AdjustSpec

=============================================================================
