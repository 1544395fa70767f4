------------------------------ MODULE Returns ------------------------------
(***************************************************************************)
(* Returns of one order's items and the refunds they lead to.  A view or a *)
(* task fetches a return or a refund without a lock, and the service works *)
(* on that instance: what its checks see may be old.  Requesting a refund  *)
(* locks the order; processing one asks the gateway, writes the refund,    *)
(* adds to the order's refunded_amount and debits the merchant's wallet.   *)
(***************************************************************************)
EXTENDS Integers, FiniteSets, Functions

CONSTANTS
  Workers,        \* concurrent requests and tasks
  Rmas,           \* returns of the order
  MaxRefunds,     \* bounds the refunds of the order
  Amounts,        \* what a refund may be requested for
  Total,          \* total_amount of the order
  InitialFunds,   \* what the merchant's wallet may hold
  NoRma

ASSUME MaxRefundsAssumption == MaxRefunds \in Nat
ASSUME AmountsAssumption ==
  Amounts \subseteq Nat /\ Total \in Nat \ {0} /\ InitialFunds \subseteq Nat
ASSUME RmasAssumption == NoRma \notin Rmas

RefundIds == 1 .. MaxRefunds

VARIABLES
  rma,          \* per return: its status and the refund its inspection granted
  refund,       \* per id: the row of the refund
  refunded,     \* refunded_amount of the order
  orderStatus,  \* of the order, as far as refunds change it
  paid,         \* the order has a successful Payment
  funds,        \* pending and available balance of the merchant's wallet
  debited,      \* refunds the wallet has a refund transaction for
  completions,  \* per refund: how many transactions have completed it
  pc,           \* per worker: where its request is
  job           \* per worker: the instance it fetched and its arguments

vars == <<rma, refund, refunded, orderStatus, paid, funds, debited, completions, pc, job>>

-----------------------------------------------------------------------------
(* Rows *)

RmaStatuses == {"none", "requested", "approved", "rejected", "in_transit", "received",
                "inspected", "completed"}
RefundStatuses == {"initiated", "completed", "failed"}

NoRefund == [status |-> "none", amount |-> 0, rma |-> NoRma]
RefundRows == [status : RefundStatuses, amount : Nat, rma : Rmas \cup {NoRma}]

NoJob == [rma |-> NoRma, refund |-> 0, seen |-> "none", amount |-> 0]
Jobs == [rma : Rmas \cup {NoRma}, refund : RefundIds \cup {0},
         seen : RmaStatuses \cup RefundStatuses, amount : Nat]

Known == {r \in RefundIds : refund[r] # NoRefund}
Active == {r \in Known : refund[r].status # "failed"}
ActiveOf(m) == {r \in Active : refund[r].rma = m}

SumOf(S) == SumFunctionOnSet([r \in RefundIds |-> refund[r].amount], S)

-----------------------------------------------------------------------------
(* The workflow of a return *)

\* The transitions that only write the status: the status asked for, the one set.
Transition(op) ==
  CASE op = "approve" -> <<"requested", "approved">>
    [] op = "reject"  -> <<"requested", "rejected">>
    [] op = "track"   -> <<"approved", "in_transit">>
    [] op = "receive" -> <<"in_transit", "received">>
    [] op = "inspect" -> <<"received", "inspected">>

RequestRma(m) ==
  /\ rma[m].status = "none"
  /\ rma' = [rma EXCEPT ![m].status = "requested"]
  /\ UNCHANGED <<refund, refunded, orderStatus, paid, funds, debited, completions, pc, job>>

\* get_object() in a view, an admin action or a task.
FetchRma(w, m) ==
  /\ pc[w] = "idle"
  /\ rma[m].status \notin {"none", "rejected", "completed"}
  /\ pc' = [pc EXCEPT ![w] = "rma"]
  /\ job' = [job EXCEPT ![w] = [NoJob EXCEPT !.rma = m, !.seen = rma[m].status]]
  /\ UNCHANGED <<rma, refund, refunded, orderStatus, paid, funds, debited, completions>>

Return(w) ==
  /\ pc' = [pc EXCEPT ![w] = "idle"]
  /\ job' = [job EXCEPT ![w] = NoJob]

\* The check is of the instance; the save writes the row whatever it is by now.
ChangeStatus(w, op) ==
  /\ pc[w] = "rma"
  /\ op \in {"approve", "reject", "track", "receive"}
  /\ job[w].seen = Transition(op)[1]
  /\ rma' = [rma EXCEPT ![job[w].rma].status = Transition(op)[2]]
  /\ Return(w)
  /\ UNCHANGED <<refund, refunded, orderStatus, paid, funds, debited, completions>>

\* The inspector grants any amount.
InspectReturn(w, amount) ==
  /\ pc[w] = "rma"
  /\ job[w].seen = Transition("inspect")[1]
  /\ rma' = [rma EXCEPT ![job[w].rma] =
       [status |-> Transition("inspect")[2], amount |-> amount]]
  /\ Return(w)
  /\ UNCHANGED <<refund, refunded, orderStatus, paid, funds, debited, completions>>

\* refund_method is original_payment and something was granted, or nothing to refund.
CompleteRma(w) ==
  LET m == job[w].rma IN
  /\ pc[w] = "rma"
  /\ job[w].seen = "inspected"
  /\ \/ /\ rma[m].amount > 0
        /\ pc' = [pc EXCEPT ![w] = "lock_order"]
        /\ job' = [job EXCEPT ![w].amount = rma[m].amount]
        /\ UNCHANGED rma
     \/ /\ rma' = [rma EXCEPT ![m].status = "completed"]
        /\ Return(w)
  /\ UNCHANGED <<refund, refunded, orderStatus, paid, funds, debited, completions>>

-----------------------------------------------------------------------------
(* Requesting a refund *)

\* Without a return, from the refunds view.
RequestRefund(w, amount) ==
  /\ pc[w] = "idle"
  /\ amount > 0
  /\ pc' = [pc EXCEPT ![w] = "lock_order"]
  /\ job' = [job EXCEPT ![w] = [NoJob EXCEPT !.amount = amount]]
  /\ UNCHANGED <<rma, refund, refunded, orderStatus, paid, funds, debited, completions>>

\* Fault: the order is read without select_for_update.
OrderUnlocked == TRUE

\* The order is locked from the check of what is left to the commit.
OrderFree == \A w \in Workers : pc[w] # "insert"

HasActive(m) == m # NoRma /\ ActiveOf(m) # {}

\* A return that has a refund keeps it: complete_rma goes on to its last save.
ReuseRefund(w) ==
  LET m == job[w].rma IN
  /\ pc[w] = "lock_order" /\ OrderFree
  /\ HasActive(m)
  /\ rma' = [rma EXCEPT ![m].status = "completed"]
  /\ Return(w)
  /\ UNCHANGED <<refund, refunded, orderStatus, paid, funds, debited, completions>>

RefuseRefund(w) ==
  /\ pc[w] = "lock_order" /\ OrderFree
  /\ ~HasActive(job[w].rma)
  /\ job[w].amount > Total - SumOf(Active)
  /\ Return(w)
  /\ UNCHANGED <<rma, refund, refunded, orderStatus, paid, funds, debited, completions>>

AllowRefund(w) ==
  /\ pc[w] = "lock_order" /\ OrderFree
  /\ ~HasActive(job[w].rma)
  /\ job[w].amount <= Total - SumOf(Active)
  /\ Known # RefundIds
  /\ pc' = [pc EXCEPT ![w] = "insert"]
  /\ UNCHANGED <<rma, refund, refunded, orderStatus, paid, funds, debited, completions, job>>

InsertRefund(w) ==
  LET m == job[w].rma IN
  /\ pc[w] = "insert"
  /\ \E r \in RefundIds :
       /\ r \notin Known /\ \A q \in 1 .. (r - 1) : q \in Known
       /\ refund' = [refund EXCEPT ![r] =
            [status |-> "initiated", amount |-> job[w].amount, rma |-> m]]
  /\ rma' = IF m = NoRma THEN rma ELSE [rma EXCEPT ![m].status = "completed"]
  /\ Return(w)
  /\ UNCHANGED <<refunded, orderStatus, paid, funds, debited, completions>>

-----------------------------------------------------------------------------
(* Processing a refund *)

\* The task gets the refund; one that is not initiated is refused without a change.
FetchRefund(w, r) ==
  /\ pc[w] = "idle"
  /\ refund[r].status = "initiated"
  /\ pc' = [pc EXCEPT ![w] = "refund"]
  /\ job' = [job EXCEPT ![w] = [NoJob EXCEPT !.refund = r, !.seen = "initiated"]]
  /\ UNCHANGED <<rma, refund, refunded, orderStatus, paid, funds, debited, completions>>

\* The gateway stub refunds what has a successful Payment.
AskGateway(w) ==
  /\ pc[w] = "refund"
  /\ pc' = [pc EXCEPT ![w] = IF paid THEN "complete" ELSE "fail"]
  /\ UNCHANGED <<rma, refund, refunded, orderStatus, paid, funds, debited, completions, job>>

FailRefund(w) ==
  /\ pc[w] = "fail"
  /\ refund' = [refund EXCEPT ![job[w].refund].status = "failed"]
  /\ Return(w)
  /\ UNCHANGED <<rma, refunded, orderStatus, paid, funds, debited, completions>>

\* Fault: only a funded wallet is asked for, not enough funds.
CanDebitAnything(r) == r \in debited \/ funds > 0

\* on_refund answers a reference it knows without a second debit.
CanDebit(r) == r \in debited \/ refund[r].amount <= funds

Debit(r) ==
  /\ funds' = IF r \in debited THEN funds ELSE funds - refund[r].amount
  /\ debited' = debited \cup {r}

StatusAfter(amount, old) ==
  IF amount >= Total THEN "refunded" ELSE IF amount > 0 THEN "partially_refunded" ELSE old

CompleteRefund(w) ==
  LET r == job[w].refund IN
  /\ pc[w] = "complete" /\ OrderFree
  /\ CanDebit(r)
  /\ refund' = [refund EXCEPT ![r].status = "completed"]
  /\ refunded' = refunded + refund[r].amount
  /\ orderStatus' = StatusAfter(refunded', orderStatus)
  /\ Debit(r)
  /\ completions' = [completions EXCEPT ![r] = @ + 1]
  /\ Return(w)
  /\ UNCHANGED <<rma, paid>>

\* Fault: the wallet's refusal is caught inside the transaction, which then commits.
CannotDebitQuietly(w) ==
  LET r == job[w].refund IN
  /\ pc[w] = "complete" /\ OrderFree
  /\ ~CanDebit(r)
  /\ refund' = [refund EXCEPT ![r].status = "completed"]
  /\ refunded' = refunded + refund[r].amount
  /\ orderStatus' = StatusAfter(refunded', orderStatus)
  /\ completions' = [completions EXCEPT ![r] = @ + 1]
  /\ Return(w)
  /\ UNCHANGED <<rma, paid, funds, debited>>

\* Fault: the order is saved before the wallet is asked, in a transaction of its own.
CannotDebitSaved(w) ==
  LET r == job[w].refund IN
  /\ pc[w] = "complete" /\ OrderFree
  /\ ~CanDebit(r)
  /\ refund' = [refund EXCEPT ![r].status = "failed"]
  /\ refunded' = refunded + refund[r].amount
  /\ orderStatus' = StatusAfter(refunded', orderStatus)
  /\ Return(w)
  /\ UNCHANGED <<rma, paid, funds, debited, completions>>

\* The wallet refuses: complete_refund is rolled back and the refund has failed.
CannotDebit(w) ==
  LET r == job[w].refund IN
  /\ pc[w] = "complete" /\ OrderFree
  /\ ~CanDebit(r)
  /\ refund' = [refund EXCEPT ![r].status = "failed"]
  /\ Return(w)
  /\ UNCHANGED <<rma, refunded, orderStatus, paid, funds, debited, completions>>

\* The payment of the order succeeds.
Pay ==
  /\ paid' = TRUE
  /\ UNCHANGED <<rma, refund, refunded, orderStatus, funds, debited, completions, pc, job>>

-----------------------------------------------------------------------------
Init ==
  /\ rma = [m \in Rmas |-> [status |-> "none", amount |-> 0]]
  /\ refund = [r \in RefundIds |-> NoRefund]
  /\ refunded = 0
  /\ orderStatus = "delivered"
  /\ paid \in BOOLEAN
  /\ funds \in InitialFunds
  /\ debited = {}
  /\ completions = [r \in RefundIds |-> 0]
  /\ pc = [w \in Workers |-> "idle"]
  /\ job = [w \in Workers |-> NoJob]

RmaStep(w) ==
  \/ \E m \in Rmas : FetchRma(w, m)
  \/ \E op \in {"approve", "reject", "track", "receive"} : ChangeStatus(w, op)
  \/ \E amount \in Amounts : InspectReturn(w, amount)
  \/ CompleteRma(w)

RequestStep(w) ==
  \/ \E amount \in Amounts : RequestRefund(w, amount)
  \/ ReuseRefund(w) \/ RefuseRefund(w) \/ AllowRefund(w) \/ InsertRefund(w)

ProcessStep(w) ==
  \/ \E r \in RefundIds : FetchRefund(w, r)
  \/ AskGateway(w) \/ FailRefund(w) \/ CompleteRefund(w) \/ CannotDebit(w)

Next ==
  \/ \E m \in Rmas : RequestRma(m)
  \/ \E w \in Workers : RmaStep(w) \/ RequestStep(w) \/ ProcessStep(w)
  \/ Pay

Spec == Init /\ [][Next]_vars

-----------------------------------------------------------------------------
(* Properties *)

TypeOK ==
  /\ rma \in [Rmas -> [status : RmaStatuses, amount : Nat]]
  /\ refund \in [RefundIds -> RefundRows \cup {NoRefund}]
  /\ refunded \in Nat
  /\ orderStatus \in {"delivered", "partially_refunded", "refunded"}
  /\ paid \in BOOLEAN
  /\ funds \in Nat
  /\ debited \subseteq RefundIds
  /\ completions \in [RefundIds -> Nat]
  /\ pc \in [Workers -> {"idle", "rma", "lock_order", "insert", "refund", "complete", "fail"}]
  /\ job \in [Workers -> Jobs]

\* No completion of a refund is lost and none is counted that did not happen, whatever
\* other tasks complete or fail at the same time; the order's status follows the sum.
RefundedIsCounted ==
  /\ refunded = SumFunction([r \in RefundIds |-> completions[r] * refund[r].amount])
  /\ orderStatus = StatusAfter(refunded, "delivered")

\* A refund the customer sees completed was taken from the merchant, and a task that
\* was refused by the wallet left nothing of its completion behind.
CompletedIsDebited ==
  \A r \in RefundIds :
    /\ refund[r].status = "completed" => r \in debited
    /\ r \in debited <=> completions[r] > 0

\* When a refund is added, all that are active fit in the order's total together, and
\* a return never gets a second one while its first is active.
RequestsAreCovered ==
  [][\A r \in RefundIds : r \notin Known /\ r \in Known' =>
       /\ SumOf(Active)' <= Total
       /\ refund'[r].rma # NoRma => ActiveOf(refund'[r].rma) = {}]_vars

\* The test of request_refund: validation prevents over-refunding.
DebitedWithinTotal == SumOf(debited) <= Total
=============================================================================
