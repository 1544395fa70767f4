--------------------------- MODULE ReturnsProofs ---------------------------
(***************************************************************************)
(* Returns, for every number of workers, returns and refunds: the types,   *)
(* that what completes was debited and counted, and that what is requested *)
(* fits in the order's total.  The inductive invariant says what the lock  *)
(* on the order is for: between the check of a request and its insertion   *)
(* nobody else adds a refund or brings one back, so the amount that fitted *)
(* still fits, and the return that had no active refund still has none.    *)
(***************************************************************************)
EXTENDS Returns, SumTheorems, TLAPS

\* A worker past its fetch works on something that exists.
Placed ==
  \A w \in Workers :
    /\ pc[w] = "rma" => job[w].rma \in Rmas
    /\ pc[w] \in {"refund", "complete", "fail"} => job[w].refund \in Known

\* Who is about to insert holds the order: its return has no active refund, and its
\* amount fits in what the active refunds leave.
Reserved ==
  /\ \A w \in Workers : pc[w] = "insert" =>
       ~HasActive(job[w].rma) /\ job[w].amount + SumOf(Active) =< Total
  /\ \A v, w \in Workers : pc[v] = "insert" /\ pc[w] = "insert" => v = w

\* Only a refund that was requested is completed.
OnlyKnownComplete == \A r \in RefundIds : completions[r] > 0 => r \in Known

Books == CompletedIsDebited /\ RefundedIsCounted /\ OnlyKnownComplete

IInv == TypeOK /\ Books /\ Placed /\ Reserved

-----------------------------------------------------------------------------
(* Helpers *)

\* The value of a row that does not exist is told from every row by its status.
LEMMA RealRefund ==
  ASSUME NEW x \in RefundRows \cup {NoRefund}
  PROVE  /\ x.status # "none" <=> x # NoRefund
         /\ x.amount \in Nat
         /\ x # NoRefund => x \in RefundRows
BY DEF RefundRows, NoRefund, RefundStatuses

LEMMA JobTypes ==
  /\ NoJob \in Jobs
  /\ NoJob.refund = 0
BY DEF NoJob, Jobs, RmaStatuses

\* Only the status of refund r is written: what is known and whose it is stay.
LEMMA StatusOnly ==
  ASSUME TypeOK, NEW r \in Known, NEW s \in RefundStatuses,
         refund' = [refund EXCEPT ![r].status = s]
  PROVE  /\ refund' \in [RefundIds -> RefundRows \cup {NoRefund}]
         /\ Known' = Known
         /\ refund'[r].status = s
         /\ \A q \in RefundIds : q # r => refund'[q] = refund[q]
         /\ \A q \in RefundIds : refund'[q].rma = refund[q].rma
         /\ \A q \in RefundIds : refund'[q].amount = refund[q].amount
<1>1. r \in RefundIds /\ refund[r] \in RefundRows
  BY RealRefund DEF TypeOK, Known
<1>2. refund'[r] = [refund[r] EXCEPT !.status = s]
  BY <1>1 DEF TypeOK
<1>3. refund'[r] \in RefundRows
  BY <1>1, <1>2 DEF RefundRows
<1>4. /\ refund' \in [RefundIds -> RefundRows \cup {NoRefund}]
      /\ \A q \in RefundIds : q # r => refund'[q] = refund[q]
  BY <1>1, <1>3 DEF TypeOK
<1>5. /\ refund'[r].status = s /\ refund'[r].rma = refund[r].rma
      /\ refund'[r].amount = refund[r].amount
  BY <1>1, <1>2 DEF RefundRows
<1>6. refund'[r] # NoRefund /\ refund[r] # NoRefund
  BY <1>1, <1>3 DEF RefundRows, RefundStatuses, NoRefund
<1> QED BY <1>1, <1>4, <1>5, <1>6 DEF Known

LEMMA FiniteRefunds == IsFiniteSet(RefundIds)
BY MaxRefundsAssumption, FS_Interval DEF RefundIds

\* The refunds of a set add up to a natural number.
LEMMA SumOfType ==
  ASSUME TypeOK, NEW S \in SUBSET RefundIds
  PROVE  SumOf(S) \in Nat
<1>1. IsFiniteSet(S)
  BY FiniteRefunds, FS_Subset
<1>2. \A r \in S : refund[r].amount \in Nat
  BY RealRefund DEF TypeOK
<1> DEFINE f == [r \in RefundIds |-> refund[r].amount]
<1>3. \A r \in S : f[r] \in Nat
  BY <1>2
<1> HIDE DEF f
<1>4. SumFunctionOnSet(f, S) \in Nat
  BY <1>1, <1>3, SumType
<1> QED BY <1>4 DEF SumOf, f

\* Fewer active refunds of the same amounts leave more of the total.
LEMMA ActiveShrinks ==
  ASSUME TypeOK, Active' \subseteq Active,
         \A r \in RefundIds : refund'[r].amount = refund[r].amount
  PROVE  SumOf(Active)' =< SumOf(Active) /\ SumOf(Active)' \in Nat
<1> DEFINE f == [r \in RefundIds |-> refund[r].amount]
           g == [r \in RefundIds |-> refund'[r].amount]
<1>1. Active \subseteq RefundIds /\ IsFiniteSet(Active)
  BY FiniteRefunds, FS_Subset DEF Active, Known
<1>2. f = g
  OBVIOUS
<1>3. \A r \in Active : f[r] \in Nat
  BY <1>1, RealRefund DEF TypeOK
<1>4. SumOf(Active) = SumFunctionOnSet(f, Active) /\ SumOf(Active)' = SumFunctionOnSet(g, Active')
  BY DEF SumOf
<1> HIDE DEF f, g
<1>5. SumFunctionOnSet(f, Active') =< SumFunctionOnSet(f, Active)
  BY <1>1, <1>3, SumMonotonic
<1>6. IsFiniteSet(Active') /\ \A r \in Active' : f[r] \in Nat
  BY <1>1, <1>3, FS_Subset
<1>7. SumFunctionOnSet(f, Active') \in Nat
  BY <1>6, SumType
<1> QED BY <1>2, <1>4, <1>5, <1>7

\* A new refund takes its amount from what is left.
LEMMA ActiveGrows ==
  ASSUME TypeOK, NEW r \in RefundIds, r \notin Known, NEW x \in RefundRows,
         x.status # "failed", refund' = [refund EXCEPT ![r] = x]
  PROVE  SumOf(Active)' = SumOf(Active) + x.amount
<1> DEFINE f == [q \in RefundIds |-> refund[q].amount]
           g == [q \in RefundIds |-> refund'[q].amount]
<1>1. Active \subseteq RefundIds /\ IsFiniteSet(Active) /\ r \notin Active
  BY FiniteRefunds, FS_Subset DEF Active, Known
<1>2. refund'[r] = x /\ \A q \in RefundIds : q # r => refund'[q] = refund[q]
  BY DEF TypeOK
<1>3. Active' = Active \cup {r}
  BY <1>2, RealRefund DEF Active, Known, RefundRows, RefundStatuses, NoRefund
<1>4. \A q \in Active : f[q] \in Nat /\ g[q] = f[q]
  BY <1>1, <1>2, RealRefund DEF TypeOK
<1>5. g[r] = x.amount /\ x.amount \in Nat
  BY <1>2 DEF RefundRows
<1>6. SumOf(Active) = SumFunctionOnSet(f, Active) /\ SumOf(Active)' = SumFunctionOnSet(g, Active')
  BY DEF SumOf
<1> HIDE DEF f, g
<1>7. SumFunctionOnSet(f, Active) = SumFunctionOnSet(g, Active)
  BY <1>1, <1>4, SumSame
<1>8. \A q \in Active \cup {r} : g[q] \in Int
  BY <1>4, <1>5
<1>9. SumFunctionOnSet(g, Active \cup {r}) = SumFunctionOnSet(g, Active) + g[r]
  BY <1>1, <1>8, SumAdd
<1> QED BY <1>3, <1>5, <1>6, <1>7, <1>9

\* The amount of a refund counts only from its first completion.
LEMMA CountedStays ==
  ASSUME RefundedIsCounted, UNCHANGED <<refunded, orderStatus, completions>>,
         TypeOK, \A q \in RefundIds : refund'[q].amount \in Int,
         \A q \in RefundIds : completions[q] = 0 \/ refund'[q].amount = refund[q].amount
  PROVE  RefundedIsCounted'
<1> DEFINE f == [q \in RefundIds |-> completions[q] * refund[q].amount]
           g == [q \in RefundIds |-> completions'[q] * refund'[q].amount]
<1>1. ASSUME NEW q \in RefundIds PROVE f[q] = g[q]
  <2>1. completions'[q] = completions[q] /\ refund[q].amount \in Int
    BY RealRefund DEF TypeOK
  <2>2. CASE completions[q] = 0
    BY <2>1, <2>2
  <2>3. CASE refund'[q].amount = refund[q].amount
    BY <2>1, <2>3
  <2> QED BY <2>2, <2>3
<1>2. f = g
  BY <1>1
<1>3. refunded = SumFunction(f) /\ orderStatus = StatusAfter(refunded, "delivered")
  BY DEF RefundedIsCounted
<1>4. refunded' = SumFunction(g) /\ orderStatus' = StatusAfter(refunded', "delivered")
  BY <1>2, <1>3 DEF StatusAfter
<1> QED BY <1>4 DEF RefundedIsCounted

\* A completion adds the refund's amount once more, and the status follows.
LEMMA CountedGrows ==
  ASSUME RefundedIsCounted, TypeOK, NEW r \in RefundIds,
         \A q \in RefundIds : refund'[q].amount = refund[q].amount,
         completions' = [completions EXCEPT ![r] = @ + 1],
         refunded' = refunded + refund[r].amount,
         orderStatus' = StatusAfter(refunded', orderStatus)
  PROVE  RefundedIsCounted'
<1> DEFINE f == [q \in RefundIds |-> completions[q] * refund[q].amount]
           g == [q \in RefundIds |-> completions'[q] * refund'[q].amount]
<1>1. ASSUME NEW q \in RefundIds
      PROVE  completions[q] \in Nat /\ completions'[q] \in Nat /\ refund[q].amount \in Nat
  BY RealRefund DEF TypeOK
<1>2. ASSUME NEW n \in Nat, NEW a \in Nat
      PROVE  n * a \in Nat /\ (n + 1) * a = n * a + a
  OBVIOUS
<1>3. \A q \in RefundIds : f[q] \in Nat /\ g[q] \in Nat
  BY <1>1, <1>2
<1>4. \A q \in RefundIds \ {r} : f[q] = g[q]
  BY DEF TypeOK
<1>5. f[r] = completions[r] * refund[r].amount
  OBVIOUS
<1>6. g[r] = (completions[r] + 1) * refund[r].amount
  BY DEF TypeOK
<1>7. g[r] = f[r] + refund[r].amount
  BY <1>1, <1>2, <1>5, <1>6
<1>8. refunded = SumFunctionOnSet(f, RefundIds) /\ DOMAIN g = RefundIds
  BY DEF RefundedIsCounted, SumFunction
<1> HIDE DEF f, g
<1>9. SumFunctionOnSet(g, RefundIds) = SumFunctionOnSet(f, RefundIds) - f[r] + g[r]
  BY <1>3, <1>4, FiniteRefunds, SumChange
<1>10. SumFunctionOnSet(f, RefundIds) \in Nat /\ f[r] \in Nat /\ refund[r].amount \in Nat
  BY <1>1, <1>3, FiniteRefunds, SumType
<1>11. refunded' = SumFunction(g)
  BY <1>7, <1>8, <1>9, <1>10 DEF SumFunction
<1>12. orderStatus' = StatusAfter(refunded', "delivered")
  BY <1>8, <1>10, AmountsAssumption DEF RefundedIsCounted, StatusAfter
<1> QED BY <1>11, <1>12 DEF RefundedIsCounted, g

\* A step that keeps the refunds and the completions keeps what relates them.
LEMMA BooksStay ==
  ASSUME Books, UNCHANGED <<refund, refunded, orderStatus, debited, completions>>
  PROVE  Books'
<1>1. CompletedIsDebited' /\ OnlyKnownComplete'
  BY DEF Books, CompletedIsDebited, OnlyKnownComplete, Known
<1>2. RefundedIsCounted'
  BY DEF Books, RefundedIsCounted
<1> QED BY <1>1, <1>2 DEF Books

LEMMA ActiveStay ==
  ASSUME UNCHANGED refund
  PROVE  SumOf(Active)' = SumOf(Active)
BY DEF SumOf, Active, Known

\* A step of one worker that is not about to insert, and touches no refund.
LEMMA OthersStay ==
  ASSUME TypeOK, Placed, Reserved, NEW w \in Workers, UNCHANGED refund,
         NEW p, NEW j,
         pc' = [pc EXCEPT ![w] = p], job' = [job EXCEPT ![w] = j],
         p # "insert", p = "rma" => j.rma \in Rmas,
         p \in {"refund", "complete", "fail"} => j.refund \in Known
  PROVE  Placed' /\ Reserved'
<1>1. /\ pc'[w] = p /\ job'[w] = j
      /\ \A v \in Workers : v # w => pc'[v] = pc[v] /\ job'[v] = job[v]
  BY DEF TypeOK
<1>2. Known' = Known
  BY DEF Known
<1>3. ASSUME NEW m PROVE HasActive(m)' = HasActive(m)
  BY DEF HasActive, ActiveOf, Active, Known
<1>4. Placed'
  BY <1>1, <1>2 DEF Placed
<1>5. Reserved'
  <2>1. ASSUME NEW v \in Workers, pc'[v] = "insert" PROVE ~HasActive(job[v].rma)'
    <3>1. v # w /\ pc[v] = "insert" /\ job'[v] = job[v]
      BY <1>1, <2>1
    <3> QED BY <3>1 DEF Reserved, HasActive, ActiveOf, Active, Known
  <2>2. ASSUME NEW v \in Workers, pc'[v] = "insert"
        PROVE  job'[v].amount + SumOf(Active)' =< Total
    <3>1. v # w /\ pc[v] = "insert" /\ job'[v] = job[v]
      BY <1>1, <2>2
    <3> QED BY <3>1, ActiveStay DEF Reserved
  <2>3. \A u, v \in Workers : pc'[u] = "insert" /\ pc'[v] = "insert" => u = v
    BY <1>1 DEF Reserved
  <2>4. \A v \in Workers : pc'[v] = "insert" => job'[v] = job[v]
    BY <1>1
  <2> QED BY <2>1, <2>2, <2>3, <2>4 DEF Reserved
<1> QED BY <1>4, <1>5

\* A step that touches neither a worker nor a refund.
LEMMA WorkersStay ==
  ASSUME Placed, Reserved, UNCHANGED <<refund, pc, job>>
  PROVE  Placed' /\ Reserved'
<1>1. Placed'
  BY DEF Placed, Known
<1>2. \A v \in Workers : HasActive(job[v].rma)' = HasActive(job[v].rma)
  BY DEF HasActive, ActiveOf, Active, Known
<1>3. Reserved'
  BY <1>2, ActiveStay DEF Reserved
<1> QED BY <1>1, <1>3

\* A refund that fails was counted, or not, before.
LEMMA FailureKeepsBooks ==
  ASSUME TypeOK, Books, NEW r \in Known, refund' = [refund EXCEPT ![r].status = "failed"],
         UNCHANGED <<refunded, orderStatus, debited, completions>>
  PROVE  Books'
<1>1. /\ Known' = Known
      /\ refund'[r].status = "failed"
      /\ \A q \in RefundIds : q # r => refund'[q] = refund[q]
      /\ \A q \in RefundIds : refund'[q].amount = refund[q].amount
  BY StatusOnly DEF RefundStatuses
<1>2. CompletedIsDebited'
  BY <1>1 DEF Books, CompletedIsDebited
<1>3. OnlyKnownComplete'
  BY <1>1 DEF Books, OnlyKnownComplete
<1>4. \A q \in RefundIds : refund'[q].amount \in Int
  BY <1>1, RealRefund DEF TypeOK
<1>5. RefundedIsCounted'
  BY <1>1, <1>4, CountedStays DEF Books
<1> QED BY <1>2, <1>3, <1>5 DEF Books

-----------------------------------------------------------------------------
(* The inductive invariant: the steps of a return *)

LEMMA RequestRmaKeeps ==
  ASSUME IInv, NEW m \in Rmas, RequestRma(m)
  PROVE  IInv'
<1>1. TypeOK'
  BY DEF IInv, TypeOK, RequestRma, RmaStatuses
<1>2. Books'
  BY BooksStay DEF IInv, RequestRma
<1>3. Placed' /\ Reserved'
  BY WorkersStay DEF IInv, RequestRma
<1> QED BY <1>1, <1>2, <1>3 DEF IInv

LEMMA PayKeeps ==
  ASSUME IInv, Pay
  PROVE  IInv'
<1>1. TypeOK'
  BY DEF IInv, TypeOK, Pay
<1>2. Books'
  BY BooksStay DEF IInv, Pay
<1>3. Placed' /\ Reserved'
  BY WorkersStay DEF IInv, Pay
<1> QED BY <1>1, <1>2, <1>3 DEF IInv

LEMMA FetchRmaKeeps ==
  ASSUME IInv, NEW w \in Workers, NEW m \in Rmas, FetchRma(w, m)
  PROVE  IInv'
<1> DEFINE j == [NoJob EXCEPT !.rma = m, !.seen = rma[m].status]
<1>1. j \in Jobs /\ j.rma = m
  BY JobTypes DEF Jobs, NoJob, IInv, TypeOK
<1>2. TypeOK'
  BY <1>1 DEF IInv, TypeOK, FetchRma
<1>3. Books'
  BY BooksStay DEF IInv, FetchRma
<1>4. Placed' /\ Reserved'
  BY <1>1, OthersStay DEF IInv, FetchRma
<1> QED BY <1>2, <1>3, <1>4 DEF IInv

\* A return's status changes and the request ends.
LEMMA RmaStepKeeps ==
  ASSUME IInv, NEW w \in Workers, Return(w),
         rma' \in [Rmas -> [status : RmaStatuses, amount : Nat]],
         UNCHANGED <<refund, refunded, orderStatus, paid, funds, debited, completions>>
  PROVE  IInv'
<1>1. TypeOK'
  BY JobTypes DEF IInv, TypeOK, Return
<1>2. Books'
  BY BooksStay DEF IInv
<1>3. Placed' /\ Reserved'
  BY OthersStay DEF IInv, Return
<1> QED BY <1>1, <1>2, <1>3 DEF IInv

LEMMA ChangeStatusKeeps ==
  ASSUME IInv, NEW w \in Workers, NEW op, ChangeStatus(w, op)
  PROVE  IInv'
<1>1. Transition(op)[2] \in RmaStatuses /\ job[w].rma \in Rmas
  BY DEF ChangeStatus, Transition, RmaStatuses, IInv, Placed
<1>2. rma' \in [Rmas -> [status : RmaStatuses, amount : Nat]]
  BY <1>1 DEF ChangeStatus, IInv, TypeOK
<1> QED BY <1>2, RmaStepKeeps DEF ChangeStatus

LEMMA InspectReturnKeeps ==
  ASSUME IInv, NEW w \in Workers, NEW amount \in Amounts, InspectReturn(w, amount)
  PROVE  IInv'
<1>1. Transition("inspect")[2] \in RmaStatuses /\ amount \in Nat
  BY AmountsAssumption DEF Transition, RmaStatuses
<1>2. rma' \in [Rmas -> [status : RmaStatuses, amount : Nat]]
  BY <1>1 DEF InspectReturn, IInv, TypeOK
<1> QED BY <1>2, RmaStepKeeps DEF InspectReturn

LEMMA CompleteRmaKeeps ==
  ASSUME IInv, NEW w \in Workers, CompleteRma(w)
  PROVE  IInv'
<1> DEFINE m == job[w].rma
<1>1. m \in Rmas
  BY DEF CompleteRma, IInv, Placed
<1>2. CASE pc' = [pc EXCEPT ![w] = "lock_order"] /\ UNCHANGED rma
           /\ job' = [job EXCEPT ![w].amount = rma[m].amount]
  <2> DEFINE j == [job[w] EXCEPT !.amount = rma[m].amount]
  <2>1. j \in Jobs /\ job' = [job EXCEPT ![w] = j]
    BY <1>1, <1>2 DEF IInv, TypeOK, Jobs
  <2>2. TypeOK'
    BY <1>2, <2>1 DEF IInv, TypeOK, CompleteRma
  <2>3. Books'
    BY BooksStay DEF IInv, CompleteRma
  <2>4. Placed' /\ Reserved'
    BY <1>2, <2>1, OthersStay DEF IInv, CompleteRma
  <2> QED BY <2>2, <2>3, <2>4 DEF IInv
<1>3. CASE rma' = [rma EXCEPT ![m].status = "completed"] /\ Return(w)
  <2>1. rma' \in [Rmas -> [status : RmaStatuses, amount : Nat]]
    BY <1>1, <1>3 DEF IInv, TypeOK, RmaStatuses
  <2> QED BY <1>3, <2>1, RmaStepKeeps DEF CompleteRma
<1> QED BY <1>2, <1>3 DEF CompleteRma

-----------------------------------------------------------------------------
(* The inductive invariant: requesting a refund *)

LEMMA RequestRefundKeeps ==
  ASSUME IInv, NEW w \in Workers, NEW amount \in Amounts, RequestRefund(w, amount)
  PROVE  IInv'
<1> DEFINE j == [NoJob EXCEPT !.amount = amount]
<1>1. j \in Jobs
  BY JobTypes, AmountsAssumption DEF Jobs, NoJob
<1>2. TypeOK'
  BY <1>1 DEF IInv, TypeOK, RequestRefund
<1>3. Books'
  BY BooksStay DEF IInv, RequestRefund
<1>4. Placed' /\ Reserved'
  BY OthersStay DEF IInv, RequestRefund
<1> QED BY <1>2, <1>3, <1>4 DEF IInv

LEMMA ReuseRefundKeeps ==
  ASSUME IInv, NEW w \in Workers, ReuseRefund(w)
  PROVE  IInv'
<1>1. job[w].rma \in Rmas
  BY DEF ReuseRefund, HasActive, IInv, TypeOK, Jobs
<1>2. rma' \in [Rmas -> [status : RmaStatuses, amount : Nat]]
  BY <1>1 DEF ReuseRefund, IInv, TypeOK, RmaStatuses
<1> QED BY <1>2, RmaStepKeeps DEF ReuseRefund

LEMMA RefuseRefundKeeps ==
  ASSUME IInv, NEW w \in Workers, RefuseRefund(w)
  PROVE  IInv'
<1>1. rma' \in [Rmas -> [status : RmaStatuses, amount : Nat]]
  BY DEF RefuseRefund, IInv, TypeOK
<1> QED BY <1>1, RmaStepKeeps DEF RefuseRefund

\* The worker takes the order's lock: nobody else is at the insertion.
LEMMA AllowRefundKeeps ==
  ASSUME IInv, NEW w \in Workers, AllowRefund(w)
  PROVE  IInv'
<1>1. TypeOK'
  BY DEF IInv, TypeOK, AllowRefund
<1>2. Books'
  BY BooksStay DEF IInv, AllowRefund
<1>3. Known' = Known /\ \A v \in Workers : HasActive(job[v].rma)' = HasActive(job[v].rma)
  BY DEF AllowRefund, HasActive, ActiveOf, Active, Known
<1>4. /\ pc'[w] = "insert" /\ job' = job
      /\ \A v \in Workers : v # w => pc'[v] = pc[v] /\ pc[v] # "insert"
  BY DEF AllowRefund, OrderFree, IInv, TypeOK
<1>5. Placed'
  BY <1>3, <1>4 DEF Placed, IInv
<1>6. job[w].amount + SumOf(Active) =< Total
  <2>1. SumOf(Active) \in Nat
    BY SumOfType DEF IInv, Active, Known
  <2>2. job[w].amount \in Nat /\ Total \in Nat
    BY AmountsAssumption DEF IInv, TypeOK, Jobs
  <2> QED BY <2>1, <2>2 DEF AllowRefund
<1>7. SumOf(Active)' = SumOf(Active)
  BY ActiveStay DEF AllowRefund
<1>8. Reserved'
  BY <1>3, <1>4, <1>6, <1>7 DEF Reserved, AllowRefund
<1> QED BY <1>1, <1>2, <1>5, <1>8 DEF IInv

\* The lock is given back with the new row in place.
LEMMA InsertRefundKeeps ==
  ASSUME IInv, NEW w \in Workers, InsertRefund(w)
  PROVE  IInv'
<1> DEFINE m == job[w].rma
           x == [status |-> "initiated", amount |-> job[w].amount, rma |-> m]
<1> USE DEF IInv
<1>1. PICK r \in RefundIds : r \notin Known /\ refund' = [refund EXCEPT ![r] = x]
  BY DEF InsertRefund
<1>2. x \in RefundRows /\ x # NoRefund /\ m \in Rmas \cup {NoRma}
  BY DEF TypeOK, Jobs, RefundRows, RefundStatuses, NoRefund
<1>3. /\ refund' \in [RefundIds -> RefundRows \cup {NoRefund}]
      /\ refund'[r] = x
      /\ \A q \in RefundIds : q # r => refund'[q] = refund[q]
  BY <1>1, <1>2 DEF TypeOK
<1>4. rma' \in [Rmas -> [status : RmaStatuses, amount : Nat]]
  BY <1>2 DEF InsertRefund, TypeOK, RmaStatuses
<1>5. TypeOK'
  BY <1>3, <1>4, JobTypes DEF TypeOK, InsertRefund, Return
<1>6. Books'
  <2>1. completions[r] = 0 /\ \A q \in RefundIds : refund'[q].amount \in Int
    BY <1>1, <1>3, RealRefund DEF Books, OnlyKnownComplete, TypeOK
  <2>2. CompletedIsDebited'
    BY <1>3 DEF Books, CompletedIsDebited, InsertRefund
  <2>3. OnlyKnownComplete'
    BY <1>1, <1>2, <1>3 DEF Books, OnlyKnownComplete, Known, InsertRefund
  <2>4. RefundedIsCounted'
    BY <1>3, <2>1, CountedStays DEF Books, InsertRefund
  <2> QED BY <2>2, <2>3, <2>4 DEF Books
<1>7. Known \subseteq Known'
  BY <1>2, <1>3 DEF Known
<1>8. /\ pc'[w] = "idle"
      /\ \A v \in Workers : v # w => pc'[v] = pc[v] /\ job'[v] = job[v]
  BY DEF InsertRefund, Return, TypeOK
<1>9. Placed'
  BY <1>7, <1>8 DEF Placed
<1>10. Reserved'
  <2>1. \A v \in Workers : pc'[v] # "insert"
    BY <1>8 DEF InsertRefund, Reserved
  <2> QED BY <2>1 DEF Reserved
<1> QED BY <1>5, <1>6, <1>9, <1>10

-----------------------------------------------------------------------------
(* The inductive invariant: processing a refund *)

LEMMA FetchRefundKeeps ==
  ASSUME IInv, NEW w \in Workers, NEW r \in RefundIds, FetchRefund(w, r)
  PROVE  IInv'
<1> DEFINE j == [NoJob EXCEPT !.refund = r, !.seen = "initiated"]
<1>1. j \in Jobs /\ j.refund = r
  BY JobTypes DEF Jobs, NoJob, RefundStatuses
<1>2. r \in Known
  BY DEF Known, FetchRefund, NoRefund
<1>3. TypeOK'
  BY <1>1 DEF IInv, TypeOK, FetchRefund
<1>4. Books'
  BY BooksStay DEF IInv, FetchRefund
<1>5. Placed' /\ Reserved'
  BY <1>1, <1>2, OthersStay DEF IInv, FetchRefund
<1> QED BY <1>3, <1>4, <1>5 DEF IInv

LEMMA AskGatewayKeeps ==
  ASSUME IInv, NEW w \in Workers, AskGateway(w)
  PROVE  IInv'
<1>1. TypeOK'
  BY DEF IInv, TypeOK, AskGateway
<1>2. Books'
  BY BooksStay DEF IInv, AskGateway
<1>3. job' = [job EXCEPT ![w] = job[w]]
  BY DEF IInv, TypeOK, AskGateway
<1>4. job[w].refund \in Known
  BY DEF IInv, Placed, AskGateway
<1>5. Placed' /\ Reserved'
  BY <1>3, <1>4, OthersStay DEF IInv, AskGateway
<1> QED BY <1>1, <1>2, <1>5 DEF IInv

\* The status of a known refund is written and the request ends: a failure may end the
\* reservation of a return, and only a step of the order's holder makes one active.
LEMMA WrittenKeeps ==
  ASSUME IInv, NEW w \in Workers, NEW r \in Known, NEW s \in RefundStatuses,
         refund' = [refund EXCEPT ![r].status = s], Return(w),
         s = "failed" \/ OrderFree
  PROVE  Known' = Known /\ Placed' /\ Reserved'
<1> USE DEF IInv
<1>1. /\ Known' = Known
      /\ refund'[r].status = s
      /\ \A q \in RefundIds : q # r => refund'[q] = refund[q]
      /\ \A q \in RefundIds : refund'[q].rma = refund[q].rma
  BY StatusOnly
<1>2. /\ pc'[w] = "idle"
      /\ \A v \in Workers : v # w => pc'[v] = pc[v] /\ job'[v] = job[v]
  BY DEF Return, TypeOK
<1>3. Placed'
  BY <1>1, <1>2 DEF Placed
<1>4. CASE s = "failed"
  <2>1. ASSUME NEW m PROVE ActiveOf(m)' \subseteq ActiveOf(m)
    BY <1>1, <1>4 DEF ActiveOf, Active, Known
  <2>2. ASSUME NEW v \in Workers, pc'[v] = "insert" PROVE ~HasActive(job[v].rma)'
    <3>1. ~HasActive(job[v].rma) /\ job'[v] = job[v]
      BY <1>2, <2>2 DEF Reserved
    <3> QED BY <2>1, <3>1 DEF HasActive
  <2>3. \A u, v \in Workers : pc'[u] = "insert" /\ pc'[v] = "insert" => u = v
    BY <1>2 DEF Reserved
  <2>4. SumOf(Active)' =< SumOf(Active) /\ SumOf(Active)' \in Nat
    BY <1>1, <1>4, ActiveShrinks DEF Active, Known
  <2>5. SumOf(Active) \in Nat
    BY SumOfType DEF Active, Known
  <2>6. ASSUME NEW v \in Workers, pc'[v] = "insert"
        PROVE  job'[v].amount + SumOf(Active)' =< Total
    <3>1. job[v].amount + SumOf(Active) =< Total /\ job'[v] = job[v]
      BY <1>2, <2>6 DEF Reserved
    <3>2. job[v].amount \in Nat
      BY DEF TypeOK, Jobs
    <3> QED BY <2>4, <2>5, <3>1, <3>2, AmountsAssumption
  <2> QED BY <1>1, <1>3, <2>2, <2>3, <2>6 DEF Reserved
<1>5. CASE OrderFree
  <2>1. \A v \in Workers : pc'[v] # "insert"
    BY <1>2, <1>5 DEF OrderFree
  <2> QED BY <1>1, <1>3, <2>1 DEF Reserved
<1> QED BY <1>4, <1>5

LEMMA FailRefundKeeps ==
  ASSUME IInv, NEW w \in Workers, FailRefund(w)
  PROVE  IInv'
<1> DEFINE r == job[w].refund
<1>1. r \in Known
  BY DEF IInv, Placed, FailRefund
<1>2. /\ refund' \in [RefundIds -> RefundRows \cup {NoRefund}]
      /\ refund'[r].status = "failed"
      /\ \A q \in RefundIds : q # r => refund'[q] = refund[q]
  BY <1>1, StatusOnly DEF IInv, FailRefund, RefundStatuses
<1>3. TypeOK'
  BY <1>2, JobTypes DEF IInv, TypeOK, FailRefund, Return
<1>4. Books'
  BY <1>1, FailureKeepsBooks DEF IInv, FailRefund
<1>5. Placed' /\ Reserved'
  BY <1>1, WrittenKeeps DEF FailRefund, RefundStatuses
<1> QED BY <1>3, <1>4, <1>5 DEF IInv

LEMMA CannotDebitKeeps ==
  ASSUME IInv, NEW w \in Workers, CannotDebit(w)
  PROVE  IInv'
<1> DEFINE r == job[w].refund
<1>1. r \in Known
  BY DEF IInv, Placed, CannotDebit
<1>2. /\ refund' \in [RefundIds -> RefundRows \cup {NoRefund}]
      /\ refund'[r].status = "failed"
      /\ \A q \in RefundIds : q # r => refund'[q] = refund[q]
  BY <1>1, StatusOnly DEF IInv, CannotDebit, RefundStatuses
<1>3. TypeOK'
  BY <1>2, JobTypes DEF IInv, TypeOK, CannotDebit, Return
<1>4. Books'
  BY <1>1, FailureKeepsBooks DEF IInv, CannotDebit
<1>5. Placed' /\ Reserved'
  BY <1>1, WrittenKeeps DEF CannotDebit, RefundStatuses
<1> QED BY <1>3, <1>4, <1>5 DEF IInv

\* The refund, the order and the wallet are written in one transaction.
LEMMA CompleteRefundKeeps ==
  ASSUME IInv, NEW w \in Workers, CompleteRefund(w)
  PROVE  IInv'
<1> DEFINE r == job[w].refund
<1>1. r \in Known /\ r \in RefundIds
  BY DEF IInv, Placed, CompleteRefund, Known
<1>2. refund[r].amount \in Nat
  BY <1>1, RealRefund DEF IInv, TypeOK
<1>3. /\ refund' \in [RefundIds -> RefundRows \cup {NoRefund}]
      /\ refund'[r].status = "completed"
      /\ \A q \in RefundIds : q # r => refund'[q] = refund[q]
  BY <1>1, StatusOnly DEF IInv, CompleteRefund, RefundStatuses
<1>4. /\ debited' = debited \cup {r}
      /\ completions' = [completions EXCEPT ![r] = @ + 1]
  BY DEF CompleteRefund, Debit
<1>5. funds' \in Nat
  BY <1>2 DEF IInv, TypeOK, CompleteRefund, CanDebit, Debit
<1>6. refunded' \in Nat
  BY <1>2 DEF IInv, TypeOK, CompleteRefund
<1>7. orderStatus' \in {"delivered", "partially_refunded", "refunded"}
  BY DEF IInv, TypeOK, CompleteRefund, StatusAfter
<1>8. TypeOK'
  <2>1. completions' \in [RefundIds -> Nat] /\ debited' \subseteq RefundIds
    BY <1>1, <1>4 DEF IInv, TypeOK
  <2>2. pc' \in [Workers -> {"idle", "rma", "lock_order", "insert", "refund",
                             "complete", "fail"}] /\ job' \in [Workers -> Jobs]
    BY JobTypes DEF IInv, TypeOK, CompleteRefund, Return
  <2> QED BY <1>3, <1>5, <1>6, <1>7, <2>1, <2>2 DEF IInv, TypeOK, CompleteRefund
<1>9. Books'
  <2>1. completions'[r] > 0 /\ r \in debited'
    BY <1>1, <1>4 DEF IInv, TypeOK
  <2>2. \A q \in RefundIds : q # r =>
          completions'[q] = completions[q] /\ (q \in debited' <=> q \in debited)
    BY <1>4 DEF IInv, TypeOK
  <2>3. CompletedIsDebited'
    BY <1>3, <2>1, <2>2 DEF IInv, Books, CompletedIsDebited
  <2>4. Known' = Known /\ \A q \in RefundIds : refund'[q].amount = refund[q].amount
    BY <1>1, StatusOnly DEF IInv, CompleteRefund, RefundStatuses
  <2>5. OnlyKnownComplete'
    BY <1>1, <2>2, <2>4 DEF IInv, Books, OnlyKnownComplete
  <2>6. RefundedIsCounted'
    BY <1>1, <1>4, <2>4, CountedGrows DEF IInv, Books, CompleteRefund
  <2> QED BY <2>3, <2>5, <2>6 DEF Books
<1>10. Placed' /\ Reserved'
  BY <1>1, WrittenKeeps DEF CompleteRefund, RefundStatuses
<1> QED BY <1>8, <1>9, <1>10 DEF IInv

-----------------------------------------------------------------------------
(* The theorems *)

LEMMA InitHolds == Init => IInv
<1> SUFFICES ASSUME Init PROVE IInv
  OBVIOUS
<1>1. TypeOK
  BY JobTypes, AmountsAssumption DEF Init, TypeOK, RmaStatuses
<1>2. CompletedIsDebited /\ OnlyKnownComplete
  BY DEF Init, CompletedIsDebited, OnlyKnownComplete, NoRefund
<1>3. RefundedIsCounted
  <2> DEFINE f == [r \in RefundIds |-> completions[r] * refund[r].amount]
  <2>1. \A r \in RefundIds : f[r] = 0
    BY DEF Init, NoRefund
  <2>2. DOMAIN f = RefundIds
    OBVIOUS
  <2> HIDE DEF f
  <2>3. SumFunctionOnSet(f, RefundIds) = 0
    BY <2>1, FiniteRefunds, SumZero
  <2>4. refunded = SumFunction(f)
    BY <2>2, <2>3 DEF Init, SumFunction
  <2>5. orderStatus = StatusAfter(refunded, "delivered")
    BY AmountsAssumption DEF Init, StatusAfter
  <2> QED BY <2>4, <2>5 DEF RefundedIsCounted, f
<1>4. Placed /\ Reserved
  BY DEF Init, Placed, Reserved
<1> QED BY <1>1, <1>2, <1>3, <1>4 DEF IInv, Books

LEMMA StutterKeeps ==
  ASSUME IInv, UNCHANGED vars
  PROVE  IInv'
<1>1. TypeOK'
  BY DEF IInv, vars, TypeOK
<1>2. Books'
  BY BooksStay DEF IInv, vars
<1>3. Placed' /\ Reserved'
  BY WorkersStay DEF IInv, vars
<1> QED BY <1>1, <1>2, <1>3 DEF IInv

LEMMA NextKeeps == IInv /\ [Next]_vars => IInv'
<1> SUFFICES ASSUME IInv, [Next]_vars PROVE IInv'
  OBVIOUS
<1>1. ASSUME NEW w \in Workers, RmaStep(w) PROVE IInv'
  BY <1>1, FetchRmaKeeps, ChangeStatusKeeps, InspectReturnKeeps, CompleteRmaKeeps
     DEF RmaStep
<1>2. ASSUME NEW w \in Workers, RequestStep(w) PROVE IInv'
  BY <1>2, RequestRefundKeeps, ReuseRefundKeeps, RefuseRefundKeeps, AllowRefundKeeps,
     InsertRefundKeeps DEF RequestStep
<1>3. ASSUME NEW w \in Workers, ProcessStep(w) PROVE IInv'
  BY <1>3, FetchRefundKeeps, AskGatewayKeeps, FailRefundKeeps, CompleteRefundKeeps,
     CannotDebitKeeps DEF ProcessStep
<1> QED BY <1>1, <1>2, <1>3, RequestRmaKeeps, PayKeeps, StutterKeeps DEF Next

LEMMA Invariance == Spec => []IInv
BY InitHolds, NextKeeps, PTL DEF Spec

\* The rows, the order and the wallet keep their types, the wallet's funds are never
\* negative among them, whatever views and tasks do at the same time.
THEOREM TypesHold == Spec => []TypeOK
BY Invariance, PTL DEF IInv

\* A completed refund was debited from the merchant, once it was completed at all; the
\* refusal of the wallet leaves no completion behind (complete_refund's transaction).
THEOREM CompletionsAreDebited == Spec => []CompletedIsDebited
BY Invariance, PTL DEF IInv, Books

\* refunded_amount is the sum of the amounts of all completions, in whatever order tasks
\* complete and fail refunds, and the order's status is the one of that sum.
THEOREM CompletionsAreCounted == Spec => []RefundedIsCounted
BY Invariance, PTL DEF IInv, Books

-----------------------------------------------------------------------------
(* What a step may add *)

\* A refund is added only where it fits, and to a return only when it has no active one.
NewRefundIsCovered ==
  \A r \in RefundIds : r \notin Known /\ r \in Known' =>
    /\ SumOf(Active)' <= Total
    /\ refund'[r].rma # NoRma => ActiveOf(refund'[r].rma) = {}

LEMMA NoNewRefund ==
  ASSUME Known' = Known
  PROVE  NewRefundIsCovered
BY DEF NewRefundIsCovered

LEMMA InsertIsCovered ==
  ASSUME IInv, NEW w \in Workers, InsertRefund(w)
  PROVE  NewRefundIsCovered
<1> USE DEF IInv
<1> DEFINE x == [status |-> "initiated", amount |-> job[w].amount, rma |-> job[w].rma]
<1>1. PICK q \in RefundIds : q \notin Known /\ refund' = [refund EXCEPT ![q] = x]
  BY DEF InsertRefund
<1>2. ~HasActive(job[w].rma) /\ job[w].amount + SumOf(Active) =< Total
  BY DEF InsertRefund, Reserved
<1>3. \A r \in RefundIds : r \notin Known /\ r \in Known' => refund'[r].rma = job[w].rma
  BY <1>1 DEF Known, TypeOK
<1>4. x \in RefundRows /\ x.status # "failed" /\ x.amount = job[w].amount
  BY DEF TypeOK, Jobs, RefundRows, RefundStatuses
<1>5. SumOf(Active)' = SumOf(Active) + x.amount
  BY <1>1, <1>4, ActiveGrows
<1>6. SumOf(Active) \in Nat /\ job[w].amount \in Nat
  BY SumOfType DEF TypeOK, Jobs, Active, Known
<1>7. SumOf(Active)' <= Total
  BY <1>2, <1>4, <1>5, <1>6
<1> QED BY <1>2, <1>3, <1>7 DEF NewRefundIsCovered, HasActive

LEMMA StepIsCovered == IInv /\ [Next]_vars => NewRefundIsCovered
<1> SUFFICES ASSUME IInv, [Next]_vars PROVE NewRefundIsCovered
  OBVIOUS
<1>1. ASSUME NEW w \in Workers, FailRefund(w) \/ CompleteRefund(w) \/ CannotDebit(w)
      PROVE  NewRefundIsCovered
  <2>1. job[w].refund \in Known
    BY <1>1 DEF IInv, Placed, FailRefund, CompleteRefund, CannotDebit
  <2>2. PICK s \in RefundStatuses : refund' = [refund EXCEPT ![job[w].refund].status = s]
    BY <1>1 DEF FailRefund, CompleteRefund, CannotDebit, RefundStatuses
  <2>3. Known' = Known
    BY <2>1, <2>2, StatusOnly DEF IInv
  <2> QED BY <2>3, NoNewRefund
<1>2. CASE UNCHANGED refund
  BY <1>2, NoNewRefund DEF Known
<1>3. ASSUME NEW w \in Workers, RmaStep(w) PROVE UNCHANGED refund
  BY <1>3 DEF RmaStep, FetchRma, ChangeStatus, InspectReturn, CompleteRma
<1>4. ASSUME NEW w \in Workers, RequestStep(w) PROVE UNCHANGED refund \/ InsertRefund(w)
  BY <1>4 DEF RequestStep, RequestRefund, ReuseRefund, RefuseRefund, AllowRefund
<1>5. ASSUME NEW w \in Workers, ProcessStep(w)
      PROVE  UNCHANGED refund \/ FailRefund(w) \/ CompleteRefund(w) \/ CannotDebit(w)
  BY <1>5 DEF ProcessStep, FetchRefund, AskGateway
<1> QED BY <1>1, <1>2, <1>3, <1>4, <1>5, InsertIsCovered DEF Next, vars, RequestRma, Pay

\* Between the check of a request and its insertion nobody adds a refund or brings one
\* back: what is requested fits in the order's total with all that is active, and a return
\* has one active refund at a time, however many requests complete it.
THEOREM RequestsFit == Spec => RequestsAreCovered
<1>1. IInv /\ [Next]_vars => [NewRefundIsCovered]_vars
  BY StepIsCovered
<1>2. Spec => [][NewRefundIsCovered]_vars
  BY <1>1, Invariance, PTL DEF Spec
<1> QED BY <1>2 DEF RequestsAreCovered, NewRefundIsCovered

-----------------------------------------------------------------------------
(* What the merchant pays *)

Processing(w) == pc[w] \in {"refund", "complete", "fail"}

\* No two tasks process one refund at the same time.
OneTaskPerRefund ==
  \A v, w \in Workers :
    Processing(v) /\ Processing(w) /\ job[v].refund = job[w].refund => v = w

\* Then the instance a task fetched is still what is stored, and a refund that was
\* completed stays so.
ProcessedIsInitiated ==
  \A w \in Workers : Processing(w) => refund[job[w].refund].status = "initiated"
DebitedIsCompleted == \A r \in debited : refund[r].status = "completed"

PaidInv == ProcessedIsInitiated /\ DebitedIsCompleted /\ SumOf(Active) <= Total

LEMMA PaidFits ==
  ASSUME IInv, PaidInv
  PROVE  DebitedWithinTotal
<1> DEFINE f == [r \in RefundIds |-> refund[r].amount]
<1>1. IsFiniteSet(Active) /\ Active \subseteq RefundIds
  BY FiniteRefunds, FS_Subset DEF Active, Known
<1>2. debited \subseteq Active
  BY DEF PaidInv, DebitedIsCompleted, IInv, TypeOK, Active, Known, NoRefund
<1>3. \A r \in Active : f[r] \in Nat
  BY <1>1, RealRefund DEF IInv, TypeOK
<1>4. SumOf(debited) = SumFunctionOnSet(f, debited) /\ SumOf(Active) = SumFunctionOnSet(f, Active)
  BY DEF SumOf
<1> HIDE DEF f
<1>5. SumFunctionOnSet(f, debited) =< SumFunctionOnSet(f, Active)
  BY <1>1, <1>2, <1>3, SumMonotonic
<1>6. SumOf(debited) \in Nat /\ SumOf(Active) \in Nat /\ Total \in Nat
  BY <1>1, SumOfType, AmountsAssumption DEF IInv, TypeOK
<1> QED BY <1>4, <1>5, <1>6 DEF PaidInv, DebitedWithinTotal

\* A step that touches no refund, and takes up only what is initiated.
LEMMA PaidStays ==
  ASSUME PaidInv, UNCHANGED <<refund, debited>>,
         \A v \in Workers : Processing(v)' =>
           \/ Processing(v) /\ job'[v].refund = job[v].refund
           \/ refund[job'[v].refund].status = "initiated"
  PROVE  PaidInv'
<1>1. ProcessedIsInitiated' /\ DebitedIsCompleted'
  BY DEF PaidInv, ProcessedIsInitiated, DebitedIsCompleted
<1> QED BY <1>1, ActiveStay DEF PaidInv

LEMMA InsertionPays ==
  ASSUME IInv, PaidInv, NEW w \in Workers, InsertRefund(w)
  PROVE  PaidInv'
<1> DEFINE x == [status |-> "initiated", amount |-> job[w].amount, rma |-> job[w].rma]
<1> USE DEF IInv
<1>1. PICK r \in RefundIds : r \notin Known /\ refund' = [refund EXCEPT ![r] = x]
  BY DEF InsertRefund
<1>2. \A q \in Known : refund'[q] = refund[q]
  BY <1>1 DEF Known, TypeOK
<1>3. ProcessedIsInitiated'
  <2>1. ASSUME NEW v \in Workers, Processing(v)'
        PROVE  Processing(v) /\ job'[v] = job[v]
    BY <2>1 DEF InsertRefund, Return, TypeOK, Processing
  <2>2. \A v \in Workers : Processing(v) => job[v].refund \in Known
    BY DEF Placed, Processing
  <2> QED BY <1>2, <2>1, <2>2 DEF PaidInv, ProcessedIsInitiated
<1>4. DebitedIsCompleted'
  <2>1. debited \subseteq Known /\ debited' = debited
    BY DEF Books, CompletedIsDebited, OnlyKnownComplete, TypeOK, InsertRefund
  <2> QED BY <1>2, <2>1 DEF PaidInv, DebitedIsCompleted
<1>5. r \in Known'
  BY <1>1 DEF Known, TypeOK, NoRefund
<1>6. SumOf(Active)' <= Total
  BY <1>1, <1>5, InsertIsCovered DEF NewRefundIsCovered
<1> QED BY <1>3, <1>4, <1>6 DEF PaidInv

\* The one task of a refund writes what became of it.
LEMMA ResultPays ==
  ASSUME IInv, PaidInv, OneTaskPerRefund, NEW w \in Workers, NEW r \in RefundIds,
         Processing(w), r = job[w].refund, Return(w), NEW s \in {"completed", "failed"},
         refund' = [refund EXCEPT ![r].status = s],
         debited' = IF s = "completed" THEN debited \cup {r} ELSE debited
  PROVE  PaidInv'
<1> USE DEF IInv
<1>1. r \in Known /\ s \in RefundStatuses /\ refund[r].status = "initiated"
  BY DEF Placed, Processing, PaidInv, ProcessedIsInitiated, RefundStatuses
<1>2. /\ Known' = Known
      /\ refund'[r].status = s
      /\ \A q \in RefundIds : q # r => refund'[q] = refund[q]
      /\ \A q \in RefundIds : refund'[q].amount = refund[q].amount
  BY <1>1, StatusOnly
<1>3. ProcessedIsInitiated'
  <2>1. ASSUME NEW v \in Workers, Processing(v)'
        PROVE  v # w /\ Processing(v) /\ job'[v] = job[v]
    BY <2>1 DEF Return, TypeOK, Processing
  <2>2. ASSUME NEW v \in Workers, v # w, Processing(v)
        PROVE  job[v].refund # r /\ job[v].refund \in RefundIds
    BY <2>2 DEF OneTaskPerRefund, Placed, Processing, Known
  <2> QED BY <1>2, <2>1, <2>2 DEF PaidInv, ProcessedIsInitiated
<1>4. DebitedIsCompleted'
  <2>1. r \notin debited /\ debited \subseteq RefundIds
    BY <1>1 DEF PaidInv, DebitedIsCompleted, TypeOK
  <2> QED BY <1>2, <2>1 DEF PaidInv, DebitedIsCompleted
<1>5. Active' \subseteq Active
  BY <1>1, <1>2 DEF Active, Known
<1>6. SumOf(Active)' =< SumOf(Active) /\ SumOf(Active)' \in Nat
  BY <1>2, <1>5, ActiveShrinks
<1>7. SumOf(Active) \in Nat /\ Total \in Nat
  BY SumOfType, AmountsAssumption DEF Active, Known
<1>8. SumOf(Active)' <= Total
  BY <1>6, <1>7 DEF PaidInv
<1> QED BY <1>3, <1>4, <1>8 DEF PaidInv

LEMMA NextPays ==
  ASSUME IInv, PaidInv, OneTaskPerRefund, [Next]_vars
  PROVE  PaidInv'
<1>1. ASSUME NEW w \in Workers, NEW p, NEW j, UNCHANGED <<refund, debited>>,
             pc' = [pc EXCEPT ![w] = p], job' = [job EXCEPT ![w] = j],
             p \in {"refund", "complete", "fail"} => refund[j.refund].status = "initiated"
      PROVE  PaidInv'
  <2>1. /\ pc'[w] = p /\ job'[w] = j
        /\ \A v \in Workers : v # w => pc'[v] = pc[v] /\ job'[v] = job[v]
    BY <1>1 DEF IInv, TypeOK
  <2> QED BY <1>1, <2>1, PaidStays DEF Processing
<1>2. ASSUME NEW w \in Workers, RmaStep(w) PROVE PaidInv'
  <2>1. PICK p, j : /\ pc' = [pc EXCEPT ![w] = p] /\ job' = [job EXCEPT ![w] = j]
                    /\ p \in {"rma", "idle", "lock_order"}
    BY <1>2 DEF RmaStep, FetchRma, ChangeStatus, InspectReturn, CompleteRma, Return
  <2>2. UNCHANGED <<refund, debited>>
    BY <1>2 DEF RmaStep, FetchRma, ChangeStatus, InspectReturn, CompleteRma
  <2> QED BY <1>1, <2>1, <2>2
<1>3. ASSUME NEW w \in Workers, RequestStep(w), ~InsertRefund(w) PROVE PaidInv'
  <2>1. PICK p, j : /\ pc' = [pc EXCEPT ![w] = p] /\ job' = [job EXCEPT ![w] = j]
                    /\ p \in {"lock_order", "idle", "insert"}
    <3>1. CASE AllowRefund(w)
      <4>1. job' = [job EXCEPT ![w] = job[w]] /\ pc' = [pc EXCEPT ![w] = "insert"]
        BY <3>1 DEF AllowRefund, IInv, TypeOK
      <4> QED BY <4>1
    <3>2. CASE ~AllowRefund(w)
      BY <1>3, <3>2 DEF RequestStep, RequestRefund, ReuseRefund, RefuseRefund, Return
    <3> QED BY <3>1, <3>2
  <2>2. UNCHANGED <<refund, debited>>
    BY <1>3 DEF RequestStep, RequestRefund, ReuseRefund, RefuseRefund, AllowRefund
  <2> QED BY <1>1, <2>1, <2>2
<1>4. ASSUME NEW w \in Workers, NEW r \in RefundIds, FetchRefund(w, r) PROVE PaidInv'
  <2> DEFINE j == [NoJob EXCEPT !.refund = r, !.seen = "initiated"]
  <2>1. j.refund = r
    BY DEF NoJob
  <2> QED BY <1>1, <1>4, <2>1 DEF FetchRefund
<1>5. ASSUME NEW w \in Workers, AskGateway(w) PROVE PaidInv'
  <2>1. job' = [job EXCEPT ![w] = job[w]] /\ refund[job[w].refund].status = "initiated"
    BY <1>5 DEF AskGateway, IInv, TypeOK, PaidInv, ProcessedIsInitiated, Processing
  <2> QED BY <1>1, <1>5, <2>1 DEF AskGateway
<1>6. ASSUME NEW w \in Workers, Processing(w)
      PROVE  job[w].refund \in RefundIds
  BY <1>6 DEF IInv, Placed, Processing, Known
<1>7. ASSUME NEW w \in Workers, FailRefund(w) \/ CannotDebit(w) PROVE PaidInv'
  BY <1>6, <1>7, ResultPays DEF FailRefund, CannotDebit, Processing
<1>8. ASSUME NEW w \in Workers, CompleteRefund(w) PROVE PaidInv'
  BY <1>6, <1>8, ResultPays DEF CompleteRefund, Debit, Processing
<1>9. CASE UNCHANGED vars \/ Pay \/ \E m \in Rmas : RequestRma(m)
  <2>1. UNCHANGED <<refund, debited, pc, job>>
    BY <1>9 DEF vars, Pay, RequestRma
  <2> QED BY <2>1, PaidStays DEF Processing
<1> QED BY <1>2, <1>3, <1>4, <1>5, <1>7, <1>8, <1>9, InsertionPays
        DEF Next, RequestStep, ProcessStep

LEMMA InitPays == Init => PaidInv
<1> SUFFICES ASSUME Init PROVE PaidInv
  OBVIOUS
<1>1. ProcessedIsInitiated /\ DebitedIsCompleted
  BY DEF Init, ProcessedIsInitiated, DebitedIsCompleted, Processing
<1>2. Active = {}
  BY DEF Init, Active, Known
<1>3. SumOf(Active) <= Total
  BY <1>2, SumEmpty, AmountsAssumption DEF SumOf
<1> QED BY <1>1, <1>3 DEF PaidInv

\* process_refund does not lock the refund it was given.  As long as no two tasks process
\* one refund at the same time, the merchant never pays more than the order cost, whatever
\* is requested, fails and is requested again meanwhile.
THEOREM NoOverRefundUnlessTwoProcess == Spec /\ []OneTaskPerRefund => []DebitedWithinTotal
<1>1. IInv /\ PaidInv /\ OneTaskPerRefund /\ [Next]_vars => PaidInv'
  BY NextPays
<1>2. IInv /\ PaidInv => DebitedWithinTotal
  BY PaidFits
<1> QED BY <1>1, <1>2, InitPays, Invariance, PTL DEF Spec
=============================================================================
