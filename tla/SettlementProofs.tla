-------------------------- MODULE SettlementProofs --------------------------
(***************************************************************************)
(* Theorems about SettlementLedger and FeeAllocation, for every set of     *)
(* workers, orders, periods, settlements and fees: types, the uniqueness   *)
(* of settlement items and ledger entries, the sign of the balances, the   *)
(* settlement lifecycle, what allocated fees add up to and the refinement  *)
(* of LedgerContract, none of which needs the account's row to be locked;  *)
(* and the balances as sums of the entries, which do: no two transactions  *)
(* may be at the account at once.                                          *)
(***************************************************************************)
EXTENDS FeeAllocation, SumTheorems, TLAPS

-----------------------------------------------------------------------------
(* The inductive invariant *)

\* A call in progress is what its step says it is.
CallFitsStep(w) ==
  /\ pc[w] = "idle" <=> call[w] = NoCall
  /\ pc[w] \in {"read_account", "write"} => call[w].op \in {"credit"} \cup Decisions
  /\ pc[w] = "insert" => call[w].op = "create"

\* A decision that passed its status check keeps the settlement as it found it.
SettlementIsHeld(w) ==
  pc[w] \in {"read_account", "write"} /\ call[w].op \in Decisions =>
    /\ settlementLock[call[w].id] = w
    /\ settlement[call[w].id].status = Required(call[w].op)

\* The copy of the account was a committed one, so it was not overdrawn.
CopyIsNotNegative(w) == copy[w].pending >= 0 /\ copy[w].available >= 0

\* Orders never stop being paid after they were selected.
RowsArePaid(w) == \A o \in rows[w] : orderState[o] = "paid"

\* Only settlements with a net that can be credited are ever approved.
NetIsNotNegative ==
  \A s \in Settlements : settlement[s].status \in {"approved", "paid"} => settlement[s].net >= 0

WorkerInv(w) ==
  CallFitsStep(w) /\ SettlementIsHeld(w) /\ CopyIsNotNegative(w) /\ RowsArePaid(w)

IInv ==
  /\ TypeOK
  /\ SettledOnce
  /\ EntriesMatchStatus
  /\ NoNegativeBalance
  /\ NetIsNotNegative
  /\ \A w \in Workers : WorkerInv(w)

TablesInv == SettledOnce /\ EntriesMatchStatus /\ NoNegativeBalance /\ NetIsNotNegative

-----------------------------------------------------------------------------
(* Facts about calls and about the end of a transaction *)

LEMMA GrossType ==
  ASSUME NEW os \in SUBSET Orders
  PROVE  Gross(os) \in Nat
<1>1. IsFiniteSet(os) /\ \A o \in os : Amount[o] \in Nat
  BY FiniteAssumption, AmountAssumption, FS_Subset
<1> QED BY <1>1, SumType DEF Gross

LEMMA CallFields ==
  ASSUME TypeOK, NEW w \in Workers
  PROVE  /\ call[w].op = "credit" => call[w].order \in Orders
         /\ call[w].op = "create" => call[w].period \in SUBSET Orders
         /\ call[w].op \in Decisions => call[w].id \in Settlements
<1>1. call[w] \in {NoCall} \cup Calls
  BY DEF TypeOK
<1>2. CASE call[w] = NoCall
  BY <1>2 DEF NoCall, Decisions
<1>3. CASE call[w] \in [op: {"credit"}, order: Orders]
  BY <1>3 DEF Decisions
<1>4. CASE call[w] \in [op: {"create"}, period: Periods]
  BY <1>4, PeriodsAssumption DEF Decisions
<1>5. CASE call[w] \in [op: Decisions, id: Settlements]
  BY <1>5 DEF Decisions
<1> QED BY <1>1, <1>2, <1>3, <1>4, <1>5 DEF Calls

LEMMA ReturnTypes ==
  ASSUME TypeOK, NEW w \in Workers, Return(w)
  PROVE  /\ orderLock' \in [Orders -> Workers \cup {NoWorker}]
         /\ settlementLock' \in [Settlements -> Workers \cup {NoWorker}]
         /\ pc' \in [Workers -> {"idle", "begin", "read_account", "write", "insert"}]
         /\ call' \in [Workers -> {NoCall} \cup Calls]
         /\ copy' \in [Workers -> Account]
         /\ rows' \in [Workers -> SUBSET Orders]
<1>1. EmptyAccount \in Account
  BY DEF EmptyAccount, Account
<1> QED BY <1>1 DEF TypeOK, Return

\* A worker that changed only settlements that were not there, or that it has
\* locked, and made no order unpaid, disturbs no other worker when it ends.
LEMMA ReturnKeeps ==
  ASSUME IInv, NEW w \in Workers, Return(w),
         orderState' = orderState,
         \A s \in Settlements :
           \/ settlement'[s] = settlement[s]
           \/ settlementLock[s] = w
           \/ settlement[s].status = "none"
  PROVE  \A v \in Workers : WorkerInv(v)'
<1> SUFFICES ASSUME NEW v \in Workers PROVE WorkerInv(v)'
  OBVIOUS
<1>1. TypeOK /\ WorkerInv(v)
  BY DEF IInv
<1>2. CASE v = w
  <2>1. pc'[v] = "idle" /\ call'[v] = NoCall /\ copy'[v] = EmptyAccount /\ rows'[v] = {}
    BY <1>1, <1>2 DEF Return, TypeOK
  <2> QED BY <2>1 DEF WorkerInv, CallFitsStep, SettlementIsHeld, CopyIsNotNegative,
                      RowsArePaid, NoCall, EmptyAccount
<1>3. CASE v # w
  <2>1. /\ pc'[v] = pc[v] /\ call'[v] = call[v] /\ copy'[v] = copy[v] /\ rows'[v] = rows[v]
        /\ \A s \in Settlements : settlementLock[s] = v => settlementLock'[s] = v
    BY <1>1, <1>3 DEF Return, TypeOK
  <2>2. CallFitsStep(v)' /\ CopyIsNotNegative(v)' /\ RowsArePaid(v)'
    BY <1>1, <2>1 DEF WorkerInv, CallFitsStep, CopyIsNotNegative, RowsArePaid
  <2>3. SettlementIsHeld(v)'
    <3> SUFFICES ASSUME pc[v] \in {"read_account", "write"}, call[v].op \in Decisions
                 PROVE  /\ settlementLock'[call[v].id] = v
                        /\ settlement'[call[v].id].status = Required(call[v].op)
      BY <2>1 DEF SettlementIsHeld
    <3>1. /\ call[v].id \in Settlements
          /\ settlementLock[call[v].id] = v
          /\ settlement[call[v].id].status = Required(call[v].op)
      BY <1>1, CallFields DEF WorkerInv, SettlementIsHeld
    <3>2. settlement'[call[v].id] = settlement[call[v].id]
      BY <1>3, <3>1 DEF Required
    <3> QED BY <2>1, <3>1, <3>2
  <2> QED BY <2>2, <2>3 DEF WorkerInv
<1> QED BY <1>2, <1>3

LEMMA TablesUnchanged ==
  ASSUME IInv, UNCHANGED tables
  PROVE  TablesInv'
BY DEF IInv, TablesInv, SettledOnce, Settled, EntriesMatchStatus, NoNegativeBalance,
       NetIsNotNegative, tables

\* The early returns, refusals and crashes: no table changes.
LEMMA LeaveStep ==
  ASSUME IInv, NEW w \in Workers, Leave(w)
  PROVE  IInv'
<1>1. TypeOK'
  BY ReturnTypes DEF IInv, TypeOK, Leave, tables
<1>2. TablesInv'
  BY TablesUnchanged DEF Leave
<1>3. \A v \in Workers : WorkerInv(v)'
  BY ReturnKeeps DEF Leave, tables
<1> QED BY <1>1, <1>2, <1>3 DEF IInv, TablesInv

-----------------------------------------------------------------------------
(* Beginning, locking and reading *)

\* A step of worker w that writes no table and takes no row another worker holds.
LEMMA StepOfOneWorker ==
  ASSUME IInv, TypeOK', NEW w \in Workers, UNCHANGED tables,
         \A v \in Workers \ {w} :
           /\ pc'[v] = pc[v] /\ call'[v] = call[v] /\ copy'[v] = copy[v] /\ rows'[v] = rows[v]
           /\ \A s \in Settlements : settlementLock[s] = v => settlementLock'[s] = v,
         WorkerInv(w)'
  PROVE  IInv'
<1>1. TablesInv'
  BY TablesUnchanged
<1>2. ASSUME NEW v \in Workers, v # w
      PROVE  WorkerInv(v)'
  <2>1. TypeOK /\ WorkerInv(v)
    BY DEF IInv
  <2>2. CallFitsStep(v)' /\ CopyIsNotNegative(v)' /\ RowsArePaid(v)'
    BY <1>2, <2>1 DEF WorkerInv, CallFitsStep, CopyIsNotNegative, RowsArePaid, tables
  <2>3. SettlementIsHeld(v)'
    BY <1>2, <2>1, CallFields DEF WorkerInv, SettlementIsHeld, tables
  <2> QED BY <2>2, <2>3 DEF WorkerInv
<1> QED BY <1>1, <1>2 DEF IInv, TablesInv

LEMMA BeginStep ==
  ASSUME IInv, NEW w \in Workers, NEW c \in Calls, Begin(w, c)
  PROVE  IInv'
<1>1. TypeOK /\ WorkerInv(w)
  BY DEF IInv
<1>2. TypeOK'
  BY <1>1 DEF TypeOK, Begin, tables, locks
<1>3. /\ c # NoCall
      /\ pc'[w] = "begin" /\ call'[w] = c /\ copy'[w] = copy[w] /\ rows'[w] = rows[w]
      /\ orderState' = orderState
  <2>1. c # NoCall
    BY DEF Calls, NoCall, Decisions
  <2> QED BY <1>1, <2>1 DEF Begin, TypeOK, tables
<1>4. WorkerInv(w)'
  BY <1>1, <1>3 DEF WorkerInv, CallFitsStep, SettlementIsHeld, CopyIsNotNegative, RowsArePaid
<1> QED BY <1>1, <1>2, <1>4, StepOfOneWorker DEF Begin, TypeOK, locks

LEMMA LockOrderStep ==
  ASSUME IInv, NEW w \in Workers, LockOrder(w)
  PROVE  IInv'
<1> DEFINE o == call[w].order
<1>1. /\ TypeOK /\ WorkerInv(w)
      /\ pc[w] = "begin" /\ call[w].op = "credit" /\ o \in Orders /\ call[w] # NoCall
  BY CallFields DEF IInv, LockOrder, At, WorkerInv, CallFitsStep
<1>2. CASE Leave(w)
  BY <1>2, LeaveStep
<1>3. CASE ~Leave(w)
  <2>1. /\ orderLock' = [orderLock EXCEPT ![o] = w]
        /\ pc' = [pc EXCEPT ![w] = "read_account"]
        /\ UNCHANGED <<tables, settlementLock, call, copy, rows>>
    BY <1>3 DEF LockOrder
  <2>2. TypeOK'
    BY <1>1, <2>1 DEF TypeOK, tables
  <2>3. WorkerInv(w)'
    BY <1>1, <2>1 DEF TypeOK, WorkerInv, CallFitsStep, SettlementIsHeld, CopyIsNotNegative,
                      RowsArePaid, Decisions, tables
  <2> QED BY <1>1, <2>1, <2>2, <2>3, StepOfOneWorker DEF TypeOK
<1> QED BY <1>2, <1>3

LEMMA LockSettlementStep ==
  ASSUME IInv, NEW w \in Workers, LockSettlement(w)
  PROVE  IInv'
<1> DEFINE s == call[w].id
<1>1. /\ TypeOK /\ WorkerInv(w)
      /\ pc[w] = "begin" /\ call[w].op \in Decisions /\ s \in Settlements /\ call[w] # NoCall
  BY CallFields DEF IInv, LockSettlement, At, WorkerInv, CallFitsStep
<1>2. CASE Leave(w)
  BY <1>2, LeaveStep
<1>3. CASE ~Leave(w)
  <2>1. /\ settlementLock[s] = NoWorker
        /\ settlement[s].status = Required(call[w].op)
        /\ settlementLock' = [settlementLock EXCEPT ![s] = w]
        /\ pc' = [pc EXCEPT ![w] = "read_account"]
        /\ UNCHANGED <<tables, orderLock, call, copy, rows>>
    BY <1>3 DEF LockSettlement
  <2>2. TypeOK'
    BY <1>1, <2>1 DEF TypeOK, tables
  <2>3. WorkerInv(w)'
    BY <1>1, <2>1 DEF TypeOK, WorkerInv, CallFitsStep, SettlementIsHeld, CopyIsNotNegative,
                      RowsArePaid, Decisions, tables
  <2> QED BY <1>1, <2>1, <2>2, <2>3, StepOfOneWorker, NoWorkerAssumption DEF TypeOK
<1> QED BY <1>2, <1>3

LEMMA ReadAccountStep ==
  ASSUME IInv, NEW w \in Workers, ReadAccount(w)
  PROVE  IInv'
<1>1. TypeOK /\ WorkerInv(w) /\ NoNegativeBalance
  BY DEF IInv
<1>2. TypeOK'
  BY <1>1 DEF TypeOK, ReadAccount, tables, locks
<1>3. WorkerInv(w)'
  BY <1>1 DEF TypeOK, ReadAccount, NoNegativeBalance, WorkerInv, CallFitsStep, SettlementIsHeld,
              CopyIsNotNegative, RowsArePaid, tables, locks
<1> QED BY <1>1, <1>2, <1>3, StepOfOneWorker DEF ReadAccount, TypeOK, locks

LEMMA SelectOrdersStep ==
  ASSUME IInv, NEW w \in Workers, SelectOrders(w)
  PROVE  IInv'
<1> DEFINE found == {o \in call[w].period : orderState[o] = "paid" /\ o \notin Settled}
<1>1. /\ TypeOK /\ WorkerInv(w)
      /\ pc[w] = "begin" /\ call[w].op = "create" /\ call[w] # NoCall
      /\ found \in SUBSET Orders
  BY CallFields DEF IInv, SelectOrders, At, WorkerInv, CallFitsStep
<1>2. CASE Leave(w)
  BY <1>2, LeaveStep
<1>3. CASE ~Leave(w)
  <2>1. /\ rows' = [rows EXCEPT ![w] = found]
        /\ pc' = [pc EXCEPT ![w] = "insert"]
        /\ UNCHANGED <<tables, locks, call, copy>>
    BY <1>3 DEF SelectOrders
  <2>2. TypeOK'
    BY <1>1, <2>1 DEF TypeOK, tables, locks
  <2>3. WorkerInv(w)'
    BY <1>1, <2>1 DEF TypeOK, WorkerInv, CallFitsStep, SettlementIsHeld, CopyIsNotNegative,
                      RowsArePaid, tables
  <2> QED BY <1>1, <2>1, <2>2, <2>3, StepOfOneWorker DEF TypeOK, locks
<1> QED BY <1>2, <1>3

-----------------------------------------------------------------------------
(* The bodies of the use cases *)

\* A body that keeps the tables in order keeps IInv, as long as it wrote only
\* settlements it had locked or made.
LEMMA BodyKeeps ==
  ASSUME IInv, NEW w \in Workers, Return(w), TablesInv',
         orderState' = orderState, account' \in Account,
         credited' \in SUBSET Orders, clashed' \in SUBSET Orders,
         settlement' \in [Settlements -> [status: Statuses, orders: SUBSET Orders, net: Int]],
         entries' \in [Settlements -> [EntryKinds -> Nat]],
         \A s \in Settlements :
           \/ settlement'[s] = settlement[s]
           \/ settlementLock[s] = w
           \/ settlement[s].status = "none"
  PROVE  IInv'
<1>1. TypeOK'
  BY ReturnTypes DEF IInv, TypeOK
<1> QED BY <1>1, ReturnKeeps DEF IInv, TablesInv

LEMMA OrderPaidStep ==
  ASSUME IInv, NEW o \in Orders, NEW state \in {"confirmed", "paid"}, OrderPaid(o, state)
  PROVE  IInv'
<1>1. TypeOK /\ SettledOnce
  BY DEF IInv
<1>2. /\ orderState' \in [Orders -> {"unpaid", "confirmed", "paid"}]
      /\ \A p \in Orders : orderState[p] = "paid" => orderState'[p] = "paid"
  BY <1>1 DEF OrderPaid, TypeOK
<1>3. TypeOK'
  BY <1>1, <1>2 DEF OrderPaid, TypeOK
<1>4. SettledOnce'
  <2>1. Settled' = Settled /\ Settled \subseteq Orders
    BY <1>1 DEF OrderPaid, Settled, TypeOK
  <2> QED BY <1>1, <1>2, <2>1 DEF SettledOnce, OrderPaid
<1>5. EntriesMatchStatus' /\ NoNegativeBalance' /\ NetIsNotNegative'
  BY DEF IInv, OrderPaid, EntriesMatchStatus, NoNegativeBalance, NetIsNotNegative
<1>6. ASSUME NEW v \in Workers PROVE WorkerInv(v)'
  <2>1. WorkerInv(v) /\ rows[v] \subseteq Orders
    BY <1>1 DEF IInv, TypeOK
  <2>2. RowsArePaid(v)'
    BY <1>2, <2>1 DEF WorkerInv, RowsArePaid, OrderPaid
  <2> QED BY <2>1, <2>2 DEF WorkerInv, CallFitsStep, SettlementIsHeld, CopyIsNotNegative, OrderPaid
<1> QED BY <1>3, <1>4, <1>5, <1>6 DEF IInv

LEMMA CreditOrderPaymentStep ==
  ASSUME IInv, NEW w \in Workers, CreditOrderPayment(w)
  PROVE  IInv'
<1> DEFINE o == call[w].order
<1>1. /\ TypeOK /\ WorkerInv(w) /\ TablesInv
      /\ o \in Orders /\ Amount[o] \in Nat
      /\ copy[w].pending \in Int /\ copy[w].pending >= 0
      /\ account.pending \in Int /\ account.available \in Int
  BY CallFields, AmountAssumption
  DEF IInv, TablesInv, CreditOrderPayment, At, TypeOK, Account, WorkerInv, CopyIsNotNegative
<1>2. /\ account' \in Account /\ NoNegativeBalance'
      /\ credited' \in SUBSET Orders /\ clashed' \in SUBSET Orders
  <2>1. CASE o \in credited
    BY <1>1, <2>1 DEF CreditOrderPayment, TypeOK, TablesInv, NoNegativeBalance
  <2>2. CASE o \notin credited
    <3>1. /\ account' = [account EXCEPT !.pending = copy[w].pending + Amount[o]]
          /\ credited' = credited \cup {o} /\ clashed' = clashed
      BY <2>2 DEF CreditOrderPayment
    <3>2. copy[w].pending + Amount[o] \in Int /\ copy[w].pending + Amount[o] >= 0
      BY <1>1
    <3> QED BY <1>1, <3>1, <3>2 DEF TypeOK, Account, TablesInv, NoNegativeBalance
  <2> QED BY <2>1, <2>2
<1>3. UNCHANGED <<orderState, settlement, entries>> /\ Return(w)
  BY DEF CreditOrderPayment
<1>4. TablesInv'
  BY <1>1, <1>2, <1>3 DEF TablesInv, SettledOnce, Settled, EntriesMatchStatus, NetIsNotNegative
<1> QED BY <1>1, <1>2, <1>3, <1>4, BodyKeeps DEF TypeOK

LEMMA CreateSettlementStep ==
  ASSUME IInv, NEW w \in Workers, CreateSettlement(w)
  PROVE  IInv'
<1>1. TypeOK /\ WorkerInv(w) /\ TablesInv /\ rows[w] \in SUBSET Orders
  BY DEF IInv, TablesInv, TypeOK
<1>2. CASE Leave(w)
  BY <1>2, LeaveStep
<1>3. CASE ~Leave(w)
  <2>1. PICK s \in Settlements, fees \in FeeTotals :
          /\ settlement[s].status = "none"
          /\ settlement' = [settlement EXCEPT ![s] =
               [status |-> "created", orders |-> rows[w], net |-> Gross(rows[w]) - fees]]
          /\ rows[w] \cap Settled = {}
          /\ UNCHANGED <<orderState, account, credited, clashed, entries>>
          /\ Return(w)
    BY <1>3 DEF CreateSettlement
  <2>2. Gross(rows[w]) - fees \in Int
    BY <1>1, GrossType, FeesAssumption
  <2>3. settlement' \in [Settlements -> [status: Statuses, orders: SUBSET Orders, net: Int]]
    BY <1>1, <2>1, <2>2 DEF TypeOK, Statuses
  <2>4. /\ settlement'[s].status = "created" /\ settlement'[s].orders = rows[w]
        /\ \A t \in Settlements \ {s} : settlement'[t] = settlement[t]
    BY <1>1, <2>1 DEF TypeOK
  <2>5. SettledOnce'
    <3>1. \A t \in Settlements : settlement[t].orders \subseteq Settled
      BY DEF Settled
    <3>2. \A p \in Settled' : p \in Settled \/ p \in rows[w]
      BY <2>4 DEF Settled
    <3>3. \A p \in Settled' : orderState'[p] = "paid"
      BY <1>1, <2>1, <3>2 DEF TablesInv, SettledOnce, WorkerInv, RowsArePaid
    <3>4. \A t, u \in Settlements : t # u =>
            settlement'[t].orders \cap settlement'[u].orders = {}
      BY <1>1, <2>1, <2>4, <3>1 DEF TablesInv, SettledOnce
    <3> QED BY <3>3, <3>4 DEF SettledOnce
  <2>6. EntriesMatchStatus' /\ NoNegativeBalance' /\ NetIsNotNegative'
    BY <1>1, <2>1, <2>4 DEF TablesInv, EntriesMatchStatus, NoNegativeBalance, NetIsNotNegative
  <2>7. TablesInv'
    BY <2>5, <2>6 DEF TablesInv
  <2> QED BY <1>1, <2>1, <2>3, <2>4, <2>7, BodyKeeps DEF TypeOK
<1> QED BY <1>2, <1>3

\* What a worker knows of the settlement it has locked, and of its copy.
LEMMA Held ==
  ASSUME IInv, NEW w \in Workers, pc[w] = "write", call[w].op \in Decisions
  PROVE  LET s == call[w].id IN
         /\ s \in Settlements
         /\ settlementLock[s] = w
         /\ settlement[s].status = Required(call[w].op)
         /\ settlement[s].net \in Int
         /\ Gross(settlement[s].orders) \in Nat
         /\ copy[w].pending \in Int /\ copy[w].pending >= 0
         /\ copy[w].available \in Int /\ copy[w].available >= 0
         /\ account \in Account
BY CallFields, GrossType
DEF IInv, WorkerInv, SettlementIsHeld, CopyIsNotNegative, TypeOK, Account

\* A decision about s that posts the entries of the status it gives keeps IInv.
LEMMA DecisionKeeps ==
  ASSUME IInv, NEW w \in Workers, NEW s \in Settlements, Return(w),
         settlementLock[s] = w,
         NEW status \in Statuses,
         settlement' = [settlement EXCEPT ![s].status = status],
         account' \in Account, NoNegativeBalance',
         entries' \in [Settlements -> [EntryKinds -> Nat]],
         \A t \in Settlements \ {s} : entries'[t] = entries[t],
         /\ entries'[s]["cleared"] = IF status \in {"approved", "paid"} THEN 1 ELSE 0
         /\ entries'[s]["released"] = IF status \in {"approved", "paid"} THEN 1 ELSE 0
         /\ entries'[s]["paid_out"] = IF status = "paid" THEN 1 ELSE 0,
         settlement[s].net >= 0,
         UNCHANGED <<orderState, credited, clashed>>
  PROVE  IInv'
<1>1. TypeOK /\ TablesInv
  BY DEF IInv, TablesInv
<1>2. settlement' \in [Settlements -> [status: Statuses, orders: SUBSET Orders, net: Int]]
  <2>1. settlement \in [Settlements -> [status: Statuses, orders: SUBSET Orders, net: Int]]
    BY <1>1 DEF TypeOK
  <2>2. [settlement[s] EXCEPT !.status = status]
          \in [status: Statuses, orders: SUBSET Orders, net: Int]
    BY <2>1
  <2> QED BY <2>1, <2>2
<1>3. /\ settlement'[s].status = status
      /\ settlement'[s].orders = settlement[s].orders /\ settlement'[s].net = settlement[s].net
      /\ \A t \in Settlements \ {s} : settlement'[t] = settlement[t]
  <2>1. settlement \in [Settlements -> [status: Statuses, orders: SUBSET Orders, net: Int]]
    BY <1>1 DEF TypeOK
  <2>2. settlement'[s] = [settlement[s] EXCEPT !.status = status]
    BY <2>1
  <2> QED BY <2>1, <2>2
<1>4. SettledOnce'
  <2>1. \A t \in Settlements : settlement'[t].orders = settlement[t].orders
    BY <1>3
  <2>2. Settled' = Settled
    BY <2>1 DEF Settled
  <2> QED BY <1>1, <2>1, <2>2 DEF TablesInv, SettledOnce
<1>5. EntriesMatchStatus'
  BY <1>1, <1>3 DEF TablesInv, EntriesMatchStatus
<1>6. NetIsNotNegative'
  BY <1>1, <1>3 DEF TablesInv, NetIsNotNegative
<1>7. TablesInv'
  BY <1>4, <1>5, <1>6 DEF TablesInv
<1> QED BY <1>1, <1>2, <1>3, <1>7, BodyKeeps DEF TypeOK

LEMMA ApproveSettlementStep ==
  ASSUME IInv, NEW w \in Workers, ApproveSettlement(w)
  PROVE  IInv'
<1> DEFINE s == call[w].id
           gross == Gross(settlement[s].orders)
<1>1. /\ s \in Settlements /\ settlementLock[s] = w /\ settlement[s].status = "created"
      /\ settlement[s].net \in Int /\ settlement[s].net >= 0
      /\ gross \in Nat /\ copy[w].pending \in Int /\ copy[w].pending >= gross
      /\ copy[w].available \in Int /\ copy[w].available >= 0
  BY Held DEF ApproveSettlement, At, Decisions, Required
<1>2. /\ account' = [pending |-> copy[w].pending - gross,
                     available |-> copy[w].available + settlement[s].net]
      /\ entries' = [entries EXCEPT ![s]["cleared"] = @ + 1, ![s]["released"] = @ + 1]
      /\ settlement' = [settlement EXCEPT ![s].status = "approved"]
      /\ UNCHANGED <<orderState, credited, clashed>> /\ Return(w)
  BY DEF ApproveSettlement
<1>3. account' \in Account /\ NoNegativeBalance'
  BY <1>1, <1>2 DEF Account, NoNegativeBalance
<1>4. entries \in [Settlements -> [EntryKinds -> Nat]] /\ EntriesMatchStatus
  BY DEF IInv, TypeOK
<1>5. /\ entries[s]["cleared"] = 0 /\ entries[s]["released"] = 0 /\ entries[s]["paid_out"] = 0
  BY <1>1, <1>4 DEF EntriesMatchStatus
<1>6. /\ entries' \in [Settlements -> [EntryKinds -> Nat]]
      /\ \A t \in Settlements \ {s} : entries'[t] = entries[t]
      /\ entries'[s]["cleared"] = 1 /\ entries'[s]["released"] = 1 /\ entries'[s]["paid_out"] = 0
  <2> DEFINE row == [entries[s] EXCEPT !["cleared"] = @ + 1, !["released"] = @ + 1]
  <2>1. entries' = [entries EXCEPT ![s] = row]
    BY <1>1, <1>2, <1>4 DEF EntryKinds
  <2>2. /\ row \in [EntryKinds -> Nat]
        /\ row["cleared"] = 1 /\ row["released"] = 1 /\ row["paid_out"] = 0
    BY <1>1, <1>4, <1>5 DEF EntryKinds
  <2> QED BY <1>1, <1>4, <2>1, <2>2
<1> QED BY <1>1, <1>2, <1>3, <1>6, DecisionKeeps DEF Statuses

LEMMA MarkSettlementPaidStep ==
  ASSUME IInv, NEW w \in Workers, MarkSettlementPaid(w)
  PROVE  IInv'
<1> DEFINE s == call[w].id
<1>1. /\ s \in Settlements /\ settlementLock[s] = w /\ settlement[s].status = "approved"
      /\ settlement[s].net \in Int /\ account \in Account
      /\ copy[w].available \in Int /\ copy[w].available >= settlement[s].net
  BY Held DEF MarkSettlementPaid, At, Decisions, Required
<1>2. /\ account' = [account EXCEPT !.available = copy[w].available - settlement[s].net]
      /\ entries' = [entries EXCEPT ![s]["paid_out"] = @ + 1]
      /\ settlement' = [settlement EXCEPT ![s].status = "paid"]
      /\ UNCHANGED <<orderState, credited, clashed>> /\ Return(w)
  BY DEF MarkSettlementPaid
<1>3. account' \in Account /\ NoNegativeBalance'
  <2>1. copy[w].available - settlement[s].net \in Int /\ copy[w].available - settlement[s].net >= 0
    BY <1>1
  <2> QED BY <1>1, <1>2, <2>1 DEF IInv, Account, NoNegativeBalance
<1>4. entries \in [Settlements -> [EntryKinds -> Nat]] /\ EntriesMatchStatus /\ NetIsNotNegative
  BY DEF IInv, TypeOK
<1>5. /\ entries[s]["cleared"] = 1 /\ entries[s]["released"] = 1 /\ entries[s]["paid_out"] = 0
      /\ settlement[s].net >= 0
  BY <1>1, <1>4 DEF EntriesMatchStatus, NetIsNotNegative
<1>6. /\ entries' \in [Settlements -> [EntryKinds -> Nat]]
      /\ \A t \in Settlements \ {s} : entries'[t] = entries[t]
      /\ entries'[s]["cleared"] = 1 /\ entries'[s]["released"] = 1 /\ entries'[s]["paid_out"] = 1
  <2> DEFINE row == [entries[s] EXCEPT !["paid_out"] = @ + 1]
  <2>1. entries' = [entries EXCEPT ![s] = row]
    BY <1>1, <1>2, <1>4 DEF EntryKinds
  <2>2. /\ row \in [EntryKinds -> Nat]
        /\ row["cleared"] = 1 /\ row["released"] = 1 /\ row["paid_out"] = 1
    BY <1>1, <1>4, <1>5 DEF EntryKinds
  <2> QED BY <1>1, <1>4, <2>1, <2>2
<1> QED BY <1>1, <1>2, <1>3, <1>5, <1>6, DecisionKeeps DEF Statuses

-----------------------------------------------------------------------------
(* The theorems *)

LEMMA InitIInv == Init => IInv
<1> SUFFICES ASSUME Init PROVE IInv
  OBVIOUS
<1>1. TypeOK
  BY DEF Init, TypeOK, Account, EmptyAccount, Statuses, EntryKinds
<1>2. SettledOnce /\ EntriesMatchStatus /\ NoNegativeBalance /\ NetIsNotNegative
  BY DEF Init, SettledOnce, Settled, EntriesMatchStatus, EntryKinds, NoNegativeBalance,
         NetIsNotNegative, EmptyAccount
<1>3. \A w \in Workers : WorkerInv(w)
  BY DEF Init, WorkerInv, CallFitsStep, SettlementIsHeld, CopyIsNotNegative, RowsArePaid,
         EmptyAccount
<1> QED BY <1>1, <1>2, <1>3 DEF IInv

LEMMA NextIInv == IInv /\ [Next]_vars => IInv'
<1> SUFFICES ASSUME IInv, [Next]_vars PROVE IInv'
  OBVIOUS
<1>1. ASSUME NEW o \in Orders, NEW state \in {"confirmed", "paid"}, OrderPaid(o, state)
      PROVE  IInv'
  BY <1>1, OrderPaidStep
<1>2. ASSUME NEW w \in Workers, NEW c \in Calls, Begin(w, c)
      PROVE  IInv'
  BY <1>2, BeginStep
<1>3. ASSUME NEW w \in Workers, LockOrder(w) \/ LockSettlement(w) \/ ReadAccount(w) \/ SelectOrders(w)
      PROVE  IInv'
  BY <1>3, LockOrderStep, LockSettlementStep, ReadAccountStep, SelectOrdersStep
<1>4. ASSUME NEW w \in Workers, CreditOrderPayment(w) \/ CreateSettlement(w)
      PROVE  IInv'
  BY <1>4, CreditOrderPaymentStep, CreateSettlementStep
<1>5. ASSUME NEW w \in Workers, ApproveSettlement(w) \/ MarkSettlementPaid(w)
      PROVE  IInv'
  BY <1>5, ApproveSettlementStep, MarkSettlementPaidStep
<1>6. ASSUME NEW w \in Workers, Refuse(w) \/ Crash(w)
      PROVE  IInv'
  BY <1>6, LeaveStep DEF Refuse, Crash
<1>7. CASE UNCHANGED vars
  <2>1. TypeOK' /\ TablesInv'
    BY <1>7, TablesUnchanged DEF IInv, TypeOK, vars, tables
  <2>2. ASSUME NEW w \in Workers PROVE WorkerInv(w)'
    BY <1>7 DEF IInv, WorkerInv, CallFitsStep, SettlementIsHeld, CopyIsNotNegative, RowsArePaid, vars
  <2> QED BY <2>1, <2>2 DEF IInv, TablesInv
<1> QED BY <1>1, <1>2, <1>3, <1>4, <1>5, <1>6, <1>7 DEF Next

\* The inductive invariant holds in every reachable state.
THEOREM Invariance == Spec => []IInv
BY InitIInv, NextIInv, PTL DEF Spec

\* Every table, lock and per-worker datum keeps its type.
THEOREM TypeSafety == Spec => []TypeOK
<1>1. IInv => TypeOK
  BY DEF IInv
<1> QED BY <1>1, Invariance, PTL

\* However many tasks gather orders at once, no order is settled twice and none that
\* is not paid: create_settlement.py with the unique constraint on its items.
THEOREM NoDoubleSettlement == Spec => []SettledOnce
<1>1. IInv => SettledOnce
  BY DEF IInv
<1> QED BY <1>1, Invariance, PTL

\* Approvals and payments post the entries of a settlement exactly once each:
\* approve_settlement.py and mark_settlement_paid.py under concurrent calls.
THEOREM EntriesPostedOnce == Spec => []EntriesMatchStatus
<1>1. IInv => EntriesMatchStatus
  BY DEF IInv
<1> QED BY <1>1, Invariance, PTL

\* No lost update, of any number, drives a balance below zero.
THEOREM BalancesStayNonNegative == Spec => []NoNegativeBalance
<1>1. IInv => NoNegativeBalance
  BY DEF IInv
<1> QED BY <1>1, Invariance, PTL

LEMMA LifecycleStep ==
  ASSUME IInv, Next, NEW s \in Settlements, settlement'[s] # settlement[s]
  PROVE  /\ <<settlement[s].status, settlement'[s].status>> \in
              {<<"none", "created">>, <<"created", "approved">>, <<"approved", "paid">>}
         /\ settlement[s].status # "none" =>
              /\ settlement'[s].orders = settlement[s].orders
              /\ settlement'[s].net = settlement[s].net
<1>1. settlement \in [Settlements -> [status: Statuses, orders: SUBSET Orders, net: Int]]
  BY DEF IInv, TypeOK
<1>2. PICK w \in Workers : CreateSettlement(w) \/ ApproveSettlement(w) \/ MarkSettlementPaid(w)
  BY DEF Next, OrderPaid, Begin, LockOrder, LockSettlement, ReadAccount, CreditOrderPayment,
         SelectOrders, Refuse, Crash, Leave, tables
<1>3. CASE CreateSettlement(w)
  BY <1>1, <1>3 DEF CreateSettlement, Leave, tables
<1>4. CASE ApproveSettlement(w)
  <2>1. call[w].id \in Settlements /\ settlement[call[w].id].status = "created"
    BY <1>4, Held DEF ApproveSettlement, At, Decisions, Required
  <2>2. settlement' = [settlement EXCEPT ![call[w].id].status = "approved"]
    BY <1>4 DEF ApproveSettlement
  <2> QED BY <1>1, <2>1, <2>2
<1>5. CASE MarkSettlementPaid(w)
  <2>1. call[w].id \in Settlements /\ settlement[call[w].id].status = "approved"
    BY <1>5, Held DEF MarkSettlementPaid, At, Decisions, Required
  <2>2. settlement' = [settlement EXCEPT ![call[w].id].status = "paid"]
    BY <1>5 DEF MarkSettlementPaid
  <2> QED BY <1>1, <2>1, <2>2
<1> QED BY <1>2, <1>3, <1>4, <1>5

\* A settlement is approved before it is paid, each once, and what it settles and
\* pays is fixed at its creation.
THEOREM LifecycleIsOrdered == Spec => SettlementLifecycle
<1>1. IInv /\ [Next]_vars =>
        [\A s \in Settlements : settlement'[s] # settlement[s] =>
           /\ <<settlement[s].status, settlement'[s].status>> \in
                {<<"none", "created">>, <<"created", "approved">>, <<"approved", "paid">>}
           /\ settlement[s].status # "none" =>
                /\ settlement'[s].orders = settlement[s].orders
                /\ settlement'[s].net = settlement[s].net]_vars
  BY LifecycleStep
<1> QED BY <1>1, Invariance, PTL DEF Spec, SettlementLifecycle

-----------------------------------------------------------------------------
(* Credits *)

\* Past its check a credit holds its order, and the order has no entry yet.
CreditIsHeld(w) ==
  TenantIsStore /\ pc[w] \in {"read_account", "write"} /\ call[w].op = "credit" =>
    /\ orderLock[call[w].order] = w
    /\ call[w].order \notin credited

CreditInv == CreditIsIdempotent /\ \A w \in Workers : CreditIsHeld(w)

LEMMA CreditReturns ==
  ASSUME IInv, CreditInv, NEW w \in Workers, Return(w), clashed' = clashed,
         \A o \in credited' : o \in credited \/ orderLock[o] = w
  PROVE  CreditInv'
<1>1. CreditIsIdempotent'
  BY DEF CreditInv, CreditIsIdempotent
<1>2. ASSUME NEW v \in Workers PROVE CreditIsHeld(v)'
  <2>1. CASE v = w
    BY <2>1 DEF IInv, TypeOK, Return, CreditIsHeld
  <2>2. CASE v # w
    <3>1. pc'[v] = pc[v] /\ call'[v] = call[v]
      BY <2>2 DEF IInv, TypeOK, Return
    <3>2. call[v].op = "credit" => call[v].order \in Orders
      BY CallFields DEF IInv
    <3> QED BY <2>2, <3>1, <3>2 DEF IInv, TypeOK, Return, CreditInv, CreditIsHeld
  <2> QED BY <2>1, <2>2
<1> QED BY <1>1, <1>2 DEF CreditInv

\* A step of one worker within its transaction, which takes at most a free lock.
LEMMA CreditGoesOn ==
  ASSUME IInv, CreditInv, NEW w \in Workers, UNCHANGED <<credited, clashed>>, CreditIsHeld(w)',
         \A v \in Workers \ {w} : pc'[v] = pc[v] /\ call'[v] = call[v],
         \A o \in Orders : orderLock[o] # NoWorker => orderLock'[o] = orderLock[o]
  PROVE  CreditInv'
<1>1. CreditIsIdempotent'
  BY DEF CreditInv, CreditIsIdempotent
<1>2. ASSUME NEW v \in Workers, v # w PROVE CreditIsHeld(v)'
  <2>1. call[v].op = "credit" => call[v].order \in Orders
    BY CallFields DEF IInv
  <2>2. CreditIsHeld(v) /\ v # NoWorker
    BY NoWorkerAssumption DEF CreditInv
  <2> QED BY <1>2, <2>1, <2>2 DEF CreditIsHeld
<1> QED BY <1>1, <1>2 DEF CreditInv

LEMMA NextKeepsCredits ==
  ASSUME IInv, CreditInv, [Next]_vars
  PROVE  CreditInv'
<1> USE DEF tables, locks
<1>1. ASSUME NEW o \in Orders, NEW state \in {"confirmed", "paid"}, OrderPaid(o, state)
      PROVE  CreditInv'
  BY <1>1 DEF CreditInv, CreditIsIdempotent, CreditIsHeld, OrderPaid
<1>2. ASSUME NEW w \in Workers, Leave(w) PROVE CreditInv'
  BY <1>2, CreditReturns DEF Leave
<1>3. ASSUME NEW w \in Workers, NEW c \in Calls, Begin(w, c) PROVE CreditInv'
  <2>1. CreditIsHeld(w)' /\ \A v \in Workers \ {w} : pc'[v] = pc[v] /\ call'[v] = call[v]
    BY <1>3 DEF Begin, IInv, TypeOK, CreditIsHeld
  <2> QED BY <1>3, <2>1, CreditGoesOn DEF Begin
<1>4. ASSUME NEW w \in Workers, LockOrder(w), ~Leave(w) PROVE CreditInv'
  <2>1. call[w].op = "credit" /\ call[w].order \in Orders
    BY <1>4, CallFields DEF LockOrder, At, IInv
  <2>2. CreditIsHeld(w)' /\ \A v \in Workers \ {w} : pc'[v] = pc[v] /\ call'[v] = call[v]
    BY <1>4, <2>1 DEF LockOrder, IInv, TypeOK, CreditIsHeld, FindsEntry
  <2>3. \A o \in Orders : orderLock[o] # NoWorker => orderLock'[o] = orderLock[o]
    BY <1>4, <2>1 DEF LockOrder, IInv, TypeOK
  <2> QED BY <1>4, <2>2, <2>3, CreditGoesOn DEF LockOrder
<1>5. ASSUME NEW w \in Workers, LockSettlement(w), ~Leave(w) PROVE CreditInv'
  <2>1. CreditIsHeld(w)' /\ \A v \in Workers \ {w} : pc'[v] = pc[v] /\ call'[v] = call[v]
    BY <1>5 DEF LockSettlement, At, Decisions, IInv, TypeOK, CreditIsHeld
  <2> QED BY <1>5, <2>1, CreditGoesOn DEF LockSettlement
<1>6. ASSUME NEW w \in Workers, ReadAccount(w) PROVE CreditInv'
  <2>1. CreditIsHeld(w)' /\ \A v \in Workers \ {w} : pc'[v] = pc[v] /\ call'[v] = call[v]
    BY <1>6 DEF ReadAccount, IInv, TypeOK, CreditInv, CreditIsHeld
  <2> QED BY <1>6, <2>1, CreditGoesOn DEF ReadAccount
<1>7. ASSUME NEW w \in Workers, SelectOrders(w), ~Leave(w) PROVE CreditInv'
  <2>1. CreditIsHeld(w)' /\ \A v \in Workers \ {w} : pc'[v] = pc[v] /\ call'[v] = call[v]
    BY <1>7 DEF SelectOrders, IInv, TypeOK, CreditIsHeld
  <2> QED BY <1>7, <2>1, CreditGoesOn DEF SelectOrders
<1>8. ASSUME NEW w \in Workers, CreditOrderPayment(w) PROVE CreditInv'
  <2>1. CreditIsHeld(w) /\ pc[w] = "write" /\ call[w].op = "credit" /\ call[w].order \in Orders
    BY <1>8, CallFields DEF CreditOrderPayment, At, CreditInv, IInv
  <2>2. CASE TenantIsStore
    <3>1. orderLock[call[w].order] = w /\ call[w].order \notin credited
      BY <2>1, <2>2 DEF CreditIsHeld
    <3>2. clashed' = clashed /\ credited' = credited \cup {call[w].order} /\ Return(w)
      BY <1>8, <3>1 DEF CreditOrderPayment
    <3> QED BY <3>1, <3>2, CreditReturns
  <2>3. CASE ~TenantIsStore
    BY <2>3 DEF CreditInv, CreditIsIdempotent, CreditIsHeld
  <2> QED BY <2>2, <2>3
<1>9. ASSUME NEW w \in Workers, CreateSettlement(w), ~Leave(w) PROVE CreditInv'
  BY <1>9, CreditReturns DEF CreateSettlement
<1>10. ASSUME NEW w \in Workers, ApproveSettlement(w) \/ MarkSettlementPaid(w)
       PROVE  CreditInv'
  BY <1>10, CreditReturns DEF ApproveSettlement, MarkSettlementPaid
<1>11. CASE UNCHANGED vars
  BY <1>11 DEF CreditInv, CreditIsIdempotent, CreditIsHeld, vars
<1> QED BY <1>1, <1>2, <1>3, <1>4, <1>5, <1>6, <1>7, <1>8, <1>9, <1>10, <1>11
        DEF Next, Refuse, Crash

\* Where the tenant's id is the store's, no repeated or concurrent credit of an order
\* fails on the entry the other one made.
THEOREM CreditsAreIdempotent == Spec => []CreditIsIdempotent
<1>1. Init => CreditInv
  BY DEF Init, CreditInv, CreditIsIdempotent, CreditIsHeld
<1>2. IInv /\ CreditInv /\ [Next]_vars => CreditInv'
  BY NextKeepsCredits
<1>3. CreditInv => CreditIsIdempotent
  BY DEF CreditInv
<1> QED BY <1>1, <1>2, <1>3, Invariance, PTL DEF Spec

-----------------------------------------------------------------------------
(* The balance and the entries *)

\* No two transactions are between reading the account and writing it.
OneAtTheAccount == \A v, w \in Workers : pc[v] = "write" /\ pc[w] = "write" => v = w

\* What a worker is about to write was computed from the row as it is.
CopiesAreCurrent == \A w \in Workers : pc[w] = "write" => copy[w] = account

BalanceInv == CopiesAreCurrent /\ BalanceIsSumOfEntries

LEMMA NetType ==
  ASSUME TypeOK, NEW ss \in SUBSET Settlements
  PROVE  NetOf(ss) \in Int
<1> DEFINE f == [s \in Settlements |-> settlement[s].net]
<1>1. IsFiniteSet(ss) /\ \A s \in ss : f[s] \in Int
  BY FiniteAssumption, FS_Subset DEF TypeOK
<1> HIDE DEF f
<1>2. SumFunctionOnSet(f, ss) \in Int
  BY <1>1, SumType
<1> QED BY <1>2 DEF NetOf, f

LEMMA GrossOfType ==
  ASSUME TypeOK, NEW ss \in SUBSET Settlements
  PROVE  GrossOf(ss) \in Int
<1> DEFINE f == [s \in Settlements |-> Gross(settlement[s].orders)]
<1>1. IsFiniteSet(ss) /\ \A s \in Settlements : settlement[s].orders \in SUBSET Orders
  BY FiniteAssumption, FS_Subset DEF TypeOK
<1>2. \A s \in ss : f[s] \in Int
  BY <1>1, GrossType
<1> HIDE DEF f
<1>3. SumFunctionOnSet(f, ss) \in Int
  BY <1>1, <1>2, SumType
<1> QED BY <1>3 DEF GrossOf, f

\* The sums over settlements whose orders and net stay do not change.
LEMMA SumsStay ==
  ASSUME NEW ss \in SUBSET Settlements,
         \A s \in ss : /\ settlement'[s].orders = settlement[s].orders
                       /\ settlement'[s].net = settlement[s].net
  PROVE  /\ SumFunctionOnSet([s \in Settlements |-> Gross(settlement'[s].orders)], ss)
              = GrossOf(ss)
         /\ SumFunctionOnSet([s \in Settlements |-> settlement'[s].net], ss) = NetOf(ss)
<1> DEFINE f == [s \in Settlements |-> Gross(settlement[s].orders)]
           g == [s \in Settlements |-> Gross(settlement'[s].orders)]
           m == [s \in Settlements |-> settlement[s].net]
           n == [s \in Settlements |-> settlement'[s].net]
<1>1. IsFiniteSet(ss)
  BY FiniteAssumption, FS_Subset
<1>2. (\A s \in ss : f[s] = g[s]) /\ (\A s \in ss : m[s] = n[s])
  OBVIOUS
<1> HIDE DEF f, g, m, n
<1>3. SumFunctionOnSet(f, ss) = SumFunctionOnSet(g, ss)
  BY <1>1, <1>2, SumSame
<1>4. SumFunctionOnSet(m, ss) = SumFunctionOnSet(n, ss)
  BY <1>1, <1>2, SumSame
<1> QED BY <1>3, <1>4 DEF GrossOf, NetOf, f, g, m, n

\* With the same settlements in a status, of the same orders and net, both sums stay.
LEMMA EntriesStay ==
  ASSUME NEW statuses, InStatus(statuses)' = InStatus(statuses),
         \A s \in InStatus(statuses) : /\ settlement'[s].orders = settlement[s].orders
                                       /\ settlement'[s].net = settlement[s].net
  PROVE  /\ GrossOf(InStatus(statuses))' = GrossOf(InStatus(statuses))
         /\ NetOf(InStatus(statuses))' = NetOf(InStatus(statuses))
<1> DEFINE ss == InStatus(statuses)
<1>1. ss \in SUBSET Settlements
  BY DEF InStatus
<1>2. /\ GrossOf(ss)' = SumFunctionOnSet([s \in Settlements |-> Gross(settlement'[s].orders)], ss')
      /\ NetOf(ss)' = SumFunctionOnSet([s \in Settlements |-> settlement'[s].net], ss')
  BY DEF GrossOf, NetOf, Gross
<1> QED BY <1>1, <1>2, SumsStay

\* A worker's copy is current when it has just been read or nothing was written.
LEMMA CopiesStay ==
  ASSUME IInv, CopiesAreCurrent, NEW w \in Workers, account' = account,
         pc'[w] = "write" => copy'[w] = account,
         \A v \in Workers \ {w} : pc'[v] = pc[v] /\ copy'[v] = copy[v]
  PROVE  CopiesAreCurrent'
BY DEF CopiesAreCurrent

\* The one worker that writes is done then, and has nothing left to write.
LEMMA WriterReturns ==
  ASSUME IInv, OneAtTheAccount, NEW w \in Workers, pc[w] = "write", Return(w)
  PROVE  CopiesAreCurrent'
<1>1. \A v \in Workers : pc'[v] # "write"
  BY DEF OneAtTheAccount, IInv, TypeOK, Return
<1> QED BY <1>1 DEF CopiesAreCurrent

LEMMA SettlementsStay ==
  ASSUME BalanceIsSumOfEntries, UNCHANGED <<settlement, account, credited>>
  PROVE  BalanceIsSumOfEntries'
BY DEF BalanceIsSumOfEntries, GrossOf, NetOf, InStatus, Gross

LEMMA CreditBalances ==
  ASSUME IInv, BalanceInv, NEW w \in Workers, CreditOrderPayment(w)
  PROVE  BalanceIsSumOfEntries'
<1> DEFINE o == call[w].order
<1>1. TypeOK /\ o \in Orders /\ pc[w] = "write" /\ copy[w] = account
  BY CallFields DEF IInv, CreditOrderPayment, At, BalanceInv, CopiesAreCurrent
<1>2. CASE o \in credited
  BY <1>2, SettlementsStay DEF CreditOrderPayment, BalanceInv
<1>3. CASE o \notin credited
  <2>1. /\ account' = [account EXCEPT !.pending = account.pending + Amount[o]]
        /\ credited' = credited \cup {o} /\ UNCHANGED settlement
    BY <1>1, <1>3 DEF CreditOrderPayment
  <2>2. credited \subseteq Orders /\ IsFiniteSet(credited)
    BY <1>1, FiniteAssumption, FS_Subset DEF TypeOK
  <2>3. \A p \in credited \cup {o} : Amount[p] \in Int
    BY <1>1, <2>2, AmountAssumption
  <2>4. SumFunctionOnSet(Amount, credited \cup {o}) = SumFunctionOnSet(Amount, credited) + Amount[o]
    BY <1>3, <2>2, <2>3, SumAdd
  <2>5. Gross(credited)' = Gross(credited) + Amount[o]
    BY <2>1, <2>4 DEF Gross
  <2>6. /\ GrossOf(InStatus({"approved", "paid"}))' = GrossOf(InStatus({"approved", "paid"}))
        /\ NetOf(InStatus({"approved"}))' = NetOf(InStatus({"approved"}))
    BY <2>1, EntriesStay DEF InStatus
  <2>7. account'.pending = account.pending + Amount[o] /\ account'.available = account.available
    BY <1>1, <2>1 DEF TypeOK, Account
  <2>8. Gross(credited) \in Nat /\ GrossOf(InStatus({"approved", "paid"})) \in Int
    BY <1>1, <2>2, GrossType, GrossOfType DEF InStatus
  <2>9. Amount[o] \in Nat
    BY <1>1, AmountAssumption
  <2> HIDE DEF o
  <2> QED BY <2>5, <2>6, <2>7, <2>8, <2>9 DEF BalanceInv, BalanceIsSumOfEntries
<1> QED BY <1>2, <1>3

LEMMA CreationBalances ==
  ASSUME IInv, BalanceInv, NEW w \in Workers, CreateSettlement(w), ~Leave(w)
  PROVE  BalanceIsSumOfEntries'
<1>1. PICK s \in Settlements, fees \in FeeTotals :
        /\ settlement[s].status = "none"
        /\ settlement' = [settlement EXCEPT ![s] =
             [status |-> "created", orders |-> rows[w], net |-> Gross(rows[w]) - fees]]
        /\ UNCHANGED <<account, credited>>
  BY DEF CreateSettlement
<1>2. settlement'[s].status = "created" /\ \A t \in Settlements \ {s} : settlement'[t] = settlement[t]
  BY <1>1 DEF IInv, TypeOK
<1>3. ASSUME NEW statuses, "none" \notin statuses, "created" \notin statuses
      PROVE  /\ GrossOf(InStatus(statuses))' = GrossOf(InStatus(statuses))
             /\ NetOf(InStatus(statuses))' = NetOf(InStatus(statuses))
  <2>1. InStatus(statuses)' = InStatus(statuses) /\ s \notin InStatus(statuses)
    BY <1>1, <1>2, <1>3 DEF InStatus
  <2>2. \A t \in InStatus(statuses) : settlement'[t] = settlement[t]
    BY <1>2, <2>1 DEF InStatus
  <2> QED BY <2>1, <2>2, EntriesStay
<1>4. /\ GrossOf(InStatus({"approved", "paid"}))' = GrossOf(InStatus({"approved", "paid"}))
      /\ NetOf(InStatus({"approved"}))' = NetOf(InStatus({"approved"}))
  BY <1>3
<1>5. Gross(credited)' = Gross(credited)
  BY <1>1 DEF Gross
<1> QED BY <1>1, <1>4, <1>5 DEF BalanceInv, BalanceIsSumOfEntries

\* The gross of one more settlement has left pending, and its net has come to available.
LEMMA ApprovalBalances ==
  ASSUME IInv, BalanceInv, NEW w \in Workers, ApproveSettlement(w)
  PROVE  BalanceIsSumOfEntries'
<1> DEFINE s == call[w].id
           gross == Gross(settlement[s].orders)
           both == InStatus({"approved", "paid"})
           open == InStatus({"approved"})
           f == [t \in Settlements |-> Gross(settlement[t].orders)]
           n == [t \in Settlements |-> settlement[t].net]
<1>1. /\ TypeOK /\ s \in Settlements /\ settlement[s].status = "created"
      /\ gross \in Nat /\ settlement[s].net \in Int /\ account \in Account
      /\ copy[w] = account
  BY Held DEF IInv, ApproveSettlement, At, Decisions, Required, BalanceInv, CopiesAreCurrent
<1>2. /\ account' = [pending |-> account.pending - gross,
                     available |-> account.available + settlement[s].net]
      /\ settlement' = [settlement EXCEPT ![s].status = "approved"]
      /\ UNCHANGED credited
  BY <1>1 DEF ApproveSettlement
<1>3. /\ settlement'[s].status = "approved"
      /\ \A t \in Settlements : /\ settlement'[t].orders = settlement[t].orders
                                /\ settlement'[t].net = settlement[t].net
                                /\ t # s => settlement'[t] = settlement[t]
  BY <1>1, <1>2 DEF TypeOK
<1>4. both' = both \cup {s} /\ open' = open \cup {s} /\ s \notin both /\ s \notin open
  BY <1>1, <1>3 DEF InStatus
<1>5. both \subseteq Settlements /\ open \subseteq Settlements
      /\ IsFiniteSet(both) /\ IsFiniteSet(open)
  BY FiniteAssumption, FS_Subset DEF InStatus
<1>6. GrossOf(both)' = GrossOf(both) + gross
  <2>1. GrossOf(both)' = SumFunctionOnSet([t \in Settlements |-> Gross(settlement'[t].orders)], both')
    BY DEF GrossOf, Gross
  <2>2. GrossOf(both)' = GrossOf(both \cup {s})
    BY <1>1, <1>3, <1>4, <1>5, <2>1, SumsStay
  <2>3. \A t \in both \cup {s} : settlement[t].orders \in SUBSET Orders
    BY <1>1, <1>5 DEF TypeOK
  <2>4. \A t \in both \cup {s} : f[t] \in Int
    BY <1>1, <1>5, <2>3, GrossType
  <2>5. f[s] = gross
    BY <1>1
  <2> HIDE DEF f, both, s
  <2>6. SumFunctionOnSet(f, both \cup {s}) = SumFunctionOnSet(f, both) + f[s]
    BY <1>4, <1>5, <2>4, SumAdd
  <2> QED BY <2>2, <2>5, <2>6 DEF GrossOf, f
<1>7. NetOf(open)' = NetOf(open) + settlement[s].net
  <2>1. NetOf(open)' = SumFunctionOnSet([t \in Settlements |-> settlement'[t].net], open')
    BY DEF NetOf
  <2>2. NetOf(open)' = NetOf(open \cup {s})
    BY <1>1, <1>3, <1>4, <1>5, <2>1, SumsStay
  <2>3. \A t \in open \cup {s} : n[t] \in Int
    BY <1>1, <1>5 DEF TypeOK
  <2>4. n[s] = settlement[s].net
    BY <1>1
  <2> HIDE DEF n, open, s
  <2>5. SumFunctionOnSet(n, open \cup {s}) = SumFunctionOnSet(n, open) + n[s]
    BY <1>4, <1>5, <2>3, SumAdd
  <2> QED BY <2>2, <2>4, <2>5 DEF NetOf, n
<1>8. Gross(credited)' = Gross(credited) /\ Gross(credited) \in Nat
  BY <1>1, <1>2, GrossType DEF Gross, TypeOK
<1>9. GrossOf(both) \in Int /\ NetOf(open) \in Int
  BY <1>1, <1>5, GrossOfType, NetType
<1>10. account.pending = Gross(credited) - GrossOf(both) /\ account.available = NetOf(open)
  BY DEF BalanceInv, BalanceIsSumOfEntries
<1>11. account'.pending = account.pending - gross
       /\ account'.available = account.available + settlement[s].net
  BY <1>2
<1>12. account'.pending = Gross(credited)' - GrossOf(both)' /\ account'.available = NetOf(open)'
  <2> HIDE DEF both, open, gross, s
  <2> QED BY <1>1, <1>6, <1>7, <1>8, <1>9, <1>10, <1>11
<1> QED BY <1>12 DEF BalanceIsSumOfEntries

\* The net of one settlement leaves available with its payment.
LEMMA PaymentBalances ==
  ASSUME IInv, BalanceInv, NEW w \in Workers, MarkSettlementPaid(w)
  PROVE  BalanceIsSumOfEntries'
<1> DEFINE s == call[w].id
           both == InStatus({"approved", "paid"})
           open == InStatus({"approved"})
           n == [t \in Settlements |-> settlement[t].net]
<1>1. /\ TypeOK /\ s \in Settlements /\ settlement[s].status = "approved"
      /\ settlement[s].net \in Int /\ account \in Account /\ copy[w] = account
  BY Held DEF IInv, MarkSettlementPaid, At, Decisions, Required, BalanceInv, CopiesAreCurrent
<1>2. /\ account' = [account EXCEPT !.available = account.available - settlement[s].net]
      /\ settlement' = [settlement EXCEPT ![s].status = "paid"]
      /\ UNCHANGED credited
  BY <1>1 DEF MarkSettlementPaid
<1>3. /\ settlement'[s].status = "paid"
      /\ \A t \in Settlements : /\ settlement'[t].orders = settlement[t].orders
                                /\ settlement'[t].net = settlement[t].net
                                /\ t # s => settlement'[t] = settlement[t]
  BY <1>1, <1>2 DEF TypeOK
<1>4. both' = both /\ open' = open \ {s} /\ s \in open
  BY <1>1, <1>3 DEF InStatus
<1>5. both \subseteq Settlements /\ open \subseteq Settlements /\ IsFiniteSet(open)
  BY FiniteAssumption, FS_Subset DEF InStatus
<1>6. GrossOf(both)' = GrossOf(both)
  BY <1>3, <1>4, <1>5, EntriesStay
<1>7. NetOf(open) = settlement[s].net + NetOf(open)'
  <2>1. NetOf(open)' = SumFunctionOnSet([t \in Settlements |-> settlement'[t].net], open')
    BY DEF NetOf
  <2>2. NetOf(open)' = NetOf(open \ {s})
    BY <1>3, <1>4, <1>5, <2>1, SumsStay
  <2>3. \A t \in open : n[t] \in Int
    BY <1>1, <1>5 DEF TypeOK
  <2>4. n[s] = settlement[s].net
    BY <1>1
  <2> HIDE DEF n, open, s
  <2>5. SumFunctionOnSet(n, open) = n[s] + SumFunctionOnSet(n, open \ {s})
    BY <1>4, <1>5, <2>3, SumRemove
  <2> QED BY <2>2, <2>4, <2>5 DEF NetOf, n
<1>8. Gross(credited)' = Gross(credited)
  BY <1>2 DEF Gross
<1>9. NetOf(open) \in Int /\ NetOf(open \ {s}) \in Int
  BY <1>1, <1>5, NetType
<1>10. account.pending = Gross(credited) - GrossOf(both) /\ account.available = NetOf(open)
  BY DEF BalanceInv, BalanceIsSumOfEntries
<1>11. account'.pending = account.pending
       /\ account'.available = account.available - settlement[s].net
  BY <1>1, <1>2 DEF Account
<1>12. NetOf(open)' = NetOf(open \ {s})
  <2>1. NetOf(open)' = SumFunctionOnSet([t \in Settlements |-> settlement'[t].net], open')
    BY DEF NetOf
  <2> QED BY <1>3, <1>4, <1>5, <2>1, SumsStay
<1>13. account'.pending = Gross(credited)' - GrossOf(both)' /\ account'.available = NetOf(open)'
  <2> HIDE DEF both, open, s
  <2> QED BY <1>1, <1>6, <1>7, <1>8, <1>9, <1>10, <1>11, <1>12
<1> QED BY <1>13 DEF BalanceIsSumOfEntries

LEMMA NextBalances ==
  ASSUME IInv, BalanceInv, OneAtTheAccount, [Next]_vars
  PROVE  BalanceInv'
<1> USE DEF tables, locks
<1>1. CopiesAreCurrent /\ BalanceIsSumOfEntries /\ TypeOK
  BY DEF BalanceInv, IInv
<1>2. ASSUME NEW w \in Workers, Leave(w) PROVE BalanceInv'
  <2>1. pc'[w] = "idle" /\ \A v \in Workers \ {w} : pc'[v] = pc[v] /\ copy'[v] = copy[v]
    BY <1>1, <1>2 DEF Leave, Return, TypeOK
  <2>2. CopiesAreCurrent'
    BY <1>1, <1>2, <2>1, CopiesStay DEF Leave
  <2> QED BY <1>1, <1>2, <2>2, SettlementsStay DEF Leave, BalanceInv
<1>3. ASSUME NEW o \in Orders, NEW state \in {"confirmed", "paid"}, OrderPaid(o, state)
      PROVE  BalanceInv'
  BY <1>1, <1>3, SettlementsStay DEF OrderPaid, BalanceInv, CopiesAreCurrent
<1>4. ASSUME NEW w \in Workers,
             \/ \E c \in Calls : Begin(w, c)
             \/ ~Leave(w) /\ (LockOrder(w) \/ LockSettlement(w) \/ SelectOrders(w))
      PROVE  BalanceInv'
  <2>1. /\ UNCHANGED <<settlement, account, credited, copy>> /\ pc'[w] # "write"
        /\ \A v \in Workers \ {w} : pc'[v] = pc[v]
    BY <1>1, <1>4 DEF Begin, LockOrder, LockSettlement, SelectOrders, TypeOK
  <2> QED BY <1>1, <2>1, CopiesStay, SettlementsStay DEF BalanceInv
<1>5. ASSUME NEW w \in Workers, ReadAccount(w) PROVE BalanceInv'
  <2>1. /\ UNCHANGED <<settlement, account, credited>> /\ copy'[w] = account
        /\ \A v \in Workers \ {w} : pc'[v] = pc[v] /\ copy'[v] = copy[v]
    BY <1>1, <1>5 DEF ReadAccount, TypeOK
  <2> QED BY <1>1, <2>1, CopiesStay, SettlementsStay DEF BalanceInv
<1>6. ASSUME NEW w \in Workers, CreditOrderPayment(w) PROVE BalanceInv'
  BY <1>6, CreditBalances, WriterReturns DEF BalanceInv, CreditOrderPayment, At
<1>7. ASSUME NEW w \in Workers, CreateSettlement(w), ~Leave(w) PROVE BalanceInv'
  <2>1. /\ UNCHANGED account /\ pc'[w] = "idle"
        /\ \A v \in Workers \ {w} : pc'[v] = pc[v] /\ copy'[v] = copy[v]
    BY <1>1, <1>7 DEF CreateSettlement, Return, TypeOK
  <2>2. CopiesAreCurrent'
    BY <1>1, <2>1, CopiesStay
  <2> QED BY <1>7, <2>2, CreationBalances DEF BalanceInv
<1>8. ASSUME NEW w \in Workers, ApproveSettlement(w) PROVE BalanceInv'
  BY <1>8, ApprovalBalances, WriterReturns DEF BalanceInv, ApproveSettlement, At
<1>9. ASSUME NEW w \in Workers, MarkSettlementPaid(w) PROVE BalanceInv'
  BY <1>9, PaymentBalances, WriterReturns DEF BalanceInv, MarkSettlementPaid, At
<1>10. CASE UNCHANGED vars
  BY <1>1, <1>10, SettlementsStay DEF vars, BalanceInv, CopiesAreCurrent
<1> QED BY <1>2, <1>3, <1>4, <1>5, <1>6, <1>7, <1>8, <1>9, <1>10 DEF Next, Refuse, Crash

LEMMA InitBalances == Init => BalanceInv
<1> SUFFICES ASSUME Init PROVE BalanceInv
  OBVIOUS
<1>1. CopiesAreCurrent
  BY DEF Init, CopiesAreCurrent
<1>2. InStatus({"approved", "paid"}) = {} /\ InStatus({"approved"}) = {}
  BY DEF Init, InStatus
<1>3. Gross({}) = 0 /\ GrossOf({}) = 0 /\ NetOf({}) = 0
  BY SumEmpty DEF Gross, GrossOf, NetOf
<1>4. BalanceIsSumOfEntries
  <2>1. account.pending = 0 /\ account.available = 0 /\ credited = {}
    BY DEF Init, EmptyAccount
  <2>2. account.pending = Gross(credited) - GrossOf(InStatus({"approved", "paid"}))
    BY <1>2, <1>3, <2>1
  <2>3. account.available = NetOf(InStatus({"approved"}))
    BY <1>2, <1>3, <2>1
  <2> QED BY <2>2, <2>3 DEF BalanceIsSumOfEntries
<1> QED BY <1>1, <1>4 DEF BalanceInv

\* The account's row has no lock: as long as no two transactions happen to be between its
\* SELECT and its UPDATE at once, both balances are the sum of the ledger's entries,
\* whatever else runs at the same time.
THEOREM BalanceUnlessTwoWrite == Spec /\ []OneAtTheAccount => []BalanceIsSumOfEntries
<1>1. IInv /\ BalanceInv /\ OneAtTheAccount /\ [Next]_vars => BalanceInv'
  BY NextBalances
<1>2. BalanceInv => BalanceIsSumOfEntries
  BY DEF BalanceInv
<1> QED BY <1>1, <1>2, InitBalances, Invariance, PTL DEF Spec

\* One worker alone keeps the balances: config/database_hardening.py's check, of any
\* orders, periods, settlements and fees.
THEOREM SerialBalance ==
  ASSUME NEW w, Workers = {w}
  PROVE  Spec => []BalanceIsSumOfEntries
<1>1. OneAtTheAccount
  BY DEF OneAtTheAccount
<1> QED BY <1>1, BalanceUnlessTwoWrite, PTL

-----------------------------------------------------------------------------
(* The fees of a settlement *)

LEMMA Quotient ==
  ASSUME NEW m \in Int, NEW d \in Nat \ {0}
  PROVE  /\ m \div d \in Int
         /\ d * (m \div d) <= m /\ m < d * (m \div d) + d
OBVIOUS

\* The nearest whole number, of what is not negative.
LEMMA HalfUpBounds ==
  ASSUME NEW n \in Nat, NEW d \in Nat \ {0}
  PROVE  /\ RoundHalfUp(n, d) \in Nat
         /\ (2 * d) * RoundHalfUp(n, d) <= 2 * n + d
<1> DEFINE m == 2 * n + d
           e == 2 * d
           q == m \div e
<1>1. m \in Nat /\ e \in Nat \ {0}
  OBVIOUS
<1>2. RoundHalfUp(n, d) = q
  BY DEF RoundHalfUp
<1> HIDE DEF m, e
<1>3. q \in Int /\ e * q <= m /\ m < e * q + e
  BY <1>1, Quotient
<1> HIDE DEF q
<1>4. q \in Nat
  BY <1>1, <1>3
<1> QED BY <1>2, <1>3, <1>4 DEF m, e

\* A fee, before and after the order's share of the flat fee is added to x, which is
\* its percentage in hundredths of hundredths of a percent.
Percentage(x) == RoundHalfUp(x, 10000)
WithShare(x, share) == RoundHalfUp(x + 10000 * share, 10000)

\* Whole units may be added before rounding or after, but for a tie below zero.
LEMMA RoundShifted ==
  ASSUME NEW x \in Nat, NEW k \in Int
  PROVE  /\ Percentage(x) \in Nat /\ WithShare(x, k) \in Int
         /\ \/ WithShare(x, k) = Percentage(x) + k
            \/ /\ WithShare(x, k) = Percentage(x) + k - 1
               /\ WithShare(x, k) < 0 /\ k < 0 /\ x > 0
BY DEF Percentage, WithShare, RoundHalfUp

LEMMA ProductsOrdered ==
  ASSUME NEW a \in Int, NEW b \in Int, NEW c \in Nat, a <= b
  PROVE  a * c <= b * c
OBVIOUS

\* The proportional share of a flat fee exceeds its exact value by what the two
\* roundings can add.
LEMMA ShareBound ==
  ASSUME NEW a \in Nat, NEW total \in Nat \ {0}, NEW flat \in Nat
  PROVE  /\ Proportional(a, total, flat) \in Nat
         /\ (2 * Precision * total) * Proportional(a, total, flat)
              <= (2 * Precision * flat) * a + (total * flat + Precision * total)
<1> DEFINE q == RoundHalfUp(a * Precision, total)
           share == RoundHalfUp(q * flat, Precision)
<1>1. Precision \in Nat \ {0} /\ a * Precision \in Nat
  BY PrecisionAssumption
<1>2. q \in Nat /\ (2 * total) * q <= 2 * (a * Precision) + total
  BY <1>1, HalfUpBounds
<1> HIDE DEF q
<1>3. q * flat \in Nat
  BY <1>2
<1>4. share \in Nat /\ (2 * Precision) * share <= 2 * (q * flat) + Precision
  BY <1>1, <1>3, HalfUpBounds
<1>5. share = Proportional(a, total, flat)
  BY DEF Proportional, q
<1> HIDE DEF share
<1>6. ((2 * Precision) * share) * total <= (2 * (q * flat) + Precision) * total
  BY <1>1, <1>3, <1>4, ProductsOrdered
<1>7. ((2 * total) * q) * flat <= (2 * (a * Precision) + total) * flat
  BY <1>1, <1>2, ProductsOrdered
<1>8. ((2 * Precision) * share) * total = (2 * Precision * total) * share
  BY <1>1, <1>4
<1>9. (2 * (q * flat) + Precision) * total = ((2 * total) * q) * flat + Precision * total
  BY <1>1, <1>2
<1>10. (2 * (a * Precision) + total) * flat = (2 * Precision * flat) * a + total * flat
  BY <1>1
<1>11. /\ (2 * Precision * total) * share \in Int
       /\ ((2 * total) * q) * flat \in Int
       /\ Precision * total \in Int /\ total * flat \in Int /\ (2 * Precision * flat) * a \in Int
  BY <1>1, <1>2, <1>4
<1>12. (2 * Precision * total) * share <= (2 * Precision * flat) * a + (total * flat + Precision * total)
  BY <1>6, <1>7, <1>8, <1>9, <1>10, <1>11
<1> QED BY <1>4, <1>5, <1>12

LEMMA ProductsDistribute ==
  ASSUME NEW a \in Int, NEW b \in Int, NEW c \in Int
  PROVE  c * (a + b) = c * a + c * b /\ c * (a - b) = c * a - c * b
OBVIOUS

LEMMA ProductsCancel ==
  ASSUME NEW a \in Int, NEW b \in Int, NEW c \in Nat \ {0}, c * a < c * b
  PROVE  a < b
<1> SUFFICES ASSUME b <= a PROVE FALSE
  OBVIOUS
<1>1. b * c <= a * c
  BY ProductsOrdered
<1> QED BY <1>1

LEMMA SumToStep ==
  ASSUME NEW n \in Nat \ {0}, NEW f, \A i \in 1 .. n : f[i] \in Int
  PROVE  SumTo(f, n) = SumTo(f, n - 1) + f[n] /\ SumTo(f, n - 1) \in Int
<1>1. 1 .. n = (1 .. n - 1) \cup {n} /\ n \notin 1 .. n - 1
  OBVIOUS
<1>2. IsFiniteSet(1 .. n - 1) /\ \A i \in (1 .. n - 1) \cup {n} : f[i] \in Int
  BY <1>1, FS_Interval
<1>3. SumFunctionOnSet(f, (1 .. n - 1) \cup {n}) = SumFunctionOnSet(f, 1 .. n - 1) + f[n]
  BY <1>1, <1>2, SumAdd
<1>4. SumFunctionOnSet(f, 1 .. n - 1) \in Int
  BY <1>2, SumType
<1> QED BY <1>1, <1>3, <1>4 DEF SumTo

\* The shares of all orders but the last, one by one, exceed their exact values by
\* what the roundings add to each.
LEMMA SharesBound ==
  ASSUME NEW m \in Nat, NEW amounts, \A i \in 1 .. m : amounts[i] \in Nat,
         NEW total \in Nat \ {0}, NEW flat \in Nat,
         NEW share, \A i \in 1 .. m : share[i] = Proportional(amounts[i], total, flat)
  PROVE  (2 * Precision * total) * SumTo(share, m)
           <= (2 * Precision * flat) * SumTo(amounts, m)
              + (total * flat + Precision * total) * m
<1> DEFINE D == 1 .. m
           c == 2 * Precision * total
           e == 2 * Precision * flat
           k == total * flat + Precision * total
           exact == [i \in D |-> e * amounts[i]]
           more  == [i \in D |-> k]
           bound == [i \in D |-> exact[i] + more[i]]
           scaled == [i \in D |-> c * share[i]]
<1>1. c \in Int /\ e \in Int /\ k \in Int
  BY PrecisionAssumption
<1>2. IsFiniteSet(D) /\ Cardinality(D) = m
  BY FS_Interval
<1>3. \A i \in D : share[i] \in Nat /\ c * share[i] <= e * amounts[i] + k
  BY ShareBound
<1> HIDE DEF c, e, k, D
<1>4. /\ \A i \in D : amounts[i] \in Int /\ exact[i] = e * amounts[i]
      /\ \A i \in D : more[i] = k
      /\ \A i \in D : share[i] \in Int /\ scaled[i] = c * share[i]
  BY <1>3 DEF D
<1>5. /\ \A i \in D : exact[i] \in Int /\ more[i] \in Int /\ bound[i] = exact[i] + more[i]
      /\ \A i \in D : scaled[i] \in Int /\ bound[i] \in Int /\ scaled[i] <= bound[i]
  BY <1>1, <1>3, <1>4
<1> HIDE DEF exact, more, bound, scaled
<1>6. SumFunctionOnSet(scaled, D) = c * SumFunctionOnSet(share, D)
  BY <1>1, <1>2, <1>4, SumTimes
<1>7. SumFunctionOnSet(exact, D) = e * SumFunctionOnSet(amounts, D)
  BY <1>1, <1>2, <1>4, SumTimes
<1>8. SumFunctionOnSet(more, D) = k * m
  BY <1>1, <1>2, <1>4, SumConstant
<1>9. SumFunctionOnSet(bound, D) = SumFunctionOnSet(exact, D) + SumFunctionOnSet(more, D)
  BY <1>2, <1>5, SumPlus
<1>10. SumFunctionOnSet(scaled, D) <= SumFunctionOnSet(bound, D)
  BY <1>2, <1>5, SumBound
<1>11. c * SumFunctionOnSet(share, D) <= e * SumFunctionOnSet(amounts, D) + k * m
  BY <1>6, <1>7, <1>8, <1>9, <1>10
<1> QED BY <1>11 DEF SumTo, D, c, e, k

\* How much more than the flat fee the others may bear together: less than half of
\* a hundredth for each of them, the last included, and one less than that when the
\* last order is not free.
LEMMA OthersBear ==
  ASSUME NEW n \in Nat \ {0}, NEW amounts \in [1 .. n -> Nat], NEW flat \in Nat \ {0},
         NEW total, total = SumTo(amounts, n), total > 0,
         n * flat < Precision, n * total < Precision,
         NEW share, \A i \in 1 .. n - 1 : share[i] = Proportional(amounts[i], total, flat)
  PROVE  LET rest == SumTo(share, n - 1) - flat IN
         /\ rest \in Int /\ 2 * rest < n
         /\ amounts[n] > 0 => 2 * rest < n - 1
<1> DEFINE P == Precision
           m == n - 1
           a == amounts[n]
           others == SumTo(amounts, m)
           S == SumTo(share, m)
           rest == S - flat
<1>1. P \in Nat \ {0} /\ m \in Nat /\ a \in Nat /\ n = m + 1
  BY PrecisionAssumption
<1>2. total = others + a /\ others \in Int
  <2>1. \A i \in 1 .. n : amounts[i] \in Int
    OBVIOUS
  <2> QED BY <2>1, SumToStep
<1>3. total \in Nat \ {0}
  BY <1>1, <1>2
<1>4. \A i \in 1 .. m : amounts[i] \in Nat /\ share[i] \in Int
  <2> SUFFICES ASSUME NEW i \in 1 .. m PROVE amounts[i] \in Nat /\ share[i] \in Int
    OBVIOUS
  <2>1. i \in 1 .. n /\ i \in 1 .. n - 1
    BY <1>1
  <2>2. amounts[i] \in Nat /\ share[i] = Proportional(amounts[i], total, flat)
    BY <2>1
  <2>3. Proportional(amounts[i], total, flat) \in Nat
    BY <1>3, <2>2, ShareBound
  <2> QED BY <2>2, <2>3
<1>5. S \in Int /\ rest \in Int
  <2>1. IsFiniteSet(1 .. m)
    BY <1>1, FS_Interval
  <2>2. S \in Int
    BY <1>4, <2>1, SumType DEF SumTo
  <2> QED BY <2>2
<1>r. rest = S - flat
  OBVIOUS
<1>6. (2 * P * total) * S <= (2 * P * flat) * others + (total * flat + P * total) * m
  BY <1>1, <1>3, <1>4, SharesBound
<1>7. m * flat < P /\ m * total < P
  <2>1. m * flat <= n * flat /\ m * total <= n * total
    BY <1>1, <1>3, ProductsOrdered
  <2>2. m * flat \in Int /\ n * flat \in Int /\ m * total \in Int /\ n * total \in Int
    BY <1>1, <1>3
  <2> QED BY <1>1, <2>1, <2>2
<1> HIDE DEF others, S, P, m, a, rest
<1>8. (2 * P * total) * rest <= (total * flat) * m + (P * total) * m - (2 * P * flat) * a
  <2> DEFINE c == 2 * P * total
             e == 2 * P * flat
             f == total * flat
             g == P * total
  <2>1. /\ c \in Int /\ e \in Int /\ f \in Int /\ g \in Int
        /\ c * flat = e * total
    BY <1>1, <1>3
  <2> HIDE DEF c, e, f, g
  <2>2. c * rest = c * S - e * total
    <3>1. c * (S - flat) = c * S - c * flat
      BY <1>5, <2>1, ProductsDistribute
    <3> QED BY <1>r, <2>1, <3>1
  <2>3. e * total = e * others + e * a
    <3>1. e * (others + a) = e * others + e * a
      BY <1>1, <1>2, <2>1, ProductsDistribute
    <3> QED BY <1>2, <3>1
  <2>4. (f + g) * m = f * m + g * m
    BY <1>1, <2>1
  <2>5. c * S <= e * others + (f + g) * m
    BY <1>6 DEF c, e, f, g
  <2>6. /\ c * S \in Int /\ e * total \in Int /\ e * others \in Int /\ e * a \in Int
        /\ f * m \in Int /\ g * m \in Int
    BY <1>1, <1>2, <1>3, <1>5, <2>1
  <2>7. c * rest <= f * m + g * m - e * a
    <3> DEFINE cs == c * S
               et == e * total
               eo == e * others
               ea == e * a
               fm == f * m
               gm == g * m
    <3>1. /\ cs \in Int /\ et \in Int /\ eo \in Int /\ ea \in Int /\ fm \in Int /\ gm \in Int
          /\ c * rest = cs - et /\ et = eo + ea /\ cs <= eo + (fm + gm)
      BY <2>2, <2>3, <2>4, <2>5, <2>6
    <3> HIDE DEF cs, et, eo, ea, fm, gm
    <3>2. cs - et <= fm + gm - ea
      BY <3>1
    <3> QED BY <3>1, <3>2 DEF ea, fm, gm
  <2> QED BY <2>7 DEF c, e, f, g
<1>9. P * total \in Nat \ {0}
  BY <1>1, <1>3
<1>10. 2 * rest < n
  <2>1. (total * flat) * m < P * total
    <3>1. (m * flat + 1) * total <= P * total
      <4>1. m * flat + 1 \in Int /\ m * flat + 1 <= P
        BY <1>1, <1>7
      <4>2. P \in Int /\ total \in Nat
        BY <1>1, <1>3
      <4> QED BY <4>1, <4>2, ProductsOrdered
    <3>2. (m * flat + 1) * total = (total * flat) * m + total
      BY <1>1, <1>3
    <3>3. (total * flat) * m \in Int
      BY <1>1, <1>3
    <3> QED BY <1>3, <1>9, <3>1, <3>2, <3>3
  <2>2. (2 * P * flat) * a \in Nat
    BY <1>1
  <2>3. (P * total) * m + P * total = (P * total) * n
    BY <1>1, <1>3
  <2>4. (2 * P * total) * rest = (P * total) * (2 * rest)
    BY <1>1, <1>3, <1>5
  <2>5. /\ (total * flat) * m \in Int /\ (P * total) * m \in Int
        /\ (P * total) * (2 * rest) \in Int /\ (P * total) * n \in Int
    BY <1>1, <1>3, <1>5
  <2>6. (P * total) * (2 * rest) < (P * total) * n
    BY <1>8, <1>9, <2>1, <2>2, <2>3, <2>4, <2>5
  <2>7. 2 * rest \in Int /\ n \in Int
    BY <1>5
  <2> QED BY <1>9, <2>6, <2>7, ProductsCancel
<1>11. ASSUME a > 0 PROVE 2 * rest < m
  <2>1. (total * flat) * m < P * flat
    <3>1. (m * total + 1) * flat <= P * flat
      <4>1. m * total + 1 \in Int /\ m * total + 1 <= P
        BY <1>1, <1>3, <1>7
      <4> QED BY <1>1, <4>1, ProductsOrdered
    <3>2. (m * total + 1) * flat = (total * flat) * m + flat
      BY <1>1, <1>3
    <3>3. (total * flat) * m \in Int /\ P * flat \in Int
      BY <1>1, <1>3
    <3> QED BY <3>1, <3>2, <3>3
  <2>2. P * flat \in Nat /\ P * flat <= (2 * P * flat) * a
    <3>1. 1 * (2 * P * flat) <= a * (2 * P * flat)
      BY <1>1, <1>11, ProductsOrdered
    <3>2. P * flat \in Nat /\ a * (2 * P * flat) = (2 * P * flat) * a
          /\ 1 * (2 * P * flat) = 2 * (P * flat) /\ (2 * P * flat) * a \in Int
      BY <1>1
    <3> QED BY <3>1, <3>2
  <2>3. (2 * P * total) * rest = (P * total) * (2 * rest)
    BY <1>1, <1>3, <1>5
  <2>4. /\ (total * flat) * m \in Int /\ (P * total) * m \in Int /\ (2 * P * flat) * a \in Int
        /\ (P * total) * (2 * rest) \in Int
    BY <1>1, <1>3, <1>5
  <2>5. (P * total) * (2 * rest) < (P * total) * m
    BY <1>8, <2>1, <2>2, <2>3, <2>4
  <2>6. 2 * rest \in Int /\ m \in Int
    BY <1>1, <1>5
  <2> QED BY <1>9, <2>5, <2>6, ProductsCancel
<1> QED BY <1>5, <1>10, <1>11 DEF rest, S, m, a

LEMMA Ranges ==
  ASSUME NEW n \in Nat \ {0}
  PROVE  /\ IsFiniteSet(1 .. n) /\ IsFiniteSet(1 .. n - 1)
         /\ n \in 1 .. n /\ n \notin 1 .. n - 1
         /\ \A i \in 1 .. n - 1 : i \in 1 .. n
         /\ \A i \in 1 .. n : i # n => i \in 1 .. n - 1
<1>1. IsFiniteSet(1 .. n) /\ IsFiniteSet(1 .. n - 1)
  BY FS_Interval
<1> QED BY <1>1

LEMMA SumToPlus ==
  ASSUME NEW m \in Nat, NEW f, NEW g, NEW h,
         \A i \in 1 .. m : f[i] \in Int /\ g[i] \in Int /\ h[i] = f[i] + g[i]
  PROVE  SumTo(h, m) = SumTo(f, m) + SumTo(g, m)
<1>1. IsFiniteSet(1 .. m)
  BY FS_Interval
<1> QED BY <1>1, SumPlus DEF SumTo

\* Shares of which only the last may be negative and not by much, and the fees that
\* come of them.
SharesFit(n, amounts, flat, shares, percents, fees) ==
  /\ \A i \in 1 .. n - 1 : shares[i] \in Nat
  /\ shares[n] \in Int
  /\ SumTo(shares, n - 1) + shares[n] = flat
  /\ shares[n] < 0 => /\ flat > 0 /\ 2 * (-shares[n]) < n
                      /\ amounts[n] > 0 => 2 * (-shares[n]) < n - 1
  /\ \A i \in 1 .. n :
       /\ percents[i] \in Nat /\ fees[i] \in Int
       /\ \/ fees[i] = percents[i] + shares[i]
          \/ /\ fees[i] = percents[i] + shares[i] - 1
             /\ fees[i] < 0 /\ shares[i] < 0 /\ amounts[i] > 0

\* What FeesAddUp says of the fees of n orders.
AddUp(n, flat, percents, fees) ==
  LET total == SumTo(fees, n)
      owed == SumTo(percents, n) + flat IN
  /\ total \in {owed - 1, owed} /\ total >= 0
  /\ fees[n] >= 0 => total = owed
  /\ \A i \in 1 .. n - 1 : fees[i] >= percents[i]
  /\ 2 * (percents[n] - fees[n]) <= n

LEMMA FeesFromShares ==
  ASSUME NEW n \in Nat \ {0}, NEW flat \in Nat, NEW amounts, NEW shares, NEW percents, NEW fees,
         SharesFit(n, amounts, flat, shares, percents, fees)
  PROVE  AddUp(n, flat, percents, fees)
<1> USE DEF SharesFit
<1>1. \A i \in 1 .. n - 1 : /\ percents[i] \in Int /\ shares[i] \in Int /\ fees[i] >= percents[i]
                            /\ fees[i] = percents[i] + shares[i]
  BY Ranges
<1>2. SumTo(fees, n - 1) = SumTo(percents, n - 1) + SumTo(shares, n - 1)
  <2>1. n - 1 \in Nat
    OBVIOUS
  <2> QED BY <1>1, <2>1, SumToPlus
<1>3. /\ percents[n] \in Nat /\ fees[n] \in Int
      /\ \/ fees[n] = percents[n] + shares[n]
         \/ /\ fees[n] = percents[n] + shares[n] - 1
            /\ fees[n] < 0 /\ shares[n] < 0 /\ amounts[n] > 0
  BY Ranges
<1>4. SumTo(fees, n) = SumTo(fees, n - 1) + fees[n] /\ SumTo(fees, n - 1) \in Int
  BY SumToStep
<1>5. /\ SumTo(percents, n) = SumTo(percents, n - 1) + percents[n]
      /\ SumTo(percents, n - 1) \in Int
  <2>1. \A i \in 1 .. n : percents[i] \in Int
    OBVIOUS
  <2> QED BY <2>1, SumToStep
<1>6. SumTo(percents, n) \in Nat
  BY Ranges, SumType DEF SumTo
<1>7. SumTo(shares, n - 1) \in Int
  BY <1>1, Ranges, SumType DEF SumTo
<1> DEFINE total == SumTo(fees, n)
           owed == SumTo(percents, n) + flat
<1>8. owed \in Nat /\ total = owed + fees[n] - percents[n] - shares[n]
  BY <1>2, <1>3, <1>4, <1>5, <1>6, <1>7
<1>9. shares[n] < 0 => owed > 0
  BY <1>6
<1> HIDE DEF total, owed
<1>10. total \in {owed - 1, owed} /\ total >= 0 /\ (fees[n] >= 0 => total = owed)
  BY <1>3, <1>8, <1>9
<1>11. 2 * (percents[n] - fees[n]) <= n
  BY <1>3
<1> QED BY <1>1, <1>10, <1>11 DEF total, owed, AddUp

\* allocate_fees, of any amounts that are not all nothing and any policy.
LEMMA AllocatedFees ==
  ASSUME NEW n \in Nat \ {0}, NEW amounts \in [1 .. n -> Nat], NEW rate \in Int,
         NEW flat \in Int, SumTo(amounts, n) > 0,
         n * flat < Precision, n * SumTo(amounts, n) < Precision
  PROVE  AddUp(n, AtLeastZero(flat), [i \in 1 .. n |-> PercentOf(amounts[i], rate)],
               AllocateFees(amounts, rate, flat))
<1> DEFINE fees == AllocateFees(amounts, rate, flat)
           percents == [i \in 1 .. n |-> PercentOf(amounts[i], rate)]
           share == [i \in 1 .. n - 1 |-> Proportional(amounts[i], SumTo(amounts, n), flat)]
           shares == IF flat > 0
                     THEN [i \in 1 .. n |-> IF i = n THEN flat - SumTo(share, n - 1) ELSE share[i]]
                     ELSE [i \in 1 .. n |-> 0]
<1>1. amounts \in Seq(Nat) /\ Len(amounts) = n /\ DOMAIN amounts = 1 .. n
  OBVIOUS
<1>2. fees = [i \in 1 .. n |->
                RoundHalfUp(AtLeastZero(rate) * amounts[i] + 10000 * shares[i], 10000)]
  BY <1>1 DEF AllocateFees, FlatShares
<1>3. AtLeastZero(rate) \in Nat /\ AtLeastZero(flat) \in Nat
      /\ AtLeastZero(flat) = IF flat > 0 THEN flat ELSE 0
  BY DEF AtLeastZero
<1>4. /\ \A i \in 1 .. n - 1 : shares[i] \in Nat
      /\ shares[n] \in Int
      /\ SumTo(shares, n - 1) + shares[n] = AtLeastZero(flat)
      /\ shares[n] < 0 => /\ AtLeastZero(flat) > 0 /\ 2 * (-shares[n]) < n
                          /\ amounts[n] > 0 => 2 * (-shares[n]) < n - 1
  <2>0. IsFiniteSet(1 .. n - 1)
    BY FS_Interval
  <2>1. CASE flat > 0
    <3>1. SumTo(amounts, n) \in Nat \ {0} /\ flat \in Nat \ {0}
      <4>1. IsFiniteSet(1 .. n) /\ \A i \in 1 .. n : amounts[i] \in Int
        BY FS_Interval
      <4>2. SumTo(amounts, n) \in Int
        BY <4>1, SumType DEF SumTo
      <4> QED BY <2>1, <4>2
    <3>2. \A i \in 1 .. n - 1 : share[i] \in Nat
      <4> SUFFICES ASSUME NEW i \in 1 .. n - 1 PROVE share[i] \in Nat
        OBVIOUS
      <4>1. amounts[i] \in Nat
        OBVIOUS
      <4>2. Proportional(amounts[i], SumTo(amounts, n), flat) \in Nat
        BY <3>1, <4>1, ShareBound
      <4> QED BY <4>2
    <3>3. \A i \in 1 .. n - 1 : share[i] = Proportional(amounts[i], SumTo(amounts, n), flat)
      OBVIOUS
    <3>4. /\ \A i \in 1 .. n - 1 : shares[i] = share[i]
          /\ shares[n] = flat - SumTo(share, n - 1)
      BY <2>1
    <3> HIDE DEF share, shares
    <3>5. /\ SumTo(share, n - 1) - flat \in Int /\ 2 * (SumTo(share, n - 1) - flat) < n
          /\ amounts[n] > 0 => 2 * (SumTo(share, n - 1) - flat) < n - 1
      BY <3>1, <3>3, OthersBear
    <3>6. SumTo(shares, n - 1) = SumTo(share, n - 1) /\ SumTo(share, n - 1) \in Int
      <4>1. SumFunctionOnSet(shares, 1 .. n - 1) = SumFunctionOnSet(share, 1 .. n - 1)
        BY <2>0, <3>4, SumSame
      <4>2. SumFunctionOnSet(share, 1 .. n - 1) \in Nat
        BY <2>0, <3>2, SumType
      <4> QED BY <4>1, <4>2 DEF SumTo
    <3>7. shares[n] \in Int /\ -shares[n] = SumTo(share, n - 1) - flat
      BY <3>1, <3>4, <3>6
    <3>8. SumTo(shares, n - 1) + shares[n] = flat
      BY <3>1, <3>4, <3>6
    <3>9. AtLeastZero(flat) = flat
      BY <1>3, <2>1
    <3>10. \A i \in 1 .. n - 1 : shares[i] \in Nat
      BY <3>2, <3>4
    <3>11. AtLeastZero(flat) > 0 /\ 2 * (-shares[n]) < n
           /\ (amounts[n] > 0 => 2 * (-shares[n]) < n - 1)
      BY <3>1, <3>5, <3>7, <3>9
    <3> QED BY <3>7, <3>8, <3>9, <3>10, <3>11
  <2>2. CASE ~(flat > 0)
    <3>1. (\A i \in 1 .. n - 1 : shares[i] = 0) /\ shares[n] = 0
      BY <2>2
    <3> HIDE DEF shares
    <3>2. SumTo(shares, n - 1) = 0
      BY <2>0, <3>1, SumZero DEF SumTo
    <3> QED BY <1>3, <2>2, <3>1, <3>2
  <2> QED BY <2>1, <2>2
<1> HIDE DEF shares
<1>5. ASSUME NEW i \in 1 .. n
      PROVE  /\ percents[i] \in Nat /\ fees[i] \in Int
             /\ \/ fees[i] = percents[i] + shares[i]
                \/ /\ fees[i] = percents[i] + shares[i] - 1
                   /\ fees[i] < 0 /\ shares[i] < 0 /\ amounts[i] > 0
  <2> DEFINE x == AtLeastZero(rate) * amounts[i]
  <2>1. amounts[i] \in Nat /\ shares[i] \in Int
    BY <1>4, Ranges
  <2>2. x \in Nat /\ (x > 0 => amounts[i] > 0)
    BY <1>3, <2>1
  <2>3. fees[i] = WithShare(x, shares[i]) /\ percents[i] = Percentage(x)
    BY <1>2 DEF PercentOf, WithShare, Percentage
  <2> HIDE DEF fees, percents, x
  <2> QED BY <2>1, <2>2, <2>3, RoundShifted
<1> HIDE DEF fees, percents
<1>6. SharesFit(n, amounts, AtLeastZero(flat), shares, percents, fees)
  BY <1>4, <1>5 DEF SharesFit
<1>7. AddUp(n, AtLeastZero(flat), percents, fees)
  BY <1>3, <1>6, FeesFromShares
<1> QED BY <1>7 DEF fees, percents

\* Only orders that are not all free are selected, and made into a settlement.
GrossIsPositive ==
  /\ \A w \in Workers : pc[w] = "insert" => Gross(rows[w]) > 0
  /\ \A s \in Settlements : settlement[s].orders # {} => Gross(settlement[s].orders) > 0

LEMMA GrossStays ==
  ASSUME GrossIsPositive, NEW w \in Workers,
         \A v \in Workers \ {w} : pc'[v] = pc[v] /\ rows'[v] = rows[v],
         pc'[w] = "insert" => Gross(rows'[w]) > 0,
         \A s \in Settlements : \/ settlement'[s].orders = settlement[s].orders
                                \/ Gross(settlement'[s].orders) > 0
  PROVE  GrossIsPositive'
<1> USE DEF GrossIsPositive
<1>1. \A v \in Workers : pc'[v] = "insert" => Gross(rows'[v]) > 0
  OBVIOUS
<1>2. \A s \in Settlements : settlement'[s].orders # {} => Gross(settlement'[s].orders) > 0
  OBVIOUS
<1> QED BY <1>1, <1>2 DEF Gross

LEMMA NextGross ==
  ASSUME TypeOK, GrossIsPositive, [Next]_vars
  PROVE  GrossIsPositive'
<1> USE DEF tables, locks
<1>1. /\ pc \in [Workers -> {"idle", "begin", "read_account", "write", "insert"}]
      /\ rows \in [Workers -> SUBSET Orders]
      /\ settlement \in [Settlements -> [status: Statuses, orders: SUBSET Orders, net: Int]]
  BY DEF TypeOK
<1>2. CASE UNCHANGED <<pc, rows, settlement>>
  BY <1>2 DEF GrossIsPositive, Gross
<1>3. ASSUME NEW w \in Workers, Return(w),
             \A s \in Settlements : \/ settlement'[s].orders = settlement[s].orders
                                    \/ Gross(settlement'[s].orders) > 0
      PROVE  GrossIsPositive'
  <2>1. pc'[w] = "idle" /\ \A v \in Workers \ {w} : pc'[v] = pc[v] /\ rows'[v] = rows[v]
    BY <1>1, <1>3 DEF Return
  <2> QED BY <1>3, <2>1, GrossStays
<1>4. ASSUME NEW w \in Workers, Leave(w) PROVE GrossIsPositive'
  BY <1>3, <1>4 DEF Leave
<1>5. ASSUME NEW w \in Workers, ~Leave(w),
             \/ \E c \in Calls : Begin(w, c)
             \/ LockOrder(w) \/ LockSettlement(w) \/ ReadAccount(w)
      PROVE  GrossIsPositive'
  <2>1. /\ pc'[w] # "insert" /\ settlement' = settlement
        /\ \A v \in Workers \ {w} : pc'[v] = pc[v] /\ rows'[v] = rows[v]
    BY <1>1, <1>5 DEF Begin, LockOrder, LockSettlement, ReadAccount
  <2> QED BY <2>1, GrossStays
<1>6. ASSUME NEW w \in Workers, ~Leave(w), SelectOrders(w) PROVE GrossIsPositive'
  <2> DEFINE found == {o \in call[w].period : orderState[o] = "paid" /\ o \notin Settled}
  <2>1. /\ ~(Gross(found) <= 0) /\ rows' = [rows EXCEPT ![w] = found]
        /\ pc' = [pc EXCEPT ![w] = "insert"] /\ settlement' = settlement
        /\ call[w].op = "create"
    BY <1>6 DEF SelectOrders, At
  <2>2. found \in SUBSET Orders
    BY <2>1, CallFields
  <2> HIDE DEF found
  <2>3. Gross(found) \in Nat
    BY <2>2, GrossType
  <2>4. /\ rows'[w] = found
        /\ \A v \in Workers \ {w} : pc'[v] = pc[v] /\ rows'[v] = rows[v]
    BY <1>1, <2>1
  <2>5. Gross(rows'[w]) > 0
    BY <2>1, <2>3, <2>4
  <2> QED BY <2>1, <2>4, <2>5, GrossStays
<1>7. ASSUME NEW w \in Workers, ~Leave(w), CreateSettlement(w) PROVE GrossIsPositive'
  <2>1. PICK s \in Settlements, fees \in FeeTotals :
          settlement' = [settlement EXCEPT ![s] =
            [status |-> "created", orders |-> rows[w], net |-> Gross(rows[w]) - fees]]
    BY <1>7 DEF CreateSettlement
  <2>2. Gross(rows[w]) > 0 /\ Return(w)
    BY <1>7 DEF CreateSettlement, At, GrossIsPositive
  <2>3. \A t \in Settlements : \/ settlement'[t].orders = settlement[t].orders
                               \/ Gross(settlement'[t].orders) > 0
    BY <1>1, <2>1, <2>2
  <2> QED BY <1>3, <2>2, <2>3
<1>8. ASSUME NEW w \in Workers,
             CreditOrderPayment(w) \/ ApproveSettlement(w) \/ MarkSettlementPaid(w)
      PROVE  GrossIsPositive'
  <2>1. Return(w) /\ \A s \in Settlements : settlement'[s].orders = settlement[s].orders
    BY <1>1, <1>8 DEF CreditOrderPayment, ApproveSettlement, MarkSettlementPaid
  <2> QED BY <1>3, <2>1
<1>9. CASE \E o \in Orders, state \in {"confirmed", "paid"} : OrderPaid(o, state)
  BY <1>2, <1>9 DEF OrderPaid
<1>10. CASE UNCHANGED vars
  BY <1>2, <1>10 DEF vars
<1> QED BY <1>4, <1>5, <1>6, <1>7, <1>8, <1>9, <1>10 DEF Next, Refuse, Crash

\* The amounts of a settlement's orders, in whatever order, add up to its gross.
LEMMA OrdersInARow ==
  ASSUME NEW os \in SUBSET Orders, NEW row \in SetToSeqs(os), NEW amounts,
         amounts = [i \in DOMAIN row |-> Amount[row[i]]]
  PROVE  /\ Cardinality(os) \in Nat
         /\ amounts \in [1 .. Cardinality(os) -> Nat]
         /\ Len(amounts) = Cardinality(os)
         /\ SumTo(amounts, Cardinality(os)) = Gross(os)
<1> DEFINE n == Cardinality(os)
           D == 1 .. n
<1>1. IsFiniteSet(os) /\ n \in Nat /\ \A o \in os : Amount[o] \in Nat
  BY FiniteAssumption, AmountAssumption, FS_Subset, FS_CardinalityType
<1>2. row \in [D -> os] /\ \A i, j \in D : i # j => row[i] # row[j]
  BY DEF SetToSeqs
<1>3. amounts \in [D -> Nat] /\ \A i \in D : amounts[i] = Amount[row[i]] /\ amounts[i] \in Int
  BY <1>1, <1>2
<1>4. Len(amounts) = n
  BY <1>1, <1>3
<1>5. IsFiniteSet(D) /\ Cardinality(D) = n
  BY <1>1, FS_Interval
<1>6. {row[i] : i \in D} = os
  <2>1. row \in Injection(D, os)
    BY <1>2 DEF Injection, IsInjective
  <2>2. row \in Surjection(D, os)
    BY <1>1, <1>5, <2>1, FS_Injection
  <2> QED BY <1>2, <2>2 DEF Surjection
<1> HIDE DEF D
<1>7. SumFunctionOnSet(amounts, D) = SumFunctionOnSet(Amount, {row[i] : i \in D})
  BY <1>1, <1>2, <1>3, <1>5, SumReindexed
<1>8. SumFunctionOnSet(amounts, D) = Gross(os)
  BY <1>6, <1>7 DEF Gross
<1> QED BY <1>1, <1>3, <1>4, <1>8 DEF SumTo, D

\* The decimals are enough for any settlement.
LEMMA EnoughDecimals ==
  ASSUME NEW os \in SUBSET Orders, NEW flat \in Flats
  PROVE  /\ Cardinality(os) * flat < Precision
         /\ Cardinality(os) * Gross(os) < Precision
<1> DEFINE n == Cardinality(os)
           N == Cardinality(Orders)
           g == Gross(os)
           G == Gross(Orders)
<1>1. n \in Nat /\ N \in Nat /\ n <= N
  BY FiniteAssumption, FS_Subset, FS_CardinalityType
<1>2. g \in Nat /\ G \in Nat /\ g <= G
  <2>1. \A o \in Orders : Amount[o] \in Nat
    BY AmountAssumption
  <2> QED BY <2>1, FiniteAssumption, GrossType, SumMonotonic DEF Gross
<1>3. Precision \in Nat \ {0} /\ flat \in Int /\ N * flat < Precision /\ N * G < Precision
  BY PrecisionAssumption, PolicyAssumption
<1> HIDE DEF n, N, g, G
<1>4. n * flat < Precision
  <2>1. CASE flat <= 0
    <3>1. n * flat <= 0
      BY <1>1, <1>3, <2>1
    <3>2. n * flat \in Int
      BY <1>1, <1>3
    <3> QED BY <1>3, <3>1, <3>2
  <2>2. CASE flat > 0
    <3>1. n * flat <= N * flat
      BY <1>1, <1>3, <2>2, ProductsOrdered
    <3>2. n * flat \in Int /\ N * flat \in Int
      BY <1>1, <1>3
    <3> QED BY <1>3, <3>1, <3>2
  <2> QED BY <1>3, <2>1, <2>2
<1>5. n * g < Precision
  <2>1. n * g <= N * g
    BY <1>1, <1>2, ProductsOrdered
  <2>2. g * N <= G * N
    BY <1>1, <1>2, ProductsOrdered
  <2>3. n * g \in Int /\ N * g = g * N /\ N * g \in Int /\ G * N = N * G /\ N * G \in Int
    BY <1>1, <1>2
  <2> QED BY <1>3, <2>1, <2>2, <2>3
<1> QED BY <1>4, <1>5 DEF n, g

LEMMA FeesOfSettlements == TypeOK /\ GrossIsPositive => FeesAddUp
<1> SUFFICES ASSUME TypeOK, GrossIsPositive,
                    NEW s \in Settlements, NEW rate \in Rates, NEW flat \in Flats,
                    NEW amounts \in OrderAmounts(s), Len(amounts) > 0
             PROVE  AddUp(Len(amounts), AtLeastZero(flat),
                          [i \in 1 .. Len(amounts) |-> PercentOf(amounts[i], rate)],
                          AllocateFees(amounts, rate, flat))
  BY DEF FeesAddUp, AddUp
<1> DEFINE os == settlement[s].orders
           n == Cardinality(os)
<1>1. os \in SUBSET Orders /\ (os # {} => Gross(os) > 0)
  BY DEF TypeOK, GrossIsPositive
<1>2. PICK row \in SetToSeqs(os) : amounts = [i \in DOMAIN row |-> Amount[row[i]]]
  BY DEF OrderAmounts
<1> HIDE DEF os
<1>3. /\ n \in Nat /\ amounts \in [1 .. n -> Nat] /\ Len(amounts) = n
      /\ SumTo(amounts, n) = Gross(os)
  BY <1>1, <1>2, OrdersInARow
<1>4. n \in Nat \ {0} /\ os # {}
  <2>1. n > 0
    <3> HIDE DEF n
    <3> QED BY <1>3
  <2>2. os = {} => n = 0
    BY FS_EmptySet
  <2> QED BY <1>3, <2>1, <2>2
<1>5. SumTo(amounts, n) > 0
  BY <1>1, <1>3, <1>4
<1>6. n * flat < Precision /\ n * SumTo(amounts, n) < Precision
  BY <1>1, <1>3, EnoughDecimals
<1>7. rate \in Int /\ flat \in Int
  BY PolicyAssumption
<1> HIDE DEF n
<1>8. AddUp(n, AtLeastZero(flat), [i \in 1 .. n |-> PercentOf(amounts[i], rate)],
            AllocateFees(amounts, rate, flat))
  BY <1>3, <1>4, <1>5, <1>6, <1>7, AllocatedFees
<1> QED BY <1>3, <1>8

\* However many orders a settlement has, and whatever they cost and the plan charges, its
\* fees are the percentages and the flat fee to the hundredth, and only the last order
\* pays less than its percentage: by no more than half a hundredth for each.
THEOREM SettlementFeesAddUp == Spec => []FeesAddUp
<1>1. Init => GrossIsPositive
  BY DEF Init, GrossIsPositive
<1>2. IInv => TypeOK
  BY DEF IInv
<1>3. TypeOK /\ GrossIsPositive /\ [Next]_vars => GrossIsPositive'
  BY NextGross
<1> QED BY <1>1, <1>2, <1>3, FeesOfSettlements, Invariance, PTL DEF Spec

-----------------------------------------------------------------------------
(* The abstract ledger *)

All  == {"created", "approved", "paid"}
Both == {"approved", "paid"}

\* A settlement has orders as soon as there is one.
BatchesHaveOrders ==
  \A s \in Settlements : settlement[s].status # "none" => settlement[s].orders # {}

\* An order that is being credited was paid when it was locked, and stays so.
CreditIsOfPaid(w) ==
  pc[w] \in {"read_account", "write"} /\ call[w].op = "credit" =>
    orderState[call[w].order] # "unpaid"

ContractInv ==
  /\ GrossIsPositive
  /\ BatchesHaveOrders
  /\ \A w \in Workers : CreditIsOfPaid(w)

LEMMA RowsHaveOrders ==
  ASSUME GrossIsPositive, NEW w \in Workers, pc[w] = "insert"
  PROVE  rows[w] # {}
<1>1. Gross({}) = 0
  BY SumEmpty DEF Gross
<1> QED BY <1>1 DEF GrossIsPositive

LEMMA NextBatches ==
  ASSUME IInv, ContractInv, [Next]_vars
  PROVE  BatchesHaveOrders'
<1>1. settlement \in [Settlements -> [status: Statuses, orders: SUBSET Orders, net: Int]]
  BY DEF IInv, TypeOK
<1> SUFFICES ASSUME NEW s \in Settlements, settlement'[s].status # "none"
             PROVE  settlement'[s].orders # {}
  BY DEF BatchesHaveOrders
<1>2. CASE settlement'[s] = settlement[s]
  BY <1>2 DEF ContractInv, BatchesHaveOrders
<1>3. CASE settlement'[s] # settlement[s]
  <2>1. Next
    BY <1>3 DEF vars
  <2>2. CASE settlement[s].status # "none"
    BY <1>3, <2>1, <2>2, LifecycleStep DEF ContractInv, BatchesHaveOrders
  <2>3. CASE settlement[s].status = "none"
    <3>1. PICK w \in Workers :
            CreateSettlement(w) \/ ApproveSettlement(w) \/ MarkSettlementPaid(w)
      BY <1>3, <2>1 DEF Next, OrderPaid, Begin, LockOrder, LockSettlement, ReadAccount,
         CreditOrderPayment, SelectOrders, Refuse, Crash, Leave, tables
    <3>2. CASE CreateSettlement(w)
      <4>1. pc[w] = "insert" /\ rows[w] # {}
        BY <3>2, RowsHaveOrders DEF CreateSettlement, At, ContractInv
      <4>2. PICK t \in Settlements, fees \in FeeTotals :
              settlement' = [settlement EXCEPT ![t] =
                [status |-> "created", orders |-> rows[w], net |-> Gross(rows[w]) - fees]]
        BY <1>3, <3>2 DEF CreateSettlement, Leave, tables
      <4> QED BY <1>1, <1>3, <4>1, <4>2
    <3>3. CASE ApproveSettlement(w) \/ MarkSettlementPaid(w)
      <4>1. call[w].id \in Settlements /\ settlement[call[w].id].status # "none"
        BY <3>3, Held DEF ApproveSettlement, MarkSettlementPaid, At, Decisions, Required
      <4>2. settlement'[s] = settlement[s]
        BY <1>1, <2>3, <3>3, <4>1 DEF ApproveSettlement, MarkSettlementPaid
      <4> QED BY <1>3, <4>2
    <3> QED BY <3>1, <3>2, <3>3
  <2> QED BY <2>2, <2>3
<1> QED BY <1>2, <1>3

LEMMA NextPaid ==
  ASSUME IInv, ContractInv, [Next]_vars
  PROVE  \A w \in Workers : CreditIsOfPaid(w)'
<1> USE DEF tables, locks
<1>1. /\ TypeOK
      /\ \A w \in Workers : CreditIsOfPaid(w)
      /\ pc \in [Workers -> {"idle", "begin", "read_account", "write", "insert"}]
  BY DEF IInv, TypeOK, ContractInv
<1> SUFFICES ASSUME NEW w \in Workers, pc'[w] \in {"read_account", "write"},
                    call'[w].op = "credit"
             PROVE  orderState'[call'[w].order] # "unpaid"
  BY DEF CreditIsOfPaid
<1>2. \A o \in Orders : orderState[o] # "unpaid" => orderState'[o] # "unpaid"
  <2>1. CASE orderState' = orderState
    BY <2>1
  <2>2. CASE \E o \in Orders, state \in {"confirmed", "paid"} : OrderPaid(o, state)
    BY <1>1, <2>2 DEF OrderPaid, TypeOK
  <2> QED BY <2>1, <2>2 DEF Next, vars, Begin, LockOrder, LockSettlement, ReadAccount,
       CreditOrderPayment, SelectOrders, CreateSettlement, ApproveSettlement,
       MarkSettlementPaid, Refuse, Crash, Leave
<1>3. CASE pc[w] \in {"read_account", "write"} /\ call'[w] = call[w]
  <2>1. call[w].order \in Orders /\ orderState[call[w].order] # "unpaid"
    BY <1>1, <1>3, CallFields DEF CreditIsOfPaid
  <2> QED BY <1>2, <1>3, <2>1
<1>4. ASSUME NEW v \in Workers, Return(v) PROVE pc[w] \in {"read_account", "write"} /\ call'[w] = call[w]
  BY <1>1, <1>4 DEF Return, TypeOK
<1>5. ASSUME NEW v \in Workers, ~Leave(v), LockOrder(v)
      PROVE  orderState'[call'[w].order] # "unpaid"
  <2>1. /\ orderState[call[v].order] # "unpaid" /\ orderState' = orderState
        /\ pc' = [pc EXCEPT ![v] = "read_account"] /\ call' = call
    BY <1>5 DEF LockOrder
  <2>2. CASE w = v
    BY <2>1, <2>2
  <2>3. CASE w # v
    BY <1>1, <1>3, <2>1, <2>3
  <2> QED BY <2>2, <2>3
<1>6. ASSUME NEW v \in Workers, ~Leave(v), LockSettlement(v)
      PROVE  orderState'[call'[w].order] # "unpaid"
  <2>1. /\ pc' = [pc EXCEPT ![v] = "read_account"] /\ call' = call
        /\ call[v].op \in Decisions
    BY <1>6 DEF LockSettlement, At
  <2>2. w # v
    BY <2>1 DEF Decisions
  <2> QED BY <1>1, <1>3, <2>1, <2>2
<1>7. ASSUME NEW v \in Workers, ~Leave(v), SelectOrders(v) \/ ReadAccount(v)
      PROVE  orderState'[call'[w].order] # "unpaid"
  BY <1>1, <1>3, <1>7 DEF SelectOrders, ReadAccount
<1>8. ASSUME NEW v \in Workers, NEW c \in Calls, Begin(v, c)
      PROVE  orderState'[call'[w].order] # "unpaid"
  <2>1. w # v
    BY <1>1, <1>8 DEF Begin
  <2>2. pc[w] \in {"read_account", "write"} /\ call'[w] = call[w]
    BY <1>1, <1>8, <2>1 DEF Begin, TypeOK
  <2> QED BY <1>3, <2>2
<1>9. ASSUME NEW o \in Orders, NEW state \in {"confirmed", "paid"}, OrderPaid(o, state)
      PROVE  orderState'[call'[w].order] # "unpaid"
  BY <1>3, <1>9 DEF OrderPaid
<1>10. ASSUME NEW v \in Workers,
              \/ CreditOrderPayment(v) \/ CreateSettlement(v) \/ ApproveSettlement(v)
              \/ MarkSettlementPaid(v) \/ Leave(v)
       PROVE  orderState'[call'[w].order] # "unpaid"
  <2>1. Return(v)
    BY <1>10 DEF CreditOrderPayment, CreateSettlement, ApproveSettlement, MarkSettlementPaid, Leave
  <2> QED BY <1>3, <1>4, <2>1
<1>11. CASE UNCHANGED vars
  BY <1>3, <1>11 DEF vars
<1> QED BY <1>5, <1>6, <1>7, <1>8, <1>9, <1>10, <1>11 DEF Next, Refuse, Crash

LEMMA InitContract == Init => ContractInv /\ Contract!Init
<1> SUFFICES ASSUME Init PROVE ContractInv /\ Contract!Init
  OBVIOUS
<1>1. ContractInv
  BY DEF Init, ContractInv, GrossIsPositive, BatchesHaveOrders, CreditIsOfPaid
<1>2. Earned = {} /\ Payable = {}
  BY DEF Init, Earned, Payable
<1>3. InStatus(All) = {} /\ InStatus(Both) = {} /\ InStatus({"paid"}) = {}
  BY DEF Init, InStatus, All, Both
<1>4. BatchesIn(All) = {} /\ BatchesIn(Both) = {} /\ BatchesIn({"paid"}) = {}
  BY <1>3 DEF BatchesIn
<1>5. Journal = 0
  <2> DEFINE f == [s \in Settlements |-> EntriesOf(s)]
  <2>1. \A s \in Settlements : EntriesOf(s) = 0
    BY DEF Init, EntriesOf, EntryKinds
  <2>2. \A s \in Settlements : f[s] = 0
    BY <2>1
  <2> HIDE DEF f
  <2>3. SumFunctionOnSet(f, Settlements) = 0
    BY <2>2, FiniteAssumption, SumZero
  <2>4. Cardinality(credited) = 0
    BY FS_EmptySet DEF Init
  <2> QED BY <2>3, <2>4 DEF Journal, f
<1>6. credited = {}
  BY DEF Init
<1> QED BY <1>1, <1>2, <1>4, <1>5, <1>6 DEF Contract!Init, All, Both

\* A step that changes none of these tables is none of the ledger's.
LEMMA LedgerStutters ==
  ASSUME UNCHANGED <<orderState, credited, settlement, entries>>
  PROVE  UNCHANGED Contract!contractVars
<1>1. Earned' = Earned /\ Payable' = Payable /\ Journal' = Journal
  BY DEF Earned, Payable, Journal, EntriesOf
<1>2. ASSUME NEW statuses PROVE BatchesIn(statuses)' = BatchesIn(statuses)
  BY DEF BatchesIn, Batch, InStatus
<1> QED BY <1>1, <1>2 DEF Contract!contractVars

\* Settlements of the same orders are the same: what was cleared or paid out before is
\* not the batch of a settlement that was not.
LEMMA BatchesDiffer ==
  ASSUME SettledOnce, BatchesHaveOrders, NEW statuses, "none" \notin statuses,
         NEW s \in Settlements, settlement[s].status \notin statuses
  PROVE  Batch(s) \notin BatchesIn(statuses)
<1> SUFFICES ASSUME NEW t \in InStatus(statuses), Batch(s) = Batch(t) PROVE FALSE
  BY DEF BatchesIn
<1>1. /\ t \in Settlements /\ t # s
      /\ settlement[t].orders # {} /\ settlement[t].orders = settlement[s].orders
  BY DEF InStatus, BatchesHaveOrders, Batch
<1> QED BY <1>1 DEF SettledOnce

\* A settlement that comes to a status brings its batch with it.
LEMMA BatchArrives ==
  ASSUME NEW statuses, NEW s \in Settlements,
         \A t \in Settlements \ {s} : settlement'[t] = settlement[t],
         settlement'[s].status \in statuses,
         settlement[s].status \in statuses =>
           /\ settlement'[s].orders = settlement[s].orders
           /\ settlement'[s].net = settlement[s].net
  PROVE  BatchesIn(statuses)' = BatchesIn(statuses) \cup {Batch(s)'}
<1>1. /\ InStatus(statuses)' = InStatus(statuses) \cup {s}
  BY DEF InStatus
<1>2. \A t \in InStatus(statuses) : Batch(t)' = Batch(t)
  BY DEF InStatus, Batch
<1> QED BY <1>1, <1>2 DEF BatchesIn, InStatus

\* Statuses a settlement neither had nor comes to keep their batches.
LEMMA BatchesStay ==
  ASSUME NEW statuses, NEW s \in Settlements,
         \A t \in Settlements \ {s} : settlement'[t] = settlement[t],
         settlement'[s].status \notin statuses, settlement[s].status \notin statuses
  PROVE  BatchesIn(statuses)' = BatchesIn(statuses)
<1>1. InStatus(statuses)' = InStatus(statuses) /\ s \notin InStatus(statuses)
  BY DEF InStatus
<1>2. \A t \in InStatus(statuses) : Batch(t)' = Batch(t)
  BY <1>1 DEF InStatus, Batch
<1> QED BY <1>1, <1>2 DEF BatchesIn

\* The journal grows by the entries one settlement has got.
LEMMA EntriesArrive ==
  ASSUME TypeOK, TypeOK', NEW s \in Settlements, NEW n \in Nat, UNCHANGED credited,
         \A t \in Settlements \ {s} : entries'[t] = entries[t],
         EntriesOf(s)' = EntriesOf(s) + n
  PROVE  Journal' = Journal + n
<1> DEFINE f == [t \in Settlements |-> EntriesOf(t)]
           g == [t \in Settlements |-> EntriesOf(t)']
<1>1. \A t \in Settlements : EntriesOf(t) \in Nat /\ EntriesOf(t)' \in Nat
  BY DEF TypeOK, EntriesOf, EntryKinds
<1>2. \A t \in Settlements : f[t] \in Int /\ g[t] \in Int
  BY <1>1
<1>3. \A t \in Settlements \ {s} : f[t] = g[t]
  BY DEF EntriesOf
<1>4. f[s] \in Int /\ g[s] = f[s] + n
  BY <1>1
<1>5. Journal = Cardinality(credited) + SumFunctionOnSet(f, Settlements)
  BY DEF Journal
<1>6. Journal' = Cardinality(credited) + SumFunctionOnSet(g, Settlements)
  BY DEF Journal
<1>7. Cardinality(credited) \in Nat
  BY FiniteAssumption, FS_Subset, FS_CardinalityType DEF TypeOK
<1> HIDE DEF f, g
<1>8. SumFunctionOnSet(f, Settlements) \in Int
  BY <1>2, FiniteAssumption, SumType
<1>9. SumFunctionOnSet(g, Settlements) = SumFunctionOnSet(f, Settlements) - f[s] + g[s]
  BY <1>2, <1>3, FiniteAssumption, SumChange
<1> QED BY <1>4, <1>5, <1>6, <1>7, <1>8, <1>9

LEMMA EarnStep ==
  ASSUME TypeOK, NEW o \in Orders, NEW state \in {"confirmed", "paid"}, OrderPaid(o, state)
  PROVE  Contract!Next
<1>1. /\ orderState \in [Orders -> {"unpaid", "confirmed", "paid"}]
      /\ orderState' = [orderState EXCEPT ![o] = state] /\ orderState[o] # "paid"
      /\ UNCHANGED <<credited, settlement, entries>>
  BY DEF OrderPaid, TypeOK
<1>2. Earned' = Earned \cup {o}
  BY <1>1 DEF Earned
<1>3. Payable' \in {Payable, Payable \cup {o}}
  <2>1. CASE state = "paid"
    <3>1. Payable' = Payable \cup {o}
      BY <1>1, <2>1 DEF Payable
    <3> QED BY <3>1
  <2>2. CASE state = "confirmed"
    <3>1. Payable' = Payable
      BY <1>1, <2>2 DEF Payable
    <3> QED BY <3>1
  <2> QED BY <2>1, <2>2
<1>4. Journal' = Journal
  BY <1>1 DEF Journal, EntriesOf
<1>5. ASSUME NEW statuses PROVE BatchesIn(statuses)' = BatchesIn(statuses)
  BY <1>1 DEF BatchesIn, Batch, InStatus
<1>6. /\ BatchesIn({"created", "approved", "paid"})' = BatchesIn({"created", "approved", "paid"})
      /\ BatchesIn({"approved", "paid"})' = BatchesIn({"approved", "paid"})
      /\ BatchesIn({"paid"})' = BatchesIn({"paid"})
  BY <1>5
<1>7. Contract!Earn(o)
  BY <1>1, <1>2, <1>3, <1>4, <1>6 DEF Contract!Earn
<1> QED BY <1>7 DEF Contract!Next

LEMMA CreditStep ==
  ASSUME IInv, ContractInv, NEW w \in Workers, CreditOrderPayment(w)
  PROVE  [Contract!Next]_Contract!contractVars
<1> DEFINE o == call[w].order
<1>1. CASE o \in credited
  BY <1>1, LedgerStutters DEF CreditOrderPayment
<1>2. CASE o \notin credited
  <2>1. /\ TypeOK /\ o \in Orders /\ orderState[o] # "unpaid"
        /\ credited' = credited \cup {o} /\ UNCHANGED <<orderState, settlement, entries>>
    BY <1>2, CallFields DEF IInv, ContractInv, CreditIsOfPaid, CreditOrderPayment, At
  <2>2. o \in Earned \ credited
    BY <1>2, <2>1 DEF Earned
  <2>3. Journal' = Journal + 1
    <3> DEFINE f == [s \in Settlements |-> EntriesOf(s)]
    <3>1. IsFiniteSet(credited)
      BY <2>1, FiniteAssumption, FS_Subset DEF TypeOK
    <3>2. Cardinality(credited') = Cardinality(credited) + 1 /\ Cardinality(credited) \in Nat
      BY <1>2, <2>1, <3>1, FS_AddElement, FS_CardinalityType
    <3>3. \A s \in Settlements : f[s] \in Int
      BY <2>1 DEF TypeOK, EntriesOf, EntryKinds
    <3>4. Journal = Cardinality(credited) + SumFunctionOnSet(f, Settlements)
      BY DEF Journal
    <3>5. Journal' = Cardinality(credited') + SumFunctionOnSet(f, Settlements)
      BY <2>1 DEF Journal, EntriesOf
    <3> HIDE DEF f
    <3>6. SumFunctionOnSet(f, Settlements) \in Int
      BY <3>3, FiniteAssumption, SumType
    <3> QED BY <3>2, <3>4, <3>5, <3>6
  <2>4. Earned' = Earned /\ Payable' = Payable
    BY <2>1 DEF Earned, Payable
  <2>5. ASSUME NEW statuses PROVE BatchesIn(statuses)' = BatchesIn(statuses)
    BY <2>1 DEF BatchesIn, Batch, InStatus
  <2>6. /\ BatchesIn({"created", "approved", "paid"})' = BatchesIn({"created", "approved", "paid"})
        /\ BatchesIn({"approved", "paid"})' = BatchesIn({"approved", "paid"})
        /\ BatchesIn({"paid"})' = BatchesIn({"paid"})
    BY <2>5
  <2>7. Contract!Credit(o)
    BY <2>1, <2>2, <2>3, <2>4, <2>6 DEF Contract!Credit
  <2> QED BY <2>1, <2>7 DEF Contract!Next
<1> QED BY <1>1, <1>2

LEMMA GatherStep ==
  ASSUME IInv, ContractInv, NEW w \in Workers, CreateSettlement(w)
  PROVE  [Contract!Next]_Contract!contractVars
<1>1. CASE Leave(w)
  BY <1>1, LedgerStutters DEF Leave, tables
<1>2. CASE ~Leave(w)
  <2>1. PICK s \in Settlements, fees \in FeeTotals :
          /\ settlement[s].status = "none"
          /\ settlement' = [settlement EXCEPT ![s] =
               [status |-> "created", orders |-> rows[w], net |-> Gross(rows[w]) - fees]]
          /\ rows[w] \cap Settled = {}
          /\ UNCHANGED <<orderState, credited, entries>>
    BY <1>2 DEF CreateSettlement
  <2> DEFINE os == rows[w]
             b == [orders |-> os, net |-> SumFunctionOnSet(Amount, os) - fees]
  <2>2. TypeOK /\ os \in SUBSET Orders /\ os # {}
    BY RowsHaveOrders DEF IInv, TypeOK, ContractInv, CreateSettlement, At
  <2>3. os \subseteq Payable
    BY <2>2 DEF IInv, WorkerInv, RowsArePaid, Payable
  <2>4. /\ settlement'[s] = [status |-> "created", orders |-> os, net |-> Gross(os) - fees]
        /\ \A t \in Settlements \ {s} : settlement'[t] = settlement[t]
    BY <2>1, <2>2 DEF TypeOK
  <2>5. Batch(s)' = b
    BY <2>4 DEF Batch, Gross
  <2>6. BatchesIn({"created", "approved", "paid"})'
          = BatchesIn({"created", "approved", "paid"}) \cup {b}
    BY <2>1, <2>4, <2>5, BatchArrives
  <2>7. BatchesIn({"approved", "paid"})' = BatchesIn({"approved", "paid"})
    BY <2>1, <2>4, BatchesStay
  <2>8. BatchesIn({"paid"})' = BatchesIn({"paid"})
    BY <2>1, <2>4, BatchesStay
  <2>9. \A c \in BatchesIn({"created", "approved", "paid"}) : c.orders \cap os = {}
    BY <2>1 DEF BatchesIn, Batch, InStatus, Settled
  <2>10. Earned' = Earned /\ Payable' = Payable /\ Journal' = Journal
    BY <2>1 DEF Earned, Payable, Journal, EntriesOf
  <2> HIDE DEF os
  <2>11. Contract!SumFunctionOnSet(Amount, os) = SumFunctionOnSet(Amount, os)
    BY DEF SumFunctionOnSet, FoldFunctionOnSet, MapThenFoldSet,
           Contract!SumFunctionOnSet, Contract!FoldFunctionOnSet, Contract!MapThenFoldSet
  <2>12. Contract!Gather(os, fees)
    BY <2>1, <2>2, <2>3, <2>6, <2>7, <2>8, <2>9, <2>10, <2>11 DEF Contract!Gather
  <2> QED BY <2>2, <2>12 DEF Contract!Next
<1> QED BY <1>1, <1>2

LEMMA ClearStep ==
  ASSUME IInv, IInv', ContractInv, NEW w \in Workers, ApproveSettlement(w)
  PROVE  Contract!Next
<1>1. PICK s \in Settlements :
      /\ settlement[s].status = "created"
      /\ settlement[s].net \in Int /\ settlement[s].net >= 0
      /\ settlement' = [settlement EXCEPT ![s].status = "approved"]
      /\ entries' = [entries EXCEPT ![s]["cleared"] = @ + 1, ![s]["released"] = @ + 1]
      /\ UNCHANGED <<orderState, credited>>
  BY Held DEF ApproveSettlement, At, Decisions, Required
<1>2. TypeOK /\ TypeOK' /\ SettledOnce /\ BatchesHaveOrders
      /\ EntriesMatchStatus /\ EntriesMatchStatus'
  BY DEF IInv, ContractInv
<1>3. /\ settlement'[s].status = "approved"
      /\ settlement'[s].orders = settlement[s].orders /\ settlement'[s].net = settlement[s].net
      /\ \A t \in Settlements \ {s} : settlement'[t] = settlement[t]
  BY <1>1, <1>2 DEF TypeOK
<1>4. Batch(s)' = Batch(s)
  BY <1>3 DEF Batch
<1>5. Batch(s) \in BatchesIn({"created", "approved", "paid"})
  BY <1>1 DEF BatchesIn, InStatus
<1>6. Batch(s) \notin BatchesIn({"approved", "paid"})
  BY <1>1, <1>2, BatchesDiffer
<1>7. BatchesIn({"created", "approved", "paid"})' = BatchesIn({"created", "approved", "paid"})
  <2>1. BatchesIn({"created", "approved", "paid"})'
          = BatchesIn({"created", "approved", "paid"}) \cup {Batch(s)'}
    BY <1>1, <1>3, BatchArrives
  <2> QED BY <1>4, <1>5, <2>1
<1>8. BatchesIn({"approved", "paid"})' = BatchesIn({"approved", "paid"}) \cup {Batch(s)}
  BY <1>1, <1>3, <1>4, BatchArrives
<1>9. BatchesIn({"paid"})' = BatchesIn({"paid"})
  BY <1>1, <1>3, BatchesStay
<1>10. Journal' = Journal + 2
  <2>1. /\ entries[s]["cleared"] = 0 /\ entries[s]["released"] = 0 /\ entries[s]["paid_out"] = 0
    BY <1>1, <1>2 DEF EntriesMatchStatus
  <2>2. /\ entries'[s]["cleared"] = 1 /\ entries'[s]["released"] = 1
        /\ entries'[s]["paid_out"] = 0
    BY <1>1, <1>2, <1>3 DEF EntriesMatchStatus
  <2>3. EntriesOf(s)' = EntriesOf(s) + 2
    BY <2>1, <2>2 DEF EntriesOf
  <2>4. \A t \in Settlements \ {s} : entries'[t] = entries[t]
    BY <1>1, <1>2 DEF TypeOK
  <2> QED BY <1>1, <1>2, <2>3, <2>4, EntriesArrive
<1>11. Earned' = Earned /\ Payable' = Payable
  BY <1>1 DEF Earned, Payable
<1>12. Batch(s).net >= 0
  BY <1>1 DEF Batch
<1>13. Contract!Clear(Batch(s))
  BY <1>1, <1>5, <1>6, <1>7, <1>8, <1>9, <1>10, <1>11, <1>12 DEF Contract!Clear
<1> QED BY <1>5, <1>13 DEF Contract!Next

LEMMA PayOutStep ==
  ASSUME IInv, IInv', ContractInv, NEW w \in Workers, MarkSettlementPaid(w)
  PROVE  Contract!Next
<1>1. PICK s \in Settlements :
      /\ settlement[s].status = "approved"
      /\ settlement' = [settlement EXCEPT ![s].status = "paid"]
      /\ entries' = [entries EXCEPT ![s]["paid_out"] = @ + 1]
      /\ UNCHANGED <<orderState, credited>>
  BY Held DEF MarkSettlementPaid, At, Decisions, Required
<1>2. TypeOK /\ TypeOK' /\ SettledOnce /\ BatchesHaveOrders
      /\ EntriesMatchStatus /\ EntriesMatchStatus'
  BY DEF IInv, ContractInv
<1>3. /\ settlement'[s].status = "paid"
      /\ settlement'[s].orders = settlement[s].orders /\ settlement'[s].net = settlement[s].net
      /\ \A t \in Settlements \ {s} : settlement'[t] = settlement[t]
  BY <1>1, <1>2 DEF TypeOK
<1>4. Batch(s)' = Batch(s)
  BY <1>3 DEF Batch
<1>5. /\ Batch(s) \in BatchesIn({"created", "approved", "paid"})
      /\ Batch(s) \in BatchesIn({"approved", "paid"})
  BY <1>1 DEF BatchesIn, InStatus
<1>6. Batch(s) \notin BatchesIn({"paid"})
  BY <1>1, <1>2, BatchesDiffer
<1>7. BatchesIn({"created", "approved", "paid"})' = BatchesIn({"created", "approved", "paid"})
  <2>1. BatchesIn({"created", "approved", "paid"})'
          = BatchesIn({"created", "approved", "paid"}) \cup {Batch(s)'}
    BY <1>1, <1>3, BatchArrives
  <2> QED BY <1>4, <1>5, <2>1
<1>8. BatchesIn({"approved", "paid"})' = BatchesIn({"approved", "paid"})
  <2>1. BatchesIn({"approved", "paid"})' = BatchesIn({"approved", "paid"}) \cup {Batch(s)'}
    BY <1>1, <1>3, BatchArrives
  <2> QED BY <1>4, <1>5, <2>1
<1>9. BatchesIn({"paid"})' = BatchesIn({"paid"}) \cup {Batch(s)}
  BY <1>1, <1>3, <1>4, BatchArrives
<1>10. Journal' = Journal + 1
  <2>1. /\ entries[s]["cleared"] = 1 /\ entries[s]["released"] = 1 /\ entries[s]["paid_out"] = 0
    BY <1>1, <1>2 DEF EntriesMatchStatus
  <2>2. /\ entries'[s]["cleared"] = 1 /\ entries'[s]["released"] = 1
        /\ entries'[s]["paid_out"] = 1
    BY <1>1, <1>2, <1>3 DEF EntriesMatchStatus
  <2>3. EntriesOf(s)' = EntriesOf(s) + 1
    BY <2>1, <2>2 DEF EntriesOf
  <2>4. \A t \in Settlements \ {s} : entries'[t] = entries[t]
    BY <1>1, <1>2 DEF TypeOK
  <2> QED BY <1>1, <1>2, <2>3, <2>4, EntriesArrive
<1>11. Earned' = Earned /\ Payable' = Payable
  BY <1>1 DEF Earned, Payable
<1>12. Contract!PayOut(Batch(s))
  BY <1>1, <1>5, <1>6, <1>7, <1>8, <1>9, <1>10, <1>11 DEF Contract!PayOut
<1> QED BY <1>5, <1>12 DEF Contract!Next

LEMMA NextContract ==
  ASSUME IInv, IInv', ContractInv, [Next]_vars
  PROVE  ContractInv' /\ [Contract!Next]_Contract!contractVars
<1>1. ContractInv'
  BY NextGross, NextBatches, NextPaid DEF IInv, ContractInv
<1>2. CASE UNCHANGED <<orderState, credited, settlement, entries>>
  BY <1>1, <1>2, LedgerStutters
<1>3. CASE \E o \in Orders, state \in {"confirmed", "paid"} : OrderPaid(o, state)
  BY <1>1, <1>3, EarnStep DEF IInv
<1>4. ASSUME NEW w \in Workers, CreditOrderPayment(w) \/ CreateSettlement(w)
      PROVE  [Contract!Next]_Contract!contractVars
  BY <1>4, CreditStep, GatherStep
<1>5. ASSUME NEW w \in Workers, ApproveSettlement(w) \/ MarkSettlementPaid(w)
      PROVE  Contract!Next
  BY <1>5, ClearStep, PayOutStep
<1>6. ASSUME NEW w \in Workers,
             \/ \E c \in Calls : Begin(w, c)
             \/ LockOrder(w) \/ LockSettlement(w) \/ ReadAccount(w) \/ SelectOrders(w)
             \/ Refuse(w) \/ Crash(w)
      PROVE  UNCHANGED <<orderState, credited, settlement, entries>>
  BY <1>6 DEF Begin, LockOrder, LockSettlement, ReadAccount, SelectOrders, Refuse, Crash,
              Leave, tables
<1>7. CASE UNCHANGED vars
  BY <1>2, <1>7 DEF vars
<1> QED BY <1>1, <1>2, <1>3, <1>4, <1>5, <1>6, <1>7 DEF Next

\* Whatever webhooks, tasks and administrators do at once, and whatever updates of the
\* balances are lost: an order is credited once and settled in one batch, and a batch is
\* cleared once, never of a negative net, and then paid out once, each with its entries.
THEOREM SettlementImplementsContract == Spec => KeepsContract
<1>1. IInv /\ IInv' /\ ContractInv /\ [Next]_vars =>
        ContractInv' /\ [Contract!Next]_Contract!contractVars
  BY NextContract
<1> QED BY <1>1, InitContract, Invariance, PTL DEF Spec, KeepsContract, Contract!Spec
=============================================================================
