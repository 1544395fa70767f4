-------------------------- MODULE SettlementLedger --------------------------
(***************************************************************************)
(* apps/settlements: the ledger account of one store and currency, and the *)
(* four use cases that move money through it: a paid order is credited to  *)
(* pending, orders are gathered into settlements, an approval moves the    *)
(* gross out of pending and the net into available, a payment takes the    *)
(* net out.                                                                *)
(*                                                                         *)
(* Each use case is a READ COMMITTED transaction.  It locks the order or   *)
(* the settlement it is about, but reads the account without a lock and    *)
(* writes back the values it computed from that copy.  The UPDATE is the   *)
(* last statement that can wait, so it and the commit are one step.  The   *)
(* account's row exists from the start.                                    *)
(***************************************************************************)
EXTENDS Integers, FiniteSets, Functions

CONSTANTS Workers,        \* web requests, webhooks and tasks
          Orders,         \* the store's orders
          Amount,         \* Amount[o]: the order's total, in hundredths
          Periods,        \* each one the set of the orders created in it
          Settlements,    \* identities of settlements
          FeeTotals,      \* what allocate_fees may charge a settlement in all
          TenantIsStore,  \* whether the store's id is also its tenant's id
          NoWorker        \* an unlocked row

\* The total of a set of orders.
Gross(os) == SumFunctionOnSet(Amount, os)

ASSUME PeriodsAssumption == Periods \subseteq SUBSET Orders
ASSUME FeesAssumption == FeeTotals \subseteq Nat
ASSUME AmountAssumption == Amount \in [Orders -> Nat]
ASSUME FiniteAssumption == IsFiniteSet(Orders) /\ IsFiniteSet(Settlements)
ASSUME NoWorkerAssumption == NoWorker \notin Workers

Statuses == {"none", "created", "approved", "paid"}
Decisions == {"approve", "pay"}
\* The LedgerEntry rows of a settlement: gross debited, net credited, net debited.
EntryKinds == {"cleared", "released", "paid_out"}

VARIABLES
  orderState,     \* "unpaid", "confirmed" (status is paid) or "paid" (payment_status too)
  account,        \* the committed LedgerAccount row
  credited,       \* orders with a LedgerEntry; the table's order is unique
  clashed,        \* orders a repeated credit of which was stopped by that uniqueness
  settlement,     \* the Settlement table, each with the orders of its items
  entries,        \* entries[s][k]: how many entries of kind k settlement s has
  orderLock, settlementLock,             \* row locks
  pc, call, copy, rows                   \* per worker: step, call, what it has read

tables == <<orderState, account, credited, clashed, settlement, entries>>
locks  == <<orderLock, settlementLock>>
vars   == <<orderState, account, credited, clashed, settlement, entries,
            orderLock, settlementLock, pc, call, copy, rows>>

Account == [pending: Int, available: Int]
EmptyAccount == [pending |-> 0, available |-> 0]
NoCall == [op |-> "none"]
Calls == [op: {"credit"}, order: Orders] \cup [op: {"create"}, period: Periods]
           \cup [op: Decisions, id: Settlements]

Init ==
  /\ orderState = [o \in Orders |-> "unpaid"]
  /\ account = EmptyAccount
  /\ credited = {} /\ clashed = {}
  /\ settlement = [s \in Settlements |-> [status |-> "none", orders |-> {}, net |-> 0]]
  /\ entries = [s \in Settlements |-> [k \in EntryKinds |-> 0]]
  /\ orderLock = [o \in Orders |-> NoWorker]
  /\ settlementLock = [s \in Settlements |-> NoWorker]
  /\ pc = [w \in Workers |-> "idle"]
  /\ call = [w \in Workers |-> NoCall]
  /\ copy = [w \in Workers |-> EmptyAccount]
  /\ rows = [w \in Workers |-> {}]

-----------------------------------------------------------------------------
(* Helpers *)

\* Orders that have a SettlementItem.
Settled == UNION {settlement[s].orders : s \in Settlements}

\* for_tenant filters on store_id, and is given the order's tenant: the entry is
\* found only where the two ids coincide.
FindsEntry(o) == o \in credited /\ TenantIsStore

\* The end of a transaction: every lock it holds is released.
Return(w) ==
  /\ orderLock' = [o \in Orders |-> IF orderLock[o] = w THEN NoWorker ELSE orderLock[o]]
  /\ settlementLock' = [s \in Settlements |-> IF settlementLock[s] = w THEN NoWorker
                                                                     ELSE settlementLock[s]]
  /\ pc' = [pc EXCEPT ![w] = "idle"]
  /\ call' = [call EXCEPT ![w] = NoCall]
  /\ copy' = [copy EXCEPT ![w] = EmptyAccount]
  /\ rows' = [rows EXCEPT ![w] = {}]

\* An early return or an exception: nothing was written, or it is rolled back.
Leave(w) == Return(w) /\ UNCHANGED tables

At(w, step, op) == pc[w] = step /\ call[w].op = op

-----------------------------------------------------------------------------
(* Orders are paid outside this package *)

OrderPaid(o, state) ==
  /\ orderLock[o] = NoWorker
  /\ \/ orderState[o] = "unpaid"
     \/ orderState[o] = "confirmed" /\ state = "paid"
  /\ orderState' = [orderState EXCEPT ![o] = state]
  /\ UNCHANGED <<account, credited, clashed, settlement, entries, orderLock,
                 settlementLock, pc, call, copy, rows>>

-----------------------------------------------------------------------------
(* The transactions *)

Begin(w, c) ==
  /\ pc[w] = "idle"
  /\ call' = [call EXCEPT ![w] = c]
  /\ pc' = [pc EXCEPT ![w] = "begin"]
  /\ UNCHANGED <<tables, locks, copy, rows>>

\* Fault: the order is fetched without select_for_update.
LockOrderFree(w) ==
  LET o == call[w].order IN
  /\ At(w, "begin", "credit")
  /\ orderState[o] # "unpaid" /\ ~FindsEntry(o)
  /\ pc' = [pc EXCEPT ![w] = "read_account"]
  /\ UNCHANGED <<tables, locks, call, copy, rows>>

\* Order.objects.select_for_update(), then the two checks.
LockOrder(w) ==
  LET o == call[w].order IN
  /\ At(w, "begin", "credit")
  /\ orderLock[o] = NoWorker
  /\ IF orderState[o] = "unpaid" \/ FindsEntry(o)
       THEN Leave(w)
       ELSE /\ orderLock' = [orderLock EXCEPT ![o] = w]
            /\ pc' = [pc EXCEPT ![w] = "read_account"]
            /\ UNCHANGED <<tables, settlementLock, call, copy, rows>>

\* get_or_create_ledger_account: a plain SELECT.
ReadAccount(w) ==
  /\ pc[w] = "read_account"
  /\ copy' = [copy EXCEPT ![w] = account]
  /\ pc' = [pc EXCEPT ![w] = "write"]
  /\ UNCHANGED <<tables, locks, call, rows>>

\* The entry is inserted before the balance is saved, and is refused if there is one.
CreditOrderPayment(w) ==
  LET o == call[w].order IN
  /\ At(w, "write", "credit")
  /\ IF o \in credited
       THEN /\ clashed' = clashed \cup {o}
            /\ UNCHANGED <<account, credited>>
       ELSE /\ credited' = credited \cup {o}
            /\ account' = [account EXCEPT !.pending = copy[w].pending + Amount[o]]
            /\ UNCHANGED clashed
  /\ UNCHANGED <<orderState, settlement, entries>>
  /\ Return(w)

\* One query finds the paid orders of the period that no item covers.  With none, an
\* earlier settlement of the period is returned, or an error raised.
SelectOrders(w) ==
  LET found == {o \in call[w].period : orderState[o] = "paid" /\ o \notin Settled} IN
  /\ At(w, "begin", "create")
  /\ IF Gross(found) <= 0
       THEN Leave(w)
       ELSE /\ rows' = [rows EXCEPT ![w] = found]
            /\ pc' = [pc EXCEPT ![w] = "insert"]
            /\ UNCHANGED <<tables, locks, call, copy>>

\* Fault: no unique constraint on SettlementItem.order.
CreateSettlementTwice(w) ==
  /\ At(w, "insert", "create")
  /\ \E s \in Settlements, fees \in FeeTotals :
       /\ settlement[s].status = "none"
       /\ settlement' = [settlement EXCEPT ![s] =
            [status |-> "created", orders |-> rows[w], net |-> Gross(rows[w]) - fees]]
  /\ UNCHANGED <<orderState, account, credited, clashed, entries>>
  /\ Return(w)

\* Settlement and items are inserted; an order has at most one item, so a settlement
\* made meanwhile for one of the orders makes the whole transaction fail.
CreateSettlement(w) ==
  /\ At(w, "insert", "create")
  /\ IF rows[w] \cap Settled # {}
       THEN Leave(w)
       ELSE \E s \in Settlements, fees \in FeeTotals :
              /\ settlement[s].status = "none"
              /\ settlement' = [settlement EXCEPT ![s] =
                   [status |-> "created", orders |-> rows[w], net |-> Gross(rows[w]) - fees]]
              /\ UNCHANGED <<orderState, account, credited, clashed, entries>>
              /\ Return(w)

\* The status an operation requires, and the one in which it has been done already.
Required(op) == IF op = "approve" THEN "created" ELSE "approved"

\* Fault: the settlement is read without a lock before its status is checked.
LockSettlementFree(w) ==
  LET c == call[w] IN
  /\ \E op \in Decisions : At(w, "begin", op)
  /\ settlement[c.id].status = Required(c.op)
  /\ pc' = [pc EXCEPT ![w] = "read_account"]
  /\ UNCHANGED <<tables, orderLock, settlementLock, call, copy, rows>>

\* Settlement.objects.select_for_update(), then the status checks.
LockSettlement(w) ==
  LET c == call[w] IN
  /\ \E op \in Decisions : At(w, "begin", op)
  /\ settlementLock[c.id] = NoWorker
  /\ IF settlement[c.id].status = Required(c.op)
       THEN /\ settlementLock' = [settlementLock EXCEPT ![c.id] = w]
            /\ pc' = [pc EXCEPT ![w] = "read_account"]
            /\ UNCHANGED <<tables, orderLock, call, copy, rows>>
       ELSE Leave(w)

\* Fault: the pending balance is not compared with the gross.
ApproveSettlementUnchecked(w) ==
  LET s == call[w].id
      gross == Gross(settlement[s].orders) IN
  /\ At(w, "write", "approve")
  /\ settlement[s].net >= 0
  /\ account' = [pending |-> copy[w].pending - gross,
                 available |-> copy[w].available + settlement[s].net]
  /\ entries' = [entries EXCEPT ![s]["cleared"] = @ + 1, ![s]["released"] = @ + 1]
  /\ settlement' = [settlement EXCEPT ![s].status = "approved"]
  /\ UNCHANGED <<orderState, credited, clashed>>
  /\ Return(w)

\* Fault: the net leaves the pending balance, and the fees stay in it.
ApproveSettlementNet(w) ==
  LET s == call[w].id
      net == settlement[s].net IN
  /\ At(w, "write", "approve")
  /\ copy[w].pending >= net /\ net >= 0
  /\ account' = [pending |-> copy[w].pending - net, available |-> copy[w].available + net]
  /\ entries' = [entries EXCEPT ![s]["cleared"] = @ + 1, ![s]["released"] = @ + 1]
  /\ settlement' = [settlement EXCEPT ![s].status = "approved"]
  /\ UNCHANGED <<orderState, credited, clashed>>
  /\ Return(w)

ApproveSettlement(w) ==
  LET s == call[w].id
      gross == Gross(settlement[s].orders) IN
  /\ At(w, "write", "approve")
  /\ copy[w].pending >= gross
  /\ settlement[s].net >= 0
  /\ account' = [pending |-> copy[w].pending - gross,
                 available |-> copy[w].available + settlement[s].net]
  /\ entries' = [entries EXCEPT ![s]["cleared"] = @ + 1, ![s]["released"] = @ + 1]
  /\ settlement' = [settlement EXCEPT ![s].status = "approved"]
  /\ UNCHANGED <<orderState, credited, clashed>>
  /\ Return(w)

\* Fault: a status that is not among the model's choices.
MarkSettlementSettled(w) ==
  LET s == call[w].id IN
  /\ At(w, "write", "pay")
  /\ copy[w].available >= settlement[s].net
  /\ account' = [account EXCEPT !.available = copy[w].available - settlement[s].net]
  /\ entries' = [entries EXCEPT ![s]["paid_out"] = @ + 1]
  /\ settlement' = [settlement EXCEPT ![s].status = "settled"]
  /\ UNCHANGED <<orderState, credited, clashed>>
  /\ Return(w)

MarkSettlementPaid(w) ==
  LET s == call[w].id IN
  /\ At(w, "write", "pay")
  /\ copy[w].available >= settlement[s].net
  /\ account' = [account EXCEPT !.available = copy[w].available - settlement[s].net]
  /\ entries' = [entries EXCEPT ![s]["paid_out"] = @ + 1]
  /\ settlement' = [settlement EXCEPT ![s].status = "paid"]
  /\ UNCHANGED <<orderState, credited, clashed>>
  /\ Return(w)

\* A balance that does not suffice, or an entry whose amount would be negative.
Refuse(w) ==
  LET s == call[w].id IN
  /\ \/ /\ At(w, "write", "approve")
        /\ copy[w].pending < Gross(settlement[s].orders) \/ settlement[s].net < 0
     \/ /\ At(w, "write", "pay")
        /\ copy[w].available < settlement[s].net
  /\ Leave(w)

Crash(w) == pc[w] # "idle" /\ Leave(w)

Next ==
  \/ \E o \in Orders, state \in {"confirmed", "paid"} : OrderPaid(o, state)
  \/ \E w \in Workers :
       \/ \E c \in Calls : Begin(w, c)
       \/ LockOrder(w) \/ LockSettlement(w) \/ ReadAccount(w)
       \/ CreditOrderPayment(w)
       \/ SelectOrders(w) \/ CreateSettlement(w)
       \/ ApproveSettlement(w) \/ MarkSettlementPaid(w)
       \/ Refuse(w) \/ Crash(w)

Spec == Init /\ [][Next]_vars

-----------------------------------------------------------------------------
(* Properties *)

\* The tables, locks and per-worker data have the types the code gives them.
TypeOK ==
  /\ orderState \in [Orders -> {"unpaid", "confirmed", "paid"}]
  /\ account \in Account
  /\ credited \in SUBSET Orders /\ clashed \in SUBSET Orders
  /\ settlement \in [Settlements -> [status: Statuses, orders: SUBSET Orders, net: Int]]
  /\ entries \in [Settlements -> [EntryKinds -> Nat]]
  /\ orderLock \in [Orders -> Workers \cup {NoWorker}]
  /\ settlementLock \in [Settlements -> Workers \cup {NoWorker}]
  /\ pc \in [Workers -> {"idle", "begin", "read_account", "write", "insert"}]
  /\ call \in [Workers -> {NoCall} \cup Calls]
  /\ copy \in [Workers -> Account]
  /\ rows \in [Workers -> SUBSET Orders]

\* An order is settled at most once, even when two tasks gather overlapping periods
\* at the same time, and only paid orders are.
SettledOnce ==
  /\ \A s, t \in Settlements : s # t => settlement[s].orders \cap settlement[t].orders = {}
  /\ \A o \in Settled : orderState[o] = "paid"

\* A settlement's ledger entries are those of its status, each written once: two
\* administrators who approve or pay it together do not post it twice.
EntriesMatchStatus ==
  \A s \in Settlements :
    LET n(k, statuses) == entries[s][k] = IF settlement[s].status \in statuses THEN 1 ELSE 0 IN
    /\ n("cleared", {"approved", "paid"})
    /\ n("released", {"approved", "paid"})
    /\ n("paid_out", {"paid"})

\* Whatever stale copies are written back, no balance goes below zero.
NoNegativeBalance == account.pending >= 0 /\ account.available >= 0

\* A settlement goes created -> approved -> paid, and its orders and its net are
\* fixed when it is created.
SettlementLifecycle ==
  [][\A s \in Settlements : settlement'[s] # settlement[s] =>
       /\ <<settlement[s].status, settlement'[s].status>> \in
            {<<"none", "created">>, <<"created", "approved">>, <<"approved", "paid">>}
       /\ settlement[s].status # "none" =>
            /\ settlement'[s].orders = settlement[s].orders
            /\ settlement'[s].net = settlement[s].net]_vars

InStatus(statuses) == {s \in Settlements : settlement[s].status \in statuses}
GrossOf(ss) == SumFunctionOnSet([s \in Settlements |-> Gross(settlement[s].orders)], ss)
NetOf(ss) == SumFunctionOnSet([s \in Settlements |-> settlement[s].net], ss)

\* config/database_hardening.py:299 "Check: Balance = sum(all ledger entries)".  Both
\* balances of the account are what its entries add up to.
BalanceIsSumOfEntries ==
  /\ account.pending = Gross(credited) - GrossOf(InStatus({"approved", "paid"}))
  /\ account.available = NetOf(InStatus({"approved"}))

\* credit_order_payment.py:23 "Idempotent per order.": of two calls for one order, also at
\* the same time, the later finds the earlier's entry and does not fail on its uniqueness,
\* where the lookup can find it at all.
CreditIsIdempotent == TenantIsStore => clashed = {}

-----------------------------------------------------------------------------
(* The abstract ledger *)

Earned  == {o \in Orders : orderState[o] # "unpaid"}
Payable == {o \in Orders : orderState[o] = "paid"}

\* What is settled, whatever the settlement's identity.
Batch(s) == [orders |-> settlement[s].orders, net |-> settlement[s].net]
BatchesIn(statuses) == {Batch(s) : s \in InStatus(statuses)}

\* The number of rows of the LedgerEntry table.
EntriesOf(s) == entries[s]["cleared"] + entries[s]["released"] + entries[s]["paid_out"]
Journal == Cardinality(credited)
             + SumFunctionOnSet([s \in Settlements |-> EntriesOf(s)], Settlements)

\* The ledger keeps what LedgerContract promises, although balances can lose updates.
Contract == INSTANCE LedgerContract WITH
  earned  <- Earned,
  payable <- Payable,
  batches <- BatchesIn({"created", "approved", "paid"}),
  cleared <- BatchesIn({"approved", "paid"}),
  paidOut <- BatchesIn({"paid"}),
  journal <- Journal

KeepsContract == Contract!Spec
=============================================================================
