--------------------------- MODULE CheckoutProofs ---------------------------
(***************************************************************************)
(* Checkout, for every number of workers, carts, customers, coupons and    *)
(* sessions: the types, one order per session, the finality of a confirmed *)
(* session, the amounts of an order, and the refinement of CouponContract. *)
(* The inductive invariant says what the two row locks are for: a session  *)
(* one request holds is not written by another, and what holds of a coupon *)
(* when its row is locked holds until its use is logged.                   *)
(***************************************************************************)
EXTENDS Checkout, FiniteSetTheorems, TLAPS

Holding == {"create_order", "redeem", "commit"}

AddsUp(o) ==
  /\ o.taxable = Taxable(o.subtotal, o.discount, o.shipping)
  /\ o.coupon # NoCoupon => o.discount > 0

\* A session is locked by one worker at most, and by it for payment.
LocksOK ==
  /\ \A w \in Workers : at[w] # 0 <=> pc[w] \in Holding
  /\ \A w \in Workers :
       at[w] # 0 => session[at[w]].status = "PAYMENT" /\ session[at[w]].order = 0
  /\ \A v, w \in Workers : at[w] # 0 /\ v # w => at[v] # at[w]

SessionsOK ==
  \A s \in SessionIds :
    /\ session[s].order # 0 <=> session[s].status = "CONFIRMED"
    /\ session[s].status \in {"SHIPPING", "PAYMENT", "CONFIRMED"} =>
         session[s].customer # NoCustomer

\* What a transaction has written before it commits.
DraftsOK ==
  \A w \in Workers :
    /\ pc[w] = "create_session" => draft[w].owner \in Carts
    /\ pc[w] \in {"redeem", "commit"} =>
         /\ draft[w].order \in OrderRows
         /\ draft[w].order.session = at[w]
         /\ AddsUp(draft[w].order)
    /\ pc[w] = "redeem" =>
         /\ draft[w].summary.coupon \in Coupons
         /\ draft[w].order.discount > 0
         /\ draft[w].order.coupon = NoCoupon

OrdersOK ==
  \A i \in OrderIds : orders[i] # NoOrder =>
    /\ session[orders[i].session].order = i
    /\ AddsUp(orders[i])

IInv == TypeOK /\ LocksOK /\ SessionsOK /\ DraftsOK /\ OrdersOK

-----------------------------------------------------------------------------
(* Helpers *)

LEMMA RealOrder ==
  ASSUME NEW o \in OrderRows \cup {NoOrder}
  PROVE  o # NoOrder <=> o \in OrderRows
<1>1. ASSUME o \in OrderRows PROVE o # NoOrder
  <2>1. o.session \in SessionIds
    BY <1>1 DEF OrderRows
  <2>2. NoOrder.session = 0
    BY DEF NoOrder
  <2> QED BY <2>1, <2>2, MaxSessionsAssumption DEF SessionIds
<1> QED BY <1>1

LEMMA RealSession ==
  ASSUME NEW r \in SessionRows \cup {NoSession}
  PROVE  r.status # "NONE" => r \in SessionRows
BY DEF NoSession

LEMMA DiscountType ==
  ASSUME NEW k \in Coupons, NEW n \in Nat
  PROVE  CalculateDiscount(k, n) \in Nat
BY CouponsAssumption DEF CalculateDiscount

LEMMA RevalidatedType ==
  ASSUME NEW c \in CartRows
  PROVE  /\ Revalidated(c) \in CartRows
         /\ Revalidated(c).subtotal = c.subtotal
<1>1. c.subtotal \in Nat /\ c.coupon \in Coupons \cup {NoCoupon}
  BY AmountsAssumption DEF CartRows
<1>2. CASE c.coupon # NoCoupon /\ Valid(c.coupon, c.subtotal)
  <2>1. CalculateDiscount(c.coupon, c.subtotal) \in Nat
    BY <1>1, <1>2, DiscountType
  <2> QED BY <1>2, <2>1 DEF Revalidated, CartRows
<1>3. CASE ~(c.coupon # NoCoupon /\ Valid(c.coupon, c.subtotal))
  BY <1>3 DEF Revalidated, CartRows
<1> QED BY <1>2, <1>3

LEMMA TaxableType ==
  ASSUME NEW a \in Nat, NEW b \in Nat, NEW c \in Nat
  PROVE  Taxable(a, b, c) \in Nat
BY DEF Taxable, Positive

-----------------------------------------------------------------------------
(* The initial states *)

LEMMA InitIInv == Init => IInv
<1> SUFFICES ASSUME Init PROVE IInv
  OBVIOUS
<1>1. EmptyCart \in CartRows
  BY AmountsAssumption DEF EmptyCart, CartRows
<1>2. NoDraft \in Drafts
  BY <1>1 DEF NoDraft, Drafts
<1>3. TypeOK
  BY <1>1, <1>2 DEF Init, TypeOK
<1> QED BY <1>3 DEF Init, IInv, LocksOK, SessionsOK, DraftsOK, OrdersOK, Holding, NoSession

-----------------------------------------------------------------------------
(* Carts and coupons: nothing the invariant relates is written *)

LEMMA CartWrite ==
  ASSUME IInv, cart' \in [Carts -> CartRows], active' \in [Coupons -> BOOLEAN],
         UNCHANGED <<timesUsed, usageLog, session, orders, pc, at, draft>>
  PROVE  IInv'
<1>1. TypeOK'
  BY DEF IInv, TypeOK
<1>2. LocksOK'
  BY DEF IInv, LocksOK
<1>3. SessionsOK'
  BY DEF IInv, SessionsOK
<1>4. DraftsOK'
  BY DEF IInv, DraftsOK
<1>5. OrdersOK'
  BY DEF IInv, OrdersOK
<1> QED BY <1>1, <1>2, <1>3, <1>4, <1>5 DEF IInv

LEMMA SaveCartIInv ==
  ASSUME IInv, NEW c \in Carts, NEW row \in CartRows, SaveCart(c, row)
  PROVE  IInv'
<1>1. Revalidated(row) \in CartRows
  BY RevalidatedType
<1>2. cart' \in [Carts -> CartRows]
  BY <1>1 DEF IInv, TypeOK, SaveCart
<1>3. active' \in [Coupons -> BOOLEAN]
  BY DEF IInv, TypeOK, SaveCart
<1> QED BY <1>2, <1>3, CartWrite DEF SaveCart

LEMMA CartStepIInv ==
  ASSUME IInv, NEW c \in Carts, CartStep(c)
  PROVE  IInv'
<1>1. cart[c] \in CartRows
  BY DEF IInv, TypeOK
<1>2. ASSUME NEW subtotal \in Subtotals, ChangeItems(c, subtotal) PROVE IInv'
  <2>1. [cart[c] EXCEPT !.subtotal = subtotal] \in CartRows
    BY <1>1 DEF CartRows
  <2> QED BY <1>2, <2>1, SaveCartIInv DEF ChangeItems
<1>3. CASE ClearCart(c)
  <2>1. cart' \in [Carts -> CartRows]
    BY <1>1, <1>3, AmountsAssumption DEF IInv, TypeOK, ClearCart, CartRows
  <2>2. active' \in [Coupons -> BOOLEAN]
    BY <1>3 DEF IInv, TypeOK, ClearCart
  <2> QED BY <1>3, <2>1, <2>2, CartWrite DEF ClearCart
<1>4. ASSUME NEW k \in Coupons, ApplyCoupon(c, k) PROVE IInv'
  <2>1. [cart[c] EXCEPT !.coupon = k] \in CartRows
    BY <1>1 DEF CartRows
  <2> QED BY <1>4, <2>1, SaveCartIInv DEF ApplyCoupon
<1>5. CASE RemoveCoupon(c)
  <2>1. [cart[c] EXCEPT !.coupon = NoCoupon] \in CartRows
    BY <1>1 DEF CartRows
  <2> QED BY <1>5, <2>1, SaveCartIInv DEF RemoveCoupon
<1> QED BY <1>2, <1>3, <1>4, <1>5 DEF CartStep

LEMMA SetActiveIInv ==
  ASSUME IInv, NEW k \in Coupons, NEW b \in BOOLEAN, SetActive(k, b)
  PROVE  IInv'
<1>1. cart' \in [Carts -> CartRows] /\ active' \in [Coupons -> BOOLEAN]
  BY DEF IInv, TypeOK, SetActive
<1> QED BY <1>1, CartWrite DEF SetActive

-----------------------------------------------------------------------------
(* Transactions of several steps *)

\* What GetCart leaves in a transaction.
LEMMA ReadCartType ==
  ASSUME IInv, NEW w \in Workers, NEW c \in Carts, ReadCart(w, c)
  PROVE  /\ draft' \in [Workers -> Drafts]
         /\ draft'[w].owner = c
         /\ \A v \in Workers \ {w} : draft'[v] = draft[v]
<1> DEFINE summary == Revalidated(cart[c])
           row == [owner |-> c, summary |-> summary, sync |-> OutOfSync(c, summary),
                   order |-> NoOrder]
<1>1. summary \in CartRows
  BY RevalidatedType DEF IInv, TypeOK
<1>2. OutOfSync(c, summary) \in BOOLEAN
  BY DEF OutOfSync
<1>3. row \in Drafts
  BY <1>1, <1>2 DEF Drafts
<1>4. draft' = [draft EXCEPT ![w] = row]
  BY DEF ReadCart
<1> QED BY <1>3, <1>4 DEF IInv, TypeOK

\* What the end of a transaction leaves behind.
LEMMA FinishType ==
  ASSUME IInv, NEW w \in Workers, Finish(w)
  PROVE  /\ cart' \in [Carts -> CartRows]
         /\ pc' = [pc EXCEPT ![w] = "idle"]
         /\ at' = [at EXCEPT ![w] = 0]
         /\ draft' = [draft EXCEPT ![w] = NoDraft]
         /\ NoDraft \in Drafts
<1> DEFINE d == draft[w]
<1>1. d \in Drafts /\ cart \in [Carts -> CartRows]
  BY DEF IInv, TypeOK
<1>2. d.summary \in CartRows
  BY <1>1 DEF Drafts
<1>3. cart' \in [Carts -> CartRows]
  <2>1. CASE d.owner \in Carts /\ d.sync
    <3>1. [cart[d.owner] EXCEPT !.coupon = d.summary.coupon,
                                !.discount = d.summary.discount] \in CartRows
      BY <1>1, <1>2, <2>1 DEF CartRows
    <3>2. cart' = [cart EXCEPT ![d.owner] = [cart[d.owner] EXCEPT
                     !.coupon = d.summary.coupon, !.discount = d.summary.discount]]
      BY <1>1, <2>1 DEF Finish
    <3> QED BY <1>1, <3>1, <3>2
  <2>2. CASE ~d.sync
    BY <1>1, <2>2 DEF Finish
  <2>3. CASE d.owner \notin Carts
    BY <1>1, <2>3 DEF Finish
  <2> QED BY <2>1, <2>2, <2>3
<1>4. NoDraft \in Drafts
  BY AmountsAssumption DEF NoDraft, Drafts, EmptyCart, CartRows
<1> QED BY <1>3, <1>4 DEF Finish

LEMMA AbortIInv ==
  ASSUME IInv, NEW w \in Workers, Abort(w)
  PROVE  IInv'
<1> USE DEF Abort
<1>1. NoDraft \in Drafts
  BY AmountsAssumption DEF NoDraft, Drafts, EmptyCart, CartRows
<1>2. pc \in [Workers -> {"idle", "create_session", "create_order", "redeem", "commit"}]
  BY DEF IInv, TypeOK
<1>3. at \in [Workers -> SessionIds \cup {0}] /\ draft \in [Workers -> Drafts]
  BY DEF IInv, TypeOK
<1>4. TypeOK'
  BY <1>1, <1>2, <1>3 DEF IInv, TypeOK
<1>5. LocksOK'
  BY <1>2, <1>3 DEF IInv, LocksOK, Holding
<1>6. SessionsOK'
  BY DEF IInv, SessionsOK
<1>7. DraftsOK'
  BY <1>2, <1>3 DEF IInv, DraftsOK
<1>8. OrdersOK'
  BY DEF IInv, OrdersOK
<1> QED BY <1>4, <1>5, <1>6, <1>7, <1>8 DEF IInv

-----------------------------------------------------------------------------
(* Checkout sessions *)

\* What every worker's row of pc and at is like.
LEMMA WorkerTypes ==
  ASSUME IInv
  PROVE  /\ pc \in [Workers -> {"idle", "create_session", "create_order", "redeem", "commit"}]
         /\ at \in [Workers -> SessionIds \cup {0}]
         /\ draft \in [Workers -> Drafts]
         /\ session \in [SessionIds -> SessionRows \cup {NoSession}]
         /\ orders \in [OrderIds -> OrderRows \cup {NoOrder}]
BY DEF IInv, TypeOK

LEMMA StartCheckoutIInv ==
  ASSUME IInv, NEW w \in Workers, NEW c \in Carts, StartCheckout(w, c)
  PROVE  IInv'
<1>1. /\ draft' \in [Workers -> Drafts]
      /\ draft'[w].owner = c
      /\ \A v \in Workers \ {w} : draft'[v] = draft[v]
  BY ReadCartType DEF StartCheckout
<1>2. /\ pc[w] = "idle" /\ pc' = [pc EXCEPT ![w] = "create_session"]
      /\ UNCHANGED <<cart, active, timesUsed, usageLog, session, orders, at>>
  BY DEF StartCheckout
<1>3. TypeOK'
  BY <1>1, <1>2, WorkerTypes DEF IInv, TypeOK
<1>4. LocksOK'
  BY <1>2, WorkerTypes DEF IInv, LocksOK, Holding
<1>5. SessionsOK'
  BY <1>2 DEF IInv, SessionsOK
<1>6. DraftsOK'
  <2> SUFFICES ASSUME NEW v \in Workers PROVE DraftsOK!(v)'
    BY DEF DraftsOK
  <2>1. CASE v = w
    BY <1>1, <1>2, <2>1, WorkerTypes
  <2>2. CASE v # w
    BY <1>1, <1>2, <2>2, WorkerTypes DEF IInv, DraftsOK
  <2> QED BY <2>1, <2>2
<1>7. OrdersOK'
  BY <1>2 DEF IInv, OrdersOK
<1> QED BY <1>3, <1>4, <1>5, <1>6, <1>7 DEF IInv

LEMMA CreateSessionIInv ==
  ASSUME IInv, NEW w \in Workers, CreateSession(w)
  PROVE  IInv'
<1>1. pc[w] = "create_session" /\ Finish(w)
  BY DEF CreateSession
<1>2. PICK s \in SessionIds :
        /\ s \notin Created
        /\ session' = [session EXCEPT ![s] =
             [cart |-> draft[w].owner, status |-> "ADDRESS", customer |-> NoCustomer,
              totals |-> [subtotal |-> draft[w].summary.subtotal,
                          discount |-> draft[w].summary.discount, shipping |-> 0],
              order |-> 0]]
  BY DEF CreateSession
<1>3. UNCHANGED <<active, timesUsed, usageLog, orders>>
  BY DEF CreateSession
<1>4. /\ cart' \in [Carts -> CartRows]
      /\ pc' = [pc EXCEPT ![w] = "idle"]
      /\ at' = [at EXCEPT ![w] = 0]
      /\ draft' = [draft EXCEPT ![w] = NoDraft]
      /\ NoDraft \in Drafts
  BY <1>1, FinishType
<1> DEFINE new == [cart |-> draft[w].owner, status |-> "ADDRESS", customer |-> NoCustomer,
                   totals |-> [subtotal |-> draft[w].summary.subtotal,
                               discount |-> draft[w].summary.discount, shipping |-> 0],
                   order |-> 0]
<1>5. new \in SessionRows
  <2>1. draft[w].owner \in Carts /\ draft[w].summary \in CartRows
    BY <1>1, WorkerTypes DEF IInv, DraftsOK, Drafts
  <2>2. draft[w].summary.subtotal \in Nat /\ draft[w].summary.discount \in Nat
    BY <2>1, AmountsAssumption DEF CartRows
  <2> QED BY <2>1, <2>2 DEF SessionRows, Totals, Statuses
<1>6. session[s].status = "NONE" /\ session[s].order = 0
  <2>1. session[s].status = "NONE"
    BY <1>2 DEF Created
  <2> QED BY <2>1 DEF IInv, SessionsOK
<1>7. \A t \in SessionIds : session'[t] = IF t = s THEN new ELSE session[t]
  BY <1>2, WorkerTypes
<1>8. TypeOK'
  BY <1>2, <1>3, <1>4, <1>5, WorkerTypes DEF IInv, TypeOK
<1>9. LocksOK'
  <2>1. \A v \in Workers : at[v] # s
    BY <1>6, MaxSessionsAssumption DEF IInv, LocksOK, SessionIds
  <2> QED BY <1>1, <1>4, <1>7, <2>1, WorkerTypes DEF IInv, LocksOK, Holding
<1>10. SessionsOK'
  BY <1>7 DEF IInv, SessionsOK
<1>11. DraftsOK'
  BY <1>4, <1>3, WorkerTypes DEF IInv, DraftsOK
<1>12. OrdersOK'
  <2> SUFFICES ASSUME NEW i \in OrderIds, orders[i] # NoOrder
               PROVE  session'[orders[i].session].order = i /\ AddsUp(orders[i])
    BY <1>3 DEF OrdersOK
  <2>1. orders[i] \in OrderRows
    BY RealOrder, WorkerTypes
  <2>2. orders[i].session \in SessionIds
    BY <2>1 DEF OrderRows
  <2>3. session[orders[i].session].order = i /\ AddsUp(orders[i])
    BY DEF IInv, OrdersOK
  <2>4. i # 0
    BY MaxSessionsAssumption DEF OrderIds
  <2> QED BY <1>6, <1>7, <2>2, <2>3, <2>4
<1> QED BY <1>8, <1>9, <1>10, <1>11, <1>12 DEF IInv

\* A write to a session that no worker holds and that is not confirmed.
LEMMA SessionWrite ==
  ASSUME IInv, NEW s \in SessionIds, SessionFree(s), s \in Created,
         session[s].status # "CONFIRMED",
         cart' \in [Carts -> CartRows],
         session' \in [SessionIds -> SessionRows \cup {NoSession}],
         session'[s].status \in {"SHIPPING", "PAYMENT"},
         session'[s].order = session[s].order,
         session'[s].customer # NoCustomer,
         \A t \in SessionIds \ {s} : session'[t] = session[t],
         UNCHANGED <<active, timesUsed, usageLog, orders, pc, at, draft>>
  PROVE  IInv'
<1>1. session[s].order = 0
  BY DEF IInv, SessionsOK
<1>2. TypeOK'
  BY DEF IInv, TypeOK
<1>3. LocksOK'
  BY WorkerTypes DEF IInv, LocksOK, SessionFree
<1>4. SessionsOK'
  BY <1>1 DEF IInv, SessionsOK
<1>5. DraftsOK'
  BY DEF IInv, DraftsOK
<1>6. OrdersOK'
  <2> SUFFICES ASSUME NEW i \in OrderIds, orders[i] # NoOrder
               PROVE  session'[orders[i].session].order = i /\ AddsUp(orders[i])
    BY DEF OrdersOK
  <2>1. orders[i] \in OrderRows
    BY RealOrder, WorkerTypes
  <2>2. orders[i].session \in SessionIds
    BY <2>1 DEF OrderRows
  <2> QED BY <2>2 DEF IInv, OrdersOK
<1> QED BY <1>2, <1>3, <1>4, <1>5, <1>6 DEF IInv

LEMMA SaveAddressIInv ==
  ASSUME IInv, NEW s \in SessionIds, NEW c \in Customers, SaveAddress(s, c)
  PROVE  IInv'
<1>1. s \in Created /\ SessionFree(s) /\ session[s].status # "CONFIRMED"
  BY DEF SaveAddress
<1>2. session[s] \in SessionRows
  BY <1>1, RealSession, WorkerTypes DEF Created
<1>3. session' = [session EXCEPT ![s] = [session[s] EXCEPT !.customer = c, !.status = "SHIPPING"]]
  BY <1>2, WorkerTypes DEF SaveAddress
<1>4. [session[s] EXCEPT !.customer = c, !.status = "SHIPPING"] \in SessionRows
  BY <1>2 DEF SessionRows, Statuses
<1>5. session' \in [SessionIds -> SessionRows \cup {NoSession}]
  BY <1>3, <1>4, WorkerTypes
<1>6. /\ session'[s].status = "SHIPPING"
      /\ session'[s].order = session[s].order
      /\ session'[s].customer = c
      /\ \A t \in SessionIds \ {s} : session'[t] = session[t]
  BY <1>2, <1>3, WorkerTypes DEF SessionRows
<1>7. cart' \in [Carts -> CartRows]
  BY DEF SaveAddress, IInv, TypeOK
<1>8. UNCHANGED <<active, timesUsed, usageLog, orders, pc, at, draft>>
  BY DEF SaveAddress
<1>9. c # NoCustomer
  BY CustomersAssumption
<1> QED BY <1>1, <1>5, <1>6, <1>7, <1>8, <1>9, SessionWrite

LEMMA SelectShippingIInv ==
  ASSUME IInv, NEW s \in SessionIds, NEW c \in Carts, NEW fee \in Fees,
         SelectShipping(s, c, fee)
  PROVE  IInv'
<1> DEFINE summary == Revalidated(cart[c])
           totals == [subtotal |-> summary.subtotal, discount |-> summary.discount,
                      shipping |-> fee]
           new == [session[s] EXCEPT !.status = "PAYMENT", !.totals = totals]
<1>1. /\ s \in Created /\ SessionFree(s) /\ session[s].status # "CONFIRMED"
      /\ session[s].customer # NoCustomer
  BY DEF SelectShipping
<1>2. session[s] \in SessionRows
  BY <1>1, RealSession, WorkerTypes DEF Created
<1>3. cart \in [Carts -> CartRows]
  BY DEF IInv, TypeOK
<1>4. summary \in CartRows
  BY <1>3, RevalidatedType
<1>5. totals \in Totals
  BY <1>4, AmountsAssumption DEF Totals, CartRows
<1>6. new \in SessionRows
  BY <1>2, <1>5 DEF SessionRows, Statuses
<1>7. session' = [session EXCEPT ![s] = new] /\ cart' = [cart EXCEPT ![c] = summary]
  BY <1>2, WorkerTypes DEF SelectShipping
<1>8. session' \in [SessionIds -> SessionRows \cup {NoSession}]
  BY <1>6, <1>7, WorkerTypes
<1>9. /\ session'[s].status = "PAYMENT"
      /\ session'[s].order = session[s].order
      /\ session'[s].customer = session[s].customer
      /\ \A t \in SessionIds \ {s} : session'[t] = session[t]
  BY <1>2, <1>7, WorkerTypes DEF SessionRows
<1>10. cart' \in [Carts -> CartRows]
  BY <1>3, <1>4, <1>7
<1>11. UNCHANGED <<active, timesUsed, usageLog, orders, pc, at, draft>>
  BY DEF SelectShipping
<1> QED BY <1>1, <1>8, <1>9, <1>10, <1>11, SessionWrite

-----------------------------------------------------------------------------
(* Placing an order *)

LEMMA LockSessionIInv ==
  ASSUME IInv, NEW w \in Workers, NEW s \in SessionIds, NEW c \in Carts,
         LockSession(w, s, c)
  PROVE  IInv'
<1>1. /\ pc[w] = "idle" /\ s \in Created /\ SessionFree(s)
      /\ session[s].order = 0 /\ session[s].status = "PAYMENT"
      /\ pc' = [pc EXCEPT ![w] = "create_order"] /\ at' = [at EXCEPT ![w] = s]
      /\ UNCHANGED <<cart, active, timesUsed, usageLog, session, orders>>
  BY DEF LockSession
<1>3. /\ draft' \in [Workers -> Drafts]
      /\ \A v \in Workers \ {w} : draft'[v] = draft[v]
  BY ReadCartType DEF LockSession
<1>4. TypeOK'
  BY <1>1, <1>3, WorkerTypes DEF IInv, TypeOK
<1>5. LocksOK'
  <2>1. s # 0
    BY MaxSessionsAssumption DEF SessionIds
  <2>2. \A v \in Workers : at'[v] # 0 <=> pc'[v] \in Holding
    BY <1>1, <2>1, WorkerTypes DEF IInv, LocksOK, Holding
  <2>3. \A v \in Workers :
          at'[v] # 0 => session'[at'[v]].status = "PAYMENT" /\ session'[at'[v]].order = 0
    BY <1>1, WorkerTypes DEF IInv, LocksOK
  <2>4. \A u, v \in Workers : at'[v] # 0 /\ u # v => at'[u] # at'[v]
    BY <1>1, <2>1, WorkerTypes DEF IInv, LocksOK, SessionFree
  <2> QED BY <2>2, <2>3, <2>4 DEF LocksOK
<1>6. SessionsOK'
  BY <1>1 DEF IInv, SessionsOK
<1>7. DraftsOK'
  <2> SUFFICES ASSUME NEW v \in Workers PROVE DraftsOK!(v)'
    BY DEF DraftsOK
  <2>1. CASE v = w
    BY <1>1, <2>1, WorkerTypes
  <2>2. CASE v # w
    BY <1>1, <1>3, <2>2, WorkerTypes DEF IInv, DraftsOK
  <2> QED BY <2>1, <2>2
<1>8. OrdersOK'
  BY <1>1 DEF IInv, OrdersOK
<1> QED BY <1>4, <1>5, <1>6, <1>7, <1>8 DEF IInv

\* A step that writes one draft under the session lock.
LEMMA DraftWrite ==
  ASSUME IInv, NEW w \in Workers, NEW order \in OrderRows, NEW where \in {"redeem", "commit"},
         pc[w] \in {"create_order", "redeem"},
         order.session = at[w], AddsUp(order),
         where = "redeem" => /\ draft[w].summary.coupon \in Coupons
                             /\ order.discount > 0 /\ order.coupon = NoCoupon,
         draft' = [draft EXCEPT ![w].order = order], pc' = [pc EXCEPT ![w] = where],
         UNCHANGED <<cart, active, timesUsed, usageLog, session, orders, at>>
  PROVE  IInv'
<1>1. draft[w] \in Drafts
  BY WorkerTypes
<1>2. [draft[w] EXCEPT !.order = order] \in Drafts
  BY <1>1 DEF Drafts
<1>3. draft' = [draft EXCEPT ![w] = [draft[w] EXCEPT !.order = order]]
  BY <1>1, WorkerTypes
<1>4. TypeOK'
  BY <1>2, <1>3, WorkerTypes DEF IInv, TypeOK
<1>5. LocksOK'
  BY WorkerTypes DEF IInv, LocksOK, Holding
<1>6. SessionsOK'
  BY DEF IInv, SessionsOK
<1>7. DraftsOK'
  <2> SUFFICES ASSUME NEW v \in Workers PROVE DraftsOK!(v)'
    BY DEF DraftsOK
  <2>1. CASE v = w
    <3>1. draft'[w].order = order /\ draft'[w].summary = draft[w].summary
      BY <1>1, <1>3, WorkerTypes DEF Drafts
    <3> QED BY <2>1, <3>1, WorkerTypes
  <2>2. CASE v # w
    BY <1>3, <2>2, WorkerTypes DEF IInv, DraftsOK
  <2> QED BY <2>1, <2>2
<1>8. OrdersOK'
  BY DEF IInv, OrdersOK
<1> QED BY <1>4, <1>5, <1>6, <1>7, <1>8 DEF IInv

LEMMA CreateOrderIInv ==
  ASSUME IInv, NEW w \in Workers, CreateOrder(w)
  PROVE  IInv'
<1> DEFINE s == at[w]
           order == OrderOf(at[w], draft[w].summary)
           k == draft[w].summary.coupon
           where == IF k # NoCoupon /\ ValidFor(k, order.customer, order.subtotal)
                       /\ order.discount > 0 THEN "redeem" ELSE "commit"
<1>1. pc[w] = "create_order"
  BY DEF CreateOrder
<1>2. s \in SessionIds /\ session[s].status = "PAYMENT"
  BY <1>1, WorkerTypes DEF IInv, LocksOK, Holding
<1>3. session[s] \in SessionRows /\ session[s].customer # NoCustomer
  BY <1>2, RealSession, WorkerTypes DEF IInv, SessionsOK
<1>4. draft[w].summary \in CartRows
  BY WorkerTypes DEF Drafts
<1>5. order \in OrderRows
  <2>1. session[s].customer \in Customers /\ session[s].totals \in Totals
    BY <1>3 DEF SessionRows
  <2>2. draft[w].summary.subtotal \in Nat
    BY <1>4, AmountsAssumption DEF CartRows
  <2>3. Taxable(session[s].totals.subtotal, session[s].totals.discount,
                session[s].totals.shipping) \in Nat
    BY <2>1, TaxableType DEF Totals
  <2> QED BY <1>2, <2>1, <2>2, <2>3 DEF OrderOf, OrderRows, Totals
<1>6. order.session = s /\ AddsUp(order) /\ order.coupon = NoCoupon
  BY DEF OrderOf, AddsUp
<1>7. k \in Coupons \cup {NoCoupon}
  BY <1>4 DEF CartRows
<1>8. draft' = [draft EXCEPT ![w].order = order] /\ pc' = [pc EXCEPT ![w] = where]
  BY DEF CreateOrder
<1>9. UNCHANGED <<cart, active, timesUsed, usageLog, session, orders, at>>
  BY DEF CreateOrder
<1>10. where = "redeem" => k \in Coupons /\ order.discount > 0
  BY <1>7
<1> HIDE DEF order
<1>11. where \in {"redeem", "commit"}
  OBVIOUS
<1> QED BY <1>1, <1>5, <1>6, <1>8, <1>9, <1>10, <1>11, DraftWrite

LEMMA RedeemCouponIInv ==
  ASSUME IInv, NEW w \in Workers, RedeemCoupon(w)
  PROVE  IInv'
<1> DEFINE k == draft[w].summary.coupon
           order == draft[w].order
           redeemed == [order EXCEPT !.coupon = k]
           refused == [order EXCEPT !.discount = 0,
                         !.taxable = Taxable(order.subtotal, 0, order.shipping)]
<1>1. pc[w] = "redeem"
  BY DEF RedeemCoupon
<1>2. /\ order \in OrderRows /\ order.session = at[w] /\ AddsUp(order)
      /\ k \in Coupons /\ order.discount > 0 /\ order.coupon = NoCoupon
  BY <1>1 DEF IInv, DraftsOK
<1>3. redeemed \in OrderRows /\ redeemed.session = at[w] /\ AddsUp(redeemed)
  BY <1>2 DEF OrderRows, AddsUp
<1>4. Taxable(order.subtotal, 0, order.shipping) \in Nat
  BY <1>2, TaxableType DEF OrderRows
<1>5. refused \in OrderRows /\ refused.session = at[w] /\ AddsUp(refused)
  BY <1>2, <1>4 DEF OrderRows, AddsUp
<1>6. PICK o \in {redeemed, refused} : draft' = [draft EXCEPT ![w].order = o]
  BY DEF RedeemCoupon
<1>7. /\ pc' = [pc EXCEPT ![w] = "commit"]
      /\ UNCHANGED <<cart, active, timesUsed, usageLog, session, orders, at>>
  BY DEF RedeemCoupon
<1>8. o \in OrderRows /\ o.session = at[w] /\ AddsUp(o)
  BY <1>3, <1>5
<1> HIDE DEF redeemed, refused
<1> QED BY <1>1, <1>6, <1>7, <1>8, DraftWrite

LEMMA RedeemFailsIInv ==
  ASSUME IInv, NEW w \in Workers, RedeemFails(w)
  PROVE  IInv'
<1> DEFINE order == draft[w].order
<1>1. /\ pc[w] = "redeem" /\ pc' = [pc EXCEPT ![w] = "commit"]
      /\ UNCHANGED <<cart, active, timesUsed, usageLog, session, orders, at, draft>>
  BY DEF RedeemFails
<1>2. order \in OrderRows /\ order.session = at[w] /\ AddsUp(order)
  BY <1>1 DEF IInv, DraftsOK
<1>3. draft' = [draft EXCEPT ![w].order = order]
  BY <1>1, WorkerTypes DEF Drafts
<1> HIDE DEF order
<1> QED BY <1>1, <1>2, <1>3, DraftWrite

\* What confirming a session writes, in a form that later steps cite.
LEMMA ConfirmWrites ==
  ASSUME IInv, NEW w \in Workers, ConfirmSession(w)
  PROVE  /\ pc[w] = "commit" /\ at[w] \in SessionIds
         /\ session[at[w]] \in SessionRows /\ session[at[w]].status = "PAYMENT"
         /\ draft[w].order \in OrderRows /\ draft[w].order.session = at[w]
         /\ AddsUp(draft[w].order)
         /\ \E i \in OrderIds :
              /\ orders[i] = NoOrder
              /\ orders' = [orders EXCEPT ![i] = draft[w].order]
              /\ session' = [session EXCEPT ![at[w]] =
                   [session[at[w]] EXCEPT !.order = i, !.status = "CONFIRMED"]]
              /\ usageLog' = IF draft[w].order.coupon = NoCoupon THEN usageLog
                   ELSE usageLog \cup {[coupon |-> draft[w].order.coupon,
                          customer |-> draft[w].order.customer, order |-> i]}
<1>1. pc[w] = "commit"
  BY DEF ConfirmSession
<1>2. at[w] \in SessionIds /\ session[at[w]].status = "PAYMENT"
  BY <1>1, WorkerTypes DEF IInv, LocksOK, Holding
<1>3. session[at[w]] \in SessionRows
  BY <1>2, RealSession, WorkerTypes
<1>4. /\ draft[w].order \in OrderRows /\ draft[w].order.session = at[w]
      /\ AddsUp(draft[w].order)
  BY <1>1 DEF IInv, DraftsOK
<1>5. PICK i \in OrderIds :
        /\ orders[i] = NoOrder
        /\ orders' = [orders EXCEPT ![i] = draft[w].order]
        /\ session' = [session EXCEPT ![at[w]].order = i, ![at[w]].status = "CONFIRMED"]
        /\ usageLog' = IF draft[w].order.coupon = NoCoupon THEN usageLog
             ELSE usageLog \cup {[coupon |-> draft[w].order.coupon,
                    customer |-> draft[w].order.customer, order |-> i]}
  BY DEF ConfirmSession
<1>6. session' = [session EXCEPT ![at[w]] =
        [session[at[w]] EXCEPT !.order = i, !.status = "CONFIRMED"]]
  BY <1>2, <1>3, <1>5, WorkerTypes
<1> QED BY <1>1, <1>2, <1>3, <1>4, <1>5, <1>6

LEMMA ConfirmSessionIInv ==
  ASSUME IInv, NEW w \in Workers, ConfirmSession(w)
  PROVE  IInv'
<1> DEFINE s == at[w]
           o == draft[w].order
<1>1. /\ pc[w] = "commit" /\ s \in SessionIds
      /\ session[s] \in SessionRows /\ session[s].status = "PAYMENT"
      /\ o \in OrderRows /\ o.session = s /\ AddsUp(o)
  BY ConfirmWrites
<1>2. PICK i \in OrderIds :
        /\ orders[i] = NoOrder
        /\ orders' = [orders EXCEPT ![i] = o]
        /\ session' = [session EXCEPT ![s] =
             [session[s] EXCEPT !.order = i, !.status = "CONFIRMED"]]
        /\ usageLog' = IF o.coupon = NoCoupon THEN usageLog
             ELSE usageLog \cup {[coupon |-> o.coupon, customer |-> o.customer, order |-> i]}
  BY ConfirmWrites
<1>3. /\ cart' \in [Carts -> CartRows]
      /\ pc' = [pc EXCEPT ![w] = "idle"] /\ at' = [at EXCEPT ![w] = 0]
      /\ draft' = [draft EXCEPT ![w] = NoDraft] /\ NoDraft \in Drafts
  BY FinishType DEF ConfirmSession
<1>4. active' = active /\ timesUsed' \in [Coupons -> Nat]
  <2>1. timesUsed \in [Coupons -> Nat]
    BY DEF IInv, TypeOK
  <2>2. o.coupon \in Coupons \cup {NoCoupon}
    BY <1>1 DEF OrderRows
  <2>3. o.coupon # NoCoupon => timesUsed' = [timesUsed EXCEPT ![o.coupon] = @ + 1]
    BY DEF ConfirmSession
  <2>4. o.coupon = NoCoupon => timesUsed' = timesUsed
    BY DEF ConfirmSession
  <2> QED BY <2>1, <2>2, <2>3, <2>4 DEF ConfirmSession
<1>5. i # 0
  BY MaxSessionsAssumption DEF OrderIds
<1>6. /\ session'[s] = [session[s] EXCEPT !.order = i, !.status = "CONFIRMED"]
      /\ \A t \in SessionIds \ {s} : session'[t] = session[t]
  BY <1>1, <1>2, WorkerTypes
<1>7. /\ session'[s].order = i /\ session'[s].status = "CONFIRMED"
      /\ session'[s].customer = session[s].customer
      /\ session'[s] \in SessionRows
  BY <1>1, <1>6 DEF SessionRows, Statuses, SessionIds, OrderIds
<1>8. TypeOK'
  <2>1. session' \in [SessionIds -> SessionRows \cup {NoSession}]
    BY <1>2, <1>6, <1>7, WorkerTypes
  <2>2. orders' \in [OrderIds -> OrderRows \cup {NoOrder}]
    BY <1>1, <1>2, WorkerTypes
  <2>3. usageLog' \subseteq [coupon : Coupons, customer : Customers, order : OrderIds]
    <3>1. o.coupon # NoCoupon =>
            [coupon |-> o.coupon, customer |-> o.customer, order |-> i] \in
              [coupon : Coupons, customer : Customers, order : OrderIds]
      BY <1>1 DEF OrderRows
    <3> QED BY <1>2, <3>1 DEF IInv, TypeOK
  <2> QED BY <1>3, <1>4, <2>1, <2>2, <2>3, WorkerTypes DEF IInv, TypeOK
<1>9. LocksOK'
  <2>1. \A v \in Workers \ {w} : at[v] # s
    BY <1>1, MaxSessionsAssumption DEF IInv, LocksOK, SessionIds
  <2>2. \A v \in Workers : at'[v] # 0 <=> pc'[v] \in Holding
    BY <1>3, WorkerTypes DEF IInv, LocksOK, Holding
  <2>3. \A v \in Workers :
          at'[v] # 0 => session'[at'[v]].status = "PAYMENT" /\ session'[at'[v]].order = 0
    BY <1>3, <1>6, <2>1, WorkerTypes DEF IInv, LocksOK
  <2>4. \A u, v \in Workers : at'[v] # 0 /\ u # v => at'[u] # at'[v]
    BY <1>3, WorkerTypes DEF IInv, LocksOK
  <2> QED BY <2>2, <2>3, <2>4 DEF LocksOK
<1>10. SessionsOK'
  <2> SUFFICES ASSUME NEW t \in SessionIds PROVE SessionsOK!(t)'
    BY DEF SessionsOK
  <2>1. CASE t = s
    BY <1>1, <1>5, <1>7, <2>1 DEF IInv, SessionsOK
  <2>2. CASE t # s
    BY <1>6, <2>2 DEF IInv, SessionsOK
  <2> QED BY <2>1, <2>2
<1>11. DraftsOK'
  BY <1>3, WorkerTypes DEF IInv, DraftsOK
<1>12. OrdersOK'
  <2> SUFFICES ASSUME NEW j \in OrderIds, orders'[j] # NoOrder
               PROVE  session'[orders'[j].session].order = j /\ AddsUp(orders'[j])
    BY DEF OrdersOK, AddsUp
  <2>1. CASE j = i
    BY <1>1, <1>2, <1>7, <2>1, WorkerTypes
  <2>2. CASE j # i
    <3>1. orders'[j] = orders[j]
      BY <1>2, <2>2, WorkerTypes
    <3>2. orders[j].session \in SessionIds
      BY <3>1, RealOrder, WorkerTypes DEF OrderRows
    <3>3. session[orders[j].session].order = j /\ AddsUp(orders[j])
      BY <3>1 DEF IInv, OrdersOK
    <3>4. orders[j].session # s
      <4>1. session[s].order = 0
        BY <1>1 DEF IInv, SessionsOK
      <4> QED BY <3>3, <4>1, MaxSessionsAssumption DEF OrderIds
    <3> QED BY <1>6, <3>1, <3>2, <3>3, <3>4
  <2> QED BY <2>1, <2>2
<1> QED BY <1>8, <1>9, <1>10, <1>11, <1>12 DEF IInv

-----------------------------------------------------------------------------
(* The invariant *)

LEMMA StutterIInv == IInv /\ UNCHANGED vars => IInv'
<1> SUFFICES ASSUME IInv, UNCHANGED vars PROVE IInv'
  OBVIOUS
<1>1. cart' \in [Carts -> CartRows] /\ active' \in [Coupons -> BOOLEAN]
  BY DEF IInv, TypeOK, vars
<1> QED BY <1>1, CartWrite DEF vars

LEMMA NextIInv == IInv /\ [Next]_vars => IInv'
<1> SUFFICES ASSUME IInv, [Next]_vars PROVE IInv'
  OBVIOUS
<1>1. ASSUME NEW c \in Carts, CartStep(c) PROVE IInv'
  BY <1>1, CartStepIInv
<1>2. ASSUME NEW k \in Coupons, NEW b \in BOOLEAN, SetActive(k, b) PROVE IInv'
  BY <1>2, SetActiveIInv
<1>3. ASSUME NEW s \in SessionIds, SessionStep(s) PROVE IInv'
  BY <1>3, SaveAddressIInv, SelectShippingIInv DEF SessionStep
<1>4. ASSUME NEW w \in Workers, Begin(w) PROVE IInv'
  BY <1>4, StartCheckoutIInv, LockSessionIInv DEF Begin
<1>5. ASSUME NEW w \in Workers, Advance(w) PROVE IInv'
  BY <1>5, CreateSessionIInv, CreateOrderIInv, RedeemCouponIInv, RedeemFailsIInv,
     ConfirmSessionIInv
     DEF Advance
<1>6. ASSUME NEW w \in Workers, Abort(w) PROVE IInv'
  BY <1>6, AbortIInv
<1>7. CASE UNCHANGED vars
  BY <1>7, StutterIInv
<1> QED BY <1>1, <1>2, <1>3, <1>4, <1>5, <1>6, <1>7 DEF Next

THEOREM Invariance == Spec => []IInv
BY InitIInv, NextIInv, PTL DEF Spec

\* Rows, drafts and locks keep their types: in particular no order is written for a
\* session that has no address, although the address is saved by another request.
THEOREM TypesHold == Spec => []TypeOK
<1>1. IInv => TypeOK
  BY DEF IInv
<1> QED BY <1>1, Invariance, PTL

\* However many requests confirm one session, it gets one order: each order is the one
\* its session names.
THEOREM EachOrderHasItsSession == Spec => []OneOrderPerSession
<1>1. IInv => OneOrderPerSession
  BY DEF IInv, OrdersOK, OneOrderPerSession, Placed
<1> QED BY <1>1, Invariance, PTL

\* The amount of every order follows from its parts, and an order that names a coupon
\* has a discount.
THEOREM OrdersAddUp == Spec => []AmountsAddUp
<1>1. IInv => AmountsAddUp
  BY DEF IInv, OrdersOK, AddsUp, AmountsAddUp, Placed
<1> QED BY <1>1, Invariance, PTL

-----------------------------------------------------------------------------
(* A confirmed session is final *)

LEMMA ConfirmedStep ==
  ASSUME IInv, [Next]_vars, NEW s \in SessionIds, session[s].status = "CONFIRMED"
  PROVE  session'[s] = session[s]
<1>1. CASE UNCHANGED session
  BY <1>1
<1>2. ASSUME NEW w \in Workers, CreateSession(w) PROVE session'[s] = session[s]
  <2>1. PICK t \in SessionIds : t \notin Created /\ \E r : session' = [session EXCEPT ![t] = r]
    BY <1>2 DEF CreateSession
  <2>2. t # s
    BY <2>1 DEF Created
  <2> QED BY <2>1, <2>2, WorkerTypes
<1>3. ASSUME NEW w \in Workers, ConfirmSession(w) PROVE session'[s] = session[s]
  <2>1. session[at[w]].status = "PAYMENT"
    BY <1>3, ConfirmWrites
  <2>2. \E r : session' = [session EXCEPT ![at[w]] = r]
    BY <1>3, ConfirmWrites
  <2> QED BY <2>1, <2>2, WorkerTypes
<1>4. ASSUME NEW t \in SessionIds, SessionStep(t) PROVE session'[s] = session[s]
  BY <1>4, WorkerTypes DEF SessionStep, SaveAddress, SelectShipping
<1>5. ASSUME NEW w \in Workers, Begin(w) \/ Abort(w) PROVE UNCHANGED session
  BY <1>5 DEF Begin, StartCheckout, LockSession, Abort
<1>6. ASSUME NEW w \in Workers, CreateOrder(w) \/ RedeemCoupon(w) \/ RedeemFails(w)
      PROVE  UNCHANGED session
  BY <1>6 DEF CreateOrder, RedeemCoupon, RedeemFails
<1>7. ASSUME NEW c \in Carts, CartStep(c) PROVE UNCHANGED session
  BY <1>7 DEF CartStep, ChangeItems, ClearCart, ApplyCoupon, RemoveCoupon, SaveCart
<1>8. ASSUME NEW k \in Coupons, NEW b \in BOOLEAN, SetActive(k, b) PROVE UNCHANGED session
  BY <1>8 DEF SetActive
<1> QED BY <1>1, <1>2, <1>3, <1>4, <1>5, <1>6, <1>7, <1>8 DEF Next, Advance, vars

\* A confirmed session is never written again, by whatever request that read it
\* before it was confirmed.
THEOREM ConfirmedStays == Spec => ConfirmedIsFinal
<1>1. IInv /\ [Next]_vars =>
        [\A s \in SessionIds : session[s].status = "CONFIRMED" => session'[s] = session[s]]_vars
  BY ConfirmedStep
<1> QED BY <1>1, Invariance, PTL DEF Spec, ConfirmedIsFinal

-----------------------------------------------------------------------------
(* The redemption of coupons *)

Redeemer(w) == pc[w] = "commit" /\ draft[w].order.coupon # NoCoupon

Backed(w) ==
  /\ UnderLimit(draft[w].order.coupon)
  /\ UnderCustomerLimit(draft[w].order.coupon, draft[w].order.customer)

\* What the lock on a coupon's row keeps true from the check to the commit.
CouponsOK ==
  /\ IsFiniteSet(usageLog)
  /\ \A k \in Coupons : timesUsed[k] = Cardinality(Contract!UsesOf(k))
  /\ \A u \in usageLog : orders[u.order] # NoOrder
  /\ \A w \in Workers : Redeemer(w) => Backed(w)
  /\ \A v, w \in Workers :
       Redeemer(v) /\ Redeemer(w) /\ v # w => draft[v].order.coupon # draft[w].order.coupon

LEMMA InitCoupons == Init => CouponsOK
<1> SUFFICES ASSUME Init PROVE CouponsOK
  OBVIOUS
<1>1. usageLog = {} /\ \A k \in Coupons : timesUsed[k] = 0 /\ Contract!UsesOf(k) = {}
  BY DEF Init, Contract!UsesOf
<1>2. \A w \in Workers : ~Redeemer(w)
  BY DEF Init, Redeemer
<1> QED BY <1>1, <1>2, FS_EmptySet DEF CouponsOK

\* A step that makes no worker a redeemer and leaves the log alone.
LEMMA CouponsKept ==
  ASSUME CouponsOK, UNCHANGED <<usageLog, timesUsed, orders>>,
         \A w \in Workers : Redeemer(w)' => Redeemer(w) /\ draft'[w] = draft[w]
  PROVE  CouponsOK'
<1>1. \A k \in Coupons : Contract!UsesOf(k)' = Contract!UsesOf(k)
  BY DEF Contract!UsesOf
<1>2. \A w \in Workers : Redeemer(w)' => Backed(w)'
  <2> SUFFICES ASSUME NEW w \in Workers, Redeemer(w)' PROVE Backed(w)'
    OBVIOUS
  <2>1. Backed(w) /\ draft'[w] = draft[w]
    BY DEF CouponsOK
  <2> QED BY <2>1 DEF Backed, UnderLimit, UnderCustomerLimit, UsesBy
<1>3. \A v, w \in Workers :
        Redeemer(v)' /\ Redeemer(w)' /\ v # w => draft'[v].order.coupon # draft'[w].order.coupon
  BY DEF CouponsOK
<1> QED BY <1>1, <1>2, <1>3 DEF CouponsOK

LEMMA RedeemCouponCoupons ==
  ASSUME IInv, CouponsOK, NEW w \in Workers, RedeemCoupon(w)
  PROVE  CouponsOK'
<1> DEFINE k == draft[w].summary.coupon
           o == draft[w].order
<1>1. /\ pc[w] = "redeem" /\ CouponFree(k)
      /\ pc' = [pc EXCEPT ![w] = "commit"]
      /\ UNCHANGED <<usageLog, timesUsed, orders>>
  BY DEF RedeemCoupon
<1>2. o \in OrderRows /\ k \in Coupons /\ o.coupon = NoCoupon
  BY <1>1 DEF IInv, DraftsOK
<1>3. \A v \in Workers \ {w} : draft'[v] = draft[v] /\ pc'[v] = pc[v]
  BY <1>1, WorkerTypes DEF RedeemCoupon
<1>4. draft[w] \in Drafts
  BY WorkerTypes
<1>5. draft'[w].order =
        IF UnderLimit(k) /\ UnderCustomerLimit(k, o.customer)
          THEN [o EXCEPT !.coupon = k]
          ELSE [o EXCEPT !.discount = 0, !.taxable = Taxable(o.subtotal, 0, o.shipping)]
  BY <1>4, WorkerTypes DEF RedeemCoupon, Drafts
<1>6. Redeemer(w)' =>
        /\ draft'[w].order.coupon = k /\ draft'[w].order.customer = o.customer
        /\ UnderLimit(k) /\ UnderCustomerLimit(k, o.customer)
  BY <1>2, <1>5 DEF Redeemer, OrderRows
<1>7. \A v \in Workers \ {w} : Redeemer(v)' <=> Redeemer(v)
  BY <1>3 DEF Redeemer
<1>8. \A v \in Workers \ {w} : Redeemer(v) => draft[v].order.coupon # k
  BY <1>1 DEF Redeemer, CouponFree
<1>9. \A c \in Coupons : Contract!UsesOf(c)' = Contract!UsesOf(c)
  BY <1>1 DEF Contract!UsesOf
<1>10. \A v \in Workers : Redeemer(v)' => Backed(v)'
  <2> SUFFICES ASSUME NEW v \in Workers, Redeemer(v)' PROVE Backed(v)'
    OBVIOUS
  <2>1. CASE v = w
    BY <1>1, <1>6, <2>1 DEF Backed, UnderLimit, UnderCustomerLimit, UsesBy
  <2>2. CASE v # w
    <3>1. Backed(v) /\ draft'[v] = draft[v]
      BY <1>3, <1>7, <2>2 DEF CouponsOK
    <3> QED BY <1>1, <3>1 DEF Backed, UnderLimit, UnderCustomerLimit, UsesBy
  <2> QED BY <2>1, <2>2
<1>11. \A u, v \in Workers :
         Redeemer(u)' /\ Redeemer(v)' /\ u # v => draft'[u].order.coupon # draft'[v].order.coupon
  BY <1>3, <1>6, <1>7, <1>8 DEF CouponsOK
<1> QED BY <1>1, <1>9, <1>10, <1>11 DEF CouponsOK

\* A worker whose redemption failed goes on without a coupon.
LEMMA RedeemFailsCoupons ==
  ASSUME IInv, CouponsOK, NEW w \in Workers, RedeemFails(w)
  PROVE  CouponsOK'
<1>1. /\ pc[w] = "redeem" /\ pc' = [pc EXCEPT ![w] = "commit"]
      /\ UNCHANGED <<usageLog, timesUsed, orders, draft>>
  BY DEF RedeemFails
<1>2. draft[w].order.coupon = NoCoupon
  BY <1>1 DEF IInv, DraftsOK
<1>3. \A v \in Workers : Redeemer(v)' => Redeemer(v) /\ draft'[v] = draft[v]
  BY <1>1, <1>2, WorkerTypes DEF Redeemer
<1> QED BY <1>1, <1>3, CouponsKept

\* The contract counts as FiniteSets does.
LEMMA SameCardinality ==
  ASSUME NEW S
  PROVE  Contract!Cardinality(S) = Cardinality(S)
BY DEF Contract!Cardinality, Cardinality

\* A worker that has redeemed no coupon logs no use of one.
LEMMA PlainConfirm ==
  ASSUME IInv, CouponsOK, NEW w \in Workers, ConfirmSession(w),
         draft[w].order.coupon = NoCoupon
  PROVE  CouponsOK' /\ UNCHANGED <<usageLog, timesUsed>>
<1>1. UNCHANGED <<usageLog, timesUsed>>
  BY DEF ConfirmSession
<1>2. PICK i \in OrderIds : orders[i] = NoOrder /\ orders' = [orders EXCEPT ![i] = draft[w].order]
  BY ConfirmWrites
<1>3. draft[w].order # NoOrder
  BY ConfirmWrites, RealOrder
<1>4. \A u \in usageLog : orders'[u.order] # NoOrder
  BY <1>2, <1>3, WorkerTypes DEF CouponsOK, IInv, TypeOK
<1>5. pc' = [pc EXCEPT ![w] = "idle"] /\ draft' = [draft EXCEPT ![w] = NoDraft]
  BY FinishType DEF ConfirmSession
<1>6. \A v \in Workers : Redeemer(v)' => v # w /\ Redeemer(v) /\ draft'[v] = draft[v]
  BY <1>5, WorkerTypes DEF Redeemer
<1>7. \A k \in Coupons : Contract!UsesOf(k)' = Contract!UsesOf(k)
  BY <1>1 DEF Contract!UsesOf
<1>8. ASSUME NEW v \in Workers, Redeemer(v)' PROVE Backed(v)'
  <2>1. Backed(v) /\ draft'[v] = draft[v]
    BY <1>6, <1>8 DEF CouponsOK
  <2> QED BY <1>1, <2>1 DEF Backed, UnderLimit, UnderCustomerLimit, UsesBy
<1>9. \A u, v \in Workers :
        Redeemer(u)' /\ Redeemer(v)' /\ u # v => draft'[u].order.coupon # draft'[v].order.coupon
  BY <1>6 DEF CouponsOK
<1> QED BY <1>1, <1>4, <1>7, <1>8, <1>9 DEF CouponsOK

LEMMA CouponConfirm ==
  ASSUME IInv, CouponsOK, NEW w \in Workers, ConfirmSession(w),
         NEW k \in Coupons, NEW cust \in Customers,
         draft[w].order.coupon = k, draft[w].order.customer = cust
  PROVE  CouponsOK' /\ Contract!Next
<1> DEFINE o == draft[w].order
           Use(i) == [coupon |-> k, customer |-> cust, order |-> i]
<1>1. o \in OrderRows /\ k # NoCoupon /\ Redeemer(w)
  BY ConfirmWrites, CouponsAssumption DEF Redeemer
<1>2. PICK i \in OrderIds :
        /\ orders[i] = NoOrder
        /\ orders' = [orders EXCEPT ![i] = o]
        /\ usageLog' = usageLog \cup {Use(i)}
  BY <1>1, ConfirmWrites
<1>3. timesUsed' = [timesUsed EXCEPT ![k] = @ + 1]
  BY <1>1 DEF ConfirmSession
<1>4. timesUsed \in [Coupons -> Nat]
  BY DEF IInv, TypeOK
<1>5. \A u \in usageLog : u.order # i
  BY <1>2 DEF CouponsOK
<1>6. Use(i) \notin usageLog
  BY <1>5
<1>7. Use(i) \in Contract!Uses
  BY <1>1 DEF Contract!Uses
<1>8. UnderLimit(k) /\ UnderCustomerLimit(k, cust)
  BY <1>1 DEF CouponsOK, Backed
<1>9. UsageLimit[k] # 0 => Cardinality(Contract!UsesOf(k)) < UsageLimit[k]
  BY <1>1, <1>8 DEF UnderLimit, CouponsOK
<1>10. Cardinality(Contract!UsesBy(k, cust)) < CustomerLimit[k]
  BY <1>8 DEF UnderCustomerLimit, UsesBy, Contract!UsesBy
<1>11. Contract!Next
  <2> DEFINE entry == Use(i)
  <2>1. entry.coupon = k /\ entry.customer = cust /\ entry.order = i
    OBVIOUS
  <2>2. entry \in Contract!Uses /\ usageLog' = usageLog \cup {entry}
    BY <1>2, <1>7
  <2> HIDE DEF entry
  <2>3. \A u \in usageLog : u.order # entry.order
    BY <1>5, <2>1
  <2>4. UsageLimit[entry.coupon] # 0 =>
          Cardinality(Contract!UsesOf(entry.coupon)) < UsageLimit[entry.coupon]
    BY <1>9, <2>1
  <2>5. Cardinality(Contract!UsesBy(entry.coupon, entry.customer)) < CustomerLimit[entry.coupon]
    BY <1>10, <2>1
  <2>6. timesUsed' = [timesUsed EXCEPT ![entry.coupon] = @ + 1]
    BY <1>3, <2>1
  <2>7. Contract!Redeem(entry)
    BY <2>2, <2>3, <2>4, <2>5, <2>6, SameCardinality DEF Contract!Redeem
  <2> QED BY <2>2, <2>7 DEF Contract!Next
<1>12. IsFiniteSet(usageLog')
  BY <1>2, FS_AddElement DEF CouponsOK
<1>13. \A c \in Coupons : timesUsed'[c] = Cardinality(Contract!UsesOf(c)')
  <2> SUFFICES ASSUME NEW c \in Coupons
               PROVE  timesUsed'[c] = Cardinality(Contract!UsesOf(c)')
    OBVIOUS
  <2>1. timesUsed[c] = Cardinality(Contract!UsesOf(c)) /\ timesUsed[c] \in Nat
    BY <1>4 DEF CouponsOK
  <2>2. CASE c = k
    <3>1. Contract!UsesOf(k)' = Contract!UsesOf(k) \cup {Use(i)}
      <4>1. Use(i).coupon = k
        OBVIOUS
      <4> QED BY <1>2, <4>1 DEF Contract!UsesOf
    <3>2. IsFiniteSet(Contract!UsesOf(k))
      BY FS_Subset DEF CouponsOK, Contract!UsesOf
    <3>3. Use(i) \notin Contract!UsesOf(k)
      BY <1>6 DEF Contract!UsesOf
    <3>4. Cardinality(Contract!UsesOf(k) \cup {Use(i)}) = Cardinality(Contract!UsesOf(k)) + 1
      BY <3>2, <3>3, FS_AddElement
    <3>5. timesUsed'[k] = timesUsed[k] + 1
      BY <1>3, <1>4
    <3> QED BY <2>1, <2>2, <3>1, <3>4, <3>5
  <2>3. CASE c # k
    <3>1. Contract!UsesOf(c)' = Contract!UsesOf(c)
      BY <1>2, <2>3 DEF Contract!UsesOf
    <3> QED BY <1>3, <1>4, <2>1, <2>3, <3>1
  <2> QED BY <2>2, <2>3
<1>14. \A u \in usageLog' : orders'[u.order] # NoOrder
  <2>1. o # NoOrder
    BY <1>1, RealOrder
  <2>2. \A u \in usageLog : orders'[u.order] # NoOrder
    BY <1>2, <2>1, WorkerTypes DEF CouponsOK, IInv, TypeOK
  <2>3. orders'[i] # NoOrder
    BY <1>2, <2>1, WorkerTypes
  <2> QED BY <1>2, <2>2, <2>3
<1>15. pc' = [pc EXCEPT ![w] = "idle"] /\ draft' = [draft EXCEPT ![w] = NoDraft]
  BY FinishType DEF ConfirmSession
<1>16. \A v \in Workers : Redeemer(v)' => v # w /\ Redeemer(v) /\ draft'[v] = draft[v]
  BY <1>15, WorkerTypes DEF Redeemer
<1>17. ASSUME NEW v \in Workers, Redeemer(v)' PROVE Backed(v)'
  <2>1. Backed(v) /\ draft'[v] = draft[v] /\ draft[v].order.coupon # k
    BY <1>1, <1>16, <1>17 DEF CouponsOK
  <2> DEFINE c == draft[v].order.coupon
             x == draft[v].order.customer
  <2>2. UsesBy(c, x)' = UsesBy(c, x)
    BY <1>2, <2>1 DEF UsesBy
  <2>3. timesUsed'[c] = timesUsed[c]
    BY <1>3, <1>4, <2>1
  <2> QED BY <2>1, <2>2, <2>3 DEF Backed, UnderLimit, UnderCustomerLimit
<1>18. \A u, v \in Workers :
         Redeemer(u)' /\ Redeemer(v)' /\ u # v => draft'[u].order.coupon # draft'[v].order.coupon
  BY <1>16 DEF CouponsOK
<1> QED BY <1>11, <1>12, <1>13, <1>14, <1>17, <1>18 DEF CouponsOK

\* The steps that read the coupon's limits without its lock do not redeem.
LEMMA CreateOrderCoupons ==
  ASSUME IInv, CouponsOK, NEW w \in Workers, CreateOrder(w)
  PROVE  CouponsOK'
<1>1. UNCHANGED <<usageLog, timesUsed, orders>>
  BY DEF CreateOrder
<1>2. draft[w] \in Drafts
  BY WorkerTypes
<1>3. draft'[w].order.coupon = NoCoupon
  BY <1>2, WorkerTypes DEF CreateOrder, OrderOf, Drafts
<1>4. \A v \in Workers \ {w} : draft'[v] = draft[v] /\ pc'[v] = pc[v]
  BY WorkerTypes DEF CreateOrder
<1>5. \A v \in Workers : Redeemer(v)' => Redeemer(v) /\ draft'[v] = draft[v]
  BY <1>3, <1>4 DEF Redeemer
<1> QED BY <1>1, <1>5, CouponsKept

LEMMA NextCoupons ==
  ASSUME IInv, CouponsOK, [Next]_vars
  PROVE  CouponsOK' /\ [Contract!Next]_Contract!contractVars
<1> USE DEF Contract!contractVars
<1>1. ASSUME UNCHANGED <<usageLog, timesUsed, orders, pc, draft>> PROVE CouponsOK'
  BY <1>1, CouponsKept DEF Redeemer
<1>2. ASSUME NEW c \in Carts, CartStep(c)
      PROVE  UNCHANGED <<usageLog, timesUsed, orders, pc, draft>>
  BY <1>2 DEF CartStep, ChangeItems, ClearCart, ApplyCoupon, RemoveCoupon, SaveCart
<1>3. ASSUME NEW k \in Coupons, NEW b \in BOOLEAN, SetActive(k, b)
      PROVE  UNCHANGED <<usageLog, timesUsed, orders, pc, draft>>
  BY <1>3 DEF SetActive
<1>4. ASSUME NEW s \in SessionIds, SessionStep(s)
      PROVE  UNCHANGED <<usageLog, timesUsed, orders, pc, draft>>
  BY <1>4 DEF SessionStep, SaveAddress, SelectShipping
<1>5. ASSUME NEW w \in Workers, Begin(w) \/ Abort(w) \/ CreateSession(w)
      PROVE  CouponsOK' /\ UNCHANGED <<usageLog, timesUsed>>
  <2>1. UNCHANGED <<usageLog, timesUsed, orders>>
    BY <1>5 DEF Begin, StartCheckout, LockSession, Abort, CreateSession
  <2>2. /\ pc'[w] # "commit"
        /\ \A v \in Workers \ {w} : draft'[v] = draft[v] /\ pc'[v] = pc[v]
    BY <1>5, WorkerTypes
       DEF Begin, StartCheckout, LockSession, ReadCart, Abort, CreateSession, Finish
  <2>3. \A v \in Workers : Redeemer(v)' => Redeemer(v) /\ draft'[v] = draft[v]
    BY <2>2 DEF Redeemer
  <2> QED BY <2>1, <2>3, CouponsKept
<1>6. ASSUME NEW w \in Workers, RedeemCoupon(w) \/ RedeemFails(w) \/ CreateOrder(w)
      PROVE  CouponsOK' /\ UNCHANGED <<usageLog, timesUsed>>
  BY <1>6, RedeemCouponCoupons, RedeemFailsCoupons, CreateOrderCoupons
     DEF RedeemCoupon, RedeemFails, CreateOrder
<1>7. ASSUME NEW w \in Workers, ConfirmSession(w)
      PROVE  CouponsOK' /\ [Contract!Next]_Contract!contractVars
  <2>1. draft[w].order \in OrderRows
    BY <1>7, ConfirmWrites
  <2>2. CASE draft[w].order.coupon = NoCoupon
    BY <1>7, <2>2, PlainConfirm
  <2>3. CASE draft[w].order.coupon # NoCoupon
    <3>1. draft[w].order.coupon \in Coupons /\ draft[w].order.customer \in Customers
      BY <2>1, <2>3 DEF OrderRows
    <3> QED BY <1>7, <3>1, CouponConfirm
  <2> QED BY <2>2, <2>3
<1>8. CASE UNCHANGED vars
  BY <1>1, <1>8 DEF vars
<1> QED BY <1>1, <1>2, <1>3, <1>4, <1>5, <1>6, <1>7, <1>8 DEF Next, Advance

\* Whatever requests place their orders side by side, the uses that are logged are ones
\* CouponContract allows: no coupon is used beyond its limit or a customer's, no order
\* uses two, and the counter moves with the log.
THEOREM CouponsImplementContract == Spec => RedeemsWithinLimits
<1>1. Init => Contract!Init
  BY DEF Init, Contract!Init
<1>2. CouponsOK /\ IInv /\ [Next]_vars =>
        CouponsOK' /\ [Contract!Next]_Contract!contractVars
  BY NextCoupons
<1> QED BY <1>1, <1>2, InitCoupons, Invariance, PTL DEF Spec, RedeemsWithinLimits, Contract!Spec
=============================================================================
