------------------------------ MODULE Checkout ------------------------------
(***************************************************************************)
(* Carts, coupons and checkout sessions, and the order a session becomes.  *)
(* Placing an order is one transaction that locks the session, reads the   *)
(* cart, writes the order, checks the coupon, locks its row to redeem it   *)
(* and commits; requests of the same or of other shoppers run between any  *)
(* two of its statements (READ COMMITTED).  The other requests write one   *)
(* shopper's rows at once and are one step each.                           *)
(***************************************************************************)
EXTENDS Integers, FiniteSets

CONSTANTS
  Workers,          \* concurrent place-order and start-checkout requests
  Carts,            \* rows of cart_cart, one per shopper and store
  Customers,        \* email addresses shoppers type; one Customer row for each
  Coupons,
  Subtotals,        \* what the items of a cart may cost
  Fees,             \* what shipping may cost
  MaxSessions,      \* bounds the checkout sessions, and with them the orders
  MaxOrdersMonthly, \* the plan's limit of orders in a month
  DiscountValue,    \* per coupon: discount_value of a fixed discount
  MinimumPurchase,  \* per coupon: minimum_purchase_amount
  UsageLimit,       \* per coupon: usage_limit, 0 for NULL
  CustomerLimit,    \* per coupon: usage_limit_per_customer
  NoCoupon, NoCustomer, NoCart

ASSUME MaxSessionsAssumption == MaxSessions \in Nat
ASSUME AmountsAssumption == Subtotals \subseteq Nat /\ Fees \subseteq Nat /\ 0 \in Subtotals
ASSUME CouponsAssumption ==
  /\ NoCoupon \notin Coupons /\ IsFiniteSet(Coupons)
  /\ DiscountValue \in [Coupons -> Nat]
  /\ MinimumPurchase \in [Coupons -> Nat]
  /\ UsageLimit \in [Coupons -> Nat]
  /\ CustomerLimit \in [Coupons -> Nat \ {0}]
ASSUME CustomersAssumption == NoCustomer \notin Customers /\ IsFiniteSet(Customers)
ASSUME CartsAssumption == NoCart \notin Carts

SessionIds == 1 .. MaxSessions
OrderIds == 1 .. MaxSessions

VARIABLES
  cart,       \* per cart: its items' price, its coupon and its discount
  active,     \* per coupon: enabled and within its dates
  timesUsed,  \* per coupon: the counter times_used
  usageLog,   \* rows of coupons_usage_log
  session,    \* per id: the row of checkout_checkoutsession
  orders,     \* per id: the row of orders_order
  pc,         \* per worker: the next statement of its transaction
  at,         \* per worker: the session it has locked
  draft       \* per worker: the rows its transaction has written, not committed

vars == <<cart, active, timesUsed, usageLog, session, orders, pc, at, draft>>

-----------------------------------------------------------------------------
(* Rows *)

EmptyCart == [subtotal |-> 0, coupon |-> NoCoupon, discount |-> 0]
CartRows == [subtotal : Subtotals, coupon : Coupons \cup {NoCoupon}, discount : Nat]

ZeroTotals == [subtotal |-> 0, discount |-> 0, shipping |-> 0]
Totals == [subtotal : Nat, discount : Nat, shipping : Nat]

Statuses == {"ADDRESS", "SHIPPING", "PAYMENT", "CONFIRMED"}
NoSession == [cart |-> NoCart, status |-> "NONE", customer |-> NoCustomer,
              totals |-> ZeroTotals, order |-> 0]
SessionRows ==
  [cart : Carts, status : Statuses, customer : Customers \cup {NoCustomer},
   totals : Totals, order : OrderIds \cup {0}]

OrderRows ==
  [session : SessionIds, customer : Customers, items : Nat, subtotal : Nat,
   discount : Nat, shipping : Nat, taxable : Nat, coupon : Coupons \cup {NoCoupon}]
NoOrder == [session |-> 0]

\* What a transaction holds: the cart as GetCart left it, whether that has to be
\* written, and the order it inserted.
NoDraft == [owner |-> NoCart, summary |-> EmptyCart, sync |-> FALSE, order |-> NoOrder]
Drafts == [owner : Carts \cup {NoCart}, summary : CartRows, sync : BOOLEAN,
           order : OrderRows \cup {NoOrder}]

Positive(n) == IF n < 0 THEN 0 ELSE n

\* The tax and total_amount of an order are functions of this amount.
Taxable(subtotal, discount, shipping) == Positive(subtotal - discount + shipping)

-----------------------------------------------------------------------------
(* Coupons *)

UsesBy(k, c) == {u \in usageLog : u.coupon = k /\ u.customer = c}

UnderLimit(k) == UsageLimit[k] = 0 \/ timesUsed[k] < UsageLimit[k]
UnderCustomerLimit(k, c) == Cardinality(UsesBy(k, c)) < CustomerLimit[k]

\* validate_coupon, called without a customer by the cart ...
Valid(k, subtotal) ==
  active[k] /\ subtotal >= MinimumPurchase[k] /\ UnderLimit(k)

\* ... and with one by the checkout.
ValidFor(k, c, subtotal) == Valid(k, subtotal) /\ UnderCustomerLimit(k, c)

CalculateDiscount(k, subtotal) ==
  IF DiscountValue[k] < subtotal THEN DiscountValue[k] ELSE subtotal

-----------------------------------------------------------------------------
(* Carts *)

\* A cart with no coupon, or with one that is still valid for its items.
Revalidated(c) ==
  IF c.coupon # NoCoupon /\ Valid(c.coupon, c.subtotal)
    THEN [c EXCEPT !.discount = CalculateDiscount(c.coupon, c.subtotal)]
    ELSE [c EXCEPT !.coupon = NoCoupon, !.discount = 0]

\* A transaction that wrote the coupon or the discount of a cart holds its row.
CartFree(c) == \A w \in Workers : draft[w].sync => draft[w].owner # c

OutOfSync(c, row) == row.coupon # cart[c].coupon \/ row.discount # cart[c].discount

\* A request on a cart ends in GetCart, which writes these two fields if they changed.
SaveCart(c, row) ==
  /\ OutOfSync(c, Revalidated(row)) => CartFree(c)
  /\ cart' = [cart EXCEPT ![c] = Revalidated(row)]
  /\ UNCHANGED <<active, timesUsed, usageLog, session, orders, pc, at, draft>>

\* add_to_cart, update_cart_item, remove_cart_item; cart_view when nothing changes.
ChangeItems(c, subtotal) == SaveCart(c, [cart[c] EXCEPT !.subtotal = subtotal])

\* clear_cart deletes the items and does not look at the coupon.
ClearCart(c) ==
  /\ cart' = [cart EXCEPT ![c].subtotal = 0]
  /\ UNCHANGED <<active, timesUsed, usageLog, session, orders, pc, at, draft>>

ApplyCoupon(c, k) ==
  /\ CartFree(c)
  /\ cart[c].subtotal > 0
  /\ Valid(k, cart[c].subtotal)
  /\ CalculateDiscount(k, cart[c].subtotal) > 0
  /\ SaveCart(c, [cart[c] EXCEPT !.coupon = k])

RemoveCoupon(c) ==
  /\ CartFree(c)
  /\ SaveCart(c, [cart[c] EXCEPT !.coupon = NoCoupon])

\* The store enables or disables a coupon, or one of its dates passes.
SetActive(k, b) ==
  /\ active' = [active EXCEPT ![k] = b]
  /\ UNCHANGED <<cart, timesUsed, usageLog, session, orders, pc, at, draft>>

-----------------------------------------------------------------------------
(* Transactions of several steps *)

\* GetCart at the start of one: what it writes stays in the transaction.
ReadCart(w, c) ==
  LET summary == Revalidated(cart[c]) IN
  /\ OutOfSync(c, summary) => CartFree(c)
  /\ summary.subtotal > 0
  /\ draft' = [draft EXCEPT ![w] =
       [owner |-> c, summary |-> summary, sync |-> OutOfSync(c, summary), order |-> NoOrder]]

\* COMMIT of what GetCart wrote, and the release of every lock.
Finish(w) ==
  /\ cart' = IF draft[w].sync
       THEN [cart EXCEPT ![draft[w].owner].coupon = draft[w].summary.coupon,
                         ![draft[w].owner].discount = draft[w].summary.discount]
       ELSE cart
  /\ pc' = [pc EXCEPT ![w] = "idle"]
  /\ at' = [at EXCEPT ![w] = 0]
  /\ draft' = [draft EXCEPT ![w] = NoDraft]

\* ROLLBACK: an item is out of stock, the plan's limit is reached, a statement fails.
Abort(w) ==
  /\ pc[w] # "idle"
  /\ pc' = [pc EXCEPT ![w] = "idle"]
  /\ at' = [at EXCEPT ![w] = 0]
  /\ draft' = [draft EXCEPT ![w] = NoDraft]
  /\ UNCHANGED <<cart, active, timesUsed, usageLog, session, orders>>

-----------------------------------------------------------------------------
(* Checkout sessions *)

Created == {s \in SessionIds : session[s].status # "NONE"}
SessionsOf(c) == {s \in Created : session[s].cart = c}
Newest(s) == \A t \in SessionsOf(session[s].cart) : t <= s

\* Fault: the session is read without FOR UPDATE.
SessionUnlocked(s) == s \in SessionIds

\* SELECT ... FOR UPDATE: only place-order requests keep the lock between steps.
SessionFree(s) == \A w \in Workers : at[w] # s

\* start_checkout returns the cart's newest session unless that one is confirmed.
StartCheckout(w, c) ==
  /\ pc[w] = "idle"
  /\ \A s \in SessionsOf(c) : Newest(s) => session[s].status = "CONFIRMED"
  /\ ReadCart(w, c)
  /\ pc' = [pc EXCEPT ![w] = "create_session"]
  /\ UNCHANGED <<cart, active, timesUsed, usageLog, session, orders, at>>

\* Another request may have created a session for the cart since.
CreateSession(w) ==
  /\ pc[w] = "create_session"
  /\ \E s \in SessionIds :
       /\ s \notin Created /\ \A t \in 1 .. (s - 1) : t \in Created
       /\ session' = [session EXCEPT ![s] =
            [cart |-> draft[w].owner, status |-> "ADDRESS", customer |-> NoCustomer,
             totals |-> [subtotal |-> draft[w].summary.subtotal,
                         discount |-> draft[w].summary.discount, shipping |-> 0],
             order |-> 0]]
  /\ Finish(w)
  /\ UNCHANGED <<active, timesUsed, usageLog, orders>>

\* Fault: a confirmed session takes another address.
SaveAddressAlways(s, c) ==
  /\ s \in Created /\ SessionFree(s)
  /\ session' = [session EXCEPT ![s].customer = c, ![s].status = "SHIPPING"]
  /\ UNCHANGED <<cart, active, timesUsed, usageLog, orders, pc, at, draft>>

\* Back to SHIPPING from wherever the checkout was, unless it is confirmed.
SaveAddress(s, c) ==
  /\ s \in Created /\ SessionFree(s)
  /\ session[s].status # "CONFIRMED"
  /\ session' = [session EXCEPT ![s].customer = c, ![s].status = "SHIPPING"]
  /\ UNCHANGED <<cart, active, timesUsed, usageLog, orders, pc, at, draft>>

\* The totals are those of the cart the request comes with, at this moment: nothing
\* compares it with the session's.
SelectShipping(s, c, fee) ==
  LET summary == Revalidated(cart[c]) IN
  /\ s \in Created /\ SessionFree(s)
  /\ session[s].status # "CONFIRMED"
  /\ session[s].customer # NoCustomer
  /\ OutOfSync(c, summary) => CartFree(c)
  /\ cart' = [cart EXCEPT ![c] = summary]
  /\ session' = [session EXCEPT ![s].status = "PAYMENT", ![s].totals =
       [subtotal |-> summary.subtotal, discount |-> summary.discount, shipping |-> fee]]
  /\ UNCHANGED <<active, timesUsed, usageLog, orders, pc, at, draft>>

-----------------------------------------------------------------------------
(* Placing an order *)

\* Fault: only the order is looked at, not the status.
LockSessionAnyStatus(w, s, c) ==
  /\ pc[w] = "idle"
  /\ s \in Created /\ SessionFree(s)
  /\ session[s].order = 0
  /\ ReadCart(w, c)
  /\ pc' = [pc EXCEPT ![w] = "create_order"]
  /\ at' = [at EXCEPT ![w] = s]
  /\ UNCHANGED <<cart, active, timesUsed, usageLog, session, orders>>

\* A session that has its order is answered with it: nothing changes.  The cart is, again,
\* the one the request comes with.
LockSession(w, s, c) ==
  /\ pc[w] = "idle"
  /\ s \in Created /\ SessionFree(s)
  /\ session[s].order = 0
  /\ session[s].status = "PAYMENT"
  /\ ReadCart(w, c)
  /\ pc' = [pc EXCEPT ![w] = "create_order"]
  /\ at' = [at EXCEPT ![w] = s]
  /\ UNCHANGED <<cart, active, timesUsed, usageLog, session, orders>>

\* The items are the cart's, the amounts are the session's.
OrderOf(s, summary) ==
  LET t == session[s].totals IN
  [session |-> s, customer |-> session[s].customer, items |-> summary.subtotal,
   subtotal |-> t.subtotal, discount |-> t.discount, shipping |-> t.shipping,
   taxable |-> Taxable(t.subtotal, t.discount, t.shipping), coupon |-> NoCoupon]

Placed == {i \in OrderIds : orders[i] # NoOrder}

\* The plan's limit is compared with the committed orders, then the coupon is
\* checked, without a lock.
CreateOrder(w) ==
  LET order == OrderOf(at[w], draft[w].summary)
      k == draft[w].summary.coupon IN
  /\ pc[w] = "create_order"
  /\ Cardinality(Placed) + 1 <= MaxOrdersMonthly
  /\ draft' = [draft EXCEPT ![w].order = order]
  /\ pc' = [pc EXCEPT ![w] =
       IF k # NoCoupon /\ ValidFor(k, order.customer, order.subtotal) /\ order.discount > 0
         THEN "redeem" ELSE "commit"]
  /\ UNCHANGED <<cart, active, timesUsed, usageLog, session, orders, at>>

\* Fault: the coupon is read without FOR UPDATE.
CouponUnlocked(k) == k \in Coupons

\* The coupon's row stays locked until the transaction of its redeemer ends.
CouponFree(k) == \A w \in Workers : pc[w] = "commit" => draft[w].order.coupon # k

\* Fault: the amounts are not computed again.
RedeemCouponOldTotal(w) ==
  LET k == draft[w].summary.coupon
      order == draft[w].order IN
  /\ pc[w] = "redeem"
  /\ CouponFree(k)
  /\ draft' = [draft EXCEPT ![w].order =
       IF UnderLimit(k) /\ UnderCustomerLimit(k, order.customer)
         THEN [order EXCEPT !.coupon = k] ELSE [order EXCEPT !.discount = 0]]
  /\ pc' = [pc EXCEPT ![w] = "commit"]
  /\ UNCHANGED <<cart, active, timesUsed, usageLog, session, orders, at>>

\* apply_coupon repeats the limits under the lock; refused, the discount goes.
RedeemCoupon(w) ==
  LET k == draft[w].summary.coupon
      order == draft[w].order IN
  /\ pc[w] = "redeem"
  /\ CouponFree(k)
  /\ draft' = [draft EXCEPT ![w].order =
       IF UnderLimit(k) /\ UnderCustomerLimit(k, order.customer)
         THEN [order EXCEPT !.coupon = k]
         ELSE [order EXCEPT !.discount = 0,
                 !.taxable = Taxable(order.subtotal, 0, order.shipping)]]
  /\ pc' = [pc EXCEPT ![w] = "commit"]
  /\ UNCHANGED <<cart, active, timesUsed, usageLog, session, orders, at>>

\* Any other exception of apply_coupon undoes its savepoint and is passed over: the
\* discount stays, without a use.
RedeemFails(w) ==
  /\ pc[w] = "redeem"
  /\ pc' = [pc EXCEPT ![w] = "commit"]
  /\ UNCHANGED <<cart, active, timesUsed, usageLog, session, orders, at, draft>>

ConfirmSession(w) ==
  LET order == draft[w].order
      k == order.coupon IN
  /\ pc[w] = "commit"
  /\ \E i \in OrderIds :
       /\ orders[i] = NoOrder /\ \A j \in 1 .. (i - 1) : orders[j] # NoOrder
       /\ orders' = [orders EXCEPT ![i] = order]
       /\ session' = [session EXCEPT ![at[w]].order = i, ![at[w]].status = "CONFIRMED"]
       /\ usageLog' = IF k = NoCoupon THEN usageLog
            ELSE usageLog \cup {[coupon |-> k, customer |-> order.customer, order |-> i]}
  /\ timesUsed' = IF k = NoCoupon THEN timesUsed ELSE [timesUsed EXCEPT ![k] = @ + 1]
  /\ Finish(w)
  /\ UNCHANGED active

-----------------------------------------------------------------------------
Init ==
  /\ cart = [c \in Carts |-> EmptyCart]
  /\ active = [k \in Coupons |-> TRUE]
  /\ timesUsed = [k \in Coupons |-> 0]
  /\ usageLog = {}
  /\ session = [s \in SessionIds |-> NoSession]
  /\ orders = [i \in OrderIds |-> NoOrder]
  /\ pc = [w \in Workers |-> "idle"]
  /\ at = [w \in Workers |-> 0]
  /\ draft = [w \in Workers |-> NoDraft]

CartStep(c) ==
  \/ \E subtotal \in Subtotals : ChangeItems(c, subtotal)
  \/ ClearCart(c)
  \/ \E k \in Coupons : ApplyCoupon(c, k)
  \/ RemoveCoupon(c)

SessionStep(s) ==
  \/ \E c \in Customers : SaveAddress(s, c)
  \/ \E c \in Carts, fee \in Fees : SelectShipping(s, c, fee)

Begin(w) ==
  \E c \in Carts : StartCheckout(w, c) \/ \E s \in SessionIds : LockSession(w, s, c)

Advance(w) == CreateSession(w) \/ CreateOrder(w) \/ RedeemCoupon(w) \/ RedeemFails(w)
                \/ ConfirmSession(w)

Next ==
  \/ \E c \in Carts : CartStep(c)
  \/ \E k \in Coupons, b \in BOOLEAN : SetActive(k, b)
  \/ \E s \in SessionIds : SessionStep(s)
  \/ \E w \in Workers : Begin(w) \/ Advance(w) \/ Abort(w)

Spec == Init /\ [][Next]_vars

-----------------------------------------------------------------------------
(* Properties *)

TypeOK ==
  /\ cart \in [Carts -> CartRows]
  /\ active \in [Coupons -> BOOLEAN]
  /\ timesUsed \in [Coupons -> Nat]
  /\ usageLog \subseteq [coupon : Coupons, customer : Customers, order : OrderIds]
  /\ session \in [SessionIds -> SessionRows \cup {NoSession}]
  /\ orders \in [OrderIds -> OrderRows \cup {NoOrder}]
  /\ pc \in [Workers -> {"idle", "create_session", "create_order", "redeem", "commit"}]
  /\ at \in [Workers -> SessionIds \cup {0}]
  /\ draft \in [Workers -> Drafts]

\* Two requests that confirm one session, the double click and the retry, get one
\* order between them: every order is the order of its session.
OneOrderPerSession ==
  \A i \in Placed : session[orders[i].session].order = i

\* A confirmed session keeps its totals, address and order: no request that read it
\* earlier writes it again.
ConfirmedIsFinal ==
  [][\A s \in SessionIds : session[s].status = "CONFIRMED" => session'[s] = session[s]]_vars

\* An order's amount follows from its parts, also when the coupon was refused after
\* the order had been written with the discount.
AmountsAddUp ==
  \A i \in Placed :
    /\ orders[i].taxable = Taxable(orders[i].subtotal, orders[i].discount, orders[i].shipping)
    /\ orders[i].coupon # NoCoupon => orders[i].discount > 0

\* Redemptions are what CouponContract allows, at every interleaving.
Contract == INSTANCE CouponContract
RedeemsWithinLimits == Contract!Spec
=============================================================================
