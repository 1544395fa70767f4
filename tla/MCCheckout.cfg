CONSTANTS
  Workers = {w1, w2}
  Carts = {c1}
  Customers = {u1, u2}
  Coupons = {k1}
  Subtotals = {0, 2}
  Fees = {1}
  MaxSessions = 3
  MaxOrdersMonthly = 2
  DiscountValue <- One
  MinimumPurchase <- Minimum
  UsageLimit <- One
  CustomerLimit <- One
  NoCoupon = NoCoupon
  NoCustomer = NoCustomer
  NoCart = NoCart
SPECIFICATION Spec
SYMMETRY Symmetry
INVARIANTS TypeOK OneOrderPerSession AmountsAddUp
PROPERTIES ConfirmedIsFinal RedeemsWithinLimits
