\* One order, two vendors, payments in parts, COD, one hand reversal per event.
SPECIFICATION Spec
CONSTANTS
  o1 = o1  o2 = o2  i1 = i1  i2 = i2  v1 = v1  v2 = v2  r1 = r1
  s1 = s1  s2 = s2  p1 = p1  p2 = p2  p3 = p3
  None = None
  Orders = {o1}
  Items = {i1, i2}
  Vendors = {v1, v2}
  Riders = {r1}
  Payments = {p1, p2, p3}
  Settlements = {s1, s2}
  OrderOf <- OneOrderOf
  VendorOf <- OneVendorOf
  Total <- OneTotal
  Payable <- OnePayable
  Commission <- OneCommission
  Fee <- OneFee
  PayAmounts = {2, 4}
  PayStatuses = {"paid", "failed"}
  CodAmounts = {1, 2}
  Correctable = {"payment", "approval"}
  MaxChain = 2
SYMMETRY PaymentSettlementSymmetry
INVARIANTS
  TypeOK
  PaidIsSumOfPayments
  NeverOverpaid
  SaleBacked
  ReviewMatchesLedger
  RefundReversesOriginals
PROPERTIES
  RefundIsFinal
