\* Two orders of one vendor: settlements shared by orders, and their refunds.
SPECIFICATION Spec
CONSTANTS
  o1 = o1  o2 = o2  i1 = i1  i2 = i2  v1 = v1  v2 = v2  r1 = r1
  s1 = s1  s2 = s2  p1 = p1  p2 = p2  p3 = p3
  None = None
  Orders = {o1, o2}
  Items = {i1, i2}
  Vendors = {v1}
  Riders = {r1}
  Payments = {p1, p2}
  Settlements = {s1, s2}
  OrderOf <- TwoOrderOf
  VendorOf <- TwoVendorOf
  Total <- TwoTotal
  Payable <- TwoPayable
  Commission <- TwoCommission
  Fee <- OneFee
  PayAmounts = {2, 3}
  PayStatuses = {"paid"}
  CodAmounts = {}
  Correctable = {}
  MaxChain = 1
SYMMETRY PaymentSettlementSymmetry
INVARIANTS
  VendorNeverOverdrawn
  RefundedNetsToZero
PROPERTIES
  ImplementsVendorSale
