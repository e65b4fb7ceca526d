--------------------------- MODULE MCOrderFinance ---------------------------
(***************************************************************************)
(* Instances of OrderFinance for TLC.                                      *)
(***************************************************************************)
EXTENDS OrderFinance, TLC

CONSTANTS o1, o2, i1, i2, v1, v2, r1, s1, s2, p1, p2, p3

\* One order with a line of each of two vendors, paid in parts.
OneOrderOf == i1 :> o1 @@ i2 :> o1
OneVendorOf == i1 :> v1 @@ i2 :> v2
OneTotal == o1 :> 4
OnePayable == i1 :> 1 @@ i2 :> 1
OneCommission == i1 :> 1 @@ i2 :> 1
OneFee == r1 :> 1

\* Two orders of one vendor, each with one line, settled together or apart.
TwoOrderOf == i1 :> o1 @@ i2 :> o2
TwoVendorOf == i1 :> v1 @@ i2 :> v1
TwoTotal == o1 :> 2 @@ o2 :> 3
TwoPayable == i1 :> 1 @@ i2 :> 2
TwoCommission == i1 :> 1 @@ i2 :> 1


PaymentSettlementSymmetry == Permutations(Payments) \cup Permutations(Settlements)
=============================================================================
