----------------------------- MODULE VendorSale -----------------------------
(***************************************************************************)
(* What the finance review promises of vendor sales: a vendor is owed and  *)
(* paid only for a sale that was delivered and fully paid for, each stage  *)
(* is passed once and in order, and a refund takes the sale back for good. *)
(* Sales of one order move together, so a step may move several of them.   *)
(* OrderFinance implements this with its vendor order lines.               *)
(***************************************************************************)
CONSTANT Sales

VARIABLES
  delivered,  \* the goods reached the customer
  funded,     \* the customer has paid the whole order
  refunded,   \* the order was refunded
  stage       \* the stage of the sale, "none" before the order exists

vars == <<delivered, funded, refunded, stage>>

Init ==
  /\ delivered = [x \in Sales |-> FALSE]
  /\ funded \in [Sales -> BOOLEAN]
  /\ refunded = [x \in Sales |-> FALSE]
  /\ stage = [x \in Sales |-> "none"]

\* The order is placed.
Place(x) == /\ stage[x] = "none" /\ stage'[x] = "pending"
            /\ delivered'[x] <=> delivered[x]
            /\ refunded'[x] <=> refunded[x]
            /\ funded'[x] <=> funded[x]

\* Delivery and payment arrive in any order; the sale may become eligible with
\* the last of them.
Progress(x) == /\ delivered[x] => delivered'[x]
               /\ funded[x] => funded'[x]
               /\ refunded'[x] <=> refunded[x]
               /\ \/ stage'[x] = stage[x]
                  \/ /\ stage[x] = "pending" /\ stage'[x] = "eligible"
                     /\ delivered'[x] /\ funded'[x] /\ ~refunded[x]

\* Finance decides, and pays what it approved.
Decide(x) == /\ \/ stage[x] = "eligible" /\ stage'[x] \in {"approved", "rejected"}
                \/ stage[x] = "approved" /\ stage'[x] = "paid"
             /\ delivered[x] /\ funded[x] /\ ~refunded[x]
             /\ delivered'[x] <=> delivered[x]
             /\ funded'[x] <=> funded[x]
             /\ refunded'[x] <=> refunded[x]

\* A refund takes back the sale, unless finance turned it down.
Refund(x) == /\ ~refunded[x] /\ refunded'[x]
             /\ delivered'[x] <=> delivered[x]
             /\ stage'[x] = IF stage[x] \in {"eligible", "approved", "paid"}
                            THEN "reversed"
                            ELSE stage[x]

Next == \A x \in Sales : Place(x) \/ Progress(x) \/ Decide(x) \/ Refund(x)

Spec == Init /\ [][Next]_vars
=============================================================================
