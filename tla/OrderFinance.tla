---------------------------- MODULE OrderFinance ----------------------------
(***************************************************************************)
(* The money side of an order, from its creation to its refund: status,    *)
(* payments, the delivery of it, the cash the rider collects, the finance  *)
(* review of its vendor lines, the vendor settlement and the reversal of   *)
(* everything when the order is refunded (packages/core/order_services.py, *)
(* delivery_services.py, finance_services.py, marketplace_services.py,     *)
(* accounting_services.py, ledger_services.py).                            *)
(*                                                                         *)
(* An action is one service call: the API routes commit after the call and *)
(* roll back everything on a ServiceError, so a call that fails is a       *)
(* stutter and its guards are the conjuncts of the action.  Calls on one   *)
(* order are taken one after the other.                                    *)
(*                                                                         *)
(* The ledger is abstracted to one number per source event.  post_journal  *)
(* accepts one journal per event (the idempotency key is unique) and       *)
(* reverse_journal only reverses a journal whose status is still "posted", *)
(* so the journals of an event form a chain: the posting, its reversal,    *)
(* the reversal of the reversal, ...  chain[e] is the length of the chain. *)
(* Only the last journal of a chain has the status "posted", and the lines *)
(* of the event count in the accounts exactly when the length is odd.      *)
(***************************************************************************)
EXTENDS Integers, FiniteSets, Functions

CONSTANTS
  Orders,        \* the orders of one company
  Items,         \* their vendor order lines
  Vendors,       \* the vendors of the lines
  Riders,        \* the users with the role Rider
  Payments,      \* identities for payment rows
  Settlements,   \* identities for vendor settlements
  None,          \* the SQL NULL
  OrderOf,       \* line -> order
  VendorOf,      \* line -> vendor
  Total,         \* order -> total_minor
  Payable,       \* line -> payable_minor
  Commission,    \* line -> commission_minor
  Fee,           \* rider -> delivery_fee_minor of the active profile, 0 if none
  PayAmounts,    \* amounts a payment request may carry
  PayStatuses,   \* statuses a payment request may carry
  CodAmounts,    \* amounts a rider may report or finance may accept
  Correctable,   \* kinds of events whose journals staff reverse by hand
  MaxChain       \* bound on the length of a chain that a hand reversal extends

OrderStatuses == {"pending", "confirmed", "packing", "ready", "dispatched",
                  "delivered", "returned", "cancelled", "refunded"}
PaymentStatuses == {"pending", "paid", "failed", "refunded"}
DeliveryStatuses == {"assigned", "picked_up", "out_for_delivery", "delivered",
                     "failed", "cancelled"}
CodStatuses == {"submitted", "rejected", "reconciled"}
FinanceStatuses == {"pending", "eligible", "approved", "rejected", "paid", "reversed"}
PeriodStatuses == {"open", "locked", "closed"}

\* The events that post a journal, by kind.
Events == [kind : {"payment"}, id : Payments]
            \cup [kind : {"approval"}, id : Items]
            \cup [kind : {"settlement"}, id : Settlements]
            \cup [kind : {"earning", "deduction"}, id : Orders]
PaymentEvent(p)    == [kind |-> "payment", id |-> p]
ApprovalEvent(i)   == [kind |-> "approval", id |-> i]
SettlementEvent(s) == [kind |-> "settlement", id |-> s]
EarningEvent(o)    == [kind |-> "earning", id |-> o]
DeductionEvent(o)  == [kind |-> "deduction", id |-> o]

ASSUME ConstantTypes ==
  /\ OrderOf \in [Items -> Orders]
  /\ VendorOf \in [Items -> Vendors]
  /\ Total \in [Orders -> Nat]
  /\ Payable \in [Items -> Nat]
  /\ Commission \in [Items -> Nat]
  /\ Fee \in [Riders -> Nat]
  /\ PayAmounts \subseteq Nat \ {0}
  /\ CodAmounts \subseteq Nat \ {0}
  /\ PayStatuses \subseteq PaymentStatuses
  /\ MaxChain \in Nat

ASSUME FiniteLines == IsFiniteSet(Items)

ASSUME NullIsNoRow ==
  /\ None \notin Orders
  /\ None \notin Riders
  /\ None \notin Settlements

VARIABLES
  status,        \* Order.status, "none" before the order exists
  paid,          \* Order.paid_minor
  payment,       \* Payment rows
  assignment,    \* DeliveryAssignment of the order: at most one, by a unique key
  collection,    \* CODCollection of the assignment: at most one, by a unique key
  finance,       \* VendorOrderItem.finance_status
  settlementOf,  \* VendorOrderItem.settlement_id
  chain,         \* LedgerJournal rows, see above
  active,        \* rider is an active user
  period         \* status of the LedgerPeriod the postings fall in

orderVars == <<status, paid, payment>>
vendorVars == <<finance, settlementOf>>
deliveryVars == <<assignment, collection>>
officeVars == <<active, period>>
vars == <<status, paid, payment, assignment, collection, finance, settlementOf,
          chain, active, period>>

ItemsOf(o) == {i \in Items : OrderOf[i] = o}
PaymentsOf(o) == {p \in Payments : payment[p].order = o}
PaidPayments(o) == {p \in PaymentsOf(o) : payment[p].status = "paid"}
Amounts == [p \in Payments |-> payment[p].amount]

\* Faulty: a refunded order can be taken up again.
TransitionsReopened ==
  [pending    |-> {"confirmed", "cancelled"}, confirmed  |-> {"packing", "cancelled"},
   packing    |-> {"ready", "cancelled"},     ready      |-> {"dispatched", "cancelled"},
   dispatched |-> {"delivered", "returned"},  delivered  |-> {"returned", "refunded"},
   returned   |-> {"refunded"}, cancelled |-> {}, refunded |-> {"returned"}]

Transitions ==
  [pending    |-> {"confirmed", "cancelled"},
   confirmed  |-> {"packing", "cancelled"},
   packing    |-> {"ready", "cancelled"},
   ready      |-> {"dispatched", "cancelled"},
   dispatched |-> {"delivered", "returned"},
   delivered  |-> {"returned", "refunded"},
   returned   |-> {"refunded"},
   cancelled  |-> {},
   refunded   |-> {}]

DeliveryTransitions ==
  [none             |-> {},
   assigned         |-> {"picked_up", "failed", "cancelled"},
   picked_up        |-> {"out_for_delivery", "failed"},
   out_for_delivery |-> {"delivered", "failed"},
   delivered        |-> {},
   failed           |-> {},
   cancelled        |-> {}]

-----------------------------------------------------------------------------
(* The ledger. *)

\* Posting an event, or reversing the journal it stands on, adds one journal.
AddJournals(E) == [e \in Events |-> IF e \in E THEN chain[e] + 1 ELSE chain[e]]

\* The original journal of the event is posted and was never reversed.
Original(e) == chain[e] = 1

\* Whether the lines of the event count in the accounts.
Stands(e) == chain[e] % 2 = 1
Net(e, amount) == IF Stands(e) THEN amount ELSE 0

\* The period check of post_journal.
MayPost == period = "open"

SettledItems(s) == {i \in Items : settlementOf[i] = s}
SettlementTotal(s) == SumFunctionOnSet(Payable, SettledItems(s))

\* vendor_payable_minor: what account 2000 owes the vendor.
VendorPayable(v) ==
  LET mine == {i \in Items : VendorOf[i] = v}
      batches == {settlementOf[i] : i \in mine} \ {None}
  IN  SumFunctionOnSet([i \in Items |-> Net(ApprovalEvent(i), Payable[i])], mine)
        - SumFunctionOnSet([s \in Settlements |-> Net(SettlementEvent(s), SettlementTotal(s))],
                           batches)

\* int(round(n / d)): Python rounds a half to the even neighbour.
RoundHalfEven(n, d) ==
  LET q == n \div d
      twice == 2 * (n % d)
  IN  IF twice > d \/ (twice = d /\ q % 2 = 1) THEN q + 1 ELSE q

\* The part of a payment the legacy projection gives to one vendor.
VendorShare(o, v, amount) ==
  LET mine == {i \in ItemsOf(o) : VendorOf[i] = v}
  IN  RoundHalfEven(SumFunctionOnSet(Payable, mine) * amount, Total[o])

\* What the projection leaves for sales revenue; negative aborts the payment.
Remainder(o, amount) ==
  amount - SumFunctionOnSet([v \in Vendors |-> VendorShare(o, v, amount)],
                            {VendorOf[i] : i \in ItemsOf(o)})
         - RoundHalfEven(SumFunctionOnSet(Commission, ItemsOf(o)) * amount, Total[o])

-----------------------------------------------------------------------------
(* Orders and payments. *)

\* create_order, with record_vendor_order_items_for_order.
CreateOrder(o) ==
  /\ status[o] = "none"
  /\ status' = [status EXCEPT ![o] = "pending"]
  /\ finance' = [i \in Items |-> IF OrderOf[i] = o THEN "pending" ELSE finance[i]]
  /\ UNCHANGED <<paid, payment, settlementOf, chain, deliveryVars, officeVars>>

\* change_order_status to anything but "refunded".
ChangeOrderStatus(o, target) ==
  /\ status[o] # "none"
  /\ target \in Transitions[status[o]] \ {"refunded"}
  /\ status' = [status EXCEPT ![o] = target]
  /\ UNCHANGED <<paid, payment, vendorVars, chain, deliveryVars, officeVars>>

Delivered(o) == assignment[o].status = "delivered"

\* Faulty: the lines become eligible without the delivery.
RefreshedUndelivered(o, paidMinor, delivered) ==
  [i \in Items |-> IF OrderOf[i] = o /\ finance[i] = "pending" /\ paidMinor >= Total[o]
                   THEN "eligible" ELSE finance[i]]
\* Faulty: the lines become eligible before the order is paid.
RefreshedUnpaid(o, paidMinor, delivered) ==
  [i \in Items |-> IF OrderOf[i] = o /\ finance[i] = "pending" /\ delivered
                   THEN "eligible" ELSE finance[i]]

\* refresh_vendor_finance_eligibility: the lines of o, given what has been paid
\* and whether the delivery is done.
Refreshed(o, paidMinor, delivered) ==
  LET eligible == /\ delivered
                  /\ paidMinor >= Total[o]
                  /\ status[o] \notin {"cancelled", "returned", "refunded"}
  IN  [i \in Items |-> IF eligible /\ OrderOf[i] = o /\ finance[i] = "pending"
                       THEN "eligible"
                       ELSE finance[i]]

\* Faulty: no check against the total.
AcceptsPaymentUncapped(o, amount, st) ==
  /\ status[o] \notin {"none", "cancelled", "refunded"}
  /\ st = "paid" => Remainder(o, amount) >= 0 /\ MayPost
\* The checks of record_payment and of post_order_payment_entry.
AcceptsPayment(o, amount, st) ==
  /\ status[o] \notin {"none", "cancelled", "refunded"}
  /\ st = "paid" => /\ paid[o] + amount <= Total[o]
                    /\ Remainder(o, amount) >= 0
                    /\ MayPost

\* What record_payment does to the payment rows, the order and its lines.
AddPayment(p, o, amount, st, rider) ==
  /\ payment[p].status = "none"
  /\ AcceptsPayment(o, amount, st)
  /\ payment' = [payment EXCEPT ![p] = [order |-> o, amount |-> amount, status |-> st,
                                        rider |-> rider]]
  /\ paid' = IF st = "paid" THEN [paid EXCEPT ![o] = @ + amount] ELSE paid
  /\ finance' = IF st = "paid" THEN Refreshed(o, paid[o] + amount, Delivered(o))
                               ELSE finance

\* record_payment.
RecordPayment(p, o, amount, st) ==
  /\ AddPayment(p, o, amount, st, None)
  /\ chain' = IF st = "paid" THEN AddJournals({PaymentEvent(p)}) ELSE chain
  /\ UNCHANGED <<status, settlementOf, deliveryVars, officeVars>>

\* The rider entry that a reconciled collection of o has in the rider ledger.
Earned(o) == chain[EarningEvent(o)] >= 1

PaymentOriginals(o) == {PaymentEvent(p) : p \in PaidPayments(o)}
ApprovalOriginals(o) == {ApprovalEvent(i) : i \in ItemsOf(o)}
SettlementOriginals(o) ==
  {SettlementEvent(s) : s \in {settlementOf[i] : i \in ItemsOf(o)} \ {None}}

\* Faulty: the payments, the approvals or the settlements are forgotten.
RefundJournalsNoPayments(o) ==
  {e \in ApprovalOriginals(o) \cup SettlementOriginals(o) : Original(e)}
RefundJournalsNoApprovals(o) ==
  {e \in PaymentOriginals(o) \cup SettlementOriginals(o) : Original(e)}
RefundJournalsNoSettlements(o) ==
  {e \in PaymentOriginals(o) \cup ApprovalOriginals(o) : Original(e)}

\* The journals that refunding o adds: a reversal of every original journal of
\* its paid payments, its approved lines and the settlements of its lines, and
\* a deduction of what the rider earned.
RefundJournals(o) ==
  {e \in PaymentOriginals(o) \cup ApprovalOriginals(o) \cup SettlementOriginals(o) :
     Original(e)}
    \cup (IF Earned(o) THEN {DeductionEvent(o)} ELSE {})

\* Faulty: the refund takes the total off, or nothing.
PaidAfterRefundTotal(o) == paid[o] - Total[o]
PaidAfterRefundKept(o) == paid[o]

\* What the refund leaves in paid_minor.
PaidAfterRefund(o) == 0

\* change_order_status to "refunded", with _reverse_order_finance_postings.
RefundOrder(o) ==
  /\ status[o] \in {"delivered", "returned"}
  /\ RefundJournals(o) # {} => MayPost
  /\ Earned(o) => active[collection[o].rider]
  /\ status' = [status EXCEPT ![o] = "refunded"]
  /\ payment' = [p \in Payments |-> IF payment[p].order = o /\ payment[p].status = "paid"
                                    THEN [payment[p] EXCEPT !.status = "refunded"]
                                    ELSE payment[p]]
  /\ finance' = [i \in Items |->
                   IF OrderOf[i] = o /\ finance[i] \in {"eligible", "approved", "paid"}
                   THEN "reversed"
                   ELSE finance[i]]
  /\ chain' = AddJournals(RefundJournals(o))
  /\ paid' = [paid EXCEPT ![o] = PaidAfterRefund(o)]
  /\ UNCHANGED <<settlementOf, deliveryVars, officeVars>>

-----------------------------------------------------------------------------
(* Delivery and the cash of the rider. *)

\* create_assignment: an order has at most one assignment, ever.
CreateAssignment(o, r) ==
  /\ status[o] \in {"ready", "dispatched"}
  /\ assignment[o].status = "none"
  /\ active[r]
  /\ assignment' = [assignment EXCEPT ![o] = [status |-> "assigned", rider |-> r]]
  /\ UNCHANGED <<orderVars, vendorVars, collection, chain, officeVars>>

\* reassign_assignment: the status is left as it is, "failed" included.
ReassignAssignment(o, r) ==
  /\ assignment[o].status \notin {"none", "delivered", "cancelled"}
  /\ active[r]
  /\ assignment' = [assignment EXCEPT ![o].rider = r]
  /\ UNCHANGED <<orderVars, vendorVars, collection, chain, officeVars>>

\* change_assignment_status, by the rider of the assignment.  The order itself
\* keeps its status.
ChangeAssignmentStatus(o, target) ==
  /\ assignment[o].status # "none"
  /\ active[assignment[o].rider]
  /\ target \in DeliveryTransitions[assignment[o].status]
  /\ assignment' = [assignment EXCEPT ![o].status = target]
  /\ finance' = IF target = "delivered" THEN Refreshed(o, paid[o], TRUE) ELSE finance
  /\ UNCHANGED <<orderVars, settlementOf, collection, chain, officeVars>>

\* submit_cod_collection, by the rider of the assignment.
SubmitCod(o, amount) ==
  /\ Delivered(o)
  /\ active[assignment[o].rider]
  /\ Total[o] - paid[o] > 0
  /\ collection[o].status = "none"
  /\ collection' = [collection EXCEPT ![o] = [status |-> "submitted",
                                              rider |-> assignment[o].rider,
                                              collected |-> amount, accepted |-> 0]]
  /\ UNCHANGED <<orderVars, vendorVars, assignment, chain, officeVars>>

\* reconcile_cod_collection, rejected.
RejectCod(o) ==
  /\ collection[o].status = "submitted"
  /\ collection' = [collection EXCEPT ![o].status = "rejected"]
  /\ UNCHANGED <<orderVars, vendorVars, assignment, chain, officeVars>>

\* reconcile_cod_collection, accepted: the payment is recorded, the rider earns
\* the fee of the profile, and the lines of the order are refreshed.
ReconcileCod(o, p, amount) ==
  /\ collection[o].status = "submitted"
  /\ amount <= Total[o] - paid[o]
  /\ AddPayment(p, o, amount, "paid", collection[o].rider)
  /\ collection' = [collection EXCEPT ![o].status = "reconciled", ![o].accepted = amount]
  /\ chain' = AddJournals({PaymentEvent(p)} \cup
                 (IF Fee[collection[o].rider] > 0 THEN {EarningEvent(o)} ELSE {}))
  /\ UNCHANGED <<status, settlementOf, assignment, officeVars>>

-----------------------------------------------------------------------------
(* Finance review, settlement and the office. *)

\* decide_vendor_item, approved.  A line with nothing payable cannot be posted.
ApproveVendorItem(i) ==
  /\ finance[i] = "eligible"
  /\ MayPost
  /\ Payable[i] > 0
  /\ finance' = [finance EXCEPT ![i] = "approved"]
  /\ chain' = AddJournals({ApprovalEvent(i)})
  /\ UNCHANGED <<orderVars, settlementOf, deliveryVars, officeVars>>

\* decide_vendor_item, rejected.
RejectVendorItem(i) ==
  /\ finance[i] = "eligible"
  /\ finance' = [finance EXCEPT ![i] = "rejected"]
  /\ UNCHANGED <<orderVars, settlementOf, chain, deliveryVars, officeVars>>

\* Faulty: takes lines finance has not decided on.
UnsettledUnapproved(v) == {i \in Items : /\ VendorOf[i] = v
                                         /\ settlementOf[i] = None
                                         /\ finance[i] \in {"eligible", "approved"}}

\* The lines create_vendor_settlement finds for the vendor.
Unsettled(v) == {i \in Items : /\ VendorOf[i] = v
                               /\ settlementOf[i] = None
                               /\ finance[i] = "approved"}

\* create_vendor_settlement with post_vendor_settlement_entry: "allocated" and
\* the draft status of the settlement never outlive the call.  The period of
\* the request (created_at) may leave out any of the lines.
CreateVendorSettlement(s, v, batch) ==
  /\ SettledItems(s) = {}
  /\ batch # {}
  /\ batch \subseteq Unsettled(v)
  /\ SumFunctionOnSet(Payable, batch) > 0
  /\ MayPost
  /\ settlementOf' = [i \in Items |-> IF i \in batch THEN s ELSE settlementOf[i]]
  /\ finance' = [i \in Items |-> IF i \in batch THEN "paid" ELSE finance[i]]
  /\ chain' = AddJournals({SettlementEvent(s)})
  /\ UNCHANGED <<orderVars, deliveryVars, officeVars>>

\* reverse_journal through the ledger API, on the journal the chain ends with.
ReverseJournal(e) ==
  /\ e.kind \in Correctable
  /\ chain[e] \in 1..(MaxChain - 1)
  /\ MayPost
  /\ chain' = AddJournals({e})
  /\ UNCHANGED <<orderVars, vendorVars, deliveryVars, officeVars>>

\* set_period_status.
SetPeriodStatus(st) ==
  /\ period = "closed" => st = "closed"
  /\ period' = st
  /\ UNCHANGED <<orderVars, vendorVars, deliveryVars, chain, active>>

\* An administrator disables or enables the account of a rider.
SetRiderActive(r, on) ==
  /\ active' = [active EXCEPT ![r] = on]
  /\ UNCHANGED <<orderVars, vendorVars, deliveryVars, chain, period>>

-----------------------------------------------------------------------------
Init ==
  /\ status = [o \in Orders |-> "none"]
  /\ paid = [o \in Orders |-> 0]
  /\ payment = [p \in Payments |-> [order |-> None, amount |-> 0, status |-> "none",
                                    rider |-> None]]
  /\ assignment = [o \in Orders |-> [status |-> "none", rider |-> None]]
  /\ collection = [o \in Orders |-> [status |-> "none", rider |-> None,
                                     collected |-> 0, accepted |-> 0]]
  /\ finance = [i \in Items |-> "none"]
  /\ settlementOf = [i \in Items |-> None]
  /\ chain = [e \in Events |-> 0]
  /\ active = [r \in Riders |-> TRUE]
  /\ period = "open"

OrderStep ==
  \E o \in Orders :
    \/ CreateOrder(o)
    \/ \E target \in OrderStatuses : ChangeOrderStatus(o, target)
    \/ RefundOrder(o)
    \/ \E p \in Payments, amount \in PayAmounts, st \in PayStatuses :
         RecordPayment(p, o, amount, st)

DeliveryStep ==
  \E o \in Orders :
    \/ \E r \in Riders : CreateAssignment(o, r) \/ ReassignAssignment(o, r)
    \/ \E target \in DeliveryStatuses : ChangeAssignmentStatus(o, target)
    \/ \E amount \in CodAmounts : SubmitCod(o, amount)
    \/ RejectCod(o)
    \/ \E p \in Payments, amount \in CodAmounts : ReconcileCod(o, p, amount)

FinanceStep ==
  \/ \E i \in Items : ApproveVendorItem(i) \/ RejectVendorItem(i)
  \/ \E s \in Settlements, v \in Vendors : \E batch \in SUBSET Unsettled(v) :
       CreateVendorSettlement(s, v, batch)
  \/ \E e \in Events : ReverseJournal(e)

OfficeStep ==
  \/ \E st \in PeriodStatuses : SetPeriodStatus(st)
  \/ \E r \in Riders, on \in BOOLEAN : SetRiderActive(r, on)

Next == OrderStep \/ DeliveryStep \/ FinanceStep \/ OfficeStep

Spec == Init /\ [][Next]_vars

-----------------------------------------------------------------------------
(* Properties. *)

PaymentRow == [order : Orders \cup {None}, amount : Nat,
               status : PaymentStatuses \cup {"none"}, rider : Riders \cup {None}]
AssignmentRow == [status : DeliveryStatuses \cup {"none"}, rider : Riders \cup {None}]
CollectionRow == [status : CodStatuses \cup {"none"}, rider : Riders \cup {None},
                  collected : Nat, accepted : Nat]

\* Every variable has the type its column or row has in the database.
TypeOK ==
  /\ status \in [Orders -> OrderStatuses \cup {"none"}]
  /\ paid \in [Orders -> Nat]
  /\ payment \in [Payments -> PaymentRow]
  /\ assignment \in [Orders -> AssignmentRow]
  /\ collection \in [Orders -> CollectionRow]
  /\ finance \in [Items -> FinanceStatuses \cup {"none"}]
  /\ settlementOf \in [Items -> Settlements \cup {None}]
  /\ chain \in [Events -> Nat]
  /\ active \in [Riders -> BOOLEAN]
  /\ period \in PeriodStatuses

\* paid_minor, which record_payment adds to and a refund resets, is the sum of
\* the payments of the order that have the status "paid", whichever way they
\* came in (API, COD reconciliation) and whatever was refunded since.
PaidIsSumOfPayments ==
  \A o \in Orders : paid[o] = SumFunctionOnSet(Amounts, PaidPayments(o))

\* The payments of an order never exceed its total, the cash a rider collected
\* while somebody else paid the order included.
NeverOverpaid == \A o \in Orders : paid[o] <= Total[o]

\* A line that is eligible, approved or paid out belongs to an order that was
\* delivered and is fully paid: neither a later status of the order nor another
\* line's refund takes that away while the line keeps its standing.
SaleBacked ==
  \A i \in Items : finance[i] \in {"eligible", "approved", "paid"} =>
    Delivered(OrderOf[i]) /\ paid[OrderOf[i]] >= Total[OrderOf[i]]

\* The review stage of a line and the ledger tell the same story: a line that
\* was never approved has no payable posted and is in no settlement, a line
\* that was has one, a paid line is in a settlement that was posted, for its
\* own vendor, and an approved line waits for one.
ReviewMatchesLedger ==
  \A i \in Items :
    /\ finance[i] \in {"none", "pending", "eligible", "rejected"} =>
         chain[ApprovalEvent(i)] = 0 /\ settlementOf[i] = None
    /\ finance[i] \in {"approved", "paid"} => chain[ApprovalEvent(i)] >= 1
    /\ finance[i] = "approved" => settlementOf[i] = None
    /\ finance[i] = "paid" => settlementOf[i] # None
    /\ settlementOf[i] # None =>
         /\ chain[SettlementEvent(settlementOf[i])] >= 1
         /\ \A j \in SettledItems(settlementOf[i]) : VendorOf[j] = VendorOf[i]

\* A refunded order leaves none of its original journals standing: no payment
\* of it counts as paid, and the postings of its payments, of the approvals of
\* its lines and of their settlements were all reversed, by the refund or by
\* hand before it.
RefundReversesOriginals ==
  \A o \in Orders : status[o] = "refunded" =>
    /\ \A p \in PaymentsOf(o) : payment[p].status # "paid" /\ ~Original(PaymentEvent(p))
    /\ \A i \in ItemsOf(o) :
         /\ ~Original(ApprovalEvent(i))
         /\ settlementOf[i] # None => ~Original(SettlementEvent(settlementOf[i]))
    /\ Earned(o) => chain[DeductionEvent(o)] >= 1

\* A refunded order counts for nothing in the accounts: none of its payments,
\* approvals and settlements stands, and what the rider earned was deducted.
RefundedNetsToZero ==
  \A o \in Orders : status[o] = "refunded" =>
    /\ \A p \in PaymentsOf(o) : ~Stands(PaymentEvent(p))
    /\ \A i \in ItemsOf(o) : /\ ~Stands(ApprovalEvent(i))
                             /\ settlementOf[i] # None => ~Stands(SettlementEvent(settlementOf[i]))
    /\ Stands(EarningEvent(o)) <=> Stands(DeductionEvent(o))

\* The company never pays a vendor more than it approved: account 2000 of a
\* vendor is never in debit, whatever orders of a settlement are refunded.
VendorNeverOverdrawn == \A v \in Vendors : VendorPayable(v) >= 0

\* A refund is final: the order takes no payment, its lines keep their stage,
\* and only a reversal by hand touches its postings.
RefundIsFinal ==
  [][\A o \in Orders : status[o] = "refunded" =>
       /\ status'[o] = "refunded"
       /\ paid'[o] = 0
       /\ PaymentsOf(o)' = PaymentsOf(o)
       /\ \A i \in ItemsOf(o) : /\ finance'[i] = finance[i]
                                /\ settlementOf'[i] = settlementOf[i]]_vars

\* The review of the lines implements the promise made to finance.
Promise == INSTANCE VendorSale WITH
  Sales <- Items,
  delivered <- [i \in Items |-> Delivered(OrderOf[i])],
  funded <- [i \in Items |-> paid[OrderOf[i]] >= Total[OrderOf[i]]],
  refunded <- [i \in Items |-> status[OrderOf[i]] = "refunded"],
  stage <- finance
ImplementsVendorSale == Promise!Spec

-----------------------------------------------------------------------------
(* What comments and documents say that the code does not do. *)

\* "This stops an uncollected, returned, or disputed COD order from inflating
\* vendor payables" (accounting_services.py): no payable is posted for an order
\* that was returned.  decide_vendor_item does not look at the order again once
\* the line is eligible.
ApprovalOfLiveSale ==
  [][\A i \in Items : chain[ApprovalEvent(i)] = 0 /\ chain'[ApprovalEvent(i)] = 1 =>
       status[OrderOf[i]] # "returned"]_vars

\* "If finance rejects a collection, read the reason [...] before submitting a
\* correction": a rider whose collection was rejected can report the cash
\* again while the order is still unpaid.  One collection per assignment is all
\* the code accepts, rejected or not.
StillOwed(o) == /\ Total[o] - paid[o] > 0
                /\ active[assignment[o].rider]
                /\ status[o] \notin {"returned", "cancelled", "refunded"}
RejectedCodIsCorrected ==
  \A o \in Orders :
    collection[o].status = "rejected" /\ StillOwed(o)
      ~> collection[o].status # "rejected" \/ ~StillOwed(o)

\* Riders keep reporting the cash they hold.
RiderSubmits(o) == \E amount \in CodAmounts : SubmitCod(o, amount)
FairSpec == Spec /\ \A o \in Orders : WF_vars(RiderSubmits(o))
=============================================================================
