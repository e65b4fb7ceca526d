------------------------- MODULE OrderFinanceProofs -------------------------
(***************************************************************************)
(* Theorems of OrderFinance, for every set of orders, lines, vendors,      *)
(* riders, payments and settlements and every price.  SaleBacked,          *)
(* ReviewMatchesLedger and RefundReversesOriginals are not inductive on    *)
(* their own: Housekeeping adds what they need about rows that do not      *)
(* exist yet and about orders that are already refunded.                   *)
(***************************************************************************)
EXTENDS OrderFinance, SumLemmas, TLAPS

\* What the payments, lines and ledger of an order say before it exists and
\* after it is refunded.
Housekeeping ==
  /\ \A i \in Items : status[OrderOf[i]] = "none" <=> finance[i] = "none"
  /\ \A p \in Payments : payment[p].status = "none" => payment[p].order = None
  /\ \A p \in Payments : payment[p].status # "paid" => ~Original(PaymentEvent(p))
  /\ \A o \in Orders : status[o] = "refunded" => paid[o] = 0
  /\ \A i \in Items : status[OrderOf[i]] = "refunded" =>
       finance[i] \notin {"eligible", "approved", "paid"}

\* The inductive invariant.
Inv == /\ TypeOK
       /\ Housekeeping
       /\ SaleBacked
       /\ ReviewMatchesLedger
       /\ RefundReversesOriginals

--------------------
(* Facts about events and journals. *)

\* Every payment, approval, settlement, earning and deduction is an event.
LEMMA EventTypes ==
  /\ \A p \in Payments : PaymentEvent(p) \in Events
  /\ \A i \in Items : ApprovalEvent(i) \in Events
  /\ \A s \in Settlements : SettlementEvent(s) \in Events
  /\ \A o \in Orders : EarningEvent(o) \in Events /\ DeductionEvent(o) \in Events
BY DEF Events, PaymentEvent, ApprovalEvent, SettlementEvent, EarningEvent, DeductionEvent

\* Events of different rows are different events.
LEMMA EventsDiffer ==
  ASSUME NEW x, NEW y
  PROVE  /\ PaymentEvent(x) = PaymentEvent(y) => x = y
         /\ ApprovalEvent(x) = ApprovalEvent(y) => x = y
         /\ SettlementEvent(x) = SettlementEvent(y) => x = y
         /\ PaymentEvent(x) # ApprovalEvent(y)
         /\ PaymentEvent(x) # SettlementEvent(y)
         /\ ApprovalEvent(x) # SettlementEvent(y)
         /\ EarningEvent(x) # PaymentEvent(y)
         /\ EarningEvent(x) # ApprovalEvent(y)
         /\ EarningEvent(x) # SettlementEvent(y)
         /\ DeductionEvent(x) # PaymentEvent(y)
         /\ DeductionEvent(x) # ApprovalEvent(y)
         /\ DeductionEvent(x) # SettlementEvent(y)
BY DEF PaymentEvent, ApprovalEvent, SettlementEvent, EarningEvent, DeductionEvent

\* AddJournals lengthens the chains it is given and no other.
LEMMA JournalsAdded ==
  ASSUME TypeOK, NEW E, chain' = AddJournals(E)
  PROVE  /\ chain' \in [Events -> Nat]
         /\ \A e \in Events : chain'[e] = IF e \in E THEN chain[e] + 1 ELSE chain[e]
BY DEF TypeOK, AddJournals

\* The lines Refreshed changes become eligible: they were pending, and their
\* order is delivered, fully paid and still going.
LEMMA RefreshedLines ==
  ASSUME TypeOK, NEW o \in Orders, NEW m \in Nat, NEW d \in BOOLEAN
  PROVE  /\ Refreshed(o, m, d) \in [Items -> FinanceStatuses \cup {"none"}]
         /\ \A i \in Items :
              \/ Refreshed(o, m, d)[i] = finance[i]
              \/ /\ OrderOf[i] = o /\ finance[i] = "pending"
                 /\ Refreshed(o, m, d)[i] = "eligible"
                 /\ d /\ m >= Total[o]
                 /\ status[o] \notin {"cancelled", "returned", "refunded"}
BY DEF TypeOK, Refreshed, FinanceStatuses

\* A row keeps its type when a call sets columns of it.
LEMMA PaymentRows ==
  /\ \A r \in PaymentRow : [r EXCEPT !.status = "refunded"] \in PaymentRow
  /\ \A o \in Orders, amount \in Nat, st \in PaymentStatuses, r \in Riders \cup {None} :
       [order |-> o, amount |-> amount, status |-> st, rider |-> r] \in PaymentRow
BY DEF PaymentRow, PaymentStatuses

LEMMA AssignmentRows ==
  /\ \A r \in AssignmentRow, st \in DeliveryStatuses : [r EXCEPT !.status = st] \in AssignmentRow
  /\ \A r \in AssignmentRow, x \in Riders : [r EXCEPT !.rider = x] \in AssignmentRow
  /\ \A r \in Riders : [status |-> "assigned", rider |-> r] \in AssignmentRow
  /\ \A r \in AssignmentRow : r.rider \in Riders \cup {None}
BY DEF AssignmentRow, DeliveryStatuses

LEMMA CollectionRows ==
  /\ \A r \in CollectionRow : [r EXCEPT !.status = "rejected"] \in CollectionRow
  /\ \A r \in CollectionRow, a \in Nat :
       [[r EXCEPT !.status = "reconciled"] EXCEPT !.accepted = a] \in CollectionRow
  /\ \A a \in Nat, r \in Riders \cup {None} :
       [status |-> "submitted", rider |-> r, collected |-> a, accepted |-> 0] \in CollectionRow
  /\ \A r \in CollectionRow : r.rider \in Riders \cup {None}
BY DEF CollectionRow, CodStatuses

--------------------
(* Types. *)

\* Every action keeps the types of the columns it writes.
LEMMA TypeStep == TypeOK /\ [Next]_vars => TypeOK'
<1> SUFFICES ASSUME TypeOK, Next PROVE TypeOK'
  <2>1. CASE UNCHANGED vars BY <2>1 DEF TypeOK, vars
  <2> QED BY <2>1
<1> USE ConstantTypes, NullIsNoRow DEF TypeOK, orderVars, vendorVars, deliveryVars, officeVars
<1>1. ASSUME NEW o \in Orders, CreateOrder(o) PROVE TypeOK'
  BY <1>1 DEF CreateOrder, OrderStatuses, FinanceStatuses
<1>2. ASSUME NEW o \in Orders, NEW target \in OrderStatuses, ChangeOrderStatus(o, target)
      PROVE  TypeOK'
  BY <1>2 DEF ChangeOrderStatus
<1>3. ASSUME NEW o \in Orders, RefundOrder(o) PROVE TypeOK'
  <2>1. chain' \in [Events -> Nat] BY <1>3, JournalsAdded DEF RefundOrder
  <2>2. payment' \in [Payments -> PaymentRow] BY <1>3, PaymentRows DEF RefundOrder
  <2> QED BY <1>3, <2>1, <2>2 DEF RefundOrder, PaidAfterRefund, OrderStatuses, FinanceStatuses
<1>4. ASSUME NEW p \in Payments, NEW o \in Orders, NEW amount \in Nat, NEW st \in PaymentStatuses,
             NEW r \in Riders \cup {None}, AddPayment(p, o, amount, st, r)
      PROVE  /\ payment' \in [Payments -> PaymentRow]
             /\ paid' \in [Orders -> Nat]
             /\ finance' \in [Items -> FinanceStatuses \cup {"none"}]
  <2>1. Delivered(o) \in BOOLEAN BY DEF Delivered
  <2>2. paid[o] + amount \in Nat OBVIOUS
  <2>3. Refreshed(o, paid[o] + amount, Delivered(o)) \in [Items -> FinanceStatuses \cup {"none"}]
    BY <2>1, <2>2, RefreshedLines
  <2> QED BY <1>4, <2>2, <2>3, PaymentRows DEF AddPayment
<1>5. ASSUME NEW p \in Payments, NEW o \in Orders, NEW amount \in PayAmounts, NEW st \in PayStatuses,
             RecordPayment(p, o, amount, st)
      PROVE  TypeOK'
  <2>1. chain' \in [Events -> Nat] BY <1>5, JournalsAdded DEF RecordPayment
  <2> QED BY <1>5, <1>4, <2>1 DEF RecordPayment
<1>6. ASSUME NEW o \in Orders, NEW r \in Riders, CreateAssignment(o, r) PROVE TypeOK'
  BY <1>6, AssignmentRows DEF CreateAssignment
<1>7. ASSUME NEW o \in Orders, NEW r \in Riders, ReassignAssignment(o, r) PROVE TypeOK'
  BY <1>7, AssignmentRows DEF ReassignAssignment
<1>8. ASSUME NEW o \in Orders, NEW target \in DeliveryStatuses, ChangeAssignmentStatus(o, target)
      PROVE  TypeOK'
  <2>1. finance' \in [Items -> FinanceStatuses \cup {"none"}]
    <3>1. Refreshed(o, paid[o], TRUE) \in [Items -> FinanceStatuses \cup {"none"}]
      <4>1. paid[o] \in Nat /\ TRUE \in BOOLEAN OBVIOUS
      <4> QED BY <4>1, RefreshedLines
    <3> QED BY <1>8, <3>1 DEF ChangeAssignmentStatus
  <2>2. assignment' \in [Orders -> AssignmentRow] BY <1>8, AssignmentRows DEF ChangeAssignmentStatus
  <2> QED BY <1>8, <2>1, <2>2 DEF ChangeAssignmentStatus
<1>9. ASSUME NEW o \in Orders, NEW amount \in CodAmounts, SubmitCod(o, amount) PROVE TypeOK'
  BY <1>9, AssignmentRows, CollectionRows DEF SubmitCod
<1>10. ASSUME NEW o \in Orders, RejectCod(o) PROVE TypeOK' BY <1>10, CollectionRows DEF RejectCod
<1>11. ASSUME NEW o \in Orders, NEW p \in Payments, NEW amount \in CodAmounts,
              ReconcileCod(o, p, amount)
       PROVE  TypeOK'
  <2>1. chain' \in [Events -> Nat] BY <1>11, JournalsAdded DEF ReconcileCod
  <2>2. "paid" \in PaymentStatuses /\ amount \in Nat /\ collection[o].rider \in Riders \cup {None}
    BY CollectionRows DEF PaymentStatuses
  <2>3. collection' \in [Orders -> CollectionRow] BY <1>11, <2>2, CollectionRows DEF ReconcileCod
  <2>4. AddPayment(p, o, amount, "paid", collection[o].rider) BY <1>11 DEF ReconcileCod
  <2> QED BY <1>11, <1>4, <2>1, <2>2, <2>3, <2>4 DEF ReconcileCod
<1>12. ASSUME NEW i \in Items, ApproveVendorItem(i) PROVE TypeOK'
  <2>1. chain' \in [Events -> Nat] BY <1>12, JournalsAdded DEF ApproveVendorItem
  <2> QED BY <1>12, <2>1 DEF ApproveVendorItem, FinanceStatuses
<1>13. ASSUME NEW i \in Items, RejectVendorItem(i) PROVE TypeOK'
  BY <1>13 DEF RejectVendorItem, FinanceStatuses
<1>14. ASSUME NEW s \in Settlements, NEW v \in Vendors, NEW batch \in SUBSET Unsettled(v),
              CreateVendorSettlement(s, v, batch)
       PROVE  TypeOK'
  <2>1. chain' \in [Events -> Nat] BY <1>14, JournalsAdded DEF CreateVendorSettlement
  <2> QED BY <1>14, <2>1 DEF CreateVendorSettlement, FinanceStatuses
<1>15. ASSUME NEW e \in Events, ReverseJournal(e) PROVE TypeOK'
  <2>1. chain' \in [Events -> Nat] BY <1>15, JournalsAdded DEF ReverseJournal
  <2> QED BY <1>15, <2>1 DEF ReverseJournal
<1>16. ASSUME NEW st \in PeriodStatuses, SetPeriodStatus(st) PROVE TypeOK'
  BY <1>16 DEF SetPeriodStatus
<1>17. ASSUME NEW r \in Riders, NEW on \in BOOLEAN, SetRiderActive(r, on) PROVE TypeOK'
  BY <1>17 DEF SetRiderActive
<1>18. OrderStep => TypeOK' BY <1>1, <1>2, <1>3, <1>5 DEF OrderStep
<1>19. DeliveryStep => TypeOK' BY <1>6, <1>7, <1>8, <1>9, <1>10, <1>11 DEF DeliveryStep
<1>20. FinanceStep => TypeOK' BY <1>12, <1>13, <1>14, <1>15 DEF FinanceStep
<1>21. OfficeStep => TypeOK' BY <1>16, <1>17 DEF OfficeStep
<1> QED BY <1>18, <1>19, <1>20, <1>21 DEF Next

\* Every state has the types of the database.
THEOREM TypeCorrect == Spec => []TypeOK
<1>1. Init => TypeOK
  BY ConstantTypes, NullIsNoRow
  DEF Init, TypeOK, PaymentRow, AssignmentRow, CollectionRow, PeriodStatuses
<1>2. TypeOK /\ [Next]_vars => TypeOK' BY TypeStep
<1> QED BY <1>1, <1>2, PTL DEF Spec

--------------------
(* Payments never exceed the total. *)

\* Only a payment adds to what is paid, up to the total; a refund clears it.
THEOREM PaymentsCapped == Spec => []NeverOverpaid
<1>1. Init => NeverOverpaid BY ConstantTypes DEF Init, NeverOverpaid
<1>2. TypeOK /\ NeverOverpaid /\ [Next]_vars => NeverOverpaid'
  <2> SUFFICES ASSUME TypeOK, NeverOverpaid, [Next]_vars PROVE NeverOverpaid' OBVIOUS
  <2> USE ConstantTypes
  <2>1. ASSUME NEW p \in Payments, NEW o \in Orders, NEW amount, NEW r,
               AddPayment(p, o, amount, "paid", r)
        PROVE  NeverOverpaid'
    BY <2>1 DEF TypeOK, AddPayment, AcceptsPayment, NeverOverpaid
  <2>2. ASSUME NEW p \in Payments, NEW o \in Orders, NEW amount, NEW st,
               RecordPayment(p, o, amount, st)
        PROVE  NeverOverpaid'
    <3>1. CASE st = "paid" BY <2>1, <2>2, <3>1 DEF RecordPayment
    <3>2. CASE st # "paid" BY <2>2, <3>2 DEF RecordPayment, AddPayment, NeverOverpaid
    <3> QED BY <3>1, <3>2
  <2>3. ASSUME NEW p \in Payments, NEW o \in Orders, NEW amount, ReconcileCod(o, p, amount)
        PROVE  NeverOverpaid'
    BY <2>1, <2>3 DEF ReconcileCod
  <2>4. ASSUME NEW o \in Orders, RefundOrder(o) PROVE NeverOverpaid'
    BY <2>4 DEF TypeOK, RefundOrder, PaidAfterRefund, NeverOverpaid
  <2>5. CASE UNCHANGED paid BY <2>5 DEF NeverOverpaid
  <2>6. Next => \/ UNCHANGED paid
                \/ \E o \in Orders : RefundOrder(o)
                \/ \E p \in Payments, o \in Orders, amount \in PayAmounts, st \in PayStatuses :
                     RecordPayment(p, o, amount, st)
                \/ \E p \in Payments, o \in Orders, amount \in CodAmounts : ReconcileCod(o, p, amount)
    BY DEF Next, OrderStep, DeliveryStep, FinanceStep, OfficeStep, orderVars,
           CreateOrder, ChangeOrderStatus, CreateAssignment, ReassignAssignment,
           ChangeAssignmentStatus, SubmitCod, RejectCod, ApproveVendorItem, RejectVendorItem,
           CreateVendorSettlement, ReverseJournal, SetPeriodStatus, SetRiderActive
  <2>7. UNCHANGED vars => UNCHANGED paid BY DEF vars
  <2> QED BY <2>2, <2>3, <2>4, <2>5, <2>6, <2>7
<1> QED BY <1>1, <1>2, TypeCorrect, PTL DEF Spec

--------------------
(* The inductive invariant. *)

\* No journal, payment or line exists before the first call.
LEMMA InvInit == Init => Inv
<1> SUFFICES ASSUME Init PROVE Inv OBVIOUS
<1>1. TypeOK
  BY ConstantTypes, NullIsNoRow
  DEF Init, TypeOK, PaymentRow, AssignmentRow, CollectionRow, PeriodStatuses
<1>2. Housekeeping BY ConstantTypes, EventTypes DEF Init, Housekeeping, Original
<1>3. SaleBacked /\ ReviewMatchesLedger /\ RefundReversesOriginals
  BY ConstantTypes, EventTypes DEF Init, SaleBacked, ReviewMatchesLedger, RefundReversesOriginals
<1> QED BY <1>1, <1>2, <1>3 DEF Inv

\* A step that leaves orders, payments, lines and journals alone and takes no
\* delivery back keeps the invariant.
LEMMA QuietStep ==
  ASSUME Inv, TypeOK',
         UNCHANGED <<status, paid, payment, finance, settlementOf, chain>>,
         \A o \in Orders : Delivered(o) => Delivered(o)'
  PROVE  Inv'
<1> USE ConstantTypes DEF Inv
<1>1. Housekeeping' BY DEF Housekeeping, Original
<1>2. SaleBacked' BY DEF SaleBacked
<1>3. ReviewMatchesLedger' BY DEF ReviewMatchesLedger, SettledItems
<1>4. RefundReversesOriginals' BY DEF RefundReversesOriginals, PaymentsOf, ItemsOf, Original, Earned
<1> QED BY <1>1, <1>2, <1>3, <1>4

\* A payment, recorded by staff or by the reconciliation of the rider's cash.
LEMMA PaymentStep ==
  ASSUME Inv, TypeOK', NEW p \in Payments, NEW o \in Orders, NEW amount \in Nat,
         NEW st \in PaymentStatuses, NEW r, AddPayment(p, o, amount, st, r),
         NEW E \in SUBSET {PaymentEvent(p), EarningEvent(o)}, st # "paid" => E = {},
         chain' = AddJournals(E), UNCHANGED <<status, settlementOf, assignment>>
  PROVE  Inv'
<1> USE ConstantTypes DEF Inv
<1>1. \A e \in Events : chain'[e] = IF e \in E THEN chain[e] + 1 ELSE chain[e] BY JournalsAdded
<1>2. /\ \A i \in Items : chain'[ApprovalEvent(i)] = chain[ApprovalEvent(i)]
      /\ \A s \in Settlements : chain'[SettlementEvent(s)] = chain[SettlementEvent(s)]
      /\ \A x \in Orders : chain'[DeductionEvent(x)] >= chain[DeductionEvent(x)]
      /\ \A q \in Payments : q # p => chain'[PaymentEvent(q)] = chain[PaymentEvent(q)]
      /\ st # "paid" => chain' = chain
  <2>1. \A e \in Events : chain'[e] >= chain[e] BY <1>1 DEF TypeOK
  <2>2. \A e \in Events : e \notin E => chain'[e] = chain[e] BY <1>1
  <2>3. \A i \in Items : ApprovalEvent(i) \notin E BY EventsDiffer
  <2>4. \A s \in Settlements : SettlementEvent(s) \notin E BY EventsDiffer
  <2>5. \A q \in Payments : q # p => PaymentEvent(q) \notin E BY EventsDiffer
  <2>6. st # "paid" => chain' = chain BY DEF TypeOK, AddJournals
  <2> QED BY <2>1, <2>2, <2>3, <2>4, <2>5, <2>6, EventTypes
<1>3. /\ status[o] \notin {"none", "cancelled", "refunded"}
      /\ payment[p].status = "none"
      /\ payment' = [payment EXCEPT ![p] = [order |-> o, amount |-> amount, status |-> st,
                                            rider |-> r]]
  BY DEF AddPayment, AcceptsPayment
<1>4. /\ paid[o] + amount \in Nat
      /\ Delivered(o) \in BOOLEAN
      /\ \/ UNCHANGED <<paid, finance>>
         \/ /\ finance' = Refreshed(o, paid[o] + amount, Delivered(o))
            /\ paid' = [paid EXCEPT ![o] = @ + amount]
  BY DEF AddPayment, TypeOK, Delivered
<1>5. \A i \in Items :
        \/ finance'[i] = finance[i]
        \/ /\ OrderOf[i] = o /\ finance[i] = "pending" /\ finance'[i] = "eligible"
           /\ Delivered(o) /\ paid'[o] >= Total[o]
  BY <1>4, RefreshedLines DEF TypeOK
<1>6. /\ \A x \in Orders : paid'[x] >= paid[x]
      /\ \A x \in Orders : status[x] = "refunded" => paid'[x] = paid[x]
  BY <1>3, <1>4 DEF TypeOK
<1>7. Housekeeping'
  <2>1. /\ \A q \in Payments : payment'[q].status = "none" => payment'[q].order = None
        /\ \A q \in Payments : payment'[q].status # "paid" => ~Original(PaymentEvent(q))'
    <3> SUFFICES ASSUME NEW q \in Payments
                 PROVE  /\ payment'[q].status = "none" => payment'[q].order = None
                        /\ payment'[q].status # "paid" => ~Original(PaymentEvent(q))'
      OBVIOUS
    <3>1. CASE q = p
      <4>1. payment'[q].status = st BY <1>3, <3>1 DEF TypeOK
      <4>2. st # "none" BY DEF PaymentStatuses
      <4> QED BY <1>2, <1>3, <3>1, <4>1, <4>2 DEF Housekeeping, Original
    <3>2. CASE q # p
      <4>1. payment'[q] = payment[q] BY <1>3, <3>2 DEF TypeOK
      <4> QED BY <1>2, <3>2, <4>1 DEF Housekeeping, Original
    <3> QED BY <3>1, <3>2
  <2>2. \A i \in Items : status'[OrderOf[i]] = "none" <=> finance'[i] = "none"
    BY <1>3, <1>5 DEF Housekeeping
  <2>3. /\ \A x \in Orders : status'[x] = "refunded" => paid'[x] = 0
        /\ \A i \in Items : status'[OrderOf[i]] = "refunded" =>
             finance'[i] \notin {"eligible", "approved", "paid"}
    BY <1>3, <1>5, <1>6 DEF Housekeeping
  <2> QED BY <2>1, <2>2, <2>3 DEF Housekeeping
<1>8. SaleBacked'
  <2>1. \A x \in Orders : paid[x] >= Total[x] => paid'[x] >= Total[x] BY <1>6 DEF TypeOK
  <2> QED BY <1>5, <2>1 DEF SaleBacked, Delivered
<1>9. ReviewMatchesLedger'
  BY <1>2, <1>5, ConstantTypes DEF ReviewMatchesLedger, SettledItems, TypeOK
<1>10. RefundReversesOriginals'
  <2> SUFFICES ASSUME NEW x \in Orders, status[x] = "refunded"
               PROVE  (/\ \A q \in PaymentsOf(x) : payment[q].status # "paid"
                                                     /\ ~Original(PaymentEvent(q))
                       /\ \A i \in ItemsOf(x) :
                            /\ ~Original(ApprovalEvent(i))
                            /\ settlementOf[i] # None =>
                                 ~Original(SettlementEvent(settlementOf[i]))
                       /\ Earned(x) => chain[DeductionEvent(x)] >= 1)'
    BY DEF RefundReversesOriginals
  <2>1. x # o BY <1>3
  <2>2. PaymentsOf(x)' = PaymentsOf(x) /\ p \notin PaymentsOf(x)
    BY <1>3, <2>1, NullIsNoRow DEF PaymentsOf, TypeOK, Housekeeping
  <2>3. \A q \in PaymentsOf(x) : payment'[q] = payment[q] /\ q \in Payments /\ q # p
    BY <1>3, <2>2 DEF PaymentsOf, TypeOK
  <2>4. \A q \in PaymentsOf(x)' : payment'[q].status # "paid" /\ ~Original(PaymentEvent(q))'
    BY <1>2, <2>2, <2>3 DEF RefundReversesOriginals, Original
  <2>5. \A i \in ItemsOf(x)' :
          /\ ~Original(ApprovalEvent(i))'
          /\ settlementOf'[i] # None => ~Original(SettlementEvent(settlementOf[i]))'
    BY <1>2 DEF RefundReversesOriginals, ItemsOf, Original, TypeOK
  <2>6. Earned(x)' => Earned(x)
    <3>1. EarningEvent(x) # EarningEvent(o) BY <2>1 DEF EarningEvent
    <3>2. EarningEvent(x) \notin E BY <3>1, EventsDiffer
    <3> QED BY <1>1, <3>2, EventTypes DEF Earned
  <2>7. Earned(x)' => chain'[DeductionEvent(x)] >= 1
    <3>1. chain[DeductionEvent(x)] \in Nat /\ chain'[DeductionEvent(x)] \in Nat
      BY EventTypes DEF TypeOK
    <3> QED BY <1>2, <2>6, <3>1 DEF RefundReversesOriginals
  <2> QED BY <2>4, <2>5, <2>7
<1> QED BY <1>7, <1>8, <1>9, <1>10

\* A new order has no payment, no delivery and no journal yet.
LEMMA CreateOrderStep ==
  ASSUME Inv, TypeOK', NEW o \in Orders, CreateOrder(o)
  PROVE  Inv'
<1> USE ConstantTypes DEF Inv, CreateOrder, vendorVars, deliveryVars
<1>1. /\ status[o] = "none"
      /\ \A x \in Orders : status'[x] = IF x = o THEN "pending" ELSE status[x]
      /\ \A i \in Items : finance'[i] = IF OrderOf[i] = o THEN "pending" ELSE finance[i]
      /\ UNCHANGED <<paid, payment, settlementOf, chain, assignment>>
  BY DEF TypeOK
<1>2. Housekeeping' BY <1>1 DEF Housekeeping, Original
<1>3. SaleBacked' BY <1>1 DEF SaleBacked, Delivered
<1>4. ReviewMatchesLedger' BY <1>1 DEF ReviewMatchesLedger, Housekeeping, SettledItems
<1>5. RefundReversesOriginals'
  BY <1>1 DEF RefundReversesOriginals, PaymentsOf, ItemsOf, Original, Earned
<1> QED BY <1>2, <1>3, <1>4, <1>5

\* A change of status other than a refund moves no money.
LEMMA ChangeOrderStatusStep ==
  ASSUME Inv, TypeOK', NEW o \in Orders, NEW target \in OrderStatuses,
         ChangeOrderStatus(o, target)
  PROVE  Inv'
<1> USE ConstantTypes DEF Inv, ChangeOrderStatus, vendorVars, deliveryVars
<1>1. /\ status[o] # "none" /\ target \notin {"none", "refunded"}
      /\ status[o] # "refunded"
      /\ \A x \in Orders : status'[x] = IF x = o THEN target ELSE status[x]
      /\ UNCHANGED <<paid, payment, finance, settlementOf, chain, assignment>>
  BY DEF TypeOK, Transitions, OrderStatuses
<1>2. Housekeeping' BY <1>1 DEF Housekeeping, Original
<1>3. SaleBacked' BY <1>1 DEF SaleBacked, Delivered
<1>4. ReviewMatchesLedger' BY <1>1 DEF ReviewMatchesLedger, SettledItems
<1>5. RefundReversesOriginals'
  BY <1>1 DEF RefundReversesOriginals, PaymentsOf, ItemsOf, Original, Earned
<1> QED BY <1>2, <1>3, <1>4, <1>5

\* A delivery that progresses may make the lines of its order eligible.
LEMMA ChangeAssignmentStatusStep ==
  ASSUME Inv, TypeOK', NEW o \in Orders, NEW target \in DeliveryStatuses,
         ChangeAssignmentStatus(o, target)
  PROVE  Inv'
<1> USE ConstantTypes DEF Inv, orderVars
<1>1. /\ assignment[o].status # "delivered"
      /\ \A x \in Orders : assignment'[x].status = IF x = o THEN target ELSE assignment[x].status
      /\ UNCHANGED <<status, paid, payment, settlementOf, chain>>
      /\ \/ finance' = finance
         \/ target = "delivered" /\ finance' = Refreshed(o, paid[o], TRUE)
  <2>1. /\ assignment \in [Orders -> AssignmentRow]
        /\ target \in DeliveryTransitions[assignment[o].status]
        /\ assignment' = [assignment EXCEPT ![o] = [assignment[o] EXCEPT !.status = target]]
    BY DEF ChangeAssignmentStatus, TypeOK
  <2>2. assignment[o].status # "delivered" BY <2>1 DEF DeliveryTransitions
  <2>3. [assignment[o] EXCEPT !.status = target].status = target BY <2>1 DEF AssignmentRow
  <2> QED BY <2>1, <2>2, <2>3 DEF ChangeAssignmentStatus
<1>2. \A x \in Orders : Delivered(x) => Delivered(x)' BY <1>1 DEF Delivered
<1>3. CASE finance' = finance BY <1>1, <1>2, <1>3, QuietStep
<1>4. CASE target = "delivered" /\ finance' = Refreshed(o, paid[o], TRUE)
  <2>1. \A i \in Items :
          \/ finance'[i] = finance[i]
          \/ /\ OrderOf[i] = o /\ finance[i] = "pending" /\ finance'[i] = "eligible"
             /\ paid[o] >= Total[o] /\ status[o] # "refunded"
    BY <1>4 DEF Refreshed
  <2>2. Housekeeping' BY <1>1, <2>1 DEF Housekeeping, Original
  <2>3. SaleBacked'
    <3>1. Delivered(o)' BY <1>1, <1>4 DEF Delivered
    <3> QED BY <1>1, <1>2, <2>1, <3>1 DEF SaleBacked
  <2>4. ReviewMatchesLedger' BY <1>1, <2>1 DEF ReviewMatchesLedger, SettledItems
  <2>5. RefundReversesOriginals'
    BY <1>1 DEF RefundReversesOriginals, PaymentsOf, ItemsOf, Original, Earned
  <2> QED BY <2>2, <2>3, <2>4, <2>5
<1> QED BY <1>1, <1>3, <1>4

\* Finance decides on an eligible line.
LEMMA DecideStep ==
  ASSUME Inv, TypeOK', NEW i \in Items, ApproveVendorItem(i) \/ RejectVendorItem(i)
  PROVE  Inv'
<1> USE ConstantTypes DEF Inv, orderVars, deliveryVars
<1>1. /\ finance[i] = "eligible"
      /\ \A j \in Items : j # i => finance'[j] = finance[j]
      /\ UNCHANGED <<status, paid, payment, settlementOf, assignment>>
      /\ \/ finance'[i] = "approved" /\ chain' = AddJournals({ApprovalEvent(i)})
         \/ finance'[i] = "rejected" /\ chain' = chain
  BY DEF ApproveVendorItem, RejectVendorItem, TypeOK
<1>2. /\ \A e \in Events : e # ApprovalEvent(i) => chain'[e] = chain[e]
      /\ finance'[i] = "approved" => chain'[ApprovalEvent(i)] = chain[ApprovalEvent(i)] + 1
      /\ finance'[i] = "rejected" => chain'[ApprovalEvent(i)] = chain[ApprovalEvent(i)]
  <2>1. CASE finance'[i] = "approved" /\ chain' = AddJournals({ApprovalEvent(i)})
    <3>1. \A e \in Events : chain'[e] = IF e \in {ApprovalEvent(i)} THEN chain[e] + 1 ELSE chain[e]
      BY <2>1, JournalsAdded
    <3> QED BY <2>1, <3>1, EventTypes
  <2>2. CASE finance'[i] = "rejected" /\ chain' = chain BY <2>2
  <2> QED BY <1>1, <2>1, <2>2
<1>3. /\ \A p \in Payments : chain'[PaymentEvent(p)] = chain[PaymentEvent(p)]
      /\ \A j \in Items : j # i => chain'[ApprovalEvent(j)] = chain[ApprovalEvent(j)]
      /\ \A s \in Settlements : chain'[SettlementEvent(s)] = chain[SettlementEvent(s)]
      /\ \A o \in Orders : /\ chain'[EarningEvent(o)] = chain[EarningEvent(o)]
                           /\ chain'[DeductionEvent(o)] = chain[DeductionEvent(o)]
  BY <1>2, EventTypes, EventsDiffer
<1>4. chain[ApprovalEvent(i)] = 0 /\ settlementOf[i] = None /\ status[OrderOf[i]] # "refunded"
  BY <1>1 DEF ReviewMatchesLedger, Housekeeping
<1>5. Housekeeping' BY <1>1, <1>3, <1>4 DEF Housekeeping, Original
<1>6. SaleBacked' BY <1>1 DEF SaleBacked, Delivered
<1>7. ReviewMatchesLedger' BY <1>1, <1>2, <1>3, <1>4 DEF ReviewMatchesLedger, SettledItems, TypeOK
<1>8. RefundReversesOriginals'
  BY <1>1, <1>3, <1>4 DEF RefundReversesOriginals, PaymentsOf, ItemsOf, Original, Earned, TypeOK
<1> QED BY <1>5, <1>6, <1>7, <1>8

\* A settlement pays approved lines of one vendor and posts its journal.
LEMMA CreateVendorSettlementStep ==
  ASSUME Inv, TypeOK', NEW s \in Settlements, NEW v \in Vendors, NEW batch,
         CreateVendorSettlement(s, v, batch)
  PROVE  Inv'
<1> USE ConstantTypes, NullIsNoRow DEF Inv, orderVars, deliveryVars
<1>1. /\ SettledItems(s) = {}
      /\ \A i \in batch : /\ i \in Items /\ VendorOf[i] = v
                          /\ settlementOf[i] = None /\ finance[i] = "approved"
      /\ \A i \in Items : settlementOf'[i] = IF i \in batch THEN s ELSE settlementOf[i]
      /\ \A i \in Items : finance'[i] = IF i \in batch THEN "paid" ELSE finance[i]
      /\ UNCHANGED <<status, paid, payment, assignment>>
      /\ chain' = AddJournals({SettlementEvent(s)})
  BY DEF CreateVendorSettlement, Unsettled
<1>2. \A e \in Events : chain'[e] = IF e \in {SettlementEvent(s)} THEN chain[e] + 1 ELSE chain[e]
  BY <1>1, JournalsAdded
<1>3. /\ \A p \in Payments : chain'[PaymentEvent(p)] = chain[PaymentEvent(p)]
      /\ \A i \in Items : chain'[ApprovalEvent(i)] = chain[ApprovalEvent(i)]
      /\ \A o \in Orders : /\ chain'[EarningEvent(o)] = chain[EarningEvent(o)]
                           /\ chain'[DeductionEvent(o)] = chain[DeductionEvent(o)]
  BY <1>2, EventTypes, EventsDiffer
<1>4. /\ \A t \in Settlements : t # s => chain'[SettlementEvent(t)] = chain[SettlementEvent(t)]
      /\ chain'[SettlementEvent(s)] >= 1
  <2>1. chain[SettlementEvent(s)] \in Nat BY EventTypes DEF TypeOK
  <2>2. chain'[SettlementEvent(s)] = chain[SettlementEvent(s)] + 1 BY <1>2, EventTypes
  <2>3. \A t \in Settlements : t # s => SettlementEvent(t) # SettlementEvent(s) BY EventsDiffer
  <2> QED BY <1>2, <2>1, <2>2, <2>3, EventTypes
<1>5. \A i \in Items : settlementOf[i] # s BY <1>1 DEF SettledItems
<1>6. Housekeeping' BY <1>1, <1>3 DEF Housekeeping, Original
<1>7. SaleBacked' BY <1>1 DEF SaleBacked, Delivered
<1>8. ReviewMatchesLedger'
  <2> SUFFICES ASSUME NEW i \in Items
               PROVE  (/\ finance[i] \in {"none", "pending", "eligible", "rejected"} =>
                            chain[ApprovalEvent(i)] = 0 /\ settlementOf[i] = None
                       /\ finance[i] \in {"approved", "paid"} => chain[ApprovalEvent(i)] >= 1
                       /\ finance[i] = "approved" => settlementOf[i] = None
                       /\ finance[i] = "paid" => settlementOf[i] # None
                       /\ settlementOf[i] # None =>
                            /\ chain[SettlementEvent(settlementOf[i])] >= 1
                            /\ \A j \in SettledItems(settlementOf[i]) : VendorOf[j] = VendorOf[i])'
    BY DEF ReviewMatchesLedger
  <2>1. CASE i \in batch
    <3>1. \A j \in Items : settlementOf'[j] = s => j \in batch BY <1>1, <1>5
    <3>2. chain'[ApprovalEvent(i)] >= 1 BY <1>1, <1>3, <2>1 DEF ReviewMatchesLedger
    <3>3. finance'[i] = "paid" /\ settlementOf'[i] = s /\ s # None BY <1>1, <2>1
    <3>4. \A j \in SettledItems(settlementOf[i])' : VendorOf[j] = VendorOf[i]
      BY <1>1, <2>1, <3>1, <3>3 DEF SettledItems
    <3>5. chain'[SettlementEvent(settlementOf'[i])] >= 1 BY <1>4, <3>3
    <3> QED BY <3>2, <3>3, <3>4, <3>5
  <2>2. CASE i \notin batch
    <3>1. /\ finance'[i] = finance[i]
          /\ settlementOf'[i] = settlementOf[i] /\ settlementOf[i] \in Settlements \cup {None}
          /\ settlementOf[i] # s
      BY <1>1, <1>5, <2>2 DEF TypeOK
    <3>2. settlementOf[i] # None =>
            \A j \in Items : settlementOf'[j] = settlementOf[i] => settlementOf[j] = settlementOf[i]
      BY <1>1, <3>1
    <3> QED BY <1>3, <1>4, <3>1, <3>2 DEF ReviewMatchesLedger, SettledItems
  <2> QED BY <2>1, <2>2
<1>9. RefundReversesOriginals'
  <2>1. \A i \in Items : status[OrderOf[i]] = "refunded" =>
          /\ settlementOf'[i] = settlementOf[i]
          /\ settlementOf[i] # None => /\ settlementOf[i] \in Settlements
                                       /\ settlementOf[i] # s
    BY <1>1, <1>5 DEF Housekeeping, TypeOK
  <2>2. \A o \in Orders : /\ PaymentsOf(o)' = PaymentsOf(o)
                          /\ \A p \in PaymentsOf(o) : p \in Payments
                          /\ ItemsOf(o)' = ItemsOf(o)
                          /\ \A i \in ItemsOf(o) : i \in Items /\ OrderOf[i] = o
    BY <1>1 DEF PaymentsOf, ItemsOf
  <2>3. \A i \in Items : status[OrderOf[i]] = "refunded" /\ settlementOf[i] # None =>
          (~Original(SettlementEvent(settlementOf[i])) =>
             ~Original(SettlementEvent(settlementOf[i]))')
    BY <1>4, <2>1 DEF Original
  <2>4. /\ \A p \in Payments : ~Original(PaymentEvent(p)) => ~Original(PaymentEvent(p))'
        /\ \A i \in Items : ~Original(ApprovalEvent(i)) => ~Original(ApprovalEvent(i))'
        /\ \A o \in Orders : Earned(o)' => Earned(o)
    BY <1>3 DEF Original, Earned
  <2>5. ASSUME NEW o \in Orders, status'[o] = "refunded"
        PROVE  /\ \A p \in PaymentsOf(o)' : payment'[p].status # "paid"
                                            /\ ~Original(PaymentEvent(p))'
               /\ \A i \in ItemsOf(o)' :
                    /\ ~Original(ApprovalEvent(i))'
                    /\ settlementOf'[i] # None => ~Original(SettlementEvent(settlementOf[i]))'
               /\ Earned(o)' => chain'[DeductionEvent(o)] >= 1
    <3>1. status[o] = "refunded" BY <1>1, <2>5
    <3>2. \A p \in PaymentsOf(o)' : payment'[p].status # "paid" /\ ~Original(PaymentEvent(p))'
      BY <1>1, <2>2, <2>4, <3>1 DEF RefundReversesOriginals
    <3>3. \A i \in ItemsOf(o)' :
            /\ ~Original(ApprovalEvent(i))'
            /\ settlementOf'[i] # None => ~Original(SettlementEvent(settlementOf[i]))'
      BY <2>1, <2>2, <2>3, <2>4, <3>1 DEF RefundReversesOriginals
    <3>4. Earned(o)' => chain'[DeductionEvent(o)] >= 1
      BY <1>3, <2>4, <3>1 DEF RefundReversesOriginals
    <3> QED BY <3>2, <3>3, <3>4
  <2> QED BY <2>5 DEF RefundReversesOriginals
<1> QED BY <1>6, <1>7, <1>8, <1>9

\* A reversal by hand extends a chain that has a journal already.
LEMMA ReverseJournalStep ==
  ASSUME Inv, TypeOK', NEW e \in Events, ReverseJournal(e)
  PROVE  Inv'
<1> USE ConstantTypes DEF Inv, orderVars, vendorVars, deliveryVars
<1>1. /\ chain[e] >= 1
      /\ chain' = AddJournals({e})
      /\ UNCHANGED <<status, paid, payment, finance, settlementOf, assignment>>
  BY DEF ReverseJournal
<1>2. \A x \in Events : chain'[x] = IF x \in {e} THEN chain[x] + 1 ELSE chain[x]
  BY <1>1, JournalsAdded
<1>3. \A x \in Events : /\ chain[x] = 0 <=> chain'[x] = 0
                        /\ chain'[x] >= chain[x]
                        /\ chain[x] # 1 => chain'[x] # 1
                        /\ chain[x] >= 1 => chain'[x] >= 1
  <2>1. chain \in [Events -> Nat] BY DEF TypeOK
  <2> SUFFICES ASSUME NEW x \in Events
               PROVE  /\ chain[x] = 0 <=> chain'[x] = 0
                      /\ chain'[x] >= chain[x]
                      /\ chain[x] # 1 => chain'[x] # 1
                      /\ chain[x] >= 1 => chain'[x] >= 1
    OBVIOUS
  <2>2. chain[x] \in Nat BY <2>1
  <2>3. CASE x = e
    <3>1. chain'[x] = chain[x] + 1 /\ chain[x] >= 1 BY <1>1, <1>2, <2>3
    <3> QED BY <2>2, <3>1
  <2>4. CASE x # e
    <3>1. chain'[x] = chain[x] BY <1>2, <2>4
    <3> QED BY <2>2, <3>1
  <2> QED BY <2>3, <2>4
<1>4. Housekeeping' BY <1>1, <1>3, EventTypes DEF Housekeeping, Original
<1>5. SaleBacked' BY <1>1 DEF SaleBacked, Delivered
<1>6. ReviewMatchesLedger'
  <2>1. \A i \in Items : settlementOf[i] \in Settlements \cup {None} BY DEF TypeOK
  <2>2. /\ \A i \in Items : /\ chain[ApprovalEvent(i)] = 0 => chain'[ApprovalEvent(i)] = 0
                            /\ chain[ApprovalEvent(i)] >= 1 => chain'[ApprovalEvent(i)] >= 1
        /\ \A s \in Settlements : chain[SettlementEvent(s)] >= 1 => chain'[SettlementEvent(s)] >= 1
    BY <1>3, EventTypes
  <2> QED BY <1>1, <2>1, <2>2 DEF ReviewMatchesLedger, SettledItems
<1>7. RefundReversesOriginals'
  <2>1. \A o \in Orders : /\ (PaymentsOf(o))' = PaymentsOf(o) /\ (ItemsOf(o))' = ItemsOf(o)
                          /\ Earned(o)' => Earned(o)
    <3>1. \A x \in Events : chain[x] \in Nat /\ chain'[x] \in Nat BY DEF TypeOK
    <3>2. \A x \in Events : chain'[x] >= 1 => chain[x] >= 1 BY <1>3, <3>1
    <3> QED BY <1>1, <3>2, EventTypes DEF PaymentsOf, ItemsOf, Earned
  <2>2. \A o \in Orders : chain[DeductionEvent(o)] >= 1 => chain'[DeductionEvent(o)] >= 1
    BY <1>3, EventTypes
  <2>3. /\ \A p \in Payments : ~Original(PaymentEvent(p)) => ~Original(PaymentEvent(p))'
        /\ \A i \in Items : ~Original(ApprovalEvent(i)) => ~Original(ApprovalEvent(i))'
        /\ \A s \in Settlements : ~Original(SettlementEvent(s)) => ~Original(SettlementEvent(s))'
    BY <1>3, EventTypes DEF Original
  <2>4. \A o \in Orders : /\ \A p \in PaymentsOf(o) : p \in Payments
                          /\ \A i \in ItemsOf(o) : i \in Items
    BY DEF PaymentsOf, ItemsOf
  <2>5. \A i \in Items : settlementOf[i] \in Settlements \cup {None} BY DEF TypeOK
  <2>6. \A i \in Items : settlementOf[i] # None /\ ~Original(SettlementEvent(settlementOf[i])) =>
          ~Original(SettlementEvent(settlementOf[i]))'
    BY <1>1, <2>3, <2>5 DEF Original
  <2> QED BY <1>1, <2>1, <2>2, <2>3, <2>4, <2>6 DEF RefundReversesOriginals
<1> QED BY <1>4, <1>5, <1>6, <1>7

\* A refund reverses every original journal of the order it takes back.
LEMMA RefundOrderStep ==
  ASSUME Inv, TypeOK', NEW o \in Orders, RefundOrder(o)
  PROVE  Inv'
<1> USE ConstantTypes DEF Inv, deliveryVars
<1>1. /\ status[o] \notin {"none", "refunded"}
      /\ \A x \in Orders : status'[x] = IF x = o THEN "refunded" ELSE status[x]
      /\ \A x \in Orders : paid'[x] = IF x = o THEN 0 ELSE paid[x]
      /\ \A i \in Items : finance'[i] =
           IF OrderOf[i] = o /\ finance[i] \in {"eligible", "approved", "paid"}
           THEN "reversed" ELSE finance[i]
      /\ chain' = AddJournals(RefundJournals(o))
      /\ UNCHANGED <<settlementOf, assignment>>
  BY DEF RefundOrder, TypeOK, PaidAfterRefund
<1>2. \A p \in Payments :
        /\ payment'[p].order = payment[p].order
        /\ payment'[p].status = IF payment[p].order = o /\ payment[p].status = "paid"
                                THEN "refunded" ELSE payment[p].status
  <2>1. \A p \in Payments : payment[p] \in PaymentRow BY DEF TypeOK
  <2>2. \A r \in PaymentRow : /\ [r EXCEPT !.status = "refunded"].order = r.order
                              /\ [r EXCEPT !.status = "refunded"].status = "refunded"
    BY DEF PaymentRow
  <2> QED BY <2>1, <2>2 DEF RefundOrder
<1>3. \A e \in Events :
        chain'[e] = IF e \in RefundJournals(o) THEN chain[e] + 1 ELSE chain[e]
  BY <1>1, JournalsAdded
<1>4. \A e \in Events : /\ chain[e] \in Nat
                        /\ chain'[e] >= chain[e]
                        /\ chain[e] >= 1 => chain'[e] >= 1
  BY <1>3 DEF TypeOK
<1>5. \A e \in Events : e \in RefundJournals(o) => \/ Original(e)
                                                   \/ e = DeductionEvent(o) /\ Earned(o)
  BY DEF RefundJournals
<1>6. /\ \A p \in Payments : PaymentEvent(p) \in RefundJournals(o) => Original(PaymentEvent(p))
      /\ \A i \in Items : ApprovalEvent(i) \in RefundJournals(o) => Original(ApprovalEvent(i))
      /\ \A s \in Settlements :
           SettlementEvent(s) \in RefundJournals(o) => Original(SettlementEvent(s))
      /\ \A x \in Orders : EarningEvent(x) \in RefundJournals(o) => Original(EarningEvent(x))
  <2>1. \A x \in Orders : EarningEvent(x) # DeductionEvent(o) BY DEF EarningEvent, DeductionEvent
  <2> QED BY <1>5, <2>1, EventTypes, EventsDiffer
<1>7. /\ \A p \in Payments : ~Original(PaymentEvent(p)) => ~Original(PaymentEvent(p))'
      /\ \A i \in Items : /\ ~Original(ApprovalEvent(i)) => ~Original(ApprovalEvent(i))'
                          /\ chain[ApprovalEvent(i)] = 0 => chain'[ApprovalEvent(i)] = 0
      /\ \A s \in Settlements : ~Original(SettlementEvent(s)) => ~Original(SettlementEvent(s))'
      /\ \A x \in Orders : Earned(x)' => Earned(x)
  BY <1>3, <1>4, <1>6, EventTypes DEF Original, Earned
<1>8. /\ \A p \in Payments : payment[p].order = o /\ payment[p].status = "paid" =>
           ~Original(PaymentEvent(p))'
      /\ \A i \in ItemsOf(o) :
           /\ ~Original(ApprovalEvent(i))'
           /\ settlementOf[i] # None => ~Original(SettlementEvent(settlementOf[i]))'
      /\ Earned(o) => chain'[DeductionEvent(o)] >= 1
  <2>1. ASSUME NEW p \in Payments, payment[p].order = o, payment[p].status = "paid"
        PROVE  ~Original(PaymentEvent(p))'
    <3>1. Original(PaymentEvent(p)) => PaymentEvent(p) \in RefundJournals(o)
      BY <2>1 DEF RefundJournals, PaymentOriginals, PaidPayments, PaymentsOf
    <3> QED BY <1>3, <1>7, <3>1, EventTypes DEF Original
  <2>2. ASSUME NEW i \in ItemsOf(o) PROVE ~Original(ApprovalEvent(i))'
    <3>1. Original(ApprovalEvent(i)) => ApprovalEvent(i) \in RefundJournals(o)
      BY <2>2 DEF RefundJournals, ApprovalOriginals
    <3> QED BY <1>3, <1>7, <3>1, EventTypes DEF Original, ItemsOf
  <2>3. ASSUME NEW i \in ItemsOf(o), settlementOf[i] # None
        PROVE  ~Original(SettlementEvent(settlementOf[i]))'
    <3>1. settlementOf[i] \in Settlements BY <2>3 DEF TypeOK, ItemsOf
    <3>2. Original(SettlementEvent(settlementOf[i])) =>
            SettlementEvent(settlementOf[i]) \in RefundJournals(o)
      BY <2>3 DEF RefundJournals, SettlementOriginals
    <3> QED BY <1>1, <1>3, <1>7, <3>1, <3>2, EventTypes DEF Original
  <2>4. Earned(o) => chain'[DeductionEvent(o)] >= 1
    <3>1. Earned(o) => DeductionEvent(o) \in RefundJournals(o) BY DEF RefundJournals
    <3> QED BY <1>3, <1>4, <3>1, EventTypes
  <2> QED BY <2>1, <2>2, <2>3, <2>4
<1>9. Housekeeping' BY <1>1, <1>2, <1>7, <1>8 DEF Housekeeping
<1>10. SaleBacked' BY <1>1 DEF SaleBacked, Delivered
<1>11. ReviewMatchesLedger'
  BY <1>1, <1>4, <1>7, EventTypes DEF ReviewMatchesLedger, SettledItems, TypeOK
<1>12. RefundReversesOriginals'
  <2> SUFFICES ASSUME NEW x \in Orders, status'[x] = "refunded"
               PROVE  (/\ \A p \in PaymentsOf(x) : payment[p].status # "paid"
                                                     /\ ~Original(PaymentEvent(p))
                       /\ \A i \in ItemsOf(x) :
                            /\ ~Original(ApprovalEvent(i))
                            /\ settlementOf[i] # None =>
                                 ~Original(SettlementEvent(settlementOf[i]))
                       /\ Earned(x) => chain[DeductionEvent(x)] >= 1)'
    BY DEF RefundReversesOriginals
  <2>1. /\ \A p \in Payments : p \in PaymentsOf(x)' <=> p \in PaymentsOf(x)
        /\ \A p \in PaymentsOf(x)' : p \in Payments
        /\ \A p \in PaymentsOf(x) : p \in Payments /\ payment[p].order = x
        /\ ItemsOf(x)' = ItemsOf(x)
        /\ \A i \in ItemsOf(x) : /\ i \in Items
                                 /\ settlementOf'[i] = settlementOf[i]
                                 /\ settlementOf[i] \in Settlements \cup {None}
    BY <1>1, <1>2 DEF PaymentsOf, ItemsOf, TypeOK
  <2>2. CASE x = o BY <1>2, <1>7, <1>8, <2>1, <2>2 DEF Housekeeping
  <2>3. CASE x # o
    <3>1. status[x] = "refunded" BY <1>1, <2>3
    <3>2. chain[DeductionEvent(x)] >= 1 => chain'[DeductionEvent(x)] >= 1 BY <1>4, EventTypes
    <3> QED BY <1>2, <1>7, <2>1, <3>1, <3>2 DEF RefundReversesOriginals
  <2> QED BY <2>2, <2>3
<1> QED BY <1>9, <1>10, <1>11, <1>12

\* Every action keeps the invariant.
LEMMA InvStep == Inv /\ [Next]_vars => Inv'
<1> SUFFICES ASSUME Inv, [Next]_vars PROVE Inv' OBVIOUS
<1> USE ConstantTypes DEF orderVars, vendorVars, deliveryVars
<1>1. TypeOK' BY TypeStep DEF Inv
<1>2. CASE UNCHANGED vars BY <1>1, <1>2, QuietStep DEF vars, Delivered
<1>3. CASE OrderStep
  <2>1. ASSUME NEW p \in Payments, NEW o \in Orders, NEW amount \in PayAmounts,
               NEW st \in PayStatuses, RecordPayment(p, o, amount, st)
        PROVE  Inv'
    <3> DEFINE E == IF st = "paid" THEN {PaymentEvent(p)} ELSE {}
    <3>1. amount \in Nat /\ st \in PaymentStatuses OBVIOUS
    <3>2. chain' = AddJournals(E) BY <2>1 DEF RecordPayment, AddJournals, Inv, TypeOK
    <3>3. E \in SUBSET {PaymentEvent(p), EarningEvent(o)} /\ (st # "paid" => E = {}) OBVIOUS
    <3>4. AddPayment(p, o, amount, st, None) /\ UNCHANGED <<status, settlementOf, assignment>>
      BY <2>1 DEF RecordPayment
    <3> HIDE DEF E
    <3> QED BY <1>1, <3>1, <3>2, <3>3, <3>4, PaymentStep
  <2> QED BY <1>1, <1>3, <2>1, CreateOrderStep, ChangeOrderStatusStep, RefundOrderStep DEF OrderStep
<1>4. CASE DeliveryStep
  <2>1. ASSUME NEW o \in Orders, NEW r \in Riders, CreateAssignment(o, r) \/ ReassignAssignment(o, r)
        PROVE  Inv'
    <3>1. \A x \in Orders : Delivered(x) => Delivered(x)'
      BY <2>1 DEF CreateAssignment, ReassignAssignment, Delivered, Inv, TypeOK, AssignmentRow
    <3> QED BY <1>1, <2>1, <3>1, QuietStep DEF CreateAssignment, ReassignAssignment
  <2>2. ASSUME NEW o \in Orders, (\E amount \in CodAmounts : SubmitCod(o, amount)) \/ RejectCod(o)
        PROVE  Inv'
    BY <1>1, <2>2, QuietStep DEF SubmitCod, RejectCod, Delivered
  <2>3. ASSUME NEW o \in Orders, NEW p \in Payments, NEW amount \in CodAmounts,
               ReconcileCod(o, p, amount)
        PROVE  Inv'
    <3> DEFINE E == {PaymentEvent(p)} \cup
                      (IF Fee[collection[o].rider] > 0 THEN {EarningEvent(o)} ELSE {})
    <3>1. amount \in Nat /\ "paid" \in PaymentStatuses BY DEF PaymentStatuses
    <3>2. chain' = AddJournals(E) /\ E \in SUBSET {PaymentEvent(p), EarningEvent(o)}
      BY <2>3 DEF ReconcileCod
    <3>3. AddPayment(p, o, amount, "paid", collection[o].rider) BY <2>3 DEF ReconcileCod
    <3>4. UNCHANGED <<status, settlementOf, assignment>> BY <2>3 DEF ReconcileCod
    <3> HIDE DEF E
    <3> QED BY <1>1, <3>1, <3>2, <3>3, <3>4, PaymentStep
  <2> QED BY <1>1, <1>4, <2>1, <2>2, <2>3, ChangeAssignmentStatusStep DEF DeliveryStep
<1>5. CASE FinanceStep
  BY <1>1, <1>5, DecideStep, CreateVendorSettlementStep, ReverseJournalStep DEF FinanceStep
<1>6. CASE OfficeStep
  BY <1>1, <1>6, QuietStep DEF OfficeStep, SetPeriodStatus, SetRiderActive, Delivered
<1> QED BY <1>2, <1>3, <1>4, <1>5, <1>6 DEF Next

\* The inductive invariant holds in every state.
THEOREM InvAlways == Spec => []Inv
BY InvInit, InvStep, PTL DEF Spec

\* No line keeps its standing without a delivered and fully paid order.
THEOREM SalesBacked == Spec => []SaleBacked
BY InvAlways, PTL DEF Inv

\* The review stage of a line agrees with its journals in every state.
THEOREM ReviewAgrees == Spec => []ReviewMatchesLedger
BY InvAlways, PTL DEF Inv

\* After a refund no original journal of the order stands.
THEOREM RefundsReverse == Spec => []RefundReversesOriginals
BY InvAlways, PTL DEF Inv

--------------------
(* Refinement of VendorSale. *)

\* What the abstract sale of a line sees of the line and its order.
Paid(o) == paid[o] >= Total[o]
Refunded(o) == status[o] = "refunded"

\* The effect of a step on one line and its order, in the terms of VendorSale.
Placed(i) ==
  /\ finance[i] = "none" /\ finance'[i] = "pending"
  /\ Delivered(OrderOf[i])' <=> Delivered(OrderOf[i])
  /\ Paid(OrderOf[i])' <=> Paid(OrderOf[i])
  /\ Refunded(OrderOf[i])' <=> Refunded(OrderOf[i])
Progressed(i) ==
  /\ Delivered(OrderOf[i]) => Delivered(OrderOf[i])'
  /\ Paid(OrderOf[i]) => Paid(OrderOf[i])'
  /\ Refunded(OrderOf[i])' <=> Refunded(OrderOf[i])
  /\ \/ finance'[i] = finance[i]
     \/ /\ finance[i] = "pending" /\ finance'[i] = "eligible"
        /\ Delivered(OrderOf[i])' /\ Paid(OrderOf[i])' /\ ~Refunded(OrderOf[i])
Decided(i) ==
  /\ \/ finance[i] = "eligible" /\ finance'[i] \in {"approved", "rejected"}
     \/ finance[i] = "approved" /\ finance'[i] = "paid"
  /\ Delivered(OrderOf[i]) /\ Paid(OrderOf[i]) /\ ~Refunded(OrderOf[i])
  /\ Delivered(OrderOf[i])' <=> Delivered(OrderOf[i])
  /\ Paid(OrderOf[i])' <=> Paid(OrderOf[i])
  /\ Refunded(OrderOf[i])' <=> Refunded(OrderOf[i])
TakenBack(i) ==
  /\ ~Refunded(OrderOf[i]) /\ Refunded(OrderOf[i])'
  /\ Delivered(OrderOf[i])' <=> Delivered(OrderOf[i])
  /\ finance'[i] = IF finance[i] \in {"eligible", "approved", "paid"} THEN "reversed" ELSE finance[i]
LineStep == \A i \in Items : Placed(i) \/ Progressed(i) \/ Decided(i) \/ TakenBack(i)

\* A payment moves the lines of its order forward, if it moves them at all.
LEMMA PaymentLines ==
  ASSUME Inv, NEW p \in Payments, NEW o \in Orders, NEW amount \in Nat, NEW st \in PaymentStatuses,
         NEW r, AddPayment(p, o, amount, st, r), UNCHANGED <<status, assignment>>
  PROVE  LineStep
<1> USE ConstantTypes DEF Inv
<1>1. /\ paid[o] + amount \in Nat
      /\ Delivered(o) \in BOOLEAN
      /\ \/ UNCHANGED <<paid, finance>>
         \/ /\ finance' = Refreshed(o, paid[o] + amount, Delivered(o))
            /\ paid' = [paid EXCEPT ![o] = @ + amount]
  BY DEF AddPayment, TypeOK, Delivered
<1>2. CASE UNCHANGED <<paid, finance>> BY <1>2 DEF LineStep, Progressed, Delivered, Paid, Refunded
<1>3. CASE /\ finance' = Refreshed(o, paid[o] + amount, Delivered(o))
           /\ paid' = [paid EXCEPT ![o] = @ + amount]
  <2> SUFFICES ASSUME NEW i \in Items PROVE Progressed(i) BY DEF LineStep
  <2>1. /\ \A x \in Orders : paid[x] \in Nat
        /\ \A x \in Orders : paid'[x] = IF x = o THEN paid[x] + amount ELSE paid[x]
        /\ OrderOf[i] \in Orders /\ Total[OrderOf[i]] \in Nat
    BY <1>3 DEF TypeOK
  <2>2. Paid(OrderOf[i]) => Paid(OrderOf[i])' BY <2>1 DEF Paid
  <2>3. \/ finance'[i] = finance[i]
        \/ /\ finance[i] = "pending" /\ finance'[i] = "eligible"
           /\ Delivered(OrderOf[i]) /\ Paid(OrderOf[i])' /\ ~Refunded(OrderOf[i])
    BY <1>1, <1>3, <2>1, RefreshedLines DEF Paid, Refunded
  <2> QED BY <2>2, <2>3 DEF Progressed, Delivered, Refunded
<1> QED BY <1>1, <1>2, <1>3

\* Every step moves every line as VendorSale allows.
LEMMA LinesStep == Inv /\ [Next]_vars => LineStep
<1> SUFFICES ASSUME Inv, [Next]_vars PROVE LineStep OBVIOUS
<1> USE ConstantTypes DEF Inv, orderVars, vendorVars, deliveryVars
<1>1. ASSUME UNCHANGED <<status, paid, finance>>,
             \A o \in Orders : Delivered(o) => Delivered(o)'
      PROVE  LineStep
  BY <1>1 DEF LineStep, Progressed, Paid, Refunded
<1>2. ASSUME NEW o \in Orders, CreateOrder(o) PROVE LineStep
  <2> SUFFICES ASSUME NEW i \in Items PROVE Placed(i) \/ Progressed(i) BY DEF LineStep
  <2>1. /\ UNCHANGED <<paid, assignment>>
        /\ Refunded(OrderOf[i])' <=> Refunded(OrderOf[i])
        /\ \/ finance[i] = "none" /\ finance'[i] = "pending"
           \/ finance'[i] = finance[i]
    BY <1>2 DEF CreateOrder, Refunded, Housekeeping, TypeOK
  <2> QED BY <2>1 DEF Placed, Progressed, Delivered, Paid
<1>3. ASSUME NEW o \in Orders, NEW target \in OrderStatuses, ChangeOrderStatus(o, target)
      PROVE  LineStep
  <2>1. /\ UNCHANGED <<paid, assignment, finance>>
        /\ \A x \in Orders : Refunded(x)' <=> Refunded(x)
    BY <1>3 DEF ChangeOrderStatus, Refunded, Transitions, OrderStatuses, TypeOK
  <2> QED BY <2>1 DEF LineStep, Progressed, Delivered, Paid
<1>4. ASSUME NEW o \in Orders, RefundOrder(o) PROVE LineStep
  <2> SUFFICES ASSUME NEW i \in Items PROVE TakenBack(i) \/ Progressed(i) BY DEF LineStep
  <2>1. /\ assignment' = assignment
        /\ ~Refunded(o)
        /\ \A x \in Orders : x # o => paid'[x] = paid[x] /\ status'[x] = status[x]
        /\ status'[o] = "refunded"
        /\ finance'[i] = IF OrderOf[i] = o /\ finance[i] \in {"eligible", "approved", "paid"}
                         THEN "reversed" ELSE finance[i]
    BY <1>4 DEF RefundOrder, Refunded, TypeOK
  <2> QED BY <2>1 DEF TakenBack, Progressed, Delivered, Paid, Refunded
<1>5. ASSUME NEW o \in Orders, NEW target \in DeliveryStatuses, ChangeAssignmentStatus(o, target)
      PROVE  LineStep
  <2>1. /\ assignment \in [Orders -> AssignmentRow]
        /\ target \in DeliveryTransitions[assignment[o].status]
        /\ assignment' = [assignment EXCEPT ![o] = [assignment[o] EXCEPT !.status = target]]
    BY <1>5 DEF ChangeAssignmentStatus, TypeOK
  <2>2. assignment[o].status # "delivered" BY <2>1 DEF DeliveryTransitions
  <2>3. [assignment[o] EXCEPT !.status = target].status = target BY <2>1 DEF AssignmentRow
  <2>4. \A x \in Orders : Delivered(x) => Delivered(x)' BY <2>1, <2>2 DEF Delivered
  <2>5. target = "delivered" => Delivered(o)' BY <2>1, <2>3 DEF Delivered
  <2>6. UNCHANGED <<status, paid>> BY <1>5 DEF ChangeAssignmentStatus
  <2>7. \A i \in Items :
          \/ finance'[i] = finance[i]
          \/ /\ finance[i] = "pending" /\ finance'[i] = "eligible"
             /\ OrderOf[i] = o /\ target = "delivered" /\ Paid(o) /\ ~Refunded(o)
    BY <1>5 DEF ChangeAssignmentStatus, Refreshed, Paid, Refunded
  <2> QED BY <2>4, <2>5, <2>6, <2>7 DEF LineStep, Progressed, Paid, Refunded
<1>6. ASSUME NEW o \in Orders, NEW r \in Riders, CreateAssignment(o, r) \/ ReassignAssignment(o, r)
      PROVE  LineStep
  <2>1. \A x \in Orders : Delivered(x) => Delivered(x)'
    BY <1>6 DEF CreateAssignment, ReassignAssignment, Delivered, TypeOK, AssignmentRow
  <2> QED BY <1>1, <1>6, <2>1 DEF CreateAssignment, ReassignAssignment
<1>7. ASSUME NEW i \in Items, ApproveVendorItem(i) \/ RejectVendorItem(i) PROVE LineStep
  <2> SUFFICES ASSUME NEW j \in Items PROVE Decided(j) \/ Progressed(j) BY DEF LineStep
  <2>1. /\ UNCHANGED <<status, paid, assignment>>
        /\ finance[i] = "eligible" /\ finance'[i] \in {"approved", "rejected"}
        /\ j # i => finance'[j] = finance[j]
    BY <1>7 DEF ApproveVendorItem, RejectVendorItem, TypeOK
  <2>2. Delivered(OrderOf[i]) /\ Paid(OrderOf[i]) /\ ~Refunded(OrderOf[i])
    BY <2>1 DEF SaleBacked, Housekeeping, Paid, Refunded
  <2> QED BY <2>1, <2>2 DEF Decided, Progressed, Delivered, Paid, Refunded
<1>8. ASSUME NEW s \in Settlements, NEW v \in Vendors, NEW batch, CreateVendorSettlement(s, v, batch)
      PROVE  LineStep
  <2> SUFFICES ASSUME NEW j \in Items PROVE Decided(j) \/ Progressed(j) BY DEF LineStep
  <2>1. /\ UNCHANGED <<status, paid, assignment>>
        /\ \/ finance[j] = "approved" /\ finance'[j] = "paid"
           \/ finance'[j] = finance[j]
    BY <1>8 DEF CreateVendorSettlement, Unsettled
  <2>2. finance[j] = "approved" =>
          Delivered(OrderOf[j]) /\ Paid(OrderOf[j]) /\ ~Refunded(OrderOf[j])
    BY DEF SaleBacked, Housekeeping, Paid, Refunded
  <2> QED BY <2>1, <2>2 DEF Decided, Progressed, Delivered, Paid, Refunded
<1>9. CASE UNCHANGED vars BY <1>1, <1>9 DEF vars, Delivered
<1>10. CASE OrderStep
  <2>1. ASSUME NEW p \in Payments, NEW o \in Orders, NEW amount \in PayAmounts,
               NEW st \in PayStatuses, RecordPayment(p, o, amount, st)
        PROVE  LineStep
    <3>1. amount \in Nat /\ st \in PaymentStatuses OBVIOUS
    <3> QED BY <2>1, <3>1, PaymentLines DEF RecordPayment
  <2> QED BY <1>2, <1>3, <1>4, <1>10, <2>1 DEF OrderStep
<1>11. CASE DeliveryStep
  <2>1. ASSUME NEW o \in Orders, (\E amount \in CodAmounts : SubmitCod(o, amount)) \/ RejectCod(o)
        PROVE  LineStep
    BY <1>1, <2>1 DEF SubmitCod, RejectCod, Delivered
  <2>2. ASSUME NEW o \in Orders, NEW p \in Payments, NEW amount \in CodAmounts,
               ReconcileCod(o, p, amount)
        PROVE  LineStep
    <3>1. amount \in Nat /\ "paid" \in PaymentStatuses BY DEF PaymentStatuses
    <3> QED BY <2>2, <3>1, PaymentLines DEF ReconcileCod
  <2> QED BY <1>5, <1>6, <1>11, <2>1, <2>2 DEF DeliveryStep
<1>12. CASE FinanceStep
  <2>1. ASSUME NEW e \in Events, ReverseJournal(e) PROVE LineStep
    BY <1>1, <2>1 DEF ReverseJournal, Delivered
  <2> QED BY <1>7, <1>8, <1>12, <2>1 DEF FinanceStep
<1>13. CASE OfficeStep BY <1>1, <1>13 DEF OfficeStep, SetPeriodStatus, SetRiderActive, Delivered
<1> QED BY <1>9, <1>10, <1>11, <1>12, <1>13 DEF Next

\* The review of the lines implements the promise made to finance: each line
\* passes its stages in order, on a delivered and paid sale, until a refund.
THEOREM Implements == Spec => ImplementsVendorSale
<1>1. Init => Promise!Init
  <2> SUFFICES ASSUME Init PROVE Promise!Init OBVIOUS
  <2> USE ConstantTypes
  <2>1. \A i \in Items : ~Delivered(OrderOf[i]) /\ status[OrderOf[i]] # "refunded"
    BY DEF Init, Delivered
  <2>2. [i \in Items |-> Delivered(OrderOf[i])] = [i \in Items |-> FALSE] BY <2>1 DEF Delivered
  <2>3. [i \in Items |-> status[OrderOf[i]] = "refunded"] = [i \in Items |-> FALSE] BY <2>1
  <2>4. [i \in Items |-> paid[OrderOf[i]] >= Total[OrderOf[i]]] \in [Items -> BOOLEAN] OBVIOUS
  <2> QED BY <2>2, <2>3, <2>4 DEF Init, Promise!Init
<1>2. LineStep => Promise!Next
  <2>1. ASSUME NEW i \in Items, Placed(i) PROVE Promise!Place(i)
    BY <2>1 DEF Placed, Paid, Refunded, Promise!Place
  <2>2. ASSUME NEW i \in Items, Progressed(i) PROVE Promise!Progress(i)
    BY <2>2 DEF Progressed, Paid, Refunded, Promise!Progress
  <2>3. ASSUME NEW i \in Items, Decided(i) PROVE Promise!Decide(i)
    BY <2>3 DEF Decided, Paid, Refunded, Promise!Decide
  <2>4. ASSUME NEW i \in Items, TakenBack(i) PROVE Promise!Refund(i)
    BY <2>4 DEF TakenBack, Paid, Refunded, Promise!Refund
  <2> QED BY <2>1, <2>2, <2>3, <2>4 DEF LineStep, Promise!Next
<1>3. Inv /\ [Next]_vars => [Promise!Next]_(Promise!vars) BY <1>2, LinesStep
<1> QED BY <1>1, <1>3, InvAlways, PTL DEF Spec, ImplementsVendorSale, Promise!Spec

--------------------
(* A refund is final. *)

\* No step takes a refunded order up again, gives it a payment or moves a line.
LEMMA FinalStep ==
  Inv /\ [Next]_vars =>
    \A o \in Orders : status[o] = "refunded" =>
      /\ status'[o] = "refunded"
      /\ PaymentsOf(o)' = PaymentsOf(o)
      /\ \A i \in ItemsOf(o) : settlementOf'[i] = settlementOf[i]
<1> SUFFICES ASSUME Inv, [Next]_vars, NEW o \in Orders, status[o] = "refunded"
             PROVE  /\ status'[o] = "refunded"
                    /\ PaymentsOf(o)' = PaymentsOf(o)
                    /\ \A i \in ItemsOf(o) : settlementOf'[i] = settlementOf[i]
  OBVIOUS
<1> USE ConstantTypes DEF Inv, orderVars, vendorVars, deliveryVars
<1>1. ASSUME UNCHANGED <<status, payment, settlementOf>>
      PROVE  /\ status'[o] = "refunded"
             /\ PaymentsOf(o)' = PaymentsOf(o)
             /\ \A i \in ItemsOf(o) : settlementOf'[i] = settlementOf[i]
  BY <1>1 DEF PaymentsOf
<1>2. ASSUME NEW p \in Payments, NEW x \in Orders, NEW amount, NEW st, NEW r,
             AddPayment(p, x, amount, st, r), UNCHANGED status
      PROVE  status'[o] = "refunded" /\ PaymentsOf(o)' = PaymentsOf(o)
  <2>1. x # o BY <1>2 DEF AddPayment, AcceptsPayment
  <2>2. payment[p].order = None BY <1>2 DEF AddPayment, Housekeeping
  <2>3. \A q \in Payments : payment'[q].order = IF q = p THEN x ELSE payment[q].order
    BY <1>2 DEF AddPayment, TypeOK
  <2> QED BY <1>2, <2>1, <2>2, <2>3, NullIsNoRow DEF PaymentsOf
<1>3. CASE OrderStep
  <2>1. ASSUME NEW x \in Orders, CreateOrder(x)
        PROVE  status'[o] = "refunded" /\ PaymentsOf(o)' = PaymentsOf(o) /\ settlementOf' = settlementOf
    BY <2>1 DEF CreateOrder, PaymentsOf, TypeOK
  <2>2. ASSUME NEW x \in Orders, NEW target \in OrderStatuses, ChangeOrderStatus(x, target)
        PROVE  status'[o] = "refunded" /\ PaymentsOf(o)' = PaymentsOf(o) /\ settlementOf' = settlementOf
    <3>1. x # o BY <2>2 DEF ChangeOrderStatus, Transitions
    <3> QED BY <2>2, <3>1 DEF ChangeOrderStatus, PaymentsOf, TypeOK
  <2>3. ASSUME NEW x \in Orders, RefundOrder(x)
        PROVE  status'[o] = "refunded" /\ PaymentsOf(o)' = PaymentsOf(o) /\ settlementOf' = settlementOf
    <3>1. \A p \in Payments : payment'[p].order = payment[p].order
      <4>1. \A p \in Payments : payment[p] \in PaymentRow BY DEF TypeOK
      <4>2. \A r \in PaymentRow : [r EXCEPT !.status = "refunded"].order = r.order BY DEF PaymentRow
      <4> QED BY <2>3, <4>1, <4>2 DEF RefundOrder
    <3> QED BY <2>3, <3>1 DEF RefundOrder, PaymentsOf, TypeOK
  <2>4. ASSUME NEW p \in Payments, NEW x \in Orders, NEW amount, NEW st, RecordPayment(p, x, amount, st)
        PROVE  status'[o] = "refunded" /\ PaymentsOf(o)' = PaymentsOf(o) /\ settlementOf' = settlementOf
    BY <1>2, <2>4 DEF RecordPayment
  <2> QED BY <1>3, <2>1, <2>2, <2>3, <2>4 DEF OrderStep
<1>4. CASE DeliveryStep
  <2>1. ASSUME NEW x \in Orders, NEW p \in Payments, NEW amount, ReconcileCod(x, p, amount)
        PROVE  status'[o] = "refunded" /\ PaymentsOf(o)' = PaymentsOf(o) /\ settlementOf' = settlementOf
    BY <1>2, <2>1 DEF ReconcileCod
  <2> QED BY <1>1, <1>4, <2>1 DEF DeliveryStep, CreateAssignment, ReassignAssignment,
                                  ChangeAssignmentStatus, SubmitCod, RejectCod
<1>5. CASE FinanceStep
  <2>1. ASSUME NEW s \in Settlements, NEW v \in Vendors, NEW batch, CreateVendorSettlement(s, v, batch)
        PROVE  /\ UNCHANGED <<status, payment>>
               /\ \A i \in ItemsOf(o) : settlementOf'[i] = settlementOf[i]
    BY <2>1 DEF CreateVendorSettlement, Unsettled, Housekeeping, ItemsOf
  <2> QED BY <1>1, <1>5, <2>1 DEF FinanceStep, ApproveVendorItem, RejectVendorItem, ReverseJournal,
                                  PaymentsOf
<1>6. CASE OfficeStep BY <1>1, <1>6 DEF OfficeStep, SetPeriodStatus, SetRiderActive
<1>7. CASE UNCHANGED vars BY <1>1, <1>7 DEF vars
<1> QED BY <1>3, <1>4, <1>5, <1>6, <1>7 DEF Next

\* A refunded order takes no payment, and its lines keep their stage.
THEOREM RefundsAreFinal == Spec => RefundIsFinal
<1>1. Inv /\ Inv' /\ [Next]_vars =>
        [\A o \in Orders : status[o] = "refunded" =>
           /\ status'[o] = "refunded"
           /\ paid'[o] = 0
           /\ PaymentsOf(o)' = PaymentsOf(o)
           /\ \A i \in ItemsOf(o) : /\ finance'[i] = finance[i]
                                    /\ settlementOf'[i] = settlementOf[i]]_vars
  <2> SUFFICES ASSUME Inv, Inv', [Next]_vars, NEW o \in Orders, status[o] = "refunded"
               PROVE  /\ status'[o] = "refunded"
                      /\ paid'[o] = 0
                      /\ PaymentsOf(o)' = PaymentsOf(o)
                      /\ \A i \in ItemsOf(o) : /\ finance'[i] = finance[i]
                                               /\ settlementOf'[i] = settlementOf[i]
    OBVIOUS
  <2>1. paid'[o] = 0 BY FinalStep DEF Inv, Housekeeping
  <2>2. \A i \in ItemsOf(o) : finance'[i] = finance[i]
    BY LinesStep DEF LineStep, Placed, Progressed, Decided, TakenBack, Refunded, Inv, Housekeeping,
                     ItemsOf
  <2> QED BY FinalStep, <2>1, <2>2
<1> QED BY <1>1, InvAlways, PTL DEF Spec, RefundIsFinal
--------------------
(* What is paid is the sum of the payments. *)

\* The inductive invariant: only finitely many payments of an order are paid.
PaidInv == /\ Inv
           /\ \A o \in Orders : IsFiniteSet(PaidPayments(o))
           /\ PaidIsSumOfPayments

LEMMA PaidInit == Init => PaidInv
<1> SUFFICES ASSUME Init PROVE PaidInv OBVIOUS
<1>1. \A o \in Orders : PaidPayments(o) = {} /\ paid[o] = 0 BY DEF Init, PaidPayments, PaymentsOf
<1>2. \A o \in Orders : IsFiniteSet(PaidPayments(o))
                        /\ paid[o] = SumFunctionOnSet(Amounts, PaidPayments(o))
  BY <1>1, FS_EmptySet, SumOfNone
<1> QED BY <1>2, InvInit DEF PaidInv, PaidIsSumOfPayments

\* An order whose payments stay as they are keeps its sum.
LEMMA PaidKept ==
  ASSUME PaidInv, Inv', NEW o \in Orders, paid'[o] = paid[o], PaidPayments(o)' = PaidPayments(o),
         \A q \in PaidPayments(o) : payment'[q].amount = payment[q].amount
  PROVE  IsFiniteSet(PaidPayments(o)') /\ paid'[o] = SumFunctionOnSet(Amounts', PaidPayments(o)')
<1>1. \A q \in PaidPayments(o) : Amounts[q] \in Int /\ Amounts'[q] = Amounts[q]
  BY DEF PaidInv, Inv, TypeOK, Amounts, PaymentRow, PaidPayments, PaymentsOf
<1>2. SumFunctionOnSet(Amounts, PaidPayments(o)) = SumFunctionOnSet(Amounts', PaidPayments(o))
  BY <1>1, SumAgrees DEF PaidInv
<1> QED BY <1>2 DEF PaidInv, PaidIsSumOfPayments

\* A payment is recorded: if it is paid it is one more term of the sum.
LEMMA PaidAdds ==
  ASSUME PaidInv, Inv', NEW p \in Payments, NEW o \in Orders, NEW amount \in Nat,
         NEW st \in PaymentStatuses, NEW r, AddPayment(p, o, amount, st, r)
  PROVE  PaidInv'
<1>1. /\ payment[p].status = "none" /\ payment \in [Payments -> PaymentRow]
      /\ payment' = [payment EXCEPT ![p] = [order |-> o, amount |-> amount, status |-> st,
                                            rider |-> r]]
      /\ payment[p].order = None
  BY DEF AddPayment, PaidInv, Inv, TypeOK, Housekeeping
<1>2. /\ payment'[p].order = o /\ payment'[p].status = st /\ payment'[p].amount = amount
      /\ \A q \in Payments : q # p => payment'[q] = payment[q]
  BY <1>1
<1>3. \A x \in Orders : p \notin PaidPayments(x) /\ PaidPayments(x) \subseteq Payments
  BY <1>1 DEF PaidPayments, PaymentsOf
<1>4. \A x \in Orders : \A q \in PaidPayments(x) : payment'[q].amount = payment[q].amount
  BY <1>2, <1>3
<1>5. \A x \in Orders : PaidPayments(x)' = IF x = o /\ st = "paid" THEN PaidPayments(x) \cup {p}
                                           ELSE PaidPayments(x)
  BY <1>1, <1>2, NullIsNoRow DEF PaidPayments, PaymentsOf
<1>6. ASSUME NEW x \in Orders, ~(x = o /\ st = "paid")
      PROVE  IsFiniteSet(PaidPayments(x)') /\ paid'[x] = SumFunctionOnSet(Amounts', PaidPayments(x)')
  <2>1. paid'[x] = paid[x] BY <1>6 DEF AddPayment, PaidInv, Inv, TypeOK
  <2> QED BY <1>4, <1>5, <1>6, <2>1, PaidKept
<1>7. ASSUME st = "paid"
      PROVE  IsFiniteSet(PaidPayments(o)') /\ paid'[o] = SumFunctionOnSet(Amounts', PaidPayments(o)')
  <2> DEFINE S == PaidPayments(o)
  <2>1. IsFiniteSet(S) /\ p \notin S /\ S \subseteq Payments /\ PaidPayments(o)' = S \cup {p}
    BY <1>3, <1>5, <1>7 DEF PaidInv
  <2>2. \A q \in S \cup {p} : Amounts'[q] \in Int BY <2>1 DEF Inv, TypeOK, Amounts, PaymentRow
  <2>3. \A q \in S : Amounts[q] \in Int /\ Amounts'[q] = Amounts[q] BY <1>4, <2>1, <2>2 DEF Amounts
  <2>4. Amounts'[p] = amount BY <1>2 DEF Amounts
  <2>5. paid[o] = SumFunctionOnSet(Amounts, S) /\ paid[o] \in Nat
    BY DEF PaidInv, PaidIsSumOfPayments, Inv, TypeOK
  <2>6. paid'[o] = paid[o] + amount BY <1>7 DEF AddPayment, PaidInv, Inv, TypeOK
  <2> HIDE DEF S
  <2>7. SumFunctionOnSet(Amounts', S \cup {p}) = Amounts'[p] + SumFunctionOnSet(Amounts', S)
    BY <2>1, <2>2, SumAdds
  <2>8. SumFunctionOnSet(Amounts, S) = SumFunctionOnSet(Amounts', S) BY <2>1, <2>3, SumAgrees
  <2>9. IsFiniteSet(S \cup {p}) BY <2>1, FS_AddElement
  <2> QED BY <2>1, <2>4, <2>5, <2>6, <2>7, <2>8, <2>9
<1> QED BY <1>6, <1>7 DEF PaidInv, PaidIsSumOfPayments

\* A refund leaves no payment paid.
LEMMA PaidCleared ==
  ASSUME PaidInv, Inv', NEW o \in Orders, RefundOrder(o)
  PROVE  PaidInv'
<1>1. /\ payment \in [Payments -> PaymentRow]
      /\ payment' = [p \in Payments |-> IF payment[p].order = o /\ payment[p].status = "paid"
                                        THEN [payment[p] EXCEPT !.status = "refunded"]
                                        ELSE payment[p]]
      /\ paid' = [paid EXCEPT ![o] = 0] /\ paid \in [Orders -> Nat]
  BY DEF RefundOrder, PaidAfterRefund, PaidInv, Inv, TypeOK
<1>2. \A p \in Payments :
        /\ payment'[p].order = payment[p].order /\ payment'[p].amount = payment[p].amount
        /\ payment'[p].status = IF payment[p].order = o /\ payment[p].status = "paid"
                                THEN "refunded" ELSE payment[p].status
  <2>1. \A row \in PaymentRow : /\ [row EXCEPT !.status = "refunded"].order = row.order
                                /\ [row EXCEPT !.status = "refunded"].amount = row.amount
                                /\ [row EXCEPT !.status = "refunded"].status = "refunded"
    BY DEF PaymentRow
  <2> QED BY <1>1, <2>1
<1>3. PaidPayments(o)' = {} BY <1>2 DEF PaidPayments, PaymentsOf
<1>4. ASSUME NEW x \in Orders, x # o
      PROVE  IsFiniteSet(PaidPayments(x)') /\ paid'[x] = SumFunctionOnSet(Amounts', PaidPayments(x)')
  <2>1. PaidPayments(x)' = PaidPayments(x) /\ paid'[x] = paid[x] /\ PaidPayments(x) \subseteq Payments
    BY <1>1, <1>2, <1>4 DEF PaidPayments, PaymentsOf
  <2> QED BY <1>2, <2>1, PaidKept
<1>5. IsFiniteSet(PaidPayments(o)') /\ paid'[o] = SumFunctionOnSet(Amounts', PaidPayments(o)')
  BY <1>1, <1>3, FS_EmptySet, SumOfNone
<1> QED BY <1>4, <1>5 DEF PaidInv, PaidIsSumOfPayments

LEMMA PaidStep == PaidInv /\ [Next]_vars => PaidInv'
<1> SUFFICES ASSUME PaidInv, [Next]_vars PROVE PaidInv' OBVIOUS
<1> USE ConstantTypes
<1>1. Inv' BY InvStep DEF PaidInv
<1>2. CASE UNCHANGED <<paid, payment>>
  BY <1>1, <1>2 DEF PaidInv, PaidIsSumOfPayments, PaidPayments, PaymentsOf, Amounts
<1>3. ASSUME NEW p \in Payments, NEW o \in Orders, NEW amount \in PayAmounts, NEW st \in PayStatuses,
             RecordPayment(p, o, amount, st)
      PROVE  PaidInv'
  <2>1. amount \in Nat /\ st \in PaymentStatuses OBVIOUS
  <2> QED BY <1>1, <1>3, <2>1, PaidAdds DEF RecordPayment
<1>4. ASSUME NEW p \in Payments, NEW o \in Orders, NEW amount \in CodAmounts,
             ReconcileCod(o, p, amount)
      PROVE  PaidInv'
  <2>1. amount \in Nat /\ "paid" \in PaymentStatuses BY DEF PaymentStatuses
  <2> QED BY <1>1, <1>4, <2>1, PaidAdds DEF ReconcileCod
<1>5. ASSUME NEW o \in Orders, RefundOrder(o) PROVE PaidInv' BY <1>1, <1>5, PaidCleared
<1>6. \/ UNCHANGED <<paid, payment>>
      \/ \E o \in Orders : RefundOrder(o)
      \/ \E p \in Payments, o \in Orders, amount \in PayAmounts, st \in PayStatuses :
           RecordPayment(p, o, amount, st)
      \/ \E p \in Payments, o \in Orders, amount \in CodAmounts : ReconcileCod(o, p, amount)
  BY DEF Next, OrderStep, DeliveryStep, FinanceStep, OfficeStep, orderVars, vars,
         CreateOrder, ChangeOrderStatus, CreateAssignment, ReassignAssignment,
         ChangeAssignmentStatus, SubmitCod, RejectCod, ApproveVendorItem, RejectVendorItem,
         CreateVendorSettlement, ReverseJournal, SetPeriodStatus, SetRiderActive
<1> QED BY <1>2, <1>3, <1>4, <1>5, <1>6

\* paid_minor, which payments and collections add to and a refund resets, is
\* the sum of the payments of the order that have the status "paid".
THEOREM PaidIsSum == Spec => []PaidIsSumOfPayments
<1>1. PaidInv => PaidIsSumOfPayments BY DEF PaidInv
<1> QED BY <1>1, PaidInit, PaidStep, PTL DEF Spec

--------------------
(* Vendors are not overdrawn.  Both this and what a refund leaves standing *)
(* fail once staff reverse the journals concerned by hand, so the theorems *)
(* exclude those corrections as the run two_orders does. *)

\* The inductive invariant: an approval is posted once and stands while its
\* line is approved or paid, and a settlement that stands only holds lines
\* whose approval stands.
LinesStand ==
  /\ \A i \in Items : /\ chain[ApprovalEvent(i)] <= 2
                      /\ finance[i] \in {"approved", "paid"} => chain[ApprovalEvent(i)] = 1
  /\ \A s \in Settlements : /\ chain[SettlementEvent(s)] <= 2
                            /\ SettledItems(s) = {} => chain[SettlementEvent(s)] = 0
  /\ \A i \in Items :
       settlementOf[i] # None /\ chain[SettlementEvent(settlementOf[i])] = 1 =>
         chain[ApprovalEvent(i)] = 1

\* A step that posts nothing for lines and settlements, and neither approves
\* nor pays a line, keeps it.
LEMMA LinesStandQuietly ==
  ASSUME Inv, LinesStand, UNCHANGED settlementOf,
         \A i \in Items : finance'[i] \in {"approved", "paid"} => finance'[i] = finance[i],
         \A i \in Items : chain'[ApprovalEvent(i)] = chain[ApprovalEvent(i)],
         \A s \in Settlements : chain'[SettlementEvent(s)] = chain[SettlementEvent(s)]
  PROVE  LinesStand'
<1>1. \A i \in Items : settlementOf[i] # None => settlementOf[i] \in Settlements BY DEF Inv, TypeOK
<1>2. \A s \in Settlements : SettledItems(s)' = SettledItems(s) BY DEF SettledItems
<1> QED BY <1>1, <1>2 DEF LinesStand

LEMMA LinesStandPayment ==
  ASSUME Inv, LinesStand, NEW p \in Payments, NEW o \in Orders, NEW amount \in Nat, NEW st,
         NEW r, AddPayment(p, o, amount, st, r),
         NEW E \in SUBSET {PaymentEvent(p), EarningEvent(o)}, chain' = AddJournals(E),
         UNCHANGED settlementOf
  PROVE  LinesStand'
<1> USE ConstantTypes
<1>1. \A e \in Events : chain'[e] = IF e \in E THEN chain[e] + 1 ELSE chain[e]
  BY JournalsAdded DEF Inv
<1>2. /\ \A i \in Items : chain'[ApprovalEvent(i)] = chain[ApprovalEvent(i)]
      /\ \A s \in Settlements : chain'[SettlementEvent(s)] = chain[SettlementEvent(s)]
  BY <1>1, EventTypes, EventsDiffer
<1>3. \A i \in Items : finance'[i] = finance[i] \/ finance'[i] = "eligible"
  BY DEF AddPayment, Refreshed
<1> QED BY <1>2, <1>3, LinesStandQuietly

LEMMA LinesStandApproval ==
  ASSUME Inv, LinesStand, NEW i \in Items, ApproveVendorItem(i)
  PROVE  LinesStand'
<1> USE DEF Inv
<1>1. /\ finance[i] = "eligible" /\ UNCHANGED settlementOf
      /\ \A j \in Items : j # i => finance'[j] = finance[j]
      /\ chain' = AddJournals({ApprovalEvent(i)})
  BY DEF ApproveVendorItem, TypeOK
<1>2. chain[ApprovalEvent(i)] = 0 /\ settlementOf[i] = None BY <1>1 DEF ReviewMatchesLedger
<1>3. \A e \in Events : chain'[e] = IF e \in {ApprovalEvent(i)} THEN chain[e] + 1 ELSE chain[e]
  BY <1>1, JournalsAdded
<1>4. /\ chain'[ApprovalEvent(i)] = 1
      /\ \A j \in Items : j # i => chain'[ApprovalEvent(j)] = chain[ApprovalEvent(j)]
      /\ \A s \in Settlements : chain'[SettlementEvent(s)] = chain[SettlementEvent(s)]
  BY <1>2, <1>3, EventTypes, EventsDiffer
<1>5. \A s \in Settlements : SettledItems(s)' = SettledItems(s) BY <1>1 DEF SettledItems
<1>6. \A j \in Items : settlementOf[j] # None => settlementOf[j] \in Settlements BY DEF TypeOK
<1> QED BY <1>1, <1>2, <1>4, <1>5, <1>6 DEF LinesStand

LEMMA LinesStandSettlement ==
  ASSUME Inv, LinesStand, NEW s \in Settlements, NEW v \in Vendors, NEW batch,
         CreateVendorSettlement(s, v, batch)
  PROVE  LinesStand'
<1> USE NullIsNoRow DEF Inv
<1>1. /\ SettledItems(s) = {} /\ batch # {}
      /\ \A i \in batch : i \in Items /\ settlementOf[i] = None /\ finance[i] = "approved"
      /\ \A i \in Items : settlementOf'[i] = IF i \in batch THEN s ELSE settlementOf[i]
      /\ \A i \in Items : finance'[i] = IF i \in batch THEN "paid" ELSE finance[i]
      /\ chain' = AddJournals({SettlementEvent(s)})
  BY DEF CreateVendorSettlement, Unsettled
<1>2. \A e \in Events : chain'[e] = IF e \in {SettlementEvent(s)} THEN chain[e] + 1 ELSE chain[e]
  BY <1>1, JournalsAdded
<1>3. /\ \A i \in Items : chain'[ApprovalEvent(i)] = chain[ApprovalEvent(i)]
      /\ \A t \in Settlements : t # s => chain'[SettlementEvent(t)] = chain[SettlementEvent(t)]
      /\ chain'[SettlementEvent(s)] = 1
  <2>1. /\ \A i \in Items : ApprovalEvent(i) # SettlementEvent(s)
        /\ \A t \in Settlements : t # s => SettlementEvent(t) # SettlementEvent(s)
    BY EventsDiffer
  <2>2. chain[SettlementEvent(s)] = 0 BY <1>1 DEF LinesStand
  <2> QED BY <1>2, <2>1, <2>2, EventTypes
<1>4. \A i \in Items : /\ settlementOf[i] # None => settlementOf[i] \in Settlements
                       /\ settlementOf[i] # s
  BY <1>1 DEF TypeOK, SettledItems
<1>5. \A t \in Settlements : SettledItems(t)' = {} => SettledItems(t) = {} /\ t # s
  BY <1>1 DEF SettledItems
<1>6. ASSUME NEW i \in Items, settlementOf'[i] # None, chain'[SettlementEvent(settlementOf'[i])] = 1
      PROVE  chain'[ApprovalEvent(i)] = 1
  <2>1. CASE i \in batch BY <1>1, <1>3, <2>1 DEF LinesStand
  <2>2. CASE i \notin batch BY <1>1, <1>3, <1>4, <1>6, <2>2 DEF LinesStand
  <2> QED BY <2>1, <2>2
<1>7. \A i \in Items : /\ chain'[ApprovalEvent(i)] <= 2
                       /\ finance'[i] \in {"approved", "paid"} => chain'[ApprovalEvent(i)] = 1
  BY <1>1, <1>3 DEF LinesStand
<1>8. \A t \in Settlements : /\ chain'[SettlementEvent(t)] <= 2
                             /\ SettledItems(t)' = {} => chain'[SettlementEvent(t)] = 0
  BY <1>3, <1>5 DEF LinesStand
<1> QED BY <1>6, <1>7, <1>8 DEF LinesStand

\* A refund takes the approvals of the order back together with every
\* settlement one of its lines is in.
LEMMA LinesStandRefund ==
  ASSUME Inv, LinesStand, NEW o \in Orders, RefundOrder(o)
  PROVE  LinesStand'
<1> USE ConstantTypes DEF Inv
<1>1. /\ \A i \in Items : finance'[i] =
           IF OrderOf[i] = o /\ finance[i] \in {"eligible", "approved", "paid"}
           THEN "reversed" ELSE finance[i]
      /\ chain' = AddJournals(RefundJournals(o))
      /\ UNCHANGED settlementOf
  BY DEF RefundOrder
<1>2. \A e \in Events :
        chain'[e] = IF e \in RefundJournals(o) THEN chain[e] + 1 ELSE chain[e]
  BY <1>1, JournalsAdded
<1>3. /\ \A i \in Items : ApprovalEvent(i) \in RefundJournals(o) <=>
           OrderOf[i] = o /\ chain[ApprovalEvent(i)] = 1
      /\ \A s \in Settlements : SettlementEvent(s) \in RefundJournals(o) <=>
           chain[SettlementEvent(s)] = 1 /\ \E i \in ItemsOf(o) : settlementOf[i] = s
  <2>1. \A i \in Items : ApprovalEvent(i) \in RefundJournals(o) <=>
          ApprovalEvent(i) \in ApprovalOriginals(o) /\ Original(ApprovalEvent(i))
    BY EventsDiffer DEF RefundJournals, PaymentOriginals, SettlementOriginals
  <2>2. \A i \in Items : ApprovalEvent(i) \in ApprovalOriginals(o) <=> OrderOf[i] = o
    BY EventsDiffer DEF ApprovalOriginals, ItemsOf
  <2>3. \A s \in Settlements : SettlementEvent(s) \in RefundJournals(o) <=>
          SettlementEvent(s) \in SettlementOriginals(o) /\ Original(SettlementEvent(s))
    BY EventsDiffer DEF RefundJournals, PaymentOriginals, ApprovalOriginals
  <2>4. \A s \in Settlements : SettlementEvent(s) \in SettlementOriginals(o) <=>
          \E i \in ItemsOf(o) : settlementOf[i] = s
    BY EventsDiffer, NullIsNoRow DEF SettlementOriginals
  <2> QED BY <2>1, <2>2, <2>3, <2>4 DEF Original
<1>4. /\ \A i \in Items : chain[ApprovalEvent(i)] \in Nat
      /\ \A s \in Settlements : chain[SettlementEvent(s)] \in Nat
      /\ \A i \in Items : settlementOf[i] # None => settlementOf[i] \in Settlements
  BY EventTypes DEF TypeOK
<1>5. /\ \A i \in Items : chain'[ApprovalEvent(i)] =
           IF OrderOf[i] = o /\ chain[ApprovalEvent(i)] = 1 THEN 2 ELSE chain[ApprovalEvent(i)]
      /\ \A s \in Settlements : chain'[SettlementEvent(s)] =
           IF chain[SettlementEvent(s)] = 1 /\ \E i \in ItemsOf(o) : settlementOf[i] = s
           THEN 2 ELSE chain[SettlementEvent(s)]
  BY <1>2, <1>3, <1>4, EventTypes
<1>6. \A s \in Settlements : SettledItems(s)' = SettledItems(s) BY <1>1 DEF SettledItems
<1>7. ASSUME NEW i \in Items, settlementOf[i] # None, chain'[SettlementEvent(settlementOf[i])] = 1
      PROVE  chain'[ApprovalEvent(i)] = 1
  <2>1. /\ chain[SettlementEvent(settlementOf[i])] = 1
        /\ \A j \in ItemsOf(o) : settlementOf[j] # settlementOf[i]
    BY <1>4, <1>5, <1>7
  <2>2. OrderOf[i] # o BY <2>1 DEF ItemsOf
  <2> QED BY <1>5, <1>7, <2>1, <2>2 DEF LinesStand
<1>8. \A i \in Items : /\ chain'[ApprovalEvent(i)] <= 2
                       /\ finance'[i] \in {"approved", "paid"} => chain'[ApprovalEvent(i)] = 1
  BY <1>1, <1>5 DEF LinesStand
<1>9. \A s \in Settlements : /\ chain'[SettlementEvent(s)] <= 2
                             /\ SettledItems(s)' = {} => chain'[SettlementEvent(s)] = 0
  BY <1>5, <1>6 DEF LinesStand
<1> QED BY <1>1, <1>7, <1>8, <1>9 DEF LinesStand

\* The hypothesis: staff reverse no journal of these events by hand.
LinesUncorrected == Correctable \cap {"approval", "settlement"} = {}

LEMMA LinesStandStep ==
  ASSUME LinesUncorrected PROVE Inv /\ LinesStand /\ [Next]_vars => LinesStand'
<1> SUFFICES ASSUME Inv, LinesStand, [Next]_vars PROVE LinesStand' OBVIOUS
<1> USE ConstantTypes DEF vendorVars
<1>1. ASSUME UNCHANGED <<settlementOf, chain>>,
             \A i \in Items : finance'[i] \in {"approved", "paid"} => finance'[i] = finance[i]
      PROVE  LinesStand'
  BY <1>1, LinesStandQuietly
<1>2. CASE UNCHANGED vars BY <1>1, <1>2 DEF vars
<1>3. CASE OrderStep
  <2>1. ASSUME NEW o \in Orders, CreateOrder(o) PROVE LinesStand' BY <1>1, <2>1 DEF CreateOrder
  <2>2. ASSUME NEW o \in Orders, NEW target, ChangeOrderStatus(o, target) PROVE LinesStand'
    BY <1>1, <2>2 DEF ChangeOrderStatus
  <2>3. ASSUME NEW p \in Payments, NEW o \in Orders, NEW amount \in PayAmounts,
               NEW st \in PayStatuses, RecordPayment(p, o, amount, st)
        PROVE  LinesStand'
    <3> DEFINE E == IF st = "paid" THEN {PaymentEvent(p)} ELSE {}
    <3>1. chain' = AddJournals(E) /\ AddPayment(p, o, amount, st, None) /\ UNCHANGED settlementOf
      BY <2>3 DEF RecordPayment, AddJournals, Inv, TypeOK
    <3>2. E \in SUBSET {PaymentEvent(p), EarningEvent(o)} /\ amount \in Nat OBVIOUS
    <3> HIDE DEF E
    <3> QED BY <3>1, <3>2, LinesStandPayment
  <2> QED BY <1>3, <2>1, <2>2, <2>3, LinesStandRefund DEF OrderStep
<1>4. CASE DeliveryStep
  <2>1. ASSUME NEW o \in Orders, NEW target, ChangeAssignmentStatus(o, target) PROVE LinesStand'
    <3>1. \A i \in Items : finance'[i] = finance[i] \/ finance'[i] = "eligible"
      BY <2>1 DEF ChangeAssignmentStatus, Refreshed
    <3> QED BY <1>1, <2>1, <3>1 DEF ChangeAssignmentStatus
  <2>2. ASSUME NEW o \in Orders, NEW p \in Payments, NEW amount \in CodAmounts,
               ReconcileCod(o, p, amount)
        PROVE  LinesStand'
    <3> DEFINE E == {PaymentEvent(p)} \cup
                      (IF Fee[collection[o].rider] > 0 THEN {EarningEvent(o)} ELSE {})
    <3>1. /\ chain' = AddJournals(E) /\ AddPayment(p, o, amount, "paid", collection[o].rider)
          /\ UNCHANGED settlementOf
      BY <2>2 DEF ReconcileCod
    <3>2. E \in SUBSET {PaymentEvent(p), EarningEvent(o)} /\ amount \in Nat OBVIOUS
    <3> HIDE DEF E
    <3> QED BY <3>1, <3>2, LinesStandPayment
  <2>3. \/ UNCHANGED <<settlementOf, chain, finance>>
        \/ \E o \in Orders, target \in DeliveryStatuses : ChangeAssignmentStatus(o, target)
        \/ \E o \in Orders, p \in Payments, amount \in CodAmounts : ReconcileCod(o, p, amount)
    BY <1>4 DEF DeliveryStep, CreateAssignment, ReassignAssignment, SubmitCod, RejectCod
  <2> QED BY <1>1, <2>1, <2>2, <2>3
<1>5. CASE FinanceStep
  <2>1. ASSUME NEW i \in Items, RejectVendorItem(i) PROVE LinesStand'
    <3>1. \A j \in Items : finance'[j] = finance[j] \/ finance'[j] = "rejected"
      BY <2>1 DEF RejectVendorItem, Inv, TypeOK
    <3> QED BY <1>1, <2>1, <3>1 DEF RejectVendorItem
  <2>2. ASSUME NEW e \in Events, ReverseJournal(e) PROVE LinesStand'
    <3>1. e.kind \notin {"approval", "settlement"} /\ chain' = AddJournals({e})
      BY <2>2 DEF ReverseJournal, LinesUncorrected
    <3>2. \A x \in Events : chain'[x] = IF x \in {e} THEN chain[x] + 1 ELSE chain[x]
      BY <3>1, JournalsAdded DEF Inv
    <3>3. /\ \A i \in Items : ApprovalEvent(i) # e
          /\ \A s \in Settlements : SettlementEvent(s) # e
      BY <3>1 DEF ApprovalEvent, SettlementEvent
    <3> QED BY <2>2, <3>2, <3>3, EventTypes, LinesStandQuietly DEF ReverseJournal
  <2> QED BY <1>5, <2>1, <2>2, LinesStandApproval, LinesStandSettlement DEF FinanceStep
<1>6. CASE OfficeStep BY <1>1, <1>6 DEF OfficeStep, SetPeriodStatus, SetRiderActive
<1> QED BY <1>2, <1>3, <1>4, <1>5, <1>6 DEF Next

\* The image of a finite set under a function.
LEMMA ImageFinite ==
  ASSUME NEW S, IsFiniteSet(S), NEW f
  PROVE  IsFiniteSet({f[x] : x \in S})
<1> DEFINE T == {f[x] : x \in S}
           g == [x \in S |-> f[x]]
<1>1. g \in Surjection(S, T) BY DEF Surjection
<1> HIDE DEF T, g
<1>2. IsFiniteSet(T) BY <1>1, FS_Surjection
<1> QED BY <1>2 DEF T

\* A posted payable is odd: chains of at most two journals are read off at once.
LEMMA StandsWhenOne ==
  ASSUME NEW e, chain[e] \in Nat, chain[e] <= 2
  PROVE  Stands(e) <=> chain[e] = 1
<1>1. chain[e] = 0 \/ chain[e] = 1 \/ chain[e] = 2 OBVIOUS
<1> QED BY <1>1 DEF Stands

\* What the settlements of a vendor pay is at most what was approved for him.
LEMMA PayableCovered == Inv /\ LinesStand => VendorNeverOverdrawn
<1> SUFFICES ASSUME Inv, LinesStand, NEW v \in Vendors PROVE VendorPayable(v) >= 0
  BY DEF VendorNeverOverdrawn
<1> DEFINE mine == {i \in Items : VendorOf[i] = v}
           images == {settlementOf[i] : i \in mine}
           batches == images \ {None}
           inBatches == {i \in Items : settlementOf[i] \in batches}
           outside == mine \ inBatches
           approved == [i \in Items |-> Net(ApprovalEvent(i), Payable[i])]
           settled == [s \in Settlements |-> Net(SettlementEvent(s), SettlementTotal(s))]
           covers(i) == settlementOf[i] # None /\ Stands(SettlementEvent(settlementOf[i]))
           taken == [i \in Items |-> IF covers(i) THEN Payable[i] ELSE 0]
<1>1. IsFiniteSet(Items) /\ IsFiniteSet(mine) /\ IsFiniteSet(images)
  <2>1. IsFiniteSet(Items) /\ mine \subseteq Items BY FiniteLines
  <2>2. IsFiniteSet(mine)
    <3> HIDE DEF mine
    <3> QED BY <2>1, FS_Subset
  <2> HIDE DEF mine
  <2> QED BY <2>1, <2>2, ImageFinite
<1>2. IsFiniteSet(batches)
  <2> HIDE DEF images
  <2> QED BY <1>1, FS_Subset
<1>3. /\ \A i \in Items : Payable[i] \in Nat /\ chain[ApprovalEvent(i)] \in Nat
      /\ \A s \in Settlements : chain[SettlementEvent(s)] \in Nat
      /\ \A i \in Items : settlementOf[i] # None => settlementOf[i] \in Settlements
  BY ConstantTypes, EventTypes DEF Inv, TypeOK
<1>4. \A i \in Items : taken[i] \in Int /\ approved[i] \in Int /\ taken[i] <= approved[i]
  <2> SUFFICES ASSUME NEW i \in Items
               PROVE  taken[i] \in Int /\ approved[i] \in Int /\ taken[i] <= approved[i]
    OBVIOUS
  <2>1. taken[i] = (IF covers(i) THEN Payable[i] ELSE 0)
        /\ approved[i] = Net(ApprovalEvent(i), Payable[i])
    OBVIOUS
  <2>2. covers(i) => Stands(ApprovalEvent(i))
    <3>1. covers(i) => chain[SettlementEvent(settlementOf[i])] = 1
      BY <1>3, StandsWhenOne DEF LinesStand
    <3>2. covers(i) => chain[ApprovalEvent(i)] = 1 BY <3>1 DEF LinesStand
    <3> QED BY <1>3, <3>2, StandsWhenOne
  <2> HIDE DEF taken, approved
  <2> QED BY <1>3, <2>1, <2>2 DEF Net
<1>5. \A s \in batches : settled[s] = SumFunctionOnSet(taken, SettledItems(s))
  <2> SUFFICES ASSUME NEW s \in batches
               PROVE  settled[s] = SumFunctionOnSet(taken, SettledItems(s))
    OBVIOUS
  <2>1. s # None /\ s \in Settlements BY <1>3
  <2>2. settled[s] = IF Stands(SettlementEvent(s)) THEN SumFunctionOnSet(Payable, SettledItems(s))
                     ELSE 0
    BY <2>1 DEF Net, SettlementTotal
  <2>3. IsFiniteSet(SettledItems(s)) /\ SettledItems(s) \subseteq Items
    <3>1. SettledItems(s) \subseteq Items BY DEF SettledItems
    <3> QED BY <1>1, <3>1, FS_Subset
  <2>4. \A i \in SettledItems(s) : taken[i] = IF Stands(SettlementEvent(s)) THEN Payable[i] ELSE 0
    BY <2>1 DEF SettledItems
  <2> HIDE DEF settled, taken, batches
  <2>5. CASE Stands(SettlementEvent(s))
    <3>1. \A i \in SettledItems(s) : Payable[i] \in Int /\ taken[i] = Payable[i]
      BY <1>3, <2>3, <2>4, <2>5
    <3>2. SumFunctionOnSet(Payable, SettledItems(s)) = SumFunctionOnSet(taken, SettledItems(s))
      BY <2>3, <3>1, SumAgrees
    <3> QED BY <2>2, <2>5, <3>2
  <2>6. CASE ~Stands(SettlementEvent(s))
    <3>1. \A i \in SettledItems(s) : taken[i] = 0 BY <2>4, <2>6
    <3>2. SumFunctionOnSet(taken, SettledItems(s)) = 0 BY <2>3, <3>1, SumOfZeros
    <3> QED BY <2>2, <2>6, <3>2
  <2> QED BY <2>5, <2>6
<1>6. inBatches \subseteq mine /\ mine = inBatches \cup outside /\ inBatches \cap outside = {}
  BY DEF Inv, ReviewMatchesLedger, SettledItems
<1>7. \A i \in outside : taken[i] = 0 OBVIOUS
<1>8. VendorPayable(v) = SumFunctionOnSet(approved, mine) - SumFunctionOnSet(settled, batches)
  BY DEF VendorPayable
<1>9. mine \subseteq Items OBVIOUS
<1>10. SumFunctionOnSet(settled, batches) = SumFunctionOnSet(taken, inBatches)
  <2> HIDE DEF settled, taken, batches, approved
  <2> DEFINE group == [s \in batches |-> SettledItems(s)]
  <2>1. IsFiniteSet(Items) /\ IsFiniteSet(batches) /\ \A i \in Items : taken[i] \in Int
    BY <1>1, <1>2, <1>4
  <2>2. Groups(group, settlementOf, Items, batches, inBatches) BY DEF SettledItems, Groups
  <2>3. \A s \in batches : settled[s] = SumFunctionOnSet(taken, group[s]) BY <1>5
  <2> HIDE DEF inBatches, group
  <2> QED BY <2>1, <2>2, <2>3, SumOfGroups
<1> HIDE DEF mine, images, batches, inBatches, outside, approved, settled, taken
<1>11. SumFunctionOnSet(taken, mine) = SumFunctionOnSet(taken, inBatches)
  <2>1. IsFiniteSet(inBatches) /\ IsFiniteSet(outside) /\ outside \subseteq mine
    BY <1>1, <1>6, FS_Subset
  <2>2. SumFunctionOnSet(taken, outside) = 0 BY <1>7, <2>1, SumOfZeros
  <2>3. \A i \in inBatches \cup outside : taken[i] \in Int BY <1>4, <1>6, <1>9
  <2>4. SumFunctionOnSet(taken, mine)
          = SumFunctionOnSet(taken, inBatches) + SumFunctionOnSet(taken, outside)
    BY <1>6, <2>1, <2>3, SumOfUnion
  <2>5. SumFunctionOnSet(taken, inBatches) \in Int BY <2>1, <2>3, SumIsInt
  <2> QED BY <2>2, <2>4, <2>5
<1>12. /\ SumFunctionOnSet(approved, mine) \in Int /\ SumFunctionOnSet(taken, mine) \in Int
       /\ SumFunctionOnSet(taken, mine) <= SumFunctionOnSet(approved, mine)
  BY <1>1, <1>4, <1>9, SumBounds
<1> QED BY <1>8, <1>10, <1>11, <1>12

\* The ledger never pays a vendor more than was approved for him, whichever of
\* his orders share a settlement and whichever of them are refunded.
THEOREM NeverOverdrawn ==
  ASSUME LinesUncorrected PROVE Spec => []VendorNeverOverdrawn
<1>1. Init => LinesStand BY EventTypes DEF Init, LinesStand
<1>2. Inv /\ LinesStand /\ [Next]_vars => LinesStand' BY LinesStandStep
<1> QED BY <1>1, <1>2, InvAlways, PayableCovered, PTL DEF Spec

--------------------
(* A refunded order counts for nothing. *)

\* The inductive invariant: a payment is posted once, by the call that records
\* it; the rider earns for an order once, when his collection is reconciled,
\* and the refund of the order takes that back once.
PostedOnce ==
  /\ \A p \in Payments : /\ chain[PaymentEvent(p)] <= 2
                         /\ payment[p].status = "none" => chain[PaymentEvent(p)] = 0
  /\ \A o \in Orders :
       /\ chain[EarningEvent(o)] <= 1 /\ chain[DeductionEvent(o)] <= 1
       /\ Earned(o) => collection[o].status = "reconciled"
       /\ chain[DeductionEvent(o)] >= 1 => status[o] = "refunded" /\ Earned(o)

\* A step that posts neither payments nor rider entries keeps it.
LEMMA PostedOnceQuietly ==
  ASSUME PostedOnce,
         \A p \in Payments : payment'[p].status = "none" => payment[p].status = "none",
         \A o \in Orders : status[o] = "refunded" => status'[o] = "refunded",
         \A o \in Orders : collection[o].status = "reconciled" => collection'[o].status = "reconciled",
         \A p \in Payments : chain'[PaymentEvent(p)] = chain[PaymentEvent(p)],
         \A o \in Orders : chain'[EarningEvent(o)] = chain[EarningEvent(o)]
                          /\ chain'[DeductionEvent(o)] = chain[DeductionEvent(o)]
  PROVE  PostedOnce'
BY DEF PostedOnce, Earned

\* A payment, and with the rider's cash what he earned by it.
LEMMA PostedOncePayment ==
  ASSUME Inv, PostedOnce, NEW p \in Payments, NEW o \in Orders, NEW amount \in Nat,
         NEW st \in PaymentStatuses, NEW r, AddPayment(p, o, amount, st, r),
         NEW E \in SUBSET {PaymentEvent(p), EarningEvent(o)}, chain' = AddJournals(E),
         UNCHANGED status,
         \A x \in Orders : collection[x].status = "reconciled" => collection'[x].status = "reconciled",
         EarningEvent(o) \in E =>
           collection[o].status = "submitted" /\ collection'[o].status = "reconciled"
  PROVE  PostedOnce'
<1> USE DEF Inv
<1>1. \A e \in Events : chain'[e] = IF e \in E THEN chain[e] + 1 ELSE chain[e] BY JournalsAdded
<1>2. /\ payment[p].status = "none"
      /\ payment' = [payment EXCEPT ![p] = [order |-> o, amount |-> amount, status |-> st, rider |-> r]]
      /\ payment \in [Payments -> PaymentRow]
  BY DEF AddPayment, TypeOK
<1>3. /\ payment'[p].status # "none"
      /\ \A q \in Payments : q # p => payment'[q] = payment[q]
  BY <1>2 DEF PaymentStatuses
<1>4. /\ \A q \in Payments : q # p => chain'[PaymentEvent(q)] = chain[PaymentEvent(q)]
      /\ \A x \in Orders : x # o => chain'[EarningEvent(x)] = chain[EarningEvent(x)]
      /\ \A x \in Orders : chain'[DeductionEvent(x)] = chain[DeductionEvent(x)]
      /\ EarningEvent(o) \notin E => chain'[EarningEvent(o)] = chain[EarningEvent(o)]
  <2>1. /\ \A q \in Payments : q # p => PaymentEvent(q) \notin E
        /\ \A x \in Orders : x # o => EarningEvent(x) \notin E
        /\ \A x \in Orders : DeductionEvent(x) \notin E
    BY EventsDiffer DEF EarningEvent, DeductionEvent
  <2> QED BY <1>1, <2>1, EventTypes
<1>5. chain[PaymentEvent(p)] = 0 /\ chain'[PaymentEvent(p)] <= 2
  <2>1. chain[PaymentEvent(p)] = 0 BY <1>2 DEF PostedOnce
  <2> QED BY <1>1, <2>1, EventTypes
<1>6. EarningEvent(o) \in E =>
        chain[EarningEvent(o)] = 0 /\ chain'[EarningEvent(o)] = 1
  <2>1. chain[EarningEvent(o)] \in Nat BY EventTypes DEF TypeOK
  <2>2. EarningEvent(o) \in E => chain[EarningEvent(o)] = 0 BY <2>1 DEF PostedOnce, Earned
  <2> QED BY <1>1, <2>2, EventTypes
<1>7. \A q \in Payments : /\ chain'[PaymentEvent(q)] <= 2
                          /\ payment'[q].status = "none" => chain'[PaymentEvent(q)] = 0
  BY <1>3, <1>4, <1>5 DEF PostedOnce
<1>8. ASSUME NEW x \in Orders
      PROVE  /\ chain'[EarningEvent(x)] <= 1 /\ chain'[DeductionEvent(x)] <= 1
             /\ Earned(x)' => collection'[x].status = "reconciled"
             /\ chain'[DeductionEvent(x)] >= 1 => status'[x] = "refunded" /\ Earned(x)'
  <2>1. CASE x = o /\ EarningEvent(o) \in E BY <1>4, <1>6, <2>1 DEF PostedOnce, Earned
  <2>2. CASE ~(x = o /\ EarningEvent(o) \in E) BY <1>4, <2>2 DEF PostedOnce, Earned
  <2> QED BY <2>1, <2>2
<1> QED BY <1>7, <1>8 DEF PostedOnce

\* A refund reverses the payments and deducts what the rider earned.
LEMMA PostedOnceRefund ==
  ASSUME Inv, PostedOnce, NEW o \in Orders, RefundOrder(o)
  PROVE  PostedOnce'
<1> USE DEF Inv
<1>1. /\ status[o] # "refunded" /\ status'[o] = "refunded"
      /\ \A x \in Orders : x # o => status'[x] = status[x]
      /\ UNCHANGED collection
      /\ chain' = AddJournals(RefundJournals(o))
  BY DEF RefundOrder, TypeOK, deliveryVars
<1>2. \A e \in Events :
        chain'[e] = IF e \in RefundJournals(o) THEN chain[e] + 1 ELSE chain[e]
  BY <1>1, JournalsAdded
<1>3. \A p \in Payments : payment'[p].status = "none" => payment[p].status = "none"
  <2>1. \A row \in PaymentRow : [row EXCEPT !.status = "refunded"].status = "refunded"
    BY DEF PaymentRow
  <2> QED BY <2>1 DEF RefundOrder, TypeOK
<1>4. \A e \in Events : e \in RefundJournals(o) => chain[e] = 1 \/ (e = DeductionEvent(o) /\ Earned(o))
  BY DEF RefundJournals, Original
<1>5. \A e \in Events : chain[e] \in Nat BY DEF TypeOK
<1>6. \A p \in Payments : /\ chain'[PaymentEvent(p)] <= 2
                          /\ payment'[p].status = "none" => chain'[PaymentEvent(p)] = 0
  <2> TAKE p \in Payments
  <2>1. PaymentEvent(p) \in Events /\ PaymentEvent(p) # DeductionEvent(o)
    BY EventTypes, EventsDiffer
  <2>2. chain'[PaymentEvent(p)] = chain[PaymentEvent(p)]
          \/ (chain[PaymentEvent(p)] = 1 /\ chain'[PaymentEvent(p)] = 2)
    BY <1>2, <1>4, <2>1
  <2> QED BY <1>3, <2>2 DEF PostedOnce
<1>7. \A x \in Orders : EarningEvent(x) \notin RefundJournals(o)
  BY EventsDiffer DEF RefundJournals, PaymentOriginals, ApprovalOriginals, SettlementOriginals,
                      EarningEvent, DeductionEvent
<1>8. \A x \in Orders : DeductionEvent(x) \in RefundJournals(o) <=> x = o /\ Earned(o)
  BY EventsDiffer DEF RefundJournals, PaymentOriginals, ApprovalOriginals, SettlementOriginals,
                      DeductionEvent
<1>9. ASSUME NEW x \in Orders
      PROVE  /\ chain'[EarningEvent(x)] <= 1 /\ chain'[DeductionEvent(x)] <= 1
             /\ Earned(x)' => collection'[x].status = "reconciled"
             /\ chain'[DeductionEvent(x)] >= 1 => status'[x] = "refunded" /\ Earned(x)'
  <2>1. chain'[EarningEvent(x)] = chain[EarningEvent(x)] BY <1>2, <1>7, EventTypes
  <2>2. chain'[DeductionEvent(x)] = IF x = o /\ Earned(o) THEN chain[DeductionEvent(x)] + 1
                                    ELSE chain[DeductionEvent(x)]
    BY <1>2, <1>8, EventTypes
  <2>3. chain[DeductionEvent(x)] \in Nat BY <1>5, EventTypes
  <2>4. x = o => chain[DeductionEvent(x)] = 0 BY <1>1, <2>3 DEF PostedOnce
  <2> QED BY <1>1, <2>1, <2>2, <2>3, <2>4 DEF PostedOnce, Earned
<1> QED BY <1>6, <1>9 DEF PostedOnce

\* The hypothesis: staff reverse no journal of an order by hand.
Uncorrected == Correctable = {}

LEMMA PostedOnceStep ==
  ASSUME Uncorrected PROVE Inv /\ PostedOnce /\ [Next]_vars => PostedOnce'
<1> SUFFICES ASSUME Inv, PostedOnce, [Next]_vars PROVE PostedOnce' OBVIOUS
<1> USE ConstantTypes DEF orderVars, deliveryVars
<1>1. ASSUME UNCHANGED <<status, payment, chain>>,
             \A o \in Orders : collection[o].status = "reconciled" => collection'[o].status = "reconciled"
      PROVE  PostedOnce'
  BY <1>1, PostedOnceQuietly
<1>2. CASE UNCHANGED vars BY <1>1, <1>2 DEF vars
<1>3. CASE OrderStep
  <2>1. ASSUME NEW o \in Orders, CreateOrder(o) PROVE PostedOnce'
    BY <2>1, PostedOnceQuietly DEF CreateOrder, Inv, TypeOK
  <2>2. ASSUME NEW o \in Orders, NEW target, ChangeOrderStatus(o, target) PROVE PostedOnce'
    <3>1. status[o] # "refunded" BY <2>2 DEF ChangeOrderStatus, Transitions
    <3> QED BY <2>2, <3>1, PostedOnceQuietly DEF ChangeOrderStatus, Inv, TypeOK
  <2>3. ASSUME NEW p \in Payments, NEW o \in Orders, NEW amount \in PayAmounts,
               NEW st \in PayStatuses, RecordPayment(p, o, amount, st)
        PROVE  PostedOnce'
    <3> DEFINE E == IF st = "paid" THEN {PaymentEvent(p)} ELSE {}
    <3>1. /\ chain' = AddJournals(E) /\ AddPayment(p, o, amount, st, None)
          /\ UNCHANGED <<status, collection>>
      BY <2>3 DEF RecordPayment, AddJournals, Inv, TypeOK
    <3>2. E \in SUBSET {PaymentEvent(p), EarningEvent(o)} /\ amount \in Nat /\ st \in PaymentStatuses
      OBVIOUS
    <3>3. EarningEvent(o) \notin E BY EventsDiffer
    <3> HIDE DEF E
    <3> QED BY <3>1, <3>2, <3>3, PostedOncePayment
  <2> QED BY <1>3, <2>1, <2>2, <2>3, PostedOnceRefund DEF OrderStep
<1>4. CASE DeliveryStep
  <2>1. ASSUME NEW o \in Orders, NEW p \in Payments, NEW amount \in CodAmounts,
               ReconcileCod(o, p, amount)
        PROVE  PostedOnce'
    <3> DEFINE E == {PaymentEvent(p)} \cup
                      (IF Fee[collection[o].rider] > 0 THEN {EarningEvent(o)} ELSE {})
    <3>1. /\ chain' = AddJournals(E) /\ AddPayment(p, o, amount, "paid", collection[o].rider)
          /\ UNCHANGED status
      BY <2>1 DEF ReconcileCod
    <3>2. /\ E \in SUBSET {PaymentEvent(p), EarningEvent(o)} /\ amount \in Nat
          /\ "paid" \in PaymentStatuses
      BY DEF PaymentStatuses
    <3>3. /\ collection[o].status = "submitted" /\ collection'[o].status = "reconciled"
          /\ \A x \in Orders : x # o => collection'[x] = collection[x]
      <4>1. collection \in [Orders -> CollectionRow] BY DEF Inv, TypeOK
      <4>2. \A row \in CollectionRow :
              [[row EXCEPT !.status = "reconciled"] EXCEPT !.accepted = amount].status = "reconciled"
        BY DEF CollectionRow
      <4> QED BY <2>1, <4>1, <4>2 DEF ReconcileCod
    <3> HIDE DEF E
    <3> QED BY <3>1, <3>2, <3>3, PostedOncePayment
  <2>2. ASSUME NEW o \in Orders, (\E amount \in CodAmounts : SubmitCod(o, amount)) \/ RejectCod(o)
        PROVE  PostedOnce'
    <3>1. \A x \in Orders : collection[x].status = "reconciled" => collection'[x] = collection[x]
      BY <2>2 DEF SubmitCod, RejectCod, Inv, TypeOK
    <3> QED BY <1>1, <2>2, <3>1 DEF SubmitCod, RejectCod
  <2>3. \/ UNCHANGED <<status, payment, chain, collection>>
        \/ \E o \in Orders : (\E amount \in CodAmounts : SubmitCod(o, amount)) \/ RejectCod(o)
        \/ \E o \in Orders, p \in Payments, amount \in CodAmounts : ReconcileCod(o, p, amount)
    BY <1>4 DEF DeliveryStep, CreateAssignment, ReassignAssignment, ChangeAssignmentStatus
  <2> QED BY <1>1, <2>1, <2>2, <2>3
<1>5. CASE FinanceStep
  <2>1. ASSUME NEW E, \A e \in E : e.kind \in {"approval", "settlement"}, chain' = AddJournals(E),
               UNCHANGED <<status, payment, collection>>
        PROVE  PostedOnce'
    <3>1. \A e \in Events : chain'[e] = IF e \in E THEN chain[e] + 1 ELSE chain[e]
      BY <2>1, JournalsAdded DEF Inv
    <3>2. /\ \A p \in Payments : PaymentEvent(p) \notin E
          /\ \A o \in Orders : EarningEvent(o) \notin E /\ DeductionEvent(o) \notin E
      BY <2>1 DEF PaymentEvent, EarningEvent, DeductionEvent
    <3> QED BY <2>1, <3>1, <3>2, EventTypes, PostedOnceQuietly
  <2>2. ASSUME NEW i \in Items, ApproveVendorItem(i) PROVE PostedOnce'
    <3>1. \A e \in {ApprovalEvent(i)} : e.kind \in {"approval", "settlement"} BY DEF ApprovalEvent
    <3> QED BY <2>1, <2>2, <3>1 DEF ApproveVendorItem
  <2>3. ASSUME NEW s \in Settlements, NEW v \in Vendors, NEW batch, CreateVendorSettlement(s, v, batch)
        PROVE  PostedOnce'
    <3>1. \A e \in {SettlementEvent(s)} : e.kind \in {"approval", "settlement"}
      BY DEF SettlementEvent
    <3> QED BY <2>1, <2>3, <3>1 DEF CreateVendorSettlement
  <2>4. ASSUME NEW i \in Items, RejectVendorItem(i) PROVE PostedOnce'
    BY <1>1, <2>4 DEF RejectVendorItem
  <2>5. \A e \in Events : ~ReverseJournal(e) BY DEF ReverseJournal, Uncorrected
  <2> QED BY <1>5, <2>2, <2>3, <2>4, <2>5 DEF FinanceStep
<1>6. CASE OfficeStep BY <1>1, <1>6 DEF OfficeStep, SetPeriodStatus, SetRiderActive
<1> QED BY <1>2, <1>3, <1>4, <1>5, <1>6 DEF Next

\* A refunded order counts for nothing in the accounts: its payments, approvals
\* and settlements are all taken back, and so is what its rider earned.
THEOREM RefundedNets ==
  ASSUME Uncorrected PROVE Spec => []RefundedNetsToZero
<1>1. Init => LinesStand /\ PostedOnce BY EventTypes DEF Init, LinesStand, PostedOnce, Earned
<1>2. LinesUncorrected BY DEF Uncorrected, LinesUncorrected
<1>3. Inv /\ LinesStand /\ [Next]_vars => LinesStand' BY <1>2, LinesStandStep
<1>4. Inv /\ PostedOnce /\ [Next]_vars => PostedOnce' BY PostedOnceStep
<1>5. Inv /\ LinesStand /\ PostedOnce => RefundedNetsToZero
  <2> SUFFICES ASSUME Inv, LinesStand, PostedOnce, NEW o \in Orders, status[o] = "refunded"
               PROVE  /\ \A p \in PaymentsOf(o) : ~Stands(PaymentEvent(p))
                      /\ \A i \in ItemsOf(o) :
                           /\ ~Stands(ApprovalEvent(i))
                           /\ settlementOf[i] # None => ~Stands(SettlementEvent(settlementOf[i]))
                      /\ Stands(EarningEvent(o)) <=> Stands(DeductionEvent(o))
    BY DEF RefundedNetsToZero
  <2>1. \A e \in Events : chain[e] \in Nat /\ (chain[e] <= 2 => (Stands(e) <=> chain[e] = 1))
    BY StandsWhenOne DEF Inv, TypeOK
  <2>2. /\ PaymentsOf(o) \subseteq Payments /\ ItemsOf(o) \subseteq Items
        /\ \A i \in Items : settlementOf[i] # None => settlementOf[i] \in Settlements
    BY DEF PaymentsOf, ItemsOf, Inv, TypeOK
  <2>3. \A p \in PaymentsOf(o) : ~Stands(PaymentEvent(p))
    <3>1. \A p \in PaymentsOf(o) : chain[PaymentEvent(p)] # 1 /\ chain[PaymentEvent(p)] <= 2
      BY <2>2 DEF Inv, RefundReversesOriginals, Original, PostedOnce
    <3> QED BY <2>1, <2>2, <3>1, EventTypes
  <2>4. \A i \in ItemsOf(o) :
          /\ ~Stands(ApprovalEvent(i))
          /\ settlementOf[i] # None => ~Stands(SettlementEvent(settlementOf[i]))
    <3>1. \A i \in ItemsOf(o) :
            /\ chain[ApprovalEvent(i)] # 1 /\ chain[ApprovalEvent(i)] <= 2
            /\ settlementOf[i] # None => /\ chain[SettlementEvent(settlementOf[i])] # 1
                                         /\ chain[SettlementEvent(settlementOf[i])] <= 2
      BY <2>2 DEF Inv, RefundReversesOriginals, Original, LinesStand
    <3> QED BY <2>1, <2>2, <3>1, EventTypes
  <2>5. Stands(EarningEvent(o)) <=> Stands(DeductionEvent(o))
    <3>1. /\ chain[EarningEvent(o)] <= 1 /\ chain[DeductionEvent(o)] <= 1
          /\ chain[EarningEvent(o)] \in Nat /\ chain[DeductionEvent(o)] \in Nat
          /\ chain[EarningEvent(o)] >= 1 <=> chain[DeductionEvent(o)] >= 1
      BY <2>1, EventTypes DEF PostedOnce, Inv, RefundReversesOriginals, Earned
    <3> QED BY <2>1, <3>1, EventTypes
  <2> QED BY <2>3, <2>4, <2>5
<1> QED BY <1>1, <1>3, <1>4, <1>5, InvAlways, PTL DEF Spec

=============================================================================
