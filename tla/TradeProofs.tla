----------------------------- MODULE TradeProofs -----------------------------
(***************************************************************************)
(* Proofs about what is sold and paid for, for any number of sessions and  *)
(* calls that overlap: the stock of a vendor's product, the payments and   *)
(* the status of an order, the lines of a vendor and what they are paid,   *)
(* the cash of a rider, the stock and the bills of a vendor's shop, the    *)
(* vendor and the media of a product.                                      *)
(***************************************************************************)
EXTENDS VendorStock, OrderSessions, VendorLines, RiderCash, ShopStock, VendorCatalogue,
        ProductImages, ProductVideos, MediaQueue, SumLemmas,
        SequenceTheorems, FiniteSetTheorems, FunctionTheorems, TLAPS

--------------------
\* VendorStock: the balance of a product is the sum of its movements.
(* What the row lock is for: one session holds the row, and what it read is what is there. *)
OneHolder == \A s, t \in StockSessions :
  posting[s].phase = "locked" /\ posting[t].phase = "locked" => s = t
ReadIsCurrent == \A s \in StockSessions :
  posting[s].phase = "locked" => posting[s].before = balance.quantity
\* A session without the row has read nothing yet, and a balance without a row is nothing.
ReadNothing == /\ \A s \in StockSessions :
                    posting[s].phase \in {"looking", "inserting"} => posting[s].before = Nothing
               /\ ~balance.there => balance.quantity = Nothing

LockInv == VendorStockTypeOK /\ VendorStockSound /\ OneHolder /\ ReadIsCurrent /\ ReadNothing

--------------------
(* Adding a movement to a quantity gives a quantity. *)
LEMMA PlusIsQuantity ==
  ASSUME NEW q \in Quantities, NEW d \in Deltas
  PROVE  Plus(q, d) \in Quantities
BY VendorStockAssumption DEF Quantities, Plus

LEMMA NothingIsQuantity == Nothing \in Quantities /\ Sufficient(Nothing)
BY DEF Nothing, Quantities, Sufficient

(* Nobody waits in a locked phase without being an open request. *)
LEMMA IdleIsUnlocked == NoPosting.phase \notin Phases
BY DEF NoPosting, Phases

LEMMA PostingTyped ==
  ASSUME VendorStockTypeOK, NEW s \in StockSessions, posting[s].phase \in Phases
  PROVE  /\ posting[s] \in Posting /\ posting[s].key \in MoveKeys
         /\ posting[s].delta \in Deltas /\ posting[s].before \in Quantities
BY IdleIsUnlocked DEF VendorStockTypeOK, Posting, Phases

LEMMA LockInit == VendorStockInit => LockInv
BY NothingIsQuantity DEF VendorStockInit, LockInv, VendorStockTypeOK, VendorStockSound,
     BalanceIsSum, NeverShort, OneHolder, ReadIsCurrent, ReadNothing, NoPosting

--------------------
(* A request that begins holds nothing. *)
LEMMA BeginMoveStep ==
  ASSUME LockInv, NEW s \in StockSessions, BeginMove(s)
  PROVE  LockInv'
<1>1. PICK k \in MoveKeys \ posted, d \in Deltas :
         posting' = [posting EXCEPT ![s] = [phase |-> "looking", key |-> k, delta |-> d,
                                            before |-> Nothing]]
  BY DEF BeginMove
<1>2. [phase |-> "looking", key |-> k, delta |-> d, before |-> Nothing] \in Posting
  BY NothingIsQuantity DEF Posting, Phases
<1>3. VendorStockTypeOK' BY <1>1, <1>2 DEF BeginMove, LockInv, VendorStockTypeOK
<1>4. \A t \in StockSessions : posting'[t].phase = "locked" =>
        t # s /\ posting'[t] = posting[t]
  BY <1>1 DEF LockInv, VendorStockTypeOK
<1>5. OneHolder' /\ ReadIsCurrent' BY <1>4 DEF BeginMove, LockInv, OneHolder, ReadIsCurrent
<1>6. ReadNothing' BY <1>1 DEF BeginMove, LockInv, ReadNothing, VendorStockTypeOK
<1> QED BY <1>3, <1>5, <1>6 DEF BeginMove, LockInv, VendorStockSound, BalanceIsSum, NeverShort

(* The row is locked and read in one step: the reader is its only holder. *)
LEMMA LockBalanceStep ==
  ASSUME LockInv, NEW s \in StockSessions, LockBalance(s)
  PROVE  LockInv'
<1> USE DEF LockInv, LockBalance
<1>1. posting[s] \in Posting BY PostingTyped DEF Phases
<1>2. CASE balance.there
  <2>1. posting' = [posting EXCEPT ![s].phase = "locked", ![s].before = balance.quantity] BY <1>2
  <2>2. posting'[s] = [posting[s] EXCEPT !.phase = "locked", !.before = balance.quantity]
    BY <2>1 DEF VendorStockTypeOK
  <2>3. posting'[s] \in Posting BY <1>1, <2>2 DEF Posting, Phases, VendorStockTypeOK
  <2>4. \A t \in StockSessions \ {s} : posting'[t] = posting[t] /\ posting[t].phase # "locked"
    BY <1>2, <2>1 DEF RowFree, Holders, VendorStockTypeOK
  <2>5. VendorStockTypeOK' BY <2>1, <2>3 DEF VendorStockTypeOK
  <2>6. posting'[s].phase = "locked" /\ posting'[s].before = balance.quantity
    BY <1>1, <2>2 DEF Posting
  <2> QED
    BY <2>4, <2>5, <2>6
       DEF OneHolder, ReadIsCurrent, ReadNothing, VendorStockSound, BalanceIsSum, NeverShort
<1>3. CASE ~balance.there
  <2>1. posting' = [posting EXCEPT ![s].phase = "inserting"] BY <1>3
  <2>2. posting'[s] = [posting[s] EXCEPT !.phase = "inserting"] BY <2>1 DEF VendorStockTypeOK
  <2>3. posting'[s] \in Posting /\ posting'[s].phase = "inserting"
        /\ posting'[s].before = posting[s].before
    BY <1>1, <2>2 DEF Posting, Phases
  <2>4. \A t \in StockSessions \ {s} : posting'[t] = posting[t] BY <2>1 DEF VendorStockTypeOK
  <2>5. VendorStockTypeOK' BY <2>1, <2>3 DEF VendorStockTypeOK
  <2> QED
    BY <2>3, <2>4, <2>5
       DEF OneHolder, ReadIsCurrent, ReadNothing, VendorStockSound, BalanceIsSum, NeverShort
<1> QED BY <1>2, <1>3

(* The first balance: whoever inserts it holds it; a second insert fails. *)
LEMMA InsertBalanceStep ==
  ASSUME LockInv, NEW s \in StockSessions, InsertBalance(s)
  PROVE  LockInv'
<1> USE DEF LockInv, InsertBalance
<1>1. posting[s] \in Posting BY PostingTyped DEF Phases
<1>2. CASE balance.there
  <2>1. posting' = [posting EXCEPT ![s] = NoPosting] BY <1>2
  <2>2. posting'[s] = NoPosting /\ \A t \in StockSessions \ {s} : posting'[t] = posting[t]
    BY <2>1 DEF VendorStockTypeOK
  <2>3. VendorStockTypeOK' BY <2>1 DEF VendorStockTypeOK
  <2>4. posting'[s].phase \notin Phases BY <2>2, IdleIsUnlocked
  <2>5. OneHolder' /\ ReadIsCurrent' /\ ReadNothing'
    BY <2>2, <2>4 DEF Phases, OneHolder, ReadIsCurrent, ReadNothing
  <2> QED BY <2>3, <2>5 DEF VendorStockSound, BalanceIsSum, NeverShort
<1>3. CASE ~balance.there
  <2>1. posting' = [posting EXCEPT ![s].phase = "locked"] BY <1>3
  <2>2. posting'[s] = [posting[s] EXCEPT !.phase = "locked"] BY <2>1 DEF VendorStockTypeOK
  <2>3. posting'[s] \in Posting /\ posting'[s].phase = "locked" /\ posting'[s].before = Nothing
    BY <1>1, <2>2 DEF Posting, Phases, ReadNothing
  <2>4. \A t \in StockSessions \ {s} : posting'[t] = posting[t] /\ posting[t].phase # "locked"
    BY <2>1 DEF RowFree, Holders, VendorStockTypeOK
  <2>5. balance.quantity = Nothing BY <1>3 DEF ReadNothing
  <2>6. VendorStockTypeOK' BY <2>1, <2>3 DEF VendorStockTypeOK
  <2> QED
    BY <2>3, <2>4, <2>5, <2>6
       DEF OneHolder, ReadIsCurrent, ReadNothing, VendorStockSound, BalanceIsSum, NeverShort
<1> QED BY <1>2, <1>3

(* The holder adds its movement to what is there, and lets go of the row. *)
LEMMA PostMoveStep ==
  ASSUME LockInv, NEW s \in StockSessions, PostMove(s)
  PROVE  LockInv'
<1> DEFINE after == Plus(posting[s].before, posting[s].delta)
<1>1. /\ posting[s].phase = "locked"
      /\ posting' = [posting EXCEPT ![s] = NoPosting]
  BY DEF PostMove
<1>2. /\ posting[s].key \in MoveKeys /\ posting[s].delta \in Deltas
      /\ posting[s].before \in Quantities
  BY <1>1, PostingTyped DEF Phases, LockInv
<1>3. after \in Quantities BY <1>2, PlusIsQuantity
<1>4. posting'[s] = NoPosting
      /\ \A t \in StockSessions \ {s} : posting'[t] = posting[t] /\ posting[t].phase # "locked"
  BY <1>1 DEF LockInv, OneHolder, VendorStockTypeOK
<1>5. OneHolder' /\ ReadIsCurrent'
      /\ \A t \in StockSessions :
           posting'[t].phase \in {"looking", "inserting"} => posting'[t].before = Nothing
  BY <1>4, IdleIsUnlocked DEF Phases, OneHolder, ReadIsCurrent, LockInv, ReadNothing
<1>6. posting' \in [StockSessions -> Posting \cup {NoPosting}]
  BY <1>1 DEF LockInv, VendorStockTypeOK
<1>7. CASE Sufficient(after) /\ posting[s].key \notin posted
  <2>1. /\ balance' = [there |-> TRUE, quantity |-> after]
        /\ moved' = Plus(moved, posting[s].delta)
        /\ posted' = posted \cup {posting[s].key}
    BY <1>7 DEF PostMove
  <2>2. moved' = after BY <1>1, <2>1 DEF LockInv, ReadIsCurrent, VendorStockSound, BalanceIsSum
  <2>3. VendorStockTypeOK' BY <1>2, <1>3, <1>6, <2>1, <2>2 DEF LockInv, VendorStockTypeOK
  <2>4. VendorStockSound'
    BY <1>7, <2>1, <2>2 DEF VendorStockSound, BalanceIsSum, NeverShort, Sufficient
  <2>5. ReadNothing' BY <1>5, <2>1 DEF ReadNothing
  <2> HIDE DEF after
  <2> QED BY <1>5, <2>3, <2>4, <2>5 DEF LockInv
<1>8. CASE ~(Sufficient(after) /\ posting[s].key \notin posted)
  <2>1. UNCHANGED <<balance, moved, posted>> BY <1>8 DEF PostMove
  <2> QED
    BY <1>5, <1>6, <2>1
       DEF LockInv, VendorStockTypeOK, VendorStockSound, BalanceIsSum, NeverShort, ReadNothing
<1> QED BY <1>7, <1>8

LEMMA LockStep == LockInv /\ [VendorStockNext]_vendorStockVars => LockInv'
<1> SUFFICES ASSUME LockInv, [VendorStockNext]_vendorStockVars PROVE LockInv' OBVIOUS
<1>1. CASE UNCHANGED vendorStockVars
  BY <1>1 DEF vendorStockVars, LockInv, VendorStockTypeOK, VendorStockSound, BalanceIsSum,
     NeverShort, OneHolder, ReadIsCurrent, ReadNothing
<1>2. ASSUME NEW s \in StockSessions,
             BeginMove(s) \/ LockBalance(s) \/ InsertBalance(s) \/ PostMove(s)
      PROVE  LockInv'
  BY <1>2, BeginMoveStep, LockBalanceStep, InsertBalanceStep, PostMoveStep
<1> QED BY <1>1, <1>2 DEF VendorStockNext

(* The inductive invariant: types, the two properties, and what the row lock guarantees. *)
THEOREM LocksKept == VendorStockSpec => []LockInv
BY LockInit, LockStep, PTL DEF VendorStockSpec

(* The balance is always the sum of the movements, on hand and reserved never fall below *)
(* zero and nothing is reserved that is not on hand, for any overlap of post_movement calls *)
(* (ledger_services.py:904, 913). *)
THEOREM VendorStockTrue == VendorStockSpec => []VendorStockSound
<1>1. LockInv => VendorStockSound BY DEF LockInv
<1> QED BY <1>1, LocksKept, PTL

--------------------
\* OrderSessions: what overlapping calls can do to an order, and what they cannot.
(* What a session read of the order: a payment fits the total it was checked against, and *)
(* as long as no other call ended, it still is what the order has. *)
PaymentFits(c) == /\ c.read \in Nat /\ c.read + c.amount <= OrderTotal
                  /\ ~c.lapped => c.read = paidMinor
ChangeFits(c) == ~c.lapped => c.to \in Reaches[orderState]
CallsFit == \A s \in PaySessions :
  /\ calls[s].kind = "pay" => PaymentFits(calls[s])
  /\ calls[s].kind = "change" => ChangeFits(calls[s])

OrderInv == OrderSessionsTypeOK /\ OrderSessionsSound /\ CallsFit

--------------------
(* A session that is at work holds a payment or a change. *)
LEMMA CallKinds ==
  ASSUME OrderSessionsTypeOK, NEW s \in PaySessions
  PROVE  /\ calls[s].kind = "pay" =>
              /\ calls[s] \in [kind: {"pay"}, amount: Amounts, read: Int, lapped: BOOLEAN]
              /\ calls[s].amount \in Nat \ {0}
         /\ calls[s].kind = "change" =>
              calls[s] \in [kind: {"change"}, to: OrderStates, lapped: BOOLEAN]
         /\ calls[s].kind \in {"pay", "change"} => calls[s] # NoCall
         /\ calls[s] # NoCall => calls[s].kind \in {"pay", "change"}
<1>1. calls[s] \in [kind: {"pay"}, amount: Amounts, read: Int, lapped: BOOLEAN]
        \/ calls[s] \in [kind: {"change"}, to: OrderStates, lapped: BOOLEAN]
        \/ calls[s] = NoCall
  BY DEF OrderSessionsTypeOK, Call
<1>2. NoCall.kind = "none" BY DEF NoCall
<1> QED BY <1>1, <1>2, OrderSessionsAssumption

(* The fields of a call do not change when another one ends before it. *)
LEMMA LappedCall ==
  ASSUME OrderSessionsTypeOK, NEW s \in PaySessions, calls[s] # NoCall,
         NEW c, c = [calls[s] EXCEPT !.lapped = TRUE]
  PROVE  /\ c \in Call /\ c.kind = calls[s].kind /\ c.lapped = TRUE
         /\ c.kind = "pay" => c.read = calls[s].read /\ c.amount = calls[s].amount
         /\ c.kind = "change" => c.to = calls[s].to
<1>1. CASE calls[s].kind = "pay" BY <1>1, CallKinds DEF Call
<1>2. CASE calls[s].kind = "change" BY <1>2, CallKinds DEF Call
<1> QED BY <1>1, <1>2, CallKinds

LEMMA OrderInit == OrderSessionsInit => OrderInv
<1> SUFFICES ASSUME OrderSessionsInit PROVE OrderInv OBVIOUS
<1>1. OrderSessionsTypeOK
  BY OrderSessionsAssumption DEF OrderSessionsInit, OrderSessionsTypeOK, OrderStates
<1>2. CallsFit BY DEF OrderSessionsInit, CallsFit, NoCall
<1> QED
  BY <1>1, <1>2, OrderSessionsAssumption
     DEF OrderInv, OrderSessionsInit, OrderSessionsSound, PaidMinorWithinTotal, RefundLeavesNothing

--------------------
(* A call that begins is of its type and fits the order: nothing else moves. *)
LEMMA BeginStep ==
  ASSUME OrderInv, NEW s \in PaySessions, NEW call \in Call, BeginCall(s, call),
         call.kind = "pay" => PaymentFits(call), call.kind = "change" => ChangeFits(call)
  PROVE  OrderInv'
<1> USE DEF OrderInv, BeginCall
<1>1. calls'[s] = call /\ \A r \in PaySessions \ {s} : calls'[r] = calls[r]
  BY DEF OrderSessionsTypeOK
<1>2. OrderSessionsTypeOK' BY DEF OrderSessionsTypeOK
<1>3. CallsFit' BY <1>1 DEF CallsFit, PaymentFits, ChangeFits
<1> QED BY <1>2, <1>3 DEF OrderSessionsSound, PaidMinorWithinTotal, RefundLeavesNothing

LEMMA BeginPaymentStep ==
  ASSUME OrderInv, NEW s \in PaySessions, BeginPayment(s)
  PROVE  OrderInv'
<1>1. PICK a \in Amounts : /\ MayBePaid(a)
                           /\ BeginCall(s, [kind |-> "pay", amount |-> a, read |-> paidMinor,
                                            lapped |-> FALSE])
  BY DEF BeginPayment
<1> DEFINE call == [kind |-> "pay", amount |-> a, read |-> paidMinor, lapped |-> FALSE]
<1>2. paidMinor \in Nat BY DEF OrderInv, OrderSessionsTypeOK
<1>3. call \in Call /\ call.kind = "pay" BY <1>2 DEF Call
<1>4. PaymentFits(call) BY <1>1, <1>2 DEF PaymentFits, MayBePaid
<1> HIDE DEF call
<1> QED BY <1>1, <1>3, <1>4, BeginStep DEF call

LEMMA BeginChangeStep ==
  ASSUME OrderInv, NEW s \in PaySessions, BeginChange(s)
  PROVE  OrderInv'
<1>1. PICK to \in OrderStates : /\ MayBecome(to)
                                /\ BeginCall(s, [kind |-> "change", to |-> to, lapped |-> FALSE])
  BY DEF BeginChange
<1> DEFINE call == [kind |-> "change", to |-> to, lapped |-> FALSE]
<1>2. call \in Call /\ call.kind = "change" BY DEF Call
<1>3. ChangeFits(call) BY <1>1 DEF ChangeFits, MayBecome
<1> HIDE DEF call
<1> QED BY <1>1, <1>2, <1>3, BeginStep DEF call

--------------------
(* After a call has ended, every other one has been lapped, and so fits whatever the order *)
(* has become. *)
LEMMA EndedCalls ==
  ASSUME OrderInv, NEW s \in PaySessions, calls[s] # NoCall, EndCall(s)
  PROVE  /\ CallsFit' /\ calls' \in [PaySessions -> Call \cup {NoCall}]
         /\ apart' \in BOOLEAN /\ ended' \in 0..MaxOrderCalls
<1> USE DEF OrderInv
<1>1. ASSUME NEW r \in PaySessions
      PROVE  \/ calls'[r] = NoCall
             \/ calls[r] # NoCall /\ calls'[r] = [calls[r] EXCEPT !.lapped = TRUE]
  BY <1>1 DEF EndCall
<1>2. ASSUME NEW r \in PaySessions
      PROVE  /\ calls'[r] \in Call \cup {NoCall}
             /\ calls'[r].kind = "pay" => PaymentFits(calls[r])' /\ calls'[r].lapped = TRUE
             /\ calls'[r].kind = "change" => calls'[r].lapped = TRUE
  <2>1. CASE calls'[r] = NoCall BY <2>1 DEF NoCall
  <2>2. CASE calls[r] # NoCall /\ calls'[r] = [calls[r] EXCEPT !.lapped = TRUE]
    <3>1. /\ calls'[r] \in Call /\ calls'[r].kind = calls[r].kind /\ calls'[r].lapped = TRUE
          /\ calls'[r].kind = "pay" =>
               calls'[r].read = calls[r].read /\ calls'[r].amount = calls[r].amount
      BY <2>2, LappedCall
    <3>2. calls[r].kind = "pay" => calls[r].read \in Nat /\ calls[r].read + calls[r].amount <= OrderTotal
      BY DEF CallsFit, PaymentFits
    <3> QED BY <3>1, <3>2 DEF PaymentFits
  <2> QED BY <1>1, <2>1, <2>2
<1>3. calls' \in [PaySessions -> Call \cup {NoCall}] BY <1>2 DEF EndCall
<1>4. apart' \in BOOLEAN /\ ended' \in 0..MaxOrderCalls
  BY OrderSessionsAssumption DEF EndCall, OrderSessionsTypeOK
<1> QED BY <1>2, <1>3, <1>4 DEF CallsFit, ChangeFits

(* A payment writes what it read plus the amount: within the total, though another payment *)
(* may be lost.  On an order that was refunded meanwhile it is the late one. *)
LEMMA EndPaymentStep ==
  ASSUME OrderInv, NEW s \in PaySessions, EndPayment(s)
  PROVE  OrderInv'
<1> DEFINE c == calls[s]
<1>1. c.kind = "pay" /\ EndCall(s) /\ c # NoCall BY CallKinds DEF EndPayment, OrderInv
<1>2. c.amount \in Nat \ {0} /\ PaymentFits(c) /\ c.lapped \in BOOLEAN
  BY <1>1, CallKinds DEF OrderInv, CallsFit
<1>3. /\ CallsFit' /\ calls' \in [PaySessions -> Call \cup {NoCall}]
      /\ apart' \in BOOLEAN /\ ended' \in 0..MaxOrderCalls
  BY <1>1, EndedCalls
<1>4. payments' = [payments EXCEPT !.paid = @ + c.amount] /\ paidMinor' = c.read + c.amount
      /\ orderState' = orderState
      /\ paidLate' = IF orderState = "refunded" THEN paidLate + c.amount ELSE paidLate
  BY DEF EndPayment
<1>5. payments'.paid = payments.paid + c.amount /\ payments' \in [paid: Nat, refunded: Nat]
  BY <1>2, <1>4 DEF OrderInv, OrderSessionsTypeOK
<1>6. OrderSessionsTypeOK' BY <1>2, <1>3, <1>4, <1>5 DEF OrderInv, OrderSessionsTypeOK, PaymentFits
<1>7. PaidMinorWithinTotal'
  BY <1>1, <1>2, <1>4, <1>5
     DEF OrderInv, OrderSessionsSound, PaidMinorWithinTotal, PaymentFits, EndCall
<1>8. RefundLeavesNothing'
  BY <1>2, <1>4, <1>5 DEF OrderInv, OrderSessionsTypeOK, OrderSessionsSound, RefundLeavesNothing
<1> QED BY <1>3, <1>6, <1>7, <1>8 DEF OrderInv, OrderSessionsSound

(* A refund takes every payment back; another change leaves them alone. *)
LEMMA EndChangeStep ==
  ASSUME OrderInv, NEW s \in PaySessions, EndChange(s)
  PROVE  OrderInv'
<1> DEFINE c == calls[s]
<1>1. c.kind = "change" /\ EndCall(s) /\ c # NoCall /\ c.to \in OrderStates
  BY CallKinds DEF EndChange, OrderInv
<1>2. /\ CallsFit' /\ calls' \in [PaySessions -> Call \cup {NoCall}]
      /\ apart' \in BOOLEAN /\ ended' \in 0..MaxOrderCalls
  BY <1>1, EndedCalls
<1>3. orderState' = c.to /\ paidLate' = paidLate /\ (apart' => apart) BY <1>1 DEF EndChange, EndCall
<1>4. CASE c.to = "refunded"
  <2>1. payments' = Reversed(payments) /\ paidMinor' = 0 BY <1>4 DEF EndChange
  <2>2. payments'.paid = 0 /\ payments' \in [paid: Nat, refunded: Nat]
    BY <2>1 DEF Reversed, OrderInv, OrderSessionsTypeOK
  <2> QED
    BY <1>1, <1>2, <1>3, <2>1, <2>2, OrderSessionsAssumption
       DEF OrderInv, OrderSessionsTypeOK, OrderSessionsSound, PaidMinorWithinTotal,
           RefundLeavesNothing
<1>5. CASE c.to # "refunded"
  <2>1. payments' = payments /\ paidMinor' = paidMinor BY <1>5 DEF EndChange
  <2> QED
    BY <1>1, <1>2, <1>3, <1>5, <2>1
       DEF OrderInv, OrderSessionsTypeOK, OrderSessionsSound, PaidMinorWithinTotal,
           RefundLeavesNothing
<1> QED BY <1>4, <1>5

LEMMA OrderStep == OrderInv /\ [OrderSessionsNext]_orderVars => OrderInv'
<1> SUFFICES ASSUME OrderInv, [OrderSessionsNext]_orderVars PROVE OrderInv' OBVIOUS
<1>1. CASE OrderSessionsNext
  BY <1>1, BeginPaymentStep, BeginChangeStep, EndPaymentStep, EndChangeStep DEF OrderSessionsNext
<1>2. CASE UNCHANGED orderVars
  BY <1>2 DEF orderVars, OrderInv, OrderSessionsTypeOK, OrderSessionsSound, PaidMinorWithinTotal,
              RefundLeavesNothing, CallsFit, PaymentFits, ChangeFits
<1> QED BY <1>1, <1>2

--------------------
(* Of any calls of record_payment and change_order_status on one order, however they *)
(* overlap: paid_minor stays within the total and is what was paid until calls overlap, and *)
(* a refund leaves nothing paid but what was paid late. *)
THEOREM OrderSessionsTrue == OrderSessionsSpec => []OrderSessionsSound
<1>1. OrderInv => OrderSessionsSound BY DEF OrderInv
<1> QED BY <1>1, OrderInit, OrderStep, PTL DEF OrderSessionsSpec

(* The sessions and the order keep their types. *)
THEOREM OrderSessionsTyped == OrderSessionsSpec => []OrderSessionsTypeOK
<1>1. OrderInv => OrderSessionsTypeOK BY DEF OrderInv
<1> QED BY <1>1, OrderInit, OrderStep, PTL DEF OrderSessionsSpec

(* Whoever changes an order that is over had read it before another call ended. *)
LEMMA OrderReopened ==
  ASSUME OrderInv, OrderSessionsNext, NEW s \in PaySessions,
         calls[s].kind = "change", calls'[s] = NoCall,
         orderState \in ClosedStates, orderState' # orderState
  PROVE  calls[s].lapped
<1>1. calls[s] # NoCall /\ calls[s].kind = "change" BY CallKinds DEF OrderInv
<1>2. PICK r \in PaySessions :
        BeginPayment(r) \/ BeginChange(r) \/ EndPayment(r) \/ EndChange(r)
  BY DEF OrderSessionsNext
<1>3. EndChange(r) BY <1>2 DEF BeginPayment, BeginChange, BeginCall, EndPayment
<1>4. r = s
  <2>1. ASSUME r # s PROVE calls'[s].kind = "change"
    <3>1. calls'[s] = [calls[s] EXCEPT !.lapped = TRUE] BY <1>1, <1>3, <2>1 DEF EndChange, EndCall
    <3> QED BY <1>1, <3>1, LappedCall DEF OrderInv
  <2>2. NoCall.kind # "change" BY DEF NoCall
  <2> QED BY <2>1, <2>2
<1>5. Reaches[orderState] = {} BY DEF Reaches, ClosedStates
<1>6. calls[s].lapped \in BOOLEAN BY <1>1, CallKinds DEF OrderInv
<1> QED BY <1>1, <1>5, <1>6 DEF OrderInv, CallsFit, ChangeFits

(* An order that was cancelled or refunded is given another status only by a call that had *)
(* read it before (change_order_status checks the status it read, and locks nothing). *)
THEOREM ClosedStaysClosed == OrderSessionsSpec => ClosedForGood
<1> DEFINE Closing(s) == /\ calls[s].kind = "change" /\ calls'[s] = NoCall
                         /\ orderState \in ClosedStates /\ orderState' # orderState
<1>1. ASSUME OrderInv, OrderSessionsNext, NEW s \in PaySessions, Closing(s)
      PROVE  calls[s].lapped
  BY <1>1, OrderReopened
<1>2. OrderInv /\ [OrderSessionsNext]_orderVars
        => [\A s \in PaySessions : Closing(s) => calls[s].lapped]_orderVars
  BY <1>1
<1>3. ClosedForGood <=> [][\A s \in PaySessions : Closing(s) => calls[s].lapped]_orderVars
  BY DEF ClosedForGood
<1> HIDE DEF Closing
<1> QED BY <1>2, <1>3, OrderInit, OrderStep, PTL DEF OrderSessionsSpec

--------------------
\* VendorLines: several people at work on the lines of a vendor.
LineStatuses == {"pending", "accepted", "packing", "dispatched", "delivered", "rejected", "allocated"}
Finances == {"eligible", "approved", "rejected", "paid", "reversed"}
Owing == {"eligible", "approved", "paid"}
LineRow == [status: LineStatuses, finance: Finances, batch: Nat]
Batch == [on: SUBSET Lines, journal: {"posted", "reversed"}]
HistoryRows == {r \in [from: LineStatuses, to: LineStatuses] : r.to \in LineMoves[r.from]}

Singles == {{l} : l \in Lines}
WhatSeen == SUBSET (Lines \X JobKinds)
RefundRead == [finance: Finances, approved: BOOLEAN, batch: Nat]
LineJobs == [kind: {"move"}, on: Singles, read: HistoryRows, seen: WhatSeen]
            \cup [kind: {"approve", "reject"}, on: Singles, read: LineRow, seen: WhatSeen]
            \cup [kind: {"settle"}, on: SUBSET Lines, read: {Unpaid}, seen: WhatSeen]
            \cup [kind: {"refund"}, on: Singles, read: RefundRead, seen: WhatSeen]

LineTypes == /\ lines \in [Lines -> LineRow]
             /\ approvals \in [Lines -> {"none", "posted", "reversed"}]
             /\ batches \in Seq(Batch) /\ Len(batches) <= lineCalls
             /\ history \in [Lines -> Seq(HistoryRows)]
             /\ refunded \subseteq Lines
             /\ jobs \in [Clerks -> LineJobs \cup {NoJob}]
             /\ overlaps \subseteq Lines \X JobKinds \X JobKinds /\ lineCalls \in 0..MaxLineCalls

\* The status the history of a line leads to.
Lead(l) == IF history[l] = <<>> THEN "pending" ELSE history[l][Len(history[l])].to

RowAgrees(l) ==
  /\ \A i \in DOMAIN batches : l \in batches[i].on => lines[l].batch # Unpaid
  /\ lines[l].batch # Unpaid => lines[l].batch \in DOMAIN batches /\ l \in batches[lines[l].batch].on
  /\ lines[l].finance = "eligible" => approvals[l] = "none"
  /\ lines[l].batch = Unpaid => lines[l].status # "allocated"
  /\ lines[l].status # "allocated" => lines[l].status = Lead(l)

Saw(c, l, kind) == <<l, kind>> \in jobs[c].seen
\* What RefundTakesAllBack names.
Excused(l) == \/ Crossed(l, "approve", "refund") \/ Crossed(l, "settle", "refund")
              \/ Lapped(l, "settle", "settle")

MoveFits(c, l) == /\ jobs[c].read.from = Lead(l) \/ Saw(c, l, "move")
                  /\ lines[l].batch # Unpaid => Saw(c, l, "settle") \/ Lapped(l, "settle", "move")
ApprovalFits(c, l) == l \in refunded => Saw(c, l, "refund") \/ Excused(l)
RejectionFits(c, l) == approvals[l] = "posted" => Saw(c, l, "approve")
SettlementFits(c, l) ==
  /\ \A i \in DOMAIN batches : l \in batches[i].on => Saw(c, l, "settle")
  /\ approvals[l] = "posted" \/ Saw(c, l, "refund") \/ Crossed(l, "refund", "settle")
  /\ l \in refunded => Saw(c, l, "refund") \/ Excused(l)
\* All there is to take back was read.
ReadsAll(read, l) ==
  /\ approvals[l] = "posted" => read.approved
  /\ lines[l].finance \in Owing => read.finance \in Owing
  /\ lines[l].batch # Unpaid /\ batches[lines[l].batch].journal = "posted" => read.batch = lines[l].batch
RefundFits(c, l) == LET read == jobs[c].read IN
  /\ read.batch # Unpaid => read.batch \in DOMAIN batches
  /\ read.approved => approvals[l] # "none"
  /\ ReadsAll(read, l) \/ Saw(c, l, "approve") \/ Saw(c, l, "settle")
  /\ read.approved /\ read.finance \notin Owing /\ lines[l].finance \in {"approved", "paid"} =>
       Saw(c, l, "settle") \/ Crossed(l, "refund", "settle")
JobFits(c, l) == /\ jobs[c].kind = "move" => MoveFits(c, l)
                 /\ jobs[c].kind = "approve" => ApprovalFits(c, l)
                 /\ jobs[c].kind = "reject" => RejectionFits(c, l)
                 /\ jobs[c].kind = "settle" => SettlementFits(c, l)
                 /\ jobs[c].kind = "refund" => RefundFits(c, l)
JobsFit(l) == \A c \in Clerks : jobs[c] # NoJob /\ l \in jobs[c].on => JobFits(c, l)

\* The four promises, of one line.
PaidOnce(l) == \/ \A i, j \in DOMAIN batches : l \in batches[i].on /\ l \in batches[j].on => i = j
               \/ Lapped(l, "settle", "settle")
AsPosted(l) == /\ lines[l].finance \in {"approved", "paid"} =>
                    approvals[l] = "posted" \/ Crossed(l, "refund", "settle")
               /\ lines[l].finance = "rejected" =>
                    approvals[l] # "posted" \/ Lapped(l, "approve", "reject")
TakenBack(l) == l \in refunded =>
  \/ /\ approvals[l] # "posted" /\ lines[l].finance \notin Owing
     /\ \A i \in DOMAIN batches : l \in batches[i].on => batches[i].journal = "reversed"
  \/ Excused(l)
LeadsHere(l) ==
  /\ \/ \A i \in 2..Len(history[l]) : history[l][i].from = history[l][i - 1].to
     \/ Lapped(l, "move", "move")
  /\ lines[l].batch # Unpaid => lines[l].status = "allocated" \/ Lapped(l, "settle", "move")

LineAgrees(l) == /\ RowAgrees(l) /\ JobsFit(l)
                 /\ PaidOnce(l) /\ AsPosted(l) /\ TakenBack(l) /\ LeadsHere(l)
LinesInv == LineTypes /\ \A l \in Lines : LineAgrees(l)

--------------------
LEMMA MovesOfLines ==
  /\ DOMAIN LineMoves = LineStatuses
  /\ \A s \in LineStatuses : LineMoves[s] \subseteq LineStatuses \ {"allocated"}
  /\ LineMoves["allocated"] = {}
BY DEF LineMoves, LineStatuses

LEMMA LineJobTyped ==
  ASSUME LineTypes, NEW c \in Clerks, jobs[c] # NoJob
  PROVE  /\ jobs[c] \in LineJobs /\ jobs[c].kind \in JobKinds
         /\ jobs[c].on \subseteq Lines /\ jobs[c].seen \in WhatSeen
         /\ jobs[c].kind # "settle" => jobs[c].on \in Singles
         /\ jobs[c].kind = "move" => jobs[c].read \in HistoryRows
         /\ jobs[c].kind = "refund" => jobs[c].read \in RefundRead
<1>1. jobs[c] \in LineJobs BY DEF LineTypes
<1> QED BY <1>1 DEF LineJobs, Singles, JobKinds

(* What a call that ends leaves behind: those still open have seen it, and what it had seen *)
(* itself has lapped it. *)
AllTold(c) ==
  /\ \A d \in Clerks : jobs'[d] # NoJob =>
       /\ jobs[d] # NoJob /\ jobs'[d].kind = jobs[d].kind
       /\ jobs'[d].on = jobs[d].on /\ jobs'[d].read = jobs[d].read
       /\ jobs[d].seen \subseteq jobs'[d].seen
       /\ \A l \in jobs[c].on : <<l, jobs[c].kind>> \in jobs'[d].seen
  /\ overlaps \subseteq overlaps'
  /\ \A l \in jobs[c].on, k \in JobKinds :
       <<l, k>> \in jobs[c].seen => <<l, k, jobs[c].kind>> \in overlaps'

(* A settlement of other lines, or the reversal of one, is nothing new to a line. *)
BatchesKept(l) ==
  /\ DOMAIN batches \subseteq DOMAIN batches'
  /\ \A i \in DOMAIN batches : /\ batches'[i].on = batches[i].on
                               /\ batches[i].journal = "reversed" => batches'[i].journal = "reversed"
  /\ \A i \in DOMAIN batches' \ DOMAIN batches : l \notin batches'[i].on
LineKept(l) == /\ lines'[l] = lines[l] /\ approvals'[l] = approvals[l] /\ history'[l] = history[l]
               /\ (l \in refunded' <=> l \in refunded)
               /\ BatchesKept(l)

LEMMA BatchTyped ==
  ASSUME LineTypes
  PROVE  /\ \A i \in DOMAIN batches : batches[i] \in Batch
         /\ DOMAIN batches = 1..Len(batches) /\ Len(batches) \in Nat
  BY DEF LineTypes

(* A call that was not changed but for what it has seen still fits a line that was kept. *)
LEMMA JobStands ==
  ASSUME LinesInv, LineTypes', NEW l \in Lines, LineKept(l), overlaps \subseteq overlaps',
         NEW d \in Clerks, jobs[d] # NoJob, l \in jobs[d].on, jobs'[d].kind = jobs[d].kind,
         jobs'[d].read = jobs[d].read, jobs[d].seen \subseteq jobs'[d].seen
  PROVE  JobFits(d, l)'
<1>1. LineAgrees(l) /\ JobFits(d, l) BY DEF LinesInv, LineAgrees, JobsFit
<1>2. jobs'[d].kind = "move" => MoveFits(d, l)'
  BY <1>1 DEF JobFits, MoveFits, LineKept, Lead, Saw, Lapped
<1>3. jobs'[d].kind = "approve" => ApprovalFits(d, l)'
  BY <1>1 DEF JobFits, ApprovalFits, LineKept, Saw, Excused, Crossed, Lapped
<1>4. jobs'[d].kind = "reject" => RejectionFits(d, l)'
  BY <1>1 DEF JobFits, RejectionFits, LineKept, Saw
<1>5. jobs'[d].kind = "settle" => SettlementFits(d, l)'
  BY <1>1 DEF JobFits, SettlementFits, LineKept, BatchesKept, Saw, Excused, Crossed, Lapped
<1>6. jobs'[d].kind = "refund" => RefundFits(d, l)'
  <2> SUFFICES ASSUME jobs[d].kind = "refund" PROVE RefundFits(d, l)' OBVIOUS
  <2>1. RefundFits(d, l) BY <1>1 DEF JobFits
  <2>2. /\ \A i \in DOMAIN batches : batches[i].journal \in {"posted", "reversed"}
        /\ lines[l].batch # Unpaid => lines[l].batch \in DOMAIN batches
    BY <1>1, BatchTyped DEF LinesInv, Batch, LineAgrees, RowAgrees
  <2>3. ReadsAll(jobs[d].read, l) => ReadsAll(jobs[d].read, l)'
    BY <2>2 DEF ReadsAll, LineKept, BatchesKept
  <2> QED BY <2>1, <2>3 DEF RefundFits, LineKept, BatchesKept, Saw, Crossed, Lapped
<1> QED BY <1>2, <1>3, <1>4, <1>5, <1>6 DEF JobFits

LEMMA OthersKept ==
  ASSUME LinesInv, LineTypes', NEW c \in Clerks, AllTold(c), NEW l \in Lines, LineKept(l)
  PROVE  LineAgrees(l)'
<1>1. LineAgrees(l) BY DEF LinesInv
<1>2. RowAgrees(l)' BY <1>1 DEF LineAgrees, RowAgrees, LineKept, BatchesKept, Lead
<1>3. PaidOnce(l)' BY <1>1 DEF LineAgrees, PaidOnce, LineKept, BatchesKept, Lapped, AllTold
<1>4. AsPosted(l)' BY <1>1 DEF LineAgrees, AsPosted, LineKept, Lapped, Crossed, AllTold
<1>5. TakenBack(l)'
  BY <1>1 DEF LineAgrees, TakenBack, LineKept, BatchesKept, Lapped, Crossed, Excused, AllTold
<1>6. LeadsHere(l)' BY <1>1 DEF LineAgrees, LeadsHere, LineKept, Lapped, AllTold
<1>7. JobsFit(l)' BY JobStands DEF JobsFit, AllTold
<1> QED BY <1>2, <1>3, <1>4, <1>5, <1>6, <1>7 DEF LineAgrees

(* A call that begins fits what it has just read. *)
LEMMA BegunFits ==
  ASSUME LinesInv, NEW c \in Clerks, NEW job \in LineJobs, BeginJob(c, job),
         \A l \in job.on : l \in Lines => JobFits(c, l)'
  PROVE  LinesInv'
<1>1. jobs' = [jobs EXCEPT ![c] = job] /\ UNCHANGED <<lineRows, overlaps, lineCalls>>
  BY DEF BeginJob
<1>2. LineTypes' BY <1>1 DEF LinesInv, LineTypes, lineRows
<1>3. jobs'[c] = job /\ \A d \in Clerks : d # c => jobs'[d] = jobs[d]
  BY <1>1 DEF LinesInv, LineTypes
<1>4. ASSUME NEW l \in Lines PROVE LineAgrees(l)'
  <2>1. LineAgrees(l) BY DEF LinesInv
  <2>2. /\ RowAgrees(l)' /\ PaidOnce(l)' /\ AsPosted(l)' /\ TakenBack(l)' /\ LeadsHere(l)'
    BY <1>1, <2>1 DEF LineAgrees, RowAgrees, PaidOnce, AsPosted, TakenBack, LeadsHere, lineRows,
                      Lead, Lapped, Crossed, Excused
  <2>3. JobsFit(l)'
    <3> SUFFICES ASSUME NEW d \in Clerks, jobs'[d] # NoJob, l \in jobs'[d].on
                 PROVE  JobFits(d, l)'
      BY DEF JobsFit
    <3>1. CASE d = c BY <1>3, <3>1
    <3>2. CASE d # c
      <4>1. jobs'[d] = jobs[d] BY <1>3, <3>2
      <4>2. LineKept(l) BY <1>1 DEF LineKept, BatchesKept, lineRows
      <4> QED BY <1>1, <1>2, <4>1, <4>2, JobStands
    <3> QED BY <3>1, <3>2
  <2> QED BY <2>2, <2>3 DEF LineAgrees
<1> QED BY <1>2, <1>4 DEF LinesInv

LEMMA EndTells ==
  ASSUME LineTypes, NEW c \in Clerks, jobs[c] # NoJob, EndJob(c)
  PROVE  /\ AllTold(c) /\ jobs' \in [Clerks -> LineJobs \cup {NoJob}]
         /\ overlaps' \subseteq Lines \X JobKinds \X JobKinds
         /\ lineCalls' = lineCalls + 1 /\ lineCalls' \in 0..MaxLineCalls
<1> DEFINE told(d) == [jobs[d] EXCEPT !.seen = @ \cup {<<l, jobs[c].kind>> : l \in jobs[c].on}]
<1>1. \A d \in Clerks : jobs'[d] = NoJob \/ (d # c /\ jobs[d] # NoJob /\ jobs'[d] = told(d))
  <2> SUFFICES ASSUME NEW d \in Clerks
               PROVE  jobs'[d] = NoJob \/ (d # c /\ jobs[d] # NoJob /\ jobs'[d] = told(d))
    OBVIOUS
  <2>1. jobs'[d] = CASE d = c -> NoJob
                     [] d # c /\ jobs[d] # NoJob -> told(d)
                     [] OTHER -> NoJob
    BY DEF EndJob
  <2> HIDE DEF told
  <2> QED BY <2>1
<1>2. jobs[c].kind \in JobKinds /\ jobs[c].on \subseteq Lines /\ jobs[c].seen \in WhatSeen
  BY LineJobTyped
<1>3. ASSUME NEW d \in Clerks, jobs[d] # NoJob
      PROVE  /\ told(d) \in LineJobs /\ told(d).kind = jobs[d].kind
             /\ told(d).on = jobs[d].on /\ told(d).read = jobs[d].read
             /\ jobs[d].seen \subseteq told(d).seen
             /\ \A l \in jobs[c].on : <<l, jobs[c].kind>> \in told(d).seen
  <2> DEFINE new == jobs[d].seen \cup {<<l, jobs[c].kind>> : l \in jobs[c].on}
  <2>1. jobs[d] \in LineJobs /\ jobs[d].seen \in WhatSeen BY <1>3, LineJobTyped
  <2>2. new \in WhatSeen BY <1>2, <2>1 DEF WhatSeen
  <2>3. told(d) = [jobs[d] EXCEPT !.seen = new] OBVIOUS
  <2>4. jobs[d].seen \subseteq new /\ \A l \in jobs[c].on : <<l, jobs[c].kind>> \in new OBVIOUS
  <2> HIDE DEF new, told
  <2>5. told(d) \in LineJobs /\ told(d).kind = jobs[d].kind /\ told(d).on = jobs[d].on
        /\ told(d).read = jobs[d].read /\ told(d).seen = new
    BY <2>1, <2>2, <2>3 DEF LineJobs
  <2> QED BY <2>4, <2>5
<1>4. jobs' \in [Clerks -> LineJobs \cup {NoJob}]
  <2>1. \A d \in Clerks : jobs'[d] \in LineJobs \cup {NoJob} BY <1>1, <1>3
  <2>2. jobs' = [d \in Clerks |-> jobs'[d]] BY DEF EndJob
  <2> HIDE DEF told
  <2> QED BY <2>1, <2>2
<1>5. overlaps \subseteq overlaps' /\ overlaps' \subseteq Lines \X JobKinds \X JobKinds
  <2>1. overlaps' = overlaps \cup {<<e[1], e[2], jobs[c].kind>> : e \in {e \in jobs[c].seen : e[1] \in jobs[c].on}}
    BY DEF EndJob
  <2> QED BY <1>2, <2>1 DEF LineTypes, WhatSeen
<1>6. \A l \in jobs[c].on, k \in JobKinds :
        <<l, k>> \in jobs[c].seen => <<l, k, jobs[c].kind>> \in overlaps'
  <2> SUFFICES ASSUME NEW l \in jobs[c].on, NEW k \in JobKinds, <<l, k>> \in jobs[c].seen
               PROVE  <<l, k, jobs[c].kind>> \in overlaps'
    OBVIOUS
  <2> DEFINE e == <<l, k>>
  <2>1. e \in jobs[c].seen /\ e[1] = l /\ e[2] = k OBVIOUS
  <2> QED BY <2>1 DEF EndJob
<1>7. \A d \in Clerks : jobs'[d] # NoJob =>
       /\ jobs[d] # NoJob /\ jobs'[d].kind = jobs[d].kind
       /\ jobs'[d].on = jobs[d].on /\ jobs'[d].read = jobs[d].read
       /\ jobs[d].seen \subseteq jobs'[d].seen
       /\ \A l \in jobs[c].on : <<l, jobs[c].kind>> \in jobs'[d].seen
  <2> HIDE DEF told
  <2> QED BY <1>1, <1>3
<1>8. lineCalls' = lineCalls + 1 /\ lineCalls' \in 0..MaxLineCalls
  BY VendorLinesAssumption DEF EndJob, LineTypes
<1> HIDE DEF told
<1> QED BY <1>4, <1>5, <1>6, <1>7, <1>8 DEF AllTold



--------------------
LEMMA LinesStart == VendorLinesInit => LinesInv
<1> SUFFICES ASSUME VendorLinesInit PROVE LinesInv OBVIOUS
<1>1. /\ batches = <<>> /\ refunded = {} /\ overlaps = {} /\ lineCalls = 0
      /\ history = [l \in Lines |-> <<>>] /\ jobs = [c \in Clerks |-> NoJob]
  BY DEF VendorLinesInit
<1>2. PICK approved \in SUBSET Lines :
        /\ lines = [l \in Lines |-> IF l \in approved THEN [NewLine EXCEPT !.finance = "approved"]
                                   ELSE NewLine]
        /\ approvals = [l \in Lines |-> IF l \in approved THEN "posted" ELSE "none"]
  BY DEF VendorLinesInit
<1>3. \A l \in Lines :
        /\ lines[l] \in LineRow /\ lines[l].batch = Unpaid /\ lines[l].status = "pending"
        /\ lines[l].finance = IF l \in approved THEN "approved" ELSE "eligible"
        /\ approvals[l] = IF l \in approved THEN "posted" ELSE "none"
  BY <1>2 DEF NewLine, LineRow, LineStatuses, Finances, Unpaid
<1>4. LineTypes BY <1>1, <1>2, <1>3, VendorLinesAssumption DEF LineTypes
<1>5. ASSUME NEW l \in Lines PROVE LineAgrees(l)
  <2>1. history[l] = <<>> /\ DOMAIN batches = {} BY <1>1
  <2>2. RowAgrees(l) /\ PaidOnce(l) /\ AsPosted(l) /\ TakenBack(l)
    BY <1>1, <1>3, <2>1 DEF RowAgrees, PaidOnce, AsPosted, TakenBack, Lead
  <2>3. LeadsHere(l) BY <1>3, <2>1 DEF LeadsHere
  <2>4. JobsFit(l) BY <1>1 DEF JobsFit
  <2> QED BY <2>2, <2>3, <2>4 DEF LineAgrees
<1> QED BY <1>4, <1>5 DEF LinesInv

LEMMA ItemMoveBegins ==
  ASSUME LinesInv, NEW c \in Clerks, NEW l \in Lines, BeginItemMove(c, l)
  PROVE  LinesInv'
<1>1. PICK to \in LineMoves[lines[l].status] :
        BeginJob(c, Job("move", {l}, HistoryRow(lines[l].status, to)))
  BY DEF BeginItemMove
<1> DEFINE job == Job("move", {l}, HistoryRow(lines[l].status, to))
<1>2. lines[l].status \in LineStatuses BY DEF LinesInv, LineTypes, LineRow
<1>3. lines[l].status # "allocated" /\ to \in LineStatuses BY <1>2, MovesOfLines
<1>4. /\ job \in LineJobs /\ job.kind = "move" /\ job.on = {l}
      /\ job.read.from = lines[l].status
  BY <1>2, <1>3 DEF Job, HistoryRow, HistoryRows, LineJobs, Singles, WhatSeen
<1>5. lines[l].status = Lead(l)
      /\ (lines[l].batch # Unpaid => Lapped(l, "settle", "move"))
  BY <1>3 DEF LinesInv, LineAgrees, RowAgrees, LeadsHere
<1>6. jobs'[c] = job /\ UNCHANGED <<lineRows, overlaps>> BY <1>1 DEF BeginJob, LinesInv, LineTypes
<1> HIDE DEF job
<1>7. JobFits(c, l)' BY <1>4, <1>5, <1>6 DEF JobFits, MoveFits, Lead, Lapped, lineRows
<1> QED BY <1>1, <1>4, <1>7, BegunFits DEF job

LEMMA DecisionBegins ==
  ASSUME LinesInv, NEW c \in Clerks, NEW l \in Lines, BeginDecision(c, l)
  PROVE  LinesInv'
<1>1. PICK kind \in {"approve", "reject"} :
        /\ lines[l].finance = "eligible" /\ BeginJob(c, Job(kind, {l}, lines[l]))
  BY DEF BeginDecision
<1> DEFINE job == Job(kind, {l}, lines[l])
<1>2. job \in LineJobs /\ job.kind = kind /\ job.on = {l}
  BY DEF Job, LineJobs, Singles, WhatSeen, LinesInv, LineTypes
<1>3. approvals[l] = "none" /\ (l \in refunded => Excused(l))
  BY <1>1 DEF LinesInv, LineAgrees, RowAgrees, TakenBack, Owing
<1>4. jobs'[c] = job /\ UNCHANGED <<lineRows, overlaps>> BY <1>1 DEF BeginJob, LinesInv, LineTypes
<1> HIDE DEF job
<1>5. JobFits(c, l)'
  BY <1>2, <1>3, <1>4 DEF JobFits, ApprovalFits, RejectionFits, Excused, Crossed, Lapped, lineRows
<1> QED BY <1>1, <1>2, <1>5, BegunFits DEF job

LEMMA SettlementBegins ==
  ASSUME LinesInv, NEW c \in Clerks, BeginSettlement(c)
  PROVE  LinesInv'
<1>1. PICK on \in SUBSET {l \in Lines : Unsettled(l)} : BeginJob(c, Job("settle", on, Unpaid))
  BY DEF BeginSettlement
<1> DEFINE job == Job("settle", on, Unpaid)
<1>2. job \in LineJobs /\ job.kind = "settle" /\ job.on = on BY DEF Job, LineJobs, WhatSeen
<1>3. jobs'[c] = job /\ UNCHANGED <<lineRows, overlaps>> BY <1>1 DEF BeginJob, LinesInv, LineTypes
<1> HIDE DEF job
<1>4. ASSUME NEW l \in on PROVE JobFits(c, l)'
  <2>1. l \in Lines /\ lines[l].batch = Unpaid /\ lines[l].finance = "approved" BY DEF Unsettled
  <2>2. LineAgrees(l) BY <2>1 DEF LinesInv
  <2>3. /\ \A i \in DOMAIN batches : l \notin batches[i].on
        /\ approvals[l] = "posted" \/ Crossed(l, "refund", "settle")
        /\ l \in refunded => Excused(l)
    BY <2>1, <2>2 DEF LineAgrees, RowAgrees, AsPosted, TakenBack, Owing
  <2> QED BY <1>2, <1>3, <2>3 DEF JobFits, SettlementFits, Excused, Crossed, Lapped, lineRows
<1> QED BY <1>1, <1>2, <1>4, BegunFits DEF job

LEMMA RefundBegins ==
  ASSUME LinesInv, NEW c \in Clerks, NEW l \in Lines, BeginRefund(c, l)
  PROVE  LinesInv'
<1> DEFINE b == lines[l].batch
           read == [finance |-> lines[l].finance, approved |-> approvals[l] = "posted",
                    batch |-> IF b # Unpaid /\ batches[b].journal = "posted" THEN b ELSE Unpaid]
           job == Job("refund", {l}, read)
<1>1. BeginJob(c, job) BY DEF BeginRefund
<1>2. lines[l] \in LineRow /\ Unpaid \in Nat BY DEF LinesInv, LineTypes, Unpaid
<1>3. /\ read \in RefundRead /\ read.finance = lines[l].finance
      /\ read.approved <=> approvals[l] = "posted"
      /\ read.batch = IF b # Unpaid /\ batches[b].journal = "posted" THEN b ELSE Unpaid
  BY <1>2 DEF RefundRead, LineRow
<1> HIDE DEF read
<1>4. job \in LineJobs /\ job.kind = "refund" /\ job.on = {l} /\ job.read = read
  BY <1>3 DEF Job, LineJobs, Singles, WhatSeen
<1>5. jobs'[c] = job /\ UNCHANGED <<lineRows, overlaps>> BY <1>1 DEF BeginJob, LinesInv, LineTypes
<1> HIDE DEF job
<1>6. b # Unpaid => b \in DOMAIN batches BY DEF LinesInv, LineAgrees, RowAgrees
<1>7. ReadsAll(read, l) BY <1>3 DEF ReadsAll
<1>8. RefundFits(c, l)' BY <1>3, <1>4, <1>5, <1>6, <1>7 DEF RefundFits, ReadsAll, Owing, lineRows
<1>9. JobFits(c, l)' BY <1>4, <1>5, <1>8 DEF JobFits
<1> QED BY <1>1, <1>4, <1>9, BegunFits DEF job

--------------------
LEMMA ItemMoveEnds ==
  ASSUME LinesInv, NEW c \in Clerks, EndItemMove(c)
  PROVE  LinesInv'
<1> DEFINE job == jobs[c]
<1>1. job.kind = "move" /\ EndJob(c) /\ UNCHANGED <<approvals, batches, refunded>> /\ job # NoJob
  BY DEF EndItemMove, NoJob
<1>2. LineTypes BY DEF LinesInv
<1>3. /\ AllTold(c) /\ jobs' \in [Clerks -> LineJobs \cup {NoJob}]
      /\ overlaps' \subseteq Lines \X JobKinds \X JobKinds
      /\ lineCalls' = lineCalls + 1 /\ lineCalls' \in 0..MaxLineCalls
  BY <1>1, <1>2, EndTells
<1>4. job.on \in Singles /\ job.read \in HistoryRows BY <1>1, <1>2, LineJobTyped
<1>a. PICK l \in Lines : job.on = {l} BY <1>4 DEF Singles
<1>5. /\ job.on = {l} /\ lines' = [lines EXCEPT ![l].status = job.read.to]
      /\ history' = [history EXCEPT ![l] = Append(@, job.read)]
  <2>1. PICK k \in job.on : /\ lines' = [lines EXCEPT ![k].status = job.read.to]
                            /\ history' = [history EXCEPT ![k] = Append(@, job.read)]
    BY DEF EndItemMove
  <2> QED BY <1>a, <2>1
<1>6. job.read.to \in LineStatuses \ {"allocated"} BY <1>4, MovesOfLines DEF HistoryRows
<1>7. /\ lines[l] \in LineRow /\ history[l] \in Seq(HistoryRows)
      /\ lines'[l] \in LineRow /\ lines'[l].status = job.read.to
      /\ lines'[l].batch = lines[l].batch /\ lines'[l].finance = lines[l].finance
      /\ history'[l] = Append(history[l], job.read)
      /\ \A k \in Lines : k # l => lines'[k] = lines[k] /\ history'[k] = history[k]
  BY <1>2, <1>5, <1>6 DEF LineTypes, LineRow
<1>8. LineTypes'
  <2>1. lines' \in [Lines -> LineRow] BY <1>2, <1>5, <1>7 DEF LineTypes
  <2>2. history' \in [Lines -> Seq(HistoryRows)]
    BY <1>2, <1>4, <1>5, <1>7, AppendProperties DEF LineTypes
  <2>3. Len(batches) <= lineCalls /\ batches \in Seq(Batch) /\ lineCalls \in Nat
    BY <1>2 DEF LineTypes
  <2> QED BY <1>1, <1>2, <1>3, <2>1, <2>2, <2>3 DEF LineTypes
<1>9. LineAgrees(l) BY DEF LinesInv
<1>10. JobFits(c, l) BY <1>1, <1>5, <1>9 DEF LineAgrees, JobsFit
<1>11. /\ history'[l] # <<>> /\ Len(history'[l]) = Len(history[l]) + 1 /\ Len(history[l]) \in Nat
       /\ \A i \in 1..Len(history[l]) : history'[l][i] = history[l][i]
       /\ history'[l][Len(history[l]) + 1] = job.read
  BY <1>4, <1>7, AppendProperties
<1>12. Lead(l)' = job.read.to BY <1>11 DEF Lead
<1>13. RowAgrees(l)' BY <1>1, <1>6, <1>7, <1>9, <1>12 DEF LineAgrees, RowAgrees
<1>14. PaidOnce(l)' /\ AsPosted(l)' /\ TakenBack(l)'
  BY <1>1, <1>3, <1>7, <1>9 DEF LineAgrees, PaidOnce, AsPosted, TakenBack, AllTold, Lapped, Crossed,
                               Excused
<1>15. LeadsHere(l)'
  <2>1. "move" \in JobKinds /\ "settle" \in JobKinds BY DEF JobKinds
  <2>2. job.read.from = Lead(l) \/ Lapped(l, "move", "move")'
    BY <1>1, <1>3, <1>5, <1>10, <2>1 DEF JobFits, MoveFits, Saw, Lapped, AllTold
  <2>3. lines'[l].batch # Unpaid => Lapped(l, "settle", "move")'
    BY <1>1, <1>3, <1>5, <1>7, <1>10, <2>1 DEF JobFits, MoveFits, Saw, Lapped, AllTold
  <2>4. ASSUME ~Lapped(l, "move", "move")', NEW i \in 2..Len(history'[l])
        PROVE  history'[l][i].from = history'[l][i - 1].to
    <3>1. \A k \in 2..Len(history[l]) : history[l][k].from = history[l][k - 1].to
      BY <1>3, <1>9, <2>4 DEF LineAgrees, LeadsHere, AllTold, Lapped
    <3>2. CASE i <= Len(history[l])
      <4>1. i \in 2..Len(history[l]) /\ i \in 1..Len(history[l]) /\ i - 1 \in 1..Len(history[l])
        BY <1>11, <2>4, <3>2
      <4>2. history'[l][i] = history[l][i] /\ history'[l][i - 1] = history[l][i - 1] BY <1>11, <4>1
      <4> QED BY <3>1, <4>1, <4>2
    <3>3. CASE i = Len(history[l]) + 1
      <4>1. history[l] # <<>> /\ i - 1 = Len(history[l]) /\ i - 1 \in 1..Len(history[l])
        BY <1>7, <1>11, <3>3
      <4>2. job.read.from = history[l][Len(history[l])].to BY <2>2, <2>4, <4>1 DEF Lead
      <4> QED BY <1>11, <3>3, <4>1, <4>2
    <3> QED BY <1>11, <2>4, <3>2, <3>3
  <2> QED BY <2>3, <2>4 DEF LeadsHere
<1>16. JobsFit(l)'
  <2> SUFFICES ASSUME NEW d \in Clerks, jobs'[d] # NoJob, l \in jobs'[d].on
               PROVE  JobFits(d, l)'
    BY DEF JobsFit
  <2>1. /\ jobs[d] # NoJob /\ jobs'[d].kind = jobs[d].kind /\ jobs'[d].read = jobs[d].read
        /\ jobs[d].seen \subseteq jobs'[d].seen /\ overlaps \subseteq overlaps'
        /\ <<l, "move">> \in jobs'[d].seen
    BY <1>1, <1>3, <1>5 DEF AllTold
  <2>2. JobFits(d, l) BY <1>3, <1>9, <2>1 DEF LineAgrees, JobsFit, AllTold
  <2>3. jobs'[d].kind = "move" => MoveFits(d, l)'
    BY <1>7, <2>1, <2>2 DEF JobFits, MoveFits, Saw, Lapped
  <2>4. /\ jobs'[d].kind = "approve" => ApprovalFits(d, l)'
        /\ jobs'[d].kind = "reject" => RejectionFits(d, l)'
        /\ jobs'[d].kind = "settle" => SettlementFits(d, l)'
    BY <1>1, <2>1, <2>2 DEF JobFits, ApprovalFits, RejectionFits, SettlementFits, Saw, Excused,
                            Crossed, Lapped
  <2>5. jobs'[d].kind = "refund" => RefundFits(d, l)'
    BY <1>1, <1>7, <2>1, <2>2 DEF JobFits, RefundFits, ReadsAll, Saw, Crossed, Lapped
  <2> QED BY <2>3, <2>4, <2>5 DEF JobFits
<1>17. \A k \in Lines : k # l => LineAgrees(k)'
  BY <1>1, <1>3, <1>7, <1>8, OthersKept DEF LineKept, BatchesKept
<1> QED BY <1>8, <1>13, <1>14, <1>15, <1>16, <1>17 DEF LinesInv, LineAgrees


LEMMA ApprovalEnds ==
  ASSUME LinesInv, NEW c \in Clerks, EndApproval(c)
  PROVE  LinesInv'
<1> DEFINE job == jobs[c]
<1>1. job.kind = "approve" /\ EndJob(c) /\ UNCHANGED <<batches, refunded, history>> /\ job # NoJob
  BY DEF EndApproval, NoJob
<1>2. LineTypes BY DEF LinesInv
<1>3. /\ AllTold(c) /\ jobs' \in [Clerks -> LineJobs \cup {NoJob}]
      /\ overlaps' \subseteq Lines \X JobKinds \X JobKinds
      /\ lineCalls' = lineCalls + 1 /\ lineCalls' \in 0..MaxLineCalls
  BY <1>1, <1>2, EndTells
<1>4. PICK l \in Lines : job.on = {l} BY <1>1, <1>2, LineJobTyped DEF Singles
<1>5. IF approvals[l] = "none"
      THEN /\ approvals' = [approvals EXCEPT ![l] = "posted"]
           /\ lines' = [lines EXCEPT ![l].finance = "approved"]
      ELSE UNCHANGED <<approvals, lines>>
  BY <1>4 DEF EndApproval
<1>6. /\ lines \in [Lines -> LineRow] /\ approvals \in [Lines -> {"none", "posted", "reversed"}]
      /\ Len(batches) <= lineCalls /\ batches \in Seq(Batch) /\ lineCalls \in Nat
  BY <1>2 DEF LineTypes
<1>7. /\ lines' \in [Lines -> LineRow] /\ approvals' \in [Lines -> {"none", "posted", "reversed"}]
      /\ \A k \in Lines : k # l => lines'[k] = lines[k] /\ approvals'[k] = approvals[k]
      /\ approvals[l] # "none" => lines'[l] = lines[l] /\ approvals'[l] = approvals[l]
      /\ approvals[l] = "none" =>
           /\ approvals'[l] = "posted" /\ lines'[l].finance = "approved"
           /\ lines'[l].status = lines[l].status /\ lines'[l].batch = lines[l].batch
  <2>1. CASE approvals[l] = "none"
    <3>1. /\ approvals' \in [Lines -> {"none", "posted", "reversed"}] /\ approvals'[l] = "posted"
          /\ \A k \in Lines : k # l => approvals'[k] = approvals[k]
      BY <1>5, <1>6, <2>1
    <3>2. lines' = [lines EXCEPT ![l].finance = "approved"] BY <1>5, <2>1
    <3>3. /\ lines' \in [Lines -> LineRow] /\ lines'[l].finance = "approved"
          /\ lines'[l].status = lines[l].status /\ lines'[l].batch = lines[l].batch
          /\ \A k \in Lines : k # l => lines'[k] = lines[k]
      BY <1>6, <3>2 DEF LineRow, Finances
    <3> QED BY <2>1, <3>1, <3>3
  <2>2. CASE approvals[l] # "none" BY <1>5, <1>6, <2>2
  <2> QED BY <2>1, <2>2
<1>8. LineTypes' BY <1>1, <1>2, <1>3, <1>6, <1>7 DEF LineTypes
<1>9. LineAgrees(l) /\ JobFits(c, l) BY <1>1, <1>4 DEF LinesInv, LineAgrees, JobsFit
<1>10. \A k \in Lines : k # l \/ approvals[l] # "none" => LineAgrees(k)'
  BY <1>1, <1>3, <1>7, <1>8, OthersKept DEF LineKept, BatchesKept
<1>11. ASSUME approvals[l] = "none" PROVE LineAgrees(l)'
  <2>1. RowAgrees(l)' /\ PaidOnce(l)' /\ AsPosted(l)' /\ LeadsHere(l)'
    BY <1>1, <1>3, <1>7, <1>9, <1>11 DEF LineAgrees, RowAgrees, Lead, PaidOnce, AsPosted, LeadsHere,
                                        AllTold, Lapped
  <2>2. TakenBack(l)'
    <3>1. l \in refunded => <<l, "refund">> \in jobs[c].seen \/ Excused(l)
      BY <1>1, <1>9 DEF JobFits, ApprovalFits, Saw
    <3>2. "refund" \in JobKinds BY DEF JobKinds
    <3>3. <<l, "refund">> \in jobs[c].seen => <<l, "refund", "approve">> \in overlaps'
      BY <1>1, <1>3, <1>4, <3>2 DEF AllTold
    <3> QED BY <1>1, <1>3, <3>1, <3>3 DEF TakenBack, Excused, Crossed, Lapped, AllTold
  <2>3. JobsFit(l)'
    <3> SUFFICES ASSUME NEW d \in Clerks, jobs'[d] # NoJob, l \in jobs'[d].on
                 PROVE  JobFits(d, l)'
      BY DEF JobsFit
    <3>1. /\ jobs[d] # NoJob /\ jobs'[d].kind = jobs[d].kind /\ jobs'[d].read = jobs[d].read
          /\ jobs[d].seen \subseteq jobs'[d].seen /\ overlaps \subseteq overlaps'
          /\ <<l, "approve">> \in jobs'[d].seen
      BY <1>1, <1>3, <1>4 DEF AllTold
    <3>2. JobFits(d, l) BY <1>3, <1>9, <3>1 DEF LineAgrees, JobsFit, AllTold
    <3>3. jobs'[d].kind = "move" => MoveFits(d, l)'
      BY <1>1, <1>7, <1>11, <3>1, <3>2 DEF JobFits, MoveFits, Lead, Saw, Lapped
    <3>4. /\ jobs'[d].kind = "approve" => ApprovalFits(d, l)'
          /\ jobs'[d].kind = "reject" => RejectionFits(d, l)'
          /\ jobs'[d].kind = "settle" => SettlementFits(d, l)'
      BY <1>1, <1>7, <1>11, <3>1, <3>2 DEF JobFits, ApprovalFits, RejectionFits, SettlementFits, Saw,
                                          Excused, Crossed, Lapped
    <3>5. jobs'[d].kind = "refund" => RefundFits(d, l)'
      BY <1>1, <1>7, <1>11, <3>1, <3>2 DEF JobFits, RefundFits, Saw
    <3> QED BY <3>3, <3>4, <3>5 DEF JobFits
  <2> QED BY <2>1, <2>2, <2>3 DEF LineAgrees
<1> QED BY <1>8, <1>10, <1>11 DEF LinesInv

LEMMA RejectionEnds ==
  ASSUME LinesInv, NEW c \in Clerks, EndRejection(c)
  PROVE  LinesInv'
<1> DEFINE job == jobs[c]
<1>1. /\ job.kind = "reject" /\ EndJob(c) /\ job # NoJob
      /\ UNCHANGED <<approvals, batches, refunded, history>>
  BY DEF EndRejection, NoJob
<1>2. LineTypes BY DEF LinesInv
<1>3. /\ AllTold(c) /\ jobs' \in [Clerks -> LineJobs \cup {NoJob}]
      /\ overlaps' \subseteq Lines \X JobKinds \X JobKinds
      /\ lineCalls' = lineCalls + 1 /\ lineCalls' \in 0..MaxLineCalls
  BY <1>1, <1>2, EndTells
<1>4. PICK l \in Lines : job.on = {l} BY <1>1, <1>2, LineJobTyped DEF Singles
<1>5. lines' = [lines EXCEPT ![l].finance = "rejected"] BY <1>4 DEF EndRejection
<1>6. /\ lines \in [Lines -> LineRow]
      /\ Len(batches) <= lineCalls /\ batches \in Seq(Batch) /\ lineCalls \in Nat
  BY <1>2 DEF LineTypes
<1>7. /\ lines' \in [Lines -> LineRow] /\ \A k \in Lines : k # l => lines'[k] = lines[k]
      /\ lines'[l].finance = "rejected"
      /\ lines'[l].status = lines[l].status /\ lines'[l].batch = lines[l].batch
  BY <1>5, <1>6 DEF LineRow, Finances
<1>8. LineTypes' BY <1>1, <1>2, <1>3, <1>6, <1>7 DEF LineTypes
<1>9. LineAgrees(l) /\ JobFits(c, l) BY <1>1, <1>4 DEF LinesInv, LineAgrees, JobsFit
<1>10. \A k \in Lines : k # l => LineAgrees(k)'
  BY <1>1, <1>3, <1>7, <1>8, OthersKept DEF LineKept, BatchesKept
<1>11. RowAgrees(l)' /\ PaidOnce(l)' /\ TakenBack(l)' /\ LeadsHere(l)'
  BY <1>1, <1>3, <1>7, <1>9 DEF LineAgrees, RowAgrees, Lead, PaidOnce, TakenBack, LeadsHere, Owing,
                               Excused, Crossed, AllTold, Lapped
<1>12. AsPosted(l)'
  <2>1. approvals[l] = "posted" => <<l, "approve">> \in jobs[c].seen
    BY <1>1, <1>9 DEF JobFits, RejectionFits, Saw
  <2>2. <<l, "approve">> \in jobs[c].seen => <<l, "approve", "reject">> \in overlaps'
    BY <1>1, <1>3, <1>4 DEF AllTold, JobKinds
  <2> QED BY <1>1, <1>7, <2>1, <2>2 DEF AsPosted, Lapped
<1>13. JobsFit(l)'
  <2> SUFFICES ASSUME NEW d \in Clerks, jobs'[d] # NoJob, l \in jobs'[d].on
               PROVE  JobFits(d, l)'
    BY DEF JobsFit
  <2>1. /\ jobs[d] # NoJob /\ jobs'[d].kind = jobs[d].kind /\ jobs'[d].read = jobs[d].read
        /\ jobs[d].seen \subseteq jobs'[d].seen /\ overlaps \subseteq overlaps'
    BY <1>1, <1>3, <1>4 DEF AllTold
  <2>2. JobFits(d, l) BY <1>3, <1>9, <2>1 DEF LineAgrees, JobsFit, AllTold
  <2>3. jobs'[d].kind = "move" => MoveFits(d, l)'
    BY <1>1, <1>7, <2>1, <2>2 DEF JobFits, MoveFits, Lead, Saw, Lapped
  <2>4. /\ jobs'[d].kind = "approve" => ApprovalFits(d, l)'
        /\ jobs'[d].kind = "reject" => RejectionFits(d, l)'
        /\ jobs'[d].kind = "settle" => SettlementFits(d, l)'
    BY <1>1, <1>7, <2>1, <2>2 DEF JobFits, ApprovalFits, RejectionFits, SettlementFits, Saw,
                                 Excused, Crossed, Lapped
  <2>5. jobs'[d].kind = "refund" => RefundFits(d, l)'
    BY <1>1, <1>7, <2>1, <2>2 DEF JobFits, RefundFits, ReadsAll, Owing, Saw
  <2> QED BY <2>3, <2>4, <2>5 DEF JobFits
<1> QED BY <1>8, <1>10, <1>11, <1>12, <1>13 DEF LinesInv, LineAgrees

LEMMA SettlementEnds ==
  ASSUME LinesInv, NEW c \in Clerks, EndSettlement(c)
  PROVE  LinesInv'
<1> DEFINE job == jobs[c]
           new == Len(batches) + 1
           batch == NewBatch(job.on)
<1>1. /\ job.kind = "settle" /\ EndJob(c) /\ job # NoJob
      /\ UNCHANGED <<approvals, refunded, history>>
  BY DEF EndSettlement, NoJob
<1>2. LineTypes BY DEF LinesInv
<1>3. /\ AllTold(c) /\ jobs' \in [Clerks -> LineJobs \cup {NoJob}]
      /\ overlaps' \subseteq Lines \X JobKinds \X JobKinds
      /\ lineCalls' = lineCalls + 1 /\ lineCalls' \in 0..MaxLineCalls
  BY <1>1, <1>2, EndTells
<1>4. job.on \subseteq Lines BY <1>1, <1>2, LineJobTyped
<1>5. /\ lines \in [Lines -> LineRow]
      /\ Len(batches) <= lineCalls /\ batches \in Seq(Batch) /\ lineCalls \in Nat
      /\ Len(batches) \in Nat /\ DOMAIN batches = 1..Len(batches)
  BY <1>2 DEF LineTypes
<1>6. batch \in Batch /\ batch.on = job.on /\ batch.journal = "posted" BY <1>4 DEF NewBatch, Batch
<1>7. batches' = Append(batches, batch) BY DEF EndSettlement
<1> HIDE DEF batch
<1>8. /\ batches' \in Seq(Batch) /\ Len(batches') = new /\ DOMAIN batches' = 1..new
      /\ \A i \in DOMAIN batches : batches'[i] = batches[i]
      /\ batches'[new] = batch
  BY <1>5, <1>6, <1>7, AppendProperties
<1>9. /\ lines' = [l \in Lines |-> IF l \in job.on
                     THEN [status |-> "allocated", finance |-> "paid", batch |-> new]
                     ELSE lines[l]]
  BY <1>8 DEF EndSettlement
<1>10. /\ lines' \in [Lines -> LineRow]
       /\ \A l \in Lines : IF l \in job.on
            THEN lines'[l].status = "allocated" /\ lines'[l].finance = "paid" /\ lines'[l].batch = new
            ELSE lines'[l] = lines[l]
  BY <1>5, <1>9 DEF LineRow, LineStatuses, Finances
<1>11. LineTypes' BY <1>1, <1>2, <1>3, <1>5, <1>8, <1>10 DEF LineTypes
<1>12. new \in DOMAIN batches' /\ new # Unpaid /\ DOMAIN batches' = DOMAIN batches \cup {new}
  BY <1>5, <1>8 DEF Unpaid
<1>13. ASSUME NEW l \in Lines, l \notin job.on PROVE LineAgrees(l)'
  <2>1. LineKept(l) BY <1>1, <1>6, <1>8, <1>10, <1>12, <1>13 DEF LineKept, BatchesKept
  <2> QED BY <1>3, <1>11, <1>13, <2>1, OthersKept
<1>14. ASSUME NEW l \in Lines, l \in job.on PROVE LineAgrees(l)'
  <2>1. LineAgrees(l) /\ JobFits(c, l) /\ SettlementFits(c, l)
    BY <1>1, <1>14 DEF LinesInv, LineAgrees, JobsFit, JobFits
  <2>2. lines'[l].status = "allocated" /\ lines'[l].finance = "paid" /\ lines'[l].batch = new
    BY <1>10, <1>14
  <2>3. /\ <<l, "settle">> \in jobs[c].seen => <<l, "settle", "settle">> \in overlaps'
        /\ <<l, "refund">> \in jobs[c].seen => <<l, "refund", "settle">> \in overlaps'
    BY <1>1, <1>3, <1>14 DEF AllTold, JobKinds
  <2>4. RowAgrees(l)' BY <1>6, <1>8, <1>12, <1>14, <2>2 DEF RowAgrees
  <2>5. PaidOnce(l)' BY <1>8, <1>12, <2>1, <2>3 DEF SettlementFits, PaidOnce, Saw, Lapped
  <2>6. AsPosted(l)'
    BY <1>1, <1>3, <2>1, <2>2, <2>3 DEF SettlementFits, AsPosted, Saw, Crossed, Lapped, AllTold
  <2>7. TakenBack(l)'
    BY <1>1, <1>3, <2>1, <2>3 DEF SettlementFits, TakenBack, Excused, Saw, Crossed, Lapped, AllTold
  <2>8. LeadsHere(l)' BY <1>1, <1>3, <2>1, <2>2 DEF LineAgrees, LeadsHere, Lapped, AllTold
  <2>9. JobsFit(l)'
    <3> SUFFICES ASSUME NEW d \in Clerks, jobs'[d] # NoJob, l \in jobs'[d].on
                 PROVE  JobFits(d, l)'
      BY DEF JobsFit
    <3>1. /\ jobs[d] # NoJob /\ jobs'[d].kind = jobs[d].kind /\ jobs'[d].read = jobs[d].read
          /\ jobs[d].seen \subseteq jobs'[d].seen /\ overlaps \subseteq overlaps'
          /\ <<l, "settle">> \in jobs'[d].seen
      BY <1>1, <1>3, <1>14 DEF AllTold
    <3>2. JobFits(d, l) BY <1>3, <2>1, <3>1 DEF LineAgrees, JobsFit, AllTold
    <3>3. jobs'[d].kind = "move" => MoveFits(d, l)'
      BY <1>1, <3>1, <3>2 DEF JobFits, MoveFits, Lead, Saw
    <3>4. /\ jobs'[d].kind = "approve" => ApprovalFits(d, l)'
          /\ jobs'[d].kind = "reject" => RejectionFits(d, l)'
          /\ jobs'[d].kind = "settle" => SettlementFits(d, l)'
      BY <1>1, <3>1, <3>2 DEF JobFits, ApprovalFits, RejectionFits, SettlementFits, Saw, Excused,
                              Crossed, Lapped
    <3>5. jobs'[d].kind = "refund" => RefundFits(d, l)'
      BY <1>1, <1>12, <3>1, <3>2 DEF JobFits, RefundFits, Saw
    <3> QED BY <3>3, <3>4, <3>5 DEF JobFits
  <2> QED BY <2>4, <2>5, <2>6, <2>7, <2>8, <2>9 DEF LineAgrees
<1> QED BY <1>11, <1>13, <1>14 DEF LinesInv

LEMMA RefundEnds ==
  ASSUME LinesInv, NEW c \in Clerks, EndRefund(c)
  PROVE  LinesInv'
<1> DEFINE job == jobs[c]
           read == jobs[c].read
<1>1. job.kind = "refund" /\ EndJob(c) /\ job # NoJob BY DEF EndRefund, NoJob
<1>2. LineTypes BY DEF LinesInv
<1>3. /\ AllTold(c) /\ jobs' \in [Clerks -> LineJobs \cup {NoJob}]
      /\ overlaps' \subseteq Lines \X JobKinds \X JobKinds
      /\ lineCalls' = lineCalls + 1 /\ lineCalls' \in 0..MaxLineCalls
  BY <1>1, <1>2, EndTells
<1>4. PICK l \in Lines : job.on = {l} BY <1>1, <1>2, LineJobTyped DEF Singles
<1>5. read \in RefundRead BY <1>1, <1>2, LineJobTyped
<1>6. IF Conflicts(l, read) THEN UNCHANGED lineRows
      ELSE /\ refunded' = refunded \cup {l}
           /\ approvals' = IF read.approved THEN [approvals EXCEPT ![l] = "reversed"] ELSE approvals
           /\ batches' = IF read.batch = Unpaid THEN batches
                         ELSE [batches EXCEPT ![read.batch].journal = "reversed"]
           /\ lines' = IF read.finance \in Owing
                       THEN [lines EXCEPT ![l].finance = "reversed"] ELSE lines
           /\ UNCHANGED history
  BY <1>4 DEF EndRefund, Owing
<1>7. /\ lines \in [Lines -> LineRow] /\ approvals \in [Lines -> {"none", "posted", "reversed"}]
      /\ Len(batches) <= lineCalls /\ batches \in Seq(Batch) /\ lineCalls \in Nat
      /\ Len(batches) \in Nat /\ DOMAIN batches = 1..Len(batches)
      /\ \A i \in DOMAIN batches : batches[i] \in Batch
  BY <1>2 DEF LineTypes
<1>8. LineAgrees(l) /\ RefundFits(c, l) BY <1>1, <1>4 DEF LinesInv, LineAgrees, JobsFit, JobFits
<1>9. CASE Conflicts(l, read)
  <2>1. UNCHANGED lineRows BY <1>6, <1>9
  <2>2. LineTypes' BY <1>2, <1>3, <1>7, <2>1 DEF LineTypes, lineRows
  <2>3. \A k \in Lines : LineKept(k) BY <2>1 DEF LineKept, BatchesKept, lineRows
  <2> QED BY <1>3, <2>2, <2>3, OthersKept DEF LinesInv
<1>10. CASE ~Conflicts(l, read)
  <2>1. /\ l \notin refunded /\ refunded' = refunded \cup {l} /\ UNCHANGED history
    BY <1>6, <1>10 DEF Conflicts
  <2>2. /\ approvals' \in [Lines -> {"none", "posted", "reversed"}]
        /\ \A k \in Lines : k # l => approvals'[k] = approvals[k]
        /\ approvals'[l] = IF read.approved THEN "reversed" ELSE approvals[l]
    BY <1>6, <1>7, <1>10
  <2>3. /\ lines' \in [Lines -> LineRow]
        /\ \A k \in Lines : k # l => lines'[k] = lines[k]
        /\ lines'[l].status = lines[l].status /\ lines'[l].batch = lines[l].batch
        /\ lines'[l].finance = IF read.finance \in Owing THEN "reversed" ELSE lines[l].finance
    <3>1. CASE read.finance \in Owing
      <4>1. lines' = [lines EXCEPT ![l].finance = "reversed"] BY <1>6, <1>10, <3>1
      <4> QED BY <1>7, <3>1, <4>1 DEF LineRow, Finances
    <3>2. CASE read.finance \notin Owing BY <1>6, <1>7, <1>10, <3>2
    <3> QED BY <3>1, <3>2
  <2>4. /\ batches' \in Seq(Batch) /\ Len(batches') = Len(batches) /\ DOMAIN batches' = DOMAIN batches
        /\ \A i \in DOMAIN batches : /\ batches'[i].on = batches[i].on
                                     /\ batches'[i].journal = batches[i].journal
                                          \/ batches'[i].journal = "reversed"
                                     /\ i = read.batch => batches'[i].journal = "reversed"
    <3>1. CASE read.batch = Unpaid BY <1>6, <1>7, <1>10, <3>1 DEF Unpaid
    <3>2. CASE read.batch # Unpaid
      <4>1. batches' = [batches EXCEPT ![read.batch].journal = "reversed"] BY <1>6, <1>10, <3>2
      <4>2. read.batch \in DOMAIN batches BY <1>8, <3>2 DEF RefundFits
      <4> DEFINE b == read.batch
               row == [batches[b] EXCEPT !.journal = "reversed"]
      <4>4. row \in Batch /\ row.on = batches[b].on /\ row.journal = "reversed"
        BY <1>7, <4>2 DEF Batch
      <4>5. batches' = [batches EXCEPT ![b] = row] BY <4>1
      <4> HIDE DEF row, b
      <4>6. b \in 1..Len(batches) BY <1>7, <4>2 DEF b
      <4>7. /\ batches' \in Seq(Batch) /\ Len(batches') = Len(batches)
            /\ \A i \in 1..Len(batches) : batches'[i] = IF i = b THEN row ELSE batches[i]
        BY <1>7, <4>4, <4>5, <4>6, ExceptSeq
      <4> QED BY <1>7, <4>4, <4>7 DEF b
    <3> QED BY <3>1, <3>2
  <2>5. LineTypes' BY <1>2, <1>3, <1>7, <2>1, <2>2, <2>3, <2>4 DEF LineTypes
  <2>6. \A k \in Lines : k # l => LineAgrees(k)'
    BY <1>3, <2>1, <2>2, <2>3, <2>4, <2>5, OthersKept DEF LineKept, BatchesKept
  <2>7. /\ <<l, "approve">> \in jobs[c].seen => <<l, "approve", "refund">> \in overlaps'
        /\ <<l, "settle">> \in jobs[c].seen => <<l, "settle", "refund">> \in overlaps'
    BY <1>1, <1>3, <1>4 DEF AllTold, JobKinds
  <2>8. RowAgrees(l)' BY <1>8, <2>1, <2>2, <2>3, <2>4 DEF LineAgrees, RowAgrees, RefundFits, Lead
  <2>9. PaidOnce(l)' /\ LeadsHere(l)'
    BY <1>3, <1>8, <2>1, <2>3, <2>4 DEF LineAgrees, PaidOnce, LeadsHere, Lapped, AllTold
  <2>10. AsPosted(l)'
    BY <1>3, <1>8, <2>2, <2>3, <2>7 DEF LineAgrees, AsPosted, RefundFits, Owing, Saw, Crossed, Lapped,
                                       AllTold
  <2>11. TakenBack(l)'
    <3>1. SUFFICES ASSUME ~Excused(l)'
                   PROVE  /\ approvals'[l] # "posted" /\ lines'[l].finance \notin Owing
                          /\ \A i \in DOMAIN batches' : l \in batches'[i].on =>
                               batches'[i].journal = "reversed"
      BY DEF TakenBack
    <3>2. ReadsAll(read, l) BY <1>8, <2>7, <3>1 DEF RefundFits, Excused, Crossed, Lapped, Saw
    <3>3. approvals'[l] # "posted" /\ lines'[l].finance \notin Owing
      BY <2>2, <2>3, <3>2 DEF ReadsAll, Owing
    <3>4. ASSUME NEW i \in DOMAIN batches', l \in batches'[i].on
          PROVE  batches'[i].journal = "reversed"
      <4>1. i \in DOMAIN batches /\ l \in batches[i].on BY <2>4, <3>4
      <4>2. \A j \in DOMAIN batches : l \in batches[j].on => i = j
        BY <1>3, <1>8, <3>1, <4>1 DEF LineAgrees, PaidOnce, Excused, Lapped, AllTold
      <4>3. lines[l].batch # Unpaid /\ i = lines[l].batch
        BY <1>8, <4>1, <4>2 DEF LineAgrees, RowAgrees
      <4>4. batches[i].journal = "posted" \/ batches[i].journal = "reversed" BY <1>7, <4>1 DEF Batch
      <4> QED BY <2>4, <3>2, <4>1, <4>3, <4>4 DEF ReadsAll
    <3> QED BY <3>3, <3>4
  <2>12. JobsFit(l)'
    <3> SUFFICES ASSUME NEW d \in Clerks, jobs'[d] # NoJob, l \in jobs'[d].on
                 PROVE  JobFits(d, l)'
      BY DEF JobsFit
    <3>1. /\ jobs[d] # NoJob /\ jobs'[d].kind = jobs[d].kind /\ jobs'[d].read = jobs[d].read
          /\ jobs[d].seen \subseteq jobs'[d].seen /\ overlaps \subseteq overlaps'
          /\ <<l, "refund">> \in jobs'[d].seen
      BY <1>1, <1>3, <1>4 DEF AllTold
    <3>2. JobFits(d, l) BY <1>3, <1>8, <3>1 DEF LineAgrees, JobsFit, AllTold
    <3>3. jobs'[d].kind = "move" => MoveFits(d, l)'
      BY <2>1, <2>3, <3>1, <3>2 DEF JobFits, MoveFits, Lead, Saw, Lapped
    <3>4. /\ jobs'[d].kind = "approve" => ApprovalFits(d, l)'
          /\ jobs'[d].kind = "reject" => RejectionFits(d, l)'
          /\ jobs'[d].kind = "settle" => SettlementFits(d, l)'
      BY <2>2, <2>4, <3>1, <3>2 DEF JobFits, ApprovalFits, RejectionFits, SettlementFits, Saw
    <3>5. jobs'[d].kind = "refund" => RefundFits(d, l)'
      <4> SUFFICES ASSUME jobs[d].kind = "refund" PROVE RefundFits(d, l)' BY <3>1
      <4>1. RefundFits(d, l) BY <3>1, <3>2 DEF JobFits
      <4>2. lines[l].batch # Unpaid => lines[l].batch \in DOMAIN batches
        BY <1>8 DEF LineAgrees, RowAgrees
      <4>3. ReadsAll(jobs[d].read, l) => ReadsAll(jobs[d].read, l)'
        BY <2>2, <2>3, <2>4, <3>1, <4>2 DEF ReadsAll, Owing
      <4> QED BY <2>2, <2>3, <2>4, <3>1, <4>1, <4>3 DEF RefundFits, Saw, Crossed, Lapped
    <3> QED BY <3>3, <3>4, <3>5 DEF JobFits
  <2> QED BY <2>5, <2>6, <2>8, <2>9, <2>10, <2>11, <2>12 DEF LinesInv, LineAgrees
<1> QED BY <1>9, <1>10

LEMMA LinesStep == LinesInv /\ [VendorLinesNext]_vendorLinesVars => LinesInv'
<1> SUFFICES ASSUME LinesInv, [VendorLinesNext]_vendorLinesVars PROVE LinesInv' OBVIOUS
<1>1. CASE VendorLinesNext
  <2>1. PICK c \in Clerks :
          \/ \E l \in Packed : BeginItemMove(c, l)
          \/ \E l \in Lines : BeginDecision(c, l) \/ BeginRefund(c, l)
          \/ BeginSettlement(c)
          \/ EndItemMove(c) \/ EndApproval(c) \/ EndRejection(c) \/ EndSettlement(c) \/ EndRefund(c)
    BY <1>1 DEF VendorLinesNext
  <2> QED
    BY <2>1, VendorLinesAssumption, ItemMoveBegins, DecisionBegins, RefundBegins, SettlementBegins,
       ItemMoveEnds, ApprovalEnds, RejectionEnds, SettlementEnds, RefundEnds
<1>2. CASE UNCHANGED vendorLinesVars
  <2>1. LineTypes' BY <1>2 DEF vendorLinesVars, LinesInv, LineTypes
  <2>2. ASSUME NEW l \in Lines PROVE LineAgrees(l)'
    <3>1. LineAgrees(l) BY DEF LinesInv
    <3>2. /\ RowAgrees(l)' /\ PaidOnce(l)' /\ AsPosted(l)' /\ TakenBack(l)' /\ LeadsHere(l)'
      BY <1>2, <3>1 DEF vendorLinesVars, LineAgrees, RowAgrees, PaidOnce, AsPosted, TakenBack,
                        LeadsHere, Lead, Lapped, Crossed, Excused
    <3>3. JobsFit(l)' BY <1>2, <2>1, JobStands DEF vendorLinesVars, JobsFit, LineKept, BatchesKept
    <3> QED BY <3>2, <3>3 DEF LineAgrees
  <2> QED BY <2>1, <2>2 DEF LinesInv
<1> QED BY <1>1, <1>2

LEMMA LinesSound == LinesInv => VendorLinesSound
<1> SUFFICES ASSUME LinesInv PROVE VendorLinesSound OBVIOUS
<1>1. \A l \in Lines : LineAgrees(l) BY DEF LinesInv
<1>2. LinePaidOnce BY <1>1 DEF LinePaidOnce, LineAgrees, PaidOnce
<1>3. FinanceAsPosted BY <1>1 DEF FinanceAsPosted, LineAgrees, AsPosted
<1>4. RefundTakesAllBack
  <2> SUFFICES ASSUME NEW l \in refunded
               PROVE  \/ /\ approvals[l] # "posted"
                         /\ lines[l].finance \notin {"eligible", "approved", "paid"}
                         /\ \A i \in DOMAIN batches : l \in batches[i].on => batches[i].journal = "reversed"
                      \/ Crossed(l, "approve", "refund") \/ Crossed(l, "settle", "refund")
                      \/ Lapped(l, "settle", "settle")
    BY DEF RefundTakesAllBack
  <2>1. l \in Lines BY DEF LinesInv, LineTypes
  <2> QED BY <1>1, <2>1 DEF LineAgrees, TakenBack, Excused, Owing
<1>5. HistoryLeadsHere
  <2> SUFFICES ASSUME NEW l \in Lines
               PROVE  /\ \/ \A i \in 2..Len(history[l]) : history[l][i].from = history[l][i - 1].to
                         \/ Lapped(l, "move", "move")
                      /\ IF lines[l].batch = Unpaid
                         THEN lines[l].status = IF history[l] = <<>> THEN "pending"
                                                ELSE history[l][Len(history[l])].to
                         ELSE lines[l].status = "allocated" \/ Lapped(l, "settle", "move")
    BY DEF HistoryLeadsHere
  <2> QED BY <1>1 DEF LineAgrees, LeadsHere, RowAgrees, Lead
<1> QED BY <1>2, <1>3, <1>4, <1>5 DEF VendorLinesSound

(* For any number of lines, requests and calls, however they overlap: a line is paid for in *)
(* one settlement, its journals agree with what finance decided, a refund takes back what *)
(* was owed and paid for it and its history leads to its status, but for the overlaps that *)
(* VendorLinesSound names (decide_vendor_item, create_vendor_settlement, *)
(* change_vendor_order_item_status, _reverse_order_finance_postings). *)
THEOREM LinesTrue == VendorLinesSpec => []VendorLinesSound
  BY LinesStart, LinesStep, LinesSound, PTL DEF VendorLinesSpec

--------------------
\* RiderCash: the money between the company and a rider.
(* What a request that is at work has made up, and what it has checked: until another one *)
(* commits, that is still so. *)
EntryFits(s) ==
  desk[s].step = "summed" =>
    /\ desk[s].job.kind \in {"reject", "remit", "refuse"} => desk[s].entry = 0
    /\ desk[s].job.kind = "accept" => desk[s].entry \in {0, Fee}
    /\ desk[s].job.kind = "adjust" => desk[s].entry = desk[s].job.amount
    /\ desk[s].job.kind = "payout" => desk[s].entry = -desk[s].job.amount
    /\ ~desk[s].lapped => desk[s].sum = owed + desk[s].entry

ChecksHold(s) ==
  ~desk[s].lapped =>
    /\ desk[s].job.kind \in {"accept", "reject"} => MaySettle(desk[s].job)
    /\ desk[s].job.kind = "remit" => MayDecide(desk[s].job)
    /\ desk[s].job.kind = "refuse" => remitted[desk[s].job.on].status = "submitted"
    /\ desk[s].job.kind = "payout" => desk[s].job.amount <= owed

AtWork(s) == desk[s] # Idle
RequestFits(s) == AtWork(s) => EntryFits(s) /\ ChecksHold(s)
RequestsFit == \A s \in DeskSessions : RequestFits(s)

RiderInv == RiderTypeOK /\ RiderSound /\ RequestsFit

--------------------
LEMMA DeskJobShape ==
  ASSUME NEW job \in DeskJobs
  PROVE  /\ job.kind \in {"accept", "reject", "remit", "refuse", "adjust", "payout"}
         /\ job.kind \in {"accept", "reject"} => job.on \in Collections
         /\ job.kind \in {"remit", "refuse"} => job.on \in Remittances
         /\ job.kind \in {"adjust", "payout"} => job.on \in RiderKeys
         /\ job.kind = "accept" => job.amount \in 1..Collected
         /\ job.kind = "adjust" => job.amount \in Int \ {0}
         /\ job.kind = "payout" => job.amount = 1
BY RiderAssumption DEF DeskJobs

LEMMA RequestTyped ==
  ASSUME RiderTypeOK, NEW s \in DeskSessions
  PROVE  /\ AtWork(s) <=> desk[s].step \in {"checked", "summed"}
         /\ AtWork(s) => /\ desk[s] \in DeskState /\ desk[s].job \in DeskJobs
                         /\ desk[s].entry \in Int /\ desk[s].sum \in Int /\ desk[s].lapped \in BOOLEAN
<1>1. desk[s] \in DeskState \cup {Idle} BY DEF RiderTypeOK
<1> QED BY <1>1 DEF AtWork, Idle, DeskState

(* The cash in hand is a number, and only the status and the accepted amounts count. *)
LEMMA CashIsInt ==
  ASSUME RiderTypeOK
  PROVE  /\ CashInHand \in Int /\ IsFiniteSet(ReconciledRows(remitted))
         /\ IsFiniteSet(ReconciledRows(collected)) /\ ReconciledRows(collected) \subseteq Collections
         /\ Cardinality(ReconciledRows(remitted)) \in Nat
         /\ SumFunctionOnSet([c \in Collections |-> collected[c].accepted], ReconciledRows(collected)) \in Int
<1> DEFINE f == [c \in Collections |-> collected[c].accepted]
           total == SumFunctionOnSet(f, ReconciledRows(collected))
           count == Cardinality(ReconciledRows(remitted))
<1>1. /\ ReconciledRows(collected) \subseteq Collections /\ ReconciledRows(remitted) \subseteq Remittances
      /\ \A c \in Collections : collected[c].accepted \in Nat
  BY RiderAssumption DEF RiderTypeOK, ReconciledRows, CollectionRow
<1>2. IsFiniteSet(ReconciledRows(collected)) /\ IsFiniteSet(ReconciledRows(remitted)) /\ count \in Nat
  BY <1>1, RiderAssumption, FS_Subset, FS_CardinalityType
<1>3. \A c \in ReconciledRows(collected) : f[c] \in Int BY <1>1
<1>4. total \in Int
  <2> HIDE DEF f
  <2> QED BY <1>2, <1>3, SumIsInt
<1>5. CashInHand = total - Remitted * count /\ Remitted \in Nat BY RiderAssumption DEF CashInHand
<1> HIDE DEF total, count
<1>6. CashInHand \in Int BY <1>2, <1>4, <1>5
<1> QED BY <1>1, <1>2, <1>4, <1>6 DEF total, count

LEMMA CashAfterAccepting ==
  ASSUME RiderTypeOK, NEW c \in Collections, NEW n \in 0..Collected,
         collected[c].status # "reconciled", remitted' = remitted,
         collected' \in [Collections -> CollectionRow],
         collected'[c].status = "reconciled", collected'[c].accepted = n,
         \A d \in Collections \ {c} : collected'[d] = collected[d]
  PROVE  CashInHand' = CashInHand + n
<1> DEFINE f == [d \in Collections |-> collected[d].accepted]
           g == [d \in Collections |-> collected'[d].accepted]
           A == ReconciledRows(collected)
           B == ReconciledRows(collected')
           count == Cardinality(ReconciledRows(remitted))
<1>1. /\ IsFiniteSet(A) /\ A \subseteq Collections /\ count \in Nat /\ Remitted \in Nat
      /\ SumFunctionOnSet(f, A) \in Int
  BY CashIsInt, RiderAssumption
<1>2. c \notin A /\ B = A \cup {c} /\ \A d \in A : collected'[d] = collected[d]
  BY DEF ReconciledRows, RiderTypeOK
<1>3. /\ \A d \in A \cup {c} : g[d] \in Int
      /\ \A d \in A : f[d] \in Int /\ g[d] = f[d]
      /\ g[c] = n
  BY <1>1, <1>2, RiderAssumption DEF RiderTypeOK, CollectionRow
<1>4. CashInHand = SumFunctionOnSet(f, A) - Remitted * count BY DEF CashInHand
<1>5. CashInHand' = SumFunctionOnSet(g, B) - Remitted * count BY DEF CashInHand
<1> HIDE DEF f, g, A, B, count
<1>6. SumFunctionOnSet(g, B) = n + SumFunctionOnSet(g, A) BY <1>1, <1>2, <1>3, SumAdds
<1>7. SumFunctionOnSet(g, A) = SumFunctionOnSet(f, A) BY <1>1, <1>3, SumAgrees
<1> QED BY <1>1, <1>4, <1>5, <1>6, <1>7

(* A collection that was not accepted and is not now counts for nothing. *)
LEMMA CashKept ==
  ASSUME RiderTypeOK,
         collected' \in [Collections -> CollectionRow], remitted' \in [Remittances -> RemittanceRow],
         \A c \in Collections : \/ collected'[c] = collected[c]
                                \/ /\ collected[c].status # "reconciled"
                                   /\ collected'[c].status # "reconciled",
         \A r \in Remittances : remitted'[r].status = "reconciled" <=> remitted[r].status = "reconciled"
  PROVE  CashInHand' = CashInHand
<1> DEFINE f == [d \in Collections |-> collected[d].accepted]
           g == [d \in Collections |-> collected'[d].accepted]
           A == ReconciledRows(collected)
<1>1. IsFiniteSet(A) /\ A \subseteq Collections BY CashIsInt
<1>2. ReconciledRows(collected') = A BY DEF ReconciledRows, RiderTypeOK
<1>3. ReconciledRows(remitted') = ReconciledRows(remitted) BY DEF ReconciledRows, RiderTypeOK
<1>4. \A d \in A : f[d] \in Int /\ g[d] = f[d]
  BY <1>1 DEF RiderTypeOK, CollectionRow, ReconciledRows
<1>5. CashInHand = SumFunctionOnSet(f, A) - Remitted * Cardinality(ReconciledRows(remitted))
  BY DEF CashInHand
<1>6. CashInHand' = SumFunctionOnSet(g, A) - Remitted * Cardinality(ReconciledRows(remitted))
  BY <1>2, <1>3 DEF CashInHand
<1> HIDE DEF f, g, A
<1> QED BY <1>1, <1>4, <1>5, <1>6, SumAgrees

LEMMA CashAfterRemitting ==
  ASSUME RiderTypeOK, NEW r \in Remittances, collected' = collected,
         remitted[r].status # "reconciled", remitted' \in [Remittances -> RemittanceRow],
         remitted'[r].status = "reconciled",
         \A q \in Remittances \ {r} : remitted'[q] = remitted[q]
  PROVE  CashInHand' = CashInHand - Remitted
<1> DEFINE B == ReconciledRows(remitted)
           total == SumFunctionOnSet([d \in Collections |-> collected[d].accepted], ReconciledRows(collected))
           count == Cardinality(B)
<1>1. IsFiniteSet(B) /\ total \in Int /\ count \in Nat /\ Remitted \in Nat
  BY CashIsInt, RiderAssumption
<1>2. r \notin B /\ ReconciledRows(remitted') = B \cup {r} BY DEF ReconciledRows, RiderTypeOK
<1>3. Cardinality(B \cup {r}) = count + 1 BY <1>1, <1>2, FS_AddElement
<1>4. CashInHand = total - Remitted * count BY DEF CashInHand
<1>5. CashInHand' = total - Remitted * Cardinality(B \cup {r}) BY <1>2 DEF CashInHand
<1>6. CashInHand' = total - Remitted * (count + 1) BY <1>3, <1>5
<1>7. Remitted * (count + 1) = Remitted * count + Remitted
  <2> HIDE DEF count
  <2> QED BY <1>1
<1>8. Remitted * count \in Int
  <2> HIDE DEF count
  <2> QED BY <1>1
<1> HIDE DEF total, count
<1> QED BY <1>1, <1>4, <1>6, <1>7, <1>8

--------------------
LEMMA RiderStart == RiderInit => RiderInv
<1> SUFFICES ASSUME RiderInit PROVE RiderInv OBVIOUS
<1>1. /\ collected = [c \in Collections |-> [status |-> "submitted", accepted |-> 0, paid |-> 0]]
      /\ remitted = [r \in Remittances |-> [status |-> "absent", booked |-> FALSE]]
      /\ fee \in {0, Fee} /\ keysUsed = {} /\ owed = 0 /\ shown = 0 /\ deducted = 0
      /\ desk = [s \in DeskSessions |-> Idle] /\ apartRider = TRUE /\ riderCalls = 0
  BY DEF RiderInit
<1>2. /\ [status |-> "submitted", accepted |-> 0, paid |-> 0] \in CollectionRow
      /\ [status |-> "absent", booked |-> FALSE] \in RemittanceRow
  BY RiderAssumption DEF CollectionRow, RemittanceRow
<1>3. RiderTypeOK BY <1>1, <1>2 DEF RiderTypeOK
<1>4. CashInHand = 0
  <2> DEFINE f == [c \in Collections |-> collected[c].accepted]
  <2>1. ReconciledRows(collected) = {} /\ ReconciledRows(remitted) = {} BY <1>1 DEF ReconciledRows
  <2>2. CashInHand = SumFunctionOnSet(f, {}) - Remitted * Cardinality({}) BY <2>1 DEF CashInHand
  <2>3. Cardinality({}) = 0 /\ SumFunctionOnSet(f, {}) = 0 BY FS_EmptySet, SumOfNone
  <2> HIDE DEF f
  <2> QED BY <2>2, <2>3, RiderAssumption
<1>5. PayoutsBacked /\ CashBacked /\ RunningBalance
  BY <1>1, <1>4 DEF PayoutsBacked, CashBacked, RunningBalance
<1>6. CollectedOnce /\ RemittedAsBooked BY <1>1 DEF CollectedOnce, RemittedAsBooked
<1>7. RequestsFit BY <1>1 DEF RequestsFit, RequestFits, AtWork
<1> QED BY <1>3, <1>5, <1>6, <1>7 DEF RiderInv, RiderSound

(* The tables are as they were: what holds of them and of the other requests still does. *)
LEMMA RiderRowsKept ==
  ASSUME RiderInv, UNCHANGED <<riderRows, apartRider, riderCalls>>,
         desk' \in [DeskSessions -> DeskState \cup {Idle}],
         NEW s \in DeskSessions, RequestFits(s)',
         \A r \in DeskSessions \ {s} : desk'[r] = desk[r]
  PROVE  RiderInv'
<1>1. /\ UNCHANGED <<collected, remitted, fee, keysUsed, owed, shown, deducted>>
      /\ UNCHANGED <<apartRider, riderCalls>>
  BY DEF riderRows
<1>2. RiderTypeOK' BY <1>1 DEF RiderInv, RiderTypeOK
<1>3. CashInHand' = CashInHand BY <1>1 DEF CashInHand
<1>4. RiderSound'
  BY <1>1, <1>3 DEF RiderInv, RiderSound, PayoutsBacked, CashBacked, CollectedOnce,
                    RemittedAsBooked, RunningBalance
<1>5. ASSUME NEW r \in DeskSessions, r # s PROVE RequestFits(r)'
  <2>1. RequestFits(r) /\ desk'[r] = desk[r] BY <1>5 DEF RiderInv, RequestsFit
  <2> QED BY <1>1, <1>3, <2>1 DEF RequestFits, AtWork, EntryFits, ChecksHold, MaySettle, MayDecide
<1> QED BY <1>2, <1>4, <1>5 DEF RiderInv, RequestsFit

LEMMA CheckRiderStep ==
  ASSUME RiderInv, NEW s \in DeskSessions, CheckRider(s)
  PROVE  RiderInv'
<1>1. PICK job \in DeskJobs :
        /\ job.kind \in {"accept", "reject"} => MaySettle(job)
        /\ job.kind \in {"remit", "refuse"} => MayDecide(job)
        /\ job.kind \in {"adjust", "payout"} => MayBook(job)
        /\ desk' = [desk EXCEPT ![s] = [step |-> "checked", job |-> job, entry |-> 0, sum |-> 0,
                                        lapped |-> FALSE]]
        /\ UNCHANGED <<riderRows, apartRider, riderCalls>>
  <2>1. PICK job \in DeskJobs :
          /\ CASE job.kind \in {"accept", "reject"} -> MaySettle(job)
               [] job.kind \in {"remit", "refuse"} -> MayDecide(job)
               [] OTHER -> MayBook(job)
          /\ desk' = [desk EXCEPT ![s] = [step |-> "checked", job |-> job, entry |-> 0, sum |-> 0,
                                          lapped |-> FALSE]]
          /\ UNCHANGED <<riderRows, apartRider, riderCalls>>
    BY DEF CheckRider
  <2> QED BY <2>1, DeskJobShape
<1> DEFINE request == [step |-> "checked", job |-> job, entry |-> 0, sum |-> 0, lapped |-> FALSE]
<1>2. request \in DeskState BY DEF DeskState
<1>3. request.step = "checked" /\ request.job = job OBVIOUS
<1> HIDE DEF request
<1>4. /\ desk' \in [DeskSessions -> DeskState \cup {Idle}] /\ desk'[s] = request
      /\ \A r \in DeskSessions \ {s} : desk'[r] = desk[r]
  BY <1>1, <1>2 DEF RiderInv, RiderTypeOK, request
<1>5. UNCHANGED <<collected, remitted, owed>> BY <1>1 DEF riderRows
<1>6. CashInHand' = CashInHand BY <1>5 DEF CashInHand
<1>7. ChecksHold(s)' BY <1>1, <1>3, <1>4, <1>5, <1>6 DEF ChecksHold, MaySettle, MayDecide, MayBook
<1>8. RequestFits(s)' BY <1>3, <1>4, <1>7 DEF RequestFits, EntryFits
<1> QED BY <1>1, <1>4, <1>8, RiderRowsKept

LEMMA EntryIsInt ==
  ASSUME RiderTypeOK, NEW job \in DeskJobs
  PROVE  /\ EntryOf(job) \in Int
         /\ job.kind \in {"reject", "remit", "refuse"} => EntryOf(job) = 0
         /\ job.kind = "accept" => EntryOf(job) \in {0, Fee}
         /\ job.kind = "adjust" => EntryOf(job) = job.amount
         /\ job.kind = "payout" => EntryOf(job) = -job.amount
<1>1. CASE job.kind = "accept" BY <1>1, RiderAssumption DEF EntryOf, RiderTypeOK
<1>2. CASE job.kind = "adjust" BY <1>2, DeskJobShape DEF EntryOf
<1>3. CASE job.kind = "payout" BY <1>3, DeskJobShape DEF EntryOf
<1>4. CASE job.kind \in {"reject", "remit", "refuse"} BY <1>4 DEF EntryOf
<1> QED BY <1>1, <1>2, <1>3, <1>4, DeskJobShape

LEMMA SumRiderStep ==
  ASSUME RiderInv, NEW s \in DeskSessions, SumRider(s)
  PROVE  RiderInv'
<1> DEFINE job == desk[s].job
           entry == EntryOf(job)
           request == [desk[s] EXCEPT !.step = "summed", !.entry = entry, !.sum = BalanceWith(entry)]
<1>1. /\ desk[s].step = "checked"
      /\ desk' = [desk EXCEPT ![s] = request]
      /\ UNCHANGED <<riderRows, apartRider, riderCalls>>
  BY DEF SumRider
<1>2. desk[s] \in DeskState /\ job \in DeskJobs /\ AtWork(s) BY <1>1, RequestTyped DEF RiderInv
<1>3. /\ entry \in Int
      /\ job.kind \in {"reject", "remit", "refuse"} => entry = 0
      /\ job.kind = "accept" => entry \in {0, Fee}
      /\ job.kind = "adjust" => entry = job.amount
      /\ job.kind = "payout" => entry = -job.amount
  BY <1>2, EntryIsInt DEF RiderInv
<1>4. BalanceWith(entry) = owed + entry /\ owed + entry \in Int
  BY <1>3 DEF BalanceWith, RiderInv, RiderTypeOK
<1> HIDE DEF job, entry
<1>5. /\ request \in DeskState /\ request.step = "summed" /\ request.entry = entry
      /\ request.sum = owed + entry
      /\ request.job = desk[s].job /\ request.lapped = desk[s].lapped
  BY <1>2, <1>3, <1>4 DEF DeskState
<1> HIDE DEF request
<1>6. /\ desk' \in [DeskSessions -> DeskState \cup {Idle}] /\ desk'[s] = request
      /\ \A r \in DeskSessions \ {s} : desk'[r] = desk[r]
  BY <1>1, <1>5 DEF RiderInv, RiderTypeOK
<1>7. UNCHANGED <<collected, remitted, owed>> BY <1>1 DEF riderRows
<1>8. EntryFits(s)' BY <1>3, <1>5, <1>6, <1>7 DEF EntryFits, job
<1>9. ChecksHold(s)'
  <2>1. ChecksHold(s) BY <1>2 DEF RiderInv, RequestsFit, RequestFits
  <2>2. CashInHand' = CashInHand BY <1>7 DEF CashInHand
  <2> QED BY <1>5, <1>6, <1>7, <2>1, <2>2 DEF ChecksHold, MaySettle, MayDecide
<1> QED BY <1>1, <1>6, <1>8, <1>9, RiderRowsKept DEF RequestFits

LEMMA RefuseRiderStep ==
  ASSUME RiderInv, NEW s \in DeskSessions, RefuseRider(s)
  PROVE  RiderInv'
<1>1. /\ desk' = [desk EXCEPT ![s] = Idle]
      /\ UNCHANGED <<riderRows, apartRider, riderCalls>>
  BY DEF RefuseRider
<1>2. /\ desk' \in [DeskSessions -> DeskState \cup {Idle}] /\ desk'[s] = Idle
      /\ \A r \in DeskSessions \ {s} : desk'[r] = desk[r]
  BY <1>1 DEF RiderInv, RiderTypeOK
<1> QED BY <1>1, <1>2, RiderRowsKept DEF RequestFits, AtWork

(* Cash that is handed in waits for the desk. *)
LEMMA SubmitRemittanceStep ==
  ASSUME RiderInv, SubmitRemittance
  PROVE  RiderInv'
<1>1. PICK r \in Remittances :
        /\ remitted[r].status = "absent"
        /\ remitted' = [remitted EXCEPT ![r].status = "submitted"]
        /\ UNCHANGED <<collected, fee, keysUsed, owed, shown, deducted, desk, apartRider, riderCalls>>
  BY DEF SubmitRemittance
<1>2. /\ remitted' \in [Remittances -> RemittanceRow]
      /\ remitted'[r].status = "submitted" /\ remitted'[r].booked = remitted[r].booked
      /\ \A q \in Remittances \ {r} : remitted'[q] = remitted[q]
  BY <1>1 DEF RiderInv, RiderTypeOK, RemittanceRow
<1>3. \A q \in Remittances : /\ remitted'[q].booked = remitted[q].booked
                             /\ remitted'[q].status = "reconciled" <=> remitted[q].status = "reconciled"
                             /\ remitted[q].status = "submitted" => remitted'[q].status = "submitted"
  BY <1>1, <1>2
<1>4. CashInHand' = CashInHand BY <1>1, <1>2, <1>3, CashKept DEF RiderInv, RiderTypeOK
<1>5. RiderTypeOK' BY <1>1, <1>2 DEF RiderInv, RiderTypeOK
<1>6. PayoutsBacked' /\ CashBacked' /\ CollectedOnce' /\ RunningBalance'
  BY <1>1, <1>4 DEF RiderInv, RiderSound, PayoutsBacked, CashBacked, CollectedOnce, RunningBalance
<1>7. RemittedAsBooked' BY <1>1, <1>3 DEF RiderInv, RiderSound, RemittedAsBooked
<1>8. ASSUME NEW s \in DeskSessions PROVE RequestFits(s)'
  <2>1. RequestFits(s) /\ desk' = desk /\ owed' = owed BY <1>1 DEF RiderInv, RequestsFit
  <2>2. AtWork(s) => desk[s].job \in DeskJobs BY RequestTyped DEF RiderInv
  <2>3. EntryFits(s) <=> EntryFits(s)' BY <2>1 DEF EntryFits
  <2>4. AtWork(s) /\ ChecksHold(s) => ChecksHold(s)'
    BY <1>1, <1>3, <1>4, <2>2, DeskJobShape DEF ChecksHold, MaySettle, MayDecide
  <2> QED BY <2>1, <2>3, <2>4 DEF RequestFits, AtWork
<1> QED BY <1>5, <1>6, <1>7, <1>8 DEF RiderInv, RiderSound, RequestsFit

LEMMA SetRiderProfileStep ==
  ASSUME RiderInv, SetRiderProfile
  PROVE  RiderInv'
<1>1. /\ fee' \in {0, Fee} /\ riderCalls' = riderCalls + 1
      /\ UNCHANGED <<collected, remitted, keysUsed, owed, shown, deducted, desk, apartRider>>
  BY DEF SetRiderProfile
<1>2. RiderTypeOK' BY <1>1 DEF RiderInv, RiderTypeOK
<1>3. CashInHand' = CashInHand BY <1>1 DEF CashInHand
<1>4. RiderSound'
  BY <1>1, <1>3 DEF RiderInv, RiderSound, PayoutsBacked, CashBacked, CollectedOnce,
                    RemittedAsBooked, RunningBalance
<1>5. RequestsFit'
  BY <1>1, <1>3 DEF RiderInv, RequestsFit, RequestFits, AtWork, EntryFits, ChecksHold, MaySettle,
                    MayDecide
<1> QED BY <1>2, <1>4, <1>5 DEF RiderInv

--------------------
(* A request that commits leaves every other one with checks that are out of date. *)
LEMMA OthersLapped ==
  ASSUME RiderInv, NEW s \in DeskSessions,
         desk' = [r \in DeskSessions |-> IF r = s \/ desk[r] = Idle THEN Idle
                                         ELSE [desk[r] EXCEPT !.lapped = TRUE]]
  PROVE  desk' \in [DeskSessions -> DeskState \cup {Idle}] /\ RequestsFit'
<1> DEFINE told(r) == [desk[r] EXCEPT !.lapped = TRUE]
<1>1. ASSUME NEW r \in DeskSessions, AtWork(r)
      PROVE  /\ told(r) \in DeskState /\ told(r).lapped
             /\ told(r).step = desk[r].step /\ told(r).job = desk[r].job
             /\ told(r).entry = desk[r].entry
  <2>1. desk[r] \in DeskState BY <1>1, RequestTyped DEF RiderInv
  <2> QED BY <2>1 DEF DeskState
<1>2. \A r \in DeskSessions : desk'[r] = Idle \/ (AtWork(r) /\ desk'[r] = told(r))
  <2> HIDE DEF told
  <2>1. desk' = [r \in DeskSessions |-> IF r = s \/ desk[r] = Idle THEN Idle ELSE told(r)]
    BY DEF told
  <2> QED BY <2>1 DEF AtWork
<1>3. desk' \in [DeskSessions -> DeskState \cup {Idle}]
  <2>1. \A r \in DeskSessions : desk'[r] \in DeskState \cup {Idle} BY <1>1, <1>2
  <2>2. desk' = [r \in DeskSessions |-> desk'[r]] OBVIOUS
  <2> HIDE DEF told
  <2> QED BY <2>1, <2>2
<1>4. ASSUME NEW r \in DeskSessions, AtWork(r)'
      PROVE  EntryFits(r)' /\ ChecksHold(r)'
  <2>1. AtWork(r) /\ desk'[r] = told(r) BY <1>2, <1>4 DEF AtWork
  <2>2. EntryFits(r) /\ RequestFits(r) BY <2>1 DEF RiderInv, RequestsFit, RequestFits
  <2>3. /\ desk'[r].lapped /\ desk'[r].step = desk[r].step /\ desk'[r].job = desk[r].job
        /\ desk'[r].entry = desk[r].entry
    BY <1>1, <2>1
  <2>4. EntryFits(r)' BY <2>2, <2>3 DEF EntryFits
  <2>5. ChecksHold(r)' BY <2>3 DEF ChecksHold
  <2> QED BY <2>4, <2>5
<1> QED BY <1>3, <1>4 DEF RequestsFit, RequestFits

LEMMA CommitRiderStep ==
  ASSUME RiderInv, NEW s \in DeskSessions, CommitRider(s)
  PROVE  RiderInv'
<1> DEFINE job == desk[s].job
           entry == desk[s].entry
<1>1. /\ desk[s].step = "summed" /\ ~Taken(s)
      /\ desk' = [r \in DeskSessions |-> IF r = s \/ desk[r] = Idle THEN Idle
                                         ELSE [desk[r] EXCEPT !.lapped = TRUE]]
      /\ collected' = IF job.kind \in {"accept", "reject"}
                      THEN [collected EXCEPT ![job.on] = SettledCollection(job, @)] ELSE collected
      /\ remitted' = IF job.kind \in {"remit", "refuse"}
                     THEN [remitted EXCEPT ![job.on] = Decided(job, @)] ELSE remitted
      /\ entry # 0 => /\ keysUsed' = keysUsed \cup {job.on}
                      /\ owed' = owed + entry /\ shown' = desk[s].sum
      /\ entry = 0 => keysUsed' = keysUsed /\ owed' = owed /\ shown' = shown
      /\ deducted' = IF job.kind = "adjust" /\ entry < 0 THEN deducted - entry ELSE deducted
      /\ apartRider' = (apartRider /\ ~desk[s].lapped) /\ riderCalls' = riderCalls + 1
      /\ fee' = fee
  BY DEF CommitRider
<1>2. AtWork(s) /\ job \in DeskJobs /\ entry \in Int /\ desk[s].sum \in Int /\ desk[s].lapped \in BOOLEAN
  BY <1>1, RequestTyped DEF RiderInv
<1>3. EntryFits(s) /\ ChecksHold(s) BY <1>2 DEF RiderInv, RequestsFit, RequestFits
<1>4. RiderTypeOK /\ RiderSound BY DEF RiderInv
<1>5. desk' \in [DeskSessions -> DeskState \cup {Idle}] /\ RequestsFit' BY <1>1, OthersLapped
<1>6. /\ job.kind \in {"reject", "remit", "refuse"} => entry = 0
      /\ job.kind = "accept" => entry \in {0, Fee}
      /\ job.kind = "adjust" => entry = job.amount
      /\ job.kind = "payout" => entry = -job.amount
      /\ ~desk[s].lapped => desk[s].sum = owed + entry
  BY <1>1, <1>3 DEF EntryFits
<1>7. /\ job.kind \in {"accept", "reject", "remit", "refuse", "adjust", "payout"}
      /\ job.kind \in {"accept", "reject"} => job.on \in Collections
      /\ job.kind \in {"remit", "refuse"} => job.on \in Remittances
      /\ job.kind \in {"adjust", "payout"} => job.on \in RiderKeys
      /\ job.kind = "accept" => job.amount \in 1..Collected
      /\ job.kind = "adjust" => job.amount \in Int \ {0}
      /\ job.kind = "payout" => job.amount = 1
  BY <1>2, DeskJobShape
<1>8. apartRider' => apartRider /\ ~desk[s].lapped BY <1>1
<1>9. /\ Collected \in Nat \ {0} /\ Fee \in Nat \ {0} /\ Remitted \in Nat \ {0} BY RiderAssumption
<1>10. collected' \in [Collections -> CollectionRow]
  <2>1. ASSUME NEW c \in Collections, job.kind \in {"accept", "reject"}, job.on = c
        PROVE  SettledCollection(job, collected[c]) \in CollectionRow
    <3>1. collected[c] \in CollectionRow BY <1>4 DEF RiderTypeOK
    <3> HIDE DEF job
    <3>2. CASE job.kind = "accept" BY <1>7, <1>9, <3>1, <3>2 DEF SettledCollection, CollectionRow
    <3>3. CASE job.kind = "reject" BY <3>1, <3>3 DEF SettledCollection, CollectionRow
    <3> QED BY <2>1, <3>2, <3>3
  <2> HIDE DEF job
  <2> QED BY <1>1, <1>4, <1>7, <2>1 DEF RiderTypeOK
<1>11. remitted' \in [Remittances -> RemittanceRow]
  <2>1. ASSUME NEW r \in Remittances PROVE Decided(job, remitted[r]) \in RemittanceRow
    <3>1. remitted[r] \in RemittanceRow BY <1>4 DEF RiderTypeOK
    <3> QED BY <3>1 DEF Decided, RemittanceRow
  <2> HIDE DEF job
  <2> QED BY <1>1, <1>4, <1>7, <2>1 DEF RiderTypeOK
<1>12. RiderTypeOK'
  <2>1. owed \in Int /\ shown \in Int /\ deducted \in Nat /\ riderCalls \in Nat /\ fee \in {0, Fee}
        /\ keysUsed \subseteq EntryKeys /\ apartRider \in BOOLEAN
    BY <1>4 DEF RiderTypeOK
  <2> HIDE DEF job, entry
  <2>2. entry # 0 => job.on \in EntryKeys BY <1>6, <1>7 DEF EntryKeys
  <2>3. keysUsed' \subseteq EntryKeys BY <1>1, <2>1, <2>2
  <2>4. owed' \in Int /\ shown' \in Int /\ deducted' \in Nat /\ riderCalls' \in Nat
    BY <1>1, <1>2, <2>1
  <2>5. fee' \in {0, Fee} /\ apartRider' \in BOOLEAN BY <1>1, <1>2, <2>1
  <2> QED BY <1>5, <1>10, <1>11, <2>3, <2>4, <2>5 DEF RiderTypeOK
<1>13. PayoutsBacked'
  <2> SUFFICES ASSUME apartRider' PROVE owed' + deducted' >= 0 BY DEF PayoutsBacked
  <2>1. owed \in Int /\ deducted \in Nat /\ owed + deducted >= 0
    BY <1>4, <1>8 DEF RiderTypeOK, RiderSound, PayoutsBacked
  <2>2. job.kind = "payout" => job.amount <= owed BY <1>3, <1>8 DEF ChecksHold
  <2> HIDE DEF job, entry
  <2>3. CASE job.kind = "adjust" BY <1>1, <1>2, <2>1, <2>3
  <2>4. CASE job.kind = "payout" BY <1>1, <1>2, <1>6, <1>7, <2>1, <2>2, <2>4
  <2>5. CASE job.kind \in {"accept", "reject", "remit", "refuse"}
    BY <1>1, <1>2, <1>6, <1>9, <2>1, <2>5
  <2> QED BY <1>7, <2>3, <2>4, <2>5
<1>14. RunningBalance' BY <1>1, <1>4, <1>6, <1>8 DEF RiderSound, RunningBalance
<1>15. CASE job.kind = "accept"
  <2> DEFINE c == job.on
  <2>1. c \in Collections /\ remitted' = remitted BY <1>1, <1>7, <1>15
  <2>2. /\ collected'[c] = [status |-> "reconciled", accepted |-> job.amount,
                            paid |-> collected[c].paid + job.amount]
        /\ \A d \in Collections \ {c} : collected'[d] = collected[d]
    BY <1>1, <1>4, <1>15, <2>1 DEF RiderTypeOK, SettledCollection
  <2>3. ~desk[s].lapped => collected[c].status = "submitted"
    BY <1>3, <1>15 DEF ChecksHold, MaySettle
  <2>4. CashBacked'
    <3> SUFFICES ASSUME apartRider' PROVE CashInHand' >= 0 BY DEF CashBacked
    <3>1. CashInHand >= 0 /\ collected[c].status # "reconciled" /\ CashInHand \in Int
      BY <1>4, <1>8, <2>3, CashIsInt DEF RiderSound, CashBacked
    <3>2. job.amount \in 0..Collected /\ job.amount >= 0 BY <1>7, <1>9, <1>15
    <3>3. collected'[c].status = "reconciled" /\ collected'[c].accepted = job.amount BY <2>2
    <3> HIDE DEF c, job
    <3>4. CashInHand' = CashInHand + job.amount
      BY <1>4, <1>10, <2>1, <2>2, <3>1, <3>2, <3>3, CashAfterAccepting
    <3> QED BY <3>1, <3>2, <3>4
  <2>5. CollectedOnce'
    <3> SUFFICES ASSUME apartRider', NEW d \in Collections
                 PROVE  collected'[d].paid = IF collected'[d].status = "reconciled"
                                             THEN collected'[d].accepted ELSE 0
      BY DEF CollectedOnce
    <3>1. collected[d].paid = IF collected[d].status = "reconciled" THEN collected[d].accepted ELSE 0
      BY <1>4, <1>8 DEF RiderSound, CollectedOnce
    <3>2. CASE d # c BY <2>2, <3>1, <3>2
    <3>3. CASE d = c
      <4>1. collected[c].paid = 0 BY <1>8, <2>3, <3>1, <3>3
      <4> QED BY <1>7, <1>15, <2>2, <3>3, <4>1
    <3> QED BY <3>2, <3>3
  <2>6. RemittedAsBooked' BY <1>4, <1>8, <2>1 DEF RiderSound, RemittedAsBooked
  <2> QED BY <1>5, <1>12, <1>13, <1>14, <2>4, <2>5, <2>6 DEF RiderInv, RiderSound
<1>16. CASE job.kind = "reject"
  <2> DEFINE c == job.on
  <2>1. c \in Collections /\ remitted' = remitted BY <1>1, <1>7, <1>16
  <2>2. /\ collected'[c] = [collected[c] EXCEPT !.status = "rejected"]
        /\ \A d \in Collections \ {c} : collected'[d] = collected[d]
    BY <1>1, <1>4, <1>16, <2>1 DEF RiderTypeOK, SettledCollection
  <2>3. /\ collected'[c].status = "rejected" /\ collected'[c].paid = collected[c].paid
        /\ ~desk[s].lapped => collected[c].status = "submitted"
    BY <1>3, <1>4, <1>16, <2>1, <2>2 DEF ChecksHold, MaySettle, RiderTypeOK, CollectionRow
  <2>4. CashBacked'
    <3> SUFFICES ASSUME apartRider' PROVE CashInHand' >= 0 BY DEF CashBacked
    <3>1. CashInHand >= 0 BY <1>4, <1>8 DEF RiderSound, CashBacked
    <3> HIDE DEF c
    <3>2. CashInHand' = CashInHand BY <1>4, <1>8, <1>10, <1>11, <2>1, <2>2, <2>3, CashKept
    <3> QED BY <3>1, <3>2
  <2>5. CollectedOnce'
    <3> SUFFICES ASSUME apartRider', NEW d \in Collections
                 PROVE  collected'[d].paid = IF collected'[d].status = "reconciled"
                                             THEN collected'[d].accepted ELSE 0
      BY DEF CollectedOnce
    <3>1. collected[d].paid = IF collected[d].status = "reconciled" THEN collected[d].accepted ELSE 0
      BY <1>4, <1>8 DEF RiderSound, CollectedOnce
    <3> HIDE DEF c
    <3> QED BY <1>8, <2>2, <2>3, <3>1
  <2>6. RemittedAsBooked' BY <1>4, <1>8, <2>1 DEF RiderSound, RemittedAsBooked
  <2> QED BY <1>5, <1>12, <1>13, <1>14, <2>4, <2>5, <2>6 DEF RiderInv, RiderSound
<1>17. CASE job.kind = "remit"
  <2> DEFINE r == job.on
  <2>1. r \in Remittances /\ collected' = collected BY <1>1, <1>7, <1>17
  <2>2. /\ remitted'[r].status = "reconciled" /\ remitted'[r].booked
        /\ \A q \in Remittances \ {r} : remitted'[q] = remitted[q]
    BY <1>1, <1>4, <1>17, <2>1 DEF RiderTypeOK, Decided
  <2>3. ~desk[s].lapped => remitted[r].status = "submitted" /\ Remitted <= CashInHand
    BY <1>3, <1>17 DEF ChecksHold, MayDecide
  <2> HIDE DEF r
  <2>4. CashBacked'
    <3> SUFFICES ASSUME apartRider' PROVE CashInHand' >= 0 BY DEF CashBacked
    <3>1. remitted[r].status # "reconciled" /\ Remitted <= CashInHand /\ CashInHand \in Int
      BY <1>4, <1>8, <2>3, CashIsInt
    <3>2. CashInHand' = CashInHand - Remitted BY <1>4, <1>11, <2>1, <2>2, <3>1, CashAfterRemitting
    <3> QED BY <1>9, <3>1, <3>2
  <2>5. CollectedOnce' BY <1>4, <1>8, <2>1 DEF RiderSound, CollectedOnce
  <2>6. RemittedAsBooked' BY <1>4, <1>8, <2>1, <2>2 DEF RiderSound, RemittedAsBooked
  <2> QED BY <1>5, <1>12, <1>13, <1>14, <2>4, <2>5, <2>6 DEF RiderInv, RiderSound
<1>18. CASE job.kind = "refuse"
  <2> DEFINE r == job.on
  <2>1. r \in Remittances /\ collected' = collected BY <1>1, <1>7, <1>18
  <2>2. /\ remitted'[r].status = "rejected" /\ remitted'[r].booked = remitted[r].booked
        /\ \A q \in Remittances \ {r} : remitted'[q] = remitted[q]
    BY <1>1, <1>4, <1>18, <2>1 DEF RiderTypeOK, RemittanceRow, Decided
  <2>3. ~desk[s].lapped => remitted[r].status = "submitted" BY <1>3, <1>18 DEF ChecksHold
  <2> HIDE DEF r
  <2>4. CashBacked'
    <3> SUFFICES ASSUME apartRider' PROVE CashInHand' >= 0 BY DEF CashBacked
    <3>1. CashInHand >= 0 BY <1>4, <1>8 DEF RiderSound, CashBacked
    <3>2. \A q \in Remittances : remitted'[q].status = "reconciled" <=> remitted[q].status = "reconciled"
      BY <1>8, <2>2, <2>3
    <3>3. CashInHand' = CashInHand BY <1>4, <1>10, <1>11, <2>1, <3>2, CashKept
    <3> QED BY <3>1, <3>3
  <2>5. CollectedOnce' BY <1>4, <1>8, <2>1 DEF RiderSound, CollectedOnce
  <2>6. RemittedAsBooked'
    <3>1. \A q \in Remittances : /\ remitted[q].status = "reconciled" => remitted[q].booked
                                 /\ apartRider /\ remitted[q].booked => remitted[q].status = "reconciled"
      BY <1>4 DEF RiderSound, RemittedAsBooked
    <3> QED BY <1>8, <2>1, <2>2, <2>3, <3>1 DEF RemittedAsBooked
  <2> QED BY <1>5, <1>12, <1>13, <1>14, <2>4, <2>5, <2>6 DEF RiderInv, RiderSound
<1>19. CASE job.kind \in {"adjust", "payout"}
  <2>1. collected' = collected /\ remitted' = remitted BY <1>1, <1>19
  <2>2. CashInHand' = CashInHand BY <2>1 DEF CashInHand
  <2>3. CashBacked' /\ CollectedOnce' /\ RemittedAsBooked'
    BY <1>4, <1>8, <2>1, <2>2 DEF RiderSound, CashBacked, CollectedOnce, RemittedAsBooked
  <2> QED BY <1>5, <1>12, <1>13, <1>14, <2>3 DEF RiderInv, RiderSound
<1> QED BY <1>7, <1>15, <1>16, <1>17, <1>18, <1>19

LEMMA RiderStep == RiderInv /\ [RiderNext]_riderVars => RiderInv'
<1> SUFFICES ASSUME RiderInv, [RiderNext]_riderVars PROVE RiderInv' OBVIOUS
<1>1. CASE SubmitRemittance BY <1>1, SubmitRemittanceStep
<1>2. CASE SetRiderProfile BY <1>2, SetRiderProfileStep
<1>3. ASSUME NEW s \in DeskSessions, CheckRider(s) PROVE RiderInv' BY <1>3, CheckRiderStep
<1>4. ASSUME NEW s \in DeskSessions, SumRider(s) PROVE RiderInv' BY <1>4, SumRiderStep
<1>5. ASSUME NEW s \in DeskSessions, CommitRider(s) PROVE RiderInv' BY <1>5, CommitRiderStep
<1>6. ASSUME NEW s \in DeskSessions, RefuseRider(s) PROVE RiderInv' BY <1>6, RefuseRiderStep
<1>7. CASE UNCHANGED riderVars
  <2>1. UNCHANGED <<collected, remitted, fee, keysUsed, owed, shown, deducted, desk, apartRider,
                    riderCalls>>
    BY <1>7 DEF riderVars
  <2>2. CashInHand' = CashInHand BY <2>1 DEF CashInHand
  <2> QED
    BY <2>1, <2>2 DEF RiderInv, RiderTypeOK, RiderSound, PayoutsBacked, CashBacked, CollectedOnce,
       RemittedAsBooked, RunningBalance, RequestsFit, RequestFits, AtWork, EntryFits, ChecksHold,
       MaySettle, MayDecide
<1> QED BY <1>1, <1>2, <1>3, <1>4, <1>5, <1>6, <1>7 DEF RiderNext

(* For any number of collections, remittances and requests: until two requests overlap, the *)
(* rider is paid and hands in no more than is backed, a collection is paid into its order *)
(* once, and the balance shown is the sum of the ledger; a reconciled remittance always has *)
(* its journal (create_rider_payout, reconcile_remittance, reconcile_cod_collection). *)
THEOREM RiderTrue == RiderSpec => []RiderSound
<1>1. RiderInv => RiderSound BY DEF RiderInv
<1> QED BY <1>1, RiderStart, RiderStep, PTL DEF RiderSpec

--------------------
\* ShopStock: the stock of a vendor's shop.
TxnRow == [phase: {"claiming", "copying", "writing"}, job: Jobs, bucket: Buckets, units: Int,
           seen: Int, copies: Nat, view: Int, copy: Int, product: BOOLEAN, row: BOOLEAN,
           order: OnlineRow, paid: 0..BillTotal, lapped: BOOLEAN]
OfOrder(t) == t.job.kind \in {"import", "cancel"}

(* What a transaction that is open has read and still has to do: until another one commits, *)
(* it is what is there, and for an order whose row it holds, longer. *)
Covered(t) == t.units < 0 => t.seen + t.units >= 0
Claims(t) == /\ t.phase = "claiming" => /\ OfOrder(t) /\ ~t.row /\ ~t.product /\ t.units = 0
                                        /\ t.copies = 0 /\ t.order.status \in Statuses
             /\ t.row => OfOrder(t)
             /\ t.job.kind = "cancel" /\ t.phase # "claiming" => t.row

\* What it takes out of the shop, or gives back, is what the row will tell.
Holding(row) == IF row.held = "deducted" THEN 1 ELSE 0
Tells(t) ==
  OfOrder(t) /\ t.phase # "claiming" /\ (t.row \/ ~t.lapped) =>
    /\ t.units = Holding(online[t.job.order]) - Holding(t.order)
    /\ t.order.status = "cancelled" => t.order.held # "deducted"
    /\ ~t.row => t.order.status = online[t.job.order].status

SellsOnce(t) == t.job.kind = "sale" /\ ~t.lapped => sales[t.job.key] = 0
PaysFor(t) ==
  /\ t.job.kind = "receive" => ~bills[t.job.bill].received
  /\ t.job.kind = "pay" => /\ bills[t.job.bill].received
                           /\ t.paid <= bills[t.job.bill].out + 1
                           /\ ~t.lapped => t.paid = bills[t.job.bill].paid + 1
Backs(t) == t.job.kind = "reserve" /\ ~t.lapped => stock["product"] - reserved >= 1

\* The catalogue quantity it knows, and what it will have written in the end.
Copied(t) ==
  ~t.lapped =>
    /\ ~t.product => t.view = catalogue
    /\ t.bucket = "product" /\ t.units # 0 =>
         /\ t.phase = "writing" => t.copy = stock["product"] + t.units
         /\ t.phase = "copying" /\ t.copies = 0 => t.view = stock["product"] + t.units

ShopFits(t) == /\ Covered(t) /\ Claims(t) /\ Tells(t) /\ SellsOnce(t)
               /\ PaysFor(t) /\ Backs(t) /\ Copied(t)

\* One session holds the row of an order, and one books a receipt.
Apart(t, u) == /\ OfOrder(t) /\ OfOrder(u) /\ t.job.order = u.job.order => ~(t.row /\ u.row)
               /\ ~(t.job.kind = "receive" /\ u.job.kind = "receive")

ShopRows ==
  /\ stock \in [Buckets -> Int] /\ catalogue \in Int /\ shop \in {"open", "inactive", "trash"}
  /\ online \in [OnlineOrders -> OnlineRow] /\ taken \in [OnlineOrders -> Int]
  /\ sales \in [SaleKeys -> Nat] /\ bills \in [Bills -> Bill] /\ reserved \in Nat
  /\ oversold \in [Buckets -> Nat] /\ peak \in Nat /\ outdated \subseteq OnlineOrders
  /\ clean \in BOOLEAN /\ commits \in Nat
ShopTxns == txn \in [ShopSessions -> TxnRow \cup {Closed}]
AllFit == \A s \in Open : ShopFits(txn[s])
AllApart == \A s, r \in Open : s # r => Apart(txn[s], txn[r])
RoomKept == commits + Cardinality(Open) <= MaxCommits
PeakCovers == stock["product"] <= peak

ShopInv == /\ ShopRows /\ ShopTxns /\ ShopSound /\ AllFit /\ AllApart /\ RoomKept /\ PeakCovers

--------------------
LEMMA ShopJobShape ==
  ASSUME NEW job \in Jobs
  PROVE  /\ job.kind \in {"sale", "receive", "pay", "entry", "count", "import", "cancel", "reserve"}
         /\ job.kind = "sale" => job.key \in SaleKeys
         /\ job.kind \in {"receive", "pay"} => job.bill \in Bills
         /\ job.kind \in {"import", "cancel"} => job.order \in OnlineOrders
         /\ job.kind = "import" => job.to \in Statuses
BY DEF Jobs

LEMMA OpenTyped ==
  ASSUME ShopTxns, NEW s \in ShopSessions
  PROVE  /\ s \in Open <=> txn[s] # Closed
         /\ s \in Open <=> txn[s].phase \in {"claiming", "copying", "writing"}
         /\ s \in Open => txn[s] \in TxnRow
<1>1. txn[s] \in TxnRow \cup {Closed} BY DEF ShopTxns
<1> QED BY <1>1 DEF Open, Closed, TxnRow

LEMMA OpenCounts ==
  /\ IsFiniteSet(Open) /\ Cardinality(Open) \in Nat
  /\ \A s \in Open : Cardinality(Open \ {s}) = Cardinality(Open) - 1
  /\ \A s \in ShopSessions \ Open : Cardinality(Open \cup {s}) = Cardinality(Open) + 1
<1>1. Open \subseteq ShopSessions BY DEF Open
<1>2. IsFiniteSet(Open) /\ Cardinality(Open) \in Nat
  BY <1>1, ShopAssumption, FS_Subset, FS_CardinalityType
<1>3. \A s \in Open : Cardinality(Open \ {s}) = Cardinality(Open) - 1 BY <1>2, FS_RemoveElement
<1>4. \A s \in ShopSessions \ Open : Cardinality(Open \cup {s}) = Cardinality(Open) + 1
  BY <1>2, FS_AddElement
<1> QED BY <1>2, <1>3, <1>4

(* A transaction that begins has changed nothing yet. *)
LEMMA TxnBegins ==
  ASSUME ShopRows, NEW job \in Jobs
  PROVE  /\ Txn(job) \in TxnRow /\ Txn(job).phase = "copying" /\ Txn(job).job = job
         /\ Txn(job).bucket = "product" /\ Txn(job).units = 0 /\ Txn(job).copies = 0
         /\ Txn(job).view = catalogue /\ ~Txn(job).product /\ ~Txn(job).row /\ ~Txn(job).lapped
<1>1. /\ [status |-> "absent", held |-> "none"] \in OnlineRow /\ "product" \in Buckets
      /\ 0 \in 0..BillTotal /\ catalogue \in Int
  BY ShopAssumption DEF OnlineRow, Buckets, ShopRows
<1> QED BY <1>1 DEF Txn, TxnRow

LEMMA MovingTyped ==
  ASSUME ShopRows, NEW t \in TxnRow, NEW b \in Buckets, NEW n \in Int, NEW c \in Nat
  PROVE  LET u == Moving(t, b, n, c)
         IN  /\ u \in TxnRow /\ u.phase = t.phase /\ u.job = t.job /\ u.bucket = b /\ u.units = n
             /\ u.seen = stock[b] /\ u.copies = c /\ u.view = t.view /\ u.product = t.product
             /\ u.row = t.row /\ u.lapped = t.lapped /\ u.paid = t.paid /\ u.order = t.order
<1>1. stock[b] \in Int BY DEF ShopRows
<1> QED BY <1>1 DEF Moving, TxnRow

--------------------
LEMMA ShopStart == ShopInit => ShopInv
<1> SUFFICES ASSUME ShopInit PROVE ShopInv OBVIOUS
<1>1. /\ stock = [b \in Buckets |-> OpeningStock] /\ catalogue = OpeningStock /\ shop = "open"
      /\ online = [o \in OnlineOrders |-> [status |-> "absent", held |-> "none"]]
      /\ sales = [k \in SaleKeys |-> 0]
      /\ bills = [b \in Bills |-> [received |-> FALSE, paid |-> 0, out |-> 0]]
      /\ reserved = 0 /\ txn = [s \in ShopSessions |-> Closed]
      /\ taken = [o \in OnlineOrders |-> 0]
      /\ oversold = [b \in Buckets |-> 0] /\ peak = OpeningStock /\ outdated = {}
      /\ clean = TRUE /\ commits = 0
  BY DEF ShopInit
<1>2. /\ [status |-> "absent", held |-> "none"] \in OnlineRow
      /\ [received |-> FALSE, paid |-> 0, out |-> 0] \in Bill
      /\ OpeningStock \in Nat /\ MaxCommits \in Nat /\ BillTotal \in Nat
  BY ShopAssumption DEF OnlineRow, Bill
<1>3. ShopRows /\ ShopTxns BY <1>1, <1>2 DEF ShopRows, ShopTxns
<1>4. Open = {} BY <1>1 DEF Open, Closed
<1>5. AllFit /\ AllApart /\ RoomKept BY <1>1, <1>2, <1>4, FS_EmptySet DEF AllFit, AllApart, RoomKept
<1>6. ShortOnlyByRaces /\ PeakCovers /\ ReservedBacked
  BY <1>1, <1>2 DEF ShortOnlyByRaces, PeakCovers, ReservedBacked, Buckets
<1>7. OrderHoldsWhatItTook /\ RetrySellsOnce /\ PaidOnPaper
  BY <1>1, <1>2 DEF OrderHoldsWhatItTook, RetrySellsOnce, PaidOnPaper
<1> QED BY <1>3, <1>5, <1>6, <1>7 DEF ShopInv, ShopSound

(* A session goes on with its transaction, or begins one: nothing is committed. *)
LEMMA TxnGoesOn ==
  ASSUME ShopInv, UNCHANGED <<rows, ghosts>>, NEW s \in ShopSessions, NEW t \in TxnRow \cup {Closed},
         txn' = [txn EXCEPT ![s] = t],
         t # Closed => /\ ShopFits(t) /\ (txn[s] = Closed => Room)
                       /\ \A r \in Open \ {s} : Apart(t, txn[r]) /\ Apart(txn[r], t)
  PROVE  ShopInv'
<1>1. /\ UNCHANGED <<stock, catalogue, shop, online, sales, bills, reserved>>
      /\ UNCHANGED <<taken, oversold, peak, outdated, clean, commits>>
  BY DEF rows, ghosts
<1>2. ShopTxns' /\ txn'[s] = t /\ \A r \in ShopSessions \ {s} : txn'[r] = txn[r]
  BY DEF ShopInv, ShopTxns
<1>3. ShopRows' /\ ShopSound' /\ PeakCovers'
  BY <1>1 DEF ShopInv, ShopRows, ShopSound, PeakCovers, ShortOnlyByRaces, OrderHoldsWhatItTook,
              RetrySellsOnce, PaidOnPaper, ReservedBacked
<1>4. /\ t # Closed => Open' = Open \cup {s}
      /\ t = Closed => Open' = Open \ {s}
  <2>1. t # Closed <=> t.phase # "closed" BY DEF Closed, TxnRow
  <2> QED BY <1>2, <2>1 DEF Open
<1>5. ASSUME NEW r \in Open' PROVE ShopFits(txn[r])'
  <2>1. ShopFits(txn'[r]) BY <1>2, <1>4 DEF ShopInv, AllFit, Open
  <2> QED BY <1>1, <2>1 DEF ShopFits, Covered, Claims, Tells, SellsOnce, PaysFor, Backs, Copied
<1>6. ASSUME NEW q \in Open', NEW r \in Open', q # r PROVE Apart(txn[q], txn[r])'
  <2>1. Apart(txn'[q], txn'[r]) BY <1>2, <1>4, <1>6 DEF ShopInv, AllApart, Open
  <2> QED BY <2>1 DEF Apart
<1>7. RoomKept'
  <2>1. RoomKept /\ commits \in Nat /\ commits' = commits BY <1>1 DEF ShopInv, ShopRows
  <2>2. s \in Open <=> txn[s] # Closed BY OpenTyped DEF ShopInv
  <2>3. CASE t = Closed
    <3>1. CASE s \in Open BY <1>4, <2>1, <2>3, <3>1, OpenCounts, ShopAssumption DEF RoomKept
    <3>2. CASE s \notin Open
      <4>1. Open' = Open BY <1>4, <2>3, <3>2
      <4> QED BY <2>1, <4>1 DEF RoomKept
    <3> QED BY <3>1, <3>2
  <2>4. CASE t # Closed /\ s \in Open
    <3>1. Open' = Open BY <1>4, <2>4
    <3> QED BY <2>1, <3>1 DEF RoomKept
  <2>5. CASE t # Closed /\ s \notin Open
    <3>1. Cardinality(Open') = Cardinality(Open) + 1 BY <1>4, <2>5, OpenCounts
    <3>2. commits + Cardinality(Open) < MaxCommits BY <2>2, <2>5 DEF Room
    <3> QED BY <2>1, <3>1, <3>2, OpenCounts, ShopAssumption DEF RoomKept
  <2> QED BY <2>3, <2>4, <2>5
<1> QED BY <1>2, <1>3, <1>5, <1>6, <1>7 DEF ShopInv, AllFit, AllApart

(* A call that is neither a receipt nor the change of an order keeps apart from all others. *)
LEMMA BegunKeepsApart ==
  ASSUME NEW t \in TxnRow, ~t.row, t.job.kind # "receive"
  PROVE  \A u : Apart(t, u) /\ Apart(u, t)
BY DEF Apart

LEMMA EntryStep ==
  ASSUME ShopInv, NEW s \in ShopSessions, Entry(s)
  PROVE  ShopInv'
<1>1. PICK b \in Buckets, n \in ShopMovements, v \in {0, 1} :
        /\ MayMove(b, n)
        /\ Start(s, Moving(Txn([kind |-> "entry", bucket |-> b, units |-> n]), b, n,
                           (IF b = "product" THEN 1 ELSE 0) + v))
        /\ UNCHANGED <<rows, ghosts>>
  BY DEF Entry
<1> DEFINE job == [kind |-> "entry", bucket |-> b, units |-> n]
           c == (IF b = "product" THEN 1 ELSE 0) + v
           t == Moving(Txn(job), b, n, c)
<1>2. job \in Jobs /\ n \in Int /\ c \in Nat /\ (b = "product" => c # 0) /\ job.kind = "entry"
  BY ShopAssumption DEF Jobs
<1> HIDE DEF job, c
<1>3. /\ Txn(job) \in TxnRow /\ Txn(job).phase = "copying" /\ Txn(job).job = job
      /\ Txn(job).view = catalogue /\ ~Txn(job).product /\ ~Txn(job).row /\ ~Txn(job).lapped
  BY <1>2, TxnBegins DEF ShopInv
<1>4. /\ t \in TxnRow /\ t.phase = "copying" /\ t.job = job /\ t.bucket = b /\ t.units = n
      /\ t.seen = stock[b] /\ t.copies = c /\ t.view = catalogue /\ ~t.product /\ ~t.row
  BY <1>2, <1>3, MovingTyped DEF ShopInv
<1>5. txn[s] = Closed /\ Room /\ txn' = [txn EXCEPT ![s] = t] /\ stock[b] + n >= 0
  BY <1>1 DEF Start, job, c, MayMove
<1> HIDE DEF t
<1>6. ShopFits(t)
  BY <1>2, <1>4, <1>5 DEF ShopFits, Covered, Claims, OfOrder, Tells, SellsOnce, PaysFor, Backs, Copied
<1> QED BY <1>1, <1>2, <1>4, <1>5, <1>6, TxnGoesOn, BegunKeepsApart

LEMMA SellStep ==
  ASSUME ShopInv, NEW s \in ShopSessions, Sell(s)
  PROVE  ShopInv'
<1>1. PICK k \in SaleKeys :
        /\ SaleIsNew(k) /\ MayMove("product", -1)
        /\ Start(s, Moving(Txn([kind |-> "sale", key |-> k]), "product", -1, 2))
        /\ UNCHANGED <<rows, ghosts>>
  BY DEF Sell
<1> DEFINE job == [kind |-> "sale", key |-> k]
           t == Moving(Txn(job), "product", -1, 2)
<1>2. job \in Jobs /\ "product" \in Buckets /\ job.kind = "sale" /\ job.key = k BY DEF Jobs, Buckets
<1> HIDE DEF job
<1>3. /\ Txn(job) \in TxnRow /\ Txn(job).phase = "copying" /\ Txn(job).job = job
      /\ Txn(job).view = catalogue /\ ~Txn(job).product /\ ~Txn(job).row /\ ~Txn(job).lapped
  BY <1>2, TxnBegins DEF ShopInv
<1>4. /\ t \in TxnRow /\ t.phase = "copying" /\ t.job = job /\ t.bucket = "product" /\ t.units = -1
      /\ t.seen = stock["product"] /\ t.copies = 2 /\ t.view = catalogue /\ ~t.product /\ ~t.row
  BY <1>2, <1>3, MovingTyped DEF ShopInv
<1>5. /\ txn[s] = Closed /\ Room /\ txn' = [txn EXCEPT ![s] = t] /\ stock["product"] - 1 >= 0
      /\ stock["product"] \in Int
  BY <1>1, <1>2 DEF Start, job, MayMove, ShopInv, ShopRows
<1> HIDE DEF t
<1>6. ShopFits(t)
  BY <1>1, <1>2, <1>4, <1>5
     DEF ShopFits, Covered, Claims, OfOrder, Tells, SellsOnce, SaleIsNew, PaysFor, Backs, Copied
<1> QED BY <1>1, <1>2, <1>4, <1>5, <1>6, TxnGoesOn, BegunKeepsApart

LEMMA ReceiveStep ==
  ASSUME ShopInv, NEW s \in ShopSessions, Receive(s)
  PROVE  ShopInv'
<1>1. PICK b \in Bills, paid \in {0, BillTotal} :
        /\ ~bills[b].received
        /\ \A r \in Open : txn[r].job.kind # "receive"
        /\ MayMove("product", BillTotal)
        /\ Start(s, [Moving(Txn([kind |-> "receive", bill |-> b]), "product", BillTotal, 2)
                     EXCEPT !.paid = paid])
        /\ UNCHANGED <<rows, ghosts>>
  BY DEF Receive
<1> DEFINE job == [kind |-> "receive", bill |-> b]
           u == Moving(Txn(job), "product", BillTotal, 2)
           t == [u EXCEPT !.paid = paid]
<1>2. /\ job \in Jobs /\ "product" \in Buckets /\ job.kind = "receive" /\ job.bill = b
      /\ BillTotal \in Nat \ {0} /\ paid \in 0..BillTotal
  BY ShopAssumption DEF Jobs, Buckets
<1> HIDE DEF job
<1>3. /\ Txn(job) \in TxnRow /\ Txn(job).phase = "copying" /\ Txn(job).job = job
      /\ Txn(job).view = catalogue /\ ~Txn(job).product /\ ~Txn(job).row /\ ~Txn(job).lapped
  BY <1>2, TxnBegins DEF ShopInv
<1>4. /\ u \in TxnRow /\ u.phase = "copying" /\ u.job = job /\ u.bucket = "product"
      /\ u.units = BillTotal /\ u.copies = 2 /\ u.view = catalogue /\ ~u.product /\ ~u.row
  BY <1>2, <1>3, MovingTyped DEF ShopInv
<1> HIDE DEF u
<1>5. /\ t \in TxnRow /\ t.phase = "copying" /\ t.job = job /\ t.bucket = "product"
      /\ t.units = BillTotal /\ t.copies = 2 /\ t.view = catalogue /\ ~t.product /\ ~t.row
  BY <1>2, <1>4 DEF TxnRow
<1>6. txn[s] = Closed /\ Room /\ txn' = [txn EXCEPT ![s] = t] BY <1>1 DEF Start, job, u
<1> HIDE DEF t
<1>7. ShopFits(t)
  BY <1>1, <1>2, <1>5
     DEF ShopFits, Covered, Claims, OfOrder, Tells, SellsOnce, PaysFor, Backs, Copied
<1>8. \A r \in Open \ {s} : Apart(t, txn[r]) /\ Apart(txn[r], t) BY <1>1, <1>5 DEF Apart
<1> QED BY <1>1, <1>5, <1>6, <1>7, <1>8, TxnGoesOn

LEMMA PayStep ==
  ASSUME ShopInv, NEW s \in ShopSessions, Pay(s)
  PROVE  ShopInv'
<1>1. PICK b \in Bills :
        /\ MayPay(b)
        /\ Start(s, [Txn([kind |-> "pay", bill |-> b]) EXCEPT !.paid = bills[b].paid + 1])
        /\ UNCHANGED <<rows, ghosts>>
  BY DEF Pay
<1> DEFINE job == [kind |-> "pay", bill |-> b]
           t == [Txn(job) EXCEPT !.paid = bills[b].paid + 1]
<1>2. /\ job \in Jobs /\ job.kind = "pay" /\ job.bill = b /\ bills[b].received
      /\ bills[b] \in Bill /\ bills[b].paid + 1 \in 0..BillTotal /\ bills[b].paid <= bills[b].out
  BY <1>1, ShopAssumption DEF Jobs, MayPay, ShopInv, ShopRows, Bill, ShopSound, PaidOnPaper
<1> HIDE DEF job
<1>3. /\ Txn(job) \in TxnRow /\ Txn(job).phase = "copying" /\ Txn(job).job = job
      /\ Txn(job).bucket = "product" /\ Txn(job).units = 0
      /\ Txn(job).view = catalogue /\ ~Txn(job).product /\ ~Txn(job).row /\ ~Txn(job).lapped
  BY <1>2, TxnBegins DEF ShopInv
<1>4. /\ t \in TxnRow /\ t.phase = "copying" /\ t.job = job /\ t.units = 0
      /\ t.paid = bills[b].paid + 1 /\ t.view = catalogue /\ ~t.product /\ ~t.row
  BY <1>2, <1>3 DEF TxnRow
<1>5. txn[s] = Closed /\ Room /\ txn' = [txn EXCEPT ![s] = t] BY <1>1 DEF Start, job
<1>6. bills[b].paid + 1 <= bills[b].out + 1 BY <1>2, ShopAssumption DEF Bill
<1> HIDE DEF t
<1>7. ShopFits(t)
  BY <1>2, <1>4, <1>6
     DEF ShopFits, Covered, Claims, OfOrder, Tells, SellsOnce, PaysFor, Backs, Copied
<1> QED BY <1>1, <1>2, <1>4, <1>5, <1>7, TxnGoesOn, BegunKeepsApart

LEMMA CountStep ==
  ASSUME ShopInv, NEW s \in ShopSessions, Count(s)
  PROVE  ShopInv'
<1>1. PICK n \in 0..BillTotal :
        LET delta == n - stock["product"]
            t == Txn([kind |-> "count", target |-> n])
        IN /\ Start(s, [Moving(t, "product", delta, IF delta = 0 THEN 1 ELSE 2)
                        EXCEPT !.view = n, !.product = catalogue # n])
           /\ UNCHANGED <<rows, ghosts>>
  BY DEF Count
<1> DEFINE job == [kind |-> "count", target |-> n]
           delta == n - stock["product"]
           u == Moving(Txn(job), "product", delta, IF delta = 0 THEN 1 ELSE 2)
           t == [u EXCEPT !.view = n, !.product = catalogue # n]
<1>2. /\ job \in Jobs /\ "product" \in Buckets /\ job.kind = "count"
      /\ n \in Int /\ n >= 0 /\ delta \in Int /\ stock["product"] \in Int
      /\ stock["product"] + delta = n
  BY ShopAssumption DEF Jobs, Buckets, ShopInv, ShopRows
<1> HIDE DEF job, delta
<1>3. /\ Txn(job) \in TxnRow /\ Txn(job).phase = "copying" /\ Txn(job).job = job
      /\ ~Txn(job).row /\ ~Txn(job).lapped
  BY <1>2, TxnBegins DEF ShopInv
<1>4. /\ u \in TxnRow /\ u.phase = "copying" /\ u.job = job /\ u.bucket = "product"
      /\ u.units = delta /\ u.seen = stock["product"]
      /\ u.copies = (IF delta = 0 THEN 1 ELSE 2) /\ ~u.row
  BY <1>2, <1>3, MovingTyped DEF ShopInv
<1> HIDE DEF u
<1>5. /\ t \in TxnRow /\ t.phase = "copying" /\ t.job = job /\ t.bucket = "product"
      /\ t.units = delta /\ t.seen = stock["product"]
      /\ t.copies = (IF delta = 0 THEN 1 ELSE 2) /\ ~t.row
      /\ t.view = n /\ t.product = (catalogue # n)
  BY <1>2, <1>4 DEF TxnRow
<1>6. /\ txn[s] = Closed /\ Room /\ txn' = [txn EXCEPT ![s] = t] /\ UNCHANGED <<rows, ghosts>>
  BY <1>1 DEF Start, job, u, delta
<1> HIDE DEF t
<1>7. ShopFits(t)
  BY <1>2, <1>5
     DEF ShopFits, Covered, Claims, OfOrder, Tells, SellsOnce, PaysFor, Backs, Copied
<1> QED BY <1>2, <1>5, <1>6, <1>7, TxnGoesOn, BegunKeepsApart

LEMMA ReserveStep ==
  ASSUME ShopInv, NEW s \in ShopSessions, Reserve(s)
  PROVE  ShopInv'
<1> DEFINE job == [kind |-> "reserve"]
           t == Txn(job)
<1>1. /\ MayReserve /\ txn[s] = Closed /\ Room /\ txn' = [txn EXCEPT ![s] = t]
      /\ UNCHANGED <<rows, ghosts>>
  BY DEF Reserve, Start
<1>2. job \in Jobs /\ job.kind = "reserve" BY DEF Jobs
<1> HIDE DEF job
<1>3. /\ t \in TxnRow /\ t.phase = "copying" /\ t.job = job
      /\ t.bucket = "product" /\ t.units = 0
      /\ t.view = catalogue /\ ~t.product /\ ~t.row /\ ~t.lapped
  BY <1>2, TxnBegins DEF ShopInv
<1> HIDE DEF t
<1>4. ShopFits(t)
  BY <1>1, <1>2, <1>3
     DEF ShopFits, Covered, Claims, OfOrder, Tells, SellsOnce, PaysFor, Backs, Copied, MayReserve
<1> QED BY <1>1, <1>2, <1>3, <1>4, TxnGoesOn, BegunKeepsApart

--------------------
(* What becomes of the stock of an order is what its row will tell. *)
LEMMA SettledFits ==
  ASSUME ShopInv, NEW t \in TxnRow, t.job.kind \in {"import", "cancel"},
         t.job.kind = "cancel" => t.row,
         t.phase = "copying", t.units = 0, t.copies = 0, ~t.product, ~t.lapped => t.view = catalogue,
         NEW row \in OnlineRow, row.held = online[t.job.order].held,
         ~t.row => row.status = online[t.job.order].status
  PROVE  LET u == Settled(t, row)
         IN  /\ u \in TxnRow /\ ShopFits(u)
             /\ u.job = t.job /\ u.row = t.row /\ u.lapped = t.lapped /\ u.phase = "copying"
<1> DEFINE held == online[t.job.order].held
           u == Settled(t, row)
           Good(w, h) == /\ w \in TxnRow /\ w.job = t.job /\ w.row = t.row /\ w.lapped = t.lapped
                         /\ w.phase = "copying" /\ w.copies = 0 /\ ~w.product /\ w.view = t.view
                         /\ w.order.status = row.status /\ w.order.held = h
<1>1. /\ "variant" \in Buckets /\ stock["variant"] \in Int /\ t.job \in Jobs
      /\ row.held \in {"none", "deducted", "stock_issue", "restored"}
      /\ 1 \in Int /\ -1 \in Int /\ 0 \in Nat
  BY DEF Buckets, ShopInv, ShopRows, TxnRow, OnlineRow
<1>2. \A h \in {"restored", "deducted", "stock_issue"} :
        /\ [row EXCEPT !.held = h] \in OnlineRow
        /\ [row EXCEPT !.held = h].held = h /\ [row EXCEPT !.held = h].status = row.status
  BY DEF OnlineRow
<1>3. ASSUME NEW w \in TxnRow, NEW r \in OnlineRow
      PROVE  LET x == [w EXCEPT !.order = r]
             IN  /\ x \in TxnRow /\ x.order = r /\ x.job = w.job /\ x.row = w.row
                 /\ x.lapped = w.lapped /\ x.phase = w.phase /\ x.units = w.units
                 /\ x.copies = w.copies /\ x.product = w.product /\ x.view = w.view
                 /\ x.seen = w.seen /\ x.bucket = w.bucket
  BY DEF TxnRow
<1>4. ASSUME NEW n \in {1, -1}, NEW h \in {"restored", "deducted"}
      PROVE  LET x == [Moving(t, "variant", n, 0) EXCEPT !.order = [row EXCEPT !.held = h]]
             IN  Good(x, h) /\ x.units = n /\ x.seen = stock["variant"] /\ x.bucket = "variant"
  <2> DEFINE w == Moving(t, "variant", n, 0)
  <2>1. /\ w \in TxnRow /\ w.phase = t.phase /\ w.job = t.job /\ w.bucket = "variant"
        /\ w.units = n /\ w.seen = stock["variant"] /\ w.copies = 0 /\ w.view = t.view
        /\ w.product = t.product /\ w.row = t.row /\ w.lapped = t.lapped
    BY <1>1, MovingTyped DEF ShopInv
  <2> DEFINE r == [row EXCEPT !.held = h]
             x == [w EXCEPT !.order = r]
  <2>2. r \in OnlineRow /\ r.held = h /\ r.status = row.status BY <1>2
  <2> HIDE DEF w, r
  <2>3. /\ x \in TxnRow /\ x.order = r /\ x.job = w.job /\ x.row = w.row
        /\ x.lapped = w.lapped /\ x.phase = w.phase /\ x.units = w.units
        /\ x.copies = w.copies /\ x.product = w.product /\ x.view = w.view
        /\ x.seen = w.seen /\ x.bucket = w.bucket
    BY <1>3, <2>1, <2>2
  <2> HIDE DEF x
  <2>4. Good(x, h) /\ x.units = n /\ x.seen = stock["variant"] /\ x.bucket = "variant"
    BY <2>1, <2>2, <2>3
  <2> QED BY <2>4 DEF x, w, r
<1>5. CASE Returns(row)
  <2>1. u = [Moving(t, "variant", 1, 0) EXCEPT !.order = [row EXCEPT !.held = "restored"]]
    <3>1. ~Takes(row) BY <1>5 DEF Returns, Takes
    <3> QED BY <1>5, <3>1 DEF Settled
  <2>2. /\ Good(u, "restored") /\ u.units = 1 /\ u.bucket = "variant"
        /\ row.status = "cancelled" /\ row.held = "deducted"
    BY <1>4, <1>5, <2>1 DEF Returns
  <2> HIDE DEF u
  <2> QED
    BY <2>2 DEF ShopFits, Covered, Claims, OfOrder, Tells, Holding, SellsOnce, PaysFor, Backs, Copied, u
<1>6. CASE Takes(row) /\ stock["variant"] >= 1
  <2>1. ~Returns(row) BY <1>6 DEF Takes, Returns
  <2>2. u = [Moving(t, "variant", -1, 0) EXCEPT !.order = [row EXCEPT !.held = "deducted"]]
    BY <1>1, <1>6, <2>1 DEF Settled
  <2>3. /\ Good(u, "deducted") /\ u.units = -1 /\ u.bucket = "variant" /\ u.seen = stock["variant"]
        /\ row.status # "cancelled" /\ row.held # "deducted"
    BY <1>4, <1>6, <2>2 DEF Takes
  <2> HIDE DEF u
  <2> QED
    BY <1>1, <1>6, <2>3
       DEF ShopFits, Covered, Claims, OfOrder, Tells, Holding, SellsOnce, PaysFor, Backs, Copied, u
<1>7. CASE Takes(row) /\ stock["variant"] < 1
  <2>1. ~Returns(row) /\ ~(stock["variant"] >= 1) BY <1>1, <1>7 DEF Takes, Returns
  <2>2. u = [t EXCEPT !.order = [row EXCEPT !.held = "stock_issue"]] BY <1>7, <2>1 DEF Settled
  <2>3. Good(u, "stock_issue") /\ u.units = 0 /\ row.held # "deducted"
    <3> DEFINE new == [row EXCEPT !.held = "stock_issue"]
    <3>1. new \in OnlineRow /\ new.held = "stock_issue" /\ new.status = row.status BY <1>2
    <3>2. u = [t EXCEPT !.order = new] BY <2>2
    <3> HIDE DEF u, new
    <3> QED BY <1>3, <1>7, <3>1, <3>2 DEF Takes
  <2> HIDE DEF u
  <2> QED
    BY <2>3 DEF ShopFits, Covered, Claims, OfOrder, Tells, Holding, SellsOnce, PaysFor, Backs, Copied, u
<1>8. CASE ~Returns(row) /\ ~Takes(row)
  <2>1. u = [t EXCEPT !.order = row] BY <1>8 DEF Settled
  <2>2. Good(u, row.held) /\ u.units = 0 /\ (row.status = "cancelled" => row.held # "deducted")
    BY <1>3, <1>8, <2>1 DEF Returns
  <2> HIDE DEF u
  <2> QED
    BY <2>2 DEF ShopFits, Covered, Claims, OfOrder, Tells, Holding, SellsOnce, PaysFor, Backs, Copied, u
<1> QED BY <1>1, <1>5, <1>6, <1>7, <1>8

LEMMA ImportAgainStep ==
  ASSUME ShopInv, NEW s \in ShopSessions, ImportAgain(s)
  PROVE  ShopInv'
<1>1. PICK o \in OnlineOrders :
        LET row == online[o]
            t == Settled(Txn([kind |-> "import", order |-> o, to |-> row.status]), row)
        IN row.status # "absent" /\ Start(s, t) /\ UNCHANGED <<rows, ghosts>>
  BY DEF ImportAgain
<1> DEFINE row == online[o]
           job == [kind |-> "import", order |-> o, to |-> row.status]
           t == Settled(Txn(job), row)
<1>2. row \in OnlineRow /\ row.status # "absent" BY <1>1 DEF ShopInv, ShopRows
<1>3. job \in Jobs /\ job.kind = "import" /\ job.order = o BY <1>2 DEF Jobs, OnlineRow
<1> HIDE DEF job
<1>4. /\ Txn(job) \in TxnRow /\ Txn(job).phase = "copying" /\ Txn(job).job = job
      /\ Txn(job).units = 0 /\ Txn(job).copies = 0
      /\ Txn(job).view = catalogue /\ ~Txn(job).product /\ ~Txn(job).row /\ ~Txn(job).lapped
  BY <1>3, TxnBegins DEF ShopInv
<1>5. /\ txn[s] = Closed /\ Room /\ txn' = [txn EXCEPT ![s] = t] /\ UNCHANGED <<rows, ghosts>>
  BY <1>1 DEF Start, job
<1>6. t \in TxnRow /\ ShopFits(t) /\ t.job = job /\ ~t.row BY <1>2, <1>3, <1>4, SettledFits
<1> HIDE DEF t, row
<1> QED BY <1>3, <1>5, <1>6, TxnGoesOn, BegunKeepsApart

LEMMA ChangeOrderStep ==
  ASSUME ShopInv, NEW s \in ShopSessions, ChangeOrder(s)
  PROVE  ShopInv'
<1>1. PICK job \in {j \in Jobs : j.kind \in {"import", "cancel"}} :
        LET to == IF job.kind = "import" THEN job.to ELSE "cancelled"
            row == online[job.order]
        IN /\ Start(s, [Txn(job) EXCEPT !.phase = "claiming", !.order = [row EXCEPT !.status = to],
                                        !.paid = IF row.status = "absent" THEN 1 ELSE 0])
           /\ UNCHANGED <<rows, ghosts>>
  BY DEF ChangeOrder
<1> DEFINE to == IF job.kind = "import" THEN job.to ELSE "cancelled"
           row == online[job.order]
           new == [row EXCEPT !.status = to]
           paid == IF row.status = "absent" THEN 1 ELSE 0
           t == [Txn(job) EXCEPT !.phase = "claiming", !.order = new, !.paid = paid]
<1>2. job \in Jobs /\ job.kind \in {"import", "cancel"} /\ job.order \in OnlineOrders
  BY ShopJobShape
<1>3. to \in Statuses /\ row \in OnlineRow /\ paid \in 0..BillTotal
  BY <1>2, ShopJobShape, ShopAssumption DEF Statuses, ShopInv, ShopRows
<1>4. txn[s] = Closed /\ Room /\ txn' = [txn EXCEPT ![s] = t] /\ UNCHANGED <<rows, ghosts>>
  BY <1>1 DEF Start
<1> HIDE DEF to, paid
<1>5. new \in OnlineRow /\ new.status = to BY <1>3 DEF OnlineRow
<1> HIDE DEF new
<1>6. /\ Txn(job) \in TxnRow /\ Txn(job).job = job
      /\ Txn(job).bucket = "product" /\ Txn(job).units = 0 /\ Txn(job).copies = 0
      /\ Txn(job).view = catalogue /\ ~Txn(job).product /\ ~Txn(job).row /\ ~Txn(job).lapped
  BY <1>2, TxnBegins DEF ShopInv
<1>7. /\ t \in TxnRow /\ t.phase = "claiming" /\ t.job = job /\ t.order = new /\ t.units = 0
      /\ t.copies = 0 /\ t.view = catalogue /\ ~t.product /\ ~t.row
  BY <1>3, <1>5, <1>6 DEF TxnRow
<1> HIDE DEF t
<1>8. ShopFits(t)
  BY <1>2, <1>3, <1>5, <1>7
     DEF ShopFits, Covered, Claims, OfOrder, Tells, SellsOnce, PaysFor, Backs, Copied
<1> QED BY <1>2, <1>4, <1>7, <1>8, TxnGoesOn, BegunKeepsApart

(* Whoever has the row has read it since it was last written. *)
LEMMA ClaimOrderStep ==
  ASSUME ShopInv, NEW s \in ShopSessions, ClaimOrder(s)
  PROVE  ShopInv'
<1> DEFINE t == txn[s]
           o == t.job.order
           u == [t EXCEPT !.phase = "copying", !.row = TRUE, !.paid = 0]
           row == [t.order EXCEPT !.held = online[o].held]
           settled == Settled(u, row)
<1>1. /\ t.phase = "claiming" /\ OrderLockFree(s, o) /\ UNCHANGED <<rows, ghosts>>
      /\ txn' = [txn EXCEPT ![s] = Closed] \/ txn' = [txn EXCEPT ![s] = settled]
  BY DEF ClaimOrder, Continue
<1>2. s \in Open /\ t \in TxnRow /\ txn[s] # Closed BY <1>1, OpenTyped DEF ShopInv
<1>3. ShopFits(t) BY <1>2 DEF ShopInv, AllFit
<1>4. /\ OfOrder(t) /\ t.units = 0 /\ t.copies = 0 /\ ~t.product /\ t.job \in Jobs
      /\ t.order \in OnlineRow /\ o \in OnlineOrders
      /\ ~t.lapped => t.view = catalogue
  BY <1>1, <1>2, <1>3, ShopJobShape DEF ShopFits, Claims, Copied, TxnRow, OfOrder
<1>5. online[o] \in OnlineRow /\ row \in OnlineRow /\ row.held = online[o].held
  <2>1. online[o] \in OnlineRow BY <1>4 DEF ShopInv, ShopRows
  <2> QED BY <1>4, <2>1 DEF OnlineRow
<1>6. /\ u \in TxnRow /\ u.job = t.job /\ u.phase = "copying" /\ u.units = 0 /\ u.copies = 0
      /\ ~u.product /\ u.row /\ u.view = t.view /\ u.lapped = t.lapped
  <2>1. 0 \in 0..BillTotal BY ShopAssumption
  <2> HIDE DEF t, o
  <2> QED BY <1>2, <1>4, <2>1 DEF TxnRow
<1> HIDE DEF u, row
<1>7. settled \in TxnRow /\ ShopFits(settled) /\ settled.job = t.job
  BY <1>4, <1>5, <1>6, SettledFits DEF OfOrder
<1>8. \A r \in Open \ {s} : Apart(settled, txn[r]) /\ Apart(txn[r], settled)
  <2> SUFFICES ASSUME NEW r \in Open \ {s}
               PROVE  Apart(settled, txn[r]) /\ Apart(txn[r], settled)
    OBVIOUS
  <2>1. SameOrder(r, o) => ~txn[r].row BY <1>1 DEF OrderLockFree
  <2> HIDE DEF settled
  <2> QED BY <1>4, <1>7, <2>1 DEF Apart, SameOrder, OfOrder
<1> HIDE DEF settled
<1> QED BY <1>1, <1>2, <1>7, <1>8, TxnGoesOn

LEMMA SumShopStep ==
  ASSUME ShopInv, NEW s \in ShopSessions, SumShop(s)
  PROVE  ShopInv'
<1> DEFINE t == txn[s]
           u == [t EXCEPT !.phase = "writing", !.copies = @ - 1, !.copy = CopyOf(t)]
<1>1. /\ t.phase = "copying" /\ t.copies > 0 /\ UNCHANGED <<rows, ghosts>>
      /\ txn' = [txn EXCEPT ![s] = u]
  BY DEF SumShop, Continue
<1>2. s \in Open /\ t \in TxnRow /\ txn[s] # Closed BY <1>1, OpenTyped DEF ShopInv
<1>3. ShopFits(t) BY <1>2 DEF ShopInv, AllFit
<1>4. /\ CopyOf(t) \in Int
      /\ t.bucket = "product" => CopyOf(t) = stock["product"] + t.units
  BY <1>2 DEF CopyOf, ShopInv, ShopRows, TxnRow, Buckets
<1>5. /\ u \in TxnRow /\ u.job = t.job /\ u.phase = "writing" /\ u.units = t.units
      /\ u.seen = t.seen /\ u.copy = CopyOf(t) /\ u.bucket = t.bucket /\ u.order = t.order
      /\ u.product = t.product /\ u.row = t.row /\ u.view = t.view /\ u.lapped = t.lapped
      /\ u.paid = t.paid
  <2> DEFINE copies == t.copies - 1
             copy == CopyOf(t)
  <2>1. copies \in Nat /\ copy \in Int BY <1>1, <1>2, <1>4 DEF TxnRow
  <2>2. u = [t EXCEPT !.phase = "writing", !.copies = copies, !.copy = copy] OBVIOUS
  <2> HIDE DEF t, u, copies, copy
  <2>3. /\ u \in TxnRow /\ u.job = t.job /\ u.phase = "writing" /\ u.units = t.units
        /\ u.seen = t.seen /\ u.copy = copy /\ u.bucket = t.bucket /\ u.order = t.order
        /\ u.product = t.product /\ u.row = t.row /\ u.view = t.view /\ u.lapped = t.lapped
        /\ u.paid = t.paid
    BY <1>2, <2>1, <2>2 DEF TxnRow
  <2> QED BY <2>3 DEF copy
<1> HIDE DEF u
<1>6. ShopFits(u)
  BY <1>1, <1>3, <1>4, <1>5
     DEF ShopFits, Covered, Claims, OfOrder, Tells, SellsOnce, PaysFor, Backs, Copied
<1>7. \A r \in Open \ {s} : Apart(u, txn[r]) /\ Apart(txn[r], u)
  BY <1>2, <1>5 DEF Apart, OfOrder, ShopInv, AllApart
<1> QED BY <1>1, <1>2, <1>5, <1>6, <1>7, TxnGoesOn

LEMMA WriteCatalogueStep ==
  ASSUME ShopInv, NEW s \in ShopSessions, WriteCatalogue(s)
  PROVE  ShopInv'
<1> DEFINE t == txn[s]
           u == [t EXCEPT !.phase = "copying", !.product = @ \/ t.copy # t.view, !.view = t.copy]
<1>1. /\ t.phase = "writing" /\ UNCHANGED <<rows, ghosts>>
      /\ txn' = [txn EXCEPT ![s] = u]
  BY DEF WriteCatalogue, Continue
<1>2. s \in Open /\ t \in TxnRow /\ txn[s] # Closed BY <1>1, OpenTyped DEF ShopInv
<1>3. ShopFits(t) BY <1>2 DEF ShopInv, AllFit
<1>4. /\ u \in TxnRow /\ u.job = t.job /\ u.phase = "copying" /\ u.units = t.units
      /\ u.seen = t.seen /\ u.bucket = t.bucket /\ u.order = t.order
      /\ u.product = (t.product \/ t.copy # t.view) /\ u.row = t.row /\ u.view = t.copy
      /\ u.lapped = t.lapped /\ u.paid = t.paid
  BY <1>1, <1>2 DEF TxnRow
<1> HIDE DEF u
<1>5. ShopFits(u)
  BY <1>1, <1>3, <1>4
     DEF ShopFits, Covered, Claims, OfOrder, Tells, SellsOnce, PaysFor, Backs, Copied
<1>6. \A r \in Open \ {s} : Apart(u, txn[r]) /\ Apart(txn[r], u)
  BY <1>2, <1>4 DEF Apart, OfOrder, ShopInv, AllApart
<1> QED BY <1>1, <1>2, <1>4, <1>5, <1>6, TxnGoesOn

--------------------
(* After another session has committed: what is still so of a transaction that is open. *)
BillsGrow == \A b \in Bills : bills[b].received => /\ bills'[b].received
                                                   /\ bills'[b].out >= bills[b].out
LEMMA OvertakenFits ==
  ASSUME ShopInv, NEW t \in TxnRow, ShopFits(t), BillsGrow, bills' \in [Bills -> Bill],
         t.row => Holding(online'[t.job.order]) = Holding(online[t.job.order]),
         t.job.kind = "receive" => ~bills'[t.job.bill].received
  PROVE  LET u == [t EXCEPT !.lapped = TRUE]
         IN  u \in TxnRow /\ ShopFits(u)' /\ u.job = t.job /\ u.row = t.row
<1> DEFINE u == [t EXCEPT !.lapped = TRUE]
<1>1. /\ u \in TxnRow /\ u.lapped /\ u.job = t.job /\ u.row = t.row /\ u.phase = t.phase
      /\ u.units = t.units /\ u.seen = t.seen /\ u.order = t.order /\ u.paid = t.paid
      /\ u.product = t.product /\ u.copies = t.copies
  BY DEF TxnRow
<1> HIDE DEF u
<1>2. Covered(u)' /\ Claims(u)' /\ SellsOnce(u)' /\ Backs(u)' /\ Copied(u)'
  BY <1>1 DEF ShopFits, Covered, Claims, OfOrder, SellsOnce, Backs, Copied
<1>3. Tells(u)' BY <1>1 DEF ShopFits, Tells, OfOrder
<1>4. PaysFor(u)'
  <2>1. CASE t.job.kind = "pay"
    <3>1. t.job.bill \in Bills /\ t.paid \in Int BY <2>1, ShopJobShape DEF TxnRow
    <3>2. bills[t.job.bill].received /\ t.paid <= bills[t.job.bill].out + 1
      BY <2>1 DEF ShopFits, PaysFor
    <3>3. bills'[t.job.bill].received /\ bills'[t.job.bill].out >= bills[t.job.bill].out
      BY <3>1, <3>2 DEF BillsGrow
    <3>4. bills[t.job.bill].out \in Int /\ bills'[t.job.bill].out \in Int
      BY <3>1 DEF ShopInv, ShopRows, Bill
    <3>5. t.paid <= bills'[t.job.bill].out + 1 BY <3>1, <3>2, <3>3, <3>4
    <3> QED BY <1>1, <2>1, <3>3, <3>5 DEF PaysFor
  <2>2. CASE t.job.kind # "pay" BY <1>1, <2>2 DEF PaysFor
  <2> QED BY <2>1, <2>2
<1> QED BY <1>1, <1>2, <1>3, <1>4 DEF ShopFits, u

LEMMA EditCatalogueStep ==
  ASSUME ShopInv, EditCatalogue
  PROVE  ShopInv'
<1> DEFINE told(s) == [txn[s] EXCEPT !.lapped = TRUE]
<1>1. PICK n \in 0..BillTotal :
        /\ Room /\ catalogue' = n /\ commits' = commits + 1
        /\ txn' = [s \in ShopSessions |-> IF s \in Open THEN told(s) ELSE txn[s]]
        /\ UNCHANGED <<stock, shop, online, sales, bills, reserved, taken, oversold, peak,
                       outdated, clean>>
  BY DEF EditCatalogue
<1>2. ASSUME NEW s \in Open, NEW u, u = told(s)
      PROVE  u \in TxnRow /\ ShopFits(u)' /\ u.job = txn[s].job /\ u.row = txn[s].row
  <2>1. s \in ShopSessions BY DEF Open
  <2>2. txn[s] \in TxnRow /\ ShopFits(txn[s]) BY <1>2, <2>1, OpenTyped DEF ShopInv, AllFit
  <2>5. txn[s].row => online' = online BY <1>1
  <2>3. BillsGrow /\ bills' \in [Bills -> Bill]
    <3>1. \A b \in Bills : bills[b].out \in Int BY DEF ShopInv, ShopRows, Bill
    <3> QED BY <1>1, <3>1 DEF BillsGrow, ShopInv, ShopRows
  <2>4. txn[s].job.kind = "receive" => ~bills'[txn[s].job.bill].received
    BY <1>1, <2>2 DEF ShopFits, PaysFor
  <2> QED BY <1>2, <2>2, <2>3, <2>4, <2>5, OvertakenFits
<1>3. \A s \in ShopSessions : txn'[s] = IF s \in Open THEN told(s) ELSE txn[s] BY <1>1
<1>4. Open' = Open
  <2> HIDE DEF told
  <2>1. ASSUME NEW s \in Open PROVE told(s).phase # "closed"
    <3>1. told(s) \in TxnRow BY <1>2
    <3> QED BY <3>1 DEF TxnRow
  <2> QED BY <1>3, <2>1 DEF Open
<1>5. ShopTxns'
  <2>1. \A s \in ShopSessions : txn'[s] \in TxnRow \cup {Closed} BY <1>2, <1>3 DEF ShopInv, ShopTxns
  <2> HIDE DEF told
  <2> QED BY <1>1, <2>1 DEF ShopTxns
<1>6. ShopRows'
  <2>1. catalogue' \in Int /\ commits' \in Nat BY <1>1, ShopAssumption DEF ShopInv, ShopRows
  <2> QED BY <1>1, <2>1 DEF ShopInv, ShopRows
<1>7. ShopSound' /\ PeakCovers'
  BY <1>1 DEF ShopInv, ShopSound, PeakCovers, ShortOnlyByRaces, OrderHoldsWhatItTook,
              RetrySellsOnce, PaidOnPaper, ReservedBacked
<1> HIDE DEF told
<1>8. AllFit'
  <2> SUFFICES ASSUME NEW s \in Open PROVE ShopFits(txn[s])' BY <1>4 DEF AllFit
  <2>1. PICK u : u = told(s) OBVIOUS
  <2>2. ShopFits(u)' /\ txn'[s] = u BY <1>2, <1>3, <2>1 DEF Open
  <2> QED BY <2>2 DEF ShopFits, Covered, Claims, OfOrder, Tells, SellsOnce, PaysFor, Backs, Copied
<1>9. AllApart'
  <2>1. \A s \in Open : txn'[s].job = txn[s].job /\ txn'[s].row = txn[s].row BY <1>2, <1>3 DEF Open
  <2> QED BY <1>4, <2>1 DEF AllApart, Apart, OfOrder, ShopInv
<1>10. RoomKept' BY <1>1, <1>4, OpenCounts, ShopAssumption DEF RoomKept, Room, ShopInv, ShopRows
<1> QED BY <1>5, <1>6, <1>7, <1>8, <1>9, <1>10 DEF ShopInv

LEMMA SetShopStep ==
  ASSUME ShopInv, SetShop
  PROVE  ShopInv'
<1>1. /\ shop' \in {"open", "inactive", "trash"} /\ Room /\ commits' = commits + 1
      /\ UNCHANGED <<stock, catalogue, online, sales, bills, reserved, txn, taken, oversold,
                     peak, outdated, clean>>
  BY DEF SetShop
<1>2. Open' = Open BY <1>1 DEF Open
<1>3. ShopRows' /\ ShopTxns' BY <1>1 DEF ShopInv, ShopRows, ShopTxns
<1>4. ShopSound' /\ PeakCovers'
  BY <1>1 DEF ShopInv, ShopSound, PeakCovers, ShortOnlyByRaces, OrderHoldsWhatItTook,
              RetrySellsOnce, PaidOnPaper, ReservedBacked
<1>5. \A t : ShopFits(t) <=> ShopFits(t)'
  BY <1>1 DEF ShopFits, Covered, Claims, OfOrder, Tells, SellsOnce, PaysFor, Backs, Copied
<1>6. AllFit' /\ AllApart' BY <1>1, <1>2, <1>5 DEF ShopInv, AllFit, AllApart
<1>7. RoomKept' BY <1>1, <1>2, OpenCounts, ShopAssumption DEF RoomKept, Room, ShopInv, ShopRows
<1> QED BY <1>3, <1>4, <1>6, <1>7 DEF ShopInv

--------------------
(* What a session that commits writes. *)
Committed(t) ==
  /\ stock' = [stock EXCEPT ![t.bucket] = @ + t.units]
  /\ catalogue' = IF t.product THEN t.view ELSE catalogue
  /\ sales' = IF t.job.kind = "sale" THEN [sales EXCEPT ![t.job.key] = @ + 1] ELSE sales
  /\ bills' = IF t.job.kind \in {"receive", "pay"}
              THEN [bills EXCEPT ![t.job.bill] = BillAfter(t, @)] ELSE bills
  /\ online' = IF t.job.kind \in {"import", "cancel"}
               THEN [online EXCEPT ![t.job.order] = OrderAfter(t, @)] ELSE online
  /\ taken' = IF t.job.kind \in {"import", "cancel"}
              THEN [taken EXCEPT ![t.job.order] = @ - t.units] ELSE taken
  /\ reserved' = IF t.job.kind = "reserve" THEN reserved + 1 ELSE reserved
  /\ oversold' = [oversold EXCEPT ![t.bucket] =
                    IF t.units < 0 THEN @ + Shortfall(t.seen - stock[t.bucket]) ELSE @]
  /\ peak' = IF stock'["product"] > peak THEN stock'["product"] ELSE peak
  /\ outdated' = IF t.job.kind = "import" /\ ~t.row /\ t.lapped
                 THEN outdated \cup {t.job.order} ELSE outdated
  /\ clean' = (clean /\ ~t.lapped) /\ commits' = commits + 1 /\ shop' = shop

LEMMA CommitWrites ==
  ASSUME NEW s \in ShopSessions, Commit(s)
  PROVE  /\ Committed(txn[s]) /\ txn[s].phase = "copying" /\ txn[s].copies = 0
         /\ txn[s].job.kind \in {"import", "cancel"} =>
              txn[s].row \/ OrderLockFree(s, txn[s].job.order)
         /\ txn' = [r \in ShopSessions |-> CASE r = s -> Closed
                                             [] r \in Open \ {s} -> [txn[r] EXCEPT !.lapped = TRUE]
                                             [] OTHER -> txn[r]]
BY DEF Commit, Committed

LEMMA CommittedTypes ==
  ASSUME ShopInv, NEW t \in TxnRow, Committed(t), ShopFits(t), t.phase = "copying"
  PROVE  ShopRows'
<1>1. /\ t.bucket \in Buckets /\ t.units \in Int /\ t.seen \in Int /\ t.view \in Int
      /\ t.job \in Jobs /\ t.order \in OnlineRow /\ t.paid \in 0..BillTotal /\ BillTotal \in Nat
      /\ t.lapped \in BOOLEAN
  BY ShopAssumption DEF TxnRow
<1>2. /\ t.job.kind = "sale" => t.job.key \in SaleKeys
      /\ t.job.kind \in {"receive", "pay"} => t.job.bill \in Bills
      /\ t.job.kind \in {"import", "cancel"} => t.job.order \in OnlineOrders
  BY <1>1, ShopJobShape
<1>3. ShopRows BY DEF ShopInv
<1>4. stock' \in [Buckets -> Int] /\ catalogue' \in Int BY <1>1, <1>3 DEF Committed, ShopRows
<1>5. sales' \in [SaleKeys -> Nat] /\ reserved' \in Nat /\ commits' \in Nat
  BY <1>2, <1>3 DEF Committed, ShopRows
<1>6. bills' \in [Bills -> Bill]
  <2>1. ASSUME NEW row \in Bill PROVE BillAfter(t, row) \in Bill
    <3>1. row.out + 1 \in Nat /\ t.paid \in Nat BY <1>1 DEF Bill
    <3>2. CASE t.job.kind = "receive" BY <1>1, <3>1, <3>2 DEF BillAfter, Bill
    <3>3. CASE t.job.kind # "receive"
      <4> DEFINE out == row.out + 1
                 paid == t.paid
      <4>1. BillAfter(t, row) = [row EXCEPT !.paid = paid, !.out = out] BY <3>3 DEF BillAfter
      <4>2. paid \in 0..BillTotal /\ out \in Nat BY <1>1, <3>1
      <4> HIDE DEF out, paid
      <4> QED BY <4>1, <4>2 DEF Bill
    <3> QED BY <3>2, <3>3
  <2> QED BY <1>2, <1>3, <2>1 DEF Committed, ShopRows
<1>7. online' \in [OnlineOrders -> OnlineRow]
  <2>1. \A o \in OnlineOrders : OrderAfter(t, online[o]) \in OnlineRow
    BY <1>1, <1>3 DEF OrderAfter, OnlineRow, ShopRows
  <2> QED BY <1>2, <1>3, <2>1 DEF Committed, ShopRows
<1>8. taken' \in [OnlineOrders -> Int] /\ outdated' \subseteq OnlineOrders
  BY <1>1, <1>2, <1>3 DEF Committed, ShopRows
<1>9. oversold' \in [Buckets -> Nat]
  <2>1. Shortfall(t.seen - stock[t.bucket]) \in Nat BY <1>1, <1>3 DEF Shortfall, ShopRows
  <2> QED BY <1>1, <1>3, <2>1 DEF Committed, ShopRows
<1>10. peak' \in Nat BY <1>3, <1>4 DEF Committed, ShopRows, Buckets
<1>11. clean' \in BOOLEAN /\ shop' \in {"open", "inactive", "trash"}
  BY <1>1, <1>3 DEF Committed, ShopRows
<1> QED BY <1>4, <1>5, <1>6, <1>7, <1>8, <1>9, <1>10, <1>11 DEF ShopRows

LEMMA CommittedSound ==
  ASSUME ShopInv, NEW s \in ShopSessions, NEW t \in TxnRow, t = txn[s], Committed(t), ShopFits(t),
         t.phase = "copying", t.copies = 0,
         OfOrder(t) => t.row \/ OrderLockFree(s, t.job.order)
  PROVE  ShopSound' /\ PeakCovers' /\ BillsGrow
<1>1. /\ t.bucket \in Buckets /\ t.units \in Int /\ t.seen \in Int
      /\ t.job \in Jobs /\ t.order \in OnlineRow /\ t.paid \in 0..BillTotal /\ BillTotal \in Nat
  BY ShopAssumption DEF TxnRow
<1>2. /\ t.job.kind = "sale" => t.job.key \in SaleKeys
      /\ t.job.kind \in {"receive", "pay"} => t.job.bill \in Bills
      /\ OfOrder(t) => t.job.order \in OnlineOrders
  BY <1>1, ShopJobShape DEF OfOrder
<1>3. ShopRows /\ ShopSound /\ PeakCovers /\ ShopRows' BY CommittedTypes DEF ShopInv
<1>4. ShortOnlyByRaces'
  <2> SUFFICES ASSUME NEW b \in Buckets PROVE stock'[b] + oversold'[b] >= 0 BY DEF ShortOnlyByRaces
  <2>1. stock[b] \in Int /\ oversold[b] \in Nat /\ stock[b] + oversold[b] >= 0
    BY <1>3 DEF ShopRows, ShopSound, ShortOnlyByRaces
  <2>2. CASE b # t.bucket BY <1>1, <1>3, <2>1, <2>2 DEF Committed, ShopRows
  <2>3. CASE b = t.bucket
    <3>1. /\ stock'[b] = stock[b] + t.units
          /\ oversold'[b] = IF t.units < 0 THEN oversold[b] + Shortfall(t.seen - stock[b]) ELSE oversold[b]
      BY <1>3, <2>3 DEF Committed, ShopRows
    <3>2. t.units < 0 => t.seen + t.units >= 0 BY DEF ShopFits, Covered
    <3> QED BY <1>1, <2>1, <3>1, <3>2 DEF Shortfall
  <2> QED BY <2>2, <2>3
<1>5. OrderHoldsWhatItTook'
  <2> SUFFICES ASSUME NEW o \in OnlineOrders, o \notin outdated'
               PROVE  /\ taken'[o] = IF online'[o].held = "deducted" THEN 1 ELSE 0
                      /\ online'[o].status = "cancelled" => taken'[o] = 0
    BY DEF OrderHoldsWhatItTook
  <2>1. /\ o \notin outdated /\ taken[o] = Holding(online[o])
        /\ online[o].status = "cancelled" => taken[o] = 0
    BY <1>3 DEF Committed, ShopSound, OrderHoldsWhatItTook, Holding
  <2>2. CASE ~(OfOrder(t) /\ t.job.order = o)
    BY <1>2, <1>3, <2>1, <2>2 DEF Committed, OfOrder, Holding, ShopRows
  <2>3. CASE OfOrder(t) /\ t.job.order = o
    <3>1. online'[o] = OrderAfter(t, online[o]) /\ taken'[o] = taken[o] - t.units
      BY <1>2, <1>3, <2>3 DEF Committed, OfOrder, ShopRows
    <3>2. t.row \/ ~t.lapped
      <4>1. CASE t.job.kind = "import" BY <1>3, <2>3, <4>1 DEF Committed
      <4>2. CASE t.job.kind = "cancel" BY <4>2 DEF ShopFits, Claims
      <4> QED BY <2>3, <4>1, <4>2 DEF OfOrder
    <3>3. /\ t.units = Holding(online[o]) - Holding(t.order)
          /\ t.order.status = "cancelled" => t.order.held # "deducted"
          /\ ~t.row => t.order.status = online[o].status
      BY <2>3, <3>2 DEF ShopFits, Tells
    <3>4. Holding(online[o]) \in Int /\ Holding(t.order) \in Int BY DEF Holding
    <3>5. taken'[o] = Holding(t.order) BY <2>1, <3>1, <3>3, <3>4
    <3>6. online'[o].held = t.order.held /\ online'[o].status = t.order.status
      BY <1>1, <1>2, <1>3, <2>3, <3>1, <3>3 DEF OrderAfter, ShopRows, OnlineRow
    <3> QED BY <3>3, <3>5, <3>6 DEF Holding
  <2> QED BY <2>2, <2>3
<1>6. RetrySellsOnce'
  <2> SUFFICES ASSUME clean', NEW k \in SaleKeys PROVE sales'[k] <= 1 BY DEF RetrySellsOnce
  <2>1. sales[k] \in Nat /\ sales[k] <= 1 /\ ~t.lapped
    BY <1>3 DEF Committed, ShopRows, ShopSound, RetrySellsOnce
  <2>2. t.job.kind = "sale" => sales[t.job.key] = 0 BY <2>1 DEF ShopFits, SellsOnce
  <2> QED BY <1>2, <1>3, <2>1, <2>2 DEF Committed, ShopRows
<1>7. PaidOnPaper' /\ BillsGrow
  <2> SUFFICES ASSUME NEW b \in Bills
               PROVE  /\ bills'[b].paid <= BillTotal /\ bills'[b].paid <= bills'[b].out
                      /\ clean' => bills'[b].paid = bills'[b].out
                      /\ bills[b].received => bills'[b].received /\ bills'[b].out >= bills[b].out
    BY DEF PaidOnPaper, BillsGrow
  <2>1. /\ bills[b] \in Bill /\ bills[b].paid <= bills[b].out
        /\ clean => bills[b].paid = bills[b].out
        /\ bills[b].paid \in 0..BillTotal /\ bills[b].out \in Nat
        /\ clean' => clean /\ ~t.lapped
    BY <1>3 DEF Committed, ShopRows, ShopSound, PaidOnPaper, Bill
  <2>2. CASE ~(t.job.kind \in {"receive", "pay"} /\ t.job.bill = b)
    <3>1. bills'[b] = bills[b] BY <1>2, <1>3, <2>2 DEF Committed, ShopRows
    <3> QED BY <1>1, <2>1, <3>1
  <2>3. CASE t.job.kind = "receive" /\ t.job.bill = b
    <3>1. bills'[b].paid = t.paid /\ bills'[b].out = t.paid
      BY <1>3, <2>3 DEF Committed, BillAfter, ShopRows
    <3>2. ~bills[b].received BY <2>3 DEF ShopFits, PaysFor
    <3> QED BY <1>1, <3>1, <3>2
  <2>4. CASE t.job.kind = "pay" /\ t.job.bill = b
    <3>1. /\ bills'[b].paid = t.paid /\ bills'[b].out = bills[b].out + 1
          /\ bills'[b].received = bills[b].received
      BY <1>3, <2>1, <2>4 DEF Committed, BillAfter, ShopRows, Bill
    <3>2. t.paid <= bills[b].out + 1 /\ (~t.lapped => t.paid = bills[b].paid + 1)
      BY <2>4 DEF ShopFits, PaysFor
    <3> QED BY <1>1, <2>1, <3>1, <3>2
  <2> QED BY <2>2, <2>3, <2>4
<1>8. PeakCovers' BY <1>3 DEF Committed, PeakCovers, ShopRows, Buckets
<1>9. ReservedBacked'
  <2> SUFFICES ASSUME clean' PROVE reserved' <= peak' BY DEF ReservedBacked
  <2>1. reserved <= peak /\ ~t.lapped /\ reserved \in Nat /\ peak \in Nat
    BY <1>3 DEF Committed, ShopRows, ShopSound, ReservedBacked
  <2>2. peak' >= peak /\ peak' \in Nat BY <1>3 DEF Committed, ShopRows, Buckets
  <2>3. CASE t.job.kind = "reserve"
    <3>1. stock["product"] - reserved >= 1 /\ reserved' = reserved + 1
      BY <2>1, <2>3 DEF ShopFits, Backs, Committed
    <3>2. stock["product"] <= peak /\ stock["product"] \in Int
      BY <1>3 DEF PeakCovers, ShopRows, Buckets
    <3> QED BY <2>1, <2>2, <3>1, <3>2
  <2>4. CASE t.job.kind # "reserve" BY <2>1, <2>2, <2>4 DEF Committed
  <2> QED BY <2>3, <2>4
<1> QED BY <1>4, <1>5, <1>6, <1>7, <1>8, <1>9 DEF ShopSound

LEMMA CommitStep ==
  ASSUME ShopInv, NEW s \in ShopSessions, Commit(s)
  PROVE  ShopInv'
<1> DEFINE t == txn[s]
           told(r) == [txn[r] EXCEPT !.lapped = TRUE]
<1>1. /\ Committed(t) /\ t.phase = "copying" /\ t.copies = 0
      /\ OfOrder(t) => t.row \/ OrderLockFree(s, t.job.order)
      /\ txn' = [r \in ShopSessions |-> CASE r = s -> Closed
                                          [] r \in Open \ {s} -> told(r)
                                          [] OTHER -> txn[r]]
  BY CommitWrites DEF OfOrder
<1>2. s \in Open /\ t \in TxnRow BY <1>1, OpenTyped DEF ShopInv
<1>3. ShopFits(t) BY <1>2 DEF ShopInv, AllFit
<1>4. ShopRows' /\ ShopSound' /\ PeakCovers' /\ BillsGrow
  BY <1>1, <1>2, <1>3, CommittedTypes, CommittedSound
<1>5. ASSUME NEW r \in Open \ {s}, NEW u, u = told(r)
      PROVE  u \in TxnRow /\ ShopFits(u)' /\ u.job = txn[r].job /\ u.row = txn[r].row
  <2>1. r \in ShopSessions /\ r \in Open BY <1>5 DEF Open
  <2>2. txn[r] \in TxnRow /\ ShopFits(txn[r]) /\ Apart(txn[r], t)
    BY <1>2, <1>5, <2>1, OpenTyped DEF ShopInv, AllFit, AllApart
  <2>3. bills' \in [Bills -> Bill] BY <1>4 DEF ShopRows
  <2>4. /\ t.job.kind = "sale" => t.job.key \in SaleKeys
        /\ t.job.kind \in {"receive", "pay"} => t.job.bill \in Bills
        /\ OfOrder(t) => t.job.order \in OnlineOrders
        /\ OfOrder(txn[r]) => txn[r].job.order \in OnlineOrders
        /\ txn[r].job.kind = "receive" => txn[r].job.bill \in Bills
    BY <1>2, <2>2, ShopJobShape DEF TxnRow, OfOrder
  <2>5. txn[r].row => Holding(online'[txn[r].job.order]) = Holding(online[txn[r].job.order])
    <3> SUFFICES ASSUME txn[r].row, OfOrder(txn[r])
                 PROVE  online'[txn[r].job.order] = online[txn[r].job.order]
      BY <2>2 DEF ShopFits, Claims
    <3>1. ~(OfOrder(t) /\ t.job.order = txn[r].job.order)
      BY <1>1, <1>5, <2>2 DEF Apart, OrderLockFree, SameOrder, OfOrder
    <3> HIDE DEF t
    <3> QED BY <1>1, <2>4, <3>1 DEF Committed, OfOrder, ShopInv, ShopRows
  <2>6. txn[r].job.kind = "receive" => ~bills'[txn[r].job.bill].received
    <3> SUFFICES ASSUME txn[r].job.kind = "receive" PROVE ~bills'[txn[r].job.bill].received OBVIOUS
    <3> DEFINE b == txn[r].job.bill
    <3>1. ~bills[b].received /\ b \in Bills BY <2>2, <2>4 DEF ShopFits, PaysFor
    <3>2. t.job.kind # "receive" BY <2>2 DEF Apart
    <3>3. t.job.kind = "pay" => bills[t.job.bill].received BY <1>3 DEF ShopFits, PaysFor
    <3> HIDE DEF t, b
    <3>4. bills'[b] = bills[b] BY <1>1, <2>4, <3>1, <3>2, <3>3 DEF Committed, ShopInv, ShopRows
    <3> QED BY <3>1, <3>4 DEF b
  <2> QED BY <1>4, <1>5, <2>2, <2>3, <2>5, <2>6, OvertakenFits
<1>6. /\ txn'[s] = Closed
      /\ \A r \in Open \ {s} : txn'[r] = told(r)
      /\ \A r \in ShopSessions \ Open : txn'[r] = Closed
  <2> HIDE DEF told
  <2>1. \A r \in ShopSessions : txn'[r] = CASE r = s -> Closed
                                            [] r \in Open \ {s} -> told(r)
                                            [] OTHER -> txn[r]
    BY <1>1
  <2>2. \A r \in ShopSessions \ Open : txn[r] = Closed BY OpenTyped DEF ShopInv
  <2>3. \A r \in Open : r \in ShopSessions BY DEF Open
  <2> QED BY <1>2, <2>1, <2>2, <2>3
<1>7. Open' = Open \ {s}
  <2> HIDE DEF told
  <2>1. ASSUME NEW r \in Open \ {s} PROVE told(r).phase # "closed"
    <3>1. told(r) \in TxnRow BY <1>5
    <3> QED BY <3>1 DEF TxnRow
  <2> QED BY <1>6, <2>1 DEF Open, Closed
<1>8. ShopTxns'
  <2> HIDE DEF told
  <2>1. \A r \in ShopSessions : txn'[r] \in TxnRow \cup {Closed} BY <1>5, <1>6
  <2>2. txn' = [r \in ShopSessions |-> txn'[r]] BY <1>1
  <2> QED BY <2>1, <2>2 DEF ShopTxns
<1> HIDE DEF told
<1>9. AllFit'
  <2> SUFFICES ASSUME NEW r \in Open \ {s} PROVE ShopFits(txn[r])' BY <1>7 DEF AllFit
  <2>1. PICK u : u = told(r) OBVIOUS
  <2>2. ShopFits(u)' /\ txn'[r] = u BY <1>5, <1>6, <2>1
  <2> QED BY <2>2 DEF ShopFits, Covered, Claims, OfOrder, Tells, SellsOnce, PaysFor, Backs, Copied
<1>10. AllApart'
  <2>1. \A r \in Open \ {s} : txn'[r].job = txn[r].job /\ txn'[r].row = txn[r].row BY <1>5, <1>6
  <2> QED BY <1>7, <2>1 DEF AllApart, Apart, OfOrder, ShopInv
<1>11. RoomKept'
  <2>1. commits' = commits + 1 /\ commits \in Nat BY <1>1 DEF Committed, ShopInv, ShopRows
  <2>2. Cardinality(Open') = Cardinality(Open) - 1 BY <1>2, <1>7, OpenCounts
  <2> QED BY <2>1, <2>2, OpenCounts, ShopAssumption DEF RoomKept, ShopInv
<1> QED BY <1>4, <1>8, <1>9, <1>10, <1>11 DEF ShopInv

LEMMA ShopStep == ShopInv /\ [ShopNext]_shopVars => ShopInv'
<1> SUFFICES ASSUME ShopInv, [ShopNext]_shopVars PROVE ShopInv' OBVIOUS
<1>1. CASE EditCatalogue BY <1>1, EditCatalogueStep
<1>2. CASE SetShop BY <1>2, SetShopStep
<1>3. ASSUME NEW s \in ShopSessions, Entry(s) \/ Sell(s) \/ Receive(s) \/ Pay(s) PROVE ShopInv'
  BY <1>3, EntryStep, SellStep, ReceiveStep, PayStep
<1>4. ASSUME NEW s \in ShopSessions, Count(s) \/ Reserve(s) \/ ChangeOrder(s) \/ ImportAgain(s)
      PROVE ShopInv'
  BY <1>4, CountStep, ReserveStep, ChangeOrderStep, ImportAgainStep
<1>5. ASSUME NEW s \in ShopSessions,
             ClaimOrder(s) \/ SumShop(s) \/ WriteCatalogue(s) \/ Commit(s)
      PROVE ShopInv'
  BY <1>5, ClaimOrderStep, SumShopStep, WriteCatalogueStep, CommitStep
<1>6. CASE UNCHANGED shopVars
  <2>1. UNCHANGED <<stock, catalogue, shop, online, sales, bills, reserved, txn, taken, oversold,
                    peak, outdated, clean, commits>>
    BY <1>6 DEF shopVars, rows, ghosts
  <2>2. Open' = Open BY <2>1 DEF Open
  <2>3. ShopRows' /\ ShopTxns' /\ PeakCovers' /\ RoomKept'
    BY <2>1, <2>2 DEF ShopInv, ShopRows, ShopTxns, PeakCovers, RoomKept
  <2>4. ShopSound'
    BY <2>1 DEF ShopInv, ShopSound, ShortOnlyByRaces, OrderHoldsWhatItTook, RetrySellsOnce,
                PaidOnPaper, ReservedBacked
  <2>5. \A t : ShopFits(t) <=> ShopFits(t)'
    BY <2>1 DEF ShopFits, Covered, Claims, OfOrder, Tells, SellsOnce, PaysFor, Backs, Copied
  <2> QED BY <2>1, <2>2, <2>3, <2>4, <2>5 DEF ShopInv, AllFit, AllApart
<1> QED BY <1>1, <1>2, <1>3, <1>4, <1>5, <1>6 DEF ShopNext

(* For any number of requests, sales, orders and receipts that overlap: stock is short only *)
(* by what was sold twice, an order holds what it took, a sale that is repeated is one, no *)
(* receipt is paid twice on paper and reservations were backed, but for what ShopSound names *)
(* (record_stock_movement, deduct_woocommerce_order_stock, create_pos_sale, pay_purchase, *)
(* reserve_stock). *)
THEOREM ShopTrue == ShopSpec => []ShopSound
<1>1. ShopInv => ShopSound BY DEF ShopInv
<1> QED BY <1>1, ShopStart, ShopStep, PTL DEF ShopSpec

(* A commit that ran alone leaves the catalogue with the balance. *)
LEMMA CommitHeals ==
  ASSUME ShopInv, [ShopNext]_shopVars, NEW s \in Open, txn'[s] = Closed, commits' > commits,
         ~txn[s].lapped, txn[s].bucket = "product", txn[s].units # 0
  PROVE  catalogue' = stock'["product"]
<1>1. s \in ShopSessions /\ txn[s] # Closed /\ commits \in Nat /\ txn[s] \in TxnRow
  BY OpenTyped DEF Open, ShopInv, ShopRows
<1>2. CASE Commit(s)
  <2>1. Committed(txn[s]) /\ txn[s].phase = "copying" /\ txn[s].copies = 0
    BY <1>1, <1>2, CommitWrites
  <2>2. stock'["product"] = stock["product"] + txn[s].units
    BY <2>1 DEF Committed, ShopInv, ShopRows, Buckets
  <2>3. Copied(txn[s]) BY DEF ShopInv, AllFit, ShopFits
  <2> QED BY <2>1, <2>2, <2>3 DEF Copied, Committed
<1>3. CASE EditCatalogue \/ SetShop
  <2>1. CASE SetShop BY <1>1, <2>1 DEF SetShop
  <2>2. CASE EditCatalogue
    <3>1. txn'[s] = [txn[s] EXCEPT !.lapped = TRUE] BY <1>1, <2>2 DEF EditCatalogue
    <3>2. [txn[s] EXCEPT !.lapped = TRUE] \in TxnRow BY <1>1 DEF TxnRow
    <3> QED BY <3>1, <3>2 DEF Closed, TxnRow
  <2> QED BY <1>3, <2>1, <2>2
<1>4. ASSUME NEW r \in ShopSessions, r # s, Commit(r) PROVE FALSE
  <2>1. txn'[s] = [txn[s] EXCEPT !.lapped = TRUE] BY <1>1, <1>4, CommitWrites
  <2>2. [txn[s] EXCEPT !.lapped = TRUE] \in TxnRow BY <1>1 DEF TxnRow
  <2> QED BY <2>1, <2>2 DEF Closed, TxnRow
<1>5. CASE commits' = commits BY <1>1, <1>5
<1>6. ASSUME NEW r \in ShopSessions, ~Commit(r), ShopNext, ~EditCatalogue, ~SetShop,
             \/ Entry(r) \/ Sell(r) \/ Receive(r) \/ Pay(r) \/ Count(r) \/ Reserve(r)
             \/ ChangeOrder(r) \/ ImportAgain(r) \/ ClaimOrder(r)
             \/ SumShop(r) \/ WriteCatalogue(r)
      PROVE  commits' = commits
  BY <1>6 DEF Entry, Sell, Receive, Pay, Count, Reserve, ChangeOrder, ImportAgain, ClaimOrder,
              SumShop, WriteCatalogue, ghosts
<1>7. CASE UNCHANGED shopVars BY <1>5, <1>7 DEF shopVars, ghosts
<1> QED BY <1>2, <1>3, <1>4, <1>5, <1>6, <1>7 DEF ShopNext

(* For any number of requests that overlap: a movement of the product's own stock whose *)
(* transaction ran alone leaves the catalogue with the balance, whatever was wrong before *)
(* (sync_product_catalog_quantity_from_shop). *)
THEOREM CatalogueHealed == ShopSpec => CatalogueHeals
<1> DEFINE Heals == \A s \in ShopSessions :
             (/\ s \in Open /\ txn'[s] = Closed /\ commits' > commits
              /\ ~txn[s].lapped /\ txn[s].bucket = "product" /\ txn[s].units # 0)
             => catalogue' = stock'["product"]
<1>1. ShopInv /\ [ShopNext]_shopVars => [Heals]_shopVars BY CommitHeals
<1>2. CatalogueHeals <=> [][Heals]_shopVars BY DEF CatalogueHeals
<1> HIDE DEF Heals
<1> QED BY <1>1, <1>2, ShopStart, ShopStep, PTL DEF ShopSpec

--------------------
\* VendorCatalogue: a product keeps to its vendor.
Undisturbed == past \cap {"transferred", "reassigned"} = {}

GoodsRowsTrue ==
  /\ wareRow \in [vendor: Merchants \cup {None}, category: {None, "toys"},
                  status: {"absent", "active", "draft", "archived"}]
  /\ assigned \in [vendor: Merchants \cup {None},
                   approval: {None, "submitted", "approved", "rejected", "published"}]
  /\ assigned # NoAssignment => WareExists /\ assigned.vendor \in Merchants
  /\ channel \in [vendor: Merchants \cup {None}, status: {"absent", "published", "private"}]
  /\ channel # NoChannel => WareExists
  /\ rules \subseteq RuleType /\ \A l \in soldLines : l.vendor \in Merchants
  /\ editing \in [Merchants -> [job: {None, "save", "trash", "delete"},
                                status: {None, "active", "draft"}]]
  /\ \A v \in Merchants : editing[v].job = "save" => editing[v].status # None

\* Until the office transfers a product, its row and its assignment are one vendor's ...
AssignedToOwner == \/ "transferred" \in past
                   \/ assigned = NoAssignment \/ assigned.vendor = wareRow.vendor
\* ... and until it is given to another one, whose page is open has it, and whoever lists it.
PagesOwn == Undisturbed => \A v \in Merchants : editing[v] # NotEditing => Owns(v)
ListedByOwner == Undisturbed => channel.vendor \in {None, wareRow.vendor}

CatalogueInv == /\ GoodsRowsTrue /\ AssignedToOwner /\ PagesOwn /\ ListedByOwner
                /\ PagesKeepOut /\ HeldBack /\ RulesMeant

LEMMA CatalogueStart == VendorCatalogueInit => CatalogueInv
BY VendorCatalogueAssumption DEF VendorCatalogueInit, CatalogueInv, GoodsRowsTrue, AssignedToOwner,
   PagesOwn, ListedByOwner, PagesKeepOut, HeldBack, RulesMeant, Undisturbed, NoWare, NoAssignment,
   NoChannel, NotEditing, WareExists, None

\* What happened stays so.
LEMMA PastGrows ==
  ASSUME [VendorCatalogueNext]_vendorCatalogueVars
  PROVE  past \subseteq past'
BY DEF VendorCatalogueNext, vendorCatalogueVars, CreateOwnWare, CreateWare, EditWare, ReimportWare,
   AssignWare, ApproveWare, BeginEdit, SaveOwnWare, TrashWare, DeleteWare, LoseEdit, ListWare,
   SellWare, ChangeRules, Finish, Happened

\* The rule with the best score.
LEMMA RuleIsMeant ==
  ASSUME GoodsRowsTrue, NEW v \in Merchants, NEW rule \in RulesFor(v)
  PROVE  /\ (\E r \in rules : r.vendor = v /\ r.product = "this")
              => rule.vendor = v /\ rule.product = "this"
         /\ rule.product = "other"
              \/ (rule.product = None /\ rule.category \notin {None, wareRow.category})
              => rule.vendor = v \/ rule.category = wareRow.category
<1> DEFINE suiting == {r \in rules : Score(r, v) >= 0}
<1>1. /\ suiting = {} => rule = Default
      /\ suiting # {} => rule \in suiting /\ \A q \in suiting : Score(q, v) <= Score(rule, v)
  BY DEF RulesFor
<1>2. v # None BY VendorCatalogueAssumption
<1>3. \A r \in rules : /\ Score(r, v) \in -1..5
                       /\ Score(r, v) = 5 <=> r.product = "this" /\ r.vendor = v
  BY <1>2 DEF Score
<1>4. ASSUME NEW r \in suiting,
             r.product = "other" \/ (r.product = None /\ r.category \notin {None, wareRow.category})
      PROVE  r.vendor = v \/ r.category = wareRow.category
  <2>1. r \in rules /\ Score(r, v) >= 0 /\ r \in RuleType BY DEF GoodsRowsTrue
  <2>2. r.product # "this" /\ r # [vendor |-> None, category |-> None, product |-> None]
    BY <1>4, <2>1 DEF None
  <2>3. SUFFICES ASSUME r.vendor # v, r.category # wareRow.category
                 PROVE  FALSE
    OBVIOUS
  <2>4. Score(r, v) = -1 BY <2>2, <2>3 DEF Score
  <2> QED BY <2>1, <2>4
<1>5. ASSUME NEW r \in rules, r.vendor = v, r.product = "this"
      PROVE  rule.vendor = v /\ rule.product = "this"
  <2>1. Score(r, v) = 5 /\ r \in suiting BY <1>3, <1>5
  <2>2. rule \in rules /\ Score(rule, v) >= 5 BY <1>1, <2>1
  <2> QED BY <1>3, <2>2
<1>6. CASE suiting = {} BY <1>1, <1>5, <1>6 DEF Default, None
<1>7. CASE suiting # {} BY <1>1, <1>4, <1>5, <1>7
<1> QED BY <1>6, <1>7

\* A rule a sale is booked by leaves the other sales as they were.
LEMMA SaleIsMeant ==
  ASSUME GoodsRowsTrue, RulesMeant, SellWare
  PROVE  RulesMeant'
<1>1. PICK rule \in RulesFor(SellerOf) :
        /\ SellerOf # None
        /\ LET own == \E r \in rules : r.vendor = SellerOf /\ r.product = "this"
           IN soldLines' = soldLines \cup {[vendor |-> SellerOf, rule |-> rule, own |-> own,
                                            category |-> wareRow.category]}
  BY DEF SellWare
<1>2. SellerOf \in Merchants BY <1>1 DEF GoodsRowsTrue, SellerOf, NoAssignment, None
<1>3. rule \in RulesFor(SellerOf) OBVIOUS
<1> DEFINE own == \E r \in rules : r.vendor = SellerOf /\ r.product = "this"
           line == [vendor |-> SellerOf, rule |-> rule, own |-> own,
                    category |-> wareRow.category]
<1>4. /\ own => rule.vendor = SellerOf /\ rule.product = "this"
      /\ rule.product = "other"
           \/ (rule.product = None /\ rule.category \notin {None, wareRow.category})
           => rule.vendor = SellerOf \/ rule.category = wareRow.category
  BY <1>2, <1>3, RuleIsMeant
<1>5. /\ line.vendor = SellerOf /\ line.rule = rule /\ line.category = wareRow.category
      /\ line.own <=> own
  OBVIOUS
<1>6. soldLines' = soldLines \cup {line} BY <1>1
<1> HIDE DEF own, line
<1> QED BY <1>4, <1>5, <1>6 DEF RulesMeant

LEMMA CatalogueStep ==
  ASSUME CatalogueInv, [VendorCatalogueNext]_vendorCatalogueVars
  PROVE  CatalogueInv'
<1> USE VendorCatalogueAssumption
<1>1. past \subseteq past' BY PastGrows
<1>2. CASE CreateOwnWare
  BY <1>2 DEF CatalogueInv, GoodsRowsTrue, AssignedToOwner, PagesOwn, ListedByOwner, PagesKeepOut,
     HeldBack, RulesMeant, Undisturbed, CreateOwnWare, NoWare, NoAssignment, NoChannel, NotEditing,
     WareExists, Owns, Called, None
<1>3. CASE CreateWare
  BY <1>3 DEF CatalogueInv, GoodsRowsTrue, AssignedToOwner, PagesOwn, ListedByOwner, PagesKeepOut,
     HeldBack, RulesMeant, Undisturbed, CreateWare, NoWare, NoAssignment, NoChannel, NotEditing,
     WareExists, Owns, Called, None
<1>4. CASE EditWare
  <2>1. PICK v \in Merchants \cup {None}, status \in {"active", "draft"} :
          /\ WareExists /\ wareRow' = [wareRow EXCEPT !.vendor = v, !.status = status]
          /\ past' = past \cup (IF v # wareRow.vendor THEN {"transferred"} ELSE {})
                           \cup (IF status = "active" THEN {"activated"} ELSE {})
          /\ UNCHANGED <<assigned, channel, rules, soldLines, editing>>
    BY <1>4 DEF EditWare
  <2>2. /\ wareRow' \in [vendor: Merchants \cup {None}, category: {None, "toys"},
                          status: {"absent", "active", "draft", "archived"}]
        /\ wareRow'.vendor = v /\ wareRow'.status = status
    BY <2>1 DEF CatalogueInv, GoodsRowsTrue
  <2>3. /\ v # wareRow.vendor => "transferred" \in past'
        /\ status = "active" => "activated" \in past'
    BY <2>1
  <2>4. GoodsRowsTrue' BY <2>1, <2>2 DEF CatalogueInv, GoodsRowsTrue, WareExists
  <2>5. AssignedToOwner' /\ ListedByOwner'
    BY <1>1, <2>1, <2>2, <2>3 DEF CatalogueInv, AssignedToOwner, ListedByOwner, Undisturbed
  <2>6. PagesOwn'
    BY <1>1, <2>1, <2>2, <2>3 DEF CatalogueInv, PagesOwn, Undisturbed, Owns, WareExists
  <2>7. PagesKeepOut' /\ HeldBack' /\ RulesMeant'
    BY <1>1, <2>1, <2>2, <2>3 DEF CatalogueInv, PagesKeepOut, HeldBack, RulesMeant
  <2> QED BY <2>4, <2>5, <2>6, <2>7 DEF CatalogueInv
<1>5. CASE ReimportWare
  <2>1. PICK status \in {"active", "draft"} :
          /\ WareExists /\ Happened("activated", status = "active")
          /\ wareRow' = [wareRow EXCEPT !.status = status,
                         !.vendor = IF assigned = NoAssignment THEN @ ELSE assigned.vendor]
          /\ assigned' = IF assigned.approval \in {None, "rejected"} THEN assigned
                         ELSE [assigned EXCEPT !.approval = "approved"]
          /\ UNCHANGED <<channel, rules, soldLines, editing>>
    BY <1>5 DEF ReimportWare
  <2>2. /\ wareRow' \in [vendor: Merchants \cup {None}, category: {None, "toys"},
                          status: {"absent", "active", "draft", "archived"}]
        /\ wareRow'.vendor = IF assigned = NoAssignment THEN wareRow.vendor ELSE assigned.vendor
        /\ wareRow'.status = status
    BY <2>1 DEF CatalogueInv, GoodsRowsTrue
  <2>3. /\ assigned' \in [vendor: Merchants \cup {None},
                   approval: {None, "submitted", "approved", "rejected", "published"}]
        /\ assigned'.vendor = assigned.vendor /\ assigned'.approval # "submitted"
        /\ assigned = NoAssignment => assigned' = NoAssignment
    BY <2>1 DEF CatalogueInv, GoodsRowsTrue, NoAssignment, None
  <2>4. GoodsRowsTrue' BY <2>1, <2>2, <2>3 DEF CatalogueInv, GoodsRowsTrue, WareExists
  <2>5. AssignedToOwner' /\ ListedByOwner'
    BY <1>1, <2>1, <2>2, <2>3 DEF CatalogueInv, AssignedToOwner, ListedByOwner, Undisturbed
  <2>6. PagesOwn'
    BY <1>1, <2>1, <2>2, <2>3 DEF CatalogueInv, PagesOwn, AssignedToOwner, Undisturbed, Owns,
       WareExists
  <2>7. PagesKeepOut' /\ HeldBack' /\ RulesMeant'
    BY <1>1, <2>1, <2>2, <2>3 DEF CatalogueInv, PagesKeepOut, HeldBack, RulesMeant, Happened
  <2> QED BY <2>4, <2>5, <2>6, <2>7 DEF CatalogueInv
<1>6. CASE AssignWare
  <2>1. PICK v \in Merchants, approval \in {"submitted", "approved", "rejected"} :
          /\ WareExists /\ assigned' = [vendor |-> v, approval |-> approval]
          /\ LET held == wareRow.status = "active" /\ approval = "submitted"
             IN wareRow' = [wareRow EXCEPT !.vendor = v,
                                           !.status = IF held THEN "draft" ELSE @]
          /\ Happened("reassigned", {assigned.vendor, wareRow.vendor} \ {None, v} # {})
          /\ UNCHANGED <<channel, rules, soldLines, editing>>
    BY <1>6 DEF AssignWare
  <2>2. /\ wareRow' \in [vendor: Merchants \cup {None}, category: {None, "toys"},
                          status: {"absent", "active", "draft", "archived"}]
        /\ wareRow'.vendor = v /\ (approval = "submitted" => wareRow'.status # "active")
        /\ wareRow'.status # "absent"
    BY <2>1 DEF CatalogueInv, GoodsRowsTrue, WareExists
  <2>3. /\ assigned' \in [vendor: Merchants \cup {None},
                   approval: {None, "submitted", "approved", "rejected", "published"}]
        /\ assigned'.vendor = v /\ assigned'.approval = approval
    BY <2>1
  <2>4. \/ "reassigned" \in past'
        \/ assigned.vendor \in {None, v} /\ wareRow.vendor \in {None, v}
    BY <2>1 DEF Happened
  <2>5. GoodsRowsTrue' BY <2>1, <2>2, <2>3 DEF CatalogueInv, GoodsRowsTrue, WareExists
  <2>6. AssignedToOwner' /\ ListedByOwner'
    BY <1>1, <2>1, <2>2, <2>3, <2>4 DEF CatalogueInv, AssignedToOwner, ListedByOwner, Undisturbed
  <2>7. PagesOwn'
    BY <1>1, <2>1, <2>2, <2>3, <2>4 DEF CatalogueInv, PagesOwn, Undisturbed, Owns, WareExists
  <2>8. PagesKeepOut' /\ HeldBack' /\ RulesMeant'
    BY <1>1, <2>1, <2>2, <2>3 DEF CatalogueInv, PagesKeepOut, HeldBack, RulesMeant, Happened
  <2> QED BY <2>5, <2>6, <2>7, <2>8 DEF CatalogueInv
<1>7. CASE ApproveWare
  BY <1>7 DEF CatalogueInv, GoodsRowsTrue, AssignedToOwner, PagesOwn, ListedByOwner, PagesKeepOut,
     HeldBack, RulesMeant, Undisturbed, ApproveWare, NoWare, NoAssignment, NoChannel, NotEditing,
     WareExists, Owns, Called, None
<1>8. CASE BeginEdit
  BY <1>8 DEF CatalogueInv, GoodsRowsTrue, AssignedToOwner, PagesOwn, ListedByOwner, PagesKeepOut,
     HeldBack, RulesMeant, Undisturbed, BeginEdit, NoWare, NoAssignment, NoChannel, NotEditing,
     WareExists, Owns, Called, None
<1>9. CASE SaveOwnWare
  <2>1. PICK v \in Merchants :
          /\ editing[v].job = "save" /\ WareExists
          /\ wareRow' = [wareRow EXCEPT !.status = editing[v].status]
          /\ assigned' = IF assigned.vendor = v /\ editing[v].status = "active"
                         THEN [assigned EXCEPT !.approval = "published"] ELSE assigned
          /\ Finish(v) /\ UNCHANGED channel
    BY <1>9 DEF SaveOwnWare
  <2>2. /\ editing' = [editing EXCEPT ![v] = NotEditing] /\ editing[v] # NotEditing
        /\ rules' = rules /\ soldLines' = soldLines
        /\ past' = IF WareExists /\ ~Owns(v) /\ wareRow' # wareRow
                   THEN past \cup {"intruded"} ELSE past
    BY <2>1 DEF Finish, Happened, NotEditing, None
  <2>3. /\ wareRow' \in [vendor: Merchants \cup {None}, category: {None, "toys"},
                          status: {"absent", "active", "draft", "archived"}]
        /\ wareRow'.vendor = wareRow.vendor /\ wareRow'.status = editing[v].status
        /\ wareRow'.status \in {"active", "draft"}
        /\ wareRow'.status = wareRow.status => wareRow' = wareRow
    BY <2>1 DEF CatalogueInv, GoodsRowsTrue
  <2>4. /\ assigned' \in [vendor: Merchants \cup {None},
                   approval: {None, "submitted", "approved", "rejected", "published"}]
        /\ assigned'.vendor = assigned.vendor
        /\ assigned = NoAssignment => assigned' = NoAssignment
        /\ assigned'.approval = "submitted"
             => assigned' = assigned /\ ~(assigned.vendor = v /\ editing[v].status = "active")
    BY <2>1 DEF CatalogueInv, GoodsRowsTrue, NoAssignment, None
  <2>5. GoodsRowsTrue'
    <3>1. editing' \in [Merchants -> [job: {None, "save", "trash", "delete"},
                                      status: {None, "active", "draft"}]]
      BY <2>2 DEF CatalogueInv, GoodsRowsTrue, NotEditing
    <3>2. \A u \in Merchants : editing'[u].job = "save" => editing'[u].status # None
      BY <2>2 DEF CatalogueInv, GoodsRowsTrue, NotEditing, None
    <3> QED BY <2>1, <2>2, <2>3, <2>4, <3>1, <3>2 DEF CatalogueInv, GoodsRowsTrue, WareExists
  <2>6. AssignedToOwner' /\ ListedByOwner'
    BY <1>1, <2>1, <2>3, <2>4 DEF CatalogueInv, AssignedToOwner, ListedByOwner, Undisturbed
  <2>7. PagesOwn'
    BY <1>1, <2>1, <2>2, <2>3, <2>4 DEF CatalogueInv, GoodsRowsTrue, PagesOwn, Undisturbed, Owns,
       WareExists
  <2>8. PagesKeepOut' BY <1>1, <2>1, <2>2 DEF CatalogueInv, PagesOwn, PagesKeepOut, Undisturbed
  <2>9. HeldBack'
    <3>1. SUFFICES ASSUME assigned'.approval = "submitted", wareRow'.status = "active",
                          wareRow.status # "active"
                   PROVE  "transferred" \in past' \/ "intruded" \in past'
      BY <1>1, <2>4 DEF CatalogueInv, HeldBack
    <3>2. assigned' = assigned /\ assigned.vendor # v /\ assigned # NoAssignment
      BY <2>3, <2>4, <3>1 DEF NoAssignment, None
    <3>3. CASE Owns(v) BY <1>1, <3>2, <3>3 DEF CatalogueInv, AssignedToOwner, Owns
    <3>4. CASE ~Owns(v) BY <2>1, <2>2, <3>1, <3>4
    <3> QED BY <3>3, <3>4
  <2>10. RulesMeant' BY <2>2 DEF CatalogueInv, RulesMeant
  <2> QED BY <2>5, <2>6, <2>7, <2>8, <2>9, <2>10 DEF CatalogueInv
<1>10. CASE TrashWare
  BY <1>10 DEF CatalogueInv, GoodsRowsTrue, AssignedToOwner, PagesOwn, ListedByOwner, PagesKeepOut,
     HeldBack, RulesMeant, Undisturbed, TrashWare, NoWare, NoAssignment, NoChannel, NotEditing,
     WareExists, Owns, Finish, Happened, None
<1>11. CASE DeleteWare
  BY <1>11 DEF CatalogueInv, GoodsRowsTrue, AssignedToOwner, PagesOwn, ListedByOwner, PagesKeepOut,
     HeldBack, RulesMeant, Undisturbed, DeleteWare, Deletable, NoWare, NoAssignment,
     NoChannel, NotEditing, WareExists, Owns, Finish, Happened, None
<1>12. CASE LoseEdit
  BY <1>12 DEF CatalogueInv, GoodsRowsTrue, AssignedToOwner, PagesOwn, ListedByOwner, PagesKeepOut,
     HeldBack, RulesMeant, Undisturbed, LoseEdit, NoWare, NoAssignment, NoChannel, NotEditing,
     WareExists, Owns, None
<1>13. CASE ListWare
  BY <1>13 DEF CatalogueInv, GoodsRowsTrue, AssignedToOwner, PagesOwn, ListedByOwner, PagesKeepOut,
     HeldBack, RulesMeant, Undisturbed, ListWare, NoWare, NoAssignment, NoChannel, NotEditing,
     WareExists, Owns, Called, None
<1>14. CASE SellWare
  <2>1. RulesMeant' BY <1>14, SaleIsMeant DEF CatalogueInv
  <2>2. SellerOf \in Merchants
    BY <1>14 DEF CatalogueInv, SellWare, GoodsRowsTrue, SellerOf, NoAssignment, None
  <2>3. GoodsRowsTrue' BY <1>14, <2>2 DEF CatalogueInv, SellWare, GoodsRowsTrue, WareExists
  <2> QED
    BY <1>14, <2>1, <2>3 DEF SellWare, CatalogueInv, AssignedToOwner, PagesOwn, ListedByOwner,
       PagesKeepOut, HeldBack, Undisturbed, WareExists, Owns
<1>15. CASE ChangeRules
  BY <1>15 DEF CatalogueInv, GoodsRowsTrue, AssignedToOwner, PagesOwn, ListedByOwner, PagesKeepOut,
     HeldBack, RulesMeant, Undisturbed, ChangeRules, NoAssignment, NoChannel, NotEditing,
     WareExists, Owns, Called, None
<1>16. CASE UNCHANGED vendorCatalogueVars
  BY <1>16 DEF vendorCatalogueVars, CatalogueInv, GoodsRowsTrue, AssignedToOwner, PagesOwn,
     ListedByOwner, PagesKeepOut, HeldBack, RulesMeant, Undisturbed, WareExists, Owns
<1> QED BY <1>2, <1>3, <1>4, <1>5, <1>6, <1>7, <1>8, <1>9, <1>10, <1>11, <1>12, <1>13, <1>14, <1>15,
     <1>16 DEF VendorCatalogueNext

LEMMA CatalogueMeans ==
  ASSUME CatalogueInv
  PROVE  VendorCatalogueTypeOK /\ VendorCatalogueSound
<1> USE VendorCatalogueAssumption
<1>1. VendorCatalogueTypeOK BY DEF CatalogueInv, GoodsRowsTrue, VendorCatalogueTypeOK
<1>2. OneOwner
  BY DEF CatalogueInv, GoodsRowsTrue, AssignedToOwner, OneOwner, Owns, SellerOf, NoAssignment, None
<1>3. OwnerMayList
  BY DEF CatalogueInv, GoodsRowsTrue, AssignedToOwner, ListedByOwner, Undisturbed, OwnerMayList,
     Owns, NoAssignment, None
<1> QED BY <1>1, <1>2, <1>3 DEF CatalogueInv, VendorCatalogueSound

(* A product of the marketplace keeps to its vendor: its type invariant, one vendor manages *)
(* it and is credited with its sales, and the rest of VendorCatalogueSound, for any vendors, *)
(* rules and number of calls. *)
THEOREM VendorCatalogueTrue ==
  VendorCatalogueSpec => [](VendorCatalogueTypeOK /\ VendorCatalogueSound)
<1>1. VendorCatalogueInit => CatalogueInv BY CatalogueStart
<1>2. CatalogueInv /\ [VendorCatalogueNext]_vendorCatalogueVars => CatalogueInv' BY CatalogueStep
<1>3. CatalogueInv => VendorCatalogueTypeOK /\ VendorCatalogueSound BY CatalogueMeans
<1> QED BY <1>1, <1>2, <1>3, PTL DEF VendorCatalogueSpec

--------------------
\* ProductVideos: the store and the files agree with the rows.
RowsIn(some) == DOMAIN some \subseteq VideoRows /\ \A v \in DOMAIN some : some[v] \in Video

\* No row was renamed more often than a form was saved.
FormsLeft == videoBudget.forms + IF videoForm = NoRows THEN 0 ELSE 1

VideoRowsTrue ==
  /\ videos \in [VideoRows -> Video \cup {NoVideo}] /\ files \subseteq VideoRows
  /\ DOMAIN manifest \subseteq VideoRows /\ \A v \in DOMAIN manifest : manifest[v] \in Nat
  /\ videoRecord \in BOOLEAN /\ emptied \in {"none", "open", "synced"}
  /\ RowsIn(videoForm) /\ RowsIn(videoPush.cached)
  /\ videoPush \in [phase: {"idle", "building", "answered"}, cached: {videoPush.cached}]
  /\ videoPush.phase = "idle" => videoPush = IdlePush
  /\ videoBudget \in [forms: Nat, faults: Nat]
  /\ \A v \in VideoRows : videos[v].text + FormsLeft <= MaxVideoForms
  /\ \A v \in DOMAIN videoForm : videoForm[v].text + FormsLeft <= MaxVideoForms

\* What a push has read is what there is, but for the rows changed since.
ReadTrue == \A v \in VideoRows \ changedSince :
  /\ v \in DOMAIN videoPush.cached <=> videos[v] # NoVideo
  /\ v \in DOMAIN videoPush.cached => videoPush.cached[v].text = videos[v].text

PushTells == /\ videoPush # IdlePush => videoRecord
             /\ videoPush.phase = "building" => ReadTrue
             /\ videoPush.phase = "answered" => \A v \in VideoRows : Shows(v) \/ v \in changedSince

VideosInv == VideoRowsTrue /\ PushTells /\ NoChangeForgotten /\ FilesKept

LEMMA VideosStart == VideosInit => VideosInv
<1> SUFFICES ASSUME VideosInit PROVE VideosInv OBVIOUS
<1> USE VideosAssumption DEF VideosInit
<1>1. VideoRowsTrue
  <2>1. DOMAIN NoRows = {} /\ IdlePush.phase = "idle" /\ IdlePush.cached = NoRows
    BY DEF NoRows, IdlePush
  <2>2. videos \in [VideoRows -> Video \cup {NoVideo}] /\ \A v \in VideoRows : videos[v].text = 0
    BY DEF NoVideo
  <2>3. FormsLeft = MaxVideoForms BY DEF FormsLeft
  <2>4. \A v \in VideoRows : videos[v].text + FormsLeft <= MaxVideoForms BY <2>2, <2>3
  <2>5. videoPush \in [phase: {"idle", "building", "answered"}, cached: {videoPush.cached}]
    BY DEF IdlePush
  <2> QED BY <2>1, <2>2, <2>4, <2>5 DEF VideoRowsTrue, RowsIn
<1>2. \A v \in VideoRows : Shows(v) BY DEF Shows
<1>3. PushTells BY <1>2 DEF PushTells, IdlePush
<1>4. FilesKept BY DEF FilesKept, Listed
<1> QED BY <1>1, <1>2, <1>3, <1>4 DEF VideosInv, NoChangeForgotten

(* What is no row has no status, and a row may be named anew while forms are left. *)
LEMMA NoVideoIsNone ==
  /\ NoVideo \notin Video /\ NoVideo.status = "none" /\ NoVideo.source = "none"
  /\ NoVideo.text = 0
BY DEF NoVideo, Video

LEMMA UploadKeeps ==
  ASSUME VideosInv, UploadVideoFile
  PROVE  VideosInv'
<1> USE VideosAssumption, NoVideoIsNone
<1>1. PICK v \in VideoRows :
        /\ videos[v] = NoVideo
        /\ videos' = [videos EXCEPT ![v] = [status |-> "pending_add", source |-> "uploaded",
                                            remote |-> FALSE, text |-> 0]]
        /\ files' = files \cup {v}
        /\ videoRecord' = TRUE /\ changedSince' = Changing({v})
        /\ UNCHANGED <<manifest, emptied, videoForm, videoPush, videoBudget, unsaid, orphaned>>
  BY DEF UploadVideoFile, Smallest, FreshVideos
<1> DEFINE row == [status |-> "pending_add", source |-> "uploaded", remote |-> FALSE, text |-> 0]
<1>2. row \in Video /\ row.text = 0 /\ row.source = "uploaded" BY DEF Video
<1>3. videos' = [videos EXCEPT ![v] = row] /\ videos[v].text = 0 BY <1>1
<1> HIDE DEF row
<1>4. VideoRowsTrue' BY <1>1, <1>2, <1>3 DEF VideosInv, VideoRowsTrue, RowsIn, FormsLeft
<1>5. changedSince \subseteq changedSince' /\ (videoPush # IdlePush => v \in changedSince')
  BY <1>1 DEF Changing
<1>6. PushTells'
  <2>1. \A u \in VideoRows \ {v} : videos'[u] = videos[u] BY <1>1 DEF VideosInv, VideoRowsTrue
  <2>2. videoPush.phase = "building" => ReadTrue'
    BY <1>1, <1>5, <2>1 DEF VideosInv, PushTells, ReadTrue, IdlePush
  <2>3. videoPush.phase = "answered" => \A u \in VideoRows : Shows(u)' \/ u \in changedSince'
    BY <1>1, <1>5, <2>1 DEF VideosInv, PushTells, Shows, IdlePush
  <2> QED BY <1>1, <2>2, <2>3 DEF PushTells
<1>7. FilesKept' BY <1>1, <1>3 DEF VideosInv, VideoRowsTrue, FilesKept, Listed
<1> QED BY <1>1, <1>4, <1>6, <1>7 DEF VideosInv, NoChangeForgotten

LEMMA OpenKeeps ==
  ASSUME VideosInv, OpenVideoForm
  PROVE  VideosInv'
<1> USE VideosAssumption, NoVideoIsNone
<1>1. /\ videoForm = NoRows /\ videoBudget.forms > 0
      /\ videoBudget' = [videoBudget EXCEPT !.forms = @ - 1]
      /\ videoForm' = [v \in Listed(videos) |-> videos[v]]
      /\ UNCHANGED <<videos, files, manifest, videoRecord, emptied, videoPush, changedSince, unsaid,
                     orphaned>>
  BY DEF OpenVideoForm, Restrict
<1>2. /\ videoBudget' \in [forms: Nat, faults: Nat]
      /\ videoBudget'.forms = videoBudget.forms - 1
  BY <1>1 DEF VideosInv, VideoRowsTrue
<1>3. /\ FormsLeft = videoBudget.forms /\ FormsLeft' \in Nat /\ FormsLeft' <= FormsLeft
  BY <1>1, <1>2 DEF FormsLeft, VideosInv, VideoRowsTrue
<1>4. RowsIn(videoForm') BY <1>1 DEF RowsIn, Listed, VideosInv, VideoRowsTrue
<1>5. \A v \in VideoRows : videos[v].text \in Nat BY DEF VideosInv, VideoRowsTrue, Video
<1>6. /\ \A v \in VideoRows : videos'[v].text + FormsLeft' <= MaxVideoForms
      /\ \A v \in DOMAIN videoForm' : videoForm'[v].text + FormsLeft' <= MaxVideoForms
  <2>1. FormsLeft \in Nat BY <1>3 DEF VideosInv, VideoRowsTrue
  <2>2. \A v \in VideoRows : videos[v].text + FormsLeft <= MaxVideoForms
    BY DEF VideosInv, VideoRowsTrue
  <2>3. \A v \in VideoRows : videos[v].text + FormsLeft' <= MaxVideoForms BY <1>3, <1>5, <2>1, <2>2
  <2> QED BY <1>1, <2>3 DEF Listed
<1>7. VideoRowsTrue' BY <1>1, <1>2, <1>4, <1>6 DEF VideosInv, VideoRowsTrue, RowsIn
<1> QED BY <1>1, <1>7 DEF VideosInv, PushTells, ReadTrue, Shows, FilesKept, NoChangeForgotten

LEMMA SimpleStepsKeep ==
  ASSUME VideosInv, QueueVideos \/ ReadVideos \/ SendManifest \/ AbandonVideos
  PROVE  VideosInv'
<1> USE VideosAssumption, NoVideoIsNone
<1>1. CASE QueueVideos
  BY <1>1 DEF QueueVideos, Emptied, VideosInv, VideoRowsTrue, RowsIn, FormsLeft, PushTells, ReadTrue, Shows,
              FilesKept, NoChangeForgotten, Listed
<1>2. CASE ReadVideos
  <2>1. /\ videoRecord /\ videoPush = IdlePush
        /\ videoPush' = [phase |-> "building", cached |-> [v \in Listed(videos) |-> videos[v]]]
        /\ changedSince' = {}
        /\ UNCHANGED <<videos, files, manifest, videoRecord, emptied, videoForm, videoBudget,
                       orphaned>>
    BY <1>2 DEF ReadVideos, Restrict
  <2>2. /\ videoPush'.phase = "building"
        /\ videoPush'.cached = [v \in Listed(videos) |-> videos[v]]
    BY <2>1
  <2>3. RowsIn(videoPush'.cached) BY <2>2 DEF RowsIn, Listed, VideosInv, VideoRowsTrue
  <2>4. VideoRowsTrue' BY <2>1, <2>2, <2>3 DEF VideosInv, VideoRowsTrue, RowsIn, FormsLeft
  <2>5. ReadTrue' BY <2>1, <2>2 DEF ReadTrue, Listed, VideosInv, VideoRowsTrue
  <2> QED BY <2>1, <2>2, <2>4, <2>5 DEF VideosInv, PushTells, FilesKept, NoChangeForgotten
<1>3. CASE SendManifest
  <2>1. /\ videoPush.phase = "building" /\ videoPush # IdlePush
        /\ manifest' = [v \in DOMAIN videoPush.cached |-> videoPush.cached[v].text]
        /\ videoPush' = [videoPush EXCEPT !.phase = "answered"]
        /\ UNCHANGED <<videos, files, videoRecord, emptied, videoForm, videoBudget, changedSince,
                       orphaned>>
    BY <1>3 DEF SendManifest, IdlePush
  <2>2. videoPush'.phase = "answered" /\ videoPush'.cached = videoPush.cached
        /\ videoPush' \in [phase: {"idle", "building", "answered"}, cached: {videoPush.cached}]
    BY <2>1 DEF VideosInv, VideoRowsTrue
  <2>3. ReadTrue /\ videoRecord BY <2>1 DEF VideosInv, PushTells
  <2>4. \A v \in VideoRows : Shows(v)' \/ v \in changedSince BY <2>1, <2>3 DEF ReadTrue, Shows
  <2>5. VideoRowsTrue' BY <2>1, <2>2 DEF VideosInv, VideoRowsTrue, RowsIn, Video, FormsLeft
  <2> QED BY <2>1, <2>2, <2>3, <2>4, <2>5 DEF VideosInv, PushTells, FilesKept, NoChangeForgotten
<1>4. CASE AbandonVideos
  <2>1. /\ videoPush # IdlePush /\ videoBudget.faults > 0
        /\ videoBudget' = [videoBudget EXCEPT !.faults = @ - 1]
        /\ videoPush' = IdlePush
        /\ UNCHANGED <<videos, files, manifest, videoRecord, emptied, videoForm, changedSince,
                       orphaned>>
    BY <1>4 DEF AbandonVideos
  <2>2. videoBudget' \in [forms: Nat, faults: Nat] /\ videoBudget'.forms = videoBudget.forms
    BY <2>1 DEF VideosInv, VideoRowsTrue
  <2>3. VideoRowsTrue'
    BY <2>1, <2>2 DEF VideosInv, VideoRowsTrue, RowsIn, FormsLeft, IdlePush, NoRows
  <2>4. videoRecord BY <2>1 DEF VideosInv, PushTells
  <2> QED BY <2>1, <2>3, <2>4 DEF VideosInv, PushTells, FilesKept, NoChangeForgotten, IdlePush
<1> QED BY <1>1, <1>2, <1>3, <1>4

LEMMA UploadVideoKeeps ==
  ASSUME VideosInv, UploadVideo
  PROVE  VideosInv'
<1> USE VideosAssumption, NoVideoIsNone
<1>1. PICK v \in ToUpload :
        LET cached == [videoPush.cached[v] EXCEPT !.remote = TRUE, !.status = "pending_update"]
        IN /\ videoPush.phase = "building"
           /\ IF v \in files /\ videos[v] # NoVideo
              THEN /\ videoPush' = [videoPush EXCEPT !.cached[v] = cached]
                   /\ videos' = [videos EXCEPT ![v].remote = TRUE, ![v].status =
                                   IF videoPush.cached[v].status = "pending_update" THEN @
                                   ELSE "pending_update"]
              ELSE videoPush' = IdlePush /\ UNCHANGED videos
           /\ UNCHANGED <<files, manifest, videoRecord, emptied, videoForm, videoBudget,
                          changedSince, unsaid, orphaned>>
  BY DEF UploadVideo, Smallest
<1>2. v \in DOMAIN videoPush.cached /\ v \in VideoRows /\ videoPush.cached[v] \in Video
  BY DEF ToUpload, VideosInv, VideoRowsTrue, RowsIn
<1>3. videoPush # IdlePush /\ videoRecord /\ ReadTrue BY <1>1 DEF VideosInv, PushTells, IdlePush
<1>4. CASE v \in files /\ videos[v] # NoVideo
  <2> DEFINE cached == [videoPush.cached[v] EXCEPT !.remote = TRUE, !.status = "pending_update"]
             row == [videos[v] EXCEPT !.remote = TRUE, !.status =
                        IF videoPush.cached[v].status = "pending_update" THEN @
                        ELSE "pending_update"]
  <2>1. cached \in Video /\ cached.text = videoPush.cached[v].text BY <1>2 DEF Video
  <2>2. videos[v] \in Video BY <1>2, <1>4 DEF VideosInv, VideoRowsTrue
  <2>3. row \in Video /\ row.text = videos[v].text /\ row.source = videos[v].source
    BY <2>2 DEF Video
  <2>4. /\ videos' = [videos EXCEPT ![v] = row]
        /\ videoPush' = [videoPush EXCEPT !.cached = [videoPush.cached EXCEPT ![v] = cached]]
    BY <1>1, <1>4
  <2>5. /\ UNCHANGED <<files, manifest, videoRecord, emptied, videoForm, videoBudget, changedSince,
                       orphaned>>
    BY <1>1
  <2> HIDE DEF cached, row
  <2>6. /\ videoPush' = [phase |-> "building", cached |-> [videoPush.cached EXCEPT ![v] = cached]]
    BY <1>1, <2>4 DEF VideosInv, VideoRowsTrue
  <2> DEFINE all == [videoPush.cached EXCEPT ![v] = cached]
  <2>7. /\ DOMAIN all = DOMAIN videoPush.cached
        /\ all[v] = cached
        /\ \A u \in DOMAIN videoPush.cached : u # v => all[u] = videoPush.cached[u]
    BY <1>2
  <2>8. videoPush'.phase = "building" /\ videoPush'.cached = all BY <2>6
  <2> HIDE DEF all
  <2>9. RowsIn(all) BY <1>2, <2>1, <2>7 DEF RowsIn, VideosInv, VideoRowsTrue
  <2>10. \A u \in VideoRows : videos'[u].text = videos[u].text
    BY <2>3, <2>4 DEF VideosInv, VideoRowsTrue
  <2>11. \A u \in VideoRows : videos'[u] \in Video \cup {NoVideo} /\ (videos'[u] = NoVideo <=> videos[u] = NoVideo)
    BY <1>4, <2>3, <2>4 DEF VideosInv, VideoRowsTrue
  <2>12. VideoRowsTrue'
    BY <2>4, <2>5, <2>6, <2>8, <2>9, <2>10, <2>11 DEF VideosInv, VideoRowsTrue, FormsLeft, RowsIn
  <2>13. \A u \in DOMAIN all : all[u].text = videoPush.cached[u].text BY <2>1, <2>7
  <2>14. ReadTrue' BY <1>3, <2>5, <2>7, <2>8, <2>10, <2>11, <2>13 DEF ReadTrue
  <2>15. PushTells' BY <1>3, <2>5, <2>8, <2>14 DEF PushTells
  <2>16. FilesKept' BY <2>3, <2>4, <2>5, <2>11 DEF VideosInv, VideoRowsTrue, FilesKept, Listed
  <2> QED BY <1>3, <2>5, <2>12, <2>15, <2>16 DEF VideosInv, NoChangeForgotten
<1>5. CASE ~(v \in files /\ videos[v] # NoVideo)
  <2>1. /\ videoPush' = IdlePush
        /\ UNCHANGED <<videos, files, manifest, videoRecord, emptied, videoForm, videoBudget,
                       changedSince, unsaid, orphaned>>
    BY <1>1, <1>5
  <2>2. VideoRowsTrue' BY <2>1 DEF VideosInv, VideoRowsTrue, RowsIn, FormsLeft, IdlePush, NoRows
  <2> QED BY <1>3, <2>1, <2>2 DEF VideosInv, PushTells, FilesKept, NoChangeForgotten, IdlePush
<1> QED BY <1>4, <1>5

LEMMA SettleKeeps ==
  ASSUME VideosInv, SettleVideos
  PROVE  VideosInv'
<1> USE VideosAssumption, NoVideoIsNone
<1> DEFINE Row(v) == IF videos[v] = NoVideo \/ (v \in DOMAIN videoPush.cached
                                  /\ videoPush.cached[v].status = "synced")
                     THEN videos[v] ELSE [videos[v] EXCEPT !.status = "synced"]
<1>1. /\ videoPush.phase = "answered" /\ videos' = [v \in VideoRows |-> Row(v)]
      /\ emptied' = IF emptied = "open" THEN "synced" ELSE emptied
      /\ videoRecord' = FALSE /\ videoPush' = IdlePush
      /\ UNCHANGED <<files, manifest, videoForm, videoBudget, changedSince, orphaned>>
  BY DEF SettleVideos
<1>2. \A v \in VideoRows : /\ Row(v) \in Video \cup {NoVideo} /\ Row(v).text = videos[v].text
                           /\ Row(v).source = videos[v].source
                           /\ Row(v) = NoVideo <=> videos[v] = NoVideo
  <2> TAKE v \in VideoRows
  <2>1. CASE Row(v) = videos[v] BY <2>1 DEF VideosInv, VideoRowsTrue
  <2>2. CASE videos[v] # NoVideo /\ Row(v) = [videos[v] EXCEPT !.status = "synced"]
    <3>1. videos[v] \in Video BY <2>2 DEF VideosInv, VideoRowsTrue
    <3> DEFINE row == [videos[v] EXCEPT !.status = "synced"]
    <3>2. row \in Video /\ row.text = videos[v].text /\ row.source = videos[v].source
      BY <3>1 DEF Video
    <3> QED BY <2>2, <3>1, <3>2
  <2> QED BY <2>1, <2>2
<1> HIDE DEF Row
<1>3. \A v \in VideoRows : videos'[v] = Row(v) BY <1>1
<1>4. VideoRowsTrue'
  BY <1>1, <1>2, <1>3 DEF VideosInv, VideoRowsTrue, RowsIn, FormsLeft, IdlePush, NoRows
<1>5. \A v \in VideoRows : Shows(v)' \/ v \in changedSince
  BY <1>1, <1>2, <1>3 DEF Shows, VideosInv, PushTells
<1>6. FilesKept' BY <1>1, <1>2, <1>3 DEF FilesKept, Listed, VideosInv
<1> QED BY <1>1, <1>4, <1>5, <1>6 DEF VideosInv, PushTells, NoChangeForgotten, IdlePush

\* What a saved form makes of a row: another text for one of them at most.
LEMMA SaveKeeps ==
  ASSUME VideosInv, SaveVideoForm
  PROVE  VideosInv'
<1> USE VideosAssumption, NoVideoIsNone
<1>1. PICK kept \in SUBSET DOMAIN videoForm, committed \in BOOLEAN,
           retitled \in SUBSET DOMAIN videoForm, relinked \in SUBSET DOMAIN videoForm :
        LET gone == {v \in kept : videos[v] = NoVideo}
            saved == [v \in VideoRows |->
                  IF v \notin kept THEN NoVideo
                  ELSE IF v \in gone THEN [videoForm[v] EXCEPT !.status = "pending_add",
                                                              !.remote = FALSE]
                  ELSE IF v \in relinked THEN Relinked(videos[v])
                  ELSE IF v \in retitled THEN Renamed(videos[v])
                  ELSE videos[v]]
            removed == {v \in Listed(videos) : videos[v].source = "uploaded" /\ saved[v].source # "uploaded"}
            changed == {v \in VideoRows : saved[v] # videos[v]}
        IN /\ videoForm # NoRows /\ videoForm' = NoRows
           /\ retitled \cup relinked \subseteq kept \ gone /\ Cardinality(retitled \cup relinked) <= 1
           /\ retitled \cap relinked = {}
           /\ IF \E v \in gone : videoForm[v].source = "uploaded"
              THEN LET early == IF committed THEN {} ELSE removed \cap relinked
                   IN /\ files' = files \ early /\ orphaned' = orphaned \cup early
                      /\ UNCHANGED <<videos, videoRecord, emptied, changedSince, unsaid>>
              ELSE /\ files' = files \ removed
                   /\ IF committed
                      THEN /\ videos' = saved
                           /\ videoRecord' = (videoRecord \/ Queues(saved))
                           /\ emptied' = Emptied(saved)
                           /\ unsaid' = IF videoRecord' THEN unsaid ELSE unsaid \cup changed
                           /\ changedSince' = Changing(changed)
                           /\ UNCHANGED orphaned
                      ELSE /\ orphaned' = orphaned \cup removed
                           /\ UNCHANGED <<videos, videoRecord, emptied, changedSince, unsaid>>
           /\ UNCHANGED <<manifest, videoPush, videoBudget>>
  BY DEF SaveVideoForm
<1> DEFINE gone == {v \in kept : videos[v] = NoVideo}
           Became(v) == IF v \notin kept THEN NoVideo
                    ELSE IF v \in gone THEN [videoForm[v] EXCEPT !.status = "pending_add",
                                                                !.remote = FALSE]
                    ELSE IF v \in relinked THEN Relinked(videos[v])
                    ELSE IF v \in retitled THEN Renamed(videos[v])
                    ELSE videos[v]
           saved == [v \in VideoRows |-> Became(v)]
           removed == {v \in Listed(videos) : videos[v].source = "uploaded" /\ saved[v].source # "uploaded"}
           changed == {v \in VideoRows : saved[v] # videos[v]}
           failing == \E v \in gone : videoForm[v].source = "uploaded"
           early == IF committed THEN {} ELSE removed \cap relinked
<1>2. /\ videoForm # NoRows /\ videoForm' = NoRows
      /\ retitled \cup relinked \subseteq kept \ gone
      /\ UNCHANGED <<manifest, videoPush, videoBudget>>
      /\ failing => /\ files' = files \ early /\ orphaned' = orphaned \cup early
                    /\ UNCHANGED <<videos, videoRecord, emptied, changedSince, unsaid>>
      /\ ~failing /\ committed
           => /\ files' = files \ removed /\ videos' = saved
              /\ videoRecord' = (videoRecord \/ Queues(saved)) /\ emptied' = Emptied(saved)
              /\ unsaid' = IF videoRecord' THEN unsaid ELSE unsaid \cup changed
              /\ changedSince' = Changing(changed) /\ UNCHANGED orphaned
      /\ ~failing /\ ~committed
           => /\ files' = files \ removed /\ orphaned' = orphaned \cup removed
              /\ UNCHANGED <<videos, videoRecord, emptied, changedSince, unsaid>>
  BY <1>1
<1>3. DOMAIN NoRows = {} BY DEF NoRows
<1>4. /\ videoBudget.forms \in Nat /\ FormsLeft = videoBudget.forms + 1
      /\ FormsLeft' = videoBudget.forms /\ FormsLeft \in Nat
  <2>1. videoBudget.forms \in Nat BY DEF VideosInv, VideoRowsTrue
  <2>2. videoForm # NoRows /\ videoForm' = NoRows /\ videoBudget' = videoBudget BY <1>2
  <2> QED BY <2>1, <2>2 DEF FormsLeft
<1>5. \A v \in VideoRows : /\ videos[v] \in Video \cup {NoVideo} /\ videos[v].text \in Nat
                           /\ videos[v].text + FormsLeft <= MaxVideoForms
  BY DEF VideosInv, VideoRowsTrue, Video
<1>6. CASE UNCHANGED <<videos, videoRecord, emptied, changedSince, unsaid>>
  <2>1. /\ files' \subseteq files /\ orphaned \subseteq orphaned' /\ files \subseteq files' \cup orphaned'
    BY <1>2, <1>6
  <2>2. VideoRowsTrue'
    <3>1. \A v \in VideoRows : videos'[v].text + FormsLeft' <= MaxVideoForms
      <4>1. \A v \in VideoRows : videos[v].text + FormsLeft' <= MaxVideoForms BY <1>4, <1>5
      <4> QED BY <1>6, <4>1
    <3> QED BY <1>2, <1>3, <1>6, <2>1, <3>1 DEF VideosInv, VideoRowsTrue, RowsIn
  <2>3. FilesKept' BY <1>6, <2>1 DEF VideosInv, FilesKept, Listed
  <2> QED BY <1>2, <1>6, <2>2, <2>3 DEF VideosInv, PushTells, ReadTrue, Shows, NoChangeForgotten
<1>7. CASE ~failing /\ committed
  <2>1. \A v \in VideoRows : /\ Became(v) \in Video \cup {NoVideo}
                             /\ Became(v).text <= MaxVideoForms - FormsLeft'
                             /\ Became(v).text \in Nat
                             /\ Became(v).source = "uploaded" => videos[v].source = "uploaded"
    <3> SUFFICES ASSUME NEW v \in VideoRows
                 PROVE  /\ Became(v) \in Video \cup {NoVideo}
                        /\ Became(v).text <= MaxVideoForms - FormsLeft'
                        /\ Became(v).text \in Nat
                        /\ Became(v).source = "uploaded" => videos[v].source = "uploaded"
      OBVIOUS
    <3>1. 0 <= MaxVideoForms - FormsLeft' /\ videos[v].text + 1 <= MaxVideoForms - FormsLeft'
      BY <1>4, <1>5
    <3>2. MaxVideoForms - FormsLeft' \in Int /\ MaxVideoForms - FormsLeft' <= MaxVideoForms BY <1>4
    <3>3. CASE v \notin kept BY <3>1, <3>3
    <3>4. CASE v \in gone
      <4> DEFINE new == [videoForm[v] EXCEPT !.status = "pending_add", !.remote = FALSE]
      <4>1. /\ videoForm[v] \in Video /\ videoForm[v].source # "uploaded"
            /\ videoForm[v].text + FormsLeft <= MaxVideoForms
        BY <1>7, <3>4 DEF VideosInv, VideoRowsTrue, RowsIn
      <4>2. /\ new \in Video /\ new.source = videoForm[v].source /\ new.text = videoForm[v].text
            /\ new.text \in Nat
        <5>1. videoForm[v].text \in Nat BY <4>1 DEF Video
        <5>2. new \in Video /\ new.source = videoForm[v].source /\ new.text = videoForm[v].text
          BY <4>1 DEF Video
        <5> QED BY <5>1, <5>2
      <4>3. Became(v) = new BY <3>4
      <4> HIDE DEF new, Became
      <4>4. new.text <= MaxVideoForms - FormsLeft' BY <1>4, <4>1, <4>2
      <4> QED BY <4>1, <4>2, <4>3, <4>4
    <3>5. CASE v \in kept \ gone
      <4>1. videos[v] \in Video BY <1>5, <3>5
      <4>2. videos[v].text + 1 \in 0..MaxVideoForms
        <5>1. videos[v].text \in Nat BY <1>5
        <5> QED BY <3>1, <3>2, <5>1
      <4>3. /\ Renamed(videos[v]) \in Video /\ Renamed(videos[v]).text = videos[v].text + 1
            /\ Renamed(videos[v]).source = videos[v].source
        BY <4>1, <4>2 DEF Renamed, Video
      <4>4. /\ Relinked(videos[v]) \in Video /\ Relinked(videos[v]).text = videos[v].text + 1
            /\ Relinked(videos[v]).source = "link"
        BY <4>1, <4>2 DEF Relinked, Video
      <4>5. videos[v].text <= MaxVideoForms - FormsLeft' BY <1>5, <3>1, <3>2
      <4>6. Became(v) \in {Renamed(videos[v]), Relinked(videos[v]), videos[v]} BY <3>5
      <4> HIDE DEF Became
      <4>7. videos[v].text \in Nat /\ videos[v].text + 1 \in Nat
        <5> DEFINE text == videos[v].text
        <5>1. text \in Nat BY <1>5
        <5> HIDE DEF text
        <5>2. text + 1 \in Nat BY <5>1
        <5> QED BY <5>1, <5>2 DEF text
      <4> DEFINE room == MaxVideoForms - FormsLeft'
                 Fits(some) == /\ some \in Video \cup {NoVideo} /\ some.text <= room
                               /\ some.text \in Nat
                               /\ some.source = "uploaded" => videos[v].source = "uploaded"
      <4> SUFFICES Fits(Became(v)) OBVIOUS
      <4>8. videos[v].text <= room /\ videos[v].text + 1 <= room BY <3>1, <4>5
      <4> HIDE DEF room
      <4>9. Fits(videos[v]) BY <4>1, <4>7, <4>8
      <4>10. Fits(Renamed(videos[v])) BY <4>3, <4>7, <4>8
      <4>11. Fits(Relinked(videos[v])) BY <4>4, <4>7, <4>8
      <4> HIDE DEF Fits
      <4> QED BY <4>6, <4>9, <4>10, <4>11
    <3> QED BY <3>3, <3>4, <3>5
  <2> HIDE DEF Became
  <2>2. /\ videos' = saved /\ files' = files \ removed
        /\ videoRecord => videoRecord'
        /\ videoRecord' \in BOOLEAN /\ emptied' \in {"none", "open", "synced"}
        /\ ~videoRecord' => unsaid' = unsaid \cup changed
        /\ changedSince' = Changing(changed) /\ orphaned' = orphaned
    <3>1. /\ videos' = saved /\ files' = files \ removed
          /\ videoRecord' = (videoRecord \/ Queues(saved)) /\ emptied' = Emptied(saved)
          /\ unsaid' = IF videoRecord' THEN unsaid ELSE unsaid \cup changed
          /\ changedSince' = Changing(changed) /\ orphaned' = orphaned
      BY <1>2, <1>7
    <3>2. emptied \in {"none", "open", "synced"} BY DEF VideosInv, VideoRowsTrue
    <3> HIDE DEF saved, removed, changed
    <3> QED BY <3>1, <3>2 DEF Emptied
  <2>3. \A v \in VideoRows : videos'[v] = Became(v) /\ saved[v] = Became(v) BY <2>2
  <2> HIDE DEF saved
  <2>4. \A v \in VideoRows : videos'[v].text + FormsLeft' <= MaxVideoForms BY <1>4, <2>1, <2>3
  <2>5. videos' \in [VideoRows -> Video \cup {NoVideo}] BY <2>1, <2>2 DEF saved
  <2>6. VideoRowsTrue' BY <1>2, <1>3, <2>2, <2>4, <2>5 DEF VideosInv, VideoRowsTrue, RowsIn
  <2>7. /\ changedSince \subseteq changedSince'
        /\ videoPush # IdlePush => \A v \in VideoRows \ changedSince' : videos'[v] = videos[v]
    BY <2>2, <2>3 DEF Changing
  <2>8. videoPush.phase = "building" => ReadTrue'
    <3> SUFFICES ASSUME videoPush.phase = "building", NEW v \in VideoRows \ changedSince'
                 PROVE  /\ v \in DOMAIN videoPush.cached <=> videos'[v] # NoVideo
                        /\ v \in DOMAIN videoPush.cached
                             => videoPush.cached[v].text = videos'[v].text
      BY <1>2 DEF ReadTrue
    <3>1. videos'[v] = videos[v] /\ v \in VideoRows \ changedSince BY <2>7 DEF IdlePush
    <3>2. ReadTrue BY DEF VideosInv, PushTells
    <3> QED BY <3>1, <3>2 DEF ReadTrue
  <2>9. ASSUME videoPush.phase = "answered"
        PROVE  \A u \in VideoRows : Shows(u)' \/ u \in changedSince'
    <3>1. videoPush # IdlePush /\ \A u \in VideoRows : Shows(u) \/ u \in changedSince
      BY <2>9 DEF VideosInv, PushTells, IdlePush
    <3>2. manifest' = manifest BY <1>2
    <3> QED BY <2>7, <3>1, <3>2 DEF Shows
  <2>10. PushTells' BY <1>2, <2>2, <2>8, <2>9 DEF VideosInv, PushTells
  <2>11. FilesKept'
    <3>1. SUFFICES ASSUME NEW v \in VideoRows, videos'[v] # NoVideo, videos'[v].source = "uploaded"
                   PROVE  v \in files' \cup orphaned'
      BY DEF FilesKept, Listed
    <3>2. videos[v].source = "uploaded" /\ videos[v] # NoVideo BY <2>1, <2>3, <3>1
    <3>3. v \in files \cup orphaned /\ v \notin removed
      BY <2>3, <3>1, <3>2 DEF VideosInv, FilesKept, Listed
    <3> QED BY <2>2, <3>3
  <2>12. NoChangeForgotten'
    <3> SUFFICES ASSUME ~videoRecord', NEW v \in VideoRows, v \notin changedSince' \cup unsaid'
                 PROVE  Shows(v)'
      BY DEF NoChangeForgotten
    <3>1. ~videoRecord /\ videos'[v] = videos[v] /\ v \notin changedSince \cup unsaid
      BY <2>2, <2>3, <2>7
    <3>2. Shows(v) /\ manifest' = manifest BY <1>2, <3>1 DEF VideosInv, NoChangeForgotten
    <3> QED BY <3>1, <3>2 DEF Shows
  <2> QED BY <2>6, <2>10, <2>11, <2>12 DEF VideosInv
<1> QED BY <1>2, <1>6, <1>7

LEMMA VideosStep ==
  ASSUME VideosInv, [VideosNext]_videoVars
  PROVE  VideosInv'
<1>1. CASE UNCHANGED videoVars
  BY <1>1 DEF videoVars, VideosInv, VideoRowsTrue, FormsLeft, RowsIn, PushTells, ReadTrue, Shows,
              NoChangeForgotten, FilesKept, Listed
<1> QED
  BY <1>1, UploadKeeps, OpenKeeps, SaveKeeps, SimpleStepsKeep, UploadVideoKeeps, SettleKeeps
     DEF VideosNext

LEMMA VideosMean ==
  ASSUME VideosInv
  PROVE  VideosTypeOK /\ VideosSound
BY DEF VideosInv, VideoRowsTrue, VideosTypeOK, VideosSound, RowsIn

(* The store shows every video as the ERP has it unless a record waits to tell it, an *)
(* uploaded video has its file, and the rows are of their types, but for what VideosSound *)
(* names, for any rows, forms and faults (replace_product_videos). *)
THEOREM VideosTrue == VideosSpec => [](VideosTypeOK /\ VideosSound)
<1>1. VideosInit => VideosInv BY VideosStart
<1>2. VideosInv /\ [VideosNext]_videoVars => VideosInv' BY VideosStep
<1>3. VideosInv => VideosTypeOK /\ VideosSound BY VideosMean
<1> QED BY <1>1, <1>2, <1>3, PTL DEF VideosSpec

--------------------
\* MediaQueue: images that are to be sent have a record that is open.
MediaRow == [status: {"pending", "processing", "failed", "synced"}, attempts: 0..MediaAttempts,
             due: BOOLEAN]

MediaNeeds == {"clean", "removals", "changed"}
Shots == [version: Nat, needs: MediaNeeds]

MediaRowsTrue ==
  /\ shots \in Shots
  /\ DOMAIN mediaRecords \subseteq 0..shots.version
  /\ mediaRecords \in [DOMAIN mediaRecords -> MediaRow]
  /\ mediaWork.step = "claimed"
       => /\ mediaWork.attempts \in 1..MediaAttempts
          /\ mediaWork = [step |-> "claimed", record |-> mediaWork.record,
                          attempts |-> mediaWork.attempts]

\* The failures a retry has listed are of images there no longer are.
RetryTrue == retrying.step = "listed" =>
  /\ retrying.current \in 0..shots.version /\ \A u \in retrying.stale : u < retrying.current
  /\ retrying.seen # "none" => retrying.current \in DOMAIN mediaRecords

\* The record of the images as they are is not closed before they are sent ...
OpenWhileDirty ==
  shots.needs # "clean" /\ shots.version \in DOMAIN mediaRecords => mediaRecords[shots.version].status # "synced"
\* ... and there is one, but for the uploads and edits that UnsentIsTold names.
MadeWhenDirty == shots.needs # "clean" /\ ~silent /\ ~swallowed => shots.version \in DOMAIN mediaRecords

MediaInv == MediaRowsTrue /\ RetryTrue /\ OpenWhileDirty /\ MadeWhenDirty

LEMMA MediaStart == MediaQueueInit => MediaInv
BY MediaQueueAssumption DEF MediaQueueInit, MediaInv, MediaRowsTrue, RetryTrue, OpenWhileDirty,
   MadeWhenDirty, MediaIdle, Shots, MediaNeeds

(* A record is made for a version of the images, or the one there is starts anew. *)
LEMMA RecordTyped ==
  ASSUME MediaRowsTrue, NEW v \in Nat
  PROVE  LET recs == WithRecord(mediaRecords, v)
         IN /\ DOMAIN recs = DOMAIN mediaRecords \cup {v} /\ recs \in [DOMAIN recs -> MediaRow]
            /\ recs[v].status = "synced"
                 => v \in DOMAIN mediaRecords /\ mediaRecords[v].status = "synced"
<1> DEFINE Row(u) == IF u # v THEN mediaRecords[u]
                     ELSE IF v \notin DOMAIN mediaRecords THEN Pending
                     ELSE IF mediaRecords[v].status = "failed"
                             \/ (mediaRecords[v].status = "pending" /\ ~mediaRecords[v].due)
                          THEN Pending ELSE mediaRecords[v]
           recs == WithRecord(mediaRecords, v)
<1>1. recs = [u \in DOMAIN mediaRecords \cup {v} |-> Row(u)] BY DEF WithRecord
<1>2. Pending \in MediaRow /\ Pending.status # "synced"
  BY MediaQueueAssumption DEF Pending, MediaRow
<1>3. \A u \in DOMAIN mediaRecords : mediaRecords[u] \in MediaRow BY DEF MediaRowsTrue
<1>4. /\ \A u \in DOMAIN mediaRecords \cup {v} : Row(u) \in MediaRow
      /\ Row(v).status = "synced"
           => v \in DOMAIN mediaRecords /\ mediaRecords[v].status = "synced"
  BY <1>2, <1>3
<1> HIDE DEF Row, recs
<1>5. DOMAIN recs = DOMAIN mediaRecords \cup {v} /\ \A u \in DOMAIN recs : recs[u] = Row(u) BY <1>1
<1>6. recs \in [DOMAIN recs -> MediaRow] BY <1>1, <1>4, <1>5
<1> QED BY <1>4, <1>5, <1>6 DEF recs

(* Records that are closed are otherwise as they were. *)
LEMMA RecordsClosed ==
  ASSUME NEW recs, recs \in [DOMAIN recs -> MediaRow], NEW vs
  PROVE  LET closed == ClosedMedia(recs, vs)
         IN /\ DOMAIN closed = DOMAIN recs /\ closed \in [DOMAIN closed -> MediaRow]
            /\ \A u \in DOMAIN recs \ vs : closed[u] = recs[u]
<1> DEFINE Row(u) == IF u \in vs THEN [recs[u] EXCEPT !.status = "synced"] ELSE recs[u]
           closed == ClosedMedia(recs, vs)
<1>1. closed = [u \in DOMAIN recs |-> Row(u)] BY DEF ClosedMedia
<1>2. \A u \in DOMAIN recs : recs[u] \in MediaRow OBVIOUS
<1>3. \A u \in DOMAIN recs : Row(u) \in MediaRow BY <1>2 DEF MediaRow
<1>4. \A u \in DOMAIN recs \ vs : Row(u) = recs[u] OBVIOUS
<1> HIDE DEF Row, closed
<1>5. DOMAIN closed = DOMAIN recs /\ \A u \in DOMAIN closed : closed[u] = Row(u) BY <1>1
<1>6. closed \in [DOMAIN closed -> MediaRow] BY <1>1, <1>3, <1>5
<1> QED BY <1>4, <1>5, <1>6 DEF closed

(* The images are edited, or a publishing run or a listing looks whether to send them. *)
LEMMA QueueingKeeps ==
  ASSUME MediaInv, EditImages \/ UploadUnqueued \/ PublishMedia \/ ListProduct
  PROVE  MediaInv'
<1> USE MediaQueueAssumption
<1>1. shots \in Shots /\ shots.version \in Nat /\ MediaRowsTrue
  BY DEF MediaInv, MediaRowsTrue, Shots
<1>2. CASE EditImages
  <2> DEFINE v == shots.version + 1
             recs == WithRecord(mediaRecords, v)
  <2>1. PICK needs \in MediaNeeds :
          /\ shots' = [version |-> v, needs |-> needs]
          /\ \/ mediaRecords' = WithRecord(mediaRecords, v)
             \/ mediaRecords' = mediaRecords /\ silent' = TRUE
          /\ UNCHANGED <<mediaWork, retrying>>
    BY <1>2 DEF EditImages, MediaNeeds
  <2>2. v \in Nat /\ v \notin DOMAIN mediaRecords /\ v > shots.version BY <1>1 DEF MediaRowsTrue
  <2>3. /\ DOMAIN recs = DOMAIN mediaRecords \cup {v} /\ recs \in [DOMAIN recs -> MediaRow]
        /\ recs[v].status # "synced"
    BY <1>1, <2>2, RecordTyped
  <2> HIDE DEF recs, v
  <2>4. shots'.version = v /\ shots' \in Shots BY <2>1, <2>2 DEF Shots
  <2>5. CASE mediaRecords' = recs
    <3>1. DOMAIN recs \subseteq 0..v BY <1>1, <2>2, <2>3 DEF MediaRowsTrue
    <3>2. MediaRowsTrue' BY <2>1, <2>3, <2>4, <2>5, <3>1 DEF MediaInv, MediaRowsTrue
    <3>3. RetryTrue' BY <1>1, <2>1, <2>2, <2>3, <2>4, <2>5 DEF MediaInv, RetryTrue
    <3> QED BY <2>3, <2>4, <2>5, <3>2, <3>3 DEF MediaInv, OpenWhileDirty, MadeWhenDirty
  <2>6. CASE mediaRecords' = mediaRecords /\ silent' = TRUE
    <3>1. MediaRowsTrue' BY <1>1, <2>1, <2>2, <2>4, <2>6 DEF MediaRowsTrue
    <3>2. RetryTrue' BY <1>1, <2>1, <2>2, <2>4, <2>6 DEF MediaInv, RetryTrue
    <3> QED BY <2>2, <2>4, <2>6, <3>1, <3>2 DEF MediaInv, OpenWhileDirty, MadeWhenDirty
  <2> QED BY <2>1, <2>5, <2>6 DEF recs
<1>3. CASE UploadUnqueued
  <2> DEFINE v == shots.version
             recs == WithRecord(mediaRecords, v)
  <2>1. /\ shots' = [version |-> v + 1, needs |-> "changed"] /\ silent' = TRUE
        /\ UNCHANGED <<mediaWork, retrying>>
        /\ \/ mediaRecords' = mediaRecords
           \/ mediaRecords' = WithRecord(mediaRecords, v) /\ v \in Nat
    BY <1>1, <1>3 DEF UploadUnqueued
  <2>2. shots'.version = v + 1 /\ shots' \in Shots BY <1>1, <2>1 DEF Shots, MediaNeeds
  <2>3. DOMAIN recs = DOMAIN mediaRecords \cup {v} /\ recs \in [DOMAIN recs -> MediaRow]
    BY <1>1, RecordTyped
  <2> HIDE DEF recs
  <2>4. /\ DOMAIN mediaRecords \subseteq DOMAIN mediaRecords'
        /\ DOMAIN mediaRecords' \subseteq 0..v
        /\ mediaRecords' \in [DOMAIN mediaRecords' -> MediaRow]
    BY <1>1, <2>1, <2>3 DEF MediaRowsTrue, recs
  <2>5. MediaRowsTrue' BY <1>1, <2>1, <2>2, <2>4 DEF MediaRowsTrue
  <2>6. RetryTrue' BY <1>1, <2>1, <2>2, <2>4 DEF MediaInv, RetryTrue
  <2>7. shots'.version \notin DOMAIN mediaRecords' BY <1>1, <2>2, <2>4
  <2> QED BY <2>1, <2>5, <2>6, <2>7 DEF MediaInv, OpenWhileDirty, MadeWhenDirty
<1>4. CASE /\ PublishMedia \/ (ListProduct /\ shots.needs = "changed")
          /\ shots.needs # "clean"
  <2> DEFINE recs == WithRecord(mediaRecords, shots.version)
  <2>1. /\ mediaRecords' = WithRecord(mediaRecords, shots.version)
        /\ UNCHANGED <<shots, mediaWork, retrying>>
    BY <1>4 DEF PublishMedia, ListProduct
  <2>2. shots.version \in DOMAIN mediaRecords => mediaRecords[shots.version].status # "synced"
    BY <1>4 DEF MediaInv, OpenWhileDirty
  <2>3. /\ DOMAIN recs = DOMAIN mediaRecords \cup {shots.version}
        /\ recs \in [DOMAIN recs -> MediaRow] /\ recs[shots.version].status # "synced"
    BY <1>1, <2>2, RecordTyped
  <2> HIDE DEF recs
  <2>4. mediaRecords' = recs BY <2>1 DEF recs
  <2>5. MediaRowsTrue' BY <1>1, <2>1, <2>3, <2>4 DEF MediaRowsTrue
  <2> QED BY <2>1, <2>3, <2>4, <2>5 DEF MediaInv, RetryTrue, OpenWhileDirty, MadeWhenDirty
<1>5. CASE PublishMedia /\ shots.needs = "clean"
  <2> DEFINE vs == {u \in DOMAIN mediaRecords : mediaRecords[u].status \in OpenMedia}
             recs == ClosedMedia(mediaRecords, vs)
  <2>1. /\ mediaRecords' = ClosedMedia(mediaRecords, vs)
        /\ UNCHANGED <<shots, mediaWork, retrying>>
    BY <1>5 DEF PublishMedia
  <2>2. DOMAIN recs = DOMAIN mediaRecords /\ recs \in [DOMAIN recs -> MediaRow]
    BY <1>1, RecordsClosed DEF MediaRowsTrue
  <2> HIDE DEF recs
  <2>3. mediaRecords' = recs BY <2>1 DEF recs
  <2> HIDE DEF vs
  <2>4. MediaRowsTrue' BY <1>1, <2>1, <2>2, <2>3 DEF MediaRowsTrue
  <2> QED BY <1>5, <2>1, <2>2, <2>3, <2>4 DEF MediaInv, RetryTrue, OpenWhileDirty, MadeWhenDirty
<1>6. CASE ListProduct /\ shots.needs # "changed"
  <2>1. UNCHANGED <<shots, mediaRecords, mediaWork, retrying, silent, swallowed>>
    BY <1>6 DEF ListProduct
  <2> QED BY <2>1 DEF MediaInv, MediaRowsTrue, RetryTrue, OpenWhileDirty, MadeWhenDirty
<1> QED BY <1>2, <1>3, <1>4, <1>5, <1>6

(* Whatever the worker makes of its record, it stays open. *)
LEMMA RecordEnds ==
  ASSUME MediaInv, NEW u, NEW row \in MediaRow, row.status # "synced",
         mediaRecords' = [mediaRecords EXCEPT ![u] = row], mediaWork'.step # "claimed",
         UNCHANGED <<shots, retrying, silent, swallowed>>
  PROVE  MediaInv'
<1>1. /\ DOMAIN mediaRecords' = DOMAIN mediaRecords
      /\ mediaRecords' \in [DOMAIN mediaRecords -> MediaRow]
      /\ \A x \in DOMAIN mediaRecords : mediaRecords'[x] = mediaRecords[x] \/ mediaRecords'[x] = row
  BY DEF MediaInv, MediaRowsTrue
<1> QED BY <1>1 DEF MediaInv, MediaRowsTrue, RetryTrue, OpenWhileDirty, MadeWhenDirty

LEMMA WorkKeeps ==
  ASSUME MediaInv,
         TimeGoesOn \/ (\E v \in DOMAIN mediaRecords : ClaimMedia(v))
           \/ DeferMedia \/ ReadMedia \/ RefuseMedia \/ PutMedia
  PROVE  MediaInv'
<1> USE MediaQueueAssumption
<1>1. shots \in Shots /\ shots.version \in Nat /\ MediaRowsTrue
  BY DEF MediaInv, MediaRowsTrue, Shots
<1>2. CASE TimeGoesOn
  <2> DEFINE Row(v) == [mediaRecords[v] EXCEPT !.due = TRUE]
  <2>1. /\ mediaRecords' = [v \in DOMAIN mediaRecords |-> Row(v)]
        /\ UNCHANGED <<shots, mediaWork, retrying, silent, swallowed>>
    BY <1>2 DEF TimeGoesOn
  <2>2. \A v \in DOMAIN mediaRecords : Row(v) \in MediaRow /\ Row(v).status = mediaRecords[v].status
    <3>1. \A v \in DOMAIN mediaRecords : mediaRecords[v] \in MediaRow BY <1>1 DEF MediaRowsTrue
    <3> QED BY <3>1 DEF MediaRow
  <2> HIDE DEF Row
  <2>3. /\ DOMAIN mediaRecords' = DOMAIN mediaRecords
        /\ mediaRecords' \in [DOMAIN mediaRecords' -> MediaRow]
        /\ \A v \in DOMAIN mediaRecords : mediaRecords'[v].status = mediaRecords[v].status
    BY <2>1, <2>2
  <2> QED BY <1>1, <2>1, <2>3 DEF MediaInv, MediaRowsTrue, RetryTrue, OpenWhileDirty, MadeWhenDirty
<1>3. CASE \E v \in DOMAIN mediaRecords : ClaimMedia(v)
  <2>1. PICK v \in DOMAIN mediaRecords : ClaimMedia(v) BY <1>3
  <2> DEFINE row == [mediaRecords[v] EXCEPT !.status = "processing", !.attempts = @ + 1]
  <2>2. /\ mediaRecords' = [mediaRecords EXCEPT ![v] = row]
        /\ mediaWork' = [step |-> "claimed", record |-> v, attempts |-> mediaRecords[v].attempts + 1]
        /\ mediaRecords[v].attempts < MediaAttempts
        /\ UNCHANGED <<shots, retrying, silent, swallowed>>
    BY <2>1 DEF ClaimMedia, Due
  <2>3. mediaRecords[v] \in MediaRow BY <1>1 DEF MediaRowsTrue
  <2>4. mediaRecords[v].attempts + 1 \in 1..MediaAttempts BY <2>2, <2>3 DEF MediaRow
  <2>5. row \in MediaRow /\ row.status = "processing"
    <3>1. mediaRecords[v].attempts + 1 \in 0..MediaAttempts BY <2>4
    <3> QED BY <2>3, <3>1 DEF MediaRow
  <2> HIDE DEF row
  <2>6. /\ DOMAIN mediaRecords' = DOMAIN mediaRecords
        /\ mediaRecords' \in [DOMAIN mediaRecords -> MediaRow]
        /\ \A x \in DOMAIN mediaRecords : mediaRecords'[x] = mediaRecords[x] \/ mediaRecords'[x] = row
    BY <1>1, <2>2, <2>5 DEF MediaRowsTrue
  <2>7. MediaRowsTrue' BY <1>1, <2>2, <2>4, <2>6 DEF MediaRowsTrue
  <2> QED BY <2>2, <2>5, <2>6, <2>7 DEF MediaInv, RetryTrue, OpenWhileDirty, MadeWhenDirty
<1>4. CASE DeferMedia
  <2> DEFINE row == [status |-> "pending", due |-> FALSE, attempts |-> mediaWork.attempts - 1]
  <2>1. /\ mediaRecords' = [mediaRecords EXCEPT ![mediaWork.record] = row]
        /\ mediaWork.step = "claimed" /\ mediaWork' = MediaIdle
        /\ UNCHANGED <<shots, retrying, silent, swallowed>>
    BY <1>4 DEF DeferMedia, EndedMedia
  <2>2. mediaWork.attempts - 1 \in 0..MediaAttempts BY <1>1, <2>1 DEF MediaRowsTrue
  <2>3. row \in MediaRow /\ row.status # "synced" BY <2>2 DEF MediaRow
  <2>4. mediaWork'.step # "claimed" BY <2>1 DEF MediaIdle
  <2> HIDE DEF row
  <2> QED BY <2>1, <2>3, <2>4, RecordEnds
<1>5. CASE ReadMedia
  <2>1. /\ mediaWork.step = "claimed"
        /\ mediaWork' = [step |-> "reading", record |-> mediaWork.record, sends |-> shots.version]
        /\ UNCHANGED <<shots, mediaRecords, retrying, silent, swallowed>>
    BY <1>5 DEF ReadMedia
  <2>2. mediaWork'.step # "claimed" BY <2>1
  <2> QED BY <1>1, <2>1, <2>2 DEF MediaInv, MediaRowsTrue, RetryTrue, OpenWhileDirty, MadeWhenDirty
<1>6. CASE RefuseMedia
  <2> DEFINE r == mediaWork.record
             row == [status |-> "failed", due |-> FALSE, attempts |-> mediaRecords[r].attempts]
  <2>1. /\ mediaRecords' = [mediaRecords EXCEPT ![r] = row] /\ mediaWork' = MediaIdle
        /\ UNCHANGED <<shots, retrying, silent, swallowed>>
    BY <1>6 DEF RefuseMedia, EndedMedia
  <2>2. mediaWork'.step # "claimed" BY <2>1 DEF MediaIdle
  <2>3. CASE r \in DOMAIN mediaRecords
    <3>1. mediaRecords[r].attempts \in 0..MediaAttempts BY <1>1, <2>3 DEF MediaRowsTrue, MediaRow
    <3>2. row \in MediaRow /\ row.status # "synced" BY <3>1 DEF MediaRow
    <3> HIDE DEF row, r
    <3> QED BY <2>1, <2>2, <3>2, RecordEnds
  <2>4. CASE r \notin DOMAIN mediaRecords
    <3>1. mediaRecords' = mediaRecords BY <1>1, <2>1, <2>4 DEF MediaRowsTrue
    <3> QED
      BY <2>1, <2>2, <3>1 DEF MediaInv, MediaRowsTrue, RetryTrue, OpenWhileDirty, MadeWhenDirty
  <2> QED BY <2>3, <2>4
<1>7. CASE PutMedia
  <2> DEFINE left == IF shots.version = mediaWork.sends THEN "clean" ELSE shots.needs
             vs == OpenNow \cup {mediaWork.record}
             recs == ClosedMedia(mediaRecords, vs)
  <2>1. /\ shots' = [version |-> shots.version + 1, needs |-> left]
        /\ mediaRecords' = ClosedMedia(mediaRecords, vs)
        /\ swallowed' = (left # "clean") /\ mediaWork' = MediaIdle /\ retrying' = retrying
    BY <1>7 DEF PutMedia
  <2>2. DOMAIN recs = DOMAIN mediaRecords /\ recs \in [DOMAIN recs -> MediaRow]
    BY <1>1, RecordsClosed DEF MediaRowsTrue
  <2> HIDE DEF recs, vs
  <2>3. shots'.version = shots.version + 1 /\ shots'.needs = left /\ shots' \in Shots
    <3>1. left \in MediaNeeds /\ shots.version + 1 \in Nat BY <1>1 DEF Shots, MediaNeeds
    <3> HIDE DEF left
    <3> QED BY <2>1, <3>1 DEF Shots
  <2>4. mediaRecords' = recs /\ mediaWork'.step # "claimed" BY <2>1 DEF recs, MediaIdle
  <2>5. shots'.version \notin DOMAIN mediaRecords BY <1>1, <2>3 DEF MediaRowsTrue
  <2>6. MediaRowsTrue' BY <1>1, <2>2, <2>3, <2>4 DEF MediaRowsTrue
  <2>7. RetryTrue' BY <1>1, <2>1, <2>2, <2>3, <2>4 DEF MediaInv, RetryTrue
  <2>8. swallowed' = (left # "clean") BY <2>1
  <2> HIDE DEF left
  <2> QED BY <2>2, <2>3, <2>4, <2>5, <2>6, <2>7, <2>8 DEF MediaInv, OpenWhileDirty, MadeWhenDirty
<1> QED BY <1>2, <1>3, <1>4, <1>5, <1>6, <1>7

LEMMA RetryKeeps ==
  ASSUME MediaInv, BeginRetry \/ EndRetry
  PROVE  MediaInv'
<1> USE MediaQueueAssumption
<1>1. shots \in Shots /\ shots.version \in Nat /\ MediaRowsTrue
  BY DEF MediaInv, MediaRowsTrue, Shots
<1>2. CASE BeginRetry
  <2> DEFINE v == shots.version
             seen == IF v \in DOMAIN mediaRecords THEN mediaRecords[v].status ELSE "none"
  <2>1. /\ retrying' = [step |-> "listed", current |-> v, stale |-> StaleFailures(v), seen |-> seen]
        /\ UNCHANGED <<shots, mediaRecords, mediaWork, silent, swallowed>>
    BY <1>2 DEF BeginRetry
  <2>2. \A u \in StaleFailures(v) : u < v BY <1>1 DEF StaleFailures, MediaRowsTrue
  <2>3. seen # "none" => v \in DOMAIN mediaRecords OBVIOUS
  <2>4. v \in 0..v BY <1>1
  <2> HIDE DEF seen
  <2>5. RetryTrue' BY <2>1, <2>2, <2>3, <2>4 DEF RetryTrue
  <2> QED BY <2>1, <2>5 DEF MediaInv, MediaRowsTrue, OpenWhileDirty, MadeWhenDirty
<1>3. CASE EndRetry
  <2> DEFINE c == retrying.current
             recs == RetryQueued
             closed == ClosedMedia(recs, retrying.stale)
  <2>1. /\ c \in 0..shots.version /\ \A u \in retrying.stale : u < c
        /\ retrying.seen # "none" => c \in DOMAIN mediaRecords
    BY <1>3 DEF EndRetry, MediaInv, RetryTrue
  <2>2. retrying' = MediaIdle /\ UNCHANGED <<shots, mediaWork>> /\ retrying'.step # "listed"
    BY <1>3 DEF EndRetry, MediaIdle
  <2>3. CASE UNCHANGED <<mediaRecords, silent, swallowed>>
    BY <2>2, <2>3 DEF MediaInv, MediaRowsTrue, RetryTrue, OpenWhileDirty, MadeWhenDirty
  <2>4. CASE ~(retrying.seen = "none" /\ c \in DOMAIN mediaRecords)
    <3>1. /\ mediaRecords' = ClosedMedia(RetryQueued, retrying.stale)
          /\ IF c = shots.version /\ retrying.seen \in {"none", "failed"}
             THEN silent' = FALSE /\ swallowed' = FALSE ELSE UNCHANGED <<silent, swallowed>>
      BY <1>3, <2>4 DEF EndRetry
    <3>2. Pending \in MediaRow /\ Pending.status # "synced" BY DEF Pending, MediaRow
    <3>3. /\ DOMAIN mediaRecords \subseteq DOMAIN recs /\ DOMAIN recs \subseteq DOMAIN mediaRecords \cup {c}
          /\ recs \in [DOMAIN recs -> MediaRow]
          /\ \A u \in DOMAIN recs : recs[u] = Pending \/ (u \in DOMAIN mediaRecords /\ recs[u] = mediaRecords[u])
          /\ retrying.seen \in {"none", "failed"} => c \in DOMAIN recs
      <4>1. mediaRecords \in [DOMAIN mediaRecords -> MediaRow] BY <1>1 DEF MediaRowsTrue
      <4>2. CASE retrying.seen = "none"
        <5>1. recs = [v \in DOMAIN mediaRecords \cup {c} |-> IF v = c THEN Pending ELSE mediaRecords[v]]
          BY <4>2 DEF RetryQueued
        <5> QED BY <3>2, <4>1, <5>1
      <4>3. CASE retrying.seen = "failed"
        <5>1. recs = [mediaRecords EXCEPT ![c] = Pending] /\ c \in DOMAIN mediaRecords
          BY <2>1, <4>3 DEF RetryQueued
        <5> HIDE DEF recs, c
        <5> QED BY <3>2, <4>1, <5>1
      <4>4. CASE retrying.seen \notin {"none", "failed"}
        <5>1. recs = mediaRecords BY <4>4 DEF RetryQueued
        <5> QED BY <4>1, <4>4, <5>1
      <4> QED BY <4>2, <4>3, <4>4
    <3> HIDE DEF recs
    <3>4. /\ DOMAIN closed = DOMAIN recs /\ closed \in [DOMAIN closed -> MediaRow]
          /\ \A u \in DOMAIN recs \ retrying.stale : closed[u] = recs[u]
      BY <3>3, RecordsClosed
    <3>5. mediaRecords' = closed BY <3>1 DEF recs
    <3> HIDE DEF closed
    <3>6. shots.version \notin retrying.stale BY <1>1, <2>1
    <3>7. MediaRowsTrue' BY <1>1, <2>1, <2>2, <3>3, <3>4, <3>5 DEF MediaRowsTrue
    <3>8. OpenWhileDirty' BY <2>2, <3>2, <3>3, <3>4, <3>5, <3>6 DEF MediaInv, OpenWhileDirty
    <3>9. MadeWhenDirty' BY <2>2, <3>1, <3>3, <3>4, <3>5 DEF MediaInv, MadeWhenDirty
    <3> QED BY <2>2, <3>7, <3>8, <3>9 DEF MediaInv, RetryTrue
  <2> QED BY <1>3, <2>3, <2>4 DEF EndRetry
<1> QED BY <1>2, <1>3

LEMMA MediaStep ==
  ASSUME MediaInv, [MediaQueueNext]_mediaQueueVars
  PROVE  MediaInv'
<1>1. CASE UNCHANGED mediaQueueVars
  BY <1>1 DEF mediaQueueVars, MediaInv, MediaRowsTrue, RetryTrue, OpenWhileDirty, MadeWhenDirty
<1> QED BY <1>1, QueueingKeeps, WorkKeeps, RetryKeeps DEF MediaQueueNext

LEMMA MediaMeans ==
  ASSUME MediaInv
  PROVE  MediaQueueTypeOK /\ MediaQueueSound
<1>1. MediaQueueTypeOK BY DEF MediaInv, MediaRowsTrue, MediaQueueTypeOK, MediaRow
<1>2. ASSUME shots.needs # "clean", ~silent, ~swallowed
      PROVE  shots.version \in OpenNow
  <2>1. shots.version \in DOMAIN mediaRecords /\ mediaRecords[shots.version].status # "synced"
    BY <1>2 DEF MediaInv, OpenWhileDirty, MadeWhenDirty
  <2>2. mediaRecords[shots.version] \in MediaRow BY <2>1 DEF MediaInv, MediaRowsTrue
  <2> QED BY <2>1, <2>2 DEF OpenNow, OpenMedia, MediaRow
<1> QED BY <1>1, <1>2 DEF MediaQueueSound, UnsentIsTold

(* Images that the store does not have are waiting, being sent or on the list of failures, *)
(* but for what UnsentIsTold names, whatever retries, edits and pushes overlap *)
(* (enqueue_product_media_sync, retry_failed_product_media_sync). *)
THEOREM MediaQueueTrue == MediaQueueSpec => [](MediaQueueTypeOK /\ MediaQueueSound)
<1>1. MediaQueueInit => MediaInv BY MediaStart
<1>2. MediaInv /\ [MediaQueueNext]_mediaQueueVars => MediaInv' BY MediaStep
<1>3. MediaInv => MediaQueueTypeOK /\ MediaQueueSound BY MediaMeans
<1> QED BY <1>1, <1>2, <1>3, PTL DEF MediaQueueSpec

--------------------
\* ProductImages: what is made of a row is shown once.
MediaIn(some) == {some[r].media : r \in DOMAIN some}
CachedMedia == IF imagePush = NoPush THEN {} ELSE MediaIn(imagePush.cached)
Fetched == IF imagePush = NoPush THEN {} ELSE imagePush.fetched

\* The attachments made of a row that the store shows, or may show again.
MadeOf(r) == {m \in MediaIds : madeFrom[m] = r}
InRows == MediaIn(images) \cup MediaIn(form) \cup CachedMedia
InStore == gallery \cup Fetched
Held(r) == MadeOf(r) \cap (InStore \cup InRows)

\* One more may be made of the row, ...
MayMake(r) == Cardinality(Held(r)) <= doubled[r]
\* ... or there is one that the row is found for by its URL.
FoundByUrl(r) == \E m \in MadeOf(r) \cap sameUrl \cap InStore : m \notin InRows

ImageRow == Image \cup {NoImage}
RowsOk(some) == \A r \in DOMAIN some :
  some[r].status = "pending_remove" => some[r].media # 0

ImageRowsTrue ==
  /\ images \in [ImageRows -> ImageRow] /\ gallery \subseteq MediaIds
  /\ madeFrom \in [MediaIds -> ImageRows \cup {Staff, NotMade}] /\ sameUrl \subseteq MediaIds
  /\ form \in [DOMAIN form -> Image] /\ DOMAIN form \subseteq ImageRows
  /\ hook \subseteq MediaIds /\ doubled \in [ImageRows -> Nat]
  /\ \/ imagePush = NoPush
     \/ imagePush \in [phase: {"building", "answered"},
                       cached: [ImageRows -> ImageRow], fetched: SUBSET MediaIds]
  /\ RowsOk(images) /\ RowsOk(form)
  /\ imagePush # NoPush => RowsOk(imagePush.cached)

\* Whatever is known was made; during a push only the store's staff adds to the gallery.
AllMade == \A m \in MediaIds \cap (InStore \cup InRows \cup hook \cup sameUrl) :
  madeFrom[m] # NotMade
FetchedAll == imagePush # NoPush => \A m \in gallery \ imagePush.fetched : madeFrom[m] = Staff

MadeOnce == \A r \in ImageRows : Cardinality(Held(r)) <= 1 + doubled[r]
RowsFree == \A r \in ImageRows :
  Exists(images, r) /\ images[r].media = 0 => MayMake(r) \/ FoundByUrl(r)
\* What a push has cached, and may send as new.
PushFree == imagePush # NoPush => \A r \in ImageRows : Exists(imagePush.cached, r) =>
  /\ imagePush.cached[r].media # 0 /\ Exists(images, r) /\ images[r].media = 0 => MayMake(r)
  /\ imagePush.phase = "building" /\ imagePush.cached[r].media = 0
       => MayMake(r) \/ \E m \in MadeOf(r) \cap sameUrl \cap imagePush.fetched :
                       m \notin MediaIn(imagePush.cached)

\* What is marked for removal and was the store's own was taken off by an operator.
Marked(some) == \A r \in DOMAIN some : \A m \in MediaIds :
  some[r].status = "pending_remove" /\ some[r].media = m /\ madeFrom[m] = Staff
    => m \in takenOff \cup unshown
MarkedTaken == Marked(images) /\ (imagePush # NoPush => Marked(imagePush.cached))

ImagesInv == /\ ImageRowsTrue /\ AllMade /\ FetchedAll /\ MadeOnce /\ RowsFree /\ PushFree
             /\ MarkedTaken /\ Distinct(images) /\ StoreImagesKept

--------------------
(* No row bears the marks of an attachment, and NoImage is none. *)
LEMMA ImageMarks ==
  /\ NoImage \notin Image /\ NoImage.status = "none" /\ NoImage.media = 0 /\ NoImage.url = "none"
  /\ Staff \notin ImageRows /\ NotMade \notin ImageRows /\ Staff # NotMade
  /\ 0 \notin MediaIds /\ NoPush.phase = "idle" /\ DOMAIN NoForm = {}
  /\ \A i \in Image : i.status \in ImageStatuses /\ i.media \in MediaIds \cup {0} /\ i.url \in Urls
BY ImagesAssumption DEF NoImage, Image, ImageStatuses, Staff, NotMade, NoPush, NoForm, Urls

(* A set of ids as large as another has a member for each of its. *)
LEMMA NumberInjects ==
  ASSUME NEW S, NEW ids, IsFiniteSet(S), IsFiniteSet(ids), Cardinality(S) <= Cardinality(ids)
  PROVE  /\ Number(S, ids) \in [S -> ids]
         /\ \A x, y \in S : Number(S, ids)[x] = Number(S, ids)[y] => x = y
<1>1. ExistsBijection(1..Cardinality(S), S) /\ Cardinality(S) \in Nat BY FS_CardinalityType
<1>2. ExistsBijection(1..Cardinality(ids), ids) /\ Cardinality(ids) \in Nat BY FS_CardinalityType
<1>3. ExistsInjection(1..Cardinality(S), 1..Cardinality(ids)) BY <1>1, <1>2, Fun_NatInjLeq
<1>4. ExistsInjection(S, 1..Cardinality(S)) BY <1>1, Fun_ExistsBijEquiv
<1>5. ExistsInjection(1..Cardinality(ids), ids) BY <1>2, Fun_ExistsBijEquiv
<1>6. ExistsInjection(S, ids) BY <1>3, <1>4, <1>5, Fun_ExistsInjTransitive
<1>7. Injection(S, ids) # {} BY <1>6 DEF ExistsInjection
<1>8. Number(S, ids) \in Injection(S, ids) BY <1>7 DEF Number
<1> QED BY <1>8 DEF Injection, IsInjective

(* What is made of a row and still known is so many. *)
LEMMA HeldCounts ==
  ASSUME NEW r
  PROVE  /\ IsFiniteSet(MadeOf(r)) /\ IsFiniteSet(Held(r)) /\ Cardinality(Held(r)) \in Nat
         /\ Held(r) \subseteq MadeOf(r) /\ MadeOf(r) \subseteq MediaIds
<1>1. MadeOf(r) \subseteq MediaIds /\ Held(r) \subseteq MediaIds /\ Held(r) \subseteq MadeOf(r)
  BY DEF MadeOf, Held
<1>2. IsFiniteSet(MadeOf(r)) /\ IsFiniteSet(Held(r)) BY <1>1, ImagesAssumption, FS_Subset
<1> QED BY <1>1, <1>2, FS_CardinalityType

(* Where less of a row is known than before, or one more for one more upload, ... *)
LEMMA LessHeld ==
  ASSUME NEW r \in ImageRows, doubled[r] \in Nat, doubled'[r] \in Nat, doubled[r] <= doubled'[r],
         Held(r)' \subseteq Held(r)
  PROVE  /\ MayMake(r) => MayMake(r)'
         /\ Cardinality(Held(r)) <= 1 + doubled[r] => Cardinality(Held(r)') <= 1 + doubled'[r]
         /\ Cardinality(Held(r)) <= 1 + doubled[r] /\ doubled'[r] = doubled[r] + 1 => MayMake(r)'
<1>1. Cardinality(Held(r)') \in Nat /\ Cardinality(Held(r)') <= Cardinality(Held(r))
  BY HeldCounts, FS_Subset, FS_CardinalityType
<1>2. Cardinality(Held(r)) \in Nat BY HeldCounts
<1> HIDE DEF Held
<1> QED BY <1>1, <1>2 DEF MayMake

LEMMA OneMoreHeld ==
  ASSUME NEW r \in ImageRows, doubled[r] \in Nat, doubled'[r] \in Nat, doubled[r] <= doubled'[r],
         NEW m, Held(r)' \subseteq Held(r) \cup {m}, MayMake(r)
  PROVE  /\ Cardinality(Held(r)') <= 1 + doubled'[r]
         /\ doubled'[r] = doubled[r] + 1 => MayMake(r)'
<1>1. /\ IsFiniteSet(Held(r) \cup {m})
      /\ Cardinality(Held(r) \cup {m}) = Cardinality(Held(r))
           \/ Cardinality(Held(r) \cup {m}) = Cardinality(Held(r)) + 1
  BY HeldCounts, FS_AddElement
<1>2. Cardinality(Held(r)') \in Nat /\ Cardinality(Held(r)') <= Cardinality(Held(r) \cup {m})
  BY <1>1, FS_Subset, FS_CardinalityType
<1>3. Cardinality(Held(r)) \in Nat BY HeldCounts
<1>4. Cardinality(Held(r)') <= Cardinality(Held(r)) + 1 BY <1>1, <1>2, <1>3
<1> QED BY <1>2, <1>3, <1>4 DEF MayMake

(* ... an attachment the row is found by stays, or one more may be made. *)
LEMMA FoundStays ==
  ASSUME NEW r \in ImageRows, doubled[r] \in Nat, doubled'[r] \in Nat, doubled[r] <= doubled'[r],
         Cardinality(Held(r)) <= 1 + doubled[r], Held(r)' \subseteq Held(r),
         MadeOf(r) \subseteq MadeOf(r)', sameUrl \subseteq sameUrl',
         NEW m \in MadeOf(r) \cap sameUrl \cap InStore, m \notin InRows'
  PROVE  MayMake(r)' \/ FoundByUrl(r)'
<1>1. CASE m \in InStore' BY <1>1 DEF FoundByUrl
<1>2. CASE m \notin InStore'
  <2>1. m \in Held(r) /\ Held(r)' \subseteq Held(r) \ {m} BY <1>2 DEF Held
  <2>2. IsFiniteSet(Held(r) \ {m}) /\ Cardinality(Held(r) \ {m}) = Cardinality(Held(r)) - 1
    BY <2>1, HeldCounts, FS_RemoveElement
  <2>3. Cardinality(Held(r)') \in Nat /\ Cardinality(Held(r)') <= Cardinality(Held(r) \ {m})
    BY <2>1, <2>2, FS_Subset, FS_CardinalityType
  <2>4. Cardinality(Held(r)) \in Nat BY HeldCounts
  <2> HIDE DEF Held
  <2> QED BY <2>2, <2>3, <2>4 DEF MayMake
<1> QED BY <1>1, <1>2

(* A row that was never an attachment may become one. *)
LEMMA FreshFree ==
  ASSUME NEW r \in FreshRows, doubled[r] \in Nat
  PROVE  /\ r \in ImageRows /\ ~Exists(images, r) /\ r \notin DOMAIN form
         /\ imagePush # NoPush => ~Exists(imagePush.cached, r)
         /\ MadeOf(r) = {} /\ MayMake(r)
<1>1. MadeOf(r) = {} BY DEF MadeOf, FreshRows
<1>2. Held(r) = {} BY <1>1 DEF Held
<1>3. MayMake(r) BY <1>2, FS_EmptySet DEF MayMake
<1> QED BY <1>1, <1>3 DEF FreshRows

\* What is made stays made of what it was.
MadeStays == \A m \in MediaIds : madeFrom'[m] = madeFrom[m] \/ madeFrom[m] = NotMade

(* Of a row no more is known than before, but for what is new. *)
LEMMA StillMade ==
  ASSUME ImageRowsTrue, AllMade, MadeStays, NEW r \in ImageRows, NEW New,
         (InStore \cup InRows)' \subseteq InStore \cup InRows \cup New
  PROVE  /\ MadeOf(r) \subseteq MadeOf(r)' /\ Held(r)' \subseteq Held(r) \cup (New \cap MadeOf(r)')
<1>1. MadeOf(r) \subseteq MadeOf(r)' BY ImageMarks DEF MadeOf, MadeStays
<1>2. ASSUME NEW m \in Held(r)', m \notin New
      PROVE  m \in Held(r)
  <2>1. m \in MediaIds /\ madeFrom'[m] = r /\ m \in InStore \cup InRows BY <1>2 DEF Held, MadeOf
  <2>2. madeFrom[m] # NotMade BY <2>1 DEF AllMade
  <2> QED BY <2>1, <2>2 DEF MadeStays, Held, MadeOf
<1> QED BY <1>1, <1>2 DEF Held

(* Where only attachments that are not the row's come to be known, the row keeps its place. *)
LEMMA StillFree ==
  ASSUME ImageRowsTrue, AllMade, MadeOnce, MadeStays, NEW r \in ImageRows,
         doubled'[r] \in Nat, doubled[r] <= doubled'[r], sameUrl \subseteq sameUrl',
         NEW Others, Others \cap MadeOf(r)' = {},
         (InStore \cup InRows)' \subseteq InStore \cup InRows \cup Others,
         InRows' \subseteq InRows \cup Others
  PROVE  /\ Cardinality(Held(r)') <= 1 + doubled'[r]
         /\ MayMake(r) => MayMake(r)'
         /\ MayMake(r) \/ FoundByUrl(r) => MayMake(r)' \/ FoundByUrl(r)'
         /\ doubled'[r] = doubled[r] + 1 => MayMake(r)'
<1>1. doubled[r] \in Nat /\ Cardinality(Held(r)) <= 1 + doubled[r] BY DEF ImageRowsTrue, MadeOnce
<1>2. MadeOf(r) \subseteq MadeOf(r)' /\ Held(r)' \subseteq Held(r) BY StillMade
<1>3. FoundByUrl(r) => MayMake(r)' \/ FoundByUrl(r)'
  <2> SUFFICES ASSUME NEW m \in MadeOf(r) \cap sameUrl \cap InStore, m \notin InRows
               PROVE  MayMake(r)' \/ FoundByUrl(r)'
    BY DEF FoundByUrl
  <2>1. m \notin InRows' BY <1>2
  <2> QED BY <1>1, <1>2, <2>1, FoundStays
<1> QED BY <1>1, <1>2, <1>3, LessHeld

(* A push that ends leaves what it has made. *)
LEMMA PushEnds ==
  ASSUME ImagesInv, imagePush' = NoPush, MadeStays,
         madeFrom' \in [MediaIds -> ImageRows \cup {Staff, NotMade}],
         \A m \in MediaIds : madeFrom'[m] = Staff => madeFrom[m] = Staff,
         \A m \in MediaIds : madeFrom'[m] = NotMade => madeFrom[m] = NotMade,
         doubled' \in [ImageRows -> Nat], \A r \in ImageRows : doubled[r] <= doubled'[r],
         UNCHANGED <<images, gallery, sameUrl, form, hook, takenOff, unshown, pushedOut>>
  PROVE  ImagesInv'
<1>1. /\ InStore' \subseteq InStore /\ InRows' \subseteq InRows
      /\ (InStore \cup InRows)' \subseteq InStore \cup InRows
  BY DEF InStore, InRows, Fetched, CachedMedia
<1>2. ImageRowsTrue' BY DEF ImagesInv, ImageRowsTrue
<1>3. AllMade' BY <1>1 DEF ImagesInv, AllMade
<1>4. FetchedAll' /\ PushFree' BY DEF FetchedAll, PushFree
<1>5. \A r \in ImageRows : /\ Cardinality(Held(r)') <= 1 + doubled'[r]
                           /\ MayMake(r) \/ FoundByUrl(r) => MayMake(r)' \/ FoundByUrl(r)'
  <2> TAKE r \in ImageRows
  <2>1. doubled'[r] \in Nat /\ doubled[r] <= doubled'[r] /\ sameUrl \subseteq sameUrl' OBVIOUS
  <2>2. /\ (InStore \cup InRows)' \subseteq InStore \cup InRows \cup {}
        /\ InRows' \subseteq InRows \cup {} /\ {} \cap MadeOf(r)' = {}
    BY <1>1
  <2> QED BY <2>1, <2>2, StillFree DEF ImagesInv
<1>6. MadeOnce' /\ RowsFree' BY <1>5 DEF ImagesInv, MadeOnce, RowsFree
<1>7. MarkedTaken' /\ Distinct(images)' /\ StoreImagesKept'
  BY DEF ImagesInv, MarkedTaken, Marked, StoreImagesKept
<1> QED BY <1>2, <1>3, <1>4, <1>6, <1>7 DEF ImagesInv

LEMMA PushTyped ==
  ASSUME ImageRowsTrue, imagePush # NoPush
  PROVE  /\ imagePush.phase \in {"building", "answered"} /\ imagePush.fetched \subseteq MediaIds
         /\ imagePush.cached \in [ImageRows -> ImageRow] /\ RowsOk(imagePush.cached)
BY DEF ImageRowsTrue

(* What a push may send as new stays so while it waits. *)
LEMMA StillPushFree ==
  ASSUME ImageRowsTrue, PushFree, MadeStays, imagePush' = imagePush, sameUrl \subseteq sameUrl',
         \A r \in ImageRows : MayMake(r) => MayMake(r)',
         imagePush # NoPush =>
           \A r \in ImageRows : /\ Exists(imagePush.cached, r)
                                /\ Exists(images', r) /\ images'[r].media = 0
             => (Exists(images, r) /\ images[r].media = 0) \/ MayMake(r)'
  PROVE  PushFree'
<1> SUFFICES ASSUME imagePush # NoPush, NEW r \in ImageRows, Exists(imagePush.cached, r)
             PROVE  /\ imagePush.cached[r].media # 0 /\ Exists(images', r) /\ images'[r].media = 0
                         => MayMake(r)'
                    /\ imagePush.phase = "building" /\ imagePush.cached[r].media = 0
                         => MayMake(r)' \/ \E m \in MadeOf(r)' \cap sameUrl' \cap imagePush.fetched :
                                          m \notin MediaIn(imagePush.cached)
  BY DEF PushFree
<1>1. MadeOf(r) \subseteq MadeOf(r)' BY ImageMarks DEF MadeOf, MadeStays
<1> QED BY <1>1 DEF PushFree

(* Rows the store does not know yet keep their place while others come. *)
LEMMA StillRowsFree ==
  ASSUME RowsFree,
         \A r \in ImageRows : MayMake(r) \/ FoundByUrl(r) => MayMake(r)' \/ FoundByUrl(r)',
         \A r \in ImageRows : Exists(images', r) /\ images'[r].media = 0
           => (Exists(images, r) /\ images[r].media = 0) \/ MayMake(r)' \/ FoundByUrl(r)'
  PROVE  RowsFree'
BY DEF RowsFree

LEMMA RowsStand ==
  ASSUME ImagesInv, images' = images, MadeStays, sameUrl \subseteq sameUrl',
         \A r \in ImageRows : MayMake(r) => MayMake(r)',
         \A r \in ImageRows : MayMake(r) \/ FoundByUrl(r) => MayMake(r)' \/ FoundByUrl(r)'
  PROVE  RowsFree' /\ (imagePush' = imagePush => PushFree')
<1>1. ImageRowsTrue /\ PushFree /\ RowsFree BY DEF ImagesInv
<1>2. RowsFree' BY <1>1, StillRowsFree
<1>3. imagePush' = imagePush => PushFree' BY <1>1, StillPushFree
<1> QED BY <1>2, <1>3

LEMMA StaffAddsStep ==
  ASSUME ImagesInv, StaffAdds
  PROVE  ImagesInv'
<1>1. PICK m \in NewMedia :
        /\ madeFrom' = [madeFrom EXCEPT ![m] = Staff] /\ gallery' = gallery \cup {m}
        /\ UNCHANGED <<images, sameUrl, form, imagePush, hook, doubled, takenOff, unshown, pushedOut>>
  BY DEF StaffAdds
<1>2. /\ m \in MediaIds /\ madeFrom[m] = NotMade /\ m \notin InStore \cup InRows
      /\ madeFrom' \in [MediaIds -> ImageRows \cup {Staff, NotMade}] /\ madeFrom'[m] = Staff
      /\ \A n \in MediaIds \ {m} : madeFrom'[n] = madeFrom[n]
  BY <1>1 DEF ImagesInv, ImageRowsTrue, NewMedia, AllMade
<1>3. /\ InStore' = InStore \cup {m} /\ InRows' = InRows
      /\ (InStore \cup InRows)' \subseteq InStore \cup InRows \cup {m}
  BY <1>1 DEF InStore, InRows, Fetched, CachedMedia
<1>4. MadeStays BY <1>2 DEF MadeStays
<1>5. \A r \in ImageRows : /\ Cardinality(Held(r)') <= 1 + doubled'[r]
                           /\ MayMake(r) => MayMake(r)'
                           /\ MayMake(r) \/ FoundByUrl(r) => MayMake(r)' \/ FoundByUrl(r)'
  <2> TAKE r \in ImageRows
  <2>1. doubled'[r] \in Nat /\ doubled[r] <= doubled'[r] /\ sameUrl \subseteq sameUrl'
    BY <1>1 DEF ImagesInv, ImageRowsTrue
  <2>2. {m} \cap MadeOf(r)' = {} BY <1>2, ImageMarks DEF MadeOf
  <2> QED BY <1>3, <1>4, <2>1, <2>2, StillFree DEF ImagesInv
<1>6. ImageRowsTrue' BY <1>1, <1>2 DEF ImagesInv, ImageRowsTrue
<1>7. AllMade' BY <1>1, <1>2, <1>3, ImageMarks DEF ImagesInv, AllMade
<1>8. FetchedAll'
  <2>1. ASSUME imagePush # NoPush, NEW n \in gallery \cup {m}, n \notin imagePush.fetched
        PROVE  madeFrom'[n] = Staff
    BY <1>2, <2>1 DEF ImagesInv, FetchedAll, ImageRowsTrue
  <2> QED BY <1>1, <2>1 DEF FetchedAll
<1>9. MadeOnce' BY <1>5 DEF MadeOnce
<1>10. RowsFree' /\ PushFree' BY <1>1, <1>4, <1>5, RowsStand
<1>11. \A n \in MediaIds \cap InRows : madeFrom'[n] = Staff => madeFrom[n] = Staff BY <1>2
<1>12. Marked(images)' /\ (imagePush # NoPush => Marked(imagePush.cached)')
  <2>1. ASSUME NEW r \in DOMAIN images
        PROVE  images[r].media \in InRows
    BY DEF InRows, MediaIn
  <2>2. ASSUME imagePush # NoPush, NEW r \in DOMAIN imagePush.cached
        PROVE  imagePush.cached[r].media \in InRows
    BY <2>2 DEF InRows, MediaIn, CachedMedia
  <2> QED BY <1>1, <1>11, <2>1, <2>2 DEF ImagesInv, MarkedTaken, Marked
<1>13. MarkedTaken' /\ Distinct(images)' /\ StoreImagesKept'
  BY <1>1, <1>12 DEF ImagesInv, StoreImagesKept, Distinct, MarkedTaken
<1> QED BY <1>6, <1>7, <1>8, <1>9, <1>10, <1>13 DEF ImagesInv

(* A step that tells nothing new of any attachment, and loses no row its place. *)
LEMMA NothingNew ==
  ASSUME ImagesInv, UNCHANGED <<madeFrom, sameUrl, doubled>>,
         InStore' \subseteq InStore, InRows' \subseteq InRows \cup {0}
  PROVE  /\ MadeStays /\ MadeOnce'
         /\ \A r \in ImageRows : /\ MayMake(r) => MayMake(r)'
                                 /\ MayMake(r) \/ FoundByUrl(r) => MayMake(r)' \/ FoundByUrl(r)'
<1>1. MadeStays BY DEF MadeStays
<1>2. (InStore \cup InRows)' \subseteq InStore \cup InRows \cup {0} OBVIOUS
<1>3. \A r \in ImageRows : /\ Cardinality(Held(r)') <= 1 + doubled'[r]
                           /\ MayMake(r) => MayMake(r)'
                           /\ MayMake(r) \/ FoundByUrl(r) => MayMake(r)' \/ FoundByUrl(r)'
  <2> TAKE r \in ImageRows
  <2>1. doubled'[r] \in Nat /\ doubled[r] <= doubled'[r] /\ sameUrl \subseteq sameUrl'
    BY DEF ImagesInv, ImageRowsTrue
  <2>2. {0} \cap MadeOf(r)' = {} BY ImageMarks DEF MadeOf
  <2> QED BY <1>1, <1>2, <2>1, <2>2, StillFree DEF ImagesInv
<1> QED BY <1>1, <1>3 DEF MadeOnce

LEMMA StaffRemovesStep ==
  ASSUME ImagesInv, StaffRemoves \/ SendHook
  PROVE  ImagesInv'
<1>1. /\ gallery' \subseteq gallery /\ hook' \subseteq hook \cup gallery
      /\ UNCHANGED <<images, madeFrom, sameUrl, form, imagePush, doubled, takenOff, unshown, pushedOut>>
  BY DEF StaffRemoves, SendHook
<1>2. InStore' \subseteq InStore /\ InRows' = InRows /\ gallery \subseteq InStore
  BY <1>1 DEF InStore, InRows, Fetched, CachedMedia
<1>3. /\ MadeStays /\ MadeOnce'
      /\ \A r \in ImageRows : /\ MayMake(r) => MayMake(r)'
                              /\ MayMake(r) \/ FoundByUrl(r) => MayMake(r)' \/ FoundByUrl(r)'
  BY <1>1, <1>2, NothingNew
<1>4. ImageRowsTrue' BY <1>1 DEF ImagesInv, ImageRowsTrue
<1>5. AllMade' BY <1>1, <1>2 DEF ImagesInv, AllMade
<1>6. FetchedAll' BY <1>1 DEF ImagesInv, FetchedAll
<1>8. RowsFree' /\ PushFree' BY <1>1, <1>3, RowsStand
<1>9. MarkedTaken' /\ Distinct(images)' /\ StoreImagesKept'
  BY <1>1 DEF ImagesInv, MarkedTaken, Marked, StoreImagesKept, Distinct
<1> QED BY <1>3, <1>4, <1>5, <1>6, <1>8, <1>9 DEF ImagesInv

LEMMA OpenFormStep ==
  ASSUME ImagesInv, OpenForm
  PROVE  ImagesInv'
<1>1. /\ form = NoForm /\ form' = [r \in Shown(images) |-> images[r]]
      /\ UNCHANGED <<images, gallery, madeFrom, sameUrl, imagePush, hook, doubled, takenOff,
                     unshown, pushedOut>>
  BY DEF OpenForm, Restrict, Shown, ImagesInv, ImageRowsTrue
<1>2. MediaIn(form') \subseteq MediaIn(images) BY <1>1 DEF MediaIn, Shown, ImagesInv, ImageRowsTrue
<1>3. InStore' = InStore /\ InRows' \subseteq InRows
  BY <1>1, <1>2 DEF InStore, InRows, Fetched, CachedMedia
<1>4. /\ MadeStays /\ MadeOnce'
      /\ \A r \in ImageRows : /\ MayMake(r) => MayMake(r)'
                              /\ MayMake(r) \/ FoundByUrl(r) => MayMake(r)' \/ FoundByUrl(r)'
  BY <1>1, <1>3, NothingNew
<1>5. ImageRowsTrue'
  <2>1. /\ DOMAIN form' = Shown(images) /\ Shown(images) \subseteq ImageRows
        /\ \A r \in Shown(images) : images[r] \in Image /\ form'[r] = images[r]
    BY <1>1 DEF Shown, Exists, ImagesInv, ImageRowsTrue, ImageRow
  <2>2. form' \in [Shown(images) -> Image] BY <1>1, <2>1
  <2>3. RowsOk(form)' BY <2>1 DEF RowsOk, Shown
  <2> QED BY <1>1, <2>1, <2>2, <2>3 DEF ImagesInv, ImageRowsTrue, RowsOk
<1>6. AllMade' /\ FetchedAll' BY <1>1, <1>3 DEF ImagesInv, AllMade, FetchedAll
<1>8. RowsFree' /\ PushFree' BY <1>1, <1>4, RowsStand
<1>9. MarkedTaken' /\ Distinct(images)' /\ StoreImagesKept'
  BY <1>1 DEF ImagesInv, MarkedTaken, Marked, StoreImagesKept, Distinct
<1> QED BY <1>4, <1>5, <1>6, <1>8, <1>9 DEF ImagesInv

LEMMA FetchGalleryStep ==
  ASSUME ImagesInv, FetchGallery
  PROVE  ImagesInv'
<1>1. /\ imagePush = NoPush
      /\ imagePush' = [phase |-> "building", cached |-> images, fetched |-> gallery]
      /\ UNCHANGED <<images, gallery, madeFrom, sameUrl, form, hook, doubled, takenOff, unshown,
                     pushedOut>>
  BY DEF FetchGallery
<1>2. /\ imagePush' # NoPush /\ imagePush'.phase = "building" /\ imagePush'.cached = images
      /\ imagePush'.fetched = gallery
  <2>1. imagePush'.phase # NoPush.phase BY <1>1, ImageMarks
  <2> QED BY <1>1, <2>1
<1>3. InStore' = InStore /\ InRows' = InRows BY <1>1, <1>2 DEF InStore, InRows, Fetched, CachedMedia
<1>4. /\ MadeStays /\ MadeOnce'
      /\ \A r \in ImageRows : /\ MayMake(r) => MayMake(r)'
                              /\ MayMake(r) \/ FoundByUrl(r) => MayMake(r)' \/ FoundByUrl(r)'
  BY <1>1, <1>3, NothingNew
<1>5. ImageRowsTrue' BY <1>1, <1>2 DEF ImagesInv, ImageRowsTrue, RowsOk
<1>6. AllMade' BY <1>1, <1>3 DEF ImagesInv, AllMade
<1>7. FetchedAll' BY <1>1, <1>2 DEF FetchedAll
<1>8. RowsFree' BY <1>1, <1>4, RowsStand
<1>9. PushFree'
  <2> SUFFICES ASSUME NEW r \in ImageRows, Exists(images, r), images[r].media = 0
               PROVE  MayMake(r)' \/ \E m \in MadeOf(r)' \cap sameUrl \cap gallery : m \notin MediaIn(images)
    BY <1>1, <1>2 DEF PushFree
  <2>1. CASE MayMake(r) BY ONLY <1>4, <2>1
  <2>2. CASE FoundByUrl(r)
    <3>1. MadeOf(r)' = MadeOf(r) BY <1>1 DEF MadeOf
    <3>2. InStore = gallery /\ MediaIn(images) \subseteq InRows BY <1>1 DEF InStore, Fetched, InRows
    <3> QED BY <2>2, <3>1, <3>2 DEF FoundByUrl
  <2> QED BY <2>1, <2>2 DEF ImagesInv, RowsFree
<1>10. MarkedTaken' /\ Distinct(images)' /\ StoreImagesKept'
  BY <1>1, <1>2 DEF ImagesInv, MarkedTaken, Marked, StoreImagesKept, Distinct
<1> QED BY <1>4, <1>5, <1>6, <1>7, <1>8, <1>9, <1>10 DEF ImagesInv

LEMMA UploadImageFileStep ==
  ASSUME ImagesInv, UploadImageFile
  PROVE  ImagesInv'
<1>1. PICK r \in FreshRows :
        /\ images' = [images EXCEPT ![r] = [status |-> "pending_add", media |-> 0, url |-> "file"]]
        /\ UNCHANGED <<gallery, madeFrom, sameUrl, form, imagePush, hook, doubled, takenOff,
                       unshown, pushedOut>>
  BY DEF UploadImageFile
<1> DEFINE row == [status |-> "pending_add", media |-> 0, url |-> "file"]
<1>2. row \in Image /\ row.media = 0 /\ row.status = "pending_add" BY DEF Image, ImageStatuses, Urls
<1>3. /\ r \in ImageRows /\ ~Exists(images, r) /\ MayMake(r) /\ images[r].media = 0
      /\ imagePush # NoPush => ~Exists(imagePush.cached, r)
  <2>1. r \in ImageRows /\ doubled[r] \in Nat BY DEF ImagesInv, ImageRowsTrue, FreshRows
  <2> QED BY <2>1, FreshFree, ImageMarks DEF Exists
<1>4. /\ images' \in [ImageRows -> ImageRow] /\ images'[r] = row
      /\ \A s \in ImageRows \ {r} : images'[s] = images[s]
      /\ \A s \in ImageRows : images'[s].media = images[s].media
  BY <1>1, <1>2, <1>3 DEF ImagesInv, ImageRowsTrue, ImageRow
<1> HIDE DEF row
<1>5. DOMAIN images = ImageRows /\ DOMAIN images' = ImageRows BY <1>4 DEF ImagesInv, ImageRowsTrue
<1>6. InStore' = InStore /\ InRows' = InRows
  <2>1. MediaIn(images') = MediaIn(images) BY <1>4, <1>5 DEF MediaIn
  <2> QED BY <1>1, <2>1 DEF InStore, InRows, Fetched, CachedMedia
<1>7. /\ MadeStays /\ MadeOnce'
      /\ \A s \in ImageRows : /\ MayMake(s) => MayMake(s)'
                              /\ MayMake(s) \/ FoundByUrl(s) => MayMake(s)' \/ FoundByUrl(s)'
  BY <1>1, <1>6, NothingNew
<1>8. ImageRowsTrue' BY <1>1, <1>2, <1>4, <1>5 DEF ImagesInv, ImageRowsTrue, RowsOk
<1>9. AllMade' /\ FetchedAll' BY <1>1, <1>6 DEF ImagesInv, AllMade, FetchedAll
<1>10. \A s \in ImageRows : Exists(images', s) /\ images'[s].media = 0
         => (Exists(images, s) /\ images[s].media = 0) \/ MayMake(s)'
  BY <1>3, <1>4, <1>7 DEF Exists
<1>11. RowsFree' /\ PushFree'
  <2>1. imagePush' = imagePush /\ sameUrl' = sameUrl /\ ImageRowsTrue /\ PushFree /\ RowsFree
    BY <1>1 DEF ImagesInv
  <2>2. RowsFree' BY <1>7, <1>10, <2>1, StillRowsFree
  <2> QED BY <1>7, <1>10, <2>1, <2>2, StillPushFree
<1>12. MarkedTaken' BY <1>1, <1>2, <1>4, <1>5 DEF ImagesInv, MarkedTaken, Marked
<1>13. Distinct(images)' /\ StoreImagesKept' BY <1>1, <1>4 DEF ImagesInv, StoreImagesKept, Distinct
<1> QED BY <1>7, <1>8, <1>9, <1>10, <1>11, <1>12, <1>13 DEF ImagesInv

(* A row without an attachment is found by the URL of one made of it, if no row has that. *)
LEMMA FoundInAnswer ==
  ASSUME NEW some \in [ImageRows -> ImageRow], RowsOk(some),
         NEW r \in ImageRows, Exists(some, r), some[r].media = 0,
         NEW m \in MadeOf(r) \cap sameUrl, m \notin MediaIn(some)
  PROVE  r \in RowsOf(some, m)
<1>1. r \in Shown(some) BY DEF Shown, RowsOk
<1>2. {s \in ImageRows : Exists(some, s) /\ some[s].media = m} = {} BY DEF MediaIn
<1>3. madeFrom[m] = r /\ m \in sameUrl BY DEF MadeOf
<1> QED BY <1>1, <1>2, <1>3 DEF RowsOf

(* What a push sends as new is not in the store. *)
LEMMA ToSendFree ==
  ASSUME ImagesInv, imagePush.phase = "building", NEW url, NEW r \in ToSend(url)
  PROVE  /\ r \in ImageRows /\ Exists(imagePush.cached, r) /\ imagePush.cached[r].media = 0
         /\ MayMake(r)
<1>1. imagePush # NoPush /\ ImageRowsTrue BY ImageMarks DEF ImagesInv
<1>2. imagePush.cached \in [ImageRows -> ImageRow] /\ RowsOk(imagePush.cached) BY <1>1, PushTyped
<1>3. /\ r \in ImageRows /\ Exists(imagePush.cached, r) /\ imagePush.cached[r].media = 0
      /\ ~InGallery(r)
  BY DEF ToSend, Shown
<1>4. MayMake(r) \/ \E m \in MadeOf(r) \cap sameUrl \cap imagePush.fetched :
                   m \notin MediaIn(imagePush.cached)
  BY <1>1, <1>3 DEF ImagesInv, PushFree
<1>5. ASSUME NEW m \in MadeOf(r) \cap sameUrl \cap imagePush.fetched,
             m \notin MediaIn(imagePush.cached)
      PROVE  FALSE
  <2>1. r \in RowsOf(imagePush.cached, m) BY <1>2, <1>3, <1>5, FoundInAnswer
  <2> QED BY <1>3, <2>1 DEF InGallery
<1> QED BY <1>3, <1>4, <1>5

(* The row of an uploaded file. *)
Uploaded(some, r, m) == [some EXCEPT ![r].media = m, ![r].url = "store"]
LEMMA UploadedImage ==
  ASSUME NEW some \in [ImageRows -> ImageRow], NEW r \in ImageRows, some[r] \in Image,
         NEW m \in MediaIds
  PROVE  LET after == Uploaded(some, r, m)
         IN /\ after \in [ImageRows -> ImageRow]
            /\ after[r] \in Image /\ after[r].media = m /\ after[r].status = some[r].status
            /\ \A s \in ImageRows \ {r} : after[s] = some[s]
<1> DEFINE row == some[r]
           mid == [row EXCEPT !.media = m]
           last == [mid EXCEPT !.url = "store"]
           first == [some EXCEPT ![r].media = m]
           after == [some EXCEPT ![r].media = m, ![r].url = "store"]
<1>1. row \in Image OBVIOUS
<1>2. mid \in Image /\ mid.media = m /\ mid.status = row.status
  <2> HIDE DEF row
  <2> QED BY <1>1 DEF Image
<1>3. first = [some EXCEPT ![r] = mid] OBVIOUS
<1>4. last \in Image /\ last.media = m /\ last.status = row.status
  <2> HIDE DEF mid, row
  <2> QED BY <1>2 DEF Image, Urls
<1> HIDE DEF mid
<1>5. /\ first \in [ImageRows -> ImageRow] /\ first[r] = mid
      /\ \A s \in ImageRows \ {r} : first[s] = some[s]
  BY <1>2, <1>3 DEF ImageRow
<1>6. after = [first EXCEPT ![r] = [first[r] EXCEPT !.url = "store"]] BY <1>5
<1> HIDE DEF first, after
<1>7. after = [first EXCEPT ![r] = last] BY <1>5, <1>6
<1> HIDE DEF last
<1>8. /\ after \in [ImageRows -> ImageRow] /\ after[r] = last
      /\ \A s \in ImageRows \ {r} : after[s] = some[s]
  BY <1>4, <1>5, <1>7 DEF ImageRow
<1> QED BY <1>4, <1>8 DEF after, Uploaded

LEMMA UploadImageStep ==
  ASSUME ImagesInv, UploadImage
  PROVE  ImagesInv'
<1>1. PICK r \in ToSend("file"), m \in NewMedia :
        /\ imagePush.phase = "building" /\ madeFrom' = [madeFrom EXCEPT ![m] = r]
        /\ \/ /\ Exists(images, r)
              /\ images' = [images EXCEPT ![r].media = m, ![r].url = "store"]
              /\ imagePush' = [imagePush EXCEPT !.cached[r].media = m, !.cached[r].url = "store"]
              /\ UNCHANGED <<imageBudget, doubled>>
           \/ /\ ~Exists(images, r)
              /\ imagePush' = NoPush
              /\ UNCHANGED <<images, imageBudget, doubled>>
           \/ /\ SpendOn("faults")
              /\ imagePush' = NoPush
              /\ doubled' = [doubled EXCEPT ![r] = @ + 1]
              /\ UNCHANGED images
        /\ UNCHANGED <<gallery, sameUrl, form, hook, takenOff, unshown, pushedOut>>
  BY DEF UploadImage
<1>2. /\ r \in ImageRows /\ Exists(imagePush.cached, r) /\ imagePush.cached[r].media = 0
      /\ MayMake(r) /\ imagePush # NoPush
  BY <1>1, ToSendFree, ImageMarks
<1>3. /\ m \in MediaIds /\ madeFrom[m] = NotMade /\ m \notin InStore \cup InRows \cup hook \cup sameUrl
      /\ madeFrom' \in [MediaIds -> ImageRows \cup {Staff, NotMade}] /\ madeFrom'[m] = r
      /\ \A n \in MediaIds \ {m} : madeFrom'[n] = madeFrom[n]
  BY <1>1, <1>2 DEF ImagesInv, ImageRowsTrue, NewMedia, AllMade
<1>4. MadeStays BY <1>3 DEF MadeStays
<1>5. CASE imagePush' = NoPush /\ UNCHANGED images
  <2>1. \A s \in ImageRows : doubled[s] \in Nat /\ doubled[s] + 1 \in Nat /\ doubled[s] <= doubled[s] + 1
    BY DEF ImagesInv, ImageRowsTrue
  <2>2. doubled' \in [ImageRows -> Nat] /\ \A s \in ImageRows : doubled[s] <= doubled'[s]
    <3>1. doubled \in [ImageRows -> Nat] BY DEF ImagesInv, ImageRowsTrue
    <3>2. CASE doubled' = doubled BY <2>1, <3>1, <3>2
    <3>3. CASE doubled' = [doubled EXCEPT ![r] = @ + 1] BY <1>2, <2>1, <3>1, <3>3
    <3> QED BY <1>1, <1>2, <1>5, <3>2, <3>3
  <2>3. /\ \A n \in MediaIds : madeFrom'[n] = Staff => madeFrom[n] = Staff
        /\ \A n \in MediaIds : madeFrom'[n] = NotMade => madeFrom[n] = NotMade
    BY <1>2, <1>3, ImageMarks
  <2> QED BY <1>1, <1>3, <1>4, <1>5, <2>2, <2>3, PushEnds
<1>6. CASE /\ Exists(images, r)
           /\ images' = [images EXCEPT ![r].media = m, ![r].url = "store"]
           /\ imagePush' = [imagePush EXCEPT !.cached[r].media = m, !.cached[r].url = "store"]
           /\ UNCHANGED <<imageBudget, doubled>>
  <2> DEFINE cached == imagePush.cached
  <2>1. /\ images \in [ImageRows -> ImageRow] /\ RowsOk(images)
        /\ cached \in [ImageRows -> ImageRow] /\ RowsOk(cached)
        /\ images[r] \in Image /\ cached[r] \in Image
    BY <1>2, <1>6, PushTyped DEF ImagesInv, ImageRowsTrue, ImageRow, Exists
  <2>2. /\ images' \in [ImageRows -> ImageRow] /\ images'[r] \in Image
        /\ images'[r].media = m /\ images'[r].status = images[r].status
        /\ \A s \in ImageRows \ {r} : images'[s] = images[s]
    <3> DEFINE after == Uploaded(images, r, m)
    <3>1. /\ after \in [ImageRows -> ImageRow]
          /\ after[r] \in Image /\ after[r].media = m /\ after[r].status = images[r].status
          /\ \A s \in ImageRows \ {r} : after[s] = images[s]
      BY <1>2, <1>3, <2>1, UploadedImage
    <3> HIDE DEF after
    <3>2. images' = after BY <1>6 DEF after, Uploaded
    <3> QED BY <3>1, <3>2
  <2>3. /\ imagePush' # NoPush /\ imagePush'.phase = "building"
        /\ imagePush'.fetched = imagePush.fetched
        /\ imagePush' \in [phase: {"building", "answered"}, cached: [ImageRows -> ImageRow],
                           fetched: SUBSET MediaIds]
        /\ imagePush'.cached \in [ImageRows -> ImageRow] /\ imagePush'.cached[r] \in Image
        /\ imagePush'.cached[r].media = m /\ imagePush'.cached[r].status = cached[r].status
        /\ \A s \in ImageRows \ {r} : imagePush'.cached[s] = cached[s]
    <3> DEFINE after == Uploaded(cached, r, m)
    <3>1. /\ after \in [ImageRows -> ImageRow]
          /\ after[r] \in Image /\ after[r].media = m /\ after[r].status = cached[r].status
          /\ \A s \in ImageRows \ {r} : after[s] = cached[s]
      BY <1>2, <1>3, <2>1, UploadedImage
    <3>3. imagePush \in [phase: {"building", "answered"}, cached: [ImageRows -> ImageRow],
                         fetched: SUBSET MediaIds]
      BY <1>2 DEF ImagesInv, ImageRowsTrue
    <3>4. imagePush' = [imagePush EXCEPT !.cached = after] BY <1>6, <3>3 DEF Uploaded
    <3> HIDE DEF after
    <3>5. /\ imagePush'.phase = "building" /\ imagePush'.fetched = imagePush.fetched
          /\ imagePush'.cached = after
          /\ imagePush' \in [phase: {"building", "answered"}, cached: [ImageRows -> ImageRow],
                             fetched: SUBSET MediaIds]
      BY <1>1, <3>1, <3>3, <3>4
    <3>6. imagePush' # NoPush BY <3>5, ImageMarks
    <3> QED BY <3>1, <3>5, <3>6
  <2> HIDE DEF cached
  <2>4. /\ MediaIn(images') \subseteq MediaIn(images) \cup {m}
        /\ MediaIn(imagePush'.cached) \subseteq MediaIn(cached) \cup {m}
    BY <2>1, <2>2, <2>3 DEF MediaIn
  <2>5. InStore' = InStore /\ InRows' \subseteq InRows \cup {m}
    BY <1>1, <1>2, <2>3, <2>4 DEF InStore, InRows, Fetched, CachedMedia, cached
  <2>6. (InStore \cup InRows)' \subseteq InStore \cup InRows \cup {m} BY <2>5
  <2>7. \A s \in ImageRows : doubled'[s] \in Nat /\ doubled[s] <= doubled'[s] /\ doubled[s] \in Nat
    BY <1>6 DEF ImagesInv, ImageRowsTrue
  <2>8. Cardinality(Held(r)') <= 1 + doubled'[r]
    <3>1. Held(r)' \subseteq Held(r) \cup {m} BY <1>2, <1>4, <2>6, StillMade DEF ImagesInv
    <3> QED BY <1>2, <2>7, <3>1, OneMoreHeld
  <2>9. \A s \in ImageRows \ {r} : /\ Cardinality(Held(s)') <= 1 + doubled'[s]
                                   /\ MayMake(s) => MayMake(s)'
                                   /\ MayMake(s) \/ FoundByUrl(s) => MayMake(s)' \/ FoundByUrl(s)'
    <3> TAKE s \in ImageRows \ {r}
    <3>1. {m} \cap MadeOf(s)' = {} BY <1>3 DEF MadeOf
    <3>2. sameUrl \subseteq sameUrl' BY <1>1
    <3> QED BY <1>4, <2>5, <2>6, <2>7, <3>1, <3>2, StillFree DEF ImagesInv
  <2>10. ImageRowsTrue'
    <3>1. RowsOk(images)' /\ RowsOk(imagePush.cached)'
      BY <1>3, <2>1, <2>2, <2>3, ImageMarks DEF RowsOk
    <3> QED BY <1>1, <1>3, <1>6, <2>2, <2>3, <3>1 DEF ImagesInv, ImageRowsTrue, RowsOk
  <2>11. AllMade' BY <1>1, <1>2, <1>3, <2>5, ImageMarks DEF ImagesInv, AllMade
  <2>12. FetchedAll'
    BY <1>1, <1>2, <1>3, <2>3, ImageMarks DEF ImagesInv, FetchedAll, ImageRowsTrue, InStore
  <2>13. MadeOnce' BY <2>8, <2>9 DEF MadeOnce
  <2>14. RowsFree'
    <3>1. \A s \in ImageRows : Exists(images, s) /\ images[s].media = 0 => MayMake(s) \/ FoundByUrl(s)
      BY DEF ImagesInv, RowsFree
    <3>2. m # 0 BY <1>3, ImageMarks
    <3> QED BY <2>2, <2>9, <3>1, <3>2 DEF RowsFree, Exists
  <2>15. PushFree'
    <3> SUFFICES ASSUME NEW s \in ImageRows, Exists(imagePush'.cached, s)
                 PROVE  /\ imagePush'.cached[s].media # 0 /\ Exists(images', s) /\ images'[s].media = 0
                             => MayMake(s)'
                        /\ imagePush'.phase = "building" /\ imagePush'.cached[s].media = 0
                             => MayMake(s)' \/ \E n \in MadeOf(s)' \cap sameUrl' \cap imagePush'.fetched :
                                              n \notin MediaIn(imagePush'.cached)
      BY DEF PushFree
    <3>1. CASE s = r BY <1>3, <2>2, <2>3, <3>1, ImageMarks
    <3>2. CASE s # r
      <4>1. /\ imagePush'.cached[s] = cached[s] /\ images'[s] = images[s] /\ Exists(cached, s)
            /\ Exists(images', s) => Exists(images, s)
        BY <2>2, <2>3, <3>2 DEF Exists
      <4>2. /\ cached[s].media # 0 /\ Exists(images, s) /\ images[s].media = 0 => MayMake(s)
            /\ cached[s].media = 0
                 => MayMake(s) \/ \E n \in MadeOf(s) \cap sameUrl \cap imagePush.fetched :
                                  n \notin MediaIn(cached)
        BY <1>1, <1>2, <4>1 DEF ImagesInv, PushFree, cached
      <4>3. ASSUME NEW n \in MadeOf(s) \cap sameUrl \cap imagePush.fetched, n \notin MediaIn(cached)
            PROVE  /\ n \in MadeOf(s)' \cap sameUrl' \cap imagePush'.fetched
                   /\ n \notin MediaIn(imagePush'.cached)
        BY <1>1, <1>3, <2>3, <2>4, <4>3 DEF MadeOf
      <4>4. MayMake(s) => MayMake(s)' BY <2>9, <3>2
      <4> QED BY <4>1, <4>2, <4>3, <4>4
    <3> QED BY <3>1, <3>2
  <2>16. MarkedTaken'
    <3>1. /\ DOMAIN images = ImageRows /\ DOMAIN images' = ImageRows
          /\ DOMAIN cached = ImageRows /\ DOMAIN imagePush'.cached = ImageRows
      BY <2>1, <2>2, <2>3
    <3>2. \A n \in MediaIds \ {m} : madeFrom'[n] = Staff => madeFrom[n] = Staff BY <1>3
    <3>3. madeFrom'[m] # Staff /\ takenOff' = takenOff /\ unshown' = unshown
      BY <1>1, <1>2, <1>3, ImageMarks
    <3>4. Marked(images) /\ Marked(cached) BY <1>2 DEF ImagesInv, MarkedTaken, cached
    <3>5. Marked(images)' BY <2>2, <3>1, <3>2, <3>3, <3>4 DEF Marked
    <3>6. Marked(imagePush.cached)' BY <2>3, <3>1, <3>2, <3>3, <3>4 DEF Marked
    <3> QED BY <3>5, <3>6 DEF MarkedTaken
  <2>17. Distinct(images)' /\ StoreImagesKept'
    <3>1. \A s \in ImageRows : images[s].media # m BY <1>3, <2>1 DEF InRows, MediaIn
    <3> QED BY <1>1, <2>2, <3>1 DEF ImagesInv, Distinct, StoreImagesKept
  <2> QED BY <2>10, <2>11, <2>12, <2>13, <2>14, <2>15, <2>16, <2>17 DEF ImagesInv
<1> QED BY <1>1, <1>5, <1>6

LEMMA SendGalleryStep ==
  ASSUME ImagesInv, SendGallery
  PROVE  ImagesInv'
<1> DEFINE cached == imagePush.cached
           new == ToSend("web")
           media == Number(new, NewMedia)
           made == {media[r] : r \in new}
           sent == Merged \cup made
           lost == {m \in gallery \ sent : madeFrom[m] = Staff}
<1>1. PICK sameUrls \in BOOLEAN :
        /\ imagePush.phase = "building" /\ Cardinality(new) <= Cardinality(NewMedia)
        /\ gallery' = sent
        /\ madeFrom' = [m \in MediaIds |-> IF m \in made THEN CHOOSE r \in new : media[r] = m
                                           ELSE madeFrom[m]]
        /\ sameUrl' = IF sameUrls THEN sameUrl \cup made ELSE sameUrl
        /\ doubled' = [r \in ImageRows |->
                         doubled[r] + IF r \in new /\ ~sameUrls THEN 1 ELSE 0]
        /\ pushedOut' = [known |-> pushedOut.known \cup (lost \cap imagePush.fetched),
                         raced |-> pushedOut.raced \cup (lost \ imagePush.fetched)]
        /\ imagePush' = [phase |-> "answered", cached |-> imagePush.cached, fetched |-> sent]
        /\ UNCHANGED <<images, form, hook, imageBudget, takenOff, unshown>>
  BY DEF SendGallery
<1>2. /\ imagePush # NoPush /\ cached \in [ImageRows -> ImageRow] /\ RowsOk(cached)
      /\ imagePush.fetched \subseteq MediaIds
  BY <1>1, ImageMarks, PushTyped DEF ImagesInv
<1>3. \A r \in new : r \in ImageRows /\ Exists(cached, r) /\ cached[r].media = 0 /\ MayMake(r)
  BY <1>1, ToSendFree
<1>4. /\ media \in [new -> NewMedia] /\ \A r, s \in new : media[r] = media[s] => r = s
  <2>1. new \subseteq ImageRows /\ NewMedia \subseteq MediaIds BY <1>3 DEF NewMedia
  <2>2. IsFiniteSet(new) /\ IsFiniteSet(NewMedia) BY <2>1, ImagesAssumption, FS_Subset
  <2> HIDE DEF new
  <2> QED BY <1>1, <2>2, NumberInjects
<1> HIDE DEF new, media
<1>5. /\ made \subseteq NewMedia /\ made \subseteq MediaIds
      /\ made \cap (InStore \cup InRows \cup hook \cup sameUrl) = {}
  BY <1>4 DEF NewMedia, ImagesInv, AllMade
<1>6. /\ madeFrom' \in [MediaIds -> ImageRows \cup {Staff, NotMade}]
      /\ \A r \in new : madeFrom'[media[r]] = r
      /\ \A m \in MediaIds \ made : madeFrom'[m] = madeFrom[m]
      /\ \A m \in made : madeFrom'[m] \in new /\ media[madeFrom'[m]] = m
  <2>1. \A m \in made : LET s == CHOOSE r \in new : media[r] = m IN s \in new /\ media[s] = m
    OBVIOUS
  <2>2. \A m \in made : madeFrom'[m] \in new /\ media[madeFrom'[m]] = m BY <1>1, <1>5, <2>1
  <2>3. \A m \in MediaIds \ made : madeFrom'[m] = madeFrom[m] BY <1>1
  <2>4. \A r \in new : media[r] \in made OBVIOUS
  <2> HIDE DEF made
  <2>5. \A r \in new : madeFrom'[media[r]] = r BY <1>4, <2>2, <2>4
  <2>6. \A m \in MediaIds : madeFrom'[m] \in ImageRows \cup {Staff, NotMade}
    BY <1>3, <2>2, <2>3 DEF ImagesInv, ImageRowsTrue
  <2>7. madeFrom' = [m \in MediaIds |-> madeFrom'[m]] BY <1>1
  <2> QED BY <2>2, <2>3, <2>5, <2>6, <2>7
<1>7. MadeStays BY <1>5, <1>6 DEF MadeStays, NewMedia
<1>8. \A r \in ImageRows : made \cap MadeOf(r)' \subseteq IF r \in new THEN {media[r]} ELSE {}
  BY <1>6 DEF MadeOf
<1> HIDE DEF made
<1>9. Merged \subseteq MediaIds /\ Merged \subseteq InStore \cup InRows
  <2>1. \A r \in ImageRows : cached[r].media \in MediaIds \cup {0} /\ cached[r].media \in MediaIn(cached)
    BY <1>2, ImageMarks DEF ImageRow, MediaIn
  <2>2. Merged \subseteq MediaIds /\ Merged \subseteq imagePush.fetched \cup MediaIn(cached)
    BY <1>2, <2>1 DEF Merged, Shown
  <2> QED BY <1>2, <2>2 DEF InStore, InRows, Fetched, CachedMedia
<1>10. /\ imagePush' # NoPush /\ imagePush'.phase = "answered" /\ imagePush'.cached = cached
       /\ imagePush'.fetched = sent
  <2>1. imagePush'.phase # NoPush.phase BY <1>1, ImageMarks
  <2> QED BY <1>1, <2>1
<1>11. InStore' = sent /\ InRows' = InRows
  BY <1>1, <1>2, <1>10 DEF InStore, InRows, Fetched, CachedMedia
<1>12. /\ (InStore \cup InRows)' \subseteq InStore \cup InRows \cup made
       /\ sameUrl \subseteq sameUrl' /\ sameUrl' \subseteq sameUrl \cup made
  BY <1>1, <1>9, <1>11
<1>13. /\ doubled' \in [ImageRows -> Nat]
       /\ \A r \in ImageRows : doubled[r] \in Nat /\ doubled[r] <= doubled'[r]
       /\ ~sameUrls => \A r \in new : doubled'[r] = doubled[r] + 1
  <2>1. \A r \in ImageRows : doubled[r] \in Nat BY DEF ImagesInv, ImageRowsTrue
  <2> QED BY <1>1, <1>3, <2>1
<1>14. \A r \in ImageRows \ new : /\ Cardinality(Held(r)') <= 1 + doubled'[r]
                                  /\ MayMake(r) => MayMake(r)'
                                  /\ MayMake(r) \/ FoundByUrl(r) => MayMake(r)' \/ FoundByUrl(r)'
  <2> TAKE r \in ImageRows \ new
  <2>1. doubled'[r] \in Nat /\ doubled[r] <= doubled'[r] BY <1>13
  <2>2. made \cap MadeOf(r)' = {} /\ InRows' \subseteq InRows \cup made BY <1>8, <1>11
  <2> QED BY <1>7, <1>12, <2>1, <2>2, StillFree DEF ImagesInv
<1>15. \A r \in new : Cardinality(Held(r)') <= 1 + doubled'[r] /\ (MayMake(r)' \/ FoundByUrl(r)')
  <2> TAKE r \in new
  <2>1. /\ r \in ImageRows /\ doubled[r] \in Nat /\ doubled'[r] \in Nat /\ doubled[r] <= doubled'[r]
        /\ MayMake(r)
    BY <1>3, <1>13
  <2>2. Held(r)' \subseteq Held(r) \cup (made \cap MadeOf(r)')
    BY <1>7, <1>12, <2>1, StillMade DEF ImagesInv
  <2>3. Held(r)' \subseteq Held(r) \cup {media[r]} BY <1>8, <2>1, <2>2
  <2>4. /\ Cardinality(Held(r)') <= 1 + doubled'[r]
        /\ doubled'[r] = doubled[r] + 1 => MayMake(r)'
    BY <2>1, <2>3, OneMoreHeld
  <2>5. CASE ~sameUrls BY <1>13, <2>4, <2>5
  <2>6. CASE sameUrls
    <3>1. media[r] \in made BY DEF made
    <3>2. media[r] \in MadeOf(r)' /\ media[r] \in sameUrl' /\ media[r] \in InStore'
      BY <1>1, <1>5, <1>6, <1>11, <2>6, <3>1 DEF MadeOf
    <3>3. media[r] \notin InRows' BY <1>5, <1>11, <3>1
    <3>4. FoundByUrl(r)' BY <3>2, <3>3 DEF FoundByUrl
    <3> QED BY <2>4, <3>4
  <2> QED BY <2>5, <2>6
<1>16. ImageRowsTrue'
  <2>1. gallery' \subseteq MediaIds /\ sameUrl' \subseteq MediaIds /\ sent \subseteq MediaIds
    BY <1>1, <1>5, <1>9, <1>12 DEF ImagesInv, ImageRowsTrue
  <2>2. imagePush' \in [phase: {"building", "answered"}, cached: [ImageRows -> ImageRow],
                        fetched: SUBSET MediaIds]
    <3> HIDE DEF sent
    <3> QED BY <1>1, <1>2, <2>1
  <2> QED BY <1>1, <1>2, <1>6, <1>10, <1>13, <2>1, <2>2 DEF ImagesInv, ImageRowsTrue, RowsOk
<1>17. AllMade'
  <2>1. \A m \in MediaIds \ made : m \in InStore' \cup InRows' \cup hook' \cup sameUrl'
          => m \in InStore \cup InRows \cup hook \cup sameUrl
    BY <1>1, <1>11, <1>12
  <2>2. \A m \in made : madeFrom'[m] # NotMade BY <1>3, <1>6, ImageMarks
  <2> QED BY <1>6, <2>1, <2>2 DEF ImagesInv, AllMade
<1>18. FetchedAll' BY <1>1, <1>10 DEF FetchedAll
<1>19. MadeOnce' BY <1>14, <1>15 DEF MadeOnce
<1>20. RowsFree'
  <2>1. \A r \in ImageRows : Exists(images, r) /\ images[r].media = 0 => MayMake(r) \/ FoundByUrl(r)
    BY DEF ImagesInv, RowsFree
  <2>2. images' = images BY <1>1
  <2> QED BY <1>14, <1>15, <2>1, <2>2 DEF RowsFree
<1>21. PushFree'
  <2>1. \A r \in ImageRows :
          Exists(cached, r) /\ cached[r].media # 0 /\ Exists(images, r) /\ images[r].media = 0
            => MayMake(r)
    BY <1>2 DEF ImagesInv, PushFree
  <2> SUFFICES ASSUME NEW r \in ImageRows, Exists(cached, r), cached[r].media # 0,
                      Exists(images, r), images[r].media = 0
               PROVE  MayMake(r)'
    BY <1>1, <1>10 DEF PushFree
  <2> QED BY <1>3, <1>14, <2>1
<1>22. MarkedTaken'
  <2>1. \A m \in MediaIds : madeFrom'[m] = Staff => madeFrom[m] = Staff BY <1>3, <1>6, ImageMarks
  <2>2. Marked(images) /\ Marked(cached) BY <1>2 DEF ImagesInv, MarkedTaken
  <2>3. images' = images /\ takenOff' = takenOff /\ unshown' = unshown /\ imagePush'.cached = cached
    BY <1>1, <1>10
  <2> QED BY <2>1, <2>2, <2>3 DEF MarkedTaken, Marked
<1>23. Distinct(images)' BY <1>1 DEF ImagesInv, Distinct
<1>24. StoreImagesKept'
  <2>1. ASSUME NEW m \in lost \cap imagePush.fetched
        PROVE  m \in takenOff \cup unshown
    <3>1. m \in MediaIds /\ madeFrom[m] = Staff /\ m \in imagePush.fetched /\ m \notin Merged
      BY <1>2, <2>1
    <3>2. PICK r \in ImageRows \ Shown(cached) : cached[r].media = m BY <3>1 DEF Merged
    <3>3. Exists(cached, r) /\ cached[r].status = "pending_remove"
      BY <3>1, <3>2, ImageMarks DEF Exists, Shown
    <3>4. Marked(cached) /\ r \in DOMAIN cached BY <1>2 DEF ImagesInv, MarkedTaken
    <3> QED BY <3>1, <3>2, <3>3, <3>4 DEF Marked
  <2>2. pushedOut'.known = pushedOut.known \cup (lost \cap imagePush.fetched) BY <1>1
  <2> QED BY <1>1, <2>1, <2>2 DEF ImagesInv, StoreImagesKept
<1> QED BY <1>16, <1>17, <1>18, <1>19, <1>20, <1>21, <1>22, <1>23, <1>24 DEF ImagesInv

(* A row a form listed keeps its attachment, and is not taken off; one it did not list is. *)
LEMMA SavedRow ==
  ASSUME NEW seen \in Image, NEW was \in ImageRow, NEW edited \in BOOLEAN
  PROVE  LET row == Saved(seen, was, edited)
         IN /\ row \in Image /\ row.media = seen.media /\ row.status # "pending_remove"
<1>1. CASE seen.media = 0 BY <1>1 DEF Saved, Image, ImageStatuses
<1>2. CASE seen.media # 0
  <2> DEFINE status == CASE edited \/ was.media = 0 \/ was.url # seen.url -> "pending_update"
                         [] was.status = "pending_remove" -> "pending_update"
                         [] OTHER -> was.status
  <2>1. status \in ImageStatuses /\ status # "pending_remove"
    <3>1. was.media # 0 => was.status \in ImageStatuses BY ImageMarks DEF ImageRow
    <3>2. CASE edited \/ was.media = 0 \/ was.url # seen.url BY <3>2 DEF ImageStatuses
    <3>3. CASE ~(edited \/ was.media = 0 \/ was.url # seen.url) /\ was.status = "pending_remove"
      BY <3>3 DEF ImageStatuses
    <3>4. CASE ~(edited \/ was.media = 0 \/ was.url # seen.url) /\ was.status # "pending_remove"
      BY <3>1, <3>4
    <3> QED BY <3>2, <3>3, <3>4
  <2>2. Saved(seen, was, edited) = [seen EXCEPT !.status = status] BY <1>2 DEF Saved
  <2> HIDE DEF status
  <2> QED BY <2>1, <2>2 DEF Image
<1> QED BY <1>1, <1>2

LEMMA UnlistedRow ==
  ASSUME NEW was \in ImageRow
  PROVE  LET row == Unlisted(was)
         IN /\ row \in ImageRow
            /\ row = NoImage \/ (/\ row \in Image /\ row.media = was.media /\ was.media # 0
                                 /\ row.status = "pending_remove")
<1>1. CASE was.media = 0 BY <1>1 DEF Unlisted, ImageRow
<1>2. CASE was.media # 0
  <2>1. was \in Image BY <1>2, ImageMarks DEF ImageRow
  <2> QED BY <1>2, <2>1 DEF Unlisted, Image, ImageStatuses, ImageRow
<1> QED BY <1>1, <1>2

\* What a saved form makes of a row.
SavedAs(r) ==
  \/ /\ r \in FreshRows /\ images'[r] \in Image /\ images'[r].media \in MediaIn(form) \cup {0}
     /\ images'[r].status # "pending_remove"
  \/ /\ r \in DOMAIN form /\ Exists(images, r) /\ images'[r] \in Image
     /\ images'[r].media = form[r].media /\ images'[r].status # "pending_remove"
     /\ form[r].media = 0 /\ images[r].media # 0 => doubled'[r] = doubled[r] + 1
  \/ images'[r] = NoImage
  \/ /\ images'[r] \in Image /\ images'[r].media = images[r].media /\ images[r].media # 0
     /\ images'[r].status = "pending_remove"
     /\ images[r].status = "pending_remove" \/ images[r].media \in takenOff' \cup unshown'

LEMMA SaveFormRows ==
  ASSUME ImagesInv, SaveForm
  PROVE  /\ form' = NoForm
         /\ UNCHANGED <<gallery, madeFrom, sameUrl, imagePush, hook, pushedOut>>
         /\ \/ UNCHANGED <<images, doubled, takenOff, unshown>>
            \/ /\ images' \in [ImageRows -> ImageRow] /\ Distinct(images')
               /\ doubled' \in [ImageRows -> Nat]
               /\ takenOff \subseteq takenOff' /\ unshown \subseteq unshown'
               /\ \A r \in ImageRows : doubled[r] <= doubled'[r] /\ SavedAs(r)
<1>1. PICK kept \in SUBSET DOMAIN form, edited \in SUBSET DOMAIN form, web \in {{}, {0}} :
        LET gone == {r \in kept : ~Exists(images, r)}
            added == gone \cup web
            row == Number(added, FreshRows)
            AddedAs(r) == {x \in added : row[x] = r}
            New(x) == IF x \in web THEN [status |-> "pending_add", media |-> 0, url |-> "web"]
                      ELSE Saved(form[x], NoImage, FALSE)
            saved == [r \in ImageRows |->
                        IF AddedAs(r) # {} THEN New(CHOOSE x \in AddedAs(r) : TRUE)
                        ELSE IF r \in kept \ gone THEN Saved(form[r], images[r], r \in edited)
                        ELSE Unlisted(images[r])]
            removed == {r \in ImageRows \ kept : images[r].media # 0}
        IN /\ form # NoForm /\ edited \subseteq kept /\ Cardinality(edited) <= 1
           /\ Cardinality(added) <= Cardinality(FreshRows)
           /\ form' = NoForm
           /\ IF Distinct(saved)
              THEN /\ images' = saved
                   /\ doubled' = [r \in ImageRows |->
                        doubled[r] + IF r \in kept \ gone /\ form[r].media = 0 /\ images[r].media # 0
                                     THEN 1 ELSE 0]
                   /\ takenOff' = takenOff \cup {images[r].media : r \in removed \cap DOMAIN form}
                   /\ unshown' = unshown \cup {images[r].media : r \in
                                           {s \in removed \ DOMAIN form : images[s].status # "pending_remove"}}
              ELSE UNCHANGED <<images, doubled, takenOff, unshown>>
           /\ UNCHANGED <<gallery, madeFrom, sameUrl, imagePush, hook, imageBudget, pushedOut>>
  BY DEF SaveForm
<1> DEFINE gone == {r \in kept : ~Exists(images, r)}
           added == gone \cup web
           row == Number(added, FreshRows)
           AddedAs(r) == {x \in added : row[x] = r}
           New(x) == IF x \in web THEN [status |-> "pending_add", media |-> 0, url |-> "web"]
                     ELSE Saved(form[x], NoImage, FALSE)
           saved == [r \in ImageRows |->
                       IF AddedAs(r) # {} THEN New(CHOOSE x \in AddedAs(r) : TRUE)
                       ELSE IF r \in kept \ gone THEN Saved(form[r], images[r], r \in edited)
                       ELSE Unlisted(images[r])]
           removed == {r \in ImageRows \ kept : images[r].media # 0}
<1>2. /\ form' = NoForm /\ UNCHANGED <<gallery, madeFrom, sameUrl, imagePush, hook, pushedOut>>
      /\ Cardinality(added) <= Cardinality(FreshRows)
      /\ ~Distinct(saved) => UNCHANGED <<images, doubled, takenOff, unshown>>
      /\ Distinct(saved) =>
           /\ images' = saved
           /\ doubled' = [r \in ImageRows |->
                doubled[r] + IF r \in kept \ gone /\ form[r].media = 0 /\ images[r].media # 0
                             THEN 1 ELSE 0]
           /\ takenOff' = takenOff \cup {images[r].media : r \in removed \cap DOMAIN form}
           /\ unshown' = unshown \cup {images[r].media : r \in
                                   {s \in removed \ DOMAIN form : images[s].status # "pending_remove"}}
  BY <1>1
<1>3. /\ images \in [ImageRows -> ImageRow] /\ form \in [DOMAIN form -> Image]
      /\ DOMAIN form \subseteq ImageRows /\ doubled \in [ImageRows -> Nat] /\ kept \subseteq DOMAIN form
  BY DEF ImagesInv, ImageRowsTrue
<1>4. row \in [added -> FreshRows]
  <2>1. FreshRows \subseteq ImageRows /\ gone \subseteq ImageRows BY <1>3 DEF FreshRows
  <2>2. IsFiniteSet(FreshRows) /\ IsFiniteSet(gone) /\ IsFiniteSet(web)
    BY <2>1, ImagesAssumption, FS_Subset, FS_EmptySet, FS_Singleton
  <2>3. IsFiniteSet(added) BY <2>2, FS_Union
  <2> HIDE DEF added
  <2> QED BY <1>2, <2>2, <2>3, NumberInjects
<1> HIDE DEF row
<1>5. \A x \in added : /\ New(x) \in Image /\ New(x).media \in MediaIn(form) \cup {0}
                       /\ New(x).status # "pending_remove"
  <2> TAKE x \in added
  <2>1. CASE x \in web BY <2>1 DEF Image, ImageStatuses, Urls
  <2>2. CASE x \notin web
    <3>1. x \in DOMAIN form /\ form[x] \in Image /\ form[x].media \in MediaIn(form)
      BY <1>3, <2>2 DEF MediaIn
    <3>2. NoImage \in ImageRow /\ FALSE \in BOOLEAN BY DEF ImageRow
    <3> QED BY <2>2, <3>1, <3>2, SavedRow
  <2> QED BY <2>1, <2>2
<1> HIDE DEF New
<1>6. ASSUME NEW r \in ImageRows, AddedAs(r) # {}
      PROVE  /\ r \in FreshRows /\ saved[r] \in Image /\ saved[r].media \in MediaIn(form) \cup {0}
             /\ saved[r].status # "pending_remove"
  <2> DEFINE x == CHOOSE x \in AddedAs(r) : TRUE
  <2>1. x \in added /\ row[x] = r BY <1>6
  <2>2. saved[r] = New(x) BY <1>6
  <2> HIDE DEF x, saved, added
  <2> QED BY <1>4, <1>5, <2>1, <2>2
<1>7. ASSUME NEW r \in ImageRows, AddedAs(r) = {}, r \in kept \ gone
      PROVE  /\ r \in DOMAIN form /\ Exists(images, r) /\ saved[r] \in Image
             /\ saved[r].media = form[r].media /\ saved[r].status # "pending_remove"
  <2> DEFINE touched == r \in edited
  <2>1. saved[r] = Saved(form[r], images[r], touched) BY <1>7
  <2>2. /\ r \in DOMAIN form /\ Exists(images, r) /\ form[r] \in Image /\ images[r] \in ImageRow
        /\ touched \in BOOLEAN
    BY <1>3, <1>7
  <2> HIDE DEF saved, touched
  <2> QED BY <2>1, <2>2, SavedRow
<1>8. ASSUME NEW r \in ImageRows, AddedAs(r) = {}, r \notin kept \ gone
      PROVE  /\ saved[r] \in ImageRow
             /\ saved[r] = NoImage \/ (/\ saved[r] \in Image /\ saved[r].media = images[r].media
                                       /\ images[r].media # 0 /\ saved[r].status = "pending_remove")
  <2>1. saved[r] = Unlisted(images[r]) BY <1>8
  <2> HIDE DEF saved
  <2> QED BY <1>3, <2>1, UnlistedRow
<1>9. \A r \in ImageRows : saved[r] \in ImageRow
  <2> HIDE DEF saved, AddedAs
  <2> QED BY <1>6, <1>7, <1>8 DEF ImageRow
<1>10. saved \in [ImageRows -> ImageRow] BY <1>9
<1>11. CASE Distinct(saved)
  <2>1. images' = saved BY <1>2, <1>11
  <2> HIDE DEF saved
  <2>2. /\ doubled' \in [ImageRows -> Nat] /\ \A r \in ImageRows : doubled[r] <= doubled'[r]
        /\ \A r \in kept \ gone : form[r].media = 0 /\ images[r].media # 0
             => doubled'[r] = doubled[r] + 1
    BY <1>2, <1>3, <1>11
  <2>3. \A r \in ImageRows \ kept : images[r].media # 0
          => images[r].status = "pending_remove" \/ images[r].media \in takenOff' \cup unshown'
    BY <1>2, <1>11
  <2>4. \A r \in gone : images[r].media = 0 BY ImageMarks DEF Exists
  <2>5. \A r \in ImageRows : SavedAs(r)
    <3> TAKE r \in ImageRows
    <3> HIDE DEF AddedAs
    <3>1. CASE AddedAs(r) # {} BY <1>6, <2>1, <3>1 DEF SavedAs
    <3>2. CASE AddedAs(r) = {} /\ r \in kept \ gone BY <1>7, <2>1, <2>2, <3>2 DEF SavedAs
    <3>3. CASE AddedAs(r) = {} /\ r \notin kept \ gone
      <4>1. images[r].media # 0 => r \notin kept BY <2>4, <3>3
      <4> HIDE DEF gone
      <4> QED BY <1>8, <2>1, <2>3, <3>3, <4>1 DEF SavedAs
    <3> QED BY <3>1, <3>2, <3>3
  <2> QED BY <1>2, <1>10, <1>11, <2>1, <2>2, <2>5
<1> QED BY <1>2, <1>11

LEMMA SaveFormStep ==
  ASSUME ImagesInv, SaveForm
  PROVE  ImagesInv'
<1>1. /\ form' = NoForm /\ UNCHANGED <<gallery, madeFrom, sameUrl, imagePush, hook, pushedOut>>
      /\ \/ UNCHANGED <<images, doubled, takenOff, unshown>>
         \/ /\ images' \in [ImageRows -> ImageRow] /\ Distinct(images')
            /\ doubled' \in [ImageRows -> Nat]
            /\ takenOff \subseteq takenOff' /\ unshown \subseteq unshown'
            /\ \A r \in ImageRows : doubled[r] <= doubled'[r] /\ SavedAs(r)
  BY SaveFormRows
<1>2. /\ images \in [ImageRows -> ImageRow] /\ form \in [DOMAIN form -> Image]
      /\ doubled \in [ImageRows -> Nat]
  BY DEF ImagesInv, ImageRowsTrue
<1>3. MediaIn(form') = {} BY <1>1, ImageMarks DEF MediaIn
<1>4. MadeStays /\ sameUrl \subseteq sameUrl' BY <1>1 DEF MadeStays
<1>5. ImageRowsTrue /\ AllMade /\ MadeOnce /\ RowsFree /\ PushFree BY DEF ImagesInv
<1>6. CASE UNCHANGED <<images, doubled, takenOff, unshown>>
  <2>1. InStore' = InStore /\ InRows' \subseteq InRows
    BY <1>1, <1>3, <1>6 DEF InStore, InRows, Fetched, CachedMedia
  <2>2. /\ MadeOnce'
        /\ \A r \in ImageRows : /\ MayMake(r) => MayMake(r)'
                                /\ MayMake(r) \/ FoundByUrl(r) => MayMake(r)' \/ FoundByUrl(r)'
    BY <1>1, <1>6, <2>1, NothingNew
  <2>3. ImageRowsTrue'
    <3>1. form' \in [DOMAIN form' -> Image] /\ DOMAIN form' \subseteq ImageRows /\ RowsOk(form)'
      BY <1>1, ImageMarks DEF RowsOk, NoForm
    <3> QED BY <1>1, <1>6, <3>1 DEF ImagesInv, ImageRowsTrue, RowsOk
  <2>4. AllMade' /\ FetchedAll' BY <1>1, <1>6, <2>1 DEF ImagesInv, AllMade, FetchedAll
  <2>5. RowsFree' /\ PushFree' BY <1>1, <1>4, <1>6, <2>2, RowsStand
  <2>6. MarkedTaken' /\ Distinct(images)' /\ StoreImagesKept'
    BY <1>1, <1>6 DEF ImagesInv, MarkedTaken, Marked, StoreImagesKept, Distinct
  <2> QED BY <2>2, <2>3, <2>4, <2>5, <2>6 DEF ImagesInv
<1>7. CASE /\ images' \in [ImageRows -> ImageRow] /\ Distinct(images')
           /\ doubled' \in [ImageRows -> Nat]
           /\ takenOff \subseteq takenOff' /\ unshown \subseteq unshown'
           /\ \A r \in ImageRows : doubled[r] <= doubled'[r] /\ SavedAs(r)
  <2>1. \A r \in ImageRows : images'[r].media \in MediaIn(images) \cup MediaIn(form) \cup {0}
    <3> TAKE r \in ImageRows
    <3>1. images[r].media \in MediaIn(images) BY <1>2 DEF MediaIn
    <3>2. r \in DOMAIN form => form[r].media \in MediaIn(form) BY DEF MediaIn
    <3>3. SavedAs(r) BY <1>7
    <3> QED BY <3>1, <3>2, <3>3, ImageMarks DEF SavedAs
  <2>2. MediaIn(images') \subseteq MediaIn(images) \cup MediaIn(form) \cup {0}
    <3>1. DOMAIN images' = ImageRows BY <1>7
    <3> QED BY <2>1, <3>1 DEF MediaIn
  <2>3. InStore' = InStore /\ InRows' \subseteq InRows \cup {0}
    BY <1>1, <1>3, <2>2 DEF InStore, InRows, Fetched, CachedMedia
  <2>4. (InStore \cup InRows)' \subseteq InStore \cup InRows \cup {0} BY <2>3
  <2>5. \A r \in ImageRows : /\ Cardinality(Held(r)') <= 1 + doubled'[r]
                             /\ MayMake(r) => MayMake(r)'
                             /\ MayMake(r) \/ FoundByUrl(r) => MayMake(r)' \/ FoundByUrl(r)'
                             /\ doubled'[r] = doubled[r] + 1 => MayMake(r)'
    <3> TAKE r \in ImageRows
    <3>1. doubled'[r] \in Nat /\ doubled[r] <= doubled'[r] BY <1>7
    <3>2. {0} \cap MadeOf(r)' = {} BY ImageMarks DEF MadeOf
    <3> QED BY <1>4, <1>5, <2>3, <2>4, <3>1, <3>2, StillFree
  <2>6. \A r \in FreshRows : /\ r \in ImageRows /\ MayMake(r)
                             /\ imagePush # NoPush => ~Exists(imagePush.cached, r)
    <3> TAKE r \in FreshRows
    <3>1. r \in ImageRows BY DEF FreshRows
    <3>2. doubled[r] \in Nat BY <1>2, <3>1
    <3> QED BY <3>1, <3>2, FreshFree
  <2>7. \A r \in ImageRows : Exists(images', r) /\ images'[r].media = 0
          => (Exists(images, r) /\ images[r].media = 0) \/ MayMake(r)'
    <3> TAKE r \in ImageRows
    <3>1. SavedAs(r) BY <1>7
    <3> QED BY <2>5, <2>6, <3>1 DEF SavedAs, Exists
  <2>8. RowsFree' BY <1>5, <2>5, <2>7, StillRowsFree
  <2>9. PushFree' BY <1>1, <1>4, <1>5, <2>5, <2>7, StillPushFree
  <2>10. MadeOnce' BY <2>5 DEF MadeOnce
  <2>11. ImageRowsTrue'
    <3>1. form' \in [DOMAIN form' -> Image] /\ DOMAIN form' \subseteq ImageRows /\ RowsOk(form)'
      BY <1>1, ImageMarks DEF RowsOk, NoForm
    <3>2. RowsOk(images)'
      <4> SUFFICES ASSUME NEW r \in ImageRows, images'[r].status = "pending_remove"
                   PROVE  images'[r].media # 0
        BY <1>7 DEF RowsOk
      <4>1. SavedAs(r) BY <1>7
      <4> QED BY <4>1, ImageMarks DEF SavedAs
    <3> QED BY <1>1, <1>7, <3>1, <3>2 DEF ImagesInv, ImageRowsTrue, RowsOk
  <2>12. AllMade' /\ FetchedAll' BY <1>1, <2>3, ImageMarks DEF ImagesInv, AllMade, FetchedAll
  <2>13. MarkedTaken'
    <3>1. Marked(images) /\ (imagePush # NoPush => Marked(imagePush.cached))
      BY DEF ImagesInv, MarkedTaken
    <3>2. imagePush # NoPush => Marked(imagePush.cached)' BY <1>1, <1>7, <3>1 DEF Marked
    <3>3. Marked(images)'
      <4> SUFFICES ASSUME NEW r \in ImageRows, NEW m \in MediaIds, images'[r].media = m,
                          images'[r].status = "pending_remove", madeFrom[m] = Staff
                   PROVE  m \in takenOff' \cup unshown'
        BY <1>1, <1>7 DEF Marked
      <4>1. SavedAs(r) /\ r \in DOMAIN images BY <1>2, <1>7
      <4>2. /\ images[r].media = m
            /\ images[r].status = "pending_remove" \/ images[r].media \in takenOff' \cup unshown'
        BY <4>1, ImageMarks DEF SavedAs
      <4> QED BY <1>7, <3>1, <4>1, <4>2 DEF Marked
    <3> QED BY <1>1, <3>2, <3>3 DEF MarkedTaken
  <2>14. Distinct(images)' /\ StoreImagesKept'
    BY <1>1, <1>7 DEF ImagesInv, StoreImagesKept, Distinct
  <2> QED BY <2>8, <2>9, <2>10, <2>11, <2>12, <2>13, <2>14 DEF ImagesInv
<1> QED BY <1>1, <1>6, <1>7

\* The rows a session knows, and what it makes of them.
KnownRows(cached) == [r \in ImageRows |-> IF Exists(images, r) THEN cached[r] ELSE NoImage]
Unknown(cached, answer) == {m \in answer : RowsOf(KnownRows(cached), m) = {}}

ReconciledAs(cached, answer, row, r) ==
  \/ /\ r \in FreshRows /\ row \in Image /\ row.status = "synced"
     /\ row.media \in Unknown(cached, answer)
     /\ Number(Unknown(cached, answer), FreshRows)[row.media] = r
  \/ \E m \in answer : /\ r \in RowsOf(KnownRows(cached), m) /\ Exists(images, r)
                       /\ row = TakenOver(cached[r], images[r], m)
  \/ row = NoImage
  \/ /\ row = images[r]
     /\ \A m \in answer : r \notin RowsOf(KnownRows(cached), m)

LEMMA AnsweredRows ==
  ASSUME ImageRowsTrue, NEW cached, \A r \in ImageRows : Exists(images, r) => cached[r] \in Image,
         NEW answer \in SUBSET MediaIds, CanReconcile(cached, images, answer)
  PROVE  LET reconciled == Reconciled(cached, images, answer)
         IN /\ reconciled = [r \in ImageRows |-> reconciled[r]]
            /\ \A r \in ImageRows : ReconciledAs(cached, answer, reconciled[r], r)
<1> DEFINE held == KnownRows(cached)
           unknown == Unknown(cached, answer)
           known == {m \in answer : RowsOf(held, m) # {}}
           newRow == Number(answer \ known, FreshRows)
           MediaOf(r) == {m \in known : r \in RowsOf(held, m)}
           reconciled == Reconciled(cached, images, answer)
           Row(r) ==
             IF \E m \in answer \ known : newRow[m] = r
             THEN [status |-> "synced", media |-> CHOOSE m \in answer \ known : newRow[m] = r,
                   url |-> "store"]
             ELSE IF MediaOf(r) # {} THEN TakenOver(held[r], images[r], CHOOSE m \in MediaOf(r) : TRUE)
             ELSE IF held[r].media # 0 /\ held[r].status \in {"synced", "pending_remove"} THEN NoImage
             ELSE images[r]
<1>1. reconciled = [r \in ImageRows |-> Row(r)] BY DEF Reconciled, KnownRows
<1>2. answer \ known = unknown BY DEF Unknown
<1>3. Cardinality(unknown) <= Cardinality(FreshRows) BY DEF CanReconcile, Unknown, KnownRows
<1>4. IsFiniteSet(unknown) /\ IsFiniteSet(FreshRows)
  <2>1. unknown \subseteq MediaIds /\ FreshRows \subseteq ImageRows BY DEF Unknown, FreshRows
  <2> QED BY <2>1, ImagesAssumption, FS_Subset
<1>5. newRow \in [unknown -> FreshRows] /\ newRow = Number(unknown, FreshRows)
  <2> HIDE DEF unknown, known
  <2> QED BY <1>2, <1>3, <1>4, NumberInjects
<1>6. \A r \in ImageRows, m \in answer : r \in RowsOf(held, m) => Exists(images, r) /\ held[r] = cached[r]
  <2> SUFFICES ASSUME NEW r \in ImageRows, NEW m \in answer, r \in RowsOf(held, m)
               PROVE  Exists(images, r)
    BY DEF KnownRows
  <2>1. Exists(held, r) BY DEF RowsOf, Shown
  <2> QED BY <2>1 DEF KnownRows, Exists
<1> HIDE DEF newRow
<1>7. \A r \in ImageRows : ReconciledAs(cached, answer, Row(r), r)
  <2> TAKE r \in ImageRows
  <2>1. CASE \E m \in answer \ known : newRow[m] = r
    <3> DEFINE m == CHOOSE m \in answer \ known : newRow[m] = r
               row == [status |-> "synced", media |-> m, url |-> "store"]
    <3>1. m \in answer \ known /\ newRow[m] = r BY <2>1
    <3>2. Row(r) = row BY <2>1
    <3> HIDE DEF m, known
    <3>3. m \in unknown /\ m \in MediaIds BY <1>2, <3>1
    <3>4. row \in Image /\ row.status = "synced" /\ row.media = m
      BY <3>3 DEF Image, ImageStatuses, Urls
    <3>5. r \in FreshRows BY <1>5, <3>1, <3>3
    <3> HIDE DEF Row, row
    <3> QED BY <1>5, <3>1, <3>2, <3>3, <3>4, <3>5 DEF ReconciledAs
  <2>2. CASE ~(\E m \in answer \ known : newRow[m] = r) /\ MediaOf(r) # {}
    <3> DEFINE m == CHOOSE m \in MediaOf(r) : TRUE
    <3>1. m \in answer /\ r \in RowsOf(held, m) BY <2>2
    <3>2. Row(r) = TakenOver(held[r], images[r], m) BY <2>2
    <3> HIDE DEF m, Row
    <3> QED BY <1>6, <3>1, <3>2 DEF ReconciledAs
  <2>3. CASE ~(\E m \in answer \ known : newRow[m] = r) /\ MediaOf(r) = {}
    <3>1. \A m \in answer : r \notin RowsOf(held, m) BY <2>3
    <3>2. Row(r) = NoImage \/ Row(r) = images[r] BY <2>3
    <3> HIDE DEF Row
    <3> QED BY <3>1, <3>2 DEF ReconciledAs
  <2> QED BY <2>1, <2>2, <2>3
<1> HIDE DEF Row, reconciled
<1>8. \A r \in ImageRows : reconciled[r] = Row(r) BY <1>1
<1>9. reconciled = [r \in ImageRows |-> reconciled[r]] BY <1>1
<1> QED BY <1>7, <1>8, <1>9 DEF reconciled

(* A row taken over keeps what its operator asked for, ... *)
LEMMA TakenOverRow ==
  ASSUME NEW cached \in Image, NEW was \in Image, NEW m \in MediaIds
  PROVE  LET row == TakenOver(cached, was, m)
         IN /\ row \in Image
            /\ cached.media = m => row.media = was.media
            /\ cached.media # m => row.media = m
            /\ row.status \in {"synced", was.status}
            /\ was.status # "pending_remove" \/ row.status = "pending_remove"
                 \/ cached.status = "pending_add"
BY DEF TakenOver, Image, ImageStatuses, Urls

(* ... bears an attachment of the answer or of its own, and is marked only if it was. *)
LEMMA ReconciledRow ==
  ASSUME ImagesInv, NEW cached, \A r \in ImageRows : Exists(images, r) => cached[r] \in Image,
         NEW answer \in SUBSET MediaIds, NEW r \in ImageRows, NEW row,
         ReconciledAs(cached, answer, row, r)
  PROVE  /\ row \in ImageRow /\ row.media \in MediaIn(images) \cup answer \cup {0}
         /\ row.status = "pending_remove" => row.media # 0
         /\ \A m \in MediaIds : row.status = "pending_remove" /\ row.media = m /\ madeFrom[m] = Staff
              => m \in takenOff \cup unshown
         /\ \/ images[r].status # "pending_remove" \/ row = NoImage
            \/ row.status = "pending_remove" \/ cached[r].status = "pending_add"
<1>1. /\ images \in [ImageRows -> ImageRow] /\ RowsOk(images) /\ Marked(images)
      /\ images[r].media \in MediaIn(images)
  BY DEF ImagesInv, ImageRowsTrue, MarkedTaken, MediaIn
<1>2. CASE /\ r \in FreshRows /\ row \in Image /\ row.status = "synced"
           /\ row.media \in Unknown(cached, answer)
  <2>1. images[r].status # "pending_remove" BY <1>2, ImageMarks DEF FreshRows, Exists
  <2> QED BY <1>2, <2>1 DEF Unknown, ImageRow
<1>3. ASSUME NEW m \in answer, r \in RowsOf(KnownRows(cached), m), Exists(images, r),
             row = TakenOver(cached[r], images[r], m)
      PROVE  /\ row \in ImageRow /\ row.media \in MediaIn(images) \cup answer \cup {0}
             /\ row.status = "pending_remove" => row.media # 0
             /\ \A n \in MediaIds : row.status = "pending_remove" /\ row.media = n /\ madeFrom[n] = Staff
                  => n \in takenOff \cup unshown
             /\ \/ images[r].status # "pending_remove" \/ row = NoImage
                \/ row.status = "pending_remove" \/ cached[r].status = "pending_add"
  <2>1. cached[r] \in Image /\ images[r] \in Image /\ m \in MediaIds
    BY <1>1, <1>3 DEF ImageRow, Exists
  <2>2. /\ row \in Image /\ (cached[r].media = m => row.media = images[r].media)
        /\ cached[r].media # m => row.media = m
        /\ row.status \in {"synced", images[r].status}
        /\ \/ images[r].status # "pending_remove" \/ row.status = "pending_remove"
           \/ cached[r].status = "pending_add"
    <3>1. PICK mine \in Image, was \in Image : mine = cached[r] /\ was = images[r] BY <2>1
    <3> DEFINE took == TakenOver(mine, was, m)
    <3>2. /\ took \in Image /\ (mine.media = m => took.media = was.media)
          /\ mine.media # m => took.media = m
          /\ took.status \in {"synced", was.status}
          /\ was.status # "pending_remove" \/ took.status = "pending_remove"
               \/ mine.status = "pending_add"
      BY <2>1, TakenOverRow
    <3>3. row = took BY <1>3, <3>1
    <3> HIDE DEF took
    <3> QED BY <3>1, <3>2, <3>3
  <2>3. row.media \in MediaIn(images) \cup answer BY <1>1, <2>2
  <2>4. row.status = "pending_remove" => images[r].status = "pending_remove" /\ images[r].media # 0
    BY <1>1, <2>2 DEF RowsOk
  <2>5. row.status = "pending_remove" => row.media # 0 BY <2>1, <2>2, <2>4, ImageMarks
  <2>6. cached[r].media # m => madeFrom[m] = r BY <1>3 DEF RowsOf, KnownRows
  <2>7. ASSUME NEW n \in MediaIds, row.status = "pending_remove", row.media = n, madeFrom[n] = Staff
        PROVE  n \in takenOff \cup unshown
    <3>1. images[r].media = n BY <2>2, <2>6, <2>7, ImageMarks
    <3> QED BY <1>1, <2>4, <2>7, <3>1 DEF Marked
  <2> QED BY <2>2, <2>3, <2>5, <2>7 DEF ImageRow
<1>4. CASE row = NoImage BY <1>4, ImageMarks DEF ImageRow
<1>5. CASE row = images[r] BY <1>1, <1>5 DEF RowsOk, Marked
<1> QED BY <1>2, <1>3, <1>4, <1>5 DEF ReconciledAs

\* What the session of a push knows of the rows: those it has cached, and what is new.
SessionRows == [r \in ImageRows |-> IF Exists(imagePush.cached, r) THEN imagePush.cached[r]
                                    ELSE images[r]]

LEMMA SessionKnows ==
  ASSUME ImagesInv, imagePush # NoPush
  PROVE  /\ \A r \in ImageRows : Exists(images, r) => SessionRows[r] \in Image
         /\ KnownRows(SessionRows) \in [ImageRows -> ImageRow]
         /\ RowsOk(KnownRows(SessionRows))
         /\ MediaIn(KnownRows(SessionRows)) \subseteq InRows \cup {0}
<1> DEFINE cached == imagePush.cached
<1>1. /\ images \in [ImageRows -> ImageRow] /\ RowsOk(images)
      /\ cached \in [ImageRows -> ImageRow] /\ RowsOk(cached)
  BY PushTyped DEF ImagesInv, ImageRowsTrue
<1>2. \A r \in ImageRows : /\ images[r].media \in InRows /\ cached[r].media \in InRows
  BY <1>1 DEF InRows, MediaIn, CachedMedia
<1> HIDE DEF cached
<1>3. \A r \in ImageRows : SessionRows[r] \in {cached[r], images[r]}
                           /\ (Exists(images, r) => SessionRows[r] \in Image)
  BY <1>1 DEF SessionRows, Exists, ImageRow, cached
<1>4. \A r \in ImageRows : KnownRows(SessionRows)[r] \in {cached[r], images[r], NoImage}
  BY <1>3 DEF KnownRows
<1>5. KnownRows(SessionRows) = [r \in ImageRows |-> KnownRows(SessionRows)[r]] BY DEF KnownRows
<1> DEFINE known == KnownRows(SessionRows)
<1> HIDE DEF known
<1>6. \A r \in ImageRows : known[r] \in {cached[r], images[r], NoImage} BY <1>4 DEF known
<1>7. known \in [ImageRows -> ImageRow] /\ DOMAIN known = ImageRows
  <2>1. \A r \in ImageRows : known[r] \in ImageRow BY <1>1, <1>6 DEF ImageRow
  <2> QED BY <1>5, <2>1 DEF known
<1>8. RowsOk(known) BY <1>1, <1>6, <1>7, ImageMarks DEF RowsOk
<1>9. MediaIn(known) \subseteq InRows \cup {0}
  <2>1. \A r \in ImageRows : known[r].media \in InRows \cup {0} BY <1>2, <1>6, ImageMarks
  <2> QED BY <1>7, <2>1 DEF MediaIn
<1> QED BY <1>3, <1>7, <1>8, <1>9 DEF known

(* A row that a push leaves without an attachment may get one. *)
LEMMA SettledFree ==
  ASSUME ImagesInv, imagePush # NoPush, NEW r \in ImageRows, NEW row,
         ReconciledAs(SessionRows, imagePush.fetched, row, r), row # NoImage, row.media = 0
  PROVE  MayMake(r)
<1> DEFINE cached == imagePush.cached
           answer == imagePush.fetched
<1>1. /\ images \in [ImageRows -> ImageRow] /\ cached \in [ImageRows -> ImageRow]
      /\ answer \subseteq MediaIds
  BY PushTyped DEF ImagesInv, ImageRowsTrue
<1>2. /\ Exists(cached, r) => SessionRows[r] = cached[r]
      /\ ~Exists(cached, r) => SessionRows[r] = images[r]
  BY DEF SessionRows
<1>3. Exists(cached, r) /\ cached[r].media # 0 /\ Exists(images, r) /\ images[r].media = 0 => MayMake(r)
  BY DEF ImagesInv, PushFree
<1>4. ASSUME row.media \in Unknown(SessionRows, answer)
      PROVE  FALSE
  BY <1>1, <1>4, ImageMarks DEF Unknown
<1>5. ASSUME NEW m \in answer, r \in RowsOf(KnownRows(SessionRows), m), Exists(images, r),
             row = TakenOver(SessionRows[r], images[r], m)
      PROVE  MayMake(r)
  <2>1. PICK mine \in Image, was \in Image : mine = SessionRows[r] /\ was = images[r]
    BY <1>1, <1>5, SessionKnows DEF ImageRow, Exists
  <2> DEFINE took == TakenOver(mine, was, m)
  <2>2. m \in MediaIds BY <1>1
  <2>3. /\ mine.media = m => took.media = was.media
        /\ mine.media # m => took.media = m
    BY <2>2, TakenOverRow
  <2>4. row = took BY <1>5, <2>1
  <2> HIDE DEF took
  <2>5. SessionRows[r].media = m /\ images[r].media = 0 /\ m # 0
    BY <2>1, <2>2, <2>3, <2>4, ImageMarks
  <2> QED BY <1>2, <1>3, <1>5, <2>5
<1>6. ASSUME row = images[r], \A m \in answer : r \notin RowsOf(KnownRows(SessionRows), m), ~MayMake(r)
      PROVE  FALSE
  <2>1. Exists(images, r) /\ images[r].media = 0 BY <1>6 DEF Exists
  <2>2. PICK n \in MadeOf(r) \cap sameUrl \cap InStore : n \notin InRows
    BY <1>6, <2>1 DEF ImagesInv, RowsFree, FoundByUrl
  <2>3. n \in MediaIds /\ madeFrom[n] = r /\ n # 0 BY <2>2, ImageMarks DEF MadeOf
  <2>4. SessionRows[r].media = 0 /\ SessionRows[r] \in Image BY <1>2, <1>3, <1>6, <2>1, SessionKnows
  <2> DEFINE known == KnownRows(SessionRows)
  <2>5. known[r] = SessionRows[r] BY <2>1 DEF KnownRows
  <2>6. /\ known \in [ImageRows -> ImageRow] /\ RowsOk(known) /\ n \notin MediaIn(known)
    BY <2>2, <2>3, SessionKnows
  <2> HIDE DEF known
  <2>7. Exists(known, r) /\ known[r].media = 0 BY <2>4, <2>5, ImageMarks DEF Exists
  <2>8. r \in RowsOf(known, n) BY <2>2, <2>6, <2>7, FoundInAnswer
  <2>9. n \notin answer BY <1>6, <2>8 DEF known
  <2>10. madeFrom[n] = Staff BY <2>2, <2>9 DEF ImagesInv, FetchedAll, InStore, Fetched
  <2> QED BY <2>3, <2>10, ImageMarks
<1> QED BY <1>4, <1>5, <1>6 DEF ReconciledAs

LEMMA SettleImagesStep ==
  ASSUME ImagesInv, SettleImages
  PROVE  ImagesInv'
<1> DEFINE answer == imagePush.fetched
           reconciled == Reconciled(SessionRows, images, answer)
<1>1. /\ imagePush.phase = "answered" /\ CanReconcile(SessionRows, images, answer)
      /\ imagePush' = NoPush
      /\ IF Distinct(reconciled) THEN images' = reconciled ELSE UNCHANGED images
      /\ UNCHANGED <<gallery, madeFrom, sameUrl, form, hook, imageBudget, doubled, takenOff, unshown,
                     pushedOut>>
  BY DEF SettleImages, SessionRows
<1>2. imagePush # NoPush BY <1>1, ImageMarks
<1>3. /\ images \in [ImageRows -> ImageRow] /\ answer \in SUBSET MediaIds
      /\ doubled \in [ImageRows -> Nat]
      /\ madeFrom \in [MediaIds -> ImageRows \cup {Staff, NotMade}]
      /\ ImageRowsTrue /\ AllMade /\ MadeOnce /\ RowsFree
  BY <1>2, PushTyped DEF ImagesInv, ImageRowsTrue
<1>4. MadeStays /\ sameUrl \subseteq sameUrl' /\ \A r \in ImageRows : doubled[r] <= doubled'[r]
  BY <1>1, <1>3 DEF MadeStays
<1>5. CASE ~Distinct(reconciled)
  <2>1. UNCHANGED images BY <1>1, <1>5
  <2> HIDE DEF reconciled
  <2> QED BY <1>1, <1>3, <1>4, <2>1, PushEnds
<1>6. CASE Distinct(reconciled)
  <2>1. images' = reconciled BY <1>1, <1>6
  <2>2. /\ reconciled = [r \in ImageRows |-> reconciled[r]]
        /\ \A r \in ImageRows : ReconciledAs(SessionRows, answer, reconciled[r], r)
    <3>1. \A r \in ImageRows : Exists(images, r) => SessionRows[r] \in Image BY <1>2, SessionKnows
    <3> HIDE DEF answer
    <3> QED BY <1>1, <1>3, <3>1, AnsweredRows DEF reconciled
  <2> HIDE DEF reconciled
  <2>3. \A r \in ImageRows :
          /\ reconciled[r] \in ImageRow /\ reconciled[r].media \in MediaIn(images) \cup answer \cup {0}
          /\ reconciled[r].status = "pending_remove" => reconciled[r].media # 0
          /\ \A m \in MediaIds : /\ reconciled[r].status = "pending_remove"
                                 /\ reconciled[r].media = m /\ madeFrom[m] = Staff
               => m \in takenOff \cup unshown
    <3> TAKE r \in ImageRows
    <3>1. \A s \in ImageRows : Exists(images, s) => SessionRows[s] \in Image BY <1>2, SessionKnows
    <3>2. ReconciledAs(SessionRows, answer, reconciled[r], r) BY <2>2
    <3> HIDE DEF answer
    <3> QED BY <1>3, <3>1, <3>2, ReconciledRow
  <2>4. images' \in [ImageRows -> ImageRow] BY <2>1, <2>2, <2>3
  <2>5. /\ InStore' = gallery /\ InRows' \subseteq InRows \cup answer \cup {0}
        /\ gallery \subseteq InStore /\ answer \subseteq InStore
    <3>1. MediaIn(images') \subseteq MediaIn(images) \cup answer \cup {0}
      BY <2>1, <2>3, <2>4 DEF MediaIn
    <3> QED BY <1>1, <1>2, <3>1 DEF InStore, InRows, Fetched, CachedMedia
  <2>6. (InStore \cup InRows)' \subseteq InStore \cup InRows \cup {0} BY <2>5
  <2>7. \A r \in ImageRows : /\ Cardinality(Held(r)') <= 1 + doubled'[r]
                             /\ MayMake(r) => MayMake(r)'
    <3> TAKE r \in ImageRows
    <3>1. Held(r)' \subseteq Held(r) \cup ({0} \cap MadeOf(r)') BY <1>3, <1>4, <2>6, StillMade
    <3>2. {0} \cap MadeOf(r)' = {} BY ImageMarks DEF MadeOf
    <3>3. Held(r)' \subseteq Held(r) BY <3>1, <3>2
    <3>4. doubled[r] \in Nat /\ doubled'[r] \in Nat /\ doubled[r] <= doubled'[r] BY <1>1, <1>3
    <3> QED BY <1>3, <3>3, <3>4, LessHeld DEF MadeOnce
  <2>8. MadeOnce' BY <2>7 DEF MadeOnce
  <2>9. RowsFree'
    <3> SUFFICES ASSUME NEW r \in ImageRows, Exists(images', r), images'[r].media = 0
                 PROVE  MayMake(r)'
      BY DEF RowsFree
    <3>1. /\ ReconciledAs(SessionRows, answer, reconciled[r], r)
          /\ reconciled[r] # NoImage /\ reconciled[r].media = 0
      BY <2>1, <2>2 DEF Exists
    <3>2. MayMake(r) BY <1>2, <3>1, SettledFree
    <3> QED BY <2>7, <3>2
  <2>10. PushFree' /\ FetchedAll' BY <1>1 DEF PushFree, FetchedAll
  <2>11. ImageRowsTrue'
    <3>1. RowsOk(images)' BY <2>1, <2>3, <2>4 DEF RowsOk
    <3> QED BY <1>1, <1>3, <2>4, <3>1 DEF ImageRowsTrue, RowsOk
  <2>12. AllMade' BY <1>1, <1>3, <2>6, ImageMarks DEF AllMade
  <2>13. MarkedTaken'
    <3>1. Marked(images)' BY <1>1, <2>1, <2>3, <2>4 DEF Marked
    <3> QED BY <1>1, <3>1 DEF MarkedTaken
  <2>14. Distinct(images)' /\ StoreImagesKept'
    BY <1>1, <1>6, <2>1 DEF ImagesInv, Distinct, StoreImagesKept
  <2> QED BY <2>8, <2>9, <2>10, <2>11, <2>12, <2>13, <2>14 DEF ImagesInv
<1> QED BY <1>5, <1>6

LEMMA AbandonImagesStep ==
  ASSUME ImagesInv, AbandonImages
  PROVE  ImagesInv'
<1>1. /\ imagePush' = NoPush
      /\ UNCHANGED <<images, gallery, madeFrom, sameUrl, form, hook, doubled, takenOff, unshown,
                     pushedOut>>
  BY DEF AbandonImages
<1>2. /\ madeFrom \in [MediaIds -> ImageRows \cup {Staff, NotMade}]
      /\ doubled \in [ImageRows -> Nat]
  BY DEF ImagesInv, ImageRowsTrue
<1>3. MadeStays /\ \A r \in ImageRows : doubled[r] <= doubled'[r] BY <1>1, <1>2 DEF MadeStays
<1> QED BY <1>1, <1>2, <1>3, PushEnds

(* As many more may be made of a row as are known more of it. *)
LEMMA MoreHeld ==
  ASSUME NEW r \in ImageRows, doubled[r] \in Nat, NEW more, IsFiniteSet(more),
         doubled'[r] = doubled[r] + Cardinality(more), Held(r)' \subseteq Held(r) \cup more
  PROVE  /\ MayMake(r) => MayMake(r)'
         /\ Cardinality(Held(r)) <= 1 + doubled[r] => Cardinality(Held(r)') <= 1 + doubled'[r]
<1>1. /\ IsFiniteSet(Held(r) \cup more) /\ Cardinality(more) \in Nat
      /\ Cardinality(Held(r) \cup more)
           = Cardinality(Held(r)) + Cardinality(more) - Cardinality(Held(r) \cap more)
  BY HeldCounts, FS_Union, FS_CardinalityType
<1>2. Cardinality(Held(r) \cap more) \in Nat
  <2>1. IsFiniteSet(Held(r) \cap more) BY HeldCounts, FS_Intersection
  <2> QED BY <2>1, FS_CardinalityType
<1>3. Cardinality(Held(r)') \in Nat /\ Cardinality(Held(r)') <= Cardinality(Held(r) \cup more)
  BY <1>1, FS_Subset, FS_CardinalityType
<1>4. Cardinality(Held(r)) \in Nat BY HeldCounts
<1>5. Cardinality(Held(r)') <= Cardinality(Held(r)) + Cardinality(more) BY <1>1, <1>2, <1>3, <1>4
<1> HIDE DEF Held
<1> QED BY <1>1, <1>3, <1>4, <1>5 DEF MayMake

\* What a webhook makes of a row.
ImportedAs(r, row) ==
  \/ /\ row.media \in Unknown(images, hook) /\ row.media # 0
     /\ Number(Unknown(images, hook), FreshRows)[row.media] = r
  \/ /\ row.media \in hook /\ row.media # 0 /\ r \in RowsOf(images, row.media)
  \/ row = NoImage
  \/ /\ row = images[r] /\ \A m \in hook : r \notin RowsOf(images, m)

LEMMA ImportedRow ==
  ASSUME ImagesInv, NEW r \in ImageRows, NEW row, ReconciledAs(images, hook, row, r)
  PROVE  KnownRows(images) = images /\ ImportedAs(r, row)
<1>1. images \in [ImageRows -> ImageRow] /\ hook \subseteq MediaIds BY DEF ImagesInv, ImageRowsTrue
<1>2. KnownRows(images) = images BY <1>1 DEF KnownRows, Exists
<1>3. CASE /\ row.media \in Unknown(images, hook)
           /\ Number(Unknown(images, hook), FreshRows)[row.media] = r
  BY <1>1, <1>2, <1>3, ImageMarks DEF ImportedAs, Unknown
<1>4. ASSUME NEW m \in hook, r \in RowsOf(images, m), Exists(images, r),
             row = TakenOver(images[r], images[r], m)
      PROVE  row.media = m /\ m # 0
  <2>1. PICK was \in Image : was = images[r] BY <1>1, <1>4 DEF ImageRow, Exists
  <2> DEFINE took == TakenOver(was, was, m)
  <2>2. m \in MediaIds BY <1>1
  <2>3. took.media = m
    <3>1. /\ was.media = m => took.media = was.media
          /\ was.media # m => took.media = m
      BY <2>2, TakenOverRow
    <3> HIDE DEF took
    <3> QED BY <3>1
  <2>4. row = took BY <1>4, <2>1
  <2> HIDE DEF took
  <2> QED BY <2>2, <2>3, <2>4, ImageMarks
<1>5. ASSUME NEW m \in hook, r \in RowsOf(images, m), Exists(images, r),
             row = TakenOver(images[r], images[r], m)
      PROVE  ImportedAs(r, row)
  <2>1. row.media = m /\ m # 0 BY <1>4, <1>5
  <2> QED BY <1>5, <2>1 DEF ImportedAs
<1>6. CASE row = NoImage BY <1>2, <1>6 DEF ImportedAs
<1>7. CASE row = images[r] /\ \A m \in hook : r \notin RowsOf(images, m)
  BY <1>2, <1>7 DEF ImportedAs
<1> QED BY <1>2, <1>3, <1>5, <1>6, <1>7 DEF ReconciledAs

(* No two rows are found for an attachment. *)
LEMMA RowsOfOne ==
  ASSUME Distinct(images), NEW m, m # 0, NEW r \in RowsOf(images, m), NEW s \in RowsOf(images, m)
  PROVE  r = s
<1> DEFINE byId == {q \in ImageRows : Exists(images, q) /\ images[q].media = m}
           byUrl == {q \in Shown(images) : images[q].media = 0 /\ madeFrom[m] = q /\ m \in sameUrl}
<1>1. RowsOf(images, m) = IF byId # {} THEN byId ELSE byUrl BY DEF RowsOf
<1>2. \A p, q \in byId : p = q BY DEF Distinct
<1>3. \A p, q \in byUrl : p = q OBVIOUS
<1> HIDE DEF byId, byUrl
<1> QED BY <1>1, <1>2, <1>3

LEMMA ImportedDistinct ==
  ASSUME ImagesInv, NEW imported \in [ImageRows -> ImageRow],
         \A r \in ImageRows : ImportedAs(r, imported[r])
  PROVE  Distinct(imported)
<1> SUFFICES ASSUME NEW r \in ImageRows, NEW s \in ImageRows, NEW m, m # 0,
                    imported[r].media = m, imported[s].media = m
             PROVE  r = s
  BY DEF Distinct
<1>1. images \in [ImageRows -> ImageRow] /\ Distinct(images) BY DEF ImagesInv, ImageRowsTrue
<1>2. ASSUME NEW q \in ImageRows, imported[q].media = m
      PROVE  \/ /\ m \in hook /\ RowsOf(images, m) = {}
                /\ Number(Unknown(images, hook), FreshRows)[m] = q
             \/ m \in hook /\ q \in RowsOf(images, m)
             \/ m \notin hook /\ images[q].media = m
  <2>1. KnownRows(images) = images BY <1>1 DEF KnownRows, Exists
  <2>2. CASE m \in Unknown(images, hook) /\ Number(Unknown(images, hook), FreshRows)[m] = q
    BY <2>1, <2>2 DEF Unknown
  <2>3. CASE imported[q] = images[q] /\ \A n \in hook : q \notin RowsOf(images, n)
    <3>1. Exists(images, q) /\ images[q].media = m BY <1>2, <2>3, ImageMarks DEF Exists
    <3>2. q \in RowsOf(images, m) BY <3>1 DEF RowsOf
    <3> QED BY <2>3, <3>1, <3>2
  <2>4. imported[q] # NoImage BY <1>2, ImageMarks
  <2> QED BY <1>2, <2>2, <2>3, <2>4 DEF ImportedAs
<1>3. \/ /\ m \in hook /\ RowsOf(images, m) = {}
         /\ Number(Unknown(images, hook), FreshRows)[m] = r
      \/ m \in hook /\ r \in RowsOf(images, m)
      \/ m \notin hook /\ images[r].media = m
  BY <1>2
<1>4. \/ /\ m \in hook /\ RowsOf(images, m) = {}
         /\ Number(Unknown(images, hook), FreshRows)[m] = s
      \/ m \in hook /\ s \in RowsOf(images, m)
      \/ m \notin hook /\ images[s].media = m
  BY <1>2
<1>5. r \in RowsOf(images, m) /\ s \in RowsOf(images, m) => r = s BY <1>1, RowsOfOne
<1>6. images[r].media = m /\ images[s].media = m => r = s BY <1>1 DEF Distinct
<1> QED BY <1>3, <1>4, <1>5, <1>6

LEMMA ImportImagesStep ==
  ASSUME ImagesInv, ImportImages
  PROVE  ImagesInv'
<1> DEFINE reconciled == Reconciled(images, images, hook)
           more(r) == {m \in hook \ gallery : madeFrom[m] = r}
<1>1. /\ hook' = {} /\ CanReconcile(images, images, hook) /\ images' = reconciled
      /\ doubled' = [r \in ImageRows |-> doubled[r] + Cardinality(more(r))]
      /\ UNCHANGED <<gallery, madeFrom, sameUrl, form, imagePush, takenOff, unshown, pushedOut>>
  BY DEF ImportImages
<1>2. /\ images \in [ImageRows -> ImageRow] /\ RowsOk(images) /\ hook \in SUBSET MediaIds
      /\ doubled \in [ImageRows -> Nat]
      /\ madeFrom \in [MediaIds -> ImageRows \cup {Staff, NotMade}]
      /\ ImageRowsTrue /\ AllMade /\ MadeOnce /\ RowsFree /\ PushFree
  BY DEF ImagesInv, ImageRowsTrue
<1>3. MadeStays /\ sameUrl \subseteq sameUrl' BY <1>1 DEF MadeStays
<1>4. \A r \in ImageRows : Exists(images, r) => images[r] \in Image BY <1>2 DEF Exists, ImageRow
<1>5. /\ reconciled = [r \in ImageRows |-> reconciled[r]]
      /\ \A r \in ImageRows : ReconciledAs(images, hook, reconciled[r], r)
  BY <1>1, <1>2, <1>4, AnsweredRows DEF reconciled
<1> HIDE DEF reconciled
<1>6. \A r \in ImageRows :
        /\ reconciled[r] \in ImageRow /\ reconciled[r].media \in MediaIn(images) \cup hook \cup {0}
        /\ reconciled[r].status = "pending_remove" => reconciled[r].media # 0
        /\ \A m \in MediaIds : /\ reconciled[r].status = "pending_remove"
                               /\ reconciled[r].media = m /\ madeFrom[m] = Staff
             => m \in takenOff \cup unshown
  <2> TAKE r \in ImageRows
  <2>1. ReconciledAs(images, hook, reconciled[r], r) BY <1>5
  <2> QED BY <1>2, <1>4, <2>1, ReconciledRow
<1>7. \A r \in ImageRows : ImportedAs(r, reconciled[r]) BY <1>5, ImportedRow
<1>8. reconciled \in [ImageRows -> ImageRow] BY <1>5, <1>6
<1>9. /\ InStore' = InStore /\ InRows' \subseteq InRows \cup hook \cup {0}
      /\ gallery \subseteq InStore /\ MediaIn(images) \subseteq InRows
  <2>1. MediaIn(images') \subseteq MediaIn(images) \cup hook \cup {0}
    BY <1>1, <1>6, <1>8 DEF MediaIn
  <2> QED BY <1>1, <2>1 DEF InStore, InRows, Fetched, CachedMedia
<1>10. \A r \in ImageRows : /\ Cardinality(Held(r)') <= 1 + doubled'[r]
                            /\ MayMake(r) => MayMake(r)'
  <2> TAKE r \in ImageRows
  <2> DEFINE New == (hook \ gallery) \cup {0}
  <2>1. (InStore \cup InRows)' \subseteq InStore \cup InRows \cup New BY <1>9
  <2>2. Held(r)' \subseteq Held(r) \cup (New \cap MadeOf(r)') BY <1>2, <1>3, <2>1, StillMade
  <2>3. New \cap MadeOf(r)' \subseteq more(r) BY <1>1, ImageMarks DEF MadeOf
  <2>4. more(r) \subseteq MediaIds BY <1>2
  <2>5. IsFiniteSet(more(r)) BY <2>4, ImagesAssumption, FS_Subset
  <2>6. doubled[r] \in Nat /\ doubled'[r] = doubled[r] + Cardinality(more(r)) BY <1>1, <1>2
  <2>7. Held(r)' \subseteq Held(r) \cup more(r) BY <2>2, <2>3
  <2>8. Cardinality(Held(r)) <= 1 + doubled[r] BY <1>2 DEF MadeOnce
  <2> HIDE DEF more
  <2> QED BY <2>5, <2>6, <2>7, <2>8, MoreHeld
<1>11. \A r \in ImageRows : Exists(images', r) /\ images'[r].media = 0
         => /\ Exists(images, r) /\ images[r].media = 0
            /\ \A m \in hook : r \notin RowsOf(images, m)
  <2> TAKE r \in ImageRows
  <2>1. ImportedAs(r, reconciled[r]) /\ images'[r] = reconciled[r] BY <1>1, <1>7
  <2> QED BY <2>1 DEF ImportedAs, Exists
<1>12. RowsFree'
  <2> SUFFICES ASSUME NEW r \in ImageRows, Exists(images', r), images'[r].media = 0, ~MayMake(r)
               PROVE  FoundByUrl(r)'
    BY <1>10 DEF RowsFree
  <2>1. Exists(images, r) /\ images[r].media = 0 /\ \A m \in hook : r \notin RowsOf(images, m)
    BY <1>11
  <2>2. PICK n \in MadeOf(r) \cap sameUrl \cap InStore : n \notin InRows
    BY <1>2, <2>1 DEF RowsFree, FoundByUrl
  <2>3. r \in RowsOf(images, n) BY <1>2, <1>9, <2>1, <2>2, FoundInAnswer
  <2>4. n \notin hook /\ n # 0 BY <2>1, <2>2, <2>3, ImageMarks DEF MadeOf
  <2>5. n \notin InRows' /\ n \in MadeOf(r)' /\ n \in sameUrl' \cap InStore'
    BY <1>1, <1>9, <2>2, <2>4 DEF MadeOf
  <2> QED BY <2>5 DEF FoundByUrl
<1>13. PushFree'
  <2>1. \A r \in ImageRows : MayMake(r) => MayMake(r)' BY <1>10
  <2>2. imagePush # NoPush =>
          \A r \in ImageRows : /\ Exists(imagePush.cached, r)
                               /\ Exists(images', r) /\ images'[r].media = 0
            => (Exists(images, r) /\ images[r].media = 0) \/ MayMake(r)'
    BY <1>11
  <2> QED BY <1>1, <1>2, <1>3, <2>1, <2>2, StillPushFree
<1>14. ImageRowsTrue'
  <2>1. RowsOk(images)' BY <1>1, <1>6, <1>8 DEF RowsOk
  <2>2. doubled' \in [ImageRows -> Nat]
    <3>1. \A r \in ImageRows : Cardinality(more(r)) \in Nat
      <4> TAKE r \in ImageRows
      <4>1. more(r) \subseteq MediaIds BY <1>2
      <4> QED BY <4>1, ImagesAssumption, FS_Subset, FS_CardinalityType
    <3> HIDE DEF more
    <3> QED BY <1>1, <1>2, <3>1
  <2> QED BY <1>1, <1>2, <1>8, <2>1, <2>2 DEF ImageRowsTrue, RowsOk
<1>15. AllMade' /\ FetchedAll' BY <1>1, <1>9, ImageMarks DEF ImagesInv, AllMade, FetchedAll
<1>16. MarkedTaken'
  <2>1. Marked(images)' BY <1>1, <1>6, <1>8 DEF Marked
  <2>2. imagePush # NoPush => Marked(imagePush.cached)' BY <1>1 DEF ImagesInv, MarkedTaken, Marked
  <2> QED BY <1>1, <2>1, <2>2 DEF MarkedTaken
<1>17. Distinct(images)' /\ StoreImagesKept'
  <2>1. Distinct(reconciled) BY <1>7, <1>8, ImportedDistinct
  <2> QED BY <1>1, <2>1 DEF ImagesInv, Distinct, StoreImagesKept
<1>18. MadeOnce' BY <1>10 DEF MadeOnce
<1> QED BY <1>12, <1>13, <1>14, <1>15, <1>16, <1>17, <1>18 DEF ImagesInv

LEMMA ImagesStart == ASSUME ImagesInit PROVE ImagesInv
<1> DEFINE row == [status |-> "synced", media |-> 1, url |-> "store"]
<1>1. /\ images = [r \in ImageRows |-> IF r = 1 THEN row ELSE NoImage]
      /\ gallery = {1} /\ madeFrom = [m \in MediaIds |-> IF m = 1 THEN Staff ELSE NotMade]
      /\ sameUrl = {} /\ form = NoForm /\ imagePush = NoPush /\ hook = {}
      /\ doubled = [r \in ImageRows |-> 0] /\ takenOff = {} /\ unshown = {}
      /\ pushedOut = [known |-> {}, raced |-> {}]
  BY DEF ImagesInit
<1>2. row \in Image /\ row.media = 1 /\ row.status = "synced" /\ 1 \in MediaIds /\ 1 \in ImageRows
  BY ImagesAssumption DEF Image, ImageStatuses, Urls
<1> HIDE DEF row
<1>3. \A r \in ImageRows : images[r] = IF r = 1 THEN row ELSE NoImage BY <1>1
<1>4. images \in [ImageRows -> ImageRow] BY <1>1, <1>2 DEF ImageRow
<1>5. ImageRowsTrue
  <2>1. form \in [DOMAIN form -> Image] /\ DOMAIN form \subseteq ImageRows /\ RowsOk(form)
    BY <1>1, ImageMarks DEF RowsOk, NoForm
  <2>2. RowsOk(images) BY <1>2, <1>3, <1>4, ImageMarks DEF RowsOk
  <2>3. madeFrom \in [MediaIds -> ImageRows \cup {Staff, NotMade}] /\ gallery \subseteq MediaIds
    BY <1>1, <1>2
  <2>4. hook \subseteq MediaIds /\ sameUrl \subseteq MediaIds /\ doubled \in [ImageRows -> Nat]
    BY <1>1
  <2> QED BY <1>1, <1>4, <2>1, <2>2, <2>3, <2>4 DEF ImageRowsTrue
<1>6. InStore = {1} /\ InRows \subseteq {0, 1}
  <2>1. MediaIn(images) \subseteq {0, 1} BY <1>2, <1>3, <1>4, ImageMarks DEF MediaIn
  <2>2. MediaIn(form) = {} BY <1>1, ImageMarks DEF MediaIn
  <2> QED BY <1>1, <2>1, <2>2 DEF InStore, InRows, Fetched, CachedMedia
<1>7. AllMade BY <1>1, <1>6, ImageMarks DEF AllMade
<1>8. FetchedAll /\ PushFree BY <1>1 DEF FetchedAll, PushFree
<1>9. \A r \in ImageRows : Cardinality(Held(r)) = 0 /\ doubled[r] = 0
  <2> TAKE r \in ImageRows
  <2>1. MadeOf(r) = {} BY <1>1, ImageMarks DEF MadeOf
  <2> QED BY <1>1, <2>1, FS_EmptySet DEF Held
<1>10. MadeOnce /\ RowsFree BY <1>9 DEF MadeOnce, RowsFree, MayMake
<1>11. MarkedTaken BY <1>1, <1>2, <1>3, <1>4, ImageMarks DEF MarkedTaken, Marked
<1>12. Distinct(images) BY <1>2, <1>3, ImageMarks DEF Distinct
<1>13. StoreImagesKept BY <1>1 DEF StoreImagesKept
<1> QED BY <1>5, <1>7, <1>8, <1>10, <1>11, <1>12, <1>13 DEF ImagesInv

LEMMA ImagesStep == ASSUME ImagesInv, [ImagesNext]_imageVars PROVE ImagesInv'
<1>1. CASE UNCHANGED imageVars
  <2>1. UNCHANGED <<images, gallery, madeFrom, sameUrl, form, imagePush, hook, doubled, takenOff,
                    unshown, pushedOut>>
    BY <1>1 DEF imageVars
  <2>2. InStore' = InStore /\ InRows' = InRows BY <2>1 DEF InStore, InRows, Fetched, CachedMedia
  <2>3. /\ MadeOnce'
        /\ \A r \in ImageRows : /\ MayMake(r) => MayMake(r)'
                                /\ MayMake(r) \/ FoundByUrl(r) => MayMake(r)' \/ FoundByUrl(r)'
        /\ MadeStays
    BY <2>1, <2>2, NothingNew
  <2>4. RowsFree' /\ PushFree' BY <2>1, <2>3, RowsStand
  <2>5. ImageRowsTrue' /\ AllMade' /\ FetchedAll'
    BY <2>1, <2>2 DEF ImagesInv, ImageRowsTrue, AllMade, FetchedAll, RowsOk
  <2>6. MarkedTaken' /\ Distinct(images)' /\ StoreImagesKept'
    BY <2>1 DEF ImagesInv, MarkedTaken, Marked, Distinct, StoreImagesKept
  <2> QED BY <2>3, <2>4, <2>5, <2>6 DEF ImagesInv
<1> QED
  BY <1>1, UploadImageFileStep, OpenFormStep, SaveFormStep, FetchGalleryStep, UploadImageStep,
     SendGalleryStep, SettleImagesStep, AbandonImagesStep, StaffAddsStep, StaffRemovesStep,
     ImportImagesStep DEF ImagesNext

LEMMA ImagesShown == ASSUME ImagesInv PROVE ImagesTypeOK /\ ImagesSound
<1>1. ImageRowsTrue /\ MadeOnce BY DEF ImagesInv
<1>2. ImagesTypeOK
  <2>1. imagePush.phase \in {"idle", "building", "answered"} BY <1>1, PushTyped, ImageMarks
  <2> QED BY <1>1, <2>1 DEF ImagesTypeOK, ImageRowsTrue, ImageRow
<1>3. ShownOnce
  <2> SUFFICES ASSUME NEW r \in ImageRows
               PROVE  Cardinality(Copies(r)) <= 1 + doubled[r]
    BY DEF ShownOnce
  <2>1. Copies(r) \subseteq Held(r) BY <1>1 DEF Copies, Held, MadeOf, InStore, ImageRowsTrue
  <2>2. /\ Cardinality(Copies(r)) \in Nat /\ Cardinality(Held(r)) \in Nat
        /\ Cardinality(Copies(r)) <= Cardinality(Held(r))
    BY <2>1, HeldCounts, FS_Subset, FS_CardinalityType
  <2>3. Cardinality(Held(r)) <= 1 + doubled[r] /\ doubled[r] \in Nat
    BY <1>1 DEF MadeOnce, ImageRowsTrue
  <2> HIDE DEF Held, Copies
  <2> QED BY <2>2, <2>3
<1> QED BY <1>2, <1>3 DEF ImagesInv, ImagesSound

(* The store shows an image of the ERP once, and once more for every copy the ERP was made to *)
(* forget; what its staff added leaves it only as ImagesSound says, and no two rows are ever *)
(* the same attachment: for any rows, attachments, forms, faults and changes of the store *)
(* (build_woocommerce_product_media_payload, reconcile_product_images_from_remote). *)
THEOREM ImagesTrue == ImagesSpec => [](ImagesTypeOK /\ ImagesSound)
<1>1. ImagesInit => ImagesInv BY ImagesStart
<1>2. ImagesInv /\ [ImagesNext]_imageVars => ImagesInv' BY ImagesStep
<1>3. ImagesInv => ImagesTypeOK /\ ImagesSound BY ImagesShown
<1> QED BY <1>1, <1>2, <1>3, PTL DEF ImagesSpec

\* What was removed stays so, but for a form that shows it or a first push under way.
RemovalsStay ==
  \A r \in ImageRows :
    /\ images[r].status = "pending_remove" /\ Exists(images', r)
    /\ images'[r].status # "pending_remove"
    => \/ r \in DOMAIN form
       \/ imagePush # NoPush /\ imagePush.cached[r].status = "pending_add"

LEMMA RemovalsStayStep == ASSUME ImagesInv, [ImagesNext]_imageVars PROVE [RemovalsStay]_imageVars
<1> SUFFICES ASSUME ImagesNext PROVE RemovalsStay OBVIOUS
<1> SUFFICES ASSUME NEW r \in ImageRows, images[r].status = "pending_remove", Exists(images', r),
                    images'[r].status # "pending_remove", r \notin DOMAIN form
             PROVE  imagePush # NoPush /\ imagePush.cached[r].status = "pending_add"
  BY DEF RemovalsStay
<1>1. Exists(images, r) /\ images \in [ImageRows -> ImageRow] /\ images[r] \in Image
  BY ImageMarks DEF Exists, ImagesInv, ImageRowsTrue, ImageRow
<1>2. images'[r] # images[r] OBVIOUS
<1>3. CASE OpenForm \/ FetchGallery \/ SendGallery \/ AbandonImages \/ StaffAdds \/ StaffRemoves
           \/ SendHook
  <2>1. images' = images
    BY <1>3 DEF OpenForm, FetchGallery, SendGallery, AbandonImages, StaffAdds, StaffRemoves, SendHook
  <2> QED BY <1>2, <2>1
<1>4. CASE UploadImageFile
  <2>1. PICK s \in FreshRows :
          images' = [images EXCEPT ![s] = [status |-> "pending_add", media |-> 0, url |-> "file"]]
    BY <1>4 DEF UploadImageFile
  <2>2. s # r BY <1>1 DEF FreshRows
  <2> QED BY <1>1, <1>2, <2>1, <2>2
<1>5. CASE SaveForm
  <2>1. UNCHANGED images \/ SavedAs(r) BY <1>5, SaveFormRows
  <2>2. r \notin FreshRows BY <1>1 DEF FreshRows
  <2> QED BY <1>2, <2>1, <2>2 DEF SavedAs, Exists
<1>6. CASE UploadImage
  <2>1. PICK s \in ToSend("file"), m \in NewMedia :
          images' = images \/ images' = Uploaded(images, s, m)
    BY <1>6 DEF UploadImage, Uploaded
  <2>2. s \in ImageRows /\ m \in MediaIds BY <2>1 DEF ToSend, Shown, NewMedia
  <2>3. images' = Uploaded(images, s, m) BY <1>2, <2>1
  <2>4. CASE s = r
    <3> DEFINE after == Uploaded(images, r, m)
    <3>1. after[r].status = images[r].status BY <1>1, <2>2, UploadedImage
    <3>2. images' = after BY <2>3, <2>4
    <3> HIDE DEF after
    <3> QED BY <3>1, <3>2
  <2>5. CASE s # r
    <3>1. Uploaded(images, s, m)[r] = images[r] BY <1>1, <2>2, <2>5 DEF Uploaded
    <3> QED BY <1>2, <2>3, <3>1
  <2> QED BY <2>4, <2>5
<1>7. CASE SettleImages
  <2> DEFINE reconciled == Reconciled(SessionRows, images, imagePush.fetched)
  <2>1. /\ imagePush.phase = "answered" /\ CanReconcile(SessionRows, images, imagePush.fetched)
        /\ images' = reconciled \/ images' = images
    BY <1>7 DEF SettleImages, SessionRows
  <2>2. imagePush # NoPush /\ imagePush.fetched \in SUBSET MediaIds /\ ImageRowsTrue
    BY <2>1, ImageMarks, PushTyped DEF ImagesInv
  <2>3. \A s \in ImageRows : Exists(images, s) => SessionRows[s] \in Image BY <2>2, SessionKnows
  <2>4. ReconciledAs(SessionRows, imagePush.fetched, reconciled[r], r)
    BY <2>1, <2>2, <2>3, AnsweredRows
  <2> HIDE DEF reconciled
  <2>5. \/ images[r].status # "pending_remove" \/ reconciled[r] = NoImage
        \/ reconciled[r].status = "pending_remove" \/ SessionRows[r].status = "pending_add"
    BY <2>2, <2>3, <2>4, ReconciledRow
  <2>6. images' = reconciled BY <1>2, <2>1
  <2>7. SessionRows[r].status = "pending_add" BY <2>5, <2>6 DEF Exists
  <2> QED BY <2>2, <2>7 DEF SessionRows
<1>8. CASE ImportImages
  <2> DEFINE reconciled == Reconciled(images, images, hook)
  <2>1. CanReconcile(images, images, hook) /\ images' = reconciled BY <1>8 DEF ImportImages
  <2>2. hook \in SUBSET MediaIds /\ ImageRowsTrue BY DEF ImagesInv, ImageRowsTrue
  <2>3. \A s \in ImageRows : Exists(images, s) => images[s] \in Image BY <1>1 DEF Exists, ImageRow
  <2>4. ReconciledAs(images, hook, reconciled[r], r) BY <2>1, <2>2, <2>3, AnsweredRows
  <2> HIDE DEF reconciled
  <2>5. \/ images[r].status # "pending_remove" \/ reconciled[r] = NoImage
        \/ reconciled[r].status = "pending_remove" \/ images[r].status = "pending_add"
    BY <2>2, <2>3, <2>4, ReconciledRow
  <2> QED BY <2>1, <2>5 DEF Exists
<1> QED BY <1>3, <1>4, <1>5, <1>6, <1>7, <1>8 DEF ImagesNext

(* What an operator removed is only brought back by a form that shows it, or by the answer to *)
(* the push that first sent it, for any rows, forms and faults *)
(* (reconcile_product_images_from_remote). *)
THEOREM RemovalStays == ImagesSpec => RemovalKept
<1> DEFINE Stays == \A r \in ImageRows :
                      /\ images[r].status = "pending_remove" /\ Exists(images', r)
                      /\ images'[r].status # "pending_remove"
                      => \/ r \in DOMAIN form
                         \/ imagePush # NoPush /\ imagePush.cached[r].status = "pending_add"
<1>1. ImagesInit => ImagesInv BY ImagesStart
<1>2. ImagesInv /\ [ImagesNext]_imageVars => ImagesInv' BY ImagesStep
<1>3. ImagesInv /\ [ImagesNext]_imageVars => [Stays]_imageVars BY RemovalsStayStep DEF RemovalsStay
<1>4. RemovalKept <=> [][Stays]_imageVars BY DEF RemovalKept
<1> HIDE DEF Stays
<1> QED BY <1>1, <1>2, <1>3, <1>4, PTL DEF ImagesSpec
=============================================================================
