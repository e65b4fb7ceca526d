----------------------------- MODULE OrderSessions -----------------------------
(***************************************************************************)
(* Sessions of the API that record payments of one order, cancel, return   *)
(* and refund it at the same time.  OrderFinance runs these calls one      *)
(* after the other; here each of them reads the order when it begins and   *)
(* writes when it ends.  The first UPDATE of the order's row locks it      *)
(* until the commit, so two endings never overlap, but nothing locks what  *)
(* was read: paid_minor is written as the value read plus the amount, the  *)
(* status whatever it has become since.                                    *)
(***************************************************************************)
EXTENDS Integers

CONSTANTS PaySessions,  \* requests
          OrderTotal,   \* total_minor
          Amounts,      \* what a payment may be
          MaxOrderCalls \* bound: calls that end

ASSUME OrderSessionsAssumption == /\ OrderTotal \in Nat \ {0} /\ MaxOrderCalls \in Nat
                                  /\ Amounts \subseteq Nat \ {0}

VARIABLES paidMinor,   \* orders.paid_minor
          orderState,  \* orders.status
          payments,    \* the sum of the payments, by status
          calls,       \* what every session read of the order, and is to do
          apart,       \* history: no call ended after one that overlapped it
          paidLate,    \* history: payments that ended after the order was refunded
          ended        \* how many calls ended

orderVars == <<paidMinor, orderState, payments, calls, apart, paidLate, ended>>

-----------------------------------------------------------------------------
OrderStates == {"confirmed", "delivered", "returned", "cancelled", "refunded"}
ClosedStates == {"cancelled", "refunded"}

\* VALID_TRANSITIONS; the statuses between confirmed and delivered are left out.
Reaches == [confirmed |-> {"delivered", "cancelled"}, delivered |-> {"returned", "refunded"},
            returned |-> {"refunded"}, cancelled |-> {}, refunded |-> {}]

NoCall == [kind |-> "none"]
Call == [kind: {"pay"}, amount: Amounts, read: Int, lapped: BOOLEAN]
        \cup [kind: {"change"}, to: OrderStates, lapped: BOOLEAN]

\* record_payment: what it checks of the order it read.
MayBePaid(amount) == orderState \notin ClosedStates /\ paidMinor + amount <= OrderTotal

\* change_order_status: what it checks of the order it read.
MayBecome(to) == to \in Reaches[orderState]

-----------------------------------------------------------------------------
OrderSessionsInit ==
  /\ paidMinor = 0 /\ orderState = "confirmed"
  /\ payments = [paid |-> 0, refunded |-> 0]
  /\ calls = [s \in PaySessions |-> NoCall]
  /\ apart = TRUE /\ paidLate = 0 /\ ended = 0

BeginCall(s, call) ==
  /\ calls[s] = NoCall /\ ended < MaxOrderCalls
  /\ calls' = [calls EXCEPT ![s] = call]
  /\ UNCHANGED <<paidMinor, orderState, payments, apart, paidLate, ended>>

BeginPayment(s) == \E a \in Amounts :
  /\ MayBePaid(a)
  /\ BeginCall(s, [kind |-> "pay", amount |-> a, read |-> paidMinor, lapped |-> FALSE])

BeginChange(s) == \E to \in OrderStates :
  /\ MayBecome(to)
  /\ BeginCall(s, [kind |-> "change", to |-> to, lapped |-> FALSE])

\* A session ends: whoever is still open has read what is no longer so.
EndCall(s) ==
  /\ calls' = [r \in PaySessions |->
                 CASE r = s -> NoCall
                   [] r # s /\ calls[r] # NoCall -> [calls[r] EXCEPT !.lapped = TRUE]
                   [] OTHER -> NoCall]
  /\ apart' = (apart /\ ~calls[s].lapped)
  /\ ended < MaxOrderCalls /\ ended' = ended + 1

EndPayment(s) == LET c == calls[s] IN
  /\ c.kind = "pay"
  /\ EndCall(s)
  /\ paidMinor' = c.read + c.amount
  /\ payments' = [payments EXCEPT !.paid = @ + c.amount]
  /\ paidLate' = IF orderState = "refunded" THEN paidLate + c.amount ELSE paidLate
  /\ UNCHANGED orderState

\* Faulty: the payments of a refunded order stay as they are.
NotReversed(p) == p

\* _reverse_order_finance_postings: the payments of a refunded order.
Reversed(p) == [paid |-> 0, refunded |-> p.refunded + p.paid]

EndChange(s) == LET c == calls[s] IN
  /\ c.kind = "change"
  /\ EndCall(s)
  /\ orderState' = c.to
  /\ IF c.to = "refunded"
     THEN payments' = Reversed(payments) /\ paidMinor' = 0
     ELSE UNCHANGED <<payments, paidMinor>>
  /\ UNCHANGED paidLate

OrderSessionsNext == \E s \in PaySessions :
  BeginPayment(s) \/ BeginChange(s) \/ EndPayment(s) \/ EndChange(s)
OrderSessionsSpec == OrderSessionsInit /\ [][OrderSessionsNext]_orderVars

-----------------------------------------------------------------------------
(* The state is what the table and the sessions can hold. *)
OrderSessionsTypeOK ==
  /\ paidMinor \in Nat /\ orderState \in OrderStates
  /\ payments \in [paid: Nat, refunded: Nat] /\ calls \in [PaySessions -> Call \cup {NoCall}]
  /\ apart \in BOOLEAN /\ paidLate \in Nat /\ ended \in 0..MaxOrderCalls

(* However many payments overlap, paid_minor stays within the total, though more may have *)
(* been paid: it is what was paid as long as no calls overlapped. *)
PaidMinorWithinTotal == /\ paidMinor <= OrderTotal
                        /\ apart => paidMinor = payments.paid

(* A refunded order has nothing left that is paid, but for payments that ended after the *)
(* refund because they had read the order before it. *)
RefundLeavesNothing == orderState = "refunded" => payments.paid <= paidLate

(* A cancelled or refunded order stays what it is, unless the call that changes it had read *)
(* it before. *)
ClosedForGood == [][\A s \in PaySessions :
  (/\ calls[s].kind = "change" /\ calls'[s] = NoCall
   /\ orderState \in ClosedStates /\ orderState' # orderState) => calls[s].lapped]_orderVars

(* What is paid on the order and what was paid for it agree, but for the named exceptions. *)
OrderSessionsSound == PaidMinorWithinTotal /\ RefundLeavesNothing
=============================================================================
