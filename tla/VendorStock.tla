------------------------------ MODULE VendorStock ------------------------------
(***************************************************************************)
(* The inventory a vendor keeps in a warehouse of the company, one product *)
(* of it: immutable movements (vendor_inventory_movements) and the balance *)
(* projected from them (vendor_inventory_balances).                        *)
(*                                                                         *)
(* Unlike the shop's stock this one is locked: a session that posts a      *)
(* movement selects the balance FOR UPDATE and keeps the row until it      *)
(* commits.  The first movement finds no row to lock; it inserts one, and  *)
(* only the unique constraint of the balance stands between two of them.   *)
(***************************************************************************)
EXTENDS Integers, FiniteSets

CONSTANTS StockSessions,  \* requests
          MoveKeys,       \* idempotency keys of movements
          Deltas          \* movements: of the quantity on hand, and of the reserved one

ASSUME VendorStockAssumption == Deltas \subseteq [hand: Int, reserved: Int]

VARIABLES balance,   \* the row of the balance, and whether there is one
          moved,     \* the sum of the committed movements
          posted,    \* the keys of the committed movements
          posting    \* what every session is doing

vendorStockVars == <<balance, moved, posted, posting>>

-----------------------------------------------------------------------------
Quantities == [hand: Int, reserved: Int]
Nothing == [hand |-> 0, reserved |-> 0]
Plus(q, d) == [hand |-> q.hand + d.hand, reserved |-> q.reserved + d.reserved]

NoPosting == [phase |-> "idle"]
Phases == {"looking", "inserting", "locked"}
Posting == [phase: Phases, key: MoveKeys, delta: Deltas, before: Quantities]

\* The sessions that hold the row of the balance: nobody else can lock, update or insert it.
Holders == {s \in StockSessions : posting[s].phase = "locked"}
\* Faulty: the row is read without FOR UPDATE.
RowFreeAlways(s) == TRUE

RowFree(s) == Holders \subseteq {s}

\* What a movement may not leave behind.
Sufficient(q) == q.reserved >= 0 /\ q.hand >= 0 /\ q.hand - q.reserved >= 0

-----------------------------------------------------------------------------
VendorStockInit == /\ balance = [there |-> FALSE, quantity |-> Nothing]
                   /\ moved = Nothing /\ posted = {}
                   /\ posting = [s \in StockSessions |-> NoPosting]

\* A request is validated: its key was not posted before.
BeginMove(s) == \E k \in MoveKeys \ posted, d \in Deltas :
  /\ posting[s] = NoPosting
  /\ posting' = [posting EXCEPT ![s] = [phase |-> "looking", key |-> k, delta |-> d,
                                        before |-> Nothing]]
  /\ UNCHANGED <<balance, moved, posted>>

\* SELECT ... FOR UPDATE: waits for the row; without one there is nothing to wait for.
LockBalance(s) ==
  /\ posting[s].phase = "looking"
  /\ IF balance.there
     THEN /\ RowFree(s)
          /\ posting' = [posting EXCEPT ![s].phase = "locked", ![s].before = balance.quantity]
     ELSE posting' = [posting EXCEPT ![s].phase = "inserting"]
  /\ UNCHANGED <<balance, moved, posted>>

\* The insert of the first balance: waits for another one, and fails when that commits.
InsertBalance(s) ==
  /\ posting[s].phase = "inserting"
  /\ RowFree(s)
  /\ posting' = IF balance.there THEN [posting EXCEPT ![s] = NoPosting]
                ELSE [posting EXCEPT ![s].phase = "locked"]
  /\ UNCHANGED <<balance, moved, posted>>

\* The quantities are checked and written, and the session commits; a movement that is
\* refused, or whose key was posted meanwhile, is rolled back, a new balance with it.
PostMove(s) ==
  LET p == posting[s]
      after == Plus(p.before, p.delta)
  IN /\ p.phase = "locked"
     /\ posting' = [posting EXCEPT ![s] = NoPosting]
     /\ IF Sufficient(after) /\ p.key \notin posted
        THEN /\ balance' = [there |-> TRUE, quantity |-> after]
             /\ moved' = Plus(moved, p.delta)
             /\ posted' = posted \cup {p.key}
        ELSE UNCHANGED <<balance, moved, posted>>

VendorStockNext == \E s \in StockSessions :
  BeginMove(s) \/ LockBalance(s) \/ InsertBalance(s) \/ PostMove(s)
VendorStockSpec == VendorStockInit /\ [][VendorStockNext]_vendorStockVars

-----------------------------------------------------------------------------
(* The state is what the tables and the sessions can hold. *)
VendorStockTypeOK ==
  /\ balance \in [there: BOOLEAN, quantity: Quantities] /\ moved \in Quantities
  /\ posted \subseteq MoveKeys
  /\ posting \in [StockSessions -> Posting \cup {NoPosting}]

(* However sessions overlap, also when the first two of them find no balance: it is the *)
(* sum of the movements, which is what reconciliation_issues checks of it. *)
BalanceIsSum == balance.quantity = moved

(* Nothing is ever promised that is not there. *)
NeverShort == Sufficient(moved)

(* The balance is true to its movements, and never short. *)
VendorStockSound == BalanceIsSum /\ NeverShort
=============================================================================
