------------------------------ MODULE MCBackOffice ------------------------------
(* Small instances of the components, for TLC.  No symmetry is declared: permuting *)
(* the state of all the components costs more than the states it would save. *)
EXTENDS BackOffice

CONSTANTS s1, s2, p1, p2

EntryQuantities == {-1, 2}
BalanceDeltas == {[hand |-> 2, reserved |-> 0], [hand |-> -1, reserved |-> 0],
                  [hand |-> 0, reserved |-> 1], [hand |-> 0, reserved |-> -1],
                  [hand |-> -1, reserved |-> -1]}
BonusAndDeduction == {1, -1}
\* A sale with the vendor's share, and lines that do not balance.
Drafts == {{Debit("bank", 1), Vendors(-1)}, {Debit("bank", 2), Debit("sales", -1)}}
\* Two orders of the store, and their buyers.
SoldWares == [t1 |-> "plain", t2 |-> "sized"]
SoldTo == [t1 |-> "ann", t2 |-> "bob"]

\* Commission rules: a vendor's own beside one for all, of a product or of a category.
Rule(v, c, p) == [vendor |-> v, category |-> c, product |-> p]
Rates == {{}, {Rule(None, None, "other")}, {Rule(None, "books", "this")}}
  \cup {{Rule(v, None, "this"), Rule(None, None, "this")} : v \in {s1, s2}}
  \cup {{Rule(v, None, "other"), Rule(None, "toys", None)} : v \in {s1, s2}}
  \cup {{Rule(v, "books", None)} : v \in {s1, s2}}
BothKnow == <<"a", "b">>
TwoVendors == <<s1, s2>>
=============================================================================
