--------------------------- MODULE VendorCatalogue ---------------------------
(***************************************************************************)
(* A product of the marketplace: the vendor on the product row and the one *)
(* on its assignment (vendor_products), its publication, its listing for   *)
(* the online channel, and the commission rule a sale of it is booked by.  *)
(*                                                                         *)
(* The vendor's own pages check that the product is the vendor's, then     *)
(* write; the office may give the product to another one in between.  The  *)
(* other calls read and write without a wait.                              *)
(***************************************************************************)
EXTENDS Integers, FiniteSets

CONSTANTS Merchants,     \* the vendors
          RuleSets,      \* the commission rules there may be, as sets of rules
          MaxGoodsCalls  \* bound: calls

None == "none"

\* A rule is for a vendor, a category and a product, or for any where it names none; there
\* is another category and another product than those of the product here.
RuleType == [vendor : Merchants \cup {None}, category : {None, "toys", "books"},
             product : {None, "this", "other"}]

ASSUME VendorCatalogueAssumption == /\ IsFiniteSet(Merchants) /\ None \notin Merchants
                                    /\ MaxGoodsCalls \in Nat
                                    /\ RuleSets \subseteq SUBSET RuleType

VARIABLES wareRow,     \* products: the row's vendor, category and status
          assigned,    \* vendor_products: at most one row for a product
          channel,     \* product_channel_listings: at most one row for the product
          rules,       \* marketplace_commission_rules that are active
          soldLines,   \* vendor_order_items: who was credited, by which rule
          editing,     \* what each vendor's page is about to write, the check behind it
          goodsCalls,
          past         \* history: "transferred", the office changed the row's vendor by the
                       \*   product's form; "reassigned", an assignment went from one vendor to
                       \*   another; "activated", the form or an import put it on sale;
                       \*   "intruded", a page wrote to what was no longer its vendor's

vendorCatalogueVars == <<wareRow, assigned, channel, rules, soldLines, editing, goodsCalls, past>>

-----------------------------------------------------------------------------
NoWare == [vendor |-> None, category |-> None, status |-> "absent"]
NoAssignment == [vendor |-> None, approval |-> None]
NoChannel == [vendor |-> None, status |-> "absent"]
NotEditing == [job |-> None, status |-> None]

WareExists == wareRow.status # "absent"

\* vendor_owned_product: the row's vendor, or the assignment's.
Owns(v) == WareExists /\ (wareRow.vendor = v \/ assigned.vendor = v)

\* resolve_vendor_for_product: the row's vendor goes first.
SellerOf == IF wareRow.vendor # None THEN wareRow.vendor ELSE assigned.vendor

-----------------------------------------------------------------------------
\* Faulty: a rule for every vendor goes before a vendor's own.
ScoreSwapped(rule, v) ==
  IF rule.product = "this" /\ rule.vendor = None THEN 5
  ELSE IF rule.product = "this" /\ rule.vendor = v THEN 4
  ELSE IF rule.category = wareRow.category /\ rule.vendor = v THEN 3
  ELSE IF rule.category = wareRow.category /\ rule.vendor = None THEN 2
  ELSE IF rule.vendor = v THEN 1
  ELSE IF rule = [vendor |-> None, category |-> None, product |-> None] THEN 0
  ELSE -1

\* commission_rule_for_product: how well a rule suits the product, -1 when it does not.
Score(rule, v) ==
  IF rule.product = "this" /\ rule.vendor = v THEN 5
  ELSE IF rule.product = "this" /\ rule.vendor = None THEN 4
  ELSE IF rule.category = wareRow.category /\ rule.vendor = v THEN 3
  ELSE IF rule.category = wareRow.category /\ rule.vendor = None THEN 2
  ELSE IF rule.vendor = v THEN 1
  ELSE IF rule = [vendor |-> None, category |-> None, product |-> None] THEN 0
  ELSE -1

\* A rule with the best score; without one the vendor's default rate is used.
Default == [vendor |-> "default", category |-> None, product |-> None]
RulesFor(v) ==
  LET suiting == {r \in rules : Score(r, v) >= 0}
      best == {r \in suiting : \A q \in suiting : Score(q, v) <= Score(r, v)}
  IN IF suiting = {} THEN {Default} ELSE best

-----------------------------------------------------------------------------
VendorCatalogueInit ==
  /\ wareRow = NoWare /\ assigned = NoAssignment /\ channel = NoChannel
  /\ rules = {} /\ soldLines = {} /\ editing = [v \in Merchants |-> NotEditing]
  /\ goodsCalls = 0 /\ past = {}

Called == goodsCalls < MaxGoodsCalls /\ goodsCalls' = goodsCalls + 1

Happened(what, if) == past' = IF if THEN past \cup {what} ELSE past

\* create_vendor_product: published at once.
CreateOwnWare == \E v \in Merchants, category \in {None, "toys"}, status \in {"active", "draft"} :
  /\ ~WareExists /\ Called
  /\ wareRow' = [vendor |-> v, category |-> category, status |-> status]
  /\ assigned' = [vendor |-> v, approval |-> "published"]
  /\ UNCHANGED <<channel, rules, soldLines, editing, past>>

\* create_product, by the office; an import makes such rows, too.
CreateWare == \E category \in {None, "toys"} :
  /\ ~WareExists /\ Called
  /\ wareRow' = [vendor |-> None, category |-> category, status |-> "active"]
  /\ UNCHANGED <<assigned, channel, rules, soldLines, editing, past>>

\* update_product, by the office: any vendor, whatever the assignment is.
EditWare == \E v \in Merchants \cup {None}, status \in {"active", "draft"} :
  /\ WareExists /\ Called
  /\ wareRow' = [wareRow EXCEPT !.vendor = v, !.status = status]
  /\ past' = past \cup (IF v # wareRow.vendor THEN {"transferred"} ELSE {})
                   \cup (IF status = "active" THEN {"activated"} ELSE {})
  /\ UNCHANGED <<assigned, channel, rules, soldLines, editing>>

\* sync_single_product, of a row there is: its vendor becomes the assignment's, which is
\* approved unless it is rejected.
ReimportWare == \E status \in {"active", "draft"} :
  /\ WareExists /\ Called /\ Happened("activated", status = "active")
  /\ wareRow' = [wareRow EXCEPT !.status = status,
                                !.vendor = IF assigned = NoAssignment THEN @ ELSE assigned.vendor]
  /\ assigned' = IF assigned.approval \in {None, "rejected"} THEN assigned
                 ELSE [assigned EXCEPT !.approval = "approved"]
  /\ UNCHANGED <<channel, rules, soldLines, editing>>

\* assign_product_to_vendor: the one row moves to the vendor; a product to be approved first
\* is taken off sale.
AssignWare == \E v \in Merchants, approval \in {"submitted", "approved", "rejected"} :
  /\ WareExists /\ Called
  /\ assigned' = [vendor |-> v, approval |-> approval]
  /\ LET held == wareRow.status = "active" /\ approval = "submitted"
     IN wareRow' = [wareRow EXCEPT !.vendor = v, !.status = IF held THEN "draft" ELSE @]
  /\ Happened("reassigned", {assigned.vendor, wareRow.vendor} \ {None, v} # {})
  /\ UNCHANGED <<channel, rules, soldLines, editing>>

\* approve_vendor_product, of an assignment: the row's vendor becomes the assignment's.
ApproveWare ==
  /\ assigned # NoAssignment /\ Called
  /\ assigned' = [assigned EXCEPT !.approval = "approved"]
  /\ wareRow' = [wareRow EXCEPT !.vendor = assigned.vendor, !.status = "active"]
  /\ UNCHANGED <<channel, rules, soldLines, editing, past>>

-----------------------------------------------------------------------------
\* A vendor's page finds that the product is the vendor's ...
BeginEdit ==
  \E v \in Merchants, job \in {"save", "trash", "delete"}, status \in {"active", "draft"} :
  /\ editing[v] = NotEditing /\ Owns(v) /\ Called
  /\ job # "save" => status = "draft"
  /\ job = "delete" => wareRow.status = "archived"
  /\ editing' = [editing EXCEPT ![v] = [job |-> job, status |-> status]]
  /\ UNCHANGED <<wareRow, assigned, channel, rules, soldLines, past>>

Finish(v) == /\ editing' = [editing EXCEPT ![v] = NotEditing]
             /\ Happened("intruded", WareExists /\ ~Owns(v) /\ wareRow' # wareRow)
             /\ UNCHANGED <<rules, soldLines, goodsCalls>>

\* ... and writes: update_vendor_product, whose assignment is published again,
SaveOwnWare == \E v \in Merchants :
  LET status == editing[v].status
  IN /\ editing[v].job = "save" /\ WareExists
     /\ wareRow' = [wareRow EXCEPT !.status = status]
     /\ assigned' = IF assigned.vendor = v /\ status = "active"
                    THEN [assigned EXCEPT !.approval = "published"] ELSE assigned
     /\ Finish(v) /\ UNCHANGED channel

\* archive_product,
TrashWare == \E v \in Merchants :
  /\ editing[v].job = "trash" /\ WareExists
  /\ wareRow' = [wareRow EXCEPT !.status = "archived"]
  /\ Finish(v) /\ UNCHANGED <<assigned, channel>>

\* permanently_delete_product: not what a rule or a sale names, and the keys of the database
\* keep what is listed.
Deletable == /\ wareRow.status = "archived" /\ soldLines = {} /\ channel = NoChannel
             /\ \A r \in rules : r.product # "this"
DeleteWare == \E v \in Merchants :
  /\ editing[v].job = "delete"
  /\ IF Deletable THEN wareRow' = NoWare /\ assigned' = NoAssignment
                  ELSE UNCHANGED <<wareRow, assigned>>
  /\ Finish(v) /\ UNCHANGED channel

\* Whose page finds no product any more gets an error.
LoseEdit == \E v \in Merchants :
  /\ editing[v].job \in {"save", "trash"} /\ ~WareExists
  /\ editing' = [editing EXCEPT ![v] = NotEditing]
  /\ UNCHANGED <<wareRow, assigned, channel, rules, soldLines, goodsCalls, past>>

-----------------------------------------------------------------------------
\* upsert_channel_listing, by the office or a vendor: the row's vendor is set when it is made.
ListWare == \E v \in Merchants \cup {None}, status \in {"published", "private"} :
  /\ WareExists /\ Called
  /\ \/ v = None
     \/ Owns(v) /\ channel.vendor = v
     \/ Owns(v) /\ channel = NoChannel
  /\ channel' = IF channel # NoChannel THEN [channel EXCEPT !.status = status]
                ELSE [status |-> status, vendor |-> IF v # None THEN v ELSE wareRow.vendor]
  /\ UNCHANGED <<wareRow, assigned, rules, soldLines, editing, past>>

\* create_order, of one line of the product, with record_vendor_order_item.
SellWare == \E rule \in RulesFor(SellerOf) :
  /\ WareExists /\ wareRow.status # "archived" /\ SellerOf # None /\ Called
  /\ LET own == \E r \in rules : r.vendor = SellerOf /\ r.product = "this"
     IN soldLines' = soldLines \cup {[vendor |-> SellerOf, rule |-> rule, own |-> own,
                                      category |-> wareRow.category]}
  /\ UNCHANGED <<wareRow, assigned, channel, rules, editing, past>>

\* create_commission_rule, update_commission_rule.
ChangeRules == \E new \in RuleSets :
  /\ new # rules /\ Called /\ rules' = new
  /\ WareExists \/ \A r \in new : r.product # "this"
  /\ UNCHANGED <<wareRow, assigned, channel, soldLines, editing, past>>

VendorCatalogueNext ==
  \/ CreateOwnWare \/ CreateWare \/ EditWare \/ ReimportWare \/ AssignWare \/ ApproveWare
  \/ BeginEdit \/ SaveOwnWare \/ TrashWare \/ DeleteWare \/ LoseEdit
  \/ ListWare \/ SellWare \/ ChangeRules

VendorCatalogueSpec == VendorCatalogueInit /\ [][VendorCatalogueNext]_vendorCatalogueVars

-----------------------------------------------------------------------------
(* The rows are of their types. *)
VendorCatalogueTypeOK ==
  /\ wareRow.vendor \in Merchants \cup {None}
  /\ wareRow.status \in {"absent", "active", "draft", "archived"}
  /\ assigned.approval \in {None, "submitted", "approved", "rejected", "published"}
  /\ channel.vendor \in Merchants \cup {None} /\ rules \subseteq RuleType
  /\ \A l \in soldLines : l.vendor \in Merchants

(* One vendor at most may manage the product, and is credited with its sales, unless the *)
(* office transferred it by the product's form (update_product), which leaves the assignment. *)
OneOwner == \/ "transferred" \in past
            \/ \A v, u \in Merchants : Owns(v) /\ Owns(u) => v = u /\ SellerOf = v

(* A vendor's page writes to the vendor's own product, unless the office gave it to another *)
(* one after the page had checked (vendor_owned_product). *)
PagesKeepOut == "intruded" \in past => past \cap {"transferred", "reassigned"} # {}

(* A product submitted for approval is not on sale, unless the office's form, an import or a *)
(* page of a vendor to whom it is not assigned put it there (update_vendor_product). *)
HeldBack == assigned.approval = "submitted" /\ wareRow.status = "active"
              => past \cap {"activated", "transferred", "intruded"} # {}

(* The vendor of a listed product may change its listing, unless it came from another vendor *)
(* or the office listed it before it had one (upsert_channel_listing). *)
OwnerMayList == \A v \in Merchants :
  Owns(v) /\ channel # NoChannel
    => channel.vendor \in {v, None} \/ past \cap {"transferred", "reassigned"} # {}

(* A sale is booked by the vendor's rule for the product where there is one, and by a rule *)
(* that was made for another product, or for another category and not for the product, only *)
(* when that rule is the vendor's own, or the product and the rule have no category *)
(* (commission_rule_for_product). *)
RulesMeant == \A l \in soldLines :
  /\ l.own => l.rule.vendor = l.vendor /\ l.rule.product = "this"
  /\ l.rule.product = "other" \/ (l.rule.product = None /\ l.rule.category \notin {None, l.category})
       => l.rule.vendor = l.vendor \/ l.rule.category = l.category

VendorCatalogueSound == OneOwner /\ PagesKeepOut /\ HeldBack /\ OwnerMayList /\ RulesMeant
=============================================================================
