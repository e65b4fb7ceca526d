---------------------------- MODULE DesktopProducts ----------------------------
(***************************************************************************)
(* The product page of the desktop program: the form, which holds a copy   *)
(* of a product, the lists it takes categories from, and the products at   *)
(* the server, which other users change meanwhile.                         *)
(*                                                                         *)
(* The page waits for each answer, so its steps are whole; a call may be   *)
(* refused, or its answer be lost when the server has done it.             *)
(***************************************************************************)
EXTENDS Integers

CONSTANTS PageWares,    \* the products there are or may be made
          MaxPageSteps  \* bound: what the user and others do

ASSUME DesktopProductsAssumption == PageWares \subseteq Nat \ {0} /\ MaxPageSteps \in Nat

VARIABLES wareRows,     \* the server's products; category "c" or "none"
          inUse,        \* whether category c is active, at the server
          listed,       \* whether the page's list of categories has it
          sheet,        \* the form: the product it is of, 0 for a new one, and its fields
          typed,        \* the fields the user changed since the form was filled
          since,        \* history, since then: "others" changed the product, the page's "buttons"
                        \*   its status, the "lists" lost the category, a deletion of several
                        \*   stopped "halfway", the new product was "made"
          overwritten,  \* history: columns a save changed that the user had not, and since
          pageSteps

productPageVars == <<wareRows, inUse, listed, sheet, typed, since, overwritten, pageSteps>>

-----------------------------------------------------------------------------
Fields == {"status", "category", "price"}
\* A product, and whether it has "more", which the form has no room for: categories besides
\* the first, the stock, weight, description and image of a variant, the variant of an image.
Columns == Fields \cup {"besides"}
Row(status, category, price) ==
  [status |-> status, category |-> category, price |-> price, besides |-> "none"]
Gone == Row("gone", "none", 1)
OnServer(p) == wareRows[p].status \in {"active", "draft", "archived"}
Unmade == {p \in PageWares : wareRows[p].status = "unmade"}

\* clear_product_form.
Blank == [of |-> 0, status |-> "active", category |-> "none", price |-> 1]

DesktopProductsInit ==
  /\ wareRows = [p \in PageWares |->
                   CASE p = 1 -> [Row("active", "c", 1) EXCEPT !.besides = "more"]
                     [] p = 2 -> Row("archived", "none", 1)
                     [] OTHER -> [Gone EXCEPT !.status = "unmade"]]
  /\ inUse = TRUE /\ listed = TRUE /\ sheet = Blank
  /\ typed = {} /\ since = {} /\ overwritten = {} /\ pageSteps = 0

PageStep == pageSteps < MaxPageSteps /\ pageSteps' = pageSteps + 1

\* set_combo_value: a category that is not in the list becomes none.
InCombo(category, has) == IF has THEN category ELSE "none"

\* fill_product_form, with the list of categories as it is.
Filled(p, row) == [of |-> p, status |-> row.status, price |-> row.price,
                   category |-> InCombo(row.category, listed)]
Dropped(was, is) == IF was # is THEN {"lists"} ELSE {}

\* refresh_products: the lists are emptied and read again (load_product_reference_options), and
\* what the form had is looked up in them at the end.  When the reading fails they stay as they
\* are by then, and the form has what a list that was emptied has: nothing.
Relist(form, marks) == \E comes \in BOOLEAN :
  /\ listed' \in IF comes THEN {inUse} ELSE {FALSE, inUse}
  /\ sheet' = [form EXCEPT !.category = InCombo(@, comes /\ inUse)]
  /\ since' = marks \cup Dropped(form.category, sheet'.category)

Refill(p, row) == Relist(Filled(p, row), Dropped(row.category, InCombo(row.category, listed)))

RefreshPage == /\ PageStep /\ Relist(sheet, since)
               /\ UNCHANGED <<wareRows, inUse, typed, overwritten>>

\* load_selected_product.
OpenWare == \E p \in PageWares :
  /\ OnServer(p) /\ PageStep
  /\ sheet' = Filled(p, wareRows[p]) /\ typed' = {}
  /\ since' = Dropped(wareRows[p].category, sheet'.category)
  /\ UNCHANGED <<wareRows, inUse, listed, overwritten>>

NewForm == /\ PageStep /\ sheet' = Blank /\ typed' = {} /\ since' = {}
           /\ UNCHANGED <<wareRows, inUse, listed, overwritten>>

TypeIn == \E f \in Fields :
  /\ PageStep
  /\ \E value \in CASE f = "status" -> {"active", "draft"}
                    [] f = "category" -> {"none"} \cup (IF listed THEN {"c"} ELSE {})
                    [] f = "price" -> {1, 2} :
       value # sheet[f] /\ sheet' = [sheet EXCEPT ![f] = value]
  /\ typed' = typed \cup {f}
  /\ UNCHANGED <<wareRows, inUse, listed, since, overwritten>>

\* save_product of one that exists: every field of the form, whoever changed it; its category
\* as the only one, its variants and images as the form's columns have them.
Save ==
  LET p == sheet.of
      row == Row(sheet.status, sheet.category, sheet.price)
  IN  /\ p # 0 /\ OnServer(p) /\ PageStep
      /\ wareRows' = [wareRows EXCEPT ![p] = row]
      /\ overwritten' = overwritten \cup {[field |-> f, since |-> since] :
                                   f \in {f \in Columns \ typed : row[f] # wareRows[p][f]}}
      /\ \/ Refill(p, row) /\ typed' = {}
         \/ UNCHANGED <<listed, sheet, typed, since>>
      /\ UNCHANGED inUse

\* ... and of a new one; the same form again is refused for its name and number.
Create == \E p \in Unmade :
  LET row == Row(sheet.status, sheet.category, sheet.price)
  IN  /\ sheet.of = 0 /\ "made" \notin since /\ PageStep
      /\ \A q \in Unmade : p <= q
      /\ wareRows' = [wareRows EXCEPT ![p] = row]
      /\ \/ Refill(p, row) /\ typed' = {}
         \/ since' = since \cup {"made"} /\ UNCHANGED <<listed, sheet, typed>>
      /\ UNCHANGED <<inUse, overwritten>>

\* change_product_status, of the form's product or of rows of the table: one after the other,
\* up to one that fails; the form is not filled again.
SetStatuses == \E ids \in SUBSET PageWares, status \in {"active", "draft"} :
  LET touched == {p \in ids : wareRows[p].status # status}
      marks == IF sheet.of \in touched THEN since \cup {"buttons"} ELSE since
  IN  /\ ids # {} /\ (\A p \in ids : OnServer(p)) /\ PageStep
      /\ wareRows' = [p \in PageWares |-> IF p \in ids THEN [wareRows[p] EXCEPT !.status = status]
                                                   ELSE wareRows[p]]
      /\ \/ Relist(sheet, marks)
         \/ since' = marks /\ UNCHANGED <<sheet, listed>>
      /\ UNCHANGED <<inUse, typed, overwritten>>

\* archive_selected_product.
TrashIt == /\ sheet.of # 0 /\ OnServer(sheet.of) /\ PageStep
           /\ wareRows' = [wareRows EXCEPT ![sheet.of].status = "archived"]
           /\ \/ Relist(Blank, {}) /\ typed' = {}
              \/ since' = since \cup {"buttons"} /\ UNCHANGED <<listed, sheet, typed>>
           /\ UNCHANGED <<inUse, overwritten>>

\* permanently_delete_products: those in the trash, one after the other, up to one that is
\* refused; the form is cleared when all are deleted.
DeleteForGood == \E ids \in SUBSET PageWares : \E done \in SUBSET ids :
  /\ ids # {} /\ (\A p \in done : wareRows[p].status = "archived") /\ PageStep
  /\ wareRows' = [p \in PageWares |-> IF p \in done THEN Gone ELSE wareRows[p]]
  /\ \/ /\ done = ids
        /\ IF sheet.of \in ids THEN Relist(Blank, {}) /\ typed' = {}
                               ELSE Relist(sheet, since) /\ UNCHANGED typed
     \/ /\ since' = IF sheet.of \in done THEN since \cup {"halfway"} ELSE since
        /\ UNCHANGED <<listed, sheet, typed>>
  /\ UNCHANGED <<inUse, overwritten>>

-----------------------------------------------------------------------------
\* Other users change or delete a product, and archive the category; an import revives it.
OthersEdit == \E p \in PageWares :
  /\ OnServer(p) /\ PageStep
  /\ \/ wareRows' = [wareRows EXCEPT ![p].price = 3]
     \/ wareRows' = [wareRows EXCEPT ![p].status = "archived"]
     \/ wareRows[p].status = "archived" /\ wareRows' = [wareRows EXCEPT ![p] = Gone]
     \/ \E c \in {"c", "none"} : wareRows' = [wareRows EXCEPT ![p].category = c]
     \/ wareRows' = [wareRows EXCEPT ![p].besides = "more"]
  /\ wareRows' # wareRows
  /\ since' = IF sheet.of = p THEN since \cup {"others"} ELSE since
  /\ UNCHANGED <<inUse, listed, sheet, typed, overwritten>>

OthersArchive == /\ PageStep /\ inUse' = ~inUse
                 /\ UNCHANGED <<wareRows, listed, sheet, typed, since, overwritten>>

DesktopProductsNext ==
  \/ RefreshPage \/ OpenWare \/ NewForm \/ TypeIn \/ Save \/ Create \/ SetStatuses
  \/ TrashIt \/ DeleteForGood \/ OthersEdit \/ OthersArchive

DesktopProductsSpec == DesktopProductsInit /\ [][DesktopProductsNext]_productPageVars

-----------------------------------------------------------------------------
(* The form is of a product or a new one. *)
DesktopProductsTypeOK ==
  /\ sheet.of \in PageWares \cup {0} /\ typed \subseteq Fields
  /\ \A u \in overwritten : u.field \in Columns

(* Of the fields of the form a save changes what the user changed and nothing else, but for *)
(* what others changed since the form was filled, a status set by the page's own buttons, and *)
(* a category that the lists of the page had lost.  What the form has no room for, every save *)
(* takes away (collect_product_payload, replace_product_categories, replace_product_variants, *)
(* replace_product_images). *)
SavesWhatWasTyped == \A u \in overwritten :
  \/ "others" \in u.since \/ u.field = "besides"
  \/ u.field = "status" /\ "buttons" \in u.since
  \/ u.field = "category" /\ "lists" \in u.since

(* The form is of a product that exists, unless others deleted it or a deletion of several *)
(* stopped halfway (permanently_delete_products). *)
FormOfAProduct == sheet.of = 0 \/ OnServer(sheet.of) \/ since \cap {"others", "halfway"} # {}

DesktopProductsSound == SavesWhatWasTyped /\ FormOfAProduct
=============================================================================
