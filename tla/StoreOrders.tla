------------------------------ MODULE StoreOrders ------------------------------
(***************************************************************************)
(* What becomes of a product and of an order of the WooCommerce store when *)
(* they are imported: the product row found or made, the buyer found or    *)
(* made, the row each line stands for, the vendor who is credited, the     *)
(* payment and the stock.                                                  *)
(*                                                                         *)
(* An import is one transaction, and unique keys refuse the second of two  *)
(* that overlap, so each is a step.  A pull that fails is rolled back; a   *)
(* webhook whose import is refused is recorded, and what it did until then *)
(* is committed with the record.                                           *)
(***************************************************************************)
EXTENDS Integers, FiniteSets, SequencesExt

CONSTANTS GoodsRows,      \* the ERP's product rows, 1, 2, ...
          WareOf,         \* the product each order of the store is for
          BuyerOf,        \* and its buyer
          SaleTotal,      \* the total of an order, in cents
          MaxTradeSteps   \* bound: what happens in the store, calls, pulls and webhooks

StoreSales == DOMAIN WareOf
ASSUME StoreOrdersAssumption == /\ DOMAIN BuyerOf = StoreSales /\ SaleTotal \in Nat \ {0, 1}
                                /\ IsFiniteSet(GoodsRows) /\ GoodsRows = 1..Cardinality(GoodsRows)
                                /\ Cardinality(GoodsRows) >= 3  \* rows never run out
                                /\ \A s \in StoreSales : WareOf[s] \in {"plain", "sized"}
                                /\ StoreSales \cap {"plain", "sized"} = {}
                                /\ MaxTradeSteps \in Nat

VARIABLES trade,      \* what the ERP holds: see TradeInit
          saleStates, \* each order's status in the store
          lineSku,    \* the SKU a line for the sized product carries: the variation's own, the
                      \*   product's, or none
          reading,    \* how the sum of an order's parts, each cut to whole cents, differs from
                      \*   its total, cut likewise
          samePhone,  \* the buyers gave the same phone
          unread,     \* products and orders modified since the pull that read them last
          refusedAt,  \* where the last run stopped
          tradeSteps,
          meddled     \* history: what users did: archived a product or a buyer, moved an order

storeOrderVars == <<trade, saleStates, lineSku, reading, samePhone, unread, refusedAt,
                    tradeSteps, meddled>>

-----------------------------------------------------------------------------
\* A simple product, and one with a single variation.
Wares == {"plain", "sized"}
Patrons == {BuyerOf[s] : s \in StoreSales}
\* The SKUs in the store: of a product, and of what a line is for.
SkuOf == [plain |-> "p", sized |-> "s"]
SoldSku(ware) == IF ware = "plain" THEN SkuOf[ware]
                 ELSE CASE lineSku = "own" -> "v" [] lineSku = "product" -> SkuOf[ware]
                        [] OTHER -> ""
\* The name of a line, which a row made for it takes its slug from.
SoldName(ware) == IF ware = "plain" THEN ware ELSE "sized, large"

NoGoods == [slug |-> "", sku |-> "", item |-> "", vendor |-> FALSE, live |-> FALSE]
IsRow(w, r) == w.goods[r] # NoGoods
FreeRow(w) == CHOOSE r \in GoodsRows : ~IsRow(w, r) /\ \A q \in 1..(r - 1) : IsRow(w, q)
SlugTaken(w, slug) == \E r \in GoodsRows : w.goods[r].slug = slug
\* ensure_unique_sku: among products and variants.
SkuTaken(w, sku) == \E r \in GoodsRows : sku # "" /\ sku \in {w.goods[r].sku, w.goods[r].item}

\* An order that is not imported.  `due' (history): the row the product was mapped to
\* first belonged to a vendor then; `unpaid': it came in before it was paid for.
NoSale == [status |-> "none", sum |-> 0, paid |-> 0, vendor |-> FALSE, stock |-> "none",
           due |-> FALSE, unpaid |-> FALSE]
Known(s) == trade.sales[s].status # "none"

\* A step of an import happens when the ones before it did.
Fine(w) == [w EXCEPT !.said = "fine"]
Refuse(w) == [w EXCEPT !.said = "refused"]
Then(w, Step(_)) == IF w.said = "fine" THEN Step(w) ELSE w

-----------------------------------------------------------------------------
\* What a store product is mapped to; and was first (history).
MapTo(w, ware, r) == [w EXCEPT !.listed[ware] = r, !.first[ware] = IF @ = 0 THEN r ELSE @]

\* create_product, of an import: the slug from the name, the product's SKU generated, one
\* variant with the store's SKU or a generated one.
MakeGoods(w, ware, name, sku) ==
  IF SlugTaken(w, name) \/ SkuTaken(w, sku) THEN Refuse(w)
  ELSE LET r == FreeRow(w)
       IN MapTo([w EXCEPT !.goods[r] = [slug |-> name, sku |-> "", vendor |-> FALSE, live |-> TRUE,
                                         item |-> IF sku = "" THEN "auto" ELSE sku]], ware, r)

\* The row a store product is mapped to, else one with its SKU, or with a variant with it.
GoodsFor(w, ware) ==
  IF w.listed[ware] # 0 THEN {w.listed[ware]}
  ELSE LET bySku == {r \in GoodsRows : w.goods[r].sku = SkuOf[ware]}
       IN IF bySku # {} THEN bySku ELSE {r \in GoodsRows : w.goods[r].item = SkuOf[ware]}

\* Slug, SKU and status become the store's; the keys of the table refuse another row's.
Overwrite(w, ware, r) ==
  LET clash == \E q \in GoodsRows \ {r} : w.goods[q].slug = ware \/ w.goods[q].sku = SkuOf[ware]
  IN IF clash THEN [w EXCEPT !.said = "broken"]
     ELSE MapTo([w EXCEPT !.goods[r].slug = ware, !.goods[r].sku = SkuOf[ware],
                           !.goods[r].live = TRUE], ware, r)

\* sync_single_product.
ImportWare(w, ware) == IF GoodsFor(w, ware) = {} THEN MakeGoods(w, ware, ware, SkuOf[ware])
                       ELSE Overwrite(w, ware, CHOOSE r \in GoodsFor(w, ware) : TRUE)

-----------------------------------------------------------------------------
\* The customer with the order's email, or a new one, whose phone nobody may have.
FindBuyer(w, s) ==
  LET b == BuyerOf[s]
  IN IF w.people[b] # "none" THEN w
     ELSE IF samePhone /\ \E c \in Patrons : w.people[c] # "none" THEN Refuse(w)
     ELSE [w EXCEPT !.people[b] = "active"]

\* The row whose variant a line is for: by the mapping of the variation, or of a simple
\* product, then by the variant's SKU; 0 when there is none.
MatchLine(w, ware) ==
  LET mapped == IF ware = "plain" THEN w.listed[ware] ELSE w.variation
      bySku == {r \in GoodsRows : SoldSku(ware) # "" /\ w.goods[r].item = SoldSku(ware)}
  IN IF mapped # 0 /\ w.goods[mapped].item # "" THEN mapped
     ELSE IF bySku # {} THEN CHOOSE r \in bySku : TRUE ELSE 0

\* A line without a row gets one, which the store's product is mapped to from then on.
FindLine(w, s) ==
  LET ware == WareOf[s]
      made == MakeGoods(w, ware, SoldName(ware), SoldSku(ware))
  IN IF MatchLine(w, ware) # 0 THEN [w EXCEPT !.line = MatchLine(w, ware)]
     ELSE IF made.said # "fine" THEN made
     ELSE [made EXCEPT !.line = made.listed[ware],
                       !.variation = IF ware = "sized" THEN made.listed[ware] ELSE @]

\* create_order: the order is in the database before its lines are looked at.
MakeSale(w, s) ==
  LET row == w.goods[w.line]
  IN IF w.people[BuyerOf[s]] = "archived" THEN Refuse(w)
     ELSE IF ~row.live THEN Refuse([w EXCEPT !.strays = @ + 1])
     ELSE [w EXCEPT !.sales[s] = [NoSale EXCEPT !.status = "pending", !.vendor = row.vendor,
                                                !.sum = SaleTotal + reading,
                                                !.due = \E r \in GoodsRows : w.first[WareOf[s]] = r
                                                                       /\ w.goods[r].vendor]]

-----------------------------------------------------------------------------
Progress == <<"pending", "confirmed", "packing", "ready", "dispatched", "delivered">>
PlaceIn(status) == CHOOSE i \in 1..Len(Progress) : Progress[i] = status

\* map_woocommerce_order_status.
Target(status) == CASE status = "processing" -> "confirmed"
                    [] status = "completed" -> "delivered"
                    [] status \in {"cancelled", "refunded"} -> status
                    [] OTHER -> "pending"

\* VALID_TRANSITIONS.
MayTurn(from, to) ==
  \/ from \in ToSet(Progress) /\ to \in ToSet(Progress) /\ PlaceIn(to) = PlaceIn(from) + 1
  \/ from \in {"pending", "confirmed", "packing", "ready"} /\ to = "cancelled"
  \/ from \in {"dispatched", "delivered"} /\ to = "returned"
  \/ from \in {"delivered", "returned"} /\ to = "refunded"

\* apply_woocommerce_order_status goes forward step by step, to a refund by way of the
\* delivery, and anywhere else in one step that must be allowed.
MayFollow(from, to) ==
  \/ from = to \/ MayTurn(from, to)
  \/ from \in ToSet(Progress) /\ to \in ToSet(Progress) /\ PlaceIn(to) > PlaceIn(from)
  \/ from \in ToSet(Progress) /\ to = "refunded"

\* change_order_status: a refund takes the payments back, a cancellation the stock.
GiveBack(stock) == IF stock = "deducted" THEN "restored" ELSE stock
Turn(sale, to) == [sale EXCEPT !.status = to, !.paid = IF to = "refunded" THEN 0 ELSE @,
                               !.stock = IF to = "cancelled" THEN GiveBack(@) ELSE @]

FollowStore(w, s, told) ==
  IF ~MayFollow(w.sales[s].status, Target(told)) THEN Refuse(w)
  ELSE IF w.sales[s].status = Target(told) THEN w
  ELSE [w EXCEPT !.sales[s] = Turn(@, Target(told))]

\* The payment of an order that is imported for the first time.
IsPaidFor(told) == told \in {"processing", "completed"}
TakePayment(w, s, told) ==
  IF ~IsPaidFor(told) THEN [w EXCEPT !.sales[s].unpaid = TRUE]
  ELSE IF SaleTotal > w.sales[s].sum THEN Refuse(w) ELSE [w EXCEPT !.sales[s].paid = SaleTotal]

\* Faulty: no stock is taken for an order that came in unpaid.
TakeStockIfPaid(w, s) == IF w.sales[s].paid = 0 THEN w ELSE [w EXCEPT !.sales[s].stock = "deducted"]

\* deduct_woocommerce_order_stock, with enough of it, and the stock of a cancelled order
\* given back: only lines credited to a vendor.
TakeStock(w, s) ==
  LET sale == w.sales[s]
  IN IF ~sale.vendor \/ sale.status = "refunded" THEN w
     ELSE [w EXCEPT !.sales[s].stock = IF sale.status = "cancelled" THEN GiveBack(@)
                                       ELSE IF @ = "none" THEN "deducted" ELSE @]

\* sync_single_order: a known order follows the store's status, and its stock.
ImportSale(w, s, told) ==
  LET Buyer(v) == FindBuyer(v, s)
      Line(v) == FindLine(v, s)
      Make(v) == MakeSale(v, s)
      Follow(v) == FollowStore(v, s, told)
      Payment(v) == TakePayment(v, s, told)
      Stock(v) == TakeStock(v, s)
      new == Then(Then(Then(w, Buyer), Line), Make)
  IN IF w.sales[s].status # "none" THEN Then(Then(w, Follow), Stock)
     ELSE Then(Then(Then(new, Follow), Payment), Stock)

-----------------------------------------------------------------------------
\* Products the ERP made: without variants, or with one of a SKU of its own.
Own(item) == [slug |-> "plain", sku |-> SkuOf["plain"], item |-> item, vendor |-> TRUE,
              live |-> TRUE]

StoreOrderInit ==
  \E row \in {NoGoods, Own(""), Own("x")} :
    LET listed == [w \in Wares |-> IF w = "plain" /\ row # NoGoods THEN 1 ELSE 0]
    IN /\ trade = [goods |-> [r \in GoodsRows |-> IF r = 1 THEN row ELSE NoGoods],
                   listed |-> listed,   \* external_resource_map: products
                   first |-> listed,
                   variation |-> 0,     \*   and the variation of the sized one
                   people |-> [b \in Patrons |-> "none"],
                   sales |-> [s \in StoreSales |-> NoSale],
                   strays |-> 0,        \* orders that no order of the store is mapped to
                   line |-> 0, said |-> "fine"]
       /\ unread = {w \in Wares : listed[w] = 0}
       /\ saleStates = [s \in StoreSales |-> "unplaced"]
       /\ lineSku \in {"own", "product", "none"} /\ reading \in {-1, 0, 1} /\ samePhone \in BOOLEAN
       /\ Cardinality({c \in 1..3 : <<lineSku # "product", reading # 0, samePhone>>[c]}) <= 1
       /\ refusedAt = "nowhere" /\ meddled = {} /\ tradeSteps = 0

OneMore == tradeSteps < MaxTradeSteps /\ tradeSteps' = tradeSteps + 1
StoreSays == /\ OneMore /\ refusedAt' = "nowhere"
             /\ UNCHANGED <<trade, lineSku, reading, samePhone, meddled>>

\* What may follow a status in the store.
NextInStore(status) == CASE status = "unplaced" -> {"pending", "processing"}
                         [] status = "pending" -> {"processing", "cancelled"}
                         [] status = "processing" -> {"completed", "cancelled", "refunded"}
                         [] status = "completed" -> {"refunded"}
                         [] OTHER -> {}

MoveInStore == \E s \in StoreSales : \E status \in NextInStore(saleStates[s]) :
  /\ saleStates' = [saleStates EXCEPT ![s] = status] /\ unread' = unread \cup {s} /\ StoreSays

\* An order of the store, or a product, is changed otherwise.
TouchInStore == \E x \in Wares \cup {s \in StoreSales : saleStates[s] # "unplaced"} :
  unread' = unread \cup {x} /\ StoreSays /\ UNCHANGED saleStates

-----------------------------------------------------------------------------
Importing == OneMore /\ UNCHANGED <<saleStates, lineSku, reading, samePhone, meddled>>
Orderings(set) == {q \in [1..Cardinality(set) -> set] : ToSet(q) = set}
ImportWares(w, q) == LET Step(v, x) == IF v.said = "fine" THEN ImportWare(v, x) ELSE v
                     IN FoldLeft(Step, w, q)
ImportSales(w, q) ==
  LET Step(v, s) == IF v.said = "fine" THEN ImportSale(v, s, saleStates[s]) ELSE v
  IN FoldLeft(Step, w, q)

\* run_woocommerce_sync: products, then orders, a page of each here; a page is committed
\* whole or not at all, and the run stops at one that fails.
PullSales == \E q \in Orderings(unread \cap Wares), o \in Orderings(unread \cap StoreSales) :
  LET wares == ImportWares(trade, q)
      all == ImportSales(wares, o)
      kept == IF all.said = "fine" THEN all ELSE IF wares.said = "fine" THEN wares ELSE trade
  IN /\ Importing
     /\ trade' = [kept EXCEPT !.line = 0]
     /\ refusedAt' = IF wares.said # "fine" THEN "products"
                     ELSE IF all.said # "fine" THEN "orders" ELSE "nowhere"
     /\ unread' = IF wares.said # "fine" THEN unread
                  ELSE IF all.said # "fine" THEN unread \ Wares ELSE {}

\* process_webhook_event: a refusal is recorded with what was done before it; an error of
\* the database leaves nothing.
Webhook(w) == LET kept == IF w.said = "broken" THEN trade ELSE w
              IN /\ Importing /\ trade' = [Fine(kept) EXCEPT !.line = 0]
                 /\ refusedAt' = "nowhere" /\ UNCHANGED unread

\* A webhook tells what the order was when it was sent.
ToldStatuses(status) == CASE status = "processing" -> {"pending", status}
                     [] status \in {"completed", "refunded"} -> {"processing", status}
                     [] OTHER -> {status}
HearOfSale == \E s \in StoreSales : \E told \in ToldStatuses(saleStates[s]) :
  saleStates[s] # "unplaced" /\ Webhook(ImportSale(trade, s, told))
HearOfWare == \E ware \in Wares : Webhook(ImportWare(trade, ware))

-----------------------------------------------------------------------------
Desk(did) == /\ OneMore /\ meddled' = meddled \cup did /\ refusedAt' = "nowhere"
             /\ UNCHANGED <<saleStates, lineSku, reading, samePhone, unread>>

\* assign_product_to_vendor, archive_product, archive_customer, change_order_status.
AssignGoods == \E r \in GoodsRows : /\ IsRow(trade, r) /\ Desk({})
                                    /\ trade' = [trade EXCEPT !.goods[r].vendor = TRUE]
ArchiveGoods == \E r \in GoodsRows : /\ IsRow(trade, r) /\ Desk({"archived"})
                                     /\ trade' = [trade EXCEPT !.goods[r].live = FALSE]
ArchiveBuyer == \E b \in Patrons : /\ trade.people[b] = "active" /\ Desk({"archived"})
                                   /\ trade' = [trade EXCEPT !.people[b] = "archived"]
MoveSale == \E s \in StoreSales, to \in ToSet(Progress) \cup {"returned", "cancelled", "refunded"} :
  /\ Known(s) /\ MayTurn(trade.sales[s].status, to) /\ Desk({"moved"})
  /\ trade' = [trade EXCEPT !.sales[s] = Turn(@, to)]

StoreOrderNext == \/ MoveInStore \/ TouchInStore \/ PullSales \/ HearOfSale \/ HearOfWare
                  \/ AssignGoods \/ ArchiveGoods \/ ArchiveBuyer \/ MoveSale

StoreOrderSpec == StoreOrderInit /\ [][StoreOrderNext]_storeOrderVars

-----------------------------------------------------------------------------
(* The trade is of its type, and no import is left half-way. *)
StoreOrderTypeOK ==
  /\ trade.goods \in [GoodsRows -> [slug : {"", "plain", "sized", "sized, large"},
                                    sku : {"", "p", "s"}, item : {"", "x", "p", "s", "v", "auto"},
                                    vendor : BOOLEAN, live : BOOLEAN]]
  /\ \A w \in Wares : {trade.listed[w], trade.first[w], trade.variation} \subseteq GoodsRows \cup {0}
  /\ trade.line = 0 /\ trade.said = "fine" /\ trade.strays \in Nat
  /\ \A s \in StoreSales : /\ trade.sales[s].paid \in Nat
                           /\ trade.sales[s].stock \in {"none", "deducted", "restored"}

\* A line of a variation whose SKU is not the product's made another row.
Repointed(ware) == trade.listed[ware] # trade.first[ware]

(* An order of a vendor's product is that vendor's sale (create_order), unless a line of it *)
(* made the product another row first. *)
VendorsCredited == \A s \in StoreSales :
  trade.sales[s].vendor # trade.sales[s].due => Repointed(WareOf[s])

(* An order the store shows as paid is paid in full once imported, unless it was imported *)
(* before it was paid for, or the cents of its parts do not add up to its total. *)
SalesPaid == \A s \in StoreSales :
  LET sale == trade.sales[s]
  IN /\ sale.paid <= sale.sum
     /\ Known(s) /\ sale.status # "refunded" /\ ~sale.unpaid /\ reading = 0
          => sale.paid = sale.sum

(* The stock of a vendor's sale is taken, and given back when it is cancelled, unless the *)
(* payment was refused while a webhook brought it in. *)
SalesStocked == \A s \in StoreSales :
  LET sale == trade.sales[s]
  IN sale.vendor => CASE sale.status = "cancelled" -> sale.stock # "deducted"
                      [] sale.status = "refunded" -> TRUE
                      [] OTHER -> sale.stock = "deducted" \/ reading < 0

(* Every order row is one of the store's, unless a product was archived. *)
NoStrays == trade.strays > 0 => "archived" \in meddled

(* Only an order for a variation whose SKU is not its product's makes a product another row. *)
KeepsItsRow == \A ware \in Wares : Repointed(ware) => ware = "sized" /\ lineSku # "product"

(* A run gets through, unless buyers share a phone, a user archived something or moved an *)
(* order on, the cents fall short, a product has no variant, or has another row. *)
RunsGetThrough ==
  /\ refusedAt = "products" => \E ware \in unread \cap Wares : Repointed(ware)
  /\ refusedAt = "orders" => \/ samePhone \/ meddled # {} \/ reading < 0
                             \/ trade.goods[1].item = "" /\ trade.goods[1].slug = "plain"

StoreOrdersSound == /\ VendorsCredited /\ SalesPaid /\ SalesStocked
                    /\ NoStrays /\ KeepsItsRow /\ RunsGetThrough
=============================================================================
