------------------------------- MODULE ShopStock -------------------------------
(***************************************************************************)
(* The stock of one product in a vendor's shop: the movements that make it *)
(* up, the quantity copied onto the catalogue product, the sales at the    *)
(* counter (POS), the receipts from a supplier and their payment, the      *)
(* reservations, and the online orders that take stock when they are       *)
(* imported and give it back when they are cancelled.                      *)
(*                                                                         *)
(* Every call runs in a database session of its own, under READ COMMITTED: *)
(* it reads what is committed, checks, and writes; nothing locks the rows  *)
(* it read.  A row it updates is locked until it commits, and an attribute *)
(* is only written when it differs from the value the session has of it    *)
(* (the ORM emits no UPDATE otherwise).  A refused call rolls back and is  *)
(* not a step.                                                             *)
(*                                                                         *)
(* Stock is kept per variant and, apart from that, for the product itself; *)
(* only the latter is copied to the catalogue.  The lines of an imported   *)
(* order always name a variant.                                            *)
(***************************************************************************)
EXTENDS Integers, FiniteSets

CONSTANTS ShopSessions,   \* requests and worker jobs
          SaleKeys,       \* idempotency keys of POS sales
          OnlineOrders,   \* orders of the WooCommerce store
          Bills,          \* receipts from a supplier
          BillTotal,      \* what a receipt costs, at 1 for each unit
          ShopMovements,  \* quantities an inventory entry may add
          OpeningStock,   \* what is there of the product, and of its variant, at first
          MaxCommits      \* bound: sessions that commit

ASSUME ShopAssumption == /\ IsFiniteSet(ShopSessions)
                         /\ BillTotal \in Nat \ {0} /\ MaxCommits \in Nat
                         /\ OpeningStock \in Nat
                         /\ ShopMovements \subseteq Int

VARIABLES stock,      \* the sum of the committed movements, by bucket
          catalogue,  \* products.stock_quantity
          shop,       \* whether stock may move: the shop's warehouse and the product
          online,     \* the imported orders: status and reservation_status
          taken,      \* history: the units an order has out of the shop
          sales,      \* committed POS sales, by the key they were sent with
          bills,      \* the receipts: paid_minor, and the cash booked out for it
          reserved,   \* the reservations granted
          txn,        \* the open transaction of every session
          oversold,   \* history: units sold that were gone when their sale committed
          peak,       \* history: the most stock the product ever had
          outdated,   \* history: orders imported again from a row that was no longer so
          clean,      \* history: no session committed after one that overlapped it
          commits     \* how many sessions committed

rows == <<stock, catalogue, shop, online, sales, bills, reserved>>
ghosts == <<taken, oversold, peak, outdated, clean, commits>>
shopVars == <<rows, txn, ghosts>>

-----------------------------------------------------------------------------
Buckets == {"product", "variant"}
Shortfall(n) == IF n > 0 THEN n ELSE 0

Statuses == {"confirmed", "delivered", "cancelled", "refunded"}
OnlineRow == [status: Statuses \cup {"absent"},
              held: {"none", "deducted", "stock_issue", "restored"}]
Bill == [received: BOOLEAN, paid: 0..BillTotal, out: Nat]

\* What a session may be asked to do.
Jobs == [kind: {"sale"}, key: SaleKeys] \cup [kind: {"receive", "pay"}, bill: Bills]
        \cup [kind: {"entry"}, bucket: Buckets, units: ShopMovements]
        \cup [kind: {"count"}, target: 0..BillTotal]
        \cup [kind: {"import"}, order: OnlineOrders, to: Statuses]
        \cup [kind: {"cancel"}, order: OnlineOrders] \cup [kind: {"reserve"}]

Closed == [phase |-> "closed"]
Open == {s \in ShopSessions : txn[s].phase # "closed"}

\* A transaction: the units it moves, the stock it checked them against, how often it
\* still copies the stock to the catalogue, the catalogue quantity it knows (`view'),
\* the copy it is writing, its locks, and what it read of the order or the receipt.
Txn(job) == [phase |-> "copying", job |-> job, bucket |-> "product", units |-> 0,
             seen |-> 0, copies |-> 0, view |-> catalogue, copy |-> 0,
             product |-> FALSE, row |-> FALSE, order |-> [status |-> "absent", held |-> "none"],
             paid |-> 0, lapped |-> FALSE]

Moving(t, bucket, units, copies) ==
  [t EXCEPT !.bucket = bucket, !.units = units, !.seen = stock[bucket], !.copies = copies]

\* record_stock_movement: what it refuses.
MayMove(bucket, units) == shop = "open" /\ stock[bucket] + units >= 0

ProductLockFree(s) == \A r \in Open \ {s} : ~txn[r].product
SameOrder(r, o) == txn[r].job.kind \in {"import", "cancel"} /\ txn[r].job.order = o
OrderLockFree(s, o) == \A r \in Open \ {s} : SameOrder(r, o) => ~txn[r].row

\* The calls that may still begin.
Room == commits + Cardinality(Open) < MaxCommits
Start(s, t) == /\ txn[s] = Closed /\ Room
               /\ txn' = [txn EXCEPT ![s] = t]
Continue(s, t) == txn' = [txn EXCEPT ![s] = t]

-----------------------------------------------------------------------------
ShopInit == /\ stock = [b \in Buckets |-> OpeningStock] /\ catalogue = OpeningStock /\ shop = "open"
            /\ online = [o \in OnlineOrders |-> [status |-> "absent", held |-> "none"]]
            /\ sales = [k \in SaleKeys |-> 0]
            /\ bills = [b \in Bills |-> [received |-> FALSE, paid |-> 0, out |-> 0]]
            /\ reserved = 0
            /\ txn = [s \in ShopSessions |-> Closed]
            /\ taken = [o \in OnlineOrders |-> 0]
            /\ oversold = [b \in Buckets |-> 0] /\ peak = OpeningStock
            /\ outdated = {} /\ clean = TRUE /\ commits = 0

-----------------------------------------------------------------------------
\* An entry of the inventory: stock in, stock out, damage or an adjustment.  One the vendor
\* makes himself copies the stock to the catalogue once more.
Entry(s) == \E b \in Buckets, n \in ShopMovements, byVendor \in {0, 1} :
  /\ MayMove(b, n)
  /\ Start(s, Moving(Txn([kind |-> "entry", bucket |-> b, units |-> n]), b, n,
                     (IF b = "product" THEN 1 ELSE 0) + byVendor))
  /\ UNCHANGED <<rows, ghosts>>

\* The sales are searched for the key of the request.
SaleIsNew(k) == sales[k] = 0

\* A sale at the counter, of one unit.
Sell(s) == \E k \in SaleKeys :
  /\ SaleIsNew(k)
  /\ MayMove("product", -1)
  /\ Start(s, Moving(Txn([kind |-> "sale", key |-> k]), "product", -1, 2))
  /\ UNCHANGED <<rows, ghosts>>

\* A receipt; its number is the count of the receipts plus one, so another one
\* being booked waits for it and then fails on the unique number.
Receive(s) == \E b \in Bills, paid \in {0, BillTotal} :
  /\ ~bills[b].received
  /\ \A r \in Open : txn[r].job.kind # "receive"
  /\ MayMove("product", BillTotal)
  /\ Start(s, [Moving(Txn([kind |-> "receive", bill |-> b]), "product", BillTotal, 2)
               EXCEPT !.paid = paid])
  /\ UNCHANGED <<rows, ghosts>>

\* pay_purchase refuses what exceeds the outstanding balance.
MayPay(b) == bills[b].received /\ bills[b].paid + 1 <= BillTotal

\* A payment of a receipt, of 1.
Pay(s) == \E b \in Bills :
  /\ MayPay(b)
  /\ Start(s, [Txn([kind |-> "pay", bill |-> b]) EXCEPT !.paid = bills[b].paid + 1])
  /\ UNCHANGED <<rows, ghosts>>

\* The vendor saves the product with a quantity: it is written to the product first,
\* which locks it, then the ledger is adjusted to it and copied back.
Count(s) == \E n \in 0..BillTotal :
  LET delta == n - stock["product"]
      t == Txn([kind |-> "count", target |-> n])
  IN /\ catalogue # n => ProductLockFree(s)
     /\ delta # 0 => MayMove("product", delta)
     /\ Start(s, [Moving(t, "product", delta, IF delta = 0 THEN 1 ELSE 2)
                  EXCEPT !.view = n, !.product = catalogue # n])
     /\ UNCHANGED <<rows, ghosts>>

\* The staff edit the catalogue product: nothing moves in the shop.
EditCatalogue == \E n \in 0..BillTotal :
  /\ \A s \in Open : ~txn[s].product
  /\ Room
  /\ n # catalogue
  /\ catalogue' = n /\ commits' = commits + 1
  /\ txn' = [s \in ShopSessions |-> IF s \in Open THEN [txn[s] EXCEPT !.lapped = TRUE]
                                    ELSE txn[s]]
  /\ UNCHANGED <<stock, shop, online, sales, bills, reserved, taken, oversold, peak,
                 outdated, clean>>

\* The product is archived or taken out of the trash, the warehouse (de)activated.
SetShop == \E to \in {"open", "inactive", "trash"} \ {shop} :
  /\ Room
  /\ shop' = to /\ commits' = commits + 1
  /\ UNCHANGED <<stock, catalogue, online, sales, bills, reserved, txn, taken, oversold,
                 peak, outdated, clean>>

\* reserve_stock: what is free of the stock.
MayReserve == stock["product"] - reserved >= 1

\* A reservation of one unit; no call takes a reservation back.
Reserve(s) == /\ MayReserve
              /\ Start(s, Txn([kind |-> "reserve"]))
              /\ UNCHANGED <<rows, ghosts>>

\* VALID_TRANSITIONS, walked over the statuses in between.
Leads(from, to) == to \in CASE from = "absent" -> {"confirmed", "delivered", "cancelled", "refunded"}
                            [] from = "confirmed" -> {"delivered", "cancelled", "refunded"}
                            [] from = "delivered" -> {"refunded"}
                            [] OTHER -> {}

\* restore_cancelled_woocommerce_order_stock.
Returns(row) == row.status = "cancelled" /\ row.held = "deducted"

\* Faulty: what was deducted before is deducted again.
TakesAgain(row) == row.status \notin {"cancelled", "refunded"}

\* deduct_woocommerce_order_stock.
Takes(row) == row.status \notin {"cancelled", "refunded"} /\ row.held # "deducted"

Settled(t, row) ==
  CASE Returns(row) ->
         [Moving(t, "variant", 1, 0) EXCEPT !.order = [row EXCEPT !.held = "restored"]]
    [] Takes(row) /\ stock["variant"] >= 1 ->
         [Moving(t, "variant", -1, 0) EXCEPT !.order = [row EXCEPT !.held = "deducted"]]
    [] Takes(row) /\ stock["variant"] < 1 ->
         [t EXCEPT !.order = [row EXCEPT !.held = "stock_issue"]]
    [] OTHER -> [t EXCEPT !.order = row]

Refused(t) == t.units # 0 /\ shop # "open"

\* The import of an order, or its cancellation by the staff, that changes its status:
\* the status it read decides whether it may.
ChangeOrder(s) == \E job \in {j \in Jobs : j.kind \in {"import", "cancel"}} :
  LET to == IF job.kind = "import" THEN job.to ELSE "cancelled"
      row == online[job.order]
  IN /\ job.kind = "cancel" => row.status # "absent"
     /\ row.status = "absent" => shop # "trash"
     /\ Leads(row.status, to)
     /\ Start(s, [Txn(job) EXCEPT !.phase = "claiming", !.order = [row EXCEPT !.status = to],
                                  !.paid = IF row.status = "absent" THEN 1 ELSE 0])
     /\ UNCHANGED <<rows, ghosts>>

\* The import of an order whose status is what it was: the row it read decides.
ImportAgain(s) == \E o \in OnlineOrders :
  LET row == online[o]
      t == Settled(Txn([kind |-> "import", order |-> o, to |-> row.status]), row)
  IN /\ row.status # "absent" /\ t.order # row /\ ~Refused(t)
     /\ Start(s, t)
     /\ UNCHANGED <<rows, ghosts>>

\* The status is written, or the order inserted: this waits for the session that has
\* the row.  The row is read anew, and the stock follows; what is refused, or was
\* inserted by another session meanwhile, is rolled back.
ClaimOrder(s) ==
  LET t == txn[s]
      o == t.job.order
      settled == Settled([t EXCEPT !.phase = "copying", !.row = TRUE, !.paid = 0],
                         [t.order EXCEPT !.held = online[o].held])
  IN /\ t.phase = "claiming" /\ OrderLockFree(s, o)
     /\ IF Refused(settled) \/ (t.paid = 1 /\ online[o].status # "absent")
        THEN Continue(s, Closed) ELSE Continue(s, settled)
     /\ UNCHANGED <<rows, ghosts>>

-----------------------------------------------------------------------------
\* Faulty: the copy leaves out the movement of the session itself.
CopyWithout(t) == stock["product"]

\* sync_product_catalog_quantity_from_shop: the sum the session sees.
CopyOf(t) == stock["product"] + (IF t.bucket = "product" THEN t.units ELSE 0)

SumShop(s) == LET t == txn[s] IN
  /\ t.phase = "copying" /\ t.copies > 0
  /\ Continue(s, [t EXCEPT !.phase = "writing", !.copies = @ - 1, !.copy = CopyOf(t)])
  /\ UNCHANGED <<rows, ghosts>>

\* The UPDATE of the product, if there is anything to update.
WriteCatalogue(s) == LET t == txn[s] IN
  /\ t.phase = "writing"
  /\ t.copy # t.view => ProductLockFree(s)
  /\ Continue(s, [t EXCEPT !.phase = "copying", !.product = @ \/ t.copy # t.view,
                           !.view = t.copy])
  /\ UNCHANGED <<rows, ghosts>>

\* What a session leaves of a receipt and of an order.
BillAfter(t, row) == IF t.job.kind = "receive"
                     THEN [received |-> TRUE, paid |-> t.paid, out |-> t.paid]
                     ELSE [row EXCEPT !.paid = t.paid, !.out = @ + 1]
OrderAfter(t, row) == IF t.row THEN t.order ELSE [row EXCEPT !.held = t.order.held]

Commit(s) ==
  LET t == txn[s]
      kind == t.job.kind
      Did(kinds, f, key, g(_)) == IF kind \in kinds THEN [f EXCEPT ![key] = g(@)] ELSE f
      Sold(n) == n + 1
      Billed(row) == BillAfter(t, row)
      Ordered(row) == OrderAfter(t, row)
      Out(n) == n - t.units
  IN /\ t.phase = "copying" /\ t.copies = 0
     /\ kind \in {"import", "cancel"} => t.row \/ OrderLockFree(s, t.job.order)
     /\ stock' = [stock EXCEPT ![t.bucket] = @ + t.units]
     /\ catalogue' = IF t.product THEN t.view ELSE catalogue
     /\ sales' = Did({"sale"}, sales, t.job.key, Sold)
     /\ bills' = Did({"receive", "pay"}, bills, t.job.bill, Billed)
     /\ online' = Did({"import", "cancel"}, online, t.job.order, Ordered)
     /\ taken' = Did({"import", "cancel"}, taken, t.job.order, Out)
     /\ reserved' = IF kind = "reserve" THEN reserved + 1 ELSE reserved
     /\ oversold' = [oversold EXCEPT ![t.bucket] =
                       IF t.units < 0 THEN @ + Shortfall(t.seen - stock[t.bucket]) ELSE @]
     /\ peak' = IF stock'["product"] > peak THEN stock'["product"] ELSE peak
     /\ outdated' = IF kind = "import" /\ ~t.row /\ t.lapped
                     THEN outdated \cup {t.job.order} ELSE outdated
     /\ clean' = (clean /\ ~t.lapped) /\ commits' = commits + 1
     /\ txn' = [r \in ShopSessions |-> CASE r = s -> Closed
                                        [] r \in Open \ {s} -> [txn[r] EXCEPT !.lapped = TRUE]
                                        [] OTHER -> txn[r]]
     /\ UNCHANGED shop

ShopNext == \/ EditCatalogue \/ SetShop
            \/ \E s \in ShopSessions :
                 \/ Entry(s) \/ Sell(s) \/ Receive(s) \/ Pay(s) \/ Count(s) \/ Reserve(s)
                 \/ ChangeOrder(s) \/ ImportAgain(s) \/ ClaimOrder(s)
                 \/ SumShop(s) \/ WriteCatalogue(s) \/ Commit(s)
ShopSpec == ShopInit /\ [][ShopNext]_shopVars

-----------------------------------------------------------------------------
(* The state is what the tables and the sessions can hold. *)
ShopTypeOK ==
  /\ stock \in [Buckets -> Int] /\ catalogue \in Int /\ shop \in {"open", "inactive", "trash"}
  /\ online \in [OnlineOrders -> OnlineRow] /\ taken \in [OnlineOrders -> Int]
  /\ sales \in [SaleKeys -> Nat] /\ bills \in [Bills -> Bill] /\ reserved \in Nat
  /\ oversold \in [Buckets -> Nat] /\ peak \in Nat /\ outdated \subseteq OnlineOrders
  /\ clean \in BOOLEAN
  /\ commits \in 0..MaxCommits
  /\ \A s \in ShopSessions : txn[s] = Closed \/ txn[s].job \in Jobs

(* Stock is only missing where sessions overlapped, and then no more of it than was sold *)
(* out of stock that another session had taken since it was checked *)
(* (record_stock_movement, deduct_woocommerce_order_stock). *)
ShortOnlyByRaces == \A b \in Buckets : stock[b] + oversold[b] >= 0

(* Whatever statuses the store and the staff give an order, however often it is imported *)
(* and whatever sessions overlap: what reservation_status says it holds is what it has out *)
(* of the shop, and a cancelled order holds nothing.  Sessions that change the status wait *)
(* for each other and read the row again; one that imports an unchanged status does not, *)
(* and may take or restore the stock a second time (deduct_woocommerce_order_stock, *)
(* restore_cancelled_woocommerce_order_stock). *)
OrderHoldsWhatItTook == \A o \in OnlineOrders \ outdated :
  /\ taken[o] = IF online[o].held = "deducted" THEN 1 ELSE 0
  /\ online[o].status = "cancelled" => taken[o] = 0

(* A repeated POS request does not sell again, unless the two overlapped. *)
RetrySellsOnce == clean => \A k \in SaleKeys : sales[k] <= 1

(* A receipt is never paid beyond its total on paper, not even by overlapping payments; *)
(* the cash booked out covers what is on paper, and exceeds it only after an overlap. *)
PaidOnPaper == \A b \in Bills : /\ bills[b].paid <= BillTotal
                                /\ bills[b].paid <= bills[b].out
                                /\ clean => bills[b].paid = bills[b].out

(* Reservations were backed by stock when they were granted, unless they overlapped; as *)
(* none is ever released, they stay below the most stock there ever was. *)
ReservedBacked == clean => reserved <= peak

(* Whatever happened before, a movement of the shop's own stock that ran alone leaves the *)
(* catalogue with the balance of the ledger. *)
CatalogueHeals == [][\A s \in ShopSessions :
  (/\ s \in Open /\ txn'[s] = Closed /\ commits' > commits
   /\ ~txn[s].lapped /\ txn[s].bucket = "product" /\ txn[s].units # 0)
  => catalogue' = stock'["product"]]_shopVars

(* The sum of the movements, the orders, the receipts and the reservations stay consistent *)
(* with each other, but for the named consequences of overlapping sessions. *)
ShopSound == /\ ShortOnlyByRaces /\ OrderHoldsWhatItTook /\ RetrySellsOnce
             /\ PaidOnPaper /\ ReservedBacked
=============================================================================
