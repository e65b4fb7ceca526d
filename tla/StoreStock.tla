------------------------------- MODULE StoreStock -------------------------------
(***************************************************************************)
(* The stock of a product of the company's own, which no vendor's ledger   *)
(* keeps.  The store counts it down as it sells.  The ERP takes the        *)
(* store's quantity from webhooks and pulls, onto the product and as an    *)
(* adjustment of the warehouse WOO, and sends the product's quantity back  *)
(* with every push of the product, whatever the push is for.               *)
(***************************************************************************)
EXTENDS Integers

CONSTANTS FirstStock,    \* what the store and the ERP begin with
          MaxStoreMoves, \* bound: changes of the stock in the store
          MaxStockSteps  \* bound: steps of the ERP

ASSUME StoreStockAssumption == {FirstStock, MaxStoreMoves, MaxStockSteps} \subseteq Nat

VARIABLES inStore,    \* stock_quantity in the store
          price,      \* products.regular_price_minor, one more with every edit of it
          quantity,   \* products.stock_quantity
          onHand,     \* the sum of the movements in the warehouse WOO
          pushes,     \* sync_outbox: by content, "open" or "synced"
          sheetOpen,  \* the product's form: what it shows
          takers,     \* the webhook handler and the synchronisation: what they read
          truth,      \* history: the stock, had every sale and delivery been counted
          unsent,     \* history: what the ERP's form added and the store was not told yet
          storeMoves, \* history: how often the stock in the store changed
          informed,   \* history: which of these changes the product's quantity takes in
          saleUndone, \* history: the store was sent a quantity that missed a change of its own
          additionLost, \* history: the store's quantity was taken over one not yet sent
          told,       \* history: what was taken last, and what staff moved in WOO since
          skewed,     \* history: the last adjustment overlapped another movement
          stockSteps

storeStockVars == <<inStore, price, quantity, onHand, pushes, sheetOpen, takers, truth, unsent,
                    storeMoves, informed, saleUndone, additionLost, told, skewed, stockSteps>>

-----------------------------------------------------------------------------
Takers == {"hook", "run"}
Resting == [kind |-> "none"]
NoSheet == [knows |-> -1]
PayloadOf == <<price, quantity>>   \* build_woocommerce_product_payload, of what differs here

StoreStockInit ==
  /\ inStore = FirstStock /\ quantity = FirstStock /\ onHand = FirstStock /\ price = 0
  /\ pushes = [c \in {<<0, FirstStock>>} |-> "synced"]
  /\ sheetOpen = NoSheet /\ takers = [t \in Takers |-> Resting]
  /\ truth = FirstStock /\ unsent = 0 /\ storeMoves = 0 /\ informed = 0
  /\ saleUndone = FALSE /\ additionLost = FALSE /\ skewed = FALSE
  /\ told = [quantity |-> FirstStock, since |-> 0] /\ stockSteps = 0

StockStep(vars) == /\ stockSteps < MaxStockSteps /\ stockSteps' = stockSteps + 1
               /\ UNCHANGED vars
ghostsOfStore == <<truth, storeMoves>>
ghostsOfErp == <<saleUndone, additionLost, told, skewed>>

\* The store sells a piece, or its staff put one there.
StoreMoves == \E d \in {-1, 1} :
  /\ inStore + d >= 0 /\ storeMoves < MaxStoreMoves
  /\ inStore' = inStore + d /\ truth' = truth + d /\ storeMoves' = storeMoves + 1
  /\ UNCHANGED <<price, quantity, onHand, pushes, sheetOpen, takers, unsent, informed,
                 ghostsOfErp, stockSteps>>

-----------------------------------------------------------------------------
\* What a webhook carries, or a pull is answered, is the product as it was then.
Fetch(t) ==
  /\ takers[t] = Resting
  /\ takers' = [takers EXCEPT ![t] = [kind |-> "fetched", item |-> inStore, at |-> storeMoves]]
  /\ StockStep(<<inStore, price, quantity, onHand, pushes, sheetOpen, unsent, informed,
             ghostsOfStore, ghostsOfErp>>)

\* sync_single_product and sync_product_stock_from_woocommerce read the product and the sum.
ReadStock(t) == LET job == takers[t] IN
  /\ job.kind = "fetched"
  /\ takers' = [takers EXCEPT ![t] = [kind |-> "take", item |-> job.item, at |-> job.at,
                                      loaded |-> quantity, current |-> onHand, lapped |-> FALSE]]
  /\ StockStep(<<inStore, price, quantity, onHand, pushes, sheetOpen, unsent, informed,
             ghostsOfStore, ghostsOfErp>>)

\* The adjustment that would make the sum that was read the store's quantity.
Adjustment(job) == job.item - job.current

Later(m, n) == IF m > n THEN m ELSE n

\* Another movement was committed while `t' had read the sum.
Overtaken(t) == [u \in Takers |->
  CASE u = t -> Resting
    [] u # t /\ takers[u].kind = "take" -> [takers[u] EXCEPT !.lapped = TRUE]
    [] OTHER -> takers[u]]

\* The commit: the product's quantity is written where it differs from what was read.
AdoptStock(t) == LET job == takers[t] IN
  /\ job.kind = "take"
  /\ takers' = Overtaken(t)
  /\ onHand' = onHand + Adjustment(job)
  /\ skewed' = job.lapped /\ told' = [quantity |-> job.item, since |-> 0]
  /\ quantity' = IF job.item = job.loaded THEN quantity ELSE job.item
  /\ IF quantity' = job.item
     THEN /\ informed' = IF quantity' = quantity THEN Later(informed, job.at) ELSE job.at
          /\ additionLost' = (additionLost \/ unsent > 0)
     ELSE UNCHANGED <<informed, additionLost>>
  /\ StockStep(<<inStore, price, pushes, sheetOpen, unsent, ghostsOfStore, saleUndone>>)

\* record_stock_movement in the warehouse WOO, by staff.
MoveInWoo == \E d \in {-1, 1} :
  /\ onHand + d >= 0
  /\ onHand' = onHand + d /\ told' = [told EXCEPT !.since = @ + d]
  /\ takers' = Overtaken("none")
  /\ StockStep(<<inStore, price, quantity, pushes, sheetOpen, unsent, informed, ghostsOfStore,
             saleUndone, additionLost, skewed>>)

-----------------------------------------------------------------------------
OpenSheet ==
  /\ sheetOpen = NoSheet
  /\ sheetOpen' = [knows |-> informed, shown |-> quantity]
  /\ StockStep(<<inStore, price, quantity, onHand, pushes, takers, unsent, informed, ghostsOfStore,
             ghostsOfErp>>)

\* enqueue_product_sync: a record of the same content is left as it is.
Queued(content) == IF content \in DOMAIN pushes THEN pushes
                   ELSE [c \in DOMAIN pushes \cup {content} |->
                           IF c = content THEN "open" ELSE pushes[c]]

\* update_product with all the form holds: another price, or pieces that came in.
SaveSheet == \E add \in {0, 1} :
  /\ sheetOpen # NoSheet /\ sheetOpen' = NoSheet
  /\ quantity' = sheetOpen.shown + add /\ informed' = sheetOpen.knows
  /\ price' = IF add = 0 THEN price + 1 ELSE price
  /\ truth' = truth + add
  /\ unsent' = unsent + add
  /\ additionLost' = (additionLost \/ (sheetOpen.shown # quantity /\ unsent > 0))
  /\ pushes' = Queued(<<price', quantity'>>)
  /\ StockStep(<<inStore, onHand, takers, storeMoves, saleUndone, told, skewed>>)

\* A publishing run queues every product again.
Requeue ==
  /\ takers["run"] = Resting /\ PayloadOf \notin DOMAIN pushes
  /\ pushes' = Queued(PayloadOf)
  /\ StockStep(<<inStore, price, quantity, onHand, sheetOpen, takers, unsent, informed,
             ghostsOfStore, ghostsOfErp>>)

\* _process_sync_outbox: the product is read ...
ReadForPush ==
  /\ takers["run"] = Resting /\ \E c \in DOMAIN pushes : pushes[c] = "open"
  /\ takers' = [takers EXCEPT !["run"] =
       [kind |-> "push", quantity |-> quantity, knows |-> informed, adds |-> unsent]]
  /\ StockStep(<<inStore, price, quantity, onHand, pushes, sheetOpen, unsent, informed,
             ghostsOfStore, ghostsOfErp>>)

\* ... and put to the store, and every record of it marked.
PutStock == LET job == takers["run"] IN
  /\ job.kind = "push"
  /\ inStore' = job.quantity
  /\ saleUndone' = (saleUndone \/ job.knows < storeMoves)
  /\ storeMoves' = IF job.quantity = inStore THEN storeMoves ELSE storeMoves + 1
  /\ informed' = IF quantity = job.quantity /\ informed = job.knows THEN storeMoves' ELSE informed
  /\ unsent' = unsent - job.adds
  /\ pushes' = [c \in DOMAIN pushes |-> "synced"]
  /\ takers' = [takers EXCEPT !["run"] = Resting]
  /\ StockStep(<<price, quantity, onHand, sheetOpen, truth, additionLost, told, skewed>>)

StoreStockNext ==
  \/ StoreMoves \/ MoveInWoo
  \/ \E t \in Takers : Fetch(t) \/ ReadStock(t) \/ AdoptStock(t)
  \/ OpenSheet \/ SaveSheet \/ Requeue \/ ReadForPush \/ PutStock
StoreStockSpec == StoreStockInit /\ [][StoreStockNext]_storeStockVars

-----------------------------------------------------------------------------
(* Quantities are counts; the outbox has a record for every content once. *)
StoreStockTypeOK ==
  /\ {inStore, price, quantity} \subseteq Nat /\ {onHand, truth, unsent, informed} \subseteq Int
  /\ \A c \in DOMAIN pushes : pushes[c] \in {"open", "synced"}
  /\ \A t \in Takers : takers[t].kind \in {"none", "fetched", "take", "push"}
  /\ {saleUndone, additionLost, skewed} \subseteq BOOLEAN /\ stockSteps \in 0..MaxStockSteps

(* What the store offers is what there is, but for what the ERP was told and did not send yet: *)
(* unless a push sent back a quantity from before a sale, or the store's quantity was taken *)
(* over one that was still to be sent. *)
StoreOffersWhatThereIs == saleUndone \/ additionLost \/ inStore = truth - unsent

(* The warehouse WOO has what the store had when it was last heard of, and what staff moved *)
(* there since, unless two adjustments, or one and a movement, overlapped. *)
WooFollowsStore == skewed \/ onHand = told.quantity + told.since

StoreStockSound == StoreOffersWhatThereIs /\ WooFollowsStore
=============================================================================
