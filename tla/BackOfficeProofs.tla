--------------------------- MODULE BackOfficeProofs ---------------------------
(***************************************************************************)
(* What is proved of the components holds in the composition: a behaviour  *)
(* of BackOffice is one of the component it began with, and the others     *)
(* stand still.                                                            *)
(***************************************************************************)
EXTENDS BackOffice, TradeProofs, AccessProofs, StoreProofs, BookProofs

--------------------
(* No step changes which component runs, and every step is one of it. *)
LEMMA StepOfPart ==
  ASSUME [BackOfficeNext]_backOfficeVars
  PROVE  /\ part' = part
         /\ [LicenseNext]_licenseVars /\ [OrderSessionsNext]_orderVars
         /\ [VendorStockNext]_vendorStockVars /\ [ShopNext]_shopVars
         /\ [ImagesNext]_imageVars /\ [BookNext]_bookVars
         /\ part = "vendorLines" => [VendorLinesNext]_vendorLinesVars
         /\ part = "rider" => [RiderNext]_riderVars
         /\ part = "sessions" => [AuthNext]_authVars
         /\ part = "throttle" => [ThrottleNext]_throttleVars
         /\ part = "accounts" => [AccountsNext]_accountVars
         /\ part = "vendorAccess" => [VendorAccessNext]_accessVars
         /\ part = "videos" => [VideosNext]_videoVars
         /\ part = "mediaQueue" => [MediaQueueNext]_mediaQueueVars
         /\ part = "desktop" => [DesktopNext]_desktopVars
         /\ part = "desktopVendors" => [DesktopVendorsNext]_deskVars
         /\ part = "desktopProducts" => [DesktopProductsNext]_productPageVars
         /\ part = "desktopAdmin" => [DesktopAdminNext]_officeVars
         /\ part = "desktopSync" => [DesktopSyncNext]_syncPageVars
         /\ part = "pull" => [PullNext]_pullVars
         /\ part = "storeRequests" => [StoreRequestsNext]_requestVars
         /\ part = "storeSettings" => [StoreSettingsNext]_settingsVars
         /\ part = "storeOrders" => [StoreOrderNext]_storeOrderVars
         /\ part = "customers" => [CustomersNext]_customerVars
         /\ part = "whatsApp" => [WhatsAppNext]_whatsAppVars
         /\ part = "storeStock" => [StoreStockNext]_storeStockVars
<1>1. CASE UNCHANGED backOfficeVars BY <1>1 DEF backOfficeVars
<1>2. CASE BackOfficeNext
  BY <1>2 DEF BackOfficeNext, RunShopStock, RunVendorStock, RunOrderSessions, RunRiderCash,
              RunStorePull, RunLicensing, RunAuthSessions, RunAccounts, RunDesktopShell,
              RunProductImages, RunProductVideos, RunJournalBook, RunStoreOrders,
              RunVendorCatalogue, RunStoreTerms, RunDesktopVendors, RunDesktopProducts,
              RunDesktopAdmin, RunDesktopSync, RunVendorAccess, RunStoreRequests,
              RunStoreSettings, RunCustomers, RunVendorLines, RunWhatsAppQueue, RunStoreStock,
              RunThrottle, RunMediaQueue
<1> QED BY <1>1, <1>2

--------------------
(* In the composition a key is used on one device and for its term (licensing_services, *)
(* license_server). *)
THEOREM LicenseStands == BackOfficeSpec => []LicenseKept
<1> DEFINE Inv == part = "license" => LicenseInv
<1>1. BackOfficeInit => Inv BY LicenseStart DEF BackOfficeInit
<1>2. Inv /\ [BackOfficeNext]_backOfficeVars => Inv' BY StepOfPart, LicenseStep
<1>3. Inv => LicenseKept BY BackedIsValid, BackedIsSingle DEF LicenseKept, LicenseSound
<1> QED BY <1>1, <1>2, <1>3, PTL DEF BackOfficeSpec

(* In the composition the payments and refunds of an order agree with its status, and the *)
(* approval, settlement and work on a line of a vendor with each other, but for what is *)
(* named there (change_order_status, record_order_payment, create_vendor_settlement, *)
(* decide_vendor_item). *)
THEOREM OrdersStand == BackOfficeSpec => []OrdersKept
<1> DEFINE Inv == /\ part = "orders" => OrderInv
                  /\ part = "vendorLines" => LinesInv
<1>1. BackOfficeInit => Inv BY OrderInit, LinesStart DEF BackOfficeInit
<1>2. Inv /\ [BackOfficeNext]_backOfficeVars => Inv' BY StepOfPart, OrderStep, LinesStep
<1>3. Inv => OrdersKept BY LinesSound DEF OrdersKept, OrderInv
<1> QED BY <1>1, <1>2, <1>3, PTL DEF BackOfficeSpec

(* In the composition the balance of a vendor's product is the sum of its movements and *)
(* never short (_balance_for_update, post_inventory_movement). *)
THEOREM VendorStockStands == BackOfficeSpec => []VendorStockSound
<1>1. BackOfficeInit => LockInv BY LockInit DEF BackOfficeInit
<1>2. LockInv /\ [BackOfficeNext]_backOfficeVars => LockInv' BY StepOfPart, LockStep
<1>3. LockInv => VendorStockSound BY DEF LockInv
<1> QED BY <1>1, <1>2, <1>3, PTL DEF BackOfficeSpec

(* In the composition what a rider collected, handed in and earned adds up, but for what *)
(* RiderSound names (create_rider_payout, reconcile_remittance, reconcile_cod_collection). *)
THEOREM RiderStands == BackOfficeSpec => []RiderKept
<1> DEFINE Inv == part = "rider" => RiderInv
<1>1. BackOfficeInit => Inv BY RiderStart DEF BackOfficeInit
<1>2. Inv /\ [BackOfficeNext]_backOfficeVars => Inv' BY StepOfPart, RiderStep
<1>3. Inv => RiderKept BY DEF RiderKept, RiderInv
<1> QED BY <1>1, <1>2, <1>3, PTL DEF BackOfficeSpec

(* In the composition the stock, bills, sales and payments of a vendor's shop are counted *)
(* once and only once, but for what ShopSound names (shop_services). *)
THEOREM ShopStands == BackOfficeSpec => []ShopKept
<1>1. BackOfficeInit => ShopInv BY ShopStart DEF BackOfficeInit
<1>2. ShopInv /\ [BackOfficeNext]_backOfficeVars => ShopInv' BY StepOfPart, ShopStep
<1>3. ShopInv => ShopKept BY DEF ShopKept, ShopInv
<1> QED BY <1>1, <1>2, <1>3, PTL DEF BackOfficeSpec

(* In the composition too, a movement of the product's own stock whose transaction ran alone *)
(* leaves the catalogue with the balance (sync_product_catalog_quantity_from_shop). *)
THEOREM CatalogueStands == BackOfficeSpec => CatalogueHeals
<1> DEFINE Heals == \A s \in ShopSessions :
             (/\ s \in Open /\ txn'[s] = Closed /\ commits' > commits
              /\ ~txn[s].lapped /\ txn[s].bucket = "product" /\ txn[s].units # 0)
             => catalogue' = stock'["product"]
<1>1. BackOfficeInit => ShopInv BY ShopStart DEF BackOfficeInit
<1>2. ShopInv /\ [BackOfficeNext]_backOfficeVars => ShopInv' BY StepOfPart, ShopStep
<1>3. ShopInv /\ [ShopNext]_shopVars => [Heals]_shopVars BY CommitHeals
<1>4. [BackOfficeNext]_backOfficeVars => [ShopNext]_shopVars BY StepOfPart
<1>5. CatalogueHeals <=> [][Heals]_shopVars BY DEF CatalogueHeals
<1> HIDE DEF Heals
<1> QED BY <1>1, <1>2, <1>3, <1>4, <1>5, PTL DEF BackOfficeSpec

(* In the composition what was rotated, cut off, signed out or stolen is of no use, but for *)
(* what AuthSound names, and whoever is refused has used up his attempts *)
(* (rotate_refresh_token, revoke_user_sessions, record_auth_throttle_attempt). *)
THEOREM SessionsStand == BackOfficeSpec => []AuthKept
<1> DEFINE Inv == /\ part = "sessions" => AuthInv
                  /\ part = "throttle" => ThrottleInv
<1>1. BackOfficeInit => Inv BY AuthStart, ThrottleStart DEF BackOfficeInit
<1>2. Inv /\ [BackOfficeNext]_backOfficeVars => Inv' BY StepOfPart, AuthStep, ThrottleStep
<1>3. Inv => AuthKept BY SessionsSound, ThrottleHolds DEF AuthKept
<1> QED BY <1>1, <1>2, <1>3, PTL DEF BackOfficeSpec

(* In the composition an administrator is left, who may sign in was let in, a link sets a *)
(* password once, and by requests about others nobody loses a vendor he acts for; but for *)
(* what AccountsSound and VendorAccessSound name (update_user, change_vendor_status, *)
(* consume_action_token, _backfill_unambiguous_vendor_users). *)
THEOREM AccountsStand == BackOfficeSpec => []AccountsKept
<1> DEFINE Inv == /\ part = "accounts" => AccountsInv
                  /\ part = "vendorAccess" => AccessInv
<1>1. BackOfficeInit => Inv BY AccountsStart, AccessStart DEF BackOfficeInit
<1>2. Inv /\ [BackOfficeNext]_backOfficeVars => Inv' BY StepOfPart, AccountsStep, AccessStep
<1>3. Inv => AccountsKept BY AccountsInvSound, AccessInvSound DEF AccountsKept
<1> QED BY <1>1, <1>2, <1>3, PTL DEF BackOfficeSpec

(* In the composition what the store shows of a product is what the ERP has, nothing its *)
(* staff added is lost, and what it does not have yet is waiting or told; but for what is *)
(* named there (reconcile_product_images_from_remote, retry_failed_product_media_sync). *)
THEOREM MediaStands == BackOfficeSpec => []MediaSound
<1> DEFINE Inv == /\ ImagesInv
                  /\ part = "videos" => VideosInv
                  /\ part = "mediaQueue" => MediaInv
<1>1. BackOfficeInit => Inv BY ImagesStart, VideosStart, MediaStart DEF BackOfficeInit
<1>2. Inv /\ [BackOfficeNext]_backOfficeVars => Inv'
  BY StepOfPart, ImagesStep, VideosStep, MediaStep
<1>3. Inv => MediaSound BY ImagesShown, VideosMean, MediaMeans DEF MediaSound
<1> QED BY <1>1, <1>2, <1>3, PTL DEF BackOfficeSpec

(* In the composition the windows and pages of the desktop client are of who is signed in *)
(* and of what was chosen, and a save changes what was meant, but for what is named there *)
(* (accept_session, load_context, edit_selected_vendor, save_product, save_user). *)
THEOREM DesktopStands == BackOfficeSpec => []DesktopKept
<1> DEFINE Inv == /\ part = "desktop" => ShellInv
                  /\ part = "desktopVendors" => VendorPageInv
                  /\ part = "desktopProducts" => ProductPageInv
                  /\ part = "desktopAdmin" => OfficeInv
                  /\ part = "desktopSync" => SyncPageInv
<1>1. BackOfficeInit => Inv
  BY ShellStart, VendorPageStart, ProductPageStart, OfficeStart, SyncPageStart DEF BackOfficeInit
<1>2. Inv /\ [BackOfficeNext]_backOfficeVars => Inv'
  BY StepOfPart, ShellStep, VendorPageStep, ProductPageStep, OfficeStep, SyncPageStep
<1>3. Inv => DesktopKept
  BY ShellSound, VendorPageSound, ProductPageTrue, OfficeTrue, SyncPageTrue DEF DesktopKept
<1> QED BY <1>1, <1>2, <1>3, PTL DEF BackOfficeSpec

(* In the composition a pull leaves no product of the store behind, a call to the store is *)
(* performed once, and the settings in use are the ones that were saved, but for what is *)
(* named there (import_products_task, _request, upsert_settings). *)
THEOREM PullStands == BackOfficeSpec => []PullKept
<1> DEFINE Inv == /\ part = "pull" => PullInv
                  /\ part = "storeRequests" => RequestsInv
                  /\ part = "storeSettings" => SettingsInv
<1>1. BackOfficeInit => Inv BY PullStart, RequestsStart, SettingsStart DEF BackOfficeInit
<1>2. Inv /\ [BackOfficeNext]_backOfficeVars => Inv'
  BY StepOfPart, PullStep, RequestsStep, SettingsKept
<1>3. Inv => PullKept BY RequestsTrue, SettingsTrue DEF PullKept, PullInv
<1> QED BY <1>1, <1>2, <1>3, PTL DEF BackOfficeSpec

(* In the composition an order of the store is imported with its vendor, payment and stock, *)
(* an account of the store is one customer, a message tells how its sending went and the *)
(* stock of both sides agrees, but for what is named there (sync_single_order, *)
(* sync_single_customer, process_whatsapp_queue, sync_product_stock_from_woocommerce). *)
THEOREM StoreOrdersStand == BackOfficeSpec => []StoreOrdersKept
<1> DEFINE Inv == /\ part = "storeOrders" => StoreOrdersInv
                  /\ part = "customers" => CustomersInv
                  /\ part = "whatsApp" => TextsInv
                  /\ part = "storeStock" => StoreStockInv
<1>1. BackOfficeInit => Inv
  BY StoreOrdersStart, CustomersStart, TextsStart, StoreStockStart DEF BackOfficeInit
<1>2. Inv /\ [BackOfficeNext]_backOfficeVars => Inv'
  BY StepOfPart, StoreOrdersSteps, CustomersStep, TextsStep, StoreStockStep
<1>3. Inv => StoreOrdersKept
  BY StoreOrdersTrueOf, CustomersTrueOf, TextsTrue, StoreStockSafe DEF StoreOrdersKept
<1> QED BY <1>1, <1>2, <1>3, PTL DEF BackOfficeSpec

(* In the composition too, the ledger and the older books agree but for what BookSound names *)
(* (ledger_services, accounting_services). *)
THEOREM BooksStand == BackOfficeSpec => []BookKept
<1>1. BackOfficeInit => BookInv BY BookStarts DEF BackOfficeInit
<1>2. BookInv /\ [BackOfficeNext]_backOfficeVars => BookInv' BY StepOfPart, BookStepKeeps
<1>3. BookInv => BookKept BY BooksSound DEF BookKept
<1> QED BY <1>1, <1>2, <1>3, PTL DEF BackOfficeSpec

(* In the composition a cancelled or refunded order, a revoked license, an image taken off *)
(* a product and a closed month of the ledger stay so, but for the calls that had read what *)
(* was before (change_order_status, activate_license, reconcile_product_images_from_remote, *)
(* ensure_period_for_date). *)
THEOREM EndedStands == BackOfficeSpec => EndedStaysEnded
<1> DEFINE Inv == OrderInv /\ LicenseInv /\ ImagesInv /\ BookInv
           Orders == \A s \in PaySessions :
             (/\ calls[s].kind = "change" /\ calls'[s] = NoCall
              /\ orderState \in ClosedStates /\ orderState' # orderState) => calls[s].lapped
           Licenses == \A i \in Installs :
             row[i].status = "revoked" /\ row'[i].status = "active"
             => activation[i].before = "revoked"
           Books == /\ \A j \in DOMAIN journals' \ DOMAIN journals :
                         LET over == Covering(periods, journals'[j].on)
                         IN over = {} \/ \E p \in over : p.status = "open"
                    /\ \A p \in periods : p.status = "closed" => p \in periods'
           Removals == \A r \in ImageRows :
             /\ images[r].status = "pending_remove" /\ Exists(images', r)
             /\ images'[r].status # "pending_remove"
             => \/ r \in DOMAIN form
                \/ imagePush # NoPush /\ imagePush.cached[r].status = "pending_add"
<1>1. BackOfficeInit => Inv BY OrderInit, LicenseStart, ImagesStart, BookStarts DEF BackOfficeInit
<1>2. Inv /\ [BackOfficeNext]_backOfficeVars => Inv'
  BY StepOfPart, OrderStep, LicenseStep, ImagesStep, BookStepKeeps
<1>3. Inv /\ [BackOfficeNext]_backOfficeVars => [Orders]_orderVars BY StepOfPart, OrderReopened
<1>4. Inv /\ [BackOfficeNext]_backOfficeVars => [Licenses]_licenseVars BY StepOfPart, LicenseRevived
<1>5. Inv /\ [BackOfficeNext]_backOfficeVars => [Removals]_imageVars
  BY StepOfPart, RemovalsStayStep DEF RemovalsStay
<1>6. Inv /\ [BackOfficeNext]_backOfficeVars => [Books]_bookVars
  BY StepOfPart, BookStep DEF PeriodsStay, InOpenBooks, AddedInOpenBooks
<1>7. /\ ClosedForGood <=> [][Orders]_orderVars
      /\ LocalRevocationHolds <=> [][Licenses]_licenseVars
      /\ RemovalKept <=> [][Removals]_imageVars
      /\ ClosedBooksStay <=> [][Books]_bookVars
  BY DEF ClosedForGood, LocalRevocationHolds, RemovalKept, ClosedBooksStay
<1> HIDE DEF Inv, Orders, Licenses, Removals, Books
<1> QED BY <1>1, <1>2, <1>3, <1>4, <1>5, <1>6, <1>7, PTL DEF BackOfficeSpec, EndedStaysEnded
=============================================================================
