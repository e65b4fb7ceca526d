------------------------------- MODULE BackOffice -------------------------------
(***************************************************************************)
(* The components that OrderFinance, SyncRuns, PushOutbox and SyncOutbox   *)
(* take for granted, side by side.  Each has among its own steps whatever  *)
(* changes the rows it reads, so interleaving them only multiplies the     *)
(* states.  A behaviour is one of one component, drawn at the start, and   *)
(* the others stand still: what holds of every behaviour here holds of     *)
(* every component alone, and of all of them side by side.                 *)
(***************************************************************************)
EXTENDS ShopStock, VendorStock, OrderSessions, RiderCash, StorePull, Licensing, AuthSessions,
        Accounts, DesktopShell, ProductImages, ProductVideos, JournalBook, StoreOrders,
        VendorCatalogue, StoreTerms, DesktopVendors, DesktopProducts, DesktopAdmin,
        DesktopSync, VendorAccess, StoreRequests, StoreSettings, Customers, VendorLines,
        WhatsAppQueue, StoreStock, Throttle, MediaQueue

VARIABLE part   \* the component that runs

backOfficeVars == <<part, shopVars, vendorStockVars, orderVars, riderVars, pullVars,
                          licenseVars, authVars, accountVars, desktopVars, imageVars,
                          videoVars, bookVars, storeOrderVars, vendorCatalogueVars, termVars,
                          deskVars, productPageVars, officeVars, syncPageVars, accessVars,
                          requestVars, settingsVars, customerVars, vendorLinesVars,
                          whatsAppVars, storeStockVars, throttleVars, mediaQueueVars>>

-----------------------------------------------------------------------------
Parts == {"shop", "vendorStock", "orders", "rider", "pull", "license", "sessions", "accounts",
          "desktop", "images", "videos", "books", "storeOrders", "vendorCatalogue",
          "storeTerms", "desktopVendors", "desktopProducts", "desktopAdmin", "desktopSync",
          "vendorAccess", "storeRequests", "storeSettings", "customers", "vendorLines",
          "whatsApp", "storeStock", "throttle", "mediaQueue"}

\* A component that does not run has no state, unless a property of its own speaks of it.
Off == 0
NoRiderCash == /\ collected = Off /\ remitted = Off /\ fee = Off /\ keysUsed = Off
               /\ owed = Off /\ shown = Off /\ deducted = Off /\ desk = Off
               /\ apartRider = Off /\ riderCalls = Off
NoStorePull == /\ clock = Off /\ store = Off /\ hooks = Off /\ inbox = Off /\ erp = Off
               /\ checkpoint = Off /\ pull = Off /\ storeChanges = Off /\ pulls = Off
               /\ exposed = Off /\ late = Off
NoAuthSessions == /\ app = Off /\ pairs = Off /\ allowed = Off /\ held = Off /\ saved = Off
                  /\ asked = Off /\ asks = Off /\ cut = Off /\ cuts = Off /\ dead = Off
                  /\ reused = Off /\ crashed = Off
NoAccounts == /\ setups = Off /\ admins = Off /\ person = Off /\ vendor = Off
              /\ links = Off /\ request = Off /\ letIn = Off /\ undisturbed = Off
              /\ decisions = Off
NoDesktopShell == /\ screen = Off /\ holder = Off /\ epoch = Off /\ busy = Off
                  /\ tasks = Off /\ timers = Off /\ wanted = Off /\ crossed = Off
                  /\ ignored = Off /\ overtaken = Off
NoProductVideos == /\ videos = Off /\ files = Off /\ manifest = Off /\ videoRecord = Off
                   /\ videoForm = Off /\ videoPush = Off /\ videoBudget = Off
                   /\ changedSince = Off /\ unsaid = Off /\ orphaned = Off /\ emptied = Off
NoStoreOrders == /\ trade = Off /\ saleStates = Off /\ lineSku = Off /\ reading = Off
                 /\ samePhone = Off /\ unread = Off /\ refusedAt = Off /\ tradeSteps = Off
                 /\ meddled = Off
NoVendorCatalogue == /\ wareRow = Off /\ assigned = Off /\ channel = Off /\ rules = Off
                     /\ soldLines = Off /\ editing = Off /\ goodsCalls = Off /\ past = Off
NoStoreTerms == /\ kind = Off /\ book = Off /\ mode = Off /\ phase = Off /\ outcome = Off
                /\ fresh = Off /\ undone = Off /\ quirks = Off /\ termEdits = Off
                /\ termRuns = Off /\ published = Off
NoDesktopVendors == /\ shopNames = Off /\ table = Off /\ chosenRow = Off /\ meant = Off
                    /\ space = Off /\ list = Off /\ spaces = Off /\ slips = Off
                    /\ unseen = Off /\ mistakes = Off /\ deskSteps = Off
NoDesktopProducts == /\ wareRows = Off /\ inUse = Off /\ listed = Off /\ sheet = Off
                     /\ typed = Off /\ since = Off /\ overwritten = Off /\ pageSteps = Off
NoDesktopAdmin == /\ accounts = Off /\ known = Off /\ usersReading = Off /\ picked = Off
                  /\ ticked = Off /\ byHand = Off /\ marks = Off /\ order = Off
                  /\ hiring = Off /\ surprises = Off /\ officeSteps = Off
NoDesktopSync == /\ storeRuns = Off /\ watched = Off /\ buttonsOn = Off /\ pollTimers = Off
                 /\ signedIn = Off /\ signOuts = Off /\ missed = Off
NoVendorAccess == /\ outlets = Off /\ users = Off /\ ties = Off /\ offered = Off
                  /\ stripped = Off /\ trimmed = Off /\ halted = Off /\ swept = Off
                  /\ requests = Off
NoStoreRequests == /\ spoken = Off /\ learned = Off /\ ladder = Off /\ report = Off
                   /\ performed = Off /\ unheard = Off /\ heard = Off /\ callsMade = Off
NoStoreSettings == /\ connector = Off /\ saving = Off /\ testing = Off /\ storeRun = Off
                   /\ edited = Off /\ pulledTill = Off /\ saves = Off /\ lastSecret = Off
                   /\ lost = Off /\ overlap = Off /\ tested = Off /\ settingsSteps = Off
NoCustomers == /\ buyers = Off /\ customers = Off /\ matched = Off /\ runStopped = Off
               /\ causes = Off /\ misbooked = Off /\ customerSteps = Off
NoVendorLines == /\ lines = Off /\ approvals = Off /\ batches = Off /\ refunded = Off
                 /\ history = Off /\ jobs = Off /\ overlaps = Off /\ lineCalls = Off
NoWhatsAppQueue == /\ templates = Off /\ messages = Off /\ sending = Off /\ lapped = Off
                   /\ accepted = Off /\ sends = Off
NoStoreStock == /\ inStore = Off /\ price = Off /\ quantity = Off /\ onHand = Off
                /\ pushes = Off /\ sheetOpen = Off /\ takers = Off /\ truth = Off
                /\ unsent = Off /\ storeMoves = Off /\ informed = Off /\ saleUndone = Off
                /\ additionLost = Off /\ told = Off /\ skewed = Off /\ stockSteps = Off
NoThrottle == /\ minute = Off /\ throttles = Off /\ underway = Off /\ counted = Off
              /\ tries = Off
NoMediaQueue == /\ shots = Off /\ mappedYet = Off /\ mediaRecords = Off /\ mediaWork = Off
                /\ retrying = Off /\ silent = Off /\ swallowed = Off /\ imageEdits = Off
                /\ mediaRetries = Off /\ refusals = Off

BackOfficeInit == /\ part \in Parts
                  /\ ShopInit
                  /\ VendorStockInit
                  /\ OrderSessionsInit
                  /\ IF part = "rider" THEN RiderInit ELSE NoRiderCash
                  /\ IF part = "pull" THEN PullInit ELSE NoStorePull
                  /\ LicenseInit
                  /\ IF part = "sessions" THEN AuthInit ELSE NoAuthSessions
                  /\ IF part = "accounts" THEN AccountsInit ELSE NoAccounts
                  /\ IF part = "desktop" THEN DesktopInit ELSE NoDesktopShell
                  /\ ImagesInit
                  /\ IF part = "videos" THEN VideosInit ELSE NoProductVideos
                  /\ BookInit
                  /\ IF part = "storeOrders" THEN StoreOrderInit ELSE NoStoreOrders
                  /\ IF part = "vendorCatalogue" THEN VendorCatalogueInit ELSE NoVendorCatalogue
                  /\ IF part = "storeTerms" THEN StoreTermsInit ELSE NoStoreTerms
                  /\ IF part = "desktopVendors" THEN DesktopVendorsInit ELSE NoDesktopVendors
                  /\ IF part = "desktopProducts" THEN DesktopProductsInit ELSE NoDesktopProducts
                  /\ IF part = "desktopAdmin" THEN DesktopAdminInit ELSE NoDesktopAdmin
                  /\ IF part = "desktopSync" THEN DesktopSyncInit ELSE NoDesktopSync
                  /\ IF part = "vendorAccess" THEN VendorAccessInit ELSE NoVendorAccess
                  /\ IF part = "storeRequests" THEN StoreRequestsInit ELSE NoStoreRequests
                  /\ IF part = "storeSettings" THEN StoreSettingsInit ELSE NoStoreSettings
                  /\ IF part = "customers" THEN CustomersInit ELSE NoCustomers
                  /\ IF part = "vendorLines" THEN VendorLinesInit ELSE NoVendorLines
                  /\ IF part = "whatsApp" THEN WhatsAppInit ELSE NoWhatsAppQueue
                  /\ IF part = "storeStock" THEN StoreStockInit ELSE NoStoreStock
                  /\ IF part = "throttle" THEN ThrottleInit ELSE NoThrottle
                  /\ IF part = "mediaQueue" THEN MediaQueueInit ELSE NoMediaQueue
                  /\ part # "books" => periods = {}

RunShopStock == /\ part = "shop" /\ ShopNext
                /\ UNCHANGED <<part, vendorStockVars, orderVars, riderVars, pullVars,
                                     licenseVars, authVars, accountVars, desktopVars,
                                     imageVars, videoVars, bookVars, storeOrderVars,
                                     vendorCatalogueVars, termVars, deskVars, productPageVars,
                                     officeVars, syncPageVars, accessVars, requestVars,
                                     settingsVars, customerVars, vendorLinesVars,
                                     whatsAppVars, storeStockVars, throttleVars,
                                     mediaQueueVars>>

RunVendorStock == /\ part = "vendorStock" /\ VendorStockNext
                  /\ UNCHANGED <<part, shopVars, orderVars, riderVars, pullVars, licenseVars,
                                       authVars, accountVars, desktopVars, imageVars,
                                       videoVars, bookVars, storeOrderVars,
                                       vendorCatalogueVars, termVars, deskVars,
                                       productPageVars, officeVars, syncPageVars, accessVars,
                                       requestVars, settingsVars, customerVars,
                                       vendorLinesVars, whatsAppVars, storeStockVars,
                                       throttleVars, mediaQueueVars>>

RunOrderSessions == /\ part = "orders" /\ OrderSessionsNext
                    /\ UNCHANGED <<part, shopVars, vendorStockVars, riderVars, pullVars,
                                         licenseVars, authVars, accountVars, desktopVars,
                                         imageVars, videoVars, bookVars, storeOrderVars,
                                         vendorCatalogueVars, termVars, deskVars,
                                         productPageVars, officeVars, syncPageVars,
                                         accessVars, requestVars, settingsVars, customerVars,
                                         vendorLinesVars, whatsAppVars, storeStockVars,
                                         throttleVars, mediaQueueVars>>

RunRiderCash == /\ part = "rider" /\ RiderNext
                /\ UNCHANGED <<part, shopVars, vendorStockVars, orderVars, pullVars,
                                     licenseVars, authVars, accountVars, desktopVars,
                                     imageVars, videoVars, bookVars, storeOrderVars,
                                     vendorCatalogueVars, termVars, deskVars, productPageVars,
                                     officeVars, syncPageVars, accessVars, requestVars,
                                     settingsVars, customerVars, vendorLinesVars,
                                     whatsAppVars, storeStockVars, throttleVars,
                                     mediaQueueVars>>

RunStorePull == /\ part = "pull" /\ PullNext
                /\ UNCHANGED <<part, shopVars, vendorStockVars, orderVars, riderVars,
                                     licenseVars, authVars, accountVars, desktopVars,
                                     imageVars, videoVars, bookVars, storeOrderVars,
                                     vendorCatalogueVars, termVars, deskVars, productPageVars,
                                     officeVars, syncPageVars, accessVars, requestVars,
                                     settingsVars, customerVars, vendorLinesVars,
                                     whatsAppVars, storeStockVars, throttleVars,
                                     mediaQueueVars>>

RunLicensing == /\ part = "license" /\ LicenseNext
                /\ UNCHANGED <<part, shopVars, vendorStockVars, orderVars, riderVars,
                                     pullVars, authVars, accountVars, desktopVars, imageVars,
                                     videoVars, bookVars, storeOrderVars, vendorCatalogueVars,
                                     termVars, deskVars, productPageVars, officeVars,
                                     syncPageVars, accessVars, requestVars, settingsVars,
                                     customerVars, vendorLinesVars, whatsAppVars,
                                     storeStockVars, throttleVars, mediaQueueVars>>

RunAuthSessions == /\ part = "sessions" /\ AuthNext
                   /\ UNCHANGED <<part, shopVars, vendorStockVars, orderVars, riderVars,
                                        pullVars, licenseVars, accountVars, desktopVars,
                                        imageVars, videoVars, bookVars, storeOrderVars,
                                        vendorCatalogueVars, termVars, deskVars,
                                        productPageVars, officeVars, syncPageVars, accessVars,
                                        requestVars, settingsVars, customerVars,
                                        vendorLinesVars, whatsAppVars, storeStockVars,
                                        throttleVars, mediaQueueVars>>

RunAccounts == /\ part = "accounts" /\ AccountsNext
               /\ UNCHANGED <<part, shopVars, vendorStockVars, orderVars, riderVars, pullVars,
                                    licenseVars, authVars, desktopVars, imageVars, videoVars,
                                    bookVars, storeOrderVars, vendorCatalogueVars, termVars,
                                    deskVars, productPageVars, officeVars, syncPageVars,
                                    accessVars, requestVars, settingsVars, customerVars,
                                    vendorLinesVars, whatsAppVars, storeStockVars,
                                    throttleVars, mediaQueueVars>>

RunDesktopShell == /\ part = "desktop" /\ DesktopNext
                   /\ UNCHANGED <<part, shopVars, vendorStockVars, orderVars, riderVars,
                                        pullVars, licenseVars, authVars, accountVars,
                                        imageVars, videoVars, bookVars, storeOrderVars,
                                        vendorCatalogueVars, termVars, deskVars,
                                        productPageVars, officeVars, syncPageVars, accessVars,
                                        requestVars, settingsVars, customerVars,
                                        vendorLinesVars, whatsAppVars, storeStockVars,
                                        throttleVars, mediaQueueVars>>

RunProductImages == /\ part = "images" /\ ImagesNext
                    /\ UNCHANGED <<part, shopVars, vendorStockVars, orderVars, riderVars,
                                         pullVars, licenseVars, authVars, accountVars,
                                         desktopVars, videoVars, bookVars, storeOrderVars,
                                         vendorCatalogueVars, termVars, deskVars,
                                         productPageVars, officeVars, syncPageVars,
                                         accessVars, requestVars, settingsVars, customerVars,
                                         vendorLinesVars, whatsAppVars, storeStockVars,
                                         throttleVars, mediaQueueVars>>

RunProductVideos == /\ part = "videos" /\ VideosNext
                    /\ UNCHANGED <<part, shopVars, vendorStockVars, orderVars, riderVars,
                                         pullVars, licenseVars, authVars, accountVars,
                                         desktopVars, imageVars, bookVars, storeOrderVars,
                                         vendorCatalogueVars, termVars, deskVars,
                                         productPageVars, officeVars, syncPageVars,
                                         accessVars, requestVars, settingsVars, customerVars,
                                         vendorLinesVars, whatsAppVars, storeStockVars,
                                         throttleVars, mediaQueueVars>>

RunJournalBook == /\ part = "books" /\ BookNext
                  /\ UNCHANGED <<part, shopVars, vendorStockVars, orderVars, riderVars,
                                       pullVars, licenseVars, authVars, accountVars,
                                       desktopVars, imageVars, videoVars, storeOrderVars,
                                       vendorCatalogueVars, termVars, deskVars,
                                       productPageVars, officeVars, syncPageVars, accessVars,
                                       requestVars, settingsVars, customerVars,
                                       vendorLinesVars, whatsAppVars, storeStockVars,
                                       throttleVars, mediaQueueVars>>

RunStoreOrders == /\ part = "storeOrders" /\ StoreOrderNext
                  /\ UNCHANGED <<part, shopVars, vendorStockVars, orderVars, riderVars,
                                       pullVars, licenseVars, authVars, accountVars,
                                       desktopVars, imageVars, videoVars, bookVars,
                                       vendorCatalogueVars, termVars, deskVars,
                                       productPageVars, officeVars, syncPageVars, accessVars,
                                       requestVars, settingsVars, customerVars,
                                       vendorLinesVars, whatsAppVars, storeStockVars,
                                       throttleVars, mediaQueueVars>>

RunVendorCatalogue == /\ part = "vendorCatalogue" /\ VendorCatalogueNext
                      /\ UNCHANGED <<part, shopVars, vendorStockVars, orderVars, riderVars,
                                           pullVars, licenseVars, authVars, accountVars,
                                           desktopVars, imageVars, videoVars, bookVars,
                                           storeOrderVars, termVars, deskVars,
                                           productPageVars, officeVars, syncPageVars,
                                           accessVars, requestVars, settingsVars,
                                           customerVars, vendorLinesVars, whatsAppVars,
                                           storeStockVars, throttleVars, mediaQueueVars>>

RunStoreTerms == /\ part = "storeTerms" /\ StoreTermsNext
                 /\ UNCHANGED <<part, shopVars, vendorStockVars, orderVars, riderVars,
                                      pullVars, licenseVars, authVars, accountVars,
                                      desktopVars, imageVars, videoVars, bookVars,
                                      storeOrderVars, vendorCatalogueVars, deskVars,
                                      productPageVars, officeVars, syncPageVars, accessVars,
                                      requestVars, settingsVars, customerVars,
                                      vendorLinesVars, whatsAppVars, storeStockVars,
                                      throttleVars, mediaQueueVars>>

RunDesktopVendors == /\ part = "desktopVendors" /\ DesktopVendorsNext
                     /\ UNCHANGED <<part, shopVars, vendorStockVars, orderVars, riderVars,
                                          pullVars, licenseVars, authVars, accountVars,
                                          desktopVars, imageVars, videoVars, bookVars,
                                          storeOrderVars, vendorCatalogueVars, termVars,
                                          productPageVars, officeVars, syncPageVars,
                                          accessVars, requestVars, settingsVars, customerVars,
                                          vendorLinesVars, whatsAppVars, storeStockVars,
                                          throttleVars, mediaQueueVars>>

RunDesktopProducts == /\ part = "desktopProducts" /\ DesktopProductsNext
                      /\ UNCHANGED <<part, shopVars, vendorStockVars, orderVars, riderVars,
                                           pullVars, licenseVars, authVars, accountVars,
                                           desktopVars, imageVars, videoVars, bookVars,
                                           storeOrderVars, vendorCatalogueVars, termVars,
                                           deskVars, officeVars, syncPageVars, accessVars,
                                           requestVars, settingsVars, customerVars,
                                           vendorLinesVars, whatsAppVars, storeStockVars,
                                           throttleVars, mediaQueueVars>>

RunDesktopAdmin == /\ part = "desktopAdmin" /\ DesktopAdminNext
                   /\ UNCHANGED <<part, shopVars, vendorStockVars, orderVars, riderVars,
                                        pullVars, licenseVars, authVars, accountVars,
                                        desktopVars, imageVars, videoVars, bookVars,
                                        storeOrderVars, vendorCatalogueVars, termVars,
                                        deskVars, productPageVars, syncPageVars, accessVars,
                                        requestVars, settingsVars, customerVars,
                                        vendorLinesVars, whatsAppVars, storeStockVars,
                                        throttleVars, mediaQueueVars>>

RunDesktopSync == /\ part = "desktopSync" /\ DesktopSyncNext
                  /\ UNCHANGED <<part, shopVars, vendorStockVars, orderVars, riderVars,
                                       pullVars, licenseVars, authVars, accountVars,
                                       desktopVars, imageVars, videoVars, bookVars,
                                       storeOrderVars, vendorCatalogueVars, termVars,
                                       deskVars, productPageVars, officeVars, accessVars,
                                       requestVars, settingsVars, customerVars,
                                       vendorLinesVars, whatsAppVars, storeStockVars,
                                       throttleVars, mediaQueueVars>>

RunVendorAccess == /\ part = "vendorAccess" /\ VendorAccessNext
                   /\ UNCHANGED <<part, shopVars, vendorStockVars, orderVars, riderVars,
                                        pullVars, licenseVars, authVars, accountVars,
                                        desktopVars, imageVars, videoVars, bookVars,
                                        storeOrderVars, vendorCatalogueVars, termVars,
                                        deskVars, productPageVars, officeVars, syncPageVars,
                                        requestVars, settingsVars, customerVars,
                                        vendorLinesVars, whatsAppVars, storeStockVars,
                                        throttleVars, mediaQueueVars>>

RunStoreRequests == /\ part = "storeRequests" /\ StoreRequestsNext
                    /\ UNCHANGED <<part, shopVars, vendorStockVars, orderVars, riderVars,
                                         pullVars, licenseVars, authVars, accountVars,
                                         desktopVars, imageVars, videoVars, bookVars,
                                         storeOrderVars, vendorCatalogueVars, termVars,
                                         deskVars, productPageVars, officeVars, syncPageVars,
                                         accessVars, settingsVars, customerVars,
                                         vendorLinesVars, whatsAppVars, storeStockVars,
                                         throttleVars, mediaQueueVars>>

RunStoreSettings == /\ part = "storeSettings" /\ StoreSettingsNext
                    /\ UNCHANGED <<part, shopVars, vendorStockVars, orderVars, riderVars,
                                         pullVars, licenseVars, authVars, accountVars,
                                         desktopVars, imageVars, videoVars, bookVars,
                                         storeOrderVars, vendorCatalogueVars, termVars,
                                         deskVars, productPageVars, officeVars, syncPageVars,
                                         accessVars, requestVars, customerVars,
                                         vendorLinesVars, whatsAppVars, storeStockVars,
                                         throttleVars, mediaQueueVars>>

RunCustomers == /\ part = "customers" /\ CustomersNext
                /\ UNCHANGED <<part, shopVars, vendorStockVars, orderVars, riderVars,
                                     pullVars, licenseVars, authVars, accountVars,
                                     desktopVars, imageVars, videoVars, bookVars,
                                     storeOrderVars, vendorCatalogueVars, termVars, deskVars,
                                     productPageVars, officeVars, syncPageVars, accessVars,
                                     requestVars, settingsVars, vendorLinesVars, whatsAppVars,
                                     storeStockVars, throttleVars, mediaQueueVars>>

RunVendorLines == /\ part = "vendorLines" /\ VendorLinesNext
                  /\ UNCHANGED <<part, shopVars, vendorStockVars, orderVars, riderVars,
                                       pullVars, licenseVars, authVars, accountVars,
                                       desktopVars, imageVars, videoVars, bookVars,
                                       storeOrderVars, vendorCatalogueVars, termVars,
                                       deskVars, productPageVars, officeVars, syncPageVars,
                                       accessVars, requestVars, settingsVars, customerVars,
                                       whatsAppVars, storeStockVars, throttleVars,
                                       mediaQueueVars>>

RunWhatsAppQueue == /\ part = "whatsApp" /\ WhatsAppNext
                    /\ UNCHANGED <<part, shopVars, vendorStockVars, orderVars, riderVars,
                                         pullVars, licenseVars, authVars, accountVars,
                                         desktopVars, imageVars, videoVars, bookVars,
                                         storeOrderVars, vendorCatalogueVars, termVars,
                                         deskVars, productPageVars, officeVars, syncPageVars,
                                         accessVars, requestVars, settingsVars, customerVars,
                                         vendorLinesVars, storeStockVars, throttleVars,
                                         mediaQueueVars>>

RunStoreStock == /\ part = "storeStock" /\ StoreStockNext
                 /\ UNCHANGED <<part, shopVars, vendorStockVars, orderVars, riderVars,
                                      pullVars, licenseVars, authVars, accountVars,
                                      desktopVars, imageVars, videoVars, bookVars,
                                      storeOrderVars, vendorCatalogueVars, termVars, deskVars,
                                      productPageVars, officeVars, syncPageVars, accessVars,
                                      requestVars, settingsVars, customerVars,
                                      vendorLinesVars, whatsAppVars, throttleVars,
                                      mediaQueueVars>>

RunThrottle == /\ part = "throttle" /\ ThrottleNext
               /\ UNCHANGED <<part, shopVars, vendorStockVars, orderVars, riderVars, pullVars,
                                    licenseVars, authVars, accountVars, desktopVars,
                                    imageVars, videoVars, bookVars, storeOrderVars,
                                    vendorCatalogueVars, termVars, deskVars, productPageVars,
                                    officeVars, syncPageVars, accessVars, requestVars,
                                    settingsVars, customerVars, vendorLinesVars, whatsAppVars,
                                    storeStockVars, mediaQueueVars>>

RunMediaQueue == /\ part = "mediaQueue" /\ MediaQueueNext
                 /\ UNCHANGED <<part, shopVars, vendorStockVars, orderVars, riderVars,
                                      pullVars, licenseVars, authVars, accountVars,
                                      desktopVars, imageVars, videoVars, bookVars,
                                      storeOrderVars, vendorCatalogueVars, termVars, deskVars,
                                      productPageVars, officeVars, syncPageVars, accessVars,
                                      requestVars, settingsVars, customerVars,
                                      vendorLinesVars, whatsAppVars, storeStockVars,
                                      throttleVars>>

BackOfficeNext == \/ RunShopStock \/ RunVendorStock \/ RunOrderSessions \/ RunRiderCash
                  \/ RunStorePull \/ RunLicensing \/ RunAuthSessions \/ RunAccounts
                  \/ RunDesktopShell \/ RunProductImages \/ RunProductVideos \/ RunJournalBook
                  \/ RunStoreOrders \/ RunVendorCatalogue \/ RunStoreTerms \/ RunDesktopVendors
                  \/ RunDesktopProducts \/ RunDesktopAdmin \/ RunDesktopSync \/ RunVendorAccess
                  \/ RunStoreRequests \/ RunStoreSettings \/ RunCustomers \/ RunVendorLines
                  \/ RunWhatsAppQueue \/ RunStoreStock \/ RunThrottle \/ RunMediaQueue
BackOfficeSpec == BackOfficeInit /\ [][BackOfficeNext]_backOfficeVars

(* What the sessions do, and how many of them do it: which one does what makes no difference *)
(* to the actions or the properties. *)
Nameless(f) == {<<f[s], Cardinality({r \in DOMAIN f : f[r] = f[s]})>> : s \in DOMAIN f}

(* All of a state that a step can change: what tells two states of a run apart. *)
TheState == <<part, CASE part = "shop" -> <<rows, ghosts, Nameless(txn)>>
                     [] part = "vendorStock" -> <<balance, moved, posted, Nameless(posting)>>
                     [] part = "orders" -> orderVars
                     [] part = "rider" -> <<collected, remitted, fee, keysUsed, owed, shown,
                                            deducted, Nameless(desk), apartRider, riderCalls>>
                     [] part = "pull" -> pullVars
                     [] part = "license" -> licenseVars
                     [] part = "sessions" -> <<client, server, asks, Nameless(asked)>>
                     [] part = "accounts" -> accountVars
                     [] part = "desktop" -> desktopVars
                     [] part = "images" -> imageVars
                     [] part = "videos" -> videoVars
                     [] part = "books" -> bookVars
                     [] part = "storeOrders" -> storeOrderVars
                     [] part = "vendorCatalogue" -> vendorCatalogueVars
                     [] part = "storeTerms" -> termVars
                     [] part = "desktopVendors" -> deskVars
                     [] part = "desktopProducts" -> productPageVars
                     [] part = "desktopAdmin" -> officeVars
                     [] part = "desktopSync" -> syncPageVars
                     [] part = "vendorAccess" -> accessVars
                     [] part = "storeRequests" -> requestVars
                     [] part = "storeSettings" -> settingsVars
                     [] part = "customers" -> customerVars
                     [] part = "vendorLines" -> <<lines, approvals, batches, refunded, history,
                                                  Nameless(jobs), overlaps, lineCalls>>
                     [] part = "whatsApp" -> whatsAppVars
                     [] part = "storeStock" -> storeStockVars
                     [] part = "throttle" -> throttleVars
                     [] part = "mediaQueue" -> mediaQueueVars>>

-----------------------------------------------------------------------------
(* The state of the component that runs is of its type; the others keep what they begin with. *)
BackOfficeTypeOK == /\ part = "shop" => ShopTypeOK
                    /\ part = "vendorStock" => VendorStockTypeOK
                    /\ part = "orders" => OrderSessionsTypeOK
                    /\ part = "rider" => RiderTypeOK
                    /\ part = "pull" => PullTypeOK
                    /\ part = "license" => LicenseTypeOK
                    /\ part = "sessions" => AuthTypeOK
                    /\ part = "accounts" => AccountsTypeOK
                    /\ part = "desktop" => DesktopTypeOK
                    /\ part = "images" => ImagesTypeOK
                    /\ part = "videos" => VideosTypeOK
                    /\ part = "books" => BookTypeOK
                    /\ part = "storeOrders" => StoreOrderTypeOK
                    /\ part = "vendorCatalogue" => VendorCatalogueTypeOK
                    /\ part = "storeTerms" => StoreTermsTypeOK
                    /\ part = "desktopVendors" => DesktopVendorsTypeOK
                    /\ part = "desktopProducts" => DesktopProductsTypeOK
                    /\ part = "desktopAdmin" => DesktopAdminTypeOK
                    /\ part = "desktopSync" => DesktopSyncTypeOK
                    /\ part = "vendorAccess" => VendorAccessTypeOK
                    /\ part = "storeRequests" => StoreRequestsTypeOK
                    /\ part = "storeSettings" => StoreSettingsTypeOK
                    /\ part = "customers" => CustomersTypeOK
                    /\ part = "vendorLines" => VendorLinesTypeOK
                    /\ part = "whatsApp" => WhatsAppTypeOK
                    /\ part = "storeStock" => StoreStockTypeOK
                    /\ part = "throttle" => ThrottleTypeOK
                    /\ part = "mediaQueue" => MediaQueueTypeOK

(* What was ended by somebody stays ended, whatever requests overlap it: a cancelled or *)
(* refunded order (change_order_status), a license revoked where it is used *)
(* (activate_license), an image taken off a product and a closed month of the ledger, but for *)
(* what is named there. *)
EndedStaysEnded == ClosedForGood /\ LocalRevocationHolds /\ RemovalKept /\ ClosedBooksStay

(* What a component promises, of the states in which it runs, is stated and explained in its *)
(* module; the components that stand still are left out of it. *)

(* Stock, bills, sales and payments of a vendor's shop, under requests that overlap, are *)
(* counted once and only once, but for what ShopSound names (shop_services). *)
ShopKept == part = "shop" => ShopSound

(* The payments and refunds of an order agree with its status, and the approval, *)
(* settlement and work on a line of a vendor with each other, but for what is named there *)
(* (change_order_status, record_order_payment, create_vendor_settlement, *)
(* decide_vendor_item). *)
OrdersKept == /\ part = "orders" => OrderSessionsSound
              /\ part = "vendorLines" => VendorLinesSound

(* What a rider collected, handed in and earned adds up, but for what RiderSound names *)
(* (finance_services). *)
RiderKept == part = "rider" => RiderSound

(* What the store had before a pull began is in the ERP after it, what is asked of the *)
(* store is done once, and what is known of it is of the store that is named, but for *)
(* what is named there (_pull_incremental_woocommerce_collection, *)
(* make_woocommerce_request, configure_woocommerce). *)
PullKept == /\ part = "pull" => PullSound
            /\ part = "storeRequests" => StoreRequestsSound
            /\ part = "storeSettings" => StoreSettingsSound

(* A key is used on one device and for its term, but for what LicenseSound names *)
(* (licensing_services, license_server). *)
LicenseKept == part = "license" => LicenseSound

(* Who was signed out, or stopped, has no working token, and who tries too often is *)
(* refused for a while, and no one else, but for what is named there (refresh_session, *)
(* revoke_user_sessions, record_auth_throttle_attempt). *)
AuthKept == /\ part = "sessions" => AuthSound
            /\ part = "throttle" => ThrottleSound

(* Links, approvals and first accounts work once, and requests about others neither let a *)
(* user act for a vendor nor shut him out, but for what is named there (admin_services, *)
(* vendor_auth_services). *)
AccountsKept == /\ part = "accounts" => AccountsSound
                /\ part = "vendorAccess" => VendorAccessSound

(* The desktop shows and uses what belongs to the user who is signed in, does what it *)
(* does to the vendor, product or user that was picked, and keeps its buttons alive, but *)
(* for what is named there (desktop main.py, api_client.py). *)
DesktopKept == /\ part = "desktop" => DesktopSound
               /\ part = "desktopVendors" => DesktopVendorsSound
               /\ part = "desktopProducts" => DesktopProductsSound
               /\ part = "desktopAdmin" => DesktopAdminSound
               /\ part = "desktopSync" => DesktopSyncSound

(* The journals balance and agree with the vendors' rows, but for what BookSound names *)
(* (ledger_services, accounting_services). *)
BookKept == part = "books" => BookSound

(* An order of the store is imported once, with its stock and its payment and for the *)
(* customer who made it, the stock of what the company sells itself is the same on both *)
(* sides, and a message queued for a customer tells how its sending went, but for what is *)
(* named there (sync_single_order, sync_single_customer, *)
(* sync_product_stock_from_woocommerce, whatsapp_services). *)
StoreOrdersKept == /\ part = "storeOrders" => StoreOrdersSound
                   /\ part = "customers" => CustomersSound
                   /\ part = "whatsApp" => WhatsAppSound
                   /\ part = "storeStock" => StoreStockSound

(* What the store shows of a product is what the ERP has, nothing the store's staff added *)
(* is lost, and what it does not have yet is waiting or told, but for what is named there *)
(* (reconcile_product_images_from_remote, retry_failed_product_media_sync). *)
MediaSound == /\ part = "images" => ImagesSound
              /\ part = "videos" => VideosSound
              /\ part = "mediaQueue" => MediaQueueSound

(* A product keeps to its vendor, is on sale only where it was approved and is booked by *)
(* the rule meant for it; and the categories and brands of both sides come to agree, but *)
(* for what is named there. *)
CatalogueSound == /\ part = "vendorCatalogue" => VendorCatalogueSound
                  /\ part = "storeTerms" => StoreTermsSound
=============================================================================
