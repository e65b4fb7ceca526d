------------------------------- MODULE StorePull -------------------------------
(***************************************************************************)
(* What comes from the WooCommerce store: the products (orders come the    *)
(* same way) a sync run pulls page by page, the webhooks the store sends   *)
(* at every change, and the reconciliation that archives what is gone.     *)
(*                                                                         *)
(* A page is a slice of a listing the store computes when it is asked, and *)
(* the store goes on changing between two pages.  An incremental pull asks *)
(* for what was modified in a window of whole seconds, from the start of   *)
(* the last finished pull, less an overlap, up to its own start, ordered   *)
(* by the modification; the others list every product by its id.  Imports  *)
(* are committed page by page, the checkpoint after the last one.          *)
(*                                                                         *)
(* A webhook is delivered late, twice or never, and imported at once.      *)
(***************************************************************************)
EXTENDS FiniteSets, Integers

CONSTANTS NumProducts,    \* the products of the store, numbered by their id
          PageSize,       \* per_page
          OwnProducts,    \* the products of the vendor whose pulls are scoped
          MaxSeconds,     \* bound: of the clock
          MaxStoreChanges,\* bound: changes in the store
          MaxPulls        \* bound: runs that begin

ASSUME PullAssumption == /\ NumProducts \in Nat /\ PageSize \in Nat \ {0} /\ MaxSeconds \in Nat
                         /\ OwnProducts \subseteq 1..NumProducts
                         /\ MaxStoreChanges \in Nat /\ MaxPulls \in Nat

VARIABLES clock,      \* the second it is
          store,      \* the store's products: whether there, the second of the last
                      \*   modification, the content (a count)
          hooks,      \* webhooks the store has sent
          inbox,      \* sync_inbox_logs: the deliveries received, whether imported or failed
          erp,        \* the ERP's products: the content they were imported with, and status
          checkpoint, \* last_products_sync; 0 when there was no finished pull
          pull,       \* the run that is pulling
          storeChanges, pulls,
          exposed,    \* history: products a page shift hid from a run, not imported since
          late        \* history: products a late webhook was imported over, not imported since

pullVars == <<clock, store, hooks, inbox, erp, checkpoint, pull, storeChanges, pulls, exposed, late>>

-----------------------------------------------------------------------------
StoreProducts == 1..NumProducts
NoPull == [phase |-> "idle"]
PullKinds == {"all", "vendor", "reconcile"}

\* Faulty: the window begins where the last one began.
AfterWithoutOverlap(checkpt) == checkpt

\* _woocommerce_incremental_after: an overlap of a second; the bound is exclusive.
After(checkpt) == checkpt - 1

\* What the store answers a run with, as it is now: every product for a run without a
\* checkpoint, else those of its window; both bounds are exclusive.
InWindow(run, p) == \/ run.since = 0
                    \/ store[p].at > After(run.since) /\ store[p].at < run.start
Earlier(run, p, q) == IF run.since = 0 \/ store[p].at = store[q].at THEN p < q
                      ELSE store[p].at < store[q].at
Listing(run) == {p \in StoreProducts : store[p].there /\ InWindow(run, p)}
Place(run, p) == Cardinality({q \in Listing(run) : q = p \/ Earlier(run, q, p)})
UpTo(page) == page * PageSize
PageOf(run) == {p \in Listing(run) : Place(run, p) \in UpTo(run.page - 1) + 1 .. UpTo(run.page)}

\* When `p' leaves the answer, and was on a page the run has read, the first product of
\* the next page moves to a page it has read, too.
Hidden(p) == IF pull.phase = "idle" THEN {}
             ELSE LET read == UpTo(IF pull.phase = "fetch" THEN pull.page - 1 ELSE pull.page)
                  IN IF p \in Listing(pull) /\ Place(pull, p) <= read
                     THEN {q \in Listing(pull) : Place(pull, q) = read + 1} ELSE {}
Hide(products) == IF pull.phase = "idle" THEN NoPull ELSE [pull EXCEPT !.hidden = @ \cup products]

-----------------------------------------------------------------------------
PullInit ==
  /\ clock = 1
  /\ store = [p \in StoreProducts |-> [there |-> TRUE, at |-> 1, text |-> 1]]
  /\ hooks = {} /\ inbox = {} /\ checkpoint = 0
  /\ erp = [p \in StoreProducts |-> [text |-> 0, status |-> "absent"]]
  /\ pull = NoPull /\ storeChanges = 0 /\ pulls = 0 /\ exposed = {} /\ late = {}

TickClock == /\ clock < MaxSeconds /\ clock' = clock + 1
             /\ UNCHANGED <<store, hooks, inbox, erp, checkpoint, pull, storeChanges, pulls, exposed, late>>

\* A product of the store is modified, or deleted; a webhook says so.
ChangeStore == \E p \in StoreProducts, there \in BOOLEAN :
  LET row == [there |-> there, at |-> clock, text |-> store[p].text + 1]
      leaves == ~there \/ (pull.phase # "idle" => pull.since # 0)
  IN /\ store[p].there /\ storeChanges < MaxStoreChanges
     /\ storeChanges' = storeChanges + 1
     /\ store' = [store EXCEPT ![p] = row]
     /\ hooks' = hooks \cup {[product |-> p, text |-> row.text, gone |-> ~there]}
     /\ pull' = Hide(IF leaves THEN Hidden(p) ELSE {})
     /\ UNCHANGED <<clock, inbox, erp, checkpoint, pulls, exposed, late>>

-----------------------------------------------------------------------------
\* A run starts; an incremental pull begins at the checkpoint, a full one, one for a
\* vendor's own products and a reconciliation list everything.
StartPull == \E kind \in PullKinds, since \in {0, checkpoint} :
  /\ pull = NoPull /\ pulls < MaxPulls
  /\ kind # "all" => since = 0
  /\ pull' = [phase |-> "fetch", kind |-> kind, page |-> 1, start |-> clock, items |-> {},
              since |-> since, ids |-> {}, last |-> FALSE, hidden |-> {}]
  /\ pulls' = pulls + 1
  /\ UNCHANGED <<clock, store, hooks, inbox, erp, checkpoint, storeChanges, exposed, late>>

\* A page is downloaded; one that is not full is the last.
FetchPage ==
  /\ pull.phase = "fetch" /\ pull.kind # "reconcile"
  /\ LET page == PageOf(pull)
     IN pull' = [pull EXCEPT !.phase = "import", !.last = Cardinality(page) < PageSize,
                             !.items = {[product |-> p, text |-> store[p].text] : p \in page}]
  /\ UNCHANGED <<clock, store, hooks, inbox, erp, checkpoint, storeChanges, pulls, exposed, late>>

\* What a scoped run leaves out.
Imported(run, item) == run.kind = "vendor" => item.product \in OwnProducts

Turned(run) == [run EXCEPT !.phase = IF run.last THEN "end" ELSE "fetch", !.page = @ + 1,
                           !.items = {}]
Arrived(S) == {i.product : i \in {x \in S : store[x.product].text = x.text}}

\* A page is imported and committed.
ImportPage ==
  LET items == {i \in pull.items : Imported(pull, i)}
      ContentOf(p) == (CHOOSE i \in items : i.product = p).text
  IN /\ pull.phase = "import"
     /\ erp' = [p \in StoreProducts |-> IF \E i \in items : i.product = p
                                        THEN [text |-> ContentOf(p), status |-> "active"]
                                        ELSE erp[p]]
     /\ pull' = Turned(pull)
     /\ exposed' = exposed \ Arrived(items) /\ late' = late \ Arrived(items)
     /\ UNCHANGED <<clock, store, hooks, inbox, checkpoint, storeChanges, pulls>>

\* A reconciliation remembers the ids of a page.
NoteIds == /\ pull.phase = "fetch" /\ pull.kind = "reconcile"
           /\ LET page == PageOf(pull)
                  run == [pull EXCEPT !.last = Cardinality(page) < PageSize]
              IN pull' = [Turned(run) EXCEPT !.ids = @ \cup page]
           /\ UNCHANGED <<clock, store, hooks, inbox, erp, checkpoint, storeChanges, pulls, exposed, late>>

\* persist_checkpoint.
KeepsCheckpoint(run) == run.kind # "vendor"

\* store_woocommerce_last_sync: the second the pull started.
StampOf(run) == run.start

\* After the last page, the checkpoint is kept.
FinishPull == /\ pull.phase = "end" /\ pull.kind # "reconcile"
              /\ pull' = NoPull
              /\ checkpoint' = IF KeepsCheckpoint(pull) THEN StampOf(pull) ELSE checkpoint
              /\ exposed' = IF KeepsCheckpoint(pull) THEN exposed \cup pull.hidden ELSE exposed
              /\ UNCHANGED <<clock, store, hooks, inbox, erp, storeChanges, pulls, late>>

\* archive_missing_remote_product_ids: the mapped products no page has named.
Missing(run) == {p \in StoreProducts : erp[p].status = "active"} \ run.ids

\* After the last page of a reconciliation, what is missing is archived.
FinishReconcile == /\ pull.phase = "end" /\ pull.kind = "reconcile"
                   /\ pull' = NoPull
                   /\ erp' = [p \in StoreProducts |-> IF p \in Missing(pull)
                                                      THEN [erp[p] EXCEPT !.status = "archived"]
                                                      ELSE erp[p]]
                   /\ exposed' = exposed \cup pull.hidden
                   /\ UNCHANGED <<clock, store, hooks, inbox, checkpoint, storeChanges, pulls, late>>

\* A request fails, an item cannot be imported, or the worker dies: the page is rolled
\* back, the pages before it stay, and so does the checkpoint.
AbortPull == /\ pull.phase # "idle"
             /\ pull' = NoPull
             /\ UNCHANGED <<clock, store, hooks, inbox, erp, checkpoint, storeChanges, pulls, exposed, late>>

-----------------------------------------------------------------------------
\* process_webhook_event: the delivery id is known, however that delivery ended.
Seen(hook) == hook \in inbox

\* A webhook is delivered, and imported, or fails; delivered again, it is not looked at.
DeliverHook == \E hook \in hooks, done \in BOOLEAN :
  LET p == hook.product
      newest == hook.text = store[p].text
  IN /\ ~Seen(hook)
     /\ inbox' = inbox \cup {hook}
     /\ erp' = CASE ~done -> erp
                 [] done /\ hook.gone -> IF erp[p].status = "absent" THEN erp
                                         ELSE [erp EXCEPT ![p].status = "archived"]
                 [] OTHER -> [erp EXCEPT ![p] = [text |-> hook.text, status |-> "active"]]
     /\ late' = CASE ~done \/ hook.gone \/ hook \in inbox -> late
                  [] done /\ ~hook.gone /\ hook \notin inbox /\ newest -> late \ {p}
                  [] OTHER -> late \cup {p}
     /\ exposed' = IF done /\ newest THEN exposed \ {p} ELSE exposed
     /\ UNCHANGED <<clock, store, hooks, checkpoint, pull, storeChanges, pulls>>

PullNext == \/ TickClock \/ ChangeStore \/ StartPull \/ FetchPage \/ ImportPage \/ NoteIds
            \/ FinishPull \/ FinishReconcile \/ AbortPull \/ DeliverHook
PullSpec == PullInit /\ [][PullNext]_pullVars

-----------------------------------------------------------------------------
(* The state is what the store, the tables and the run can hold. *)
PullTypeOK ==
  /\ clock \in 1..MaxSeconds /\ checkpoint \in 0..MaxSeconds
  /\ store \in [StoreProducts -> [there: BOOLEAN, at: 1..MaxSeconds, text: Nat]]
  /\ erp \in [StoreProducts -> [text: Nat, status: {"absent", "active", "archived"}]]
  /\ \A p \in StoreProducts : /\ erp[p].text <= store[p].text
                              /\ erp[p].status = "absent" <=> erp[p].text = 0
  /\ inbox \subseteq hooks
  /\ pull.phase \in {"idle", "fetch", "import", "end"}
  /\ exposed \subseteq StoreProducts /\ late \subseteq StoreProducts

(* Everything that was modified before the second of the checkpoint has been imported as *)
(* it is, whichever second it was modified in and wherever runs were aborted, except for *)
(* what a page shift hid from a run and what a late webhook has overwritten. *)
PulledUpToCheckpoint == \A p \in StoreProducts :
  (store[p].there /\ store[p].at < checkpoint)
  => erp[p].text = store[p].text \/ p \in exposed \cup late

(* A product is archived because it is gone from the store, unless a page shift hid it. *)
ArchivedIfGoneOrHidden == \A p \in StoreProducts :
  erp[p].status = "archived" => ~store[p].there \/ p \in exposed

(* What the pulls, the webhooks and the reconciliations leave behind: nothing modified *)
(* before the checkpoint is missed, nothing that is there is archived, and a delivery that *)
(* comes again does not put back what was imported since, but for the named exceptions. *)
PullSound == PulledUpToCheckpoint /\ ArchivedIfGoneOrHidden
=============================================================================
