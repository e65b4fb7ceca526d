------------------------------ MODULE SyncOutbox ------------------------------
(***************************************************************************)
(* How a product of the ERP gets to the WooCommerce store: the outbox of   *)
(* product pushes (sync_outbox), the mapping to the store's own ids        *)
(* (external_resource_map) and the worker that drains the outbox while it  *)
(* executes a sync run.                                                    *)
(*                                                                         *)
(* A record is known by its idempotency key, the product and the hash of   *)
(* the payload, so there is one record for each content a product ever     *)
(* had.  What is sent is not the payload of the record but one built from  *)
(* the product when the record is processed.  The worker commits when it   *)
(* claims a record and when it is done with it; in between it talks to the *)
(* store, where everything may go wrong and edits of the product commit.   *)
(* It keeps the records it read in its session, so an attempt counter that *)
(* was reset meanwhile is written back from the cache (`queue').           *)
(*                                                                         *)
(* One worker at a time executes a run of the company (SyncRuns); media,   *)
(* videos, stock and order status have their own operations in the same    *)
(* outbox and are not modelled, nor is the import of products.             *)
(***************************************************************************)
EXTENDS Naturals, Sequences, FiniteSets

CONSTANTS Products,
          Contents,     \* what the payload of a product may be
          Nowhere,      \* no mapping
          MaxAttempts,  \* SYNC_OUTBOX_MAX_ATTEMPTS
          Tries,        \* how often one request is sent before it is given up
          MaxEdits,     \* bound: edits of each product
          MaxFaults,    \* bound: what goes wrong, of each kind
          MaxListings   \* bound: ids the store gives out

FaultKinds == {"crash", "error", "lost", "rate_limit", "removed"}
Ids == 1..MaxListings

ASSUME OutboxAssumption ==
  /\ MaxAttempts \in Nat \ {0} /\ Tries \in Nat \ {0}
  /\ MaxEdits \in Nat /\ MaxListings \in Nat /\ Nowhere \notin Ids
  /\ MaxFaults \in [FaultKinds -> Nat]

VARIABLES product,   \* the products: content, and the number of the edit it comes from
          records,   \* the table sync_outbox, by idempotency key
          mapping,   \* the table external_resource_map
          listings,  \* the products in the store, in the order of their ids
          pc,        \* what the worker is doing
          queue,     \* records it read and has not processed, with the cached attempts
          done,      \* processed_ids of its run
          job,       \* the record it is processing
          faults     \* how often each kind of fault happened

outbox == <<records, mapping>>
worker == <<pc, queue, done, job>>
vars == <<product, outbox, listings, worker, faults>>

-----------------------------------------------------------------------------
OpenStatuses == {"pending", "failed"}
Keys == Products \X Contents
ProductOf(k) == k[1]

\* later says that next_attempt_at, or the time after which a record that is
\* processing counts as stale, lies in the future.
SyncOutboxRow == [status: OpenStatuses \cup {"none", "processing", "synced"},
                  attempts: 0..MaxAttempts, later: BOOLEAN]
Version == [content: Contents, edit: 0..MaxEdits]
Listing == [product: Products, version: Version, there: BOOLEAN]

NoJob == [key |-> Nowhere]
Job(k, attempts) == [key |-> k, attempts |-> attempts, target |-> Nowhere, tries |-> 0,
                     payload |-> product[ProductOf(k)]]

NewRecord == [status |-> "pending", attempts |-> 0, later |-> FALSE]

\* enqueue_sync_outbox: a record that failed is revived, any other is left alone.
Enqueued(row) == IF row.status \in {"none", "failed"} THEN NewRecord ELSE row

\* The outbox once the products of E are enqueued with their contents in P.
EnqueuedProducts(P, E) ==
  [k \in Keys |-> IF ProductOf(k) \in E /\ P[ProductOf(k)].content = k[2]
                  THEN Enqueued(records[k]) ELSE records[k]]

\* recover_stale_woocommerce_sync_records.
Recovered(row) ==
  IF row.status = "processing" /\ ~row.later THEN [row EXCEPT !.status = "pending"] ELSE row

\* Faulty: the attempts are never exhausted.
PendingForever(rows) == {k \in Keys : rows[k].status \in OpenStatuses /\ ~rows[k].later}

\* Faulty: a record that failed is not tried again.
PendingOnce(rows) == {k \in Keys : rows[k].status = "pending" /\ ~rows[k].later
                                   /\ rows[k].attempts < MaxAttempts}

\* _pending_sync_outbox_records.
Pending(rows) == {k \in Keys : /\ rows[k].status \in OpenStatuses /\ ~rows[k].later
                               /\ rows[k].attempts < MaxAttempts}

\* What the store has of a product.
ListingsOf(p) == {l \in DOMAIN listings : listings[l].product = p /\ listings[l].there}
Listed(p, version) == [product |-> p, version |-> version, there |-> TRUE]

Happens(kind) == /\ faults[kind] < MaxFaults[kind]
                 /\ faults' = [faults EXCEPT ![kind] = @ + 1]

-----------------------------------------------------------------------------
Init == /\ product \in [Products -> {v \in Version : v.edit = 0}]
        /\ records = [k \in Keys |-> [NewRecord EXCEPT !.status = "none"]]
        /\ mapping = [p \in Products |-> Nowhere]
        /\ listings = <<>>
        /\ pc = "idle" /\ queue = <<>> /\ done = {} /\ job = NoJob
        /\ faults = [kind \in FaultKinds |-> 0]

\* A product is edited; most callers enqueue it, a change of its stock or of its
\* taxonomy does not.
EditProduct(p, content, enqueue) ==
  /\ product[p].edit < MaxEdits /\ content # product[p].content
  /\ product' = [product EXCEPT ![p] = [content |-> content, edit |-> @.edit + 1]]
  /\ records' = EnqueuedProducts(product', IF enqueue THEN {p} ELSE {})
  /\ UNCHANGED <<mapping, listings, worker, faults>>

\* The worker's cycle recovers stale records and begins a run; one in a
\* publishing mode enqueues every product first.
BeginRun(publishing) ==
  /\ pc = "idle"
  /\ LET rows == EnqueuedProducts(product, IF publishing THEN Products ELSE {})
     IN records' = [k \in Keys |-> Recovered(rows[k])]
  /\ pc' = "draining" /\ queue' = <<>> /\ done' = {} /\ job' = NoJob
  /\ UNCHANGED <<product, mapping, listings, faults>>

\* It reads what is due and was not processed in this run, until nothing is.
ReadOutbox ==
  /\ pc = "draining" /\ DOMAIN queue = {}
  /\ LET due == Pending(records) \ done
     IN /\ queue' = [k \in due |-> records[k].attempts]
        /\ pc' = IF due = {} THEN "idle" ELSE pc
  /\ UNCHANGED <<product, outbox, listings, done, job, faults>>

Without(Q, K) == [k \in DOMAIN Q \ K |-> Q[k]]

\* claim_record_for_remote_work.
ClaimRecord(k) ==
  /\ pc = "draining" /\ k \in DOMAIN queue
  /\ records' = [records EXCEPT ![k] = [status |-> "processing", attempts |-> queue[k] + 1,
                                        later |-> TRUE]]
  /\ pc' = "claimed" /\ queue' = Without(queue, {k}) /\ done' = done \cup {k}
  /\ job' = Job(k, queue[k] + 1)
  /\ UNCHANGED <<product, mapping, listings, faults>>

\* find_existing_woocommerce_product: the store answers with any listing that fits.
Found(p) == IF ListingsOf(p) = {} THEN {Nowhere} ELSE ListingsOf(p)

\* Faulty: a retry does not look for what the first attempt left behind.
TargetsBlind(p, attempts) == {mapping[p]}

\* The mapping, or on a retry without one what the store has.
Targets(p, attempts) ==
  IF mapping[p] = Nowhere /\ attempts > 1 THEN Found(p) ELSE {mapping[p]}

\* Faulty: the payload stored in the record is sent.
PayloadOfRecord(k) ==
  LET now == product[ProductOf(k)]
  IN [content |-> k[2], edit |-> IF k[2] = now.content \/ now.edit = 0 THEN now.edit
                                 ELSE now.edit - 1]

\* build_woocommerce_product_payload, from the product as it is now.
Payload(k) == product[ProductOf(k)]

PreparePush ==
  /\ pc = "claimed"
  /\ \E target \in Targets(ProductOf(job.key), job.attempts) :
       job' = [job EXCEPT !.target = target, !.payload = Payload(job.key)]
  /\ pc' = "sending"
  /\ UNCHANGED <<product, outbox, listings, queue, done, faults>>

\* The listing the request goes to is not in the store any more.
TargetGone == job.target # Nowhere /\ ~listings[job.target].there

\* The store creates a listing, or updates the target.
Accepted ==
  LET p == ProductOf(job.key)
  IN IF job.target = Nowhere THEN Append(listings, Listed(p, job.payload))
     ELSE [listings EXCEPT ![job.target].version = job.payload]
CanAccept == ~TargetGone /\ (job.target = Nowhere => Len(listings) < MaxListings)

Sending == pc \in {"sending", "resending"}

\* The store answers that all went well.
SendPush ==
  /\ Sending /\ CanAccept
  /\ listings' = Accepted
  /\ job' = IF job.target = Nowhere THEN [job EXCEPT !.target = Len(listings) + 1] ELSE job
  /\ pc' = "answered"
  /\ UNCHANGED <<product, outbox, queue, done, faults>>

\* The store does not know the id: look for the product and send once more.
ReplaceListing ==
  /\ pc = "sending" /\ TargetGone
  /\ \E target \in Found(ProductOf(job.key)) :
       job' = [job EXCEPT !.target = target, !.tries = 0]
  /\ pc' = "resending"
  /\ UNCHANGED <<product, outbox, listings, queue, done, faults>>

\* Faulty: the mapping is not stored.
MappedLater(p, target) == mapping

\* The mapping as it is committed with the outcome of a record.
Mapped(p, target) == [mapping EXCEPT ![p] = target]

\* The record is synced, and so is every other open record of the product.
Superseded(rows, k) ==
  [r \in Keys |->
     IF \/ r = k
        \/ ProductOf(r) = ProductOf(k) /\ rows[r].status \in OpenStatuses \cup {"processing"}
     THEN [rows[r] EXCEPT !.status = "synced", !.later = FALSE] ELSE rows[r]]

SettlePush ==
  /\ pc = "answered"
  /\ records' = Superseded(records, job.key)
  /\ mapping' = Mapped(ProductOf(job.key), job.target)
  /\ queue' = Without(queue, {k \in Keys : ProductOf(k) = ProductOf(job.key)})
  /\ pc' = "draining" /\ job' = NoJob
  /\ UNCHANGED <<product, listings, done, faults>>

\* What the session knows of the mapping is committed with a failure too.
KeepTarget == mapping' = IF Sending THEN Mapped(ProductOf(job.key), job.target) ELSE mapping

\* The record is retried later.
FailRecord ==
  /\ records' = [records EXCEPT ![job.key] = [@ EXCEPT !.status = "failed", !.later = TRUE]]
  /\ KeepTarget
  /\ pc' = "draining" /\ job' = NoJob
  /\ UNCHANGED <<product, queue, done>>

\* The listing is gone once more: that id is not replaced again.
AbandonPush ==
  /\ pc = "resending" /\ TargetGone
  /\ FailRecord
  /\ UNCHANGED <<listings, faults>>

-----------------------------------------------------------------------------
\* Faults.

\* The store refuses the request, or the payload cannot be built.
RefusePush ==
  /\ pc = "claimed" \/ Sending
  /\ Happens("error")
  /\ FailRecord
  /\ UNCHANGED listings

\* The answer is lost, whether the store took the request or not; the same
\* request is sent again until it was sent often enough.
LoseAnswer ==
  /\ Sending
  /\ Happens("lost")
  /\ \/ UNCHANGED listings
     \/ CanAccept /\ listings' = Accepted
  /\ \/ /\ job.tries + 1 < Tries
        /\ job' = [job EXCEPT !.tries = @ + 1]
        /\ UNCHANGED <<product, outbox, pc, queue, done>>
     \/ /\ job.tries + 1 >= Tries
        /\ FailRecord

\* The store answers 429: the record is given back, its attempt too, and the
\* run ends (SyncRuns queues it again).
LimitRate ==
  /\ \/ Sending
     \/ pc = "claimed" /\ mapping[ProductOf(job.key)] = Nowhere /\ job.attempts > 1
  /\ Happens("rate_limit")
  /\ records' = [records EXCEPT ![job.key] =
       [status |-> "pending", attempts |-> job.attempts - 1, later |-> FALSE]]
  /\ KeepTarget
  /\ pc' = "idle" /\ queue' = <<>> /\ done' = {} /\ job' = NoJob
  /\ UNCHANGED <<product, listings>>

\* The worker dies: what it did not commit is lost, what it sent is not.
CrashWorker ==
  /\ pc # "idle"
  /\ Happens("crash")
  /\ pc' = "idle" /\ queue' = <<>> /\ done' = {} /\ job' = NoJob
  /\ UNCHANGED <<product, outbox, listings>>

\* Somebody deletes a listing in the store.
RemoveListing(l) ==
  /\ listings[l].there
  /\ Happens("removed")
  /\ listings' = [listings EXCEPT ![l].there = FALSE]
  /\ UNCHANGED <<product, outbox, worker>>

\* Time passes.
RetryDue(k) ==
  /\ records[k].later
  /\ records' = [records EXCEPT ![k].later = FALSE]
  /\ UNCHANGED <<product, mapping, listings, worker, faults>>

-----------------------------------------------------------------------------
Work == \/ \E publishing \in BOOLEAN : BeginRun(publishing)
        \/ ReadOutbox
        \/ \E k \in Keys : ClaimRecord(k)
        \/ PreparePush \/ SendPush \/ ReplaceListing \/ SettlePush \/ AbandonPush

Fault == \/ RefusePush \/ LoseAnswer \/ LimitRate \/ CrashWorker
         \/ \E l \in DOMAIN listings : RemoveListing(l)

Next == \/ \E p \in Products, content \in Contents, enqueue \in BOOLEAN :
             EditProduct(p, content, enqueue)
        \/ Work \/ Fault
        \/ \E k \in Keys : RetryDue(k)

Spec == Init /\ [][Next]_vars

\* The worker goes on for ever and time passes.
FairSpec == Spec /\ WF_vars(Work) /\ \A k \in Keys : WF_vars(RetryDue(k))

\* Runs in a publishing mode are requested again and again.
PublishingSpec == FairSpec /\ SF_vars(BeginRun(TRUE))

-----------------------------------------------------------------------------
\* Types; the worker's queue and job are of records it may process.
TypeOK ==
  /\ product \in [Products -> Version]
  /\ records \in [Keys -> SyncOutboxRow]
  /\ mapping \in [Products -> Ids \cup {Nowhere}]
  /\ listings \in Seq(Listing) /\ Len(listings) <= MaxListings
  /\ pc \in {"idle", "draining", "claimed", "sending", "resending", "answered"}
  /\ DOMAIN queue \subseteq Keys /\ done \subseteq Keys
  /\ \A k \in DOMAIN queue : queue[k] < MaxAttempts
  /\ job = NoJob <=> pc \in {"idle", "draining"}
  /\ faults \in [FaultKinds -> Nat]

\* A crash between the creation of a listing and the storing of its id does not
\* make a second one: the retry finds the first (woocommerce_services.py:4790),
\* as long as the product is not edited and nothing else goes wrong.
InterruptedCreateRecovered ==
  \A p \in Products :
    product[p].edit = 0 /\ (\A kind \in {"error", "lost", "removed"} : faults[kind] = 0)
      => Cardinality(ListingsOf(p)) <= 1

\* Every listing the ERP does not know of comes from a crash or a lost answer.
Unknown(p) == ListingsOf(p) \ {mapping[p], IF pc = "answered" THEN job.target ELSE Nowhere}
OrphansAccounted ==
  Cardinality(UNION {Unknown(p) : p \in Products}) <= faults["crash"] + faults["lost"]

\* What the store holds besides the listings the ERP knows comes of what broke off.
ListingsAccounted == InterruptedCreateRecovered /\ OrphansAccounted

\* The store never goes back to an older edit of a product.
MonotonePublishing ==
  [][\A l \in DOMAIN listings : listings'[l].version.edit >= listings[l].version.edit]_vars

\* Every open record is pushed, superseded or tried until its attempts are used
\* up, whatever happens to the worker.
OutboxDrains ==
  \A k \in Keys :
    records[k].status \in OpenStatuses \cup {"processing"}
      ~> records[k].status = "synced" \/ records[k].attempts = MaxAttempts

\* A product mode run "publishes the scoped ERP product catalog"
\* (docs/woocommerce_sync_setup.md:78): what a product was edited to reaches
\* its listing, unless it is edited again or its attempts are used up.  An edit
\* that commits between PreparePush and SettlePush does not, nor does one back
\* to a content that was pushed before: its record is "synced" already.
EditsReachStore ==
  \A p \in Products : \A version \in Version :
    product[p] = version
      ~> \/ product[p] # version
         \/ mapping[p] # Nowhere /\ listings[mapping[p]].version.content = version.content
         \/ \E content \in Contents : records[<<p, content>>].attempts = MaxAttempts

=============================================================================
