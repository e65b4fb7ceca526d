------------------------------- MODULE MediaQueue -------------------------------
(***************************************************************************)
(* The records by which the images of a product wait to be sent to the     *)
(* store, and the retry of those that failed.  A record is found by the    *)
(* hash of the images it was made for, and whichever is processed sends    *)
(* the images as they are then and closes all the others.  What the images *)
(* themselves become is ProductImages; here they are a version, one more   *)
(* with every edit and with every answer of the store, which touches the   *)
(* rows as well.                                                           *)
(***************************************************************************)
EXTENDS Integers

CONSTANTS MediaAttempts,   \* SYNC_OUTBOX_MAX_ATTEMPTS
          MaxImageEdits,   \* bound: edits of the images
          MaxMediaRetries, \* bound: retries by hand
          MaxRefusals      \* bound: pushes the store refuses

ASSUME MediaQueueAssumption ==
  /\ MediaAttempts \in Nat \ {0} /\ {MaxImageEdits, MaxMediaRetries, MaxRefusals} \subseteq Nat

VARIABLES shots,   \* product_images: version, and what of them the store does not have
          mappedYet,  \* the product has a listing
          mediaRecords, \* sync_outbox, operation push_media, by version
          mediaWork,  \* what the worker does
          retrying,   \* the request for a retry
          silent,     \* history: an edit was not queued
          swallowed,  \* history: an edit was closed with a push that did not send it
          imageEdits, mediaRetries, refusals

mediaQueueVars == <<shots, mappedYet, mediaRecords, mediaWork, retrying, silent, swallowed,
                    imageEdits, mediaRetries, refusals>>
budgets == <<imageEdits, mediaRetries, refusals>>

-----------------------------------------------------------------------------
OpenMedia == {"pending", "failed"}
Pending == [status |-> "pending", attempts |-> 0, due |-> TRUE]
MediaIdle == [step |-> "idle"]

MediaQueueInit ==
  /\ shots = [version |-> 0, needs |-> "clean"] /\ mappedYet \in BOOLEAN
  /\ mediaRecords = << >> /\ mediaWork = MediaIdle /\ retrying = MediaIdle
  /\ silent = FALSE /\ swallowed = FALSE
  /\ imageEdits = 0 /\ mediaRetries = 0 /\ refusals = 0

\* product_requires_media_sync: of a product with a listing, removals alone require nothing;
\* of one without, any image that is shown does.
Required(needs, visible) == needs = "changed" \/ (~mappedYet /\ visible)

\* enqueue_product_media_sync: a failed record of the same images starts anew, one that waits
\* for the listing need not wait longer, any other is left as it is.
WithRecord(recs, v) == [u \in DOMAIN recs \cup {v} |->
  IF u # v THEN recs[u]
  ELSE IF v \notin DOMAIN recs THEN Pending
  ELSE IF recs[v].status = "failed" \/ (recs[v].status = "pending" /\ ~recs[v].due) THEN Pending
  ELSE recs[v]]

ClosedMedia(recs, vs) == [u \in DOMAIN recs |->
  IF u \in vs THEN [recs[u] EXCEPT !.status = "synced"] ELSE recs[u]]

-----------------------------------------------------------------------------
\* The images are changed with their product, which queues them if they require it.
EditImages == \E needs \in {"clean", "removals", "changed"}, visible \in BOOLEAN :
  /\ imageEdits < MaxImageEdits /\ imageEdits' = imageEdits + 1
  /\ needs = "clean" => shots.needs # "clean"
  /\ shots' = [version |-> shots.version + 1, needs |-> needs]
  /\ IF Required(needs, visible)
     THEN /\ mediaRecords' = WithRecord(mediaRecords, shots'.version)
          /\ silent' = FALSE /\ swallowed' = FALSE
     ELSE silent' = TRUE /\ UNCHANGED <<mediaRecords, swallowed>>
  /\ UNCHANGED <<mappedYet, mediaWork, retrying, mediaRetries, refusals>>

\* An image is uploaded: its row is not flushed when what the others require is looked for.
UploadUnqueued == \E visible \in BOOLEAN :
  /\ imageEdits < MaxImageEdits /\ imageEdits' = imageEdits + 1
  /\ shots' = [version |-> shots.version + 1, needs |-> "changed"]
  /\ mediaRecords' = IF Required(shots.needs, visible) THEN WithRecord(mediaRecords, shots.version)
                     ELSE mediaRecords
  /\ silent' = TRUE
  /\ UNCHANGED <<mappedYet, mediaWork, retrying, swallowed, mediaRetries, refusals>>

\* enqueue_pending_product_media_for_sync, when a publishing run begins.
PublishMedia ==
  /\ mediaWork = MediaIdle
  /\ IF shots.needs # "clean"
     THEN /\ mediaRecords' = WithRecord(mediaRecords, shots.version)
          /\ silent' = FALSE /\ swallowed' = FALSE
     ELSE /\ mediaRecords' = ClosedMedia(mediaRecords,
                               {u \in DOMAIN mediaRecords : mediaRecords[u].status \in OpenMedia})
          /\ UNCHANGED <<silent, swallowed>>
  /\ UNCHANGED <<shots, mappedYet, mediaWork, retrying, budgets>>

\* The product itself is pushed, which lists it, and its images are queued if they require it.
ListProduct ==
  /\ mediaWork = MediaIdle /\ mappedYet' = TRUE
  /\ IF shots.needs = "changed"
     THEN /\ mediaRecords' = WithRecord(mediaRecords, shots.version)
          /\ silent' = FALSE /\ swallowed' = FALSE
     ELSE UNCHANGED <<mediaRecords, silent, swallowed>>
  /\ UNCHANGED <<shots, mediaWork, retrying, budgets>>

-----------------------------------------------------------------------------
Due(v) == /\ mediaRecords[v].status \in OpenMedia /\ mediaRecords[v].due
          /\ mediaRecords[v].attempts < MediaAttempts

TimeGoesOn == /\ \E v \in DOMAIN mediaRecords : ~mediaRecords[v].due
              /\ mediaRecords' = [v \in DOMAIN mediaRecords |->
                                    [mediaRecords[v] EXCEPT !.due = TRUE]]
              /\ UNCHANGED <<shots, mappedYet, mediaWork, retrying, silent, swallowed, budgets>>

ClaimMedia(v) ==
  /\ mediaWork = MediaIdle /\ Due(v)
  /\ mediaRecords' = [mediaRecords EXCEPT ![v].status = "processing", ![v].attempts = @ + 1]
  /\ mediaWork' = [step |-> "claimed", record |-> v, attempts |-> mediaRecords[v].attempts + 1]
  /\ UNCHANGED <<shots, mappedYet, retrying, silent, swallowed, budgets>>

EndedMedia(status, giveBack) == [mediaRecords EXCEPT ![mediaWork.record] =
  [status |-> status, due |-> FALSE,
   attempts |-> IF giveBack THEN mediaWork.attempts - 1 ELSE @.attempts]]

\* Without a listing the record waits for it, and the attempt is given back.  Attempts are
\* written only where the worker changes them.
DeferMedia ==
  /\ mediaWork.step = "claimed" /\ ~mappedYet
  /\ mediaRecords' = EndedMedia("pending", TRUE)
  /\ mediaWork' = MediaIdle
  /\ UNCHANGED <<shots, mappedYet, retrying, silent, swallowed, budgets>>

ReadMedia ==
  /\ mediaWork.step = "claimed" /\ mappedYet
  /\ mediaWork' = [step |-> "reading", record |-> mediaWork.record, sends |-> shots.version]
  /\ UNCHANGED <<shots, mappedYet, mediaRecords, retrying, silent, swallowed, budgets>>

RefuseMedia ==
  /\ mediaWork.step = "reading" /\ refusals < MaxRefusals /\ refusals' = refusals + 1
  /\ mediaRecords' = EndedMedia("failed", FALSE)
  /\ mediaWork' = MediaIdle
  /\ UNCHANGED <<shots, mappedYet, retrying, silent, swallowed, imageEdits, mediaRetries>>

\* mark_superseded_outbox_records_synced
OpenNow == {u \in DOMAIN mediaRecords : mediaRecords[u].status \in OpenMedia \cup {"processing"}}

\* The store has the images that were read.
PutMedia == LET left == IF shots.version = mediaWork.sends THEN "clean" ELSE shots.needs IN
  /\ mediaWork.step = "reading"
  /\ shots' = [version |-> shots.version + 1, needs |-> left]
  /\ mediaRecords' = ClosedMedia(mediaRecords, OpenNow \cup {mediaWork.record})
  /\ swallowed' = (left # "clean")
  /\ mediaWork' = MediaIdle
  /\ UNCHANGED <<mappedYet, retrying, silent, budgets>>

-----------------------------------------------------------------------------
\* retry_failed_product_media_sync: the records that failed, but for that of the images as
\* they are, are listed ...
StaleFailures(v) == {u \in DOMAIN mediaRecords \ {v} : mediaRecords[u].status = "failed"}

BeginRetry ==
  /\ retrying = MediaIdle /\ mediaRetries < MaxMediaRetries /\ mediaRetries' = mediaRetries + 1
  /\ LET v == shots.version IN
     retrying' = [step |-> "listed", current |-> v, stale |-> StaleFailures(v),
                  seen |-> IF v \in DOMAIN mediaRecords THEN mediaRecords[v].status ELSE "none"]
  /\ UNCHANGED <<shots, mappedYet, mediaRecords, mediaWork, silent, swallowed, imageEdits,
                 refusals>>

\* ... and closed, and that one queued as it was seen.  Another request may have queued it
\* first, and the key refuses a second one.
RetryQueued == CASE retrying.seen = "none" -> [v \in DOMAIN mediaRecords \cup {retrying.current} |->
                  IF v = retrying.current THEN Pending ELSE mediaRecords[v]]
             [] retrying.seen = "failed" -> [mediaRecords EXCEPT ![retrying.current] = Pending]
             [] OTHER -> mediaRecords

EndRetry ==
  /\ retrying.step = "listed" /\ retrying' = MediaIdle
  /\ IF retrying.seen = "none" /\ retrying.current \in DOMAIN mediaRecords
     THEN UNCHANGED <<mediaRecords, silent, swallowed>>
     ELSE /\ mediaRecords' = ClosedMedia(RetryQueued, retrying.stale)
          /\ IF retrying.current = shots.version /\ retrying.seen \in {"none", "failed"}
             THEN silent' = FALSE /\ swallowed' = FALSE
             ELSE UNCHANGED <<silent, swallowed>>
  /\ UNCHANGED <<shots, mappedYet, mediaWork, budgets>>

MediaQueueNext ==
  \/ EditImages \/ UploadUnqueued \/ PublishMedia \/ ListProduct \/ TimeGoesOn
  \/ (\E v \in DOMAIN mediaRecords : ClaimMedia(v))
  \/ DeferMedia \/ ReadMedia \/ RefuseMedia \/ PutMedia \/ BeginRetry \/ EndRetry
MediaQueueSpec == MediaQueueInit /\ [][MediaQueueNext]_mediaQueueVars

-----------------------------------------------------------------------------
(* A record is made for images there were, and never tried more often than it may be. *)
MediaQueueTypeOK ==
  /\ DOMAIN mediaRecords \subseteq 0..shots.version
  /\ \A v \in DOMAIN mediaRecords :
       /\ mediaRecords[v].status \in {"pending", "processing", "failed", "synced"}
       /\ mediaRecords[v].attempts \in 0..MediaAttempts

(* Images that the store does not have are waiting, being sent, or on the list of failures: *)
(* a retry that closes the failures leaves one record to send them.  Not so an upload, and *)
(* an edit that only removes images of a listed product, until the next publishing run, and *)
(* what was edited while a push of the images was under way. *)
UnsentIsTold == shots.needs # "clean" /\ ~silent /\ ~swallowed => OpenNow # {}

MediaQueueSound == UnsentIsTold
=============================================================================
