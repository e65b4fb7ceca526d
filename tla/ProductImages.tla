----------------------------- MODULE ProductImages -----------------------------
(***************************************************************************)
(* The images of one product that is in the WooCommerce store: the rows    *)
(* operators edit, the gallery the store shows, and the worker that        *)
(* uploads files to WordPress and merges the two.                          *)
(*                                                                         *)
(* A form replaces the whole list by what its operator saw when it was     *)
(* opened.  A push reads the store's gallery and the rows, uploads what is *)
(* new, replaces the gallery and takes over the store's answer: the rows   *)
(* it read stay cached in its session, and only what differs from the      *)
(* cache is written.  Operators, the store's staff and webhooks go on.     *)
(***************************************************************************)
EXTENDS Integers, FiniteSets, FiniteSetsExt, Functions

CONSTANTS ImageRows,      \* ids of rows
          MediaIds,       \* ids of attachments in the store
          MaxForms,       \* bound: forms that are opened
          MaxStaffEdits,  \* bound: changes of the gallery by the store's staff
          MaxMediaFaults  \* bound: lost answers, refusals, crashes and webhooks

ASSUME ImagesAssumption == /\ ImageRows \subseteq Nat /\ MediaIds \subseteq Nat \ {0}
                           /\ IsFiniteSet(ImageRows) /\ IsFiniteSet(MediaIds)
                           /\ 1 \in ImageRows /\ 1 \in MediaIds
                           /\ {MaxForms, MaxStaffEdits, MaxMediaFaults} \subseteq Nat

VARIABLES images,     \* product_images
          gallery,    \* the images of the product in the store
          madeFrom,   \* attachments of the store: made of which row, or by the store's staff
          sameUrl,    \* attachments that kept the URL they were made from
          form,       \* what an open form showed; its rows only
          imagePush,  \* the worker's push
          hook,       \* a webhook under way: the gallery it carries
          imageBudget,
          doubled,    \* history: uploads of a row the ERP does not know of any more
          takenOff,      \* history: attachments an operator took off a form
          unshown,    \* history: attachments taken off by a form that never showed them
          pushedOut     \* history: staff's attachments a push took away, and whether it knew them

imageVars == <<images, gallery, madeFrom, sameUrl, form, imagePush, hook, imageBudget,
               doubled, takenOff, unshown, pushedOut>>

-----------------------------------------------------------------------------
NoImage == [status |-> "none", media |-> 0, url |-> "none"]
Urls == {"file", "web", "store"}
ImageStatuses == {"synced", "pending_add", "pending_update", "pending_remove"}
Image == [status: ImageStatuses, media: MediaIds \cup {0}, url: Urls]
NotMade == -2
Staff == -1
NoPush == [phase |-> "idle"]
NoForm == [r \in {} |-> NoImage]

Exists(rows, r) == rows[r] # NoImage
Shown(rows) == {r \in ImageRows : Exists(rows, r) /\ rows[r].status # "pending_remove"}
Distinct(rows) == \A r, s \in ImageRows :
  rows[r].media = rows[s].media /\ rows[r].media # 0 => r = s
NewMedia == {m \in MediaIds : madeFrom[m] = NotMade}
\* Ids that no row, form, push or attachment has ever had.
FreshRows == {r \in ImageRows : /\ ~Exists(images, r) /\ r \notin DOMAIN form
                                /\ imagePush # NoPush => ~Exists(imagePush.cached, r)
                                /\ \A m \in MediaIds : madeFrom[m] # r}
\* Ids of a set, given to the members of another set.
Number(S, ids) == CHOOSE f \in Injection(S, ids) : TRUE

\* pending_product_media_ids_query: what a publishing run queues the product for.
HasWork(rows) == \E r \in ImageRows : Exists(rows, r) /\ rows[r].status # "synced"

-----------------------------------------------------------------------------
\* What a form makes of a row its operator kept; `was' is the row as it is now.
Saved(shown, was, edited) ==
  IF shown.media = 0 THEN [shown EXCEPT !.status = "pending_add"]
  ELSE [shown EXCEPT !.status =
          CASE edited \/ was.media = 0 \/ was.url # shown.url -> "pending_update"
            [] was.status = "pending_remove" -> "pending_update"
            [] OTHER -> was.status]

\* ... and of a row it does not list.
Unlisted(was) == IF was.media # 0 THEN [was EXCEPT !.status = "pending_remove"] ELSE NoImage

\* A row that the store's answer holds as attachment `m': only attributes that differ from
\* the cached row are written.
TakenOver(cached, was, m) ==
  LET kept == cached.status \in {"pending_update", "pending_remove"}
  IN [status |-> IF kept \/ cached.status = "synced" THEN was.status ELSE "synced",
      media  |-> IF cached.media = m THEN was.media ELSE m,
      url    |-> IF kept \/ cached.url = "store" THEN was.url ELSE "store"]

\* The row of attachment `m': by its id, or a row without one by the URL.
RowsOf(rows, m) ==
  LET byId == {r \in ImageRows : Exists(rows, r) /\ rows[r].media = m}
      byUrl == {r \in Shown(rows) : rows[r].media = 0 /\ madeFrom[m] = r /\ m \in sameUrl}
  IN IF byId # {} THEN byId ELSE byUrl

\* reconcile_product_images_from_remote: `answer' is taken over into `rows', of which the
\* session has `cached'.
Reconciled(cached, rows, answer) ==
  LET held == [r \in ImageRows |-> IF Exists(rows, r) THEN cached[r] ELSE NoImage]
      known == {m \in answer : RowsOf(held, m) # {}}
      newRow == Number(answer \ known, FreshRows)
      MediaOf(r) == {m \in known : r \in RowsOf(held, m)}
  IN [r \in ImageRows |->
       IF \E m \in answer \ known : newRow[m] = r
       THEN [status |-> "synced", media |-> CHOOSE m \in answer \ known : newRow[m] = r,
             url |-> "store"]
       ELSE IF MediaOf(r) # {} THEN TakenOver(held[r], rows[r], CHOOSE m \in MediaOf(r) : TRUE)
       ELSE IF held[r].media # 0 /\ held[r].status \in {"synced", "pending_remove"} THEN NoImage
       ELSE rows[r]]
CanReconcile(cached, rows, answer) ==
  Cardinality({m \in answer : RowsOf([r \in ImageRows |-> IF Exists(rows, r) THEN cached[r]
                                                          ELSE NoImage], m) = {}})
    <= Cardinality(FreshRows)

-----------------------------------------------------------------------------
ImagesInit ==
  /\ images = [r \in ImageRows |-> IF r = 1 THEN [status |-> "synced", media |-> 1, url |-> "store"]
                                   ELSE NoImage]
  /\ gallery = {1} /\ madeFrom = [m \in MediaIds |-> IF m = 1 THEN Staff ELSE NotMade]
  /\ sameUrl = {} /\ form = NoForm /\ imagePush = NoPush /\ hook = {}
  /\ imageBudget = [forms |-> MaxForms, staff |-> MaxStaffEdits, faults |-> MaxMediaFaults]
  /\ doubled = [r \in ImageRows |-> 0] /\ takenOff = {} /\ unshown = {}
  /\ pushedOut = [known |-> {}, raced |-> {}]

SpendOn(what) == /\ imageBudget[what] > 0
               /\ imageBudget' = [imageBudget EXCEPT ![what] = @ - 1]

\* The upload route: the row is not flushed when the record is considered.
UploadImageFile == \E r \in FreshRows :
  /\ \A s \in FreshRows : r <= s
  /\ images' = [images EXCEPT ![r] = [status |-> "pending_add", media |-> 0, url |-> "file"]]
  /\ UNCHANGED <<gallery, madeFrom, sameUrl, form, imagePush, hook, imageBudget, doubled, takenOff,
                 unshown, pushedOut>>

OpenForm ==
  /\ form = NoForm /\ SpendOn("forms")
  /\ form' = Restrict(images, Shown(images))
  /\ UNCHANGED <<images, gallery, madeFrom, sameUrl, imagePush, hook, doubled, takenOff,
                 unshown, pushedOut>>

\* replace_product_images; the unique constraint of the attachment refuses a row that claims
\* one another row has.
SaveForm == \E kept \in SUBSET DOMAIN form, edited \in SUBSET DOMAIN form, web \in {{}, {0}} :
  LET gone == {r \in kept : ~Exists(images, r)}
      added == gone \cup web
      row == Number(added, FreshRows)
      AddedAs(r) == {x \in added : row[x] = r}
      New(x) == IF x \in web THEN [status |-> "pending_add", media |-> 0, url |-> "web"]
                ELSE Saved(form[x], NoImage, FALSE)
      saved == [r \in ImageRows |->
                  IF AddedAs(r) # {} THEN New(CHOOSE x \in AddedAs(r) : TRUE)
                  ELSE IF r \in kept \ gone THEN Saved(form[r], images[r], r \in edited)
                  ELSE Unlisted(images[r])]
      removed == {r \in ImageRows \ kept : images[r].media # 0}
  IN /\ form # NoForm /\ edited \subseteq kept /\ Cardinality(edited) <= 1
     /\ Cardinality(added) <= Cardinality(FreshRows)
     /\ form' = NoForm
     /\ IF Distinct(saved)
        THEN /\ images' = saved
             /\ doubled' = [r \in ImageRows |->
                  doubled[r] + IF r \in kept \ gone /\ form[r].media = 0 /\ images[r].media # 0
                               THEN 1 ELSE 0]
             /\ takenOff' = takenOff \cup {images[r].media : r \in removed \cap DOMAIN form}
             /\ unshown' = unshown \cup {images[r].media : r \in
                                     {s \in removed \ DOMAIN form : images[s].status # "pending_remove"}}
        ELSE UNCHANGED <<images, doubled, takenOff, unshown>>
     /\ UNCHANGED <<gallery, madeFrom, sameUrl, imagePush, hook, imageBudget, pushedOut>>

-----------------------------------------------------------------------------
\* build_woocommerce_product_media_payload reads the gallery and the rows.
FetchGallery ==
  /\ imagePush = NoPush /\ HasWork(images)
  /\ imagePush' = [phase |-> "building", cached |-> images, fetched |-> gallery]
  /\ UNCHANGED <<images, gallery, madeFrom, sameUrl, form, hook, imageBudget, doubled,
                 takenOff, unshown, pushedOut>>

InGallery(r) == \E m \in imagePush.fetched : r \in RowsOf(imagePush.cached, m)
ToSend(url) == {r \in Shown(imagePush.cached) : /\ imagePush.cached[r].media = 0
                                                /\ imagePush.cached[r].url = url /\ ~InGallery(r)}

\* The attachment of a file is committed at once; the row may have been deleted meanwhile.
UploadImage == imagePush.phase = "building" /\ \E r \in ToSend("file"), m \in NewMedia :
  /\ \A s \in ToSend("file") : r <= s
  /\ \A n \in NewMedia : m <= n
  /\ madeFrom' = [madeFrom EXCEPT ![m] = r]
  /\ \/ /\ Exists(images, r)
        /\ images' = [images EXCEPT ![r].media = m, ![r].url = "store"]
        /\ imagePush' = [imagePush EXCEPT !.cached[r].media = m, !.cached[r].url = "store"]
        /\ UNCHANGED <<imageBudget, doubled>>
     \/ /\ ~Exists(images, r)
        /\ imagePush' = NoPush
        /\ UNCHANGED <<images, imageBudget, doubled>>
     \* The answer is lost, or the worker dies before it commits.
     \/ /\ SpendOn("faults")
        /\ imagePush' = NoPush
        /\ doubled' = [doubled EXCEPT ![r] = @ + 1]
        /\ UNCHANGED images
  /\ UNCHANGED <<gallery, sameUrl, form, hook, takenOff, unshown, pushedOut>>

\* Faulty: only the ERP's images are sent, the others of the store forgotten.
MergedOwnOnly == {imagePush.cached[r].media : r \in Shown(imagePush.cached)} \ {0}

\* The gallery is replaced: by what was fetched but for marked removals, and by the rows.
Merged ==
  LET marked == {imagePush.cached[r].media : r \in ImageRows \ Shown(imagePush.cached)}
  IN (imagePush.fetched \ marked)
       \cup ({imagePush.cached[r].media : r \in Shown(imagePush.cached)} \ {0})

\* The store makes attachments of the URLs, under the same URL or one of its own.
SendGallery == \E sameUrls \in BOOLEAN :
  LET media == Number(ToSend("web"), NewMedia)
      made == {media[r] : r \in ToSend("web")}
      sent == Merged \cup made
      lost == {m \in gallery \ sent : madeFrom[m] = Staff}
  IN /\ imagePush.phase = "building" /\ ToSend("file") = {}
     /\ Cardinality(ToSend("web")) <= Cardinality(NewMedia)
     /\ gallery' = sent
     /\ madeFrom' = [m \in MediaIds |-> IF m \in made THEN CHOOSE r \in ToSend("web") : media[r] = m
                                        ELSE madeFrom[m]]
     /\ sameUrl' = IF sameUrls THEN sameUrl \cup made ELSE sameUrl
     /\ doubled' = [r \in ImageRows |->
                      doubled[r] + IF r \in ToSend("web") /\ ~sameUrls THEN 1 ELSE 0]
     /\ pushedOut' = [known |-> pushedOut.known \cup (lost \cap imagePush.fetched),
                    raced |-> pushedOut.raced \cup (lost \ imagePush.fetched)]
     /\ imagePush' = [phase |-> "answered", cached |-> imagePush.cached, fetched |-> sent]
     /\ UNCHANGED <<images, form, hook, imageBudget, takenOff, unshown>>

\* The answer is taken over, and every push_media record of the product is marked synced.
SettleImages ==
  LET cached == [r \in ImageRows |-> IF Exists(imagePush.cached, r) THEN imagePush.cached[r]
                                     ELSE images[r]]
      settled == Reconciled(cached, images, imagePush.fetched)
  IN /\ imagePush.phase = "answered"
     /\ CanReconcile(cached, images, imagePush.fetched)
     /\ imagePush' = NoPush
     /\ IF Distinct(settled) THEN images' = settled
        ELSE UNCHANGED images
     /\ UNCHANGED <<gallery, madeFrom, sameUrl, form, hook, imageBudget, doubled, takenOff, unshown,
                    pushedOut>>

\* The store refuses a request, its answer is lost, or the worker dies: it is pushed again.
AbandonImages ==
  /\ imagePush # NoPush /\ SpendOn("faults")
  /\ imagePush' = NoPush
  /\ UNCHANGED <<images, gallery, madeFrom, sameUrl, form, hook, doubled, takenOff, unshown,
                 pushedOut>>

-----------------------------------------------------------------------------
\* The store's staff, and the webhooks and pulls that carry its gallery.
StaffAdds == \E m \in NewMedia :
  /\ SpendOn("staff")
  /\ \A n \in NewMedia : m <= n
  /\ madeFrom' = [madeFrom EXCEPT ![m] = Staff]
  /\ gallery' = gallery \cup {m}
  /\ UNCHANGED <<images, sameUrl, form, imagePush, hook, doubled, takenOff, unshown, pushedOut>>

StaffRemoves == \E m \in gallery :
  /\ SpendOn("staff")
  /\ gallery' = gallery \ {m}
  /\ UNCHANGED <<images, madeFrom, sameUrl, form, imagePush, hook, doubled, takenOff, unshown,
                 pushedOut>>

SendHook ==
  /\ hook = {} /\ hook' = gallery /\ SpendOn("faults")
  /\ UNCHANGED <<images, gallery, madeFrom, sameUrl, form, imagePush, doubled, takenOff,
                 unshown, pushedOut>>

ImportImages ==
  /\ hook # {} /\ hook' = {}
  /\ CanReconcile(images, images, hook)
  /\ images' = Reconciled(images, images, hook)
  /\ doubled' = [r \in ImageRows |-> doubled[r] + Cardinality({m \in hook \ gallery : madeFrom[m] = r})]
  /\ UNCHANGED <<gallery, madeFrom, sameUrl, form, imagePush, imageBudget, takenOff, unshown,
                 pushedOut>>

ImagesNext ==
  \/ UploadImageFile \/ OpenForm \/ SaveForm
  \/ FetchGallery \/ UploadImage \/ SendGallery \/ SettleImages \/ AbandonImages
  \/ StaffAdds \/ StaffRemoves \/ SendHook \/ ImportImages
ImagesSpec == ImagesInit /\ [][ImagesNext]_imageVars

-----------------------------------------------------------------------------
(* Rows, attachments and what every session has read are of their types. *)
ImagesTypeOK ==
  /\ images \in [ImageRows -> Image \cup {NoImage}] /\ gallery \subseteq MediaIds
  /\ madeFrom \in [MediaIds -> ImageRows \cup {Staff, NotMade}] /\ sameUrl \subseteq MediaIds
  /\ DOMAIN form \subseteq ImageRows /\ \A r \in DOMAIN form : form[r] \in Image
  /\ hook \subseteq MediaIds
  /\ imagePush.phase \in {"idle", "building", "answered"}

Copies(r) == {m \in gallery : madeFrom[m] = r}

(* The store shows an image of the ERP once, and once more for every copy the ERP was made *)
(* to forget: an upload that died before its checkpoint (woocommerce_services.py:1190), a *)
(* form older than the upload, a URL the store answers with one of its own, a webhook that *)
(* carries an attachment the store has taken away since. *)
ShownOnce == \A r \in ImageRows : Cardinality(Copies(r)) <= 1 + doubled[r]

(* An image the store's staff added leaves the store only when an operator took it off, or *)
(* saved a form that was opened before it was imported; or when it was added after the *)
(* push had read the gallery. *)
StoreImagesKept == pushedOut.known \subseteq takenOff \cup unshown

(* ... and no two rows are ever the same attachment. *)
ImagesSound == Distinct(images) /\ ShownOnce /\ StoreImagesKept

(* What an operator removed is only brought back by a form that shows it, whatever the *)
(* worker had read before; but for an image whose first push was under way *)
(* (reconcile_product_images_from_remote writes what its session has cached). *)
RemovalKept == [][\A r \in ImageRows :
  /\ images[r].status = "pending_remove" /\ Exists(images', r)
  /\ images'[r].status # "pending_remove"
  => \/ r \in DOMAIN form
     \/ imagePush # NoPush /\ imagePush.cached[r].status = "pending_add"]_imageVars
=============================================================================
