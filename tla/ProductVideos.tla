----------------------------- MODULE ProductVideos -----------------------------
(***************************************************************************)
(* The videos of one product that is in the WooCommerce store: links, and  *)
(* uploaded files that the worker sends to WordPress first.  The store     *)
(* keeps one manifest, replaced by every push.                             *)
(*                                                                         *)
(* Files are no part of a transaction: one that is removed stays removed   *)
(* when the request that removed it is rolled back.                        *)
(***************************************************************************)
EXTENDS Integers, FiniteSets, Functions

CONSTANTS VideoRows,       \* ids of rows; an uploaded file bears its row's
          MaxVideoForms,   \* bound: forms that are saved
          MaxVideoFaults   \* bound: refusals, lost answers and crashes of the worker

ASSUME VideosAssumption == /\ VideoRows \subseteq Nat
                           /\ MaxVideoForms \in Nat /\ MaxVideoFaults \in Nat

VARIABLES videos,       \* product_videos
          files,        \* the files in the upload directory
          manifest,     \* what the store shows: rows, and the text of each
          videoRecord,  \* whether a push_videos record waits
          emptied,      \* the record of the list without videos
          videoForm,    \* what an open form showed
          videoPush,    \* the worker's push: phase and the rows its session has cached
          videoBudget,
          changedSince, \* history: rows changed since a push has last read them
          unsaid,       \* history: rows removed by a form that queued nothing
          orphaned      \* history: rows whose file a rolled back request removed

videoVars == <<videos, files, manifest, videoRecord, emptied, videoForm, videoPush, videoBudget,
               changedSince, unsaid, orphaned>>

-----------------------------------------------------------------------------
NoVideo == [status |-> "none", source |-> "none", remote |-> FALSE, text |-> 0]
Video == [status: {"pending_add", "pending_update", "synced"}, source: {"uploaded", "link"},
          remote: BOOLEAN, text: 0..MaxVideoForms]
NoRows == [v \in {} |-> NoVideo]
IdlePush == [phase |-> "idle", cached |-> NoRows]

Listed(rows) == {v \in VideoRows : rows[v] # NoVideo}
FreshVideos == {v \in VideoRows : videos[v] = NoVideo /\ v \notin files \cup DOMAIN manifest
                  \cup DOMAIN videoForm \cup DOMAIN videoPush.cached \cup changedSince}
Smallest(rows) == {v \in rows : \A x \in rows : v <= x}

\* A record is found by the hash of the list, which changes with every edit of a row; the list
\* without rows has one hash, and its record, once synced, is not opened again.
Queues(rows) == Listed(rows) # {} \/ emptied = "none"
Emptied(rows) == IF Listed(rows) = {} /\ emptied = "none" THEN "open" ELSE emptied

\* A committed change of rows; a push that has read them does not see it.
Changing(rows) == IF videoPush = IdlePush THEN changedSince ELSE changedSince \cup rows

-----------------------------------------------------------------------------
VideosInit ==
  /\ videos = [v \in VideoRows |-> NoVideo] /\ files = {} /\ manifest = [v \in {} |-> 0]
  /\ videoRecord = FALSE /\ emptied = "none" /\ videoForm = NoRows /\ videoPush = IdlePush
  /\ videoBudget = [forms |-> MaxVideoForms, faults |-> MaxVideoFaults]
  /\ changedSince = {} /\ unsaid = {} /\ orphaned = {}

\* The upload route: the file is written first.
UploadVideoFile == \E v \in Smallest(FreshVideos) :
  /\ videos' = [videos EXCEPT ![v] = [status |-> "pending_add", source |-> "uploaded",
                                      remote |-> FALSE, text |-> 0]]
  /\ files' = files \cup {v}
  /\ videoRecord' = TRUE /\ changedSince' = Changing({v})
  /\ UNCHANGED <<manifest, emptied, videoForm, videoPush, videoBudget, unsaid, orphaned>>

OpenVideoForm ==
  /\ videoForm = NoRows /\ videoBudget.forms > 0 /\ Listed(videos) # {}
  /\ videoBudget' = [videoBudget EXCEPT !.forms = @ - 1]
  /\ videoForm' = Restrict(videos, Listed(videos))
  /\ UNCHANGED <<videos, files, manifest, videoRecord, emptied, videoPush, changedSince, unsaid,
                 orphaned>>

\* A row of the form as it is saved: another link, another name, or as it was.
Renamed(was) == [was EXCEPT !.text = @ + 1,
                            !.status = IF @ = "synced" THEN "pending_update" ELSE @]
Relinked(was) == [status |-> "pending_update", source |-> "link", remote |-> FALSE,
                  text |-> was.text + 1]

\* replace_product_videos: the files of rows that were dropped or linked anew are removed
\* at once, and something may still fail before the commit.  A row deleted meanwhile is
\* added again, which fails for an uploaded one, whose URL is no link: before or after the
\* file of a row linked anew was removed.  That the last video is gone may go unsaid.
SaveVideoForm == \E kept \in SUBSET DOMAIN videoForm, committed \in BOOLEAN,
                    renamed, relinked \in SUBSET DOMAIN videoForm :
  LET gone == {v \in kept : videos[v] = NoVideo}
      saved == [v \in VideoRows |->
                  IF v \notin kept THEN NoVideo
                  ELSE IF v \in gone THEN [videoForm[v] EXCEPT !.status = "pending_add",
                                                              !.remote = FALSE]
                  ELSE IF v \in relinked THEN Relinked(videos[v])
                  ELSE IF v \in renamed THEN Renamed(videos[v])
                  ELSE videos[v]]
      removed == {v \in Listed(videos) : videos[v].source = "uploaded" /\ saved[v].source # "uploaded"}
      changed == {v \in VideoRows : saved[v] # videos[v]}
  IN /\ videoForm # NoRows /\ videoForm' = NoRows
     /\ renamed \cup relinked \subseteq kept \ gone /\ Cardinality(renamed \cup relinked) <= 1
     /\ renamed \cap relinked = {}
     /\ IF \E v \in gone : videoForm[v].source = "uploaded"
        THEN LET early == IF committed THEN {} ELSE removed \cap relinked
             IN /\ files' = files \ early /\ orphaned' = orphaned \cup early
                /\ UNCHANGED <<videos, videoRecord, emptied, changedSince, unsaid>>
        ELSE /\ files' = files \ removed
             /\ IF committed
                THEN /\ videos' = saved
                     /\ videoRecord' = (videoRecord \/ Queues(saved))
                     /\ emptied' = Emptied(saved)
                     /\ unsaid' = IF videoRecord' THEN unsaid ELSE unsaid \cup changed
                     /\ changedSince' = Changing(changed)
                     /\ UNCHANGED orphaned
                ELSE /\ orphaned' = orphaned \cup removed
                     /\ UNCHANGED <<videos, videoRecord, emptied, changedSince, unsaid>>
     /\ UNCHANGED <<manifest, videoPush, videoBudget>>

\* enqueue_products_for_sync: a publishing run queues every product, and every push has
\* changed the rows it looks at.
QueueVideos ==
  /\ ~videoRecord /\ videoPush = IdlePush /\ Queues(videos)
  /\ videoRecord' = TRUE /\ emptied' = Emptied(videos)
  /\ UNCHANGED <<videos, files, manifest, videoForm, videoPush, videoBudget, changedSince, unsaid,
                 orphaned>>

-----------------------------------------------------------------------------
ReadVideos ==
  /\ videoPush = IdlePush /\ videoRecord
  /\ videoPush' = [phase |-> "building", cached |-> Restrict(videos, Listed(videos))]
  /\ changedSince' = {} /\ unsaid' = {}
  /\ UNCHANGED <<videos, files, manifest, videoRecord, emptied, videoForm, videoBudget, orphaned>>

ToUpload == {v \in DOMAIN videoPush.cached :
               videoPush.cached[v].source = "uploaded" /\ ~videoPush.cached[v].remote}

\* The file must be there; the row, which may have been deleted, is committed at once.
UploadVideo == \E v \in Smallest(ToUpload) :
  LET cached == [videoPush.cached[v] EXCEPT !.remote = TRUE, !.status = "pending_update"]
  IN /\ videoPush.phase = "building"
     /\ IF v \in files /\ videos[v] # NoVideo
        THEN /\ videoPush' = [videoPush EXCEPT !.cached[v] = cached]
             /\ videos' = [videos EXCEPT ![v].remote = TRUE, ![v].status =
                             IF videoPush.cached[v].status = "pending_update" THEN @
                             ELSE "pending_update"]
        ELSE videoPush' = IdlePush /\ UNCHANGED videos
     /\ UNCHANGED <<files, manifest, videoRecord, emptied, videoForm, videoBudget, changedSince,
                    unsaid, orphaned>>

SendManifest ==
  /\ videoPush.phase = "building" /\ ToUpload = {}
  /\ manifest' = [v \in DOMAIN videoPush.cached |-> videoPush.cached[v].text]
  /\ videoPush' = [videoPush EXCEPT !.phase = "answered"]
  /\ UNCHANGED <<videos, files, videoRecord, emptied, videoForm, videoBudget, changedSince, unsaid,
                 orphaned>>

\* All rows there are now become synced, as far as the session's cache knows they are not,
\* and with them every record of the product.
SettleVideos ==
  /\ videoPush.phase = "answered"
  /\ videos' = [v \in VideoRows |->
       IF videos[v] = NoVideo \/ (v \in DOMAIN videoPush.cached
                                  /\ videoPush.cached[v].status = "synced")
       THEN videos[v] ELSE [videos[v] EXCEPT !.status = "synced"]]
  /\ videoRecord' = FALSE /\ emptied' = IF emptied = "open" THEN "synced" ELSE emptied
  /\ videoPush' = IdlePush
  /\ UNCHANGED <<files, manifest, videoForm, videoBudget, changedSince, unsaid, orphaned>>

\* The store refuses a request, its answer is lost, or the worker dies.
AbandonVideos ==
  /\ videoPush # IdlePush /\ videoBudget.faults > 0
  /\ videoBudget' = [videoBudget EXCEPT !.faults = @ - 1]
  /\ videoPush' = IdlePush
  /\ UNCHANGED <<videos, files, manifest, videoRecord, emptied, videoForm, changedSince, unsaid,
                 orphaned>>

VideosNext ==
  \/ UploadVideoFile \/ OpenVideoForm \/ SaveVideoForm \/ QueueVideos
  \/ ReadVideos \/ UploadVideo \/ SendManifest \/ SettleVideos \/ AbandonVideos
VideosSpec == VideosInit /\ [][VideosNext]_videoVars

-----------------------------------------------------------------------------
(* Rows, files and what the worker has cached are of their types. *)
VideosTypeOK ==
  /\ videos \in [VideoRows -> Video \cup {NoVideo}] /\ files \subseteq VideoRows
  /\ DOMAIN manifest \subseteq VideoRows /\ \A v \in DOMAIN manifest : manifest[v] \in Nat
  /\ videoRecord \in BOOLEAN /\ emptied \in {"none", "open", "synced"}
  /\ DOMAIN videoForm \subseteq VideoRows
  /\ videoPush.phase \in {"idle", "building", "answered"}

Shows(v) == IF videos[v] = NoVideo THEN v \notin DOMAIN manifest
            ELSE v \in DOMAIN manifest /\ manifest[v] = videos[v].text

(* The store shows every video as the ERP has it, and none that was removed, unless a *)
(* record waits to tell it; or the video was changed during the last push, which marked *)
(* the record of that change synced (mark_superseded_outbox_records_synced); or it was the *)
(* product's last, and that there is none was said before (enqueue_sync_outbox). *)
NoChangeForgotten ==
  \A v \in VideoRows : Shows(v) \/ videoRecord \/ v \in changedSince \cup unsaid

(* An uploaded video has its file, unless a request that removed it was rolled back *)
(* (_remove_uploaded_product_video). *)
FilesKept == \A v \in Listed(videos) :
  videos[v].source = "uploaded" => v \in files \cup orphaned

(* The videos of the ERP and of the store, and their files, agree. *)
VideosSound == NoChangeForgotten /\ FilesKept
=============================================================================
