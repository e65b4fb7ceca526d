----------------------------- MODULE StoreSettings -----------------------------
(***************************************************************************)
(* What the ERP knows of its store: one row of settings, with the store's  *)
(* address and keys, the REST mode it understands, how far it was pulled,  *)
(* and whether the plugin for videos was found there.  Administrators who  *)
(* save it, the test of the connection and the runs of the worker all read *)
(* the row and write it back as a whole; only the checkpoint is written    *)
(* under a lock.                                                           *)
(***************************************************************************)
EXTENDS Integers

CONSTANTS Savers,           \* administrators who save the settings
          MaxSaves, MaxSettingsSteps  \* bounds: saves, and steps

ASSUME StoreSettingsAssumption == MaxSaves \in Nat /\ MaxSettingsSteps \in Nat

VARIABLES connector,  \* the row; save is the number of the save its address and keys are from,
                      \*   secret that of the one its webhook secret is from
          saving,     \* Savers: the row that was read
          testing,    \* the test of the connection: where it stands, the site, its copy of the row
          storeRun,   \* the pull of the worker, likewise
          edited,     \* when the stores were last changed
          pulledTill, \* stores: everything until then is in the ERP
          saves, lastSecret,  \* history: the saves, and the last one with a secret
          lost,       \* history: what wrote over a save it did not know, and what it wanted
          overlap,    \* history: saves that did not know the one before overlapped
          tested,     \* history: nothing happened to the site since a test of it
          settingsSteps

settingsVars == <<connector, saving, testing, storeRun, edited, pulledTill, saves, lastSecret,
                  lost, overlap, tested, settingsSteps>>

-----------------------------------------------------------------------------
StoreSites == {"old", "new"}
ModeOf == [s \in StoreSites |-> IF s = "old" THEN "pretty" ELSE "query"]

\* What a checkpoint was made of: the stores asked, since it last began from nothing.
Mark == [till: Nat, of: SUBSET StoreSites]
Unset == [site |-> "none", save |-> 0, secret |-> 0, mode |-> "none",
          mark |-> [till |-> 0, of |-> {}], plugin |-> "none"]
NoCopy == [Unset EXCEPT !.save = -1]
IdleTest == [at |-> "idle", site |-> "none", copy |-> NoCopy]
IdleRun == [at |-> "idle", began |-> 0, since |-> Unset.mark, asked |-> {}, copy |-> NoCopy,
            flushed |-> FALSE]

StoreSettingsInit ==
  /\ connector = Unset /\ saving = [u \in Savers |-> NoCopy]
  /\ testing = IdleTest /\ storeRun = IdleRun
  /\ edited = 0 /\ pulledTill = [s \in StoreSites |-> 0] /\ saves = 0 /\ lastSecret = 0
  /\ lost = {} /\ overlap = FALSE /\ tested = FALSE /\ settingsSteps = 0

SettingsStep == settingsSteps < MaxSettingsSteps /\ settingsSteps' = settingsSteps + 1

\* A changed copy hides the row from its session, until it is written.
View(copy) == IF copy # NoCopy THEN copy ELSE connector
Unlocked == ~storeRun.flushed
Configured(row) == row.save > 0

\* The copy that is written had the result of the last test.
StillTested(copy) == tested /\ copy.site = connector.site /\ copy.plugin = connector.plugin

-----------------------------------------------------------------------------
\* configure_woocommerce: what was there is read, and kept where the form says nothing.
ReadToSave(u) ==
  /\ saving[u] = NoCopy /\ saves < MaxSaves /\ SettingsStep
  /\ saving' = [saving EXCEPT ![u] = connector]
  /\ UNCHANGED <<connector, testing, storeRun, edited, pulledTill, saves, lastSecret, lost,
                 overlap, tested>>

SavedOver(row, site, secret) ==
  [row EXCEPT !.site = site, !.save = saves + 1, !.secret = IF secret THEN saves + 1 ELSE @]
WriteSaved(u) == \E site \in StoreSites, secret \in BOOLEAN :
  /\ saving[u] # NoCopy /\ Unlocked /\ saves < MaxSaves /\ SettingsStep
  \* the row was inserted meanwhile: the unique key refuses another
  /\ IF saving[u].save = 0 /\ Configured(connector)
     THEN UNCHANGED <<connector, saves, lastSecret, overlap, tested>>
     ELSE /\ connector' = SavedOver(saving[u], site, secret)
          /\ saves' = saves + 1 /\ lastSecret' = IF secret THEN saves + 1 ELSE lastSecret
          /\ overlap' = (overlap \/ saving[u].save # connector.save)
          /\ tested' = (StillTested(saving[u]) /\ site = connector.site)
  /\ saving' = [saving EXCEPT ![u] = NoCopy]
  /\ UNCHANGED <<testing, storeRun, edited, pulledTill, lost>>

\* A session writes the row as it knows it; `learned' is whether a mode it learned goes with it.
WroteOver(what, copy, learned) ==
  lost' = IF copy.save = connector.save THEN lost
          ELSE lost \cup {[by |-> what, learned |-> learned]}

\* make_woocommerce_request, and the mode it learns, which stays with the session for now
\* (store_woocommerce_rest_api_mode).
Learned(copy) ==
  IF View(copy).mode = ModeOf[View(copy).site] THEN copy
  ELSE [View(copy) EXCEPT !.mode = ModeOf[View(copy).site]]

-----------------------------------------------------------------------------
\* test_woocommerce_connection: several requests; then the plugin is looked for, and that is kept.
BeginTest ==
  /\ testing.at = "idle" /\ Configured(connector) /\ SettingsStep
  /\ testing' = [at |-> "asked", site |-> connector.site, copy |-> Learned(NoCopy)]
  /\ UNCHANGED <<connector, saving, storeRun, edited, pulledTill, saves, lastSecret, lost,
                 overlap, tested>>

\* test_wordpress_video_plugin: the site is read once more.
ProbePlugin ==
  /\ testing.at = "asked" /\ SettingsStep
  /\ testing' = [testing EXCEPT !.at = "probed", !.site = View(testing.copy).site]
  /\ UNCHANGED <<connector, saving, storeRun, edited, pulledTill, saves, lastSecret, lost,
                 overlap, tested>>

EndTest ==
  /\ testing.at = "probed" /\ Unlocked /\ SettingsStep
  /\ connector' = [View(testing.copy) EXCEPT !.plugin = testing.site]
  /\ WroteOver("test", View(testing.copy), testing.copy # NoCopy)
  /\ tested' = (testing.site = View(testing.copy).site)
  /\ testing' = IdleTest
  /\ UNCHANGED <<saving, storeRun, edited, pulledTill, saves, lastSecret, overlap>>

\* A request fails: what was learned by then is kept.
TestStops ==
  /\ testing.at = "asked" /\ Unlocked /\ SettingsStep
  /\ IF testing.copy = NoCopy THEN UNCHANGED <<connector, lost, tested>>
     ELSE /\ connector' = testing.copy /\ WroteOver("test", testing.copy, TRUE)
          /\ tested' = StillTested(testing.copy)
  /\ testing' = IdleTest
  /\ UNCHANGED <<saving, storeRun, edited, pulledTill, saves, lastSecret, overlap>>

-----------------------------------------------------------------------------
\* _pull_incremental_woocommerce_collection: what changed since the checkpoint, page by page, each
\* asked for where the settings then say; a page's rows are flushed, and the checkpoint is last.
BeginStoreRun ==
  /\ storeRun.at = "idle" /\ Configured(connector) /\ SettingsStep
  /\ storeRun' = [IdleRun EXCEPT !.at = "pulling", !.began = edited, !.since = connector.mark]
  /\ UNCHANGED <<connector, saving, testing, edited, pulledTill, saves, lastSecret, lost,
                 overlap, tested>>

PullPage ==
  /\ storeRun.at = "pulling" /\ SettingsStep
  /\ storeRun' = [storeRun EXCEPT !.asked = @ \cup {View(storeRun.copy).site},
                                  !.copy = Learned(@)]
  /\ UNCHANGED <<connector, saving, testing, edited, pulledTill, saves, lastSecret, lost,
                 overlap, tested>>

\* The copy is written, and the row locked until the run is committed.
FlushPage ==
  /\ storeRun.copy # NoCopy /\ ~storeRun.flushed /\ SettingsStep
  /\ storeRun' = [storeRun EXCEPT !.flushed = TRUE]
  /\ UNCHANGED <<connector, saving, testing, edited, pulledTill, saves, lastSecret, lost,
                 overlap, tested>>

\* update_woocommerce_setting_value: the row as it is now, locked, whatever copy there was.
MergeBase == IF storeRun.flushed THEN storeRun.copy ELSE connector
EndStoreRun ==
  LET of == storeRun.asked \cup storeRun.since.of
  IN  /\ storeRun.at = "pulling" /\ storeRun.asked # {} /\ SettingsStep
      /\ connector' = [MergeBase EXCEPT !.mark = [till |-> storeRun.began, of |-> of]]
      /\ WroteOver("run", MergeBase, storeRun.flushed)
      /\ tested' = StillTested(MergeBase)
      /\ pulledTill' = [s \in StoreSites |->
           IF storeRun.asked = {s} /\ storeRun.since.till <= pulledTill[s]
              /\ storeRun.began > pulledTill[s] THEN storeRun.began ELSE pulledTill[s]]
      /\ storeRun' = IdleRun
      /\ UNCHANGED <<saving, testing, edited, saves, lastSecret, overlap>>

\* It fails, and nothing of it stays.
StoreRunFails ==
  /\ storeRun.at = "pulling" /\ SettingsStep
  /\ storeRun' = IdleRun
  /\ UNCHANGED <<connector, saving, testing, edited, pulledTill, saves, lastSecret, lost,
                 overlap, tested>>

\* Something changes in the stores.
StoreEdited ==
  /\ SettingsStep /\ edited' = edited + 1
  /\ UNCHANGED <<connector, saving, testing, storeRun, pulledTill, saves, lastSecret, lost,
                 overlap, tested>>

StoreSettingsNext ==
  \/ \E u \in Savers : ReadToSave(u) \/ WriteSaved(u)
  \/ BeginTest \/ ProbePlugin \/ EndTest \/ TestStops
  \/ BeginStoreRun \/ PullPage \/ FlushPage \/ EndStoreRun \/ StoreRunFails \/ StoreEdited

StoreSettingsSpec == StoreSettingsInit /\ [][StoreSettingsNext]_settingsVars

-----------------------------------------------------------------------------
(* The row names a site once it was saved. *)
StoreSettingsTypeOK ==
  /\ connector.site \in StoreSites \cup {"none"} /\ connector.save \in 0..MaxSaves
  /\ Configured(connector) <=> connector.site # "none"
  /\ connector.mark.of \subseteq StoreSites /\ saves \in 0..MaxSaves

(* The address and the keys are those saved last, unless a run or a test of the connection had *)
(* found another REST mode, and wrote the row it had read with it: a page of the run before *)
(* the checkpoint, which itself is merged with the row as it is by then *)
(* (update_woocommerce_setting_value, store_woocommerce_rest_api_mode). *)
KeysStay == /\ connector.save = saves \/ lost # {}
            /\ \A l \in lost : l.learned

(* A webhook secret that was saved stays until another is, unless saves overlapped or a row *)
(* was written over (configure_woocommerce). *)
SecretStays == connector.secret = lastSecret \/ lost # {} \/ overlap

(* The checkpoint lets nothing be passed over that changed in the store before, unless pulls *)
(* of another store are part of it: a save keeps the checkpoint of the store before. *)
MarkHonest == Configured(connector) /\ connector.mark.of \subseteq {connector.site}
                => connector.mark.till <= pulledTill[connector.site]

(* After a test of the connection, the plugin's status is that of the store that is named, *)
(* until a save names another one or what was read before the test is written over it. *)
PluginOfThisStore == tested => connector.plugin = connector.site

StoreSettingsSound == KeysStay /\ SecretStays /\ MarkHonest /\ PluginOfThisStore
=============================================================================
