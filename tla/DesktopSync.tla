------------------------------ MODULE DesktopSync -------------------------------
(***************************************************************************)
(* The buttons of the desktop program that start a run with the store, and *)
(* the timer that asks what became of the run until it has ended.          *)
(***************************************************************************)
EXTENDS Integers

CONSTANTS MaxStoreRuns,  \* bound: runs
          MaxSignOuts    \* bound: how often the user signs out

ASSUME DesktopSyncAssumption == {MaxStoreRuns, MaxSignOuts} \subseteq Nat

VARIABLES storeRuns,   \* the server's runs: "none", "queued", "running" or "ended"
          watched,     \* the run the program asks about, 0 for none
          buttonsOn,   \* whether the buttons can be pressed
          pollTimers,  \* timers that have not fired
          signedIn,
          signOuts,
          missed       \* history: a timer fired while nobody was signed in

syncPageVars == <<storeRuns, watched, buttonsOn, pollTimers, signedIn, signOuts, missed>>

-----------------------------------------------------------------------------
StoreRunIds == 1..MaxStoreRuns
Active == {r \in StoreRunIds : storeRuns[r] \in {"queued", "running"}}
Unused == {r \in StoreRunIds : storeRuns[r] = "none"}

DesktopSyncInit ==
  /\ storeRuns = [r \in StoreRunIds |-> "none"]
  /\ watched = 0 /\ buttonsOn = TRUE /\ pollTimers = 0
  /\ signedIn = TRUE /\ signOuts = 0 /\ missed = FALSE

\* enqueue_woocommerce_sync_run: the run that has not ended, or a new one.
Enqueued(r) == IF Active # {} THEN r \in Active /\ UNCHANGED storeRuns
               ELSE /\ r \in Unused /\ (\A q \in Unused : r <= q)
                    /\ storeRuns' = [storeRuns EXCEPT ![r] = "queued"]

\* run_woocommerce_sync.
PressSync == \E r \in StoreRunIds :
  /\ buttonsOn /\ signedIn /\ Enqueued(r)
  /\ watched' = r /\ buttonsOn' = FALSE /\ pollTimers' = pollTimers + 1
  /\ UNCHANGED <<signedIn, signOuts, missed>>

\* ... or it fails, or its answer is lost.
PressSyncFails ==
  /\ buttonsOn /\ signedIn
  /\ (UNCHANGED storeRuns \/ \E r \in StoreRunIds : Enqueued(r))
  /\ buttonsOn' = (watched = 0)
  /\ UNCHANGED <<watched, pollTimers, signedIn, signOuts, missed>>

\* poll_woocommerce_sync: asks again until the run has ended, or asking fails; to ask may show
\* that the session has ended.
StopWatching == watched' = 0 /\ buttonsOn' = TRUE /\ pollTimers' = pollTimers - 1
Poll ==
  /\ pollTimers > 0
  /\ IF ~signedIn \/ watched = 0
     THEN /\ pollTimers' = pollTimers - 1 /\ missed' = TRUE
          /\ UNCHANGED <<watched, buttonsOn, signedIn, signOuts>>
     ELSE /\ \/ StopWatching
             \/ watched \in Active /\ UNCHANGED <<watched, buttonsOn, pollTimers>>
          /\ \/ UNCHANGED <<signedIn, signOuts>>
             \/ signOuts < MaxSignOuts /\ signedIn' = FALSE /\ signOuts' = signOuts + 1
          /\ UNCHANGED missed
  /\ UNCHANGED storeRuns

\* clear_ui_session, and a new sign-in.
LeavePage == /\ signedIn /\ signOuts < MaxSignOuts
             /\ signedIn' = FALSE /\ signOuts' = signOuts + 1
             /\ UNCHANGED <<storeRuns, watched, buttonsOn, pollTimers, missed>>
ReturnToPage == /\ ~signedIn /\ signedIn' = TRUE
                /\ UNCHANGED <<storeRuns, watched, buttonsOn, pollTimers, signOuts, missed>>

\* A worker takes a run and ends it; another user starts one.
WorkerMoves == \E r \in Active :
  /\ storeRuns' = [storeRuns EXCEPT ![r] = IF @ = "queued" THEN "running" ELSE "ended"]
  /\ UNCHANGED <<watched, buttonsOn, pollTimers, signedIn, signOuts, missed>>
OthersEnqueue == \E r \in StoreRunIds :
  /\ Active = {} /\ Enqueued(r)
  /\ UNCHANGED <<watched, buttonsOn, pollTimers, signedIn, signOuts, missed>>

DesktopSyncNext ==
  \/ PressSync \/ PressSyncFails \/ Poll \/ LeavePage \/ ReturnToPage
  \/ WorkerMoves \/ OthersEnqueue

DesktopSyncSpec == DesktopSyncInit /\ [][DesktopSyncNext]_syncPageVars

-----------------------------------------------------------------------------
(* There is one timer at most, and the program asks about a run it started. *)
DesktopSyncTypeOK == /\ pollTimers \in 0..1 /\ watched \in StoreRunIds \cup {0}
                     /\ watched # 0 => storeRuns[watched] # "none"

(* While the buttons are off a timer is left that will put them on again, unless one fired *)
(* while nobody was signed in: then they stay off for as long as the program runs *)
(* (poll_woocommerce_sync). *)
ButtonsComeBack == buttonsOn \/ pollTimers > 0 \/ missed

(* What the buttons say is what is asked about: no second run is started beside it. *)
OneWatch == buttonsOn <=> watched = 0

DesktopSyncSound == ButtonsComeBack /\ OneWatch
=============================================================================
