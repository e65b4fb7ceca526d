------------------------------ MODULE DesktopShell ------------------------------
(***************************************************************************)
(* The desktop program around its sign-in: the GUI thread, which handles   *)
(* clicks, timers and the results of background tasks one at a time; the   *)
(* tasks of the thread pool; and the API client they share, which holds    *)
(* the credentials.                                                        *)
(*                                                                         *)
(* A task that signs in or out raises the epoch; results of tasks that     *)
(* began in an earlier epoch are dropped, but what the task did to the     *)
(* client stays done.  Refreshes take turns by a lock of the client, which *)
(* signing in and out do not take.  What the server does is chosen freely: *)
(* every call may succeed or fail.                                         *)
(***************************************************************************)
EXTENDS Integers

CONSTANTS People,        \* accounts that sign in on this computer
          Nobody,        \* no session
          MaxEpochs,     \* bound: tasks that sign in or out
          MaxTimers      \* bound: firings of the refresh timer

ASSUME DesktopAssumption == Nobody \notin People /\ MaxEpochs \in Nat \ {0} /\ MaxTimers \in Nat

VARIABLES screen,       \* whose session the window shows
          holder,       \* whose credentials the client holds
          epoch,        \* state["auth_epoch"]
          busy,         \* state["auth_busy"], state["refresh_busy"], and whether the
                        \*   controls of a page are disabled
          tasks,        \* the task that signs in or out, the refresh, the one of the page
          timers,       \* how often the timer fired
          wanted,       \* history: what the user last asked for
          crossed,      \* history: a refresh ran across a signing out, or into another session
          ignored,      \* history: a sign-out was not carried out, as another task ran
          overtaken     \* history: kinds of tasks that were running when an epoch began

desktopVars == <<screen, holder, epoch, busy, tasks, timers, wanted, crossed, ignored, overtaken>>

-----------------------------------------------------------------------------
Kinds == {"auth", "refresh", "page"}
Somebody == People \cup {Nobody}
NoTask == [step |-> "none"]
Steps == {"asked", "renewing", "loading", "done", "failed"}
Task == [step: Steps, job: {"login", "restore", "logout", "password", "refresh", "page"},
         who: Somebody, born: 0..MaxEpochs]

Began(kind, job, who) == [tasks EXCEPT ![kind] = [step |-> "asked", job |-> job, who |-> who,
                                                  born |-> epoch']]
Stepped(kind, step) == [tasks EXCEPT ![kind].step = step]
Current(kind) == tasks[kind].born = epoch

\* _refresh_lock.
LockTaken == \/ tasks["auth"] # NoTask /\ tasks["auth"].job = "restore" /\ tasks["auth"].step = "asked"
             \/ \E k \in {"refresh", "page"} : tasks[k].step = "renewing"

-----------------------------------------------------------------------------
DesktopInit ==
  /\ screen = Nobody /\ holder = Nobody /\ epoch = 1
  /\ busy = [k \in Kinds |-> k = "auth"]
  /\ \E p \in Somebody : tasks = [k \in Kinds |-> IF k # "auth" THEN NoTask ELSE
                           [step |-> "asked", job |-> "restore", who |-> p, born |-> 1]]
  /\ timers = 0 /\ wanted = "in" /\ crossed = FALSE /\ ignored = FALSE /\ overtaken = {}

\* start_auth_task.
MayBeginAuth == ~busy["auth"] /\ epoch < MaxEpochs

BeginAuth(job, who) ==
  /\ epoch' = epoch + 1
  /\ busy' = [busy EXCEPT !["auth"] = TRUE]
  /\ tasks' = Began("auth", job, who)
  /\ overtaken' = overtaken \cup {k \in Kinds \ {"auth"} : tasks[k] # NoTask}

\* The login button; only on the sign-in screen.
ClickLogin == \E p \in People :
  /\ screen = Nobody /\ MayBeginAuth
  /\ BeginAuth("login", p)
  /\ wanted' = "in"
  /\ UNCHANGED <<screen, holder, timers, crossed, ignored>>

\* Logout: the window is cleared first, then the task is started, if none is running.
ClickLogout ==
  /\ screen # Nobody /\ (busy["auth"] \/ epoch < MaxEpochs)
  /\ screen' = Nobody /\ wanted' = "out"
  /\ IF MayBeginAuth
     THEN BeginAuth("logout", holder) /\ UNCHANGED ignored
     ELSE ignored' = TRUE /\ UNCHANGED <<epoch, busy, tasks, overtaken>>
  /\ UNCHANGED <<holder, timers, crossed>>

\* The password is changed, from the page that asks for it.
ClickChangePassword == /\ screen # Nobody /\ MayBeginAuth
                       /\ BeginAuth("password", holder)
                       /\ UNCHANGED <<screen, holder, timers, wanted, crossed, ignored>>

\* The timer: unless a refresh is running, and without a token there is nothing to do.
FireTimer ==
  /\ timers < MaxTimers /\ timers' = timers + 1
  /\ ~busy["refresh"] /\ holder # Nobody
  /\ busy' = [busy EXCEPT !["refresh"] = TRUE]
  /\ epoch' = epoch
  /\ tasks' = Began("refresh", "refresh", holder)
  /\ crossed' = (crossed \/ tasks["auth"] # NoTask)
  /\ UNCHANGED <<screen, holder, wanted, ignored, overtaken>>

\* A page is loaded: its controls are disabled until it is.
LoadPage == /\ screen # Nobody /\ holder # Nobody /\ ~busy["page"]
            /\ busy' = [busy EXCEPT !["page"] = TRUE]
            /\ epoch' = epoch
            /\ tasks' = Began("page", "page", holder)
            /\ UNCHANGED <<screen, holder, timers, wanted, crossed, ignored, overtaken>>

-----------------------------------------------------------------------------
\* The server answers a login or a restored one, and the client installs the session.
InstallSignIn == LET t == tasks["auth"] IN
  /\ t.step = "asked" /\ t.job \in {"login", "restore"} /\ t.who # Nobody
  /\ holder' = t.who /\ tasks' = Stepped("auth", "loading")
  /\ UNCHANGED <<screen, epoch, busy, timers, wanted, crossed, ignored, overtaken>>

\* The login or the new password is refused, the saved login is not there or no good; the
\* latter drops what the client holds.
RefuseSignIn == LET t == tasks["auth"] IN
  /\ t.step = "asked" /\ t.job # "logout"
  /\ holder' = IF t.job = "restore" /\ t.who # Nobody THEN Nobody ELSE holder
  /\ tasks' = Stepped("auth", "failed")
  /\ UNCHANGED <<screen, epoch, busy, timers, wanted, crossed, ignored, overtaken>>

\* The password is changed.
ChangePassword == LET t == tasks["auth"] IN
  /\ t.step = "asked" /\ t.job = "password" /\ holder # Nobody
  /\ tasks' = Stepped("auth", "loading")
  /\ UNCHANGED <<screen, holder, epoch, busy, timers, wanted, crossed, ignored, overtaken>>

\* logout_current_session: whatever the server said, the client forgets the session.
ForgetSession == LET t == tasks["auth"] IN
  /\ t.step = "asked" /\ t.job = "logout"
  /\ holder' = Nobody /\ tasks' = Stepped("auth", "done")
  /\ UNCHANGED <<screen, epoch, busy, timers, wanted, crossed, ignored, overtaken>>

\* A refresh gets the lock and reads what the client holds; without a session it fails.  A
\* page that was refused does the same, unless the client holds another session by now.
BeginRenewal == \E k \in {"refresh", "page"} :
  /\ tasks[k].step = "asked" /\ ~LockTaken
  /\ k = "page" => holder \in {tasks[k].who, Nobody}
  /\ tasks' = [tasks EXCEPT ![k].step = IF holder = Nobody THEN "failed" ELSE "renewing",
                            ![k].who = holder]
  /\ UNCHANGED <<screen, holder, epoch, busy, timers, wanted, crossed, ignored, overtaken>>

\* Its answer is installed, whatever has become of the session it read.
InstallRenewal == \E k \in {"refresh", "page"} :
  /\ tasks[k].step = "renewing"
  /\ holder' = tasks[k].who
  /\ crossed' = (crossed \/ holder # tasks[k].who)
  /\ tasks' = Stepped(k, IF k = "page" THEN "done" ELSE "loading")
  /\ UNCHANGED <<screen, epoch, busy, timers, wanted, ignored, overtaken>>

\* It is refused, or not answered: the client forgets the session it holds.
RefuseRenewal == \E k \in {"refresh", "page"} :
  /\ tasks[k].step = "renewing"
  /\ holder' = Nobody /\ tasks' = Stepped(k, "failed")
  /\ UNCHANGED <<screen, epoch, busy, timers, wanted, crossed, ignored, overtaken>>

\* load_session_bundle: who the session is of that the client holds now.
LoadBundle == \E k \in {"auth", "refresh"} :
  /\ tasks[k].step = "loading" /\ holder # Nobody
  /\ tasks' = [tasks EXCEPT ![k].step = "done", ![k].who = holder]
  /\ UNCHANGED <<screen, holder, epoch, busy, timers, wanted, crossed, ignored, overtaken>>

\* It fails, and the client may have lost the session over it; a login is taken back.
FailBundle == \E k \in {"auth", "refresh"} :
  /\ tasks[k].step = "loading"
  /\ holder' \in IF tasks[k].job = "login" THEN {Nobody} ELSE {holder, Nobody}
  /\ tasks' = Stepped(k, "failed")
  /\ UNCHANGED <<screen, epoch, busy, timers, wanted, crossed, ignored, overtaken>>

\* The data of a page arrive, or an error does; when the account was paused, the client
\* forgets the session it holds.
AnswerPage == \E step \in {"done", "failed"} :
  /\ tasks["page"].step = "asked"
  /\ tasks' = Stepped("page", step)
  /\ holder' \in {holder} \cup {h \in {Nobody} : step = "failed"}
  /\ UNCHANGED <<screen, epoch, busy, timers, wanted, crossed, ignored, overtaken>>

-----------------------------------------------------------------------------
\* Faulty: results are taken whenever they come.
CurrentAlways(kind) == TRUE

\* A result counts when no one has signed in or out since.
StillCurrent(kind) == Current(kind)

\* accept_session: what the task loaded is shown, if the client holds a session.
Accepted(t) == IF holder # Nobody THEN t.who ELSE screen

\* What the window shows after the callback of a task.
ScreenAfter(kind) ==
  LET t == tasks[kind]
  IN CASE kind = "auth" /\ t.step = "done" /\ t.job # "logout" -> Accepted(t)
       [] kind = "auth" /\ t.step = "failed" /\ t.job = "restore" -> Nobody
       [] kind = "refresh" -> IF t.step = "done" THEN Accepted(t) ELSE Nobody
       [] kind = "page" /\ t.step = "failed" /\ holder = Nobody -> Nobody
       [] OTHER -> screen

\* The callbacks of a task, on the GUI thread.
Deliver == \E k \in Kinds :
  /\ tasks[k].step \in {"done", "failed"}
  /\ screen' = IF StillCurrent(k) THEN ScreenAfter(k) ELSE screen
  /\ busy' = IF StillCurrent(k) THEN [busy EXCEPT ![k] = FALSE] ELSE busy
  /\ tasks' = [tasks EXCEPT ![k] = NoTask]
  /\ UNCHANGED <<holder, epoch, timers, wanted, crossed, ignored, overtaken>>

\* A call on the GUI thread itself is refused, and so is the refresh it makes.
LoseSession == /\ screen # Nobody /\ holder # Nobody /\ ~LockTaken
               /\ holder' = Nobody /\ screen' = Nobody
               /\ UNCHANGED <<epoch, busy, tasks, timers, wanted, crossed, ignored, overtaken>>

DesktopNext == \/ ClickLogin \/ ClickLogout \/ ClickChangePassword \/ FireTimer \/ LoadPage
               \/ InstallSignIn \/ RefuseSignIn \/ ChangePassword \/ ForgetSession
               \/ BeginRenewal \/ InstallRenewal \/ RefuseRenewal \/ LoadBundle \/ FailBundle
               \/ AnswerPage \/ Deliver \/ LoseSession
DesktopSpec == DesktopInit /\ [][DesktopNext]_desktopVars

-----------------------------------------------------------------------------
(* The state is what the window, the client and the tasks can hold. *)
DesktopTypeOK ==
  /\ screen \in Somebody /\ holder \in Somebody /\ epoch \in 0..MaxEpochs
  /\ busy \in [Kinds -> BOOLEAN] /\ tasks \in [Kinds -> Task \cup {NoTask}]
  /\ timers \in 0..MaxTimers /\ wanted \in {"in", "out"} /\ overtaken \subseteq Kinds
  /\ crossed \in BOOLEAN /\ ignored \in BOOLEAN

(* The window never shows one person's session while the client calls the server with *)
(* another's, unless a refresh ran across a signing in or out (accept_session). *)
ScreenMatchesClient == screen # Nobody /\ holder # Nobody /\ ~crossed => screen = holder

(* Who signed out stays signed out, unless a refresh ran across it, or the click was ignored *)
(* because a task was signing in or changing the password (start_auth_task). *)
SignedOutStays == wanted = "out" /\ ~crossed /\ ~ignored => screen = Nobody

(* What is busy has a task that is going to end it, unless someone signed in or out while it *)
(* ran: then the timer, or the controls of the page, stay off until the program is restarted. *)
BusyEnds == \A k \in Kinds : busy[k] /\ tasks[k] = NoTask => k \in overtaken

(* The window, the client and the tasks agree, but for the named exceptions. *)
DesktopSound == ScreenMatchesClient /\ SignedOutStays /\ BusyEnds
=============================================================================
