------------------------------- MODULE SyncRuns -------------------------------
(***************************************************************************)
(* The durable queue of WooCommerce synchronisation runs of one company    *)
(* (sync_run_logs) and the background workers that drain it.               *)
(*                                                                         *)
(* A worker's cycle (run_once) reads the runs whose lease ran out, and in  *)
(* a later statement of the same READ COMMITTED transaction writes them    *)
(* back as queued, schedules a run for pending outbox work and claims the  *)
(* oldest due run.  What it read is `seen'; between that read and the      *)
(* write other transactions commit.  While it executes a run it keeps the  *)
(* row it claimed in its session, which is never refreshed: an attribute   *)
(* is written back only when it differs from the value cached at the claim *)
(* (`held'), and conditions on the row look at the cache.                  *)
(*                                                                         *)
(* What a run does to products, orders and stock is not modelled here, and *)
(* neither is the recovery of outbox records.  A row's id is its place in  *)
(* rows, which is also the order of started_at.                            *)
(***************************************************************************)
EXTENDS Naturals, Sequences

CONSTANTS Workers,      \* the worker processes
          NoWorker,     \* worker_id is NULL
          MaxRuns,      \* bound: how many runs are ever enqueued
          MaxRunAttempts,  \* RATE_LIMIT_MAX_RUN_ATTEMPTS
          MaxCrashes,   \* bound: how often a worker process dies
          MaxStalls     \* bound: how often a lease runs out under a live worker

ASSUME SyncAssumption ==
  /\ NoWorker \notin Workers
  /\ MaxRuns \in Nat /\ MaxCrashes \in Nat /\ MaxStalls \in Nat
  /\ MaxRunAttempts \in Nat \ {0}

VARIABLES rows,     \* the table sync_run_logs
          workers,  \* what each worker process does and remembers
          crashes, stalls  \* how much of the two bounds is used

runVars == <<rows, workers, crashes, stalls>>

-----------------------------------------------------------------------------
ActiveStatuses == {"queued", "running"}
FinishedStatuses == {"success", "failed"}

\* key says whether active_key holds the company's key; waiting, whether
\* next_attempt_at lies in the future.
SyncRunLog == [status: ActiveStatuses \cup FinishedStatuses, key: BOOLEAN,
               worker: Workers \cup {NoWorker}, attempts: Nat,
               lease: {"none", "live", "expired"}, waiting: BOOLEAN]

Idle == [pc |-> "idle"]
Down == [pc |-> "down"]
Planning(seen) == [pc |-> "planning", seen |-> seen]
Executing(run, key, attempts) ==
  [pc |-> "executing", run |-> run, key |-> key, attempts |-> attempts]

Runs == DOMAIN rows
Executors(r) == {w \in Workers : workers[w].pc = "executing" /\ workers[w].run = r}

\* Faulty: the run is created without active_key.
NewRunKeyless == [status |-> "queued", key |-> FALSE, worker |-> NoWorker, attempts |-> 0,
                  lease |-> "none", waiting |-> FALSE]

NewRun == [status |-> "queued", key |-> TRUE, worker |-> NoWorker, attempts |-> 0,
           lease |-> "none", waiting |-> FALSE]

\* Faulty: only rows without a lease count as abandoned.
StaleWithoutLease(row) == row.status = "running" /\ row.lease = "none"

\* Faulty: a finished run looks abandoned too.
StaleAnyStatus(row) == row.status # "queued" /\ row.lease # "live"

\* A run looks abandoned when its lease is gone.
Stale(row) == row.status = "running" /\ row.lease # "live"

\* active_key is unique: a transaction that would hold it twice is refused.
KeyHolders(table) == {r \in DOMAIN table : table[r].key}
Unique(table) == \A q, r \in KeyHolders(table) : q = r

\* The recovered rows as they are flushed: active_key is written only when
\* the cached row had none.
RecoveredRuns(seen) ==
  [r \in Runs |->
     IF \E s \in seen : s.run = r
     THEN [rows[r] EXCEPT !.status = "queued", !.worker = NoWorker, !.lease = "none",
                          !.key = @ \/ [run |-> r, key |-> FALSE] \in seen]
     ELSE rows[r]]

\* enqueue_woocommerce_sync_run: the active run with the key is reused.
HasActiveRun(table) ==
  \E r \in DOMAIN table : table[r].key /\ table[r].status \in ActiveStatuses

\* The worker schedules one run for pending outbox work.  An insert refused
\* by the unique key rolls the whole transaction back, recovery included.
Scheduled(seen, due) ==
  IF ~due \/ HasActiveRun(RecoveredRuns(seen)) THEN RecoveredRuns(seen)
  ELSE IF KeyHolders(RecoveredRuns(seen)) # {} THEN rows
  ELSE Append(RecoveredRuns(seen), NewRun)

Claimable(table) == {r \in DOMAIN table : table[r].status = "queued" /\ ~table[r].waiting}
Oldest(S) == {r \in S : \A s \in S : r <= s}

\* Faulty: claiming a run does not write its lease.
ClaimedWithoutLease(row, w) ==
  [row EXCEPT !.status = "running", !.worker = w, !.attempts = @ + 1, !.waiting = FALSE]

Claimed(row, w) == [row EXCEPT !.status = "running", !.worker = w, !.attempts = @ + 1,
                               !.lease = "live", !.waiting = FALSE]

-----------------------------------------------------------------------------
RunsInit == /\ rows = <<>>
        /\ workers = [w \in Workers |-> Idle]
        /\ crashes = 0 /\ stalls = 0

\* A request of the API or the desktop enqueues a run.
EnqueueRun ==
  /\ Len(rows) < MaxRuns
  /\ ~HasActiveRun(rows) /\ KeyHolders(rows) = {}
  /\ rows' = Append(rows, NewRun)
  /\ UNCHANGED <<workers, crashes, stalls>>

\* The cycle starts by reading the runs that look abandoned.
ReadStale(w) ==
  /\ workers[w].pc = "idle"
  /\ workers' = [workers EXCEPT ![w] =
       Planning({[run |-> r, key |-> rows[r].key] : r \in {q \in Runs : Stale(rows[q])}})]
  /\ UNCHANGED <<rows, crashes, stalls>>

\* Writing a recovered run's key collides with another run: the cycle fails.
AbortCycle(w) ==
  /\ workers[w].pc = "planning"
  /\ ~Unique(RecoveredRuns(workers[w].seen))
  /\ workers' = [workers EXCEPT ![w] = Idle]
  /\ UNCHANGED <<rows, crashes, stalls>>

\* Recover, schedule outbox work, claim the oldest due run, commit.
Schedule(w) ==
  /\ workers[w].pc = "planning"
  /\ Unique(RecoveredRuns(workers[w].seen))
  /\ \E due \in IF Len(rows) < MaxRuns THEN BOOLEAN ELSE {FALSE} :
       LET table == Scheduled(workers[w].seen, due)
       IN \/ /\ Claimable(table) = {}
             /\ rows' = table
             /\ workers' = [workers EXCEPT ![w] = Idle]
          \/ \E next \in Oldest(Claimable(table)) :
             /\ rows' = [table EXCEPT ![next] = Claimed(@, w)]
             /\ workers' = [workers EXCEPT ![w] =
                  Executing(next, table[next].key, table[next].attempts + 1)]
  /\ UNCHANGED <<crashes, stalls>>

\* A checkpoint of the run renews the lease; the cached status stays "running".
Checkpoint(w) ==
  /\ workers[w].pc = "executing"
  /\ rows' = [rows EXCEPT ![workers[w].run].lease = "live"]
  /\ UNCHANGED <<workers, crashes, stalls>>

\* Faulty: the worker that finishes a run leaves active_key behind.
KeyKept(held, row) == row

\* The row with active_key cleared, which is written only when it was cached set.
KeyCleared(held, row) == [row EXCEPT !.key = @ /\ ~held.key]

\* Faulty: a status the schema does not know.
FinishedUnknown(held, row, status) ==
  [KeyCleared(held, row) EXCEPT !.status = "completed", !.lease = "none"]

Finished(held, row, status) ==
  [KeyCleared(held, row) EXCEPT !.status = status, !.lease = "none"]

\* The run is over, with or without outbound work left unresolved.
FinishRun(w) ==
  /\ workers[w].pc = "executing"
  /\ \E status \in FinishedStatuses :
       rows' = [rows EXCEPT ![workers[w].run] = Finished(workers[w], @, status)]
  /\ workers' = [workers EXCEPT ![w] = Idle]
  /\ UNCHANGED <<crashes, stalls>>

\* Faulty: one attempt too many.
MayRetryOffByOne(held) == held.attempts <= MaxRunAttempts

MayRetry(held) == held.attempts < MaxRunAttempts

\* The store refuses further requests for now: the run is queued again.
RateLimitRun(w) ==
  /\ workers[w].pc = "executing"
  /\ MayRetry(workers[w])
  /\ rows' = [rows EXCEPT ![workers[w].run] =
                [@ EXCEPT !.status = "queued", !.lease = "none", !.worker = NoWorker,
                          !.waiting = TRUE]]
  /\ workers' = [workers EXCEPT ![w] = Idle]
  /\ UNCHANGED <<crashes, stalls>>

\* It was refused too often: the run has failed.  Its lease stays.
GiveUpRun(w) ==
  /\ workers[w].pc = "executing"
  /\ ~MayRetry(workers[w])
  /\ rows' = [rows EXCEPT ![workers[w].run] =
                [KeyCleared(workers[w], @) EXCEPT !.status = "failed"]]
  /\ workers' = [workers EXCEPT ![w] = Idle]
  /\ UNCHANGED <<crashes, stalls>>

\* Any other error: the session is rolled back and the row read anew.
FailRun(w) ==
  /\ workers[w].pc = "executing"
  /\ rows' = [rows EXCEPT ![workers[w].run] =
                [@ EXCEPT !.status = "failed", !.lease = "none", !.waiting = FALSE,
                          !.key = FALSE]]
  /\ workers' = [workers EXCEPT ![w] = Idle]
  /\ UNCHANGED <<crashes, stalls>>

EndRun(w) == FinishRun(w) \/ RateLimitRun(w) \/ GiveUpRun(w) \/ FailRun(w)

-----------------------------------------------------------------------------
\* The environment: processes die and are started again, time passes.

\* The process dies, or the commit that should end the run fails.
Crash(w) ==
  /\ workers[w].pc # "down"
  /\ crashes < MaxCrashes
  /\ crashes' = crashes + 1
  /\ workers' = [workers EXCEPT ![w] = Down]
  /\ UNCHANGED <<rows, stalls>>

Restart(w) ==
  /\ workers[w].pc = "down"
  /\ workers' = [workers EXCEPT ![w] = Idle]
  /\ UNCHANGED <<rows, crashes, stalls>>

\* SYNC_JOB_LEASE_SECONDS pass and nobody is there to renew the lease.
LeaseRunsOut(r) ==
  /\ rows[r].lease = "live" /\ Executors(r) = {}
  /\ rows' = [rows EXCEPT ![r].lease = "expired"]
  /\ UNCHANGED <<workers, crashes, stalls>>

\* They pass between two checkpoints of a worker that is still at it.
Stall(r) ==
  /\ rows[r].lease = "live" /\ Executors(r) # {}
  /\ stalls < MaxStalls
  /\ stalls' = stalls + 1
  /\ rows' = [rows EXCEPT ![r].lease = "expired"]
  /\ UNCHANGED <<workers, crashes>>

RunRetryDue(r) ==
  /\ rows[r].waiting
  /\ rows' = [rows EXCEPT ![r].waiting = FALSE]
  /\ UNCHANGED <<workers, crashes, stalls>>

Cycle(w) == ReadStale(w) \/ AbortCycle(w) \/ Schedule(w)

RunsNext ==
  \/ EnqueueRun
  \/ \E w \in Workers : Cycle(w) \/ Checkpoint(w) \/ EndRun(w) \/ Crash(w) \/ Restart(w)
  \/ \E r \in Runs : LeaseRunsOut(r) \/ Stall(r) \/ RunRetryDue(r)

\* run_loop calls run_once for ever, a run's remote work comes to an end, the
\* service manager starts a dead worker again, and time passes.
Fairness ==
  /\ \A w \in Workers : WF_runVars(Cycle(w)) /\ WF_runVars(EndRun(w)) /\ WF_runVars(Restart(w))
  /\ \A r \in 1..MaxRuns : /\ WF_runVars(r \in Runs /\ LeaseRunsOut(r))
                           /\ WF_runVars(r \in Runs /\ RunRetryDue(r))

RunsSpec == RunsInit /\ [][RunsNext]_runVars
RunsFairSpec == RunsSpec /\ Fairness

-----------------------------------------------------------------------------
\* Types: the table holds runs, and a worker's memory names one of them.
RunsTypeOK ==
  /\ rows \in Seq(SyncRunLog) /\ Len(rows) <= MaxRuns
  /\ workers \in [Workers ->
       {Idle, Down}
         \cup [pc: {"planning"}, seen: SUBSET [run: 1..Len(rows), key: BOOLEAN]]
         \cup [pc: {"executing"}, run: 1..Len(rows), key: BOOLEAN, attempts: Nat]]
  /\ crashes \in 0..MaxCrashes /\ stalls \in 0..MaxStalls

\* active_key is populated exactly while a run is queued or running, so the
\* unique key admits one active run of the company (db/models.py:1258).
KeyMatchesStatus == \A r \in Runs : rows[r].key <=> rows[r].status \in ActiveStatuses

\* No worker has died and none has let a lease run out.
Undisturbed == crashes = 0 /\ stalls = 0

\* One worker at a time talks to the company's store: that is what the
\* company-wide key is for (woocommerce_services.py:2630).  A lease that runs
\* out, of a dead worker or of a slow one, ends that: see ClaimedOnce.
ExclusiveSync ==
  Undisturbed =>
    \A v, w \in Workers :
      workers[v].pc = "executing" /\ workers[w].pc = "executing" => v = w

\* No run is executed by two workers (woocommerce_services.py:2788).
ClaimedOnce == \A r \in Runs : \A v, w \in Executors(r) : v = w

\* Whoever executes a run holds its row, as long as no lease runs out: it is
\* running, under that worker's name, with the attempt counter and the key the
\* worker remembers.
ExecutorHoldsRow ==
  Undisturbed => \A w \in Workers : workers[w].pc = "executing" =>
    LET row == rows[workers[w].run]
    IN /\ row.status = "running" /\ row.worker = w
       /\ row.attempts = workers[w].attempts /\ row.key = workers[w].key

\* A run a store keeps refusing is given up after MaxRunAttempts claims; only a
\* recovery after a crash adds one more.
AttemptsBounded == \A r \in Runs : rows[r].attempts <= MaxRunAttempts + crashes

\* The key that keeps a second run out is held as long as a run is active and
\* no longer (claim_next_woocommerce_sync_run,
\* recover_stale_woocommerce_sync_records), and no run is claimed without end.
RunsAccounted == KeyMatchesStatus /\ AttemptsBounded

\* The outcome of a finished run is never overwritten.
FinishedIsFinal ==
  [][\A r \in Runs : rows[r].status \in FinishedStatuses
                       => rows'[r].status = rows[r].status]_runVars

\* Every run that is enqueued is executed to its end, whatever crashes.
EveryRunEnds ==
  \A r \in 1..MaxRuns :
    (r \in Runs /\ rows[r].status = "queued")
      ~> (r \in Runs /\ rows[r].status \in FinishedStatuses)

=============================================================================
