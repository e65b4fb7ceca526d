------------------------------ MODULE SyncProofs ------------------------------
(***************************************************************************)
(* Theorems of SyncRuns, for every number of workers and runs: types, and  *)
(* the company-wide exclusion of runs as long as no lease runs out.        *)
(*                                                                         *)
(* ExclusiveSync is not inductive: the exclusion comes from the unique     *)
(* active_key, so the invariant must say that an executing worker's row    *)
(* still holds the key, that rows with the key are the active ones, and    *)
(* that nothing a worker has read looked abandoned, or else a recovery     *)
(* could hand a run to a second worker.                                    *)
(*                                                                         *)
(* Theorems of SyncOutbox, for any number of products, contents, edits,    *)
(* listings and faults: types; that the store never goes back to an older  *)
(* edit of a product, whatever breaks off and is repeated; and that what   *)
(* it holds besides the listings the ERP knows comes of what broke off.    *)
(*                                                                         *)
(* Why it does not go back: only one push of a product is under way at a   *)
(* time, it is built from the product as it is then, and whatever the      *)
(* worker knows the store's ids by, mapping or search, is a listing of     *)
(* that product.                                                           *)
(*                                                                         *)
(* Why nothing is created twice: a push goes to the listing the mapping    *)
(* knows while it is there, so only a crash after the answer and an answer *)
(* that is lost leave one behind; and the attempt a product's first push   *)
(* used up is never given back before the mapping knows what it made, so   *)
(* the retry looks for it.                                                 *)
(*                                                                         *)
(* Theorems of PushOutbox, for any number of devices, riders, changes and  *)
(* deaths of the worker: types, and what the devices were shown of what    *)
(* the table says.                                                         *)
(***************************************************************************)
EXTENDS SyncRuns, SyncOutbox, PushOutbox, SequenceTheorems, FiniteSetTheorems,
        WellFoundedInduction, TLAPS

\* What a worker remembers when the table has n rows.
Memory(n) ==
  {Idle, Down}
    \cup [pc: {"planning"}, seen: SUBSET [run: 1..n, key: BOOLEAN]]
    \cup [pc: {"executing"}, run: 1..n, key: BOOLEAN, attempts: Nat]

\* A table of runs and what the workers remember of it, while no lease has
\* run out under anybody.
Quiet(table, mem) ==
  /\ \A w \in Workers : mem[w].pc = "planning" => mem[w].seen = {}
  /\ \A w \in Workers : mem[w].pc = "executing" =>
       /\ mem[w].run \in DOMAIN table
       /\ mem[w].key
       /\ table[mem[w].run].status = "running"
       /\ table[mem[w].run].worker = w
       /\ table[mem[w].run].attempts = mem[w].attempts
  /\ \A r \in DOMAIN table : table[r].key <=> table[r].status \in ActiveStatuses
  /\ Unique(table)
  /\ \A r \in DOMAIN table : table[r].status = "running" =>
       /\ table[r].lease = "live"
       /\ \E w \in Workers : mem[w].pc = "executing" /\ mem[w].run = r

\* The inductive invariant.
SyncInv == RunsTypeOK /\ (Undisturbed => Quiet(rows, workers))

--------------------
(* Types. *)

\* A worker that executes or plans has the memory of one that does.
LEMMA MemoryCases ==
  ASSUME NEW n \in Nat, NEW m \in Memory(n)
  PROVE  /\ m.pc = "planning" => m.seen \in SUBSET [run: 1..n, key: BOOLEAN]
         /\ m.pc = "executing" => /\ m.run \in 1..n /\ m.key \in BOOLEAN
                                  /\ m.attempts \in Nat
         /\ m.pc = "idle" => m = Idle
<1>1. CASE m \in {Idle, Down} BY <1>1 DEF Idle, Down
<1>2. CASE m \in [pc: {"planning"}, seen: SUBSET [run: 1..n, key: BOOLEAN]] BY <1>2
<1>3. CASE m \in [pc: {"executing"}, run: 1..n, key: BOOLEAN, attempts: Nat] BY <1>3
<1> QED BY <1>1, <1>2, <1>3 DEF Memory

\* The table never shrinks, so memories stay meaningful.
LEMMA MemoryGrows ==
  ASSUME NEW n \in Nat, NEW k \in Nat, n <= k
  PROVE  Memory(n) \subseteq Memory(k)
<1>1. 1..n \subseteq 1..k OBVIOUS
<1>2. [run: 1..n, key: BOOLEAN] \subseteq [run: 1..k, key: BOOLEAN] BY <1>1
<1>3. [pc: {"planning"}, seen: SUBSET [run: 1..n, key: BOOLEAN]]
        \subseteq [pc: {"planning"}, seen: SUBSET [run: 1..k, key: BOOLEAN]]
  BY <1>2
<1>4. [pc: {"executing"}, run: 1..n, key: BOOLEAN, attempts: Nat]
        \subseteq [pc: {"executing"}, run: 1..k, key: BOOLEAN, attempts: Nat]
  BY <1>1
<1> QED BY <1>3, <1>4 DEF Memory

\* RunsTypeOK, with the memories named.
LEMMA TypeOKDef ==
  RunsTypeOK <=> /\ rows \in Seq(SyncRunLog) /\ Len(rows) <= MaxRuns
             /\ workers \in [Workers -> Memory(Len(rows))]
             /\ crashes \in 0..MaxCrashes /\ stalls \in 0..MaxStalls
BY DEF RunsTypeOK, Memory

\* The same of the next state.
LEMMA TypeOKNext ==
  RunsTypeOK' <=> /\ rows' \in Seq(SyncRunLog) /\ Len(rows') <= MaxRuns
              /\ workers' \in [Workers -> Memory(Len(rows'))]
              /\ crashes' \in 0..MaxCrashes /\ stalls' \in 0..MaxStalls
BY DEF RunsTypeOK, Memory

\* A table with a run appended.
LEMMA Appended ==
  ASSUME NEW table \in Seq(SyncRunLog)
  PROVE  /\ Append(table, NewRun) \in Seq(SyncRunLog)
         /\ Len(Append(table, NewRun)) = Len(table) + 1
         /\ DOMAIN Append(table, NewRun) = 1..(Len(table) + 1)
         /\ \A r \in DOMAIN table : Append(table, NewRun)[r] = table[r]
         /\ Append(table, NewRun)[Len(table) + 1] = NewRun
<1>1. NewRun \in SyncRunLog BY DEF NewRun, SyncRunLog, ActiveStatuses
<1> QED BY <1>1, AppendProperties, LenProperties

\* A table with one row replaced.
LEMMA Updated ==
  ASSUME NEW table \in Seq(SyncRunLog), NEW r \in DOMAIN table, NEW row \in SyncRunLog
  PROVE  /\ [table EXCEPT ![r] = row] \in Seq(SyncRunLog)
         /\ Len([table EXCEPT ![r] = row]) = Len(table)
         /\ DOMAIN [table EXCEPT ![r] = row] = DOMAIN table
         /\ \A q \in DOMAIN table : [table EXCEPT ![r] = row][q] = IF q = r THEN row ELSE table[q]
<1>1. DOMAIN table = 1..Len(table) BY LenProperties
<1> QED BY <1>1, ExceptSeq

\* What a recovery writes to a row is a row.
LEMMA RequeuedType ==
  ASSUME NEW row \in SyncRunLog, NEW k \in BOOLEAN
  PROVE  [row EXCEPT !.status = "queued", !.worker = NoWorker, !.lease = "none", !.key = k]
           \in SyncRunLog
BY DEF SyncRunLog, ActiveStatuses

\* A recovered table has the same rows, as far as types go.
LEMMA RecoveredType ==
  ASSUME rows \in Seq(SyncRunLog), NEW seen
  PROVE  /\ RecoveredRuns(seen) \in Seq(SyncRunLog)
         /\ Len(RecoveredRuns(seen)) = Len(rows)
<1> DEFINE t == RecoveredRuns(seen)
<1>1. Len(rows) \in Nat /\ DOMAIN rows = 1..Len(rows) BY LenProperties
<1>2. \A r \in Runs : rows[r] \in SyncRunLog BY <1>1, ElementOfSeq DEF Runs
<1>3. \A r \in Runs : t[r] \in SyncRunLog
  <2> SUFFICES ASSUME NEW r \in Runs PROVE t[r] \in SyncRunLog OBVIOUS
  <2> DEFINE k == rows[r].key \/ [run |-> r, key |-> FALSE] \in seen
  <2>1. k \in BOOLEAN OBVIOUS
  <2>2. [rows[r] EXCEPT !.status = "queued", !.worker = NoWorker, !.lease = "none", !.key = k]
          \in SyncRunLog
    <3> HIDE DEF k
    <3> QED BY <1>2, <2>1, RequeuedType
  <2>3. t[r] = IF \E s \in seen : s.run = r
               THEN [rows[r] EXCEPT !.status = "queued", !.worker = NoWorker, !.lease = "none",
                                    !.key = k]
               ELSE rows[r]
    BY Zenon DEF RecoveredRuns
  <2> QED BY <1>2, <2>2, <2>3, Zenon
<1>4. DOMAIN t = 1..Len(rows) BY <1>1 DEF RecoveredRuns, Runs
<1>5. t \in [1..Len(rows) -> SyncRunLog] BY <1>1, <1>3, <1>4 DEF RecoveredRuns, Runs
<1>6. t \in Seq(SyncRunLog) BY <1>1, <1>5, SeqDef
<1>7. Len(t) \in Nat /\ DOMAIN t = 1..Len(t) BY <1>6, LenProperties
<1>8. Len(t) = Len(rows)
  <2> HIDE DEF t
  <2> QED BY <1>1, <1>4, <1>7
<1> QED BY <1>6, <1>8

\* The table after scheduling is a table, longer by one run at most, and only
\* if the bound allows it.
LEMMA ScheduledType ==
  ASSUME rows \in Seq(SyncRunLog), NEW seen, NEW due \in BOOLEAN
  PROVE  /\ Scheduled(seen, due) \in Seq(SyncRunLog)
         /\ Len(rows) <= Len(Scheduled(seen, due))
         /\ Len(Scheduled(seen, due)) <= Len(rows) + (IF due THEN 1 ELSE 0)
<1>1. Len(rows) \in Nat BY LenProperties
<1>2. CASE ~due \/ HasActiveRun(RecoveredRuns(seen)) BY <1>1, <1>2, RecoveredType DEF Scheduled
<1>3. CASE /\ ~(~due \/ HasActiveRun(RecoveredRuns(seen)))
           /\ KeyHolders(RecoveredRuns(seen)) # {}
  BY <1>1, <1>3 DEF Scheduled
<1>4. CASE /\ ~(~due \/ HasActiveRun(RecoveredRuns(seen)))
           /\ KeyHolders(RecoveredRuns(seen)) = {}
  BY <1>1, <1>4, RecoveredType, Appended DEF Scheduled
<1> QED BY <1>2, <1>3, <1>4

\* What a claim writes to a row.
LEMMA ClaimedType ==
  ASSUME NEW row \in SyncRunLog, NEW w \in Workers
  PROVE  /\ Claimed(row, w) \in SyncRunLog
         /\ Claimed(row, w).status = "running" /\ Claimed(row, w).worker = w
         /\ Claimed(row, w).key = row.key /\ Claimed(row, w).lease = "live"
         /\ Claimed(row, w).attempts = row.attempts + 1 /\ row.attempts + 1 \in Nat
<1> DEFINE n == row.attempts + 1
           new == [row EXCEPT !.status = "running", !.worker = w, !.attempts = n,
                              !.lease = "live", !.waiting = FALSE]
<1>1. n \in Nat BY DEF SyncRunLog
<1>2. Claimed(row, w) = new BY DEF Claimed
<1> HIDE DEF n
<1>3. /\ new \in SyncRunLog /\ new.status = "running" /\ new.worker = w /\ new.key = row.key
      /\ new.lease = "live" /\ new.attempts = n
  BY <1>1 DEF SyncRunLog, ActiveStatuses
<1> QED BY <1>1, <1>2, <1>3 DEF n

\* A step that replaces one row, lets at most one worker forget what it did and
\* leaves the counters within their bounds keeps the types.
LEMMA RowStepType ==
  ASSUME RunsTypeOK, NEW r \in Runs, NEW row \in SyncRunLog,
         rows' = [rows EXCEPT ![r] = row],
         \/ workers' = workers
         \/ \E w \in Workers : workers' = [workers EXCEPT ![w] = Idle],
         crashes' = crashes, stalls' \in 0..MaxStalls
  PROVE  RunsTypeOK'
<1>1. rows' \in Seq(SyncRunLog) /\ Len(rows') = Len(rows) BY TypeOKDef, Updated DEF Runs
<1>2. Idle \in Memory(Len(rows)) BY DEF Memory
<1>3. workers' \in [Workers -> Memory(Len(rows))] BY <1>2, TypeOKDef
<1> QED BY <1>1, <1>3, TypeOKDef, TypeOKNext

\* However a run ends, its row becomes one that is not running any more, and a
\* worker that held the key gives it back exactly if the run is over.
LEMMA EndedRow ==
  ASSUME RunsTypeOK, NEW w \in Workers, EndRun(w)
  PROVE  /\ workers[w].pc = "executing"
         /\ workers[w].run \in Runs
         /\ workers' = [workers EXCEPT ![w] = Idle]
         /\ UNCHANGED <<crashes, stalls>>
         /\ \E row \in SyncRunLog :
              /\ rows' = [rows EXCEPT ![workers[w].run] = row]
              /\ row.status # "running"
              /\ workers[w].key /\ rows[workers[w].run].key =>
                   (row.key <=> row.status \in ActiveStatuses)
<1> DEFINE r == workers[w].run
           old == rows[r]
<1>1. workers[w].pc = "executing" /\ workers' = [workers EXCEPT ![w] = Idle]
      /\ UNCHANGED <<crashes, stalls>>
  BY DEF EndRun, FinishRun, RateLimitRun, GiveUpRun, FailRun
<1>2. Len(rows) \in Nat /\ DOMAIN rows = 1..Len(rows) BY TypeOKDef, LenProperties
<1>3. r \in Runs /\ workers[w].key \in BOOLEAN BY <1>1, <1>2, TypeOKDef, MemoryCases DEF Runs
<1>4. old \in SyncRunLog BY <1>2, <1>3, TypeOKDef, ElementOfSeq DEF Runs
<1>5. CASE FinishRun(w)
  <2>1. PICK status \in FinishedStatuses :
          rows' = [rows EXCEPT ![r] = Finished(workers[w], old, status)]
    BY <1>5 DEF FinishRun
  <2>2. /\ Finished(workers[w], old, status) \in SyncRunLog
        /\ Finished(workers[w], old, status).status = status
        /\ Finished(workers[w], old, status).key <=> (old.key /\ ~workers[w].key)
    <3> DEFINE k == old.key /\ ~workers[w].key
    <3>1. k \in BOOLEAN OBVIOUS
    <3>2. Finished(workers[w], old, status) =
            [[old EXCEPT !.key = k] EXCEPT !.status = status, !.lease = "none"]
      BY Zenon DEF Finished, KeyCleared
    <3> HIDE DEF k, old
    <3>3. /\ [[old EXCEPT !.key = k] EXCEPT !.status = status, !.lease = "none"] \in SyncRunLog
          /\ [[old EXCEPT !.key = k] EXCEPT !.status = status, !.lease = "none"].status = status
          /\ [[old EXCEPT !.key = k] EXCEPT !.status = status, !.lease = "none"].key = k
      BY <1>4, <3>1 DEF SyncRunLog, ActiveStatuses, FinishedStatuses
    <3>4. k <=> (old.key /\ ~workers[w].key) BY Zenon DEF k, old
    <3> QED BY <3>2, <3>3, <3>4, Zenon
  <2>3. status # "running" /\ status \notin ActiveStatuses BY DEF FinishedStatuses, ActiveStatuses
  <2> QED BY <1>1, <1>3, <2>1, <2>2, <2>3
<1>6. CASE RateLimitRun(w)
  <2> DEFINE row == [old EXCEPT !.status = "queued", !.lease = "none", !.worker = NoWorker,
                                !.waiting = TRUE]
  <2>1. rows' = [rows EXCEPT ![r] = row] BY <1>6 DEF RateLimitRun
  <2>2. row \in SyncRunLog /\ row.status = "queued" /\ row.key = old.key
    BY <1>4 DEF SyncRunLog, ActiveStatuses
  <2> HIDE DEF row, old
  <2>3. old.key => (row.key <=> row.status \in ActiveStatuses) BY <2>2 DEF ActiveStatuses
  <2> QED BY <1>1, <1>3, <2>1, <2>2, <2>3 DEF old
<1>7. CASE GiveUpRun(w)
  <2> DEFINE k == old.key /\ ~workers[w].key
             row == [[old EXCEPT !.key = k] EXCEPT !.status = "failed"]
  <2>1. rows' = [rows EXCEPT ![r] = row] BY <1>7, Zenon DEF GiveUpRun, KeyCleared
  <2>2. k \in BOOLEAN /\ (workers[w].key => ~k) OBVIOUS
  <2> HIDE DEF k, old
  <2>3. row \in SyncRunLog /\ row.status = "failed" /\ row.key = k
    BY <1>4, <2>2 DEF SyncRunLog, ActiveStatuses, FinishedStatuses
  <2> HIDE DEF row
  <2>4. workers[w].key => (row.key <=> row.status \in ActiveStatuses)
    BY <2>2, <2>3 DEF ActiveStatuses
  <2>5. row.status # "running" BY <2>3
  <2> QED BY <1>1, <1>3, <2>1, <2>3, <2>4, <2>5, Zenon
<1>8. CASE FailRun(w)
  <2> DEFINE row == [old EXCEPT !.status = "failed", !.lease = "none", !.waiting = FALSE,
                                !.key = FALSE]
  <2>1. rows' = [rows EXCEPT ![r] = row] BY <1>8 DEF FailRun
  <2>2. row \in SyncRunLog /\ row.status = "failed" /\ row.key = FALSE
    BY <1>4 DEF SyncRunLog, ActiveStatuses, FinishedStatuses
  <2> HIDE DEF row
  <2>3. row.status # "running" /\ (row.key <=> row.status \in ActiveStatuses)
    BY <2>2 DEF ActiveStatuses
  <2> QED BY <1>1, <1>3, <2>1, <2>2, <2>3
<1> QED BY <1>5, <1>6, <1>7, <1>8 DEF EndRun

\* A step that writes only the lease and the retry time of one row.
LeaseWritten(r, row) ==
  /\ rows' = [rows EXCEPT ![r] = row]
  /\ row \in SyncRunLog
  /\ row.status = rows[r].status /\ row.key = rows[r].key
  /\ row.worker = rows[r].worker /\ row.attempts = rows[r].attempts

\* Checkpoints, time and retries write no more than that, and they leave a
\* running row whose lease is live alone unless nobody executes it.
LEMMA LeaseSteps ==
  ASSUME RunsTypeOK, NEW r \in Runs,
         \/ \E w \in Workers : Checkpoint(w) /\ r = workers[w].run
         \/ LeaseRunsOut(r) \/ Stall(r) \/ RunRetryDue(r)
  PROVE  \E row : /\ LeaseWritten(r, row)
                  /\ workers' = workers /\ crashes' = crashes /\ stalls' \in 0..MaxStalls
                  /\ Undisturbed' => /\ Undisturbed
                                     /\ \/ row.lease = rows[r].lease
                                        \/ row.lease = "live"
                                        \/ Executors(r) = {}
<1>1. rows[r] \in SyncRunLog BY TypeOKDef, LenProperties, ElementOfSeq DEF Runs
<1>2. crashes \in Nat /\ stalls \in Nat /\ stalls \in 0..MaxStalls BY TypeOKDef, SyncAssumption
<1> DEFINE leased(l) == [rows[r] EXCEPT !.lease = l]
           due == [rows[r] EXCEPT !.waiting = FALSE]
<1>3. \A l \in {"live", "expired"} :
        /\ leased(l) \in SyncRunLog /\ leased(l).lease = l
        /\ leased(l).status = rows[r].status /\ leased(l).key = rows[r].key
        /\ leased(l).worker = rows[r].worker /\ leased(l).attempts = rows[r].attempts
  BY <1>1 DEF SyncRunLog, ActiveStatuses, FinishedStatuses
<1>4. /\ due \in SyncRunLog /\ due.lease = rows[r].lease
      /\ due.status = rows[r].status /\ due.key = rows[r].key
      /\ due.worker = rows[r].worker /\ due.attempts = rows[r].attempts
  BY <1>1 DEF SyncRunLog, ActiveStatuses, FinishedStatuses
<1>5. CASE \E w \in Workers : Checkpoint(w) /\ r = workers[w].run
  <2>1. /\ rows' = [rows EXCEPT ![r] = leased("live")]
        /\ workers' = workers /\ crashes' = crashes /\ stalls' = stalls
    BY <1>5 DEF Checkpoint
  <2> HIDE DEF leased
  <2> QED BY <1>2, <1>3, <2>1 DEF LeaseWritten, Undisturbed
<1>6. CASE LeaseRunsOut(r)
  <2>1. /\ rows' = [rows EXCEPT ![r] = leased("expired")] /\ Executors(r) = {}
        /\ workers' = workers /\ crashes' = crashes /\ stalls' = stalls
    BY <1>6 DEF LeaseRunsOut
  <2> HIDE DEF leased
  <2> QED BY <1>2, <1>3, <2>1 DEF LeaseWritten, Undisturbed
<1>7. CASE Stall(r)
  <2>1. /\ rows' = [rows EXCEPT ![r] = leased("expired")]
        /\ workers' = workers /\ crashes' = crashes
        /\ stalls < MaxStalls /\ stalls' = stalls + 1
    BY <1>7 DEF Stall
  <2>2. stalls' \in 0..MaxStalls /\ ~Undisturbed' BY <1>2, <2>1, SyncAssumption DEF Undisturbed
  <2> HIDE DEF leased
  <2> QED BY <1>3, <2>1, <2>2 DEF LeaseWritten
<1>8. CASE RunRetryDue(r)
  <2>1. /\ rows' = [rows EXCEPT ![r] = due]
        /\ workers' = workers /\ crashes' = crashes /\ stalls' = stalls
    BY <1>8 DEF RunRetryDue
  <2> HIDE DEF due
  <2> QED BY <1>2, <1>4, <2>1 DEF LeaseWritten, Undisturbed
<1> QED BY <1>5, <1>6, <1>7, <1>8

\* A cycle ends with a table that has a new run at most, and with no run or a
\* queued one of that table claimed.
LEMMA ScheduledRows ==
  ASSUME RunsTypeOK, NEW w \in Workers, Schedule(w)
  PROVE  \E due \in BOOLEAN, table \in Seq(SyncRunLog) :
           /\ table = Scheduled(workers[w].seen, due)
           /\ Len(rows) <= Len(table) /\ Len(table) <= MaxRuns
           /\ \/ rows' = table /\ workers' = [workers EXCEPT ![w] = Idle]
              \/ \E r \in DOMAIN table :
                   /\ table[r].status = "queued"
                   /\ rows' = [table EXCEPT ![r] = Claimed(table[r], w)]
                   /\ workers' = [workers EXCEPT ![w] =
                                    Executing(r, table[r].key, table[r].attempts + 1)]
<1>1. PICK due \in IF Len(rows) < MaxRuns THEN BOOLEAN ELSE {FALSE} :
        LET table == Scheduled(workers[w].seen, due)
        IN \/ /\ Claimable(table) = {}
              /\ rows' = table
              /\ workers' = [workers EXCEPT ![w] = Idle]
           \/ \E next \in Oldest(Claimable(table)) :
              /\ rows' = [table EXCEPT ![next] = Claimed(@, w)]
              /\ workers' = [workers EXCEPT ![w] =
                   Executing(next, table[next].key, table[next].attempts + 1)]
  BY DEF Schedule
<1> DEFINE table == Scheduled(workers[w].seen, due)
<1>2. due \in BOOLEAN /\ (due => Len(rows) < MaxRuns) OBVIOUS
<1>3. /\ table \in Seq(SyncRunLog) /\ Len(rows) <= Len(table)
      /\ Len(table) <= Len(rows) + (IF due THEN 1 ELSE 0)
  BY <1>2, TypeOKDef, ScheduledType
<1>4. Len(table) <= MaxRuns
  <2> HIDE DEF table
  <2>1. Len(rows) \in Nat /\ Len(table) \in Nat /\ MaxRuns \in Nat /\ Len(rows) <= MaxRuns
    BY <1>3, TypeOKDef, LenProperties, SyncAssumption
  <2> QED BY <1>2, <1>3, <2>1
<1>5. \A r \in Oldest(Claimable(table)) : r \in DOMAIN table /\ table[r].status = "queued"
  BY DEF Oldest, Claimable
<1> HIDE DEF table
<1>6. \/ rows' = table /\ workers' = [workers EXCEPT ![w] = Idle]
      \/ \E r \in DOMAIN table :
           /\ table[r].status = "queued"
           /\ rows' = [table EXCEPT ![r] = Claimed(table[r], w)]
           /\ workers' = [workers EXCEPT ![w] =
                            Executing(r, table[r].key, table[r].attempts + 1)]
  BY <1>1, <1>5 DEF table
<1> QED BY <1>2, <1>3, <1>4, <1>6 DEF table

\* The initial table is empty.
LEMMA TypeInit == RunsInit => RunsTypeOK
<1> SUFFICES ASSUME RunsInit PROVE RunsTypeOK OBVIOUS
<1>1. rows \in Seq(SyncRunLog) /\ Len(rows) = 0 BY EmptySeq DEF RunsInit
<1>2. workers \in [Workers -> Memory(Len(rows))] BY DEF RunsInit, Memory
<1> QED BY <1>1, <1>2, TypeOKDef, SyncAssumption DEF RunsInit

\* Every step keeps the types.
LEMMA TypeStep == RunsTypeOK /\ [RunsNext]_runVars => RunsTypeOK'
<1> SUFFICES ASSUME RunsTypeOK, [RunsNext]_runVars PROVE RunsTypeOK' OBVIOUS
<1> USE TypeOKDef, TypeOKNext
<1>1. /\ rows \in Seq(SyncRunLog) /\ Len(rows) \in Nat /\ DOMAIN rows = 1..Len(rows)
      /\ Len(rows) <= MaxRuns /\ MaxRuns \in Nat
  BY LenProperties, SyncAssumption
<1>2. Idle \in Memory(Len(rows)) /\ Down \in Memory(Len(rows)) BY DEF Memory
<1>3. CASE EnqueueRun
  <2>1. /\ rows' \in Seq(SyncRunLog) /\ Len(rows') = Len(rows) + 1
        /\ UNCHANGED <<workers, crashes, stalls>> /\ Len(rows) < MaxRuns
    BY <1>1, <1>3, Appended DEF EnqueueRun
  <2>2. Len(rows') \in Nat /\ Len(rows) <= Len(rows') /\ Len(rows') <= MaxRuns BY <1>1, <2>1
  <2>3. Memory(Len(rows)) \subseteq Memory(Len(rows')) BY <1>1, <2>2, MemoryGrows
  <2>4. workers' \in [Workers -> Memory(Len(rows'))] BY <2>1, <2>3
  <2> QED BY <2>1, <2>2, <2>4
<1>4. ASSUME NEW w \in Workers, ReadStale(w) PROVE RunsTypeOK'
  <2> DEFINE seen == {[run |-> r, key |-> rows[r].key] : r \in {q \in Runs : Stale(rows[q])}}
  <2>1. \A r \in Runs : r \in 1..Len(rows) /\ rows[r].key \in BOOLEAN
    <3>1. \A r \in Runs : r \in 1..Len(rows) /\ rows[r] \in SyncRunLog
      BY <1>1, ElementOfSeq DEF Runs
    <3> QED BY <3>1 DEF SyncRunLog
  <2>2. seen \in SUBSET [run: 1..Len(rows), key: BOOLEAN] BY <2>1
  <2>3. workers' = [workers EXCEPT ![w] = Planning(seen)] /\ UNCHANGED <<rows, crashes, stalls>>
    BY <1>4 DEF ReadStale
  <2> HIDE DEF seen
  <2>4. Planning(seen) \in Memory(Len(rows)) BY <2>2 DEF Planning, Memory
  <2> QED BY <2>3, <2>4
<1>5. ASSUME NEW w \in Workers, AbortCycle(w) PROVE RunsTypeOK' BY <1>2, <1>5 DEF AbortCycle
<1>6. ASSUME NEW w \in Workers, Schedule(w) PROVE RunsTypeOK'
  <2>1. PICK due \in BOOLEAN, table \in Seq(SyncRunLog) :
           /\ Len(rows) <= Len(table) /\ Len(table) <= MaxRuns
           /\ \/ rows' = table /\ workers' = [workers EXCEPT ![w] = Idle]
              \/ \E r \in DOMAIN table :
                   /\ table[r].status = "queued"
                   /\ rows' = [table EXCEPT ![r] = Claimed(table[r], w)]
                   /\ workers' = [workers EXCEPT ![w] =
                                    Executing(r, table[r].key, table[r].attempts + 1)]
    BY <1>6, ScheduledRows
  <2>2. Len(table) \in Nat /\ DOMAIN table = 1..Len(table) BY LenProperties
  <2>3. workers \in [Workers -> Memory(Len(table))] /\ Idle \in Memory(Len(table))
    BY <1>1, <1>2, <2>1, <2>2, MemoryGrows
  <2>4. UNCHANGED <<crashes, stalls>> BY <1>6 DEF Schedule
  <2>5. CASE rows' = table /\ workers' = [workers EXCEPT ![w] = Idle] BY <2>1, <2>3, <2>4, <2>5
  <2>6. ASSUME NEW r \in DOMAIN table,
               rows' = [table EXCEPT ![r] = Claimed(table[r], w)],
               workers' = [workers EXCEPT ![w] =
                             Executing(r, table[r].key, table[r].attempts + 1)]
        PROVE  RunsTypeOK'
    <3>1. table[r] \in SyncRunLog BY <2>2, ElementOfSeq
    <3>2. Claimed(table[r], w) \in SyncRunLog /\ table[r].attempts + 1 \in Nat BY <3>1, ClaimedType
    <3>3. rows' \in Seq(SyncRunLog) /\ Len(rows') = Len(table) BY <2>6, <3>2, Updated
    <3>4. table[r].key \in BOOLEAN BY <3>1 DEF SyncRunLog
    <3>5. Executing(r, table[r].key, table[r].attempts + 1) \in Memory(Len(table))
      BY <2>2, <3>2, <3>4 DEF Executing, Memory
    <3>6. workers' \in [Workers -> Memory(Len(table))] BY <2>3, <2>6, <3>5
    <3> QED BY <2>1, <2>4, <3>3, <3>6
  <2> QED BY <2>1, <2>5, <2>6
<1>7. ASSUME NEW w \in Workers, EndRun(w) PROVE RunsTypeOK' BY <1>7, EndedRow, RowStepType
<1>8. ASSUME NEW r \in Runs,
             \/ \E w \in Workers : Checkpoint(w) /\ r = workers[w].run
             \/ LeaseRunsOut(r) \/ Stall(r) \/ RunRetryDue(r)
      PROVE  RunsTypeOK'
  BY <1>8, LeaseSteps, RowStepType DEF LeaseWritten
<1>9. ASSUME NEW w \in Workers, Checkpoint(w) PROVE RunsTypeOK'
  <2>1. workers[w].run \in Runs BY <1>1, <1>9, MemoryCases DEF Checkpoint, Runs
  <2> QED BY <1>8, <1>9, <2>1
<1>10. ASSUME NEW w \in Workers, Crash(w) PROVE RunsTypeOK'
  <2>1. crashes' \in 0..MaxCrashes BY <1>10, SyncAssumption DEF Crash
  <2> QED BY <1>2, <1>10, <2>1 DEF Crash
<1>11. ASSUME NEW w \in Workers, Restart(w) PROVE RunsTypeOK' BY <1>2, <1>11 DEF Restart
<1>12. CASE UNCHANGED runVars BY <1>12 DEF runVars
<1> QED BY <1>3, <1>4, <1>5, <1>6, <1>7, <1>8, <1>9, <1>10, <1>11, <1>12 DEF RunsNext, Cycle

\* The table holds well-formed runs, and a worker's memory names one of them,
\* whatever crashes and whoever stalls.
THEOREM RunsTyped == RunsSpec => []RunsTypeOK
BY TypeInit, TypeStep, PTL DEF RunsSpec

--------------------
(* The company-wide exclusion. *)

\* A queued run may be added to a table whose key nobody holds.
LEMMA QuietAppend ==
  ASSUME NEW table \in Seq(SyncRunLog), NEW mem, Quiet(table, mem), KeyHolders(table) = {}
  PROVE  Quiet(Append(table, NewRun), mem)
<1> DEFINE new == Append(table, NewRun)
           n == Len(table) + 1
<1>1. Len(table) \in Nat /\ DOMAIN table = 1..Len(table) BY LenProperties
<1>2. /\ DOMAIN new = DOMAIN table \cup {n} /\ n \notin DOMAIN table
      /\ new[n] = NewRun
      /\ \A r \in DOMAIN table : new[r] = table[r]
  BY <1>1, Appended
<1> HIDE DEF new, n
<1>3. new[n].key /\ new[n].status = "queued" BY <1>2 DEF NewRun
<1>4. \A r \in DOMAIN new : new[r].key <=> new[r].status \in ActiveStatuses
  BY <1>2, <1>3 DEF Quiet, ActiveStatuses
<1>5. Unique(new) BY <1>2, <1>3 DEF Unique, KeyHolders
<1>6. \A r \in DOMAIN new : new[r].status = "running" => r \in DOMAIN table BY <1>2, <1>3
<1> QED BY <1>2, <1>4, <1>5, <1>6 DEF Quiet, new

\* A recovery that found nothing, and the scheduling of outbox work after it.
LEMMA QuietScheduled ==
  ASSUME RunsTypeOK, Quiet(rows, workers), NEW due \in BOOLEAN
  PROVE  Quiet(Scheduled({}, due), workers)
<1>1. rows \in Seq(SyncRunLog) BY TypeOKDef
<1>2. RecoveredRuns({}) = rows
  <2>1. RecoveredRuns({}) = [r \in Runs |-> rows[r]] BY Zenon DEF RecoveredRuns
  <2> QED BY <1>1, <2>1, LenProperties DEF Runs
<1>3. KeyHolders(rows) = {} => Quiet(Append(rows, NewRun), workers) BY <1>1, QuietAppend
<1> QED BY <1>2, <1>3 DEF Scheduled

\* A run that is queued holds the key, so it is the only active one: a worker
\* that plans may claim it.
LEMMA QuietClaim ==
  ASSUME NEW n \in Nat, NEW table \in Seq(SyncRunLog), NEW mem \in [Workers -> Memory(n)],
         Quiet(table, mem), NEW w \in Workers, mem[w].pc = "planning",
         NEW r \in DOMAIN table, table[r].status = "queued"
  PROVE  Quiet([table EXCEPT ![r] = Claimed(table[r], w)],
               [mem EXCEPT ![w] = Executing(r, table[r].key, table[r].attempts + 1)])
<1> DEFINE row == Claimed(table[r], w)
           new == [table EXCEPT ![r] = row]
           held == Executing(r, table[r].key, table[r].attempts + 1)
           after == [mem EXCEPT ![w] = held]
<1>1. table[r] \in SyncRunLog BY LenProperties, ElementOfSeq
<1>2. table[r].key BY DEF Quiet, ActiveStatuses
<1>3. /\ row \in SyncRunLog /\ row.status = "running" /\ row.worker = w
      /\ row.key = table[r].key /\ row.lease = "live" /\ row.attempts = table[r].attempts + 1
  BY <1>1, ClaimedType
<1>4. /\ held.pc = "executing" /\ held.run = r /\ held.key = table[r].key
      /\ held.attempts = table[r].attempts + 1
  BY DEF Executing
<1> HIDE DEF row
<1>5. DOMAIN new = DOMAIN table
      /\ \A q \in DOMAIN table : new[q] = IF q = r THEN row ELSE table[q]
  BY <1>3, Updated
<1> HIDE DEF held
<1>6. \A v \in Workers : after[v] = IF v = w THEN held ELSE mem[v] OBVIOUS
<1> HIDE DEF new, after
<1>7. \A v \in Workers : after[v].pc = "planning" => after[v].seen = {} BY <1>4, <1>6 DEF Quiet
<1>8. ASSUME NEW v \in Workers, after[v].pc = "executing"
      PROVE  /\ after[v].run \in DOMAIN new
             /\ after[v].key
             /\ new[after[v].run].status = "running"
             /\ new[after[v].run].worker = v
             /\ new[after[v].run].attempts = after[v].attempts
  <2>1. CASE v = w BY <1>2, <1>3, <1>4, <1>5, <1>6, <2>1
  <2>2. CASE v # w
    <3>1. after[v] = mem[v] BY <1>6, <2>2
    <3>2. mem[v].run # r BY <1>8, <3>1 DEF Quiet
    <3> QED BY <1>5, <1>8, <3>1, <3>2 DEF Quiet
  <2> QED BY <2>1, <2>2
<1>9. ASSUME NEW q \in DOMAIN new
      PROVE  new[q].key <=> new[q].status \in ActiveStatuses
  <2>1. CASE q = r
    <3>1. new[q].key /\ new[q].status = "running" BY <1>2, <1>3, <1>5, <2>1, Zenon
    <3> QED BY <3>1 DEF ActiveStatuses
  <2>2. CASE q # r BY <1>5, <2>2 DEF Quiet
  <2> QED BY <2>1, <2>2
<1>10. Unique(new)
  <2>1. \A q \in DOMAIN new : new[q].key = table[q].key BY <1>3, <1>5
  <2> QED BY <1>5, <2>1 DEF Quiet, Unique, KeyHolders
<1>11. ASSUME NEW q \in DOMAIN new, new[q].status = "running"
       PROVE  new[q].lease = "live" /\ \E v \in Workers : after[v].pc = "executing" /\ after[v].run = q
  <2>1. CASE q = r BY <1>3, <1>4, <1>5, <1>6, <2>1
  <2>2. CASE q # r
    <3>1. PICK v \in Workers : mem[v].pc = "executing" /\ mem[v].run = q
      BY <1>5, <1>11, <2>2 DEF Quiet
    <3>2. v # w BY <3>1
    <3> QED BY <1>5, <1>6, <1>11, <2>2, <3>1, <3>2 DEF Quiet
  <2> QED BY <2>1, <2>2
<1> QED BY <1>7, <1>8, <1>9, <1>10, <1>11 DEF Quiet, new, after, row, held

\* A worker that ends its run leaves a row that is not running and that keeps
\* the key exactly if it is queued again.
LEMMA QuietEnd ==
  ASSUME NEW n \in Nat, NEW table \in Seq(SyncRunLog), NEW mem \in [Workers -> Memory(n)],
         Quiet(table, mem), NEW w \in Workers, mem[w].pc = "executing",
         NEW row \in SyncRunLog, row.status # "running",
         row.key <=> row.status \in ActiveStatuses
  PROVE  Quiet([table EXCEPT ![mem[w].run] = row], [mem EXCEPT ![w] = Idle])
<1> DEFINE r == mem[w].run
           new == [table EXCEPT ![r] = row]
           after == [mem EXCEPT ![w] = Idle]
<1>1. r \in DOMAIN table /\ table[r].status = "running" /\ table[r].worker = w BY DEF Quiet
<1>2. DOMAIN new = DOMAIN table
      /\ \A q \in DOMAIN table : new[q] = IF q = r THEN row ELSE table[q]
  BY <1>1, Updated
<1>3. \A v \in Workers : after[v] = IF v = w THEN Idle ELSE mem[v] OBVIOUS
<1>4. \A v \in Workers : after[v].pc \in {"planning", "executing"} => v # w /\ after[v] = mem[v]
  BY <1>3 DEF Idle
<1> HIDE DEF new, after
<1>5. \A v \in Workers : after[v].pc = "planning" => after[v].seen = {} BY <1>4 DEF Quiet
<1>6. ASSUME NEW v \in Workers, after[v].pc = "executing"
      PROVE  /\ after[v].run \in DOMAIN new
             /\ after[v].key
             /\ new[after[v].run].status = "running"
             /\ new[after[v].run].worker = v
             /\ new[after[v].run].attempts = after[v].attempts
  <2>1. v # w /\ after[v] = mem[v] BY <1>4, <1>6
  <2>2. mem[v].run # r BY <1>1, <1>6, <2>1 DEF Quiet
  <2> QED BY <1>2, <1>6, <2>1, <2>2 DEF Quiet
<1>7. \A q \in DOMAIN new : new[q].key <=> new[q].status \in ActiveStatuses BY <1>2 DEF Quiet
<1>8. Unique(new)
  <2>1. KeyHolders(new) \subseteq KeyHolders(table)
    BY <1>1, <1>2 DEF KeyHolders, Quiet, ActiveStatuses
  <2> QED BY <2>1 DEF Quiet, Unique
<1>9. ASSUME NEW q \in DOMAIN new, new[q].status = "running"
      PROVE  new[q].lease = "live" /\ \E v \in Workers : after[v].pc = "executing" /\ after[v].run = q
  <2>1. q # r /\ new[q] = table[q] BY <1>2, <1>9
  <2>2. PICK v \in Workers : mem[v].pc = "executing" /\ mem[v].run = q BY <1>2, <1>9, <2>1 DEF Quiet
  <2> QED BY <1>2, <1>3, <1>9, <2>1, <2>2 DEF Quiet
<1> QED BY <1>5, <1>6, <1>7, <1>8, <1>9 DEF Quiet, new, after

\* Renewing a lease, or letting it expire on a run nobody executes.
LEMMA QuietLease ==
  ASSUME RunsTypeOK, Quiet(rows, workers), NEW r \in Runs, NEW row, LeaseWritten(r, row),
         workers' = workers,
         row.lease = rows[r].lease \/ row.lease = "live" \/ Executors(r) = {}
  PROVE  Quiet(rows', workers')
<1>1. DOMAIN rows' = DOMAIN rows
      /\ \A q \in DOMAIN rows : rows'[q] = IF q = r THEN row ELSE rows[q]
  BY TypeOKDef, Updated DEF LeaseWritten, Runs
<1>2. \A q \in DOMAIN rows : /\ rows'[q].status = rows[q].status /\ rows'[q].key = rows[q].key
                             /\ rows'[q].worker = rows[q].worker
                             /\ rows'[q].attempts = rows[q].attempts
  BY <1>1 DEF LeaseWritten
<1>3. \A q \in DOMAIN rows : rows'[q].status = "running" => rows'[q].lease = "live"
  BY <1>1, <1>2 DEF Quiet, Executors, LeaseWritten
<1>4. Unique(rows') BY <1>1, <1>2 DEF Quiet, Unique, KeyHolders
<1> QED BY <1>1, <1>2, <1>3, <1>4 DEF Quiet

\* A worker whose memory changes without a run being begun or ended.
LEMMA QuietMemory ==
  ASSUME NEW n \in Nat, NEW table, NEW mem \in [Workers -> Memory(n)], Quiet(table, mem),
         NEW w \in Workers, mem[w].pc # "executing", NEW m,
         m = Idle \/ m = Planning({})
  PROVE  Quiet(table, [mem EXCEPT ![w] = m])
<1> DEFINE after == [mem EXCEPT ![w] = m]
<1>1. \A v \in Workers : after[v] = IF v = w THEN m ELSE mem[v] OBVIOUS
<1>2. m.pc # "executing" /\ (m.pc = "planning" => m.seen = {}) BY DEF Idle, Planning
<1> HIDE DEF after
<1> QED BY <1>1, <1>2 DEF Quiet, after

\* Nothing has been enqueued and nobody has read anything.
LEMMA SyncInvInit == RunsInit => SyncInv
<1> SUFFICES ASSUME RunsInit PROVE Quiet(rows, workers) BY TypeInit DEF SyncInv
<1>1. DOMAIN rows = {} BY EmptySeq, LenProperties DEF RunsInit
<1>2. \A w \in Workers : workers[w].pc = "idle" BY DEF RunsInit, Idle
<1> QED BY <1>1, <1>2 DEF Quiet, Unique, KeyHolders

\* Every step keeps the invariant.
LEMMA SyncInvStep == SyncInv /\ [RunsNext]_runVars => SyncInv'
<1> SUFFICES ASSUME SyncInv, [RunsNext]_runVars, Undisturbed' PROVE Quiet(rows', workers')
  BY TypeStep DEF SyncInv, Quiet
<1> USE DEF SyncInv
<1>1. /\ RunsTypeOK /\ rows \in Seq(SyncRunLog) /\ workers \in [Workers -> Memory(Len(rows))]
      /\ Len(rows) \in Nat /\ DOMAIN rows = 1..Len(rows)
      /\ crashes \in Nat /\ stalls \in Nat
  BY TypeOKDef, LenProperties, SyncAssumption
<1>2. UNCHANGED <<crashes, stalls>> => Quiet(rows, workers) BY DEF Undisturbed
<1>3. CASE EnqueueRun
  <2>1. Quiet(rows, workers) /\ KeyHolders(rows) = {} BY <1>2, <1>3 DEF EnqueueRun
  <2> QED BY <1>1, <1>3, <2>1, QuietAppend DEF EnqueueRun
<1>4. ASSUME NEW w \in Workers, ReadStale(w) PROVE Quiet(rows', workers')
  <2>1. Quiet(rows, workers) /\ rows' = rows BY <1>2, <1>4 DEF ReadStale
  <2>2. {q \in Runs : Stale(rows[q])} = {} BY <2>1 DEF Quiet, Stale, Runs
  <2>3. workers' = [workers EXCEPT ![w] = Planning({})] BY <1>4, <2>2 DEF ReadStale
  <2>4. workers[w].pc # "executing" BY <1>4 DEF ReadStale
  <2>5. Quiet(rows, [workers EXCEPT ![w] = Planning({})]) BY <1>1, <2>1, <2>4, QuietMemory
  <2> QED BY <2>1, <2>3, <2>5
<1>5. ASSUME NEW w \in Workers, AbortCycle(w) PROVE Quiet(rows', workers')
  BY <1>1, <1>2, <1>5, QuietMemory DEF AbortCycle
<1>6. ASSUME NEW w \in Workers, Schedule(w) PROVE Quiet(rows', workers')
  <2>1. Quiet(rows, workers) /\ workers[w].pc = "planning" BY <1>2, <1>6 DEF Schedule
  <2>2. PICK due \in BOOLEAN, table \in Seq(SyncRunLog) :
           /\ table = Scheduled(workers[w].seen, due)
           /\ \/ rows' = table /\ workers' = [workers EXCEPT ![w] = Idle]
              \/ \E r \in DOMAIN table :
                   /\ table[r].status = "queued"
                   /\ rows' = [table EXCEPT ![r] = Claimed(table[r], w)]
                   /\ workers' = [workers EXCEPT ![w] =
                                    Executing(r, table[r].key, table[r].attempts + 1)]
    BY <1>1, <1>6, ScheduledRows
  <2>3. Quiet(table, workers)
    <3>1. workers[w].seen = {} BY <2>1 DEF Quiet
    <3>2. Quiet(Scheduled({}, due), workers) BY <1>1, <2>1, QuietScheduled
    <3> QED BY <2>2, <3>1, <3>2
  <2>4. CASE rows' = table /\ workers' = [workers EXCEPT ![w] = Idle]
    BY <1>1, <2>1, <2>3, <2>4, QuietMemory
  <2>5. ASSUME NEW r \in DOMAIN table, table[r].status = "queued",
               rows' = [table EXCEPT ![r] = Claimed(table[r], w)],
               workers' = [workers EXCEPT ![w] =
                             Executing(r, table[r].key, table[r].attempts + 1)]
        PROVE  Quiet(rows', workers')
    <3>1. Quiet([table EXCEPT ![r] = Claimed(table[r], w)],
                [workers EXCEPT ![w] = Executing(r, table[r].key, table[r].attempts + 1)])
      BY <1>1, <2>1, <2>3, <2>5, QuietClaim
    <3> QED BY <2>5, <3>1, Zenon
  <2> QED BY <2>2, <2>4, <2>5, Zenon
<1>7. ASSUME NEW w \in Workers, EndRun(w) PROVE Quiet(rows', workers')
  <2>1. /\ workers[w].pc = "executing" /\ workers' = [workers EXCEPT ![w] = Idle]
        /\ Quiet(rows, workers)
    BY <1>1, <1>2, <1>7, EndedRow
  <2>2. workers[w].key /\ rows[workers[w].run].key BY <2>1 DEF Quiet, ActiveStatuses
  <2>3. PICK row \in SyncRunLog : /\ rows' = [rows EXCEPT ![workers[w].run] = row]
                                  /\ row.status # "running"
                                  /\ row.key <=> row.status \in ActiveStatuses
    BY <1>1, <1>7, <2>2, EndedRow
  <2> QED BY <1>1, <2>1, <2>3, QuietEnd
<1>8. ASSUME NEW r \in Runs,
             \/ \E w \in Workers : Checkpoint(w) /\ r = workers[w].run
             \/ LeaseRunsOut(r) \/ Stall(r) \/ RunRetryDue(r)
      PROVE  Quiet(rows', workers')
  BY <1>1, <1>8, LeaseSteps, QuietLease
<1>9. ASSUME NEW w \in Workers, Checkpoint(w) PROVE Quiet(rows', workers')
  <2>1. workers[w].run \in Runs BY <1>1, <1>9, MemoryCases DEF Checkpoint, Runs
  <2> QED BY <1>8, <1>9, <2>1
<1>10. ASSUME NEW w \in Workers PROVE ~Crash(w) BY <1>1 DEF Crash, Undisturbed
<1>11. ASSUME NEW w \in Workers, Restart(w) PROVE Quiet(rows', workers')
  BY <1>1, <1>2, <1>11, QuietMemory DEF Restart
<1>12. CASE UNCHANGED runVars BY <1>2, <1>12 DEF runVars
<1> QED BY <1>3, <1>4, <1>5, <1>6, <1>7, <1>8, <1>9, <1>10, <1>11, <1>12 DEF RunsNext, Cycle

\* The invariant holds in every reachable state.
LEMMA SyncInvAlways == RunsSpec => []SyncInv
BY SyncInvInit, SyncInvStep, PTL DEF RunsSpec

\* One worker at a time executes a run of the company, whichever run it is, as
\* long as no worker dies and no lease runs out.
THEOREM SyncExcludes == RunsSpec => []ExclusiveSync
<1>1. SyncInv => ExclusiveSync
  <2> SUFFICES ASSUME Quiet(rows, workers), NEW v \in Workers, NEW w \in Workers,
                      workers[v].pc = "executing", workers[w].pc = "executing"
               PROVE  v = w
    BY DEF SyncInv, ExclusiveSync
  <2>1. workers[v].run = workers[w].run BY DEF Quiet, Unique, KeyHolders, ActiveStatuses
  <2> QED BY <2>1 DEF Quiet
<1> QED BY <1>1, SyncInvAlways, PTL

\* Whoever executes a run holds its row, with the attempts and the key the
\* worker remembers, as long as no worker dies and no lease runs out.
THEOREM ExecutorsHoldRows == RunsSpec => []ExecutorHoldsRow
<1>1. SyncInv => ExecutorHoldsRow
  <2> SUFFICES ASSUME RunsTypeOK, Quiet(rows, workers), NEW w \in Workers,
                      workers[w].pc = "executing"
               PROVE  LET row == rows[workers[w].run]
                      IN /\ row.status = "running" /\ row.worker = w
                         /\ row.attempts = workers[w].attempts /\ row.key = workers[w].key
    BY DEF SyncInv, ExecutorHoldsRow
  <2>1. rows \in Seq(SyncRunLog) /\ Len(rows) \in Nat /\ workers[w] \in Memory(Len(rows))
    BY TypeOKDef, LenProperties
  <2>2. workers[w].run \in DOMAIN rows /\ workers[w].key \in BOOLEAN BY <2>1, MemoryCases DEF Quiet
  <2>3. rows[workers[w].run] \in SyncRunLog BY <2>1, <2>2, LenProperties, ElementOfSeq
  <2>4. rows[workers[w].run].key \in BOOLEAN BY <2>3 DEF SyncRunLog
  <2>5. rows[workers[w].run].key /\ workers[w].key BY <2>2 DEF Quiet, ActiveStatuses
  <2> QED BY <2>2, <2>4, <2>5 DEF Quiet
<1> QED BY <1>1, SyncInvAlways, PTL

--------------------
(***************************************************************************)
(* One worker: whatever crashes and whichever leases run out, the key of a *)
(* company is held exactly by its active run, no run is claimed without    *)
(* end, and no outcome is overwritten.  With two workers, one that crashes *)
(* or stalls lets all three fail.                                          *)
(*                                                                         *)
(* The invariant adds what the worker may rely on between its statements:  *)
(* every row it read as abandoned is still running when it writes it back, *)
(* the row it executes is as it remembers it, and an active row that is    *)
(* not being executed has an attempt left, counting one for every crash.   *)
(***************************************************************************)
KeysHeld(table) == \A r \in DOMAIN table : table[r].key <=> table[r].status \in ActiveStatuses

\* What the worker has read as abandoned still is running.
PlanHolds(table, m) ==
  m.pc = "planning" =>
    \A s \in m.seen : s.run \in DOMAIN table /\ table[s.run].status = "running" /\ s.key

\* The row the worker executes is as it remembers it.
RunHolds(table, m) ==
  m.pc = "executing" =>
    /\ m.run \in DOMAIN table /\ m.key
    /\ table[m.run].status = "running" /\ table[m.run].attempts = m.attempts

\* A run was claimed at most MaxRunAttempts times and once more for every crash,
\* and one that may still be claimed has been claimed less often.
AttemptsLeft(table, m, c) ==
  \A r \in DOMAIN table :
    /\ table[r].attempts <= MaxRunAttempts + c
    /\ table[r].status \in ActiveStatuses /\ ~(m.pc = "executing" /\ m.run = r)
         => table[r].attempts < MaxRunAttempts + c

\* A table, the memory of the only worker and the number of crashes so far.
Account(table, m, c) ==
  /\ KeysHeld(table) /\ Unique(table)
  /\ PlanHolds(table, m) /\ RunHolds(table, m)
  /\ AttemptsLeft(table, m, c)

\* Rows of the first table that were finished are as they were in the second.
OutcomesKept(old, new) ==
  \A r \in DOMAIN old :
    old[r].status \in FinishedStatuses => r \in DOMAIN new /\ new[r].status = old[r].status

--------------------
\* A queued run may be added to a table whose key nobody holds.
LEMMA AccountAppend ==
  ASSUME NEW table \in Seq(SyncRunLog), NEW m, NEW c \in Nat, Account(table, m, c),
         KeyHolders(table) = {}
  PROVE  /\ Account(Append(table, NewRun), m, c)
         /\ OutcomesKept(table, Append(table, NewRun))
<1> DEFINE new == Append(table, NewRun)
           n == Len(table) + 1
<1>1. Len(table) \in Nat /\ DOMAIN table = 1..Len(table) BY LenProperties
<1>2. /\ DOMAIN new = DOMAIN table \cup {n} /\ n \notin DOMAIN table
      /\ new[n] = NewRun
      /\ \A r \in DOMAIN table : new[r] = table[r]
  BY <1>1, Appended
<1> HIDE DEF new, n
<1>3. new[n].key /\ new[n].status = "queued" /\ new[n].attempts = 0 BY <1>2 DEF NewRun
<1>4. KeysHeld(new) BY <1>2, <1>3 DEF Account, KeysHeld, ActiveStatuses
<1>5. Unique(new) BY <1>2, <1>3 DEF Unique, KeyHolders
<1>6. PlanHolds(new, m) BY <1>2 DEF Account, PlanHolds
<1>7. RunHolds(new, m) BY <1>2 DEF Account, RunHolds
<1>8. AttemptsLeft(new, m, c) BY <1>2, <1>3, SyncAssumption DEF Account, AttemptsLeft
<1>9. OutcomesKept(table, new) BY <1>2 DEF OutcomesKept
<1> QED BY <1>4, <1>5, <1>6, <1>7, <1>8, <1>9 DEF Account, new

\* A recovery by the only worker queues runs that are running and keeps their
\* keys, so it leaves the worker with nothing to remember.
LEMMA AccountRecovered ==
  ASSUME rows \in Seq(SyncRunLog), NEW m, NEW c \in Nat, Account(rows, m, c),
         m.pc = "planning"
  PROVE  /\ Account(RecoveredRuns(m.seen), Idle, c)
         /\ OutcomesKept(rows, RecoveredRuns(m.seen))
<1> DEFINE new == RecoveredRuns(m.seen)
           back(r) == \E s \in m.seen : s.run = r
<1>1. Len(rows) \in Nat /\ DOMAIN rows = 1..Len(rows) BY LenProperties
<1>2. \A r \in DOMAIN rows : rows[r] \in SyncRunLog BY <1>1, ElementOfSeq
<1>3. DOMAIN new = DOMAIN rows BY DEF RecoveredRuns, Runs
<1>4. ASSUME NEW r \in DOMAIN rows
      PROVE  /\ new[r].attempts = rows[r].attempts
             /\ new[r].key = rows[r].key
             /\ back(r) => new[r].status = "queued" /\ rows[r].status = "running"
             /\ ~back(r) => new[r].status = rows[r].status
  <2> DEFINE k == rows[r].key \/ [run |-> r, key |-> FALSE] \in m.seen
             row == [rows[r] EXCEPT !.status = "queued", !.worker = NoWorker, !.lease = "none",
                                    !.key = k]
  <2>1. new[r] = IF back(r) THEN row ELSE rows[r] BY <1>4, Zenon DEF RecoveredRuns, Runs
  <2>2. back(r) => rows[r].status = "running" BY DEF Account, PlanHolds
  <2>3. [run |-> r, key |-> FALSE] \notin m.seen BY DEF Account, PlanHolds
  <2>4. rows[r].key \in BOOLEAN BY <1>2 DEF SyncRunLog
  <2>5. k = rows[r].key BY <2>3, <2>4
  <2> HIDE DEF k
  <2>6. row.status = "queued" /\ row.key = k /\ row.attempts = rows[r].attempts
    BY <1>2 DEF SyncRunLog
  <2> HIDE DEF row, new
  <2> QED BY <2>1, <2>2, <2>5, <2>6
<1> HIDE DEF new
<1>5. KeysHeld(new) BY <1>3, <1>4 DEF Account, KeysHeld, ActiveStatuses
<1>6. Unique(new) BY <1>3, <1>4 DEF Account, Unique, KeyHolders
<1>7. PlanHolds(new, Idle) /\ RunHolds(new, Idle) BY DEF PlanHolds, RunHolds, Idle
<1>8. AttemptsLeft(new, Idle, c) BY <1>3, <1>4 DEF Account, AttemptsLeft, ActiveStatuses
<1>9. OutcomesKept(rows, new) BY <1>3, <1>4 DEF OutcomesKept, FinishedStatuses
<1> QED BY <1>5, <1>6, <1>7, <1>8, <1>9 DEF Account, new

\* The table after recovery and the scheduling of outbox work.
LEMMA AccountScheduled ==
  ASSUME rows \in Seq(SyncRunLog), NEW m, NEW c \in Nat, Account(rows, m, c),
         m.pc = "planning", NEW due \in BOOLEAN
  PROVE  /\ Account(Scheduled(m.seen, due), Idle, c)
         /\ OutcomesKept(rows, Scheduled(m.seen, due))
<1> DEFINE t == RecoveredRuns(m.seen)
<1>1. Account(t, Idle, c) /\ OutcomesKept(rows, t) /\ t \in Seq(SyncRunLog)
  BY AccountRecovered, RecoveredType
<1>2. Account(rows, Idle, c) /\ OutcomesKept(rows, rows)
  BY DEF Account, PlanHolds, RunHolds, AttemptsLeft, OutcomesKept, Idle
<1>3. CASE ~due \/ HasActiveRun(t) BY <1>1, <1>3 DEF Scheduled
<1>4. CASE ~(~due \/ HasActiveRun(t)) /\ KeyHolders(t) # {} BY <1>2, <1>4 DEF Scheduled
<1>5. CASE ~(~due \/ HasActiveRun(t)) /\ KeyHolders(t) = {}
  <2> HIDE DEF t
  <2>1. Account(Append(t, NewRun), Idle, c) /\ OutcomesKept(t, Append(t, NewRun))
    BY <1>1, <1>5, AccountAppend
  <2>2. OutcomesKept(rows, Append(t, NewRun)) BY <1>1, <2>1 DEF OutcomesKept
  <2>3. Scheduled(m.seen, due) = Append(t, NewRun) BY <1>5 DEF Scheduled, t
  <2> QED BY <2>1, <2>2, <2>3
<1> QED BY <1>3, <1>4, <1>5

\* The worker claims a queued run: it holds its key and uses up an attempt.
LEMMA AccountClaim ==
  ASSUME NEW table \in Seq(SyncRunLog), NEW c \in Nat, Account(table, Idle, c),
         NEW w \in Workers, NEW r \in DOMAIN table, table[r].status = "queued"
  PROVE  /\ Account([table EXCEPT ![r] = Claimed(table[r], w)],
                    Executing(r, table[r].key, table[r].attempts + 1), c)
         /\ OutcomesKept(table, [table EXCEPT ![r] = Claimed(table[r], w)])
<1> DEFINE row == Claimed(table[r], w)
           new == [table EXCEPT ![r] = row]
           held == Executing(r, table[r].key, table[r].attempts + 1)
<1>1. \A q \in DOMAIN table : table[q] \in SyncRunLog /\ table[q].attempts \in Nat
  <2>1. \A q \in DOMAIN table : table[q] \in SyncRunLog BY LenProperties, ElementOfSeq
  <2> QED BY <2>1 DEF SyncRunLog
<1>2. table[r].key BY DEF Account, KeysHeld, ActiveStatuses
<1>3. /\ row \in SyncRunLog /\ row.status = "running" /\ row.key = table[r].key
      /\ row.attempts = table[r].attempts + 1
  BY <1>1, ClaimedType
<1>4. /\ held.pc = "executing" /\ held.run = r /\ held.key = table[r].key
      /\ held.attempts = table[r].attempts + 1
  BY DEF Executing
<1> HIDE DEF row, held
<1>5. DOMAIN new = DOMAIN table
      /\ \A q \in DOMAIN table : new[q] = IF q = r THEN row ELSE table[q]
  BY <1>3, Updated
<1> HIDE DEF new
<1>6. KeysHeld(new)
  <2>1. new[r].key /\ new[r].status \in ActiveStatuses BY <1>2, <1>3, <1>5, Zenon DEF ActiveStatuses
  <2>2. \A q \in DOMAIN table : q # r => (new[q].key <=> new[q].status \in ActiveStatuses)
    BY <1>5 DEF Account, KeysHeld
  <2> QED BY <1>5, <2>1, <2>2 DEF KeysHeld
<1>7. Unique(new)
  <2>1. \A q \in DOMAIN new : new[q].key = table[q].key BY <1>3, <1>5
  <2> QED BY <1>5, <2>1 DEF Account, Unique, KeyHolders
<1>8. PlanHolds(new, held) BY <1>4 DEF PlanHolds
<1>9. RunHolds(new, held) BY <1>2, <1>3, <1>4, <1>5 DEF RunHolds
<1>10. AttemptsLeft(new, held, c)
  <2>1. table[r].attempts < MaxRunAttempts + c BY DEF Account, AttemptsLeft, ActiveStatuses, Idle
  <2>2. new[r].attempts <= MaxRunAttempts + c BY <1>1, <1>3, <1>5, <2>1, SyncAssumption
  <2>3. \A q \in DOMAIN table : q # r =>
          /\ new[q].attempts <= MaxRunAttempts + c
          /\ new[q].status \in ActiveStatuses => new[q].attempts < MaxRunAttempts + c
    BY <1>5 DEF Account, AttemptsLeft, Idle
  <2> QED BY <1>4, <1>5, <2>2, <2>3 DEF AttemptsLeft
<1>11. OutcomesKept(table, new) BY <1>3, <1>5 DEF OutcomesKept, FinishedStatuses
<1> QED BY <1>6, <1>7, <1>8, <1>9, <1>10, <1>11 DEF Account, new, row, held

\* However a run ends, its attempts stay, and it is queued again only while it
\* has one left.
LEMMA EndedAttempts ==
  ASSUME RunsTypeOK, NEW w \in Workers, EndRun(w), workers[w].run \in Runs
  PROVE  /\ rows'[workers[w].run].attempts = rows[workers[w].run].attempts
         /\ rows'[workers[w].run].status = "queued" => MayRetry(workers[w])
<1> DEFINE r == workers[w].run
           old == rows[r]
<1>1. rows \in Seq(SyncRunLog) /\ Len(rows) \in Nat /\ DOMAIN rows = 1..Len(rows)
  BY TypeOKDef, LenProperties
<1>2. old \in SyncRunLog /\ r \in DOMAIN rows BY <1>1, ElementOfSeq DEF Runs
<1>3. CASE FinishRun(w)
  <2>1. PICK status \in FinishedStatuses :
          rows' = [rows EXCEPT ![r] = Finished(workers[w], old, status)]
    BY <1>3 DEF FinishRun
  <2>2. rows'[r] = Finished(workers[w], old, status) BY <1>2, <2>1, Zenon
  <2> DEFINE k == old.key /\ ~workers[w].key
  <2>3. Finished(workers[w], old, status) =
          [[old EXCEPT !.key = k] EXCEPT !.status = status, !.lease = "none"]
    BY Zenon DEF Finished, KeyCleared
  <2> HIDE DEF k, old
  <2>4. /\ [[old EXCEPT !.key = k] EXCEPT !.status = status, !.lease = "none"].status = status
        /\ [[old EXCEPT !.key = k] EXCEPT !.status = status, !.lease = "none"].attempts
             = old.attempts
    BY <1>2 DEF SyncRunLog
  <2>5. status # "queued" BY DEF FinishedStatuses
  <2> QED BY <2>2, <2>3, <2>4, <2>5 DEF old
<1>4. CASE RateLimitRun(w)
  <2>1. MayRetry(workers[w]) BY <1>4 DEF RateLimitRun
  <2>2. rows'[r] = [old EXCEPT !.status = "queued", !.lease = "none", !.worker = NoWorker,
                               !.waiting = TRUE]
    BY <1>2, <1>4 DEF RateLimitRun
  <2>3. rows'[r].attempts = old.attempts BY <1>2, <2>2 DEF SyncRunLog
  <2> QED BY <2>1, <2>3
<1>5. CASE GiveUpRun(w)
  <2> DEFINE k == old.key /\ ~workers[w].key
             row == [[old EXCEPT !.key = k] EXCEPT !.status = "failed"]
  <2>1. rows' = [rows EXCEPT ![r] = row] BY <1>5, Zenon DEF GiveUpRun, KeyCleared
  <2>2. rows'[r] = row BY <1>2, <2>1, Zenon
  <2> HIDE DEF k, old
  <2>3. row.status = "failed" /\ row.attempts = old.attempts BY <1>2 DEF SyncRunLog
  <2> HIDE DEF row
  <2> QED BY <2>2, <2>3 DEF old
<1>6. CASE FailRun(w)
  <2> DEFINE row == [old EXCEPT !.status = "failed", !.lease = "none", !.waiting = FALSE,
                                !.key = FALSE]
  <2>1. rows'[r] = row BY <1>2, <1>6 DEF FailRun
  <2>2. row.status = "failed" /\ row.attempts = old.attempts BY <1>2 DEF SyncRunLog
  <2> HIDE DEF row
  <2> QED BY <2>1, <2>2
<1> QED BY <1>3, <1>4, <1>5, <1>6 DEF EndRun

\* The worker ends its run: it gives the key back exactly if the run is over.
LEMMA AccountEnd ==
  ASSUME RunsTypeOK, NEW c \in Nat, NEW w \in Workers, Account(rows, workers[w], c), EndRun(w)
  PROVE  Account(rows', Idle, c) /\ OutcomesKept(rows, rows')
<1> DEFINE r == workers[w].run
<1>1. /\ workers[w].pc = "executing" /\ r \in Runs BY EndedRow
<1>2. /\ workers[w].key /\ rows[r].status = "running" /\ rows[r].attempts = workers[w].attempts
      /\ rows[r].key
  BY <1>1 DEF Account, RunHolds, KeysHeld, ActiveStatuses, Runs
<1>3. PICK row \in SyncRunLog : /\ rows' = [rows EXCEPT ![r] = row]
                                /\ row.status # "running"
                                /\ row.key <=> row.status \in ActiveStatuses
  BY <1>2, EndedRow
<1>4. DOMAIN rows' = DOMAIN rows
      /\ \A q \in DOMAIN rows : rows'[q] = IF q = r THEN row ELSE rows[q]
  BY <1>1, <1>3, TypeOKDef, Updated DEF Runs
<1>5. row.attempts = rows[r].attempts /\ (row.status = "queued" => MayRetry(workers[w]))
  <2>1. rows'[r] = row BY <1>1, <1>4 DEF Runs
  <2> QED BY <1>1, <2>1, EndedAttempts
<1>6. KeysHeld(rows') BY <1>3, <1>4 DEF Account, KeysHeld
<1>7. Unique(rows')
  <2>1. KeyHolders(rows') \subseteq KeyHolders(rows) BY <1>1, <1>2, <1>4 DEF KeyHolders, Runs
  <2> QED BY <2>1 DEF Account, Unique
<1>8. PlanHolds(rows', Idle) /\ RunHolds(rows', Idle) BY DEF PlanHolds, RunHolds, Idle
<1>9. AttemptsLeft(rows', Idle, c)
  <2>1. row.attempts <= MaxRunAttempts + c BY <1>1, <1>5 DEF Account, AttemptsLeft, Runs
  <2>2. row.status \in ActiveStatuses => row.attempts < MaxRunAttempts + c
    <3>1. row.status \in ActiveStatuses => row.attempts < MaxRunAttempts
      BY <1>2, <1>3, <1>5 DEF MayRetry, ActiveStatuses
    <3>2. row.attempts \in Nat BY DEF SyncRunLog
    <3> QED BY <3>1, <3>2, SyncAssumption
  <2>3. \A q \in DOMAIN rows : q # r =>
          /\ rows[q].attempts <= MaxRunAttempts + c
          /\ rows[q].status \in ActiveStatuses => rows[q].attempts < MaxRunAttempts + c
    BY DEF Account, AttemptsLeft
  <2> QED BY <1>4, <2>1, <2>2, <2>3 DEF AttemptsLeft
<1>10. OutcomesKept(rows, rows') BY <1>2, <1>4 DEF OutcomesKept, FinishedStatuses
<1> QED BY <1>6, <1>7, <1>8, <1>9, <1>10 DEF Account

\* Leases and retry times say nothing about any of this.
LEMMA AccountLease ==
  ASSUME RunsTypeOK, NEW c \in Nat, NEW m, Account(rows, m, c), NEW r \in Runs, NEW row,
         LeaseWritten(r, row)
  PROVE  Account(rows', m, c) /\ OutcomesKept(rows, rows')
<1>1. DOMAIN rows' = DOMAIN rows
      /\ \A q \in DOMAIN rows : rows'[q] = IF q = r THEN row ELSE rows[q]
  BY TypeOKDef, Updated DEF LeaseWritten, Runs
<1>2. \A q \in DOMAIN rows : /\ rows'[q].status = rows[q].status /\ rows'[q].key = rows[q].key
                             /\ rows'[q].attempts = rows[q].attempts
  BY <1>1 DEF LeaseWritten
<1>3. Unique(rows') BY <1>1, <1>2 DEF Account, Unique, KeyHolders
<1> QED BY <1>1, <1>2, <1>3 DEF Account, KeysHeld, PlanHolds, RunHolds, AttemptsLeft, OutcomesKept

--------------------
\* The invariant, while there is one worker.
WorkerInv(me) == RunsTypeOK /\ Account(rows, workers[me], crashes)

\* Nothing has been enqueued.
LEMMA WorkerInit ==
  ASSUME NEW me, Workers = {me}, RunsInit
  PROVE  WorkerInv(me)
<1>1. DOMAIN rows = {} BY EmptySeq, LenProperties DEF RunsInit
<1>2. workers[me].pc = "idle" BY DEF RunsInit, Idle
<1> QED
  BY <1>1, <1>2, TypeInit DEF WorkerInv, Account, KeysHeld, Unique, KeyHolders, PlanHolds,
                              RunHolds, AttemptsLeft

\* Every step keeps the invariant and the outcomes of finished runs.
LEMMA WorkerStep ==
  ASSUME NEW me, Workers = {me}, WorkerInv(me), [RunsNext]_runVars
  PROVE  WorkerInv(me)' /\ OutcomesKept(rows, rows')
<1> DEFINE Goal == Account(rows', workers'[me], crashes') /\ OutcomesKept(rows, rows')
<1> SUFFICES Goal BY TypeStep DEF WorkerInv
<1>1. /\ RunsTypeOK /\ rows \in Seq(SyncRunLog) /\ workers \in [Workers -> Memory(Len(rows))]
      /\ Len(rows) \in Nat /\ DOMAIN rows = 1..Len(rows)
      /\ crashes \in Nat /\ stalls \in Nat /\ me \in Workers
      /\ Account(rows, workers[me], crashes)
  BY TypeOKDef, LenProperties, SyncAssumption DEF WorkerInv
<1>2. OutcomesKept(rows, rows) BY DEF OutcomesKept
<1>3. ASSUME NEW c \in Nat, crashes <= c
      PROVE  Account(rows, Idle, c) \/ ~(workers[me].pc # "executing" \/ crashes < c)
  <2>1. \A r \in DOMAIN rows : rows[r].attempts \in Nat
    <3>1. \A r \in DOMAIN rows : rows[r] \in SyncRunLog BY <1>1, ElementOfSeq
    <3> QED BY <3>1 DEF SyncRunLog
  <2>2. CASE workers[me].pc # "executing" \/ crashes < c
    <3>1. AttemptsLeft(rows, Idle, c)
      BY <1>1, <1>3, <2>1, <2>2, SyncAssumption DEF Account, AttemptsLeft, Idle
    <3> QED BY <1>1, <3>1 DEF Account, PlanHolds, RunHolds, Idle
  <2> QED BY <2>2
<1>4. CASE EnqueueRun BY <1>1, <1>4, AccountAppend DEF EnqueueRun
<1>5. CASE ReadStale(me)
  <2> DEFINE seen == {[run |-> r, key |-> rows[r].key] : r \in {q \in Runs : Stale(rows[q])}}
  <2>1. /\ workers'[me] = Planning(seen) /\ rows' = rows /\ crashes' = crashes
        /\ workers[me].pc # "executing"
    BY <1>1, <1>5 DEF ReadStale
  <2>2. \A s \in seen : s.run \in DOMAIN rows /\ rows[s.run].status = "running" /\ s.key
    BY <1>1 DEF Account, KeysHeld, Stale, Runs, ActiveStatuses
  <2> HIDE DEF seen
  <2>3. PlanHolds(rows, Planning(seen)) /\ RunHolds(rows, Planning(seen))
    BY <2>2 DEF PlanHolds, RunHolds, Planning
  <2>4. AttemptsLeft(rows, Planning(seen), crashes)
    BY <1>1, <2>1 DEF Account, AttemptsLeft, Planning
  <2> QED BY <1>1, <1>2, <2>1, <2>3, <2>4 DEF Account
<1>6. CASE AbortCycle(me) BY <1>1, <1>2, <1>3, <1>6 DEF AbortCycle
<1>7. CASE Schedule(me)
  <2>1. workers[me].pc = "planning" /\ crashes' = crashes BY <1>7 DEF Schedule
  <2>2. PICK due \in BOOLEAN, table \in Seq(SyncRunLog) :
           /\ table = Scheduled(workers[me].seen, due)
           /\ \/ rows' = table /\ workers' = [workers EXCEPT ![me] = Idle]
              \/ \E r \in DOMAIN table :
                   /\ table[r].status = "queued"
                   /\ rows' = [table EXCEPT ![r] = Claimed(table[r], me)]
                   /\ workers' = [workers EXCEPT ![me] =
                                    Executing(r, table[r].key, table[r].attempts + 1)]
    BY <1>1, <1>7, ScheduledRows
  <2>3. Account(table, Idle, crashes) /\ OutcomesKept(rows, table)
    BY <1>1, <2>1, <2>2, AccountScheduled
  <2>4. CASE rows' = table /\ workers' = [workers EXCEPT ![me] = Idle] BY <1>1, <2>1, <2>3, <2>4
  <2>5. ASSUME NEW r \in DOMAIN table, table[r].status = "queued",
               rows' = [table EXCEPT ![r] = Claimed(table[r], me)],
               workers' = [workers EXCEPT ![me] =
                             Executing(r, table[r].key, table[r].attempts + 1)]
        PROVE  Goal
    <3>1. /\ Account(rows', Executing(r, table[r].key, table[r].attempts + 1), crashes)
          /\ OutcomesKept(table, rows')
      BY <1>1, <2>3, <2>5, AccountClaim
    <3>2. workers'[me] = Executing(r, table[r].key, table[r].attempts + 1) BY <1>1, <2>5, Zenon
    <3>3. OutcomesKept(rows, rows') BY <2>3, <3>1 DEF OutcomesKept
    <3> QED BY <2>1, <3>1, <3>2, <3>3
  <2> QED BY <2>2, <2>4, <2>5, Zenon
<1>8. CASE EndRun(me)
  <2>1. workers' = [workers EXCEPT ![me] = Idle] /\ crashes' = crashes BY <1>1, <1>8, EndedRow
  <2> QED BY <1>1, <1>8, <2>1, AccountEnd
<1>9. ASSUME NEW r \in Runs,
             \/ \E w \in Workers : Checkpoint(w) /\ r = workers[w].run
             \/ LeaseRunsOut(r) \/ Stall(r) \/ RunRetryDue(r)
      PROVE  Goal
  BY <1>1, <1>9, LeaseSteps, AccountLease
<1>10. CASE Checkpoint(me)
  <2>1. workers[me].run \in Runs BY <1>1, <1>10, MemoryCases DEF Checkpoint, Runs
  <2> QED BY <1>1, <1>9, <1>10, <2>1
<1>11. CASE Crash(me)
  <2>1. workers'[me] = Down /\ rows' = rows /\ crashes' = crashes + 1 BY <1>1, <1>11 DEF Crash
  <2>2. Account(rows, Idle, crashes + 1) BY <1>1, <1>3
  <2>3. Account(rows, Down, crashes + 1)
    BY <2>2 DEF Account, PlanHolds, RunHolds, AttemptsLeft, Idle, Down
  <2> QED BY <1>2, <2>1, <2>3
<1>12. CASE Restart(me) BY <1>1, <1>2, <1>3, <1>12 DEF Restart
<1>13. CASE UNCHANGED runVars BY <1>1, <1>2, <1>13 DEF runVars
<1> QED BY <1>1, <1>4, <1>5, <1>6, <1>7, <1>8, <1>9, <1>10, <1>11, <1>12, <1>13 DEF RunsNext, Cycle

--------------------
\* With one worker, whatever crashes and whichever leases run out: a run has
\* its company's key exactly while it is active, at most one is active, and no
\* run is claimed more often than its attempts and the crashes allow.
THEOREM OneWorkerAccounts ==
  ASSUME NEW me, Workers = {me}
  PROVE  RunsSpec => []RunsAccounted
<1>1. RunsInit => WorkerInv(me) BY WorkerInit
<1>2. WorkerInv(me) /\ [RunsNext]_runVars => WorkerInv(me)' BY WorkerStep
<1>3. WorkerInv(me) => RunsAccounted
  BY DEF WorkerInv, Account, KeysHeld, AttemptsLeft, RunsAccounted, KeyMatchesStatus,
         AttemptsBounded, Runs
<1> QED BY <1>1, <1>2, <1>3, PTL DEF RunsSpec

\* With one worker, the outcome of a finished run is never overwritten.
THEOREM OneWorkerFinishes ==
  ASSUME NEW me, Workers = {me}
  PROVE  RunsSpec => FinishedIsFinal
<1> DEFINE Final == \A r \in Runs : rows[r].status \in FinishedStatuses
                                      => rows'[r].status = rows[r].status
<1>1. RunsInit => WorkerInv(me) BY WorkerInit
<1>2. WorkerInv(me) /\ [RunsNext]_runVars => WorkerInv(me)' BY WorkerStep
<1>3. WorkerInv(me) /\ [RunsNext]_runVars => [Final]_runVars BY WorkerStep DEF OutcomesKept, Runs
<1> QED BY <1>1, <1>2, <1>3, PTL DEF RunsSpec, FinishedIsFinal

--------------------
\* SyncOutbox: what is sent to the store.

Busy == pc \in {"claimed", "sending", "resending", "answered"}

\* The record being processed.
JobType == [key: Keys, attempts: 1..MaxAttempts, target: Ids \cup {Nowhere}, tries: Nat,
            payload: Version]

\* An id the worker or the mapping table has for a product is a listing of it.
Fits(id, p, store) == id # Nowhere => id \in DOMAIN store /\ store[id].product = p

\* The store knows no edit of a product that the ERP does not know.
StoreBehind == \A l \in DOMAIN listings :
                 listings[l].version.edit <= product[listings[l].product].edit

\* Nor does it know one newer than the push that is under way.
PayloadAhead ==
  Sending => /\ job.payload.edit <= product[ProductOf(job.key)].edit
             /\ \A l \in DOMAIN listings :
                  listings[l].product = ProductOf(job.key)
                    => listings[l].version.edit <= job.payload.edit

\* The attempts the worker read are those of records that have one left.
QueueCounts == \A k \in DOMAIN queue : queue[k] \in 0..(MaxAttempts - 1)

\* The inductive invariant.
OutboxInv ==
  /\ TypeOK /\ QueueCounts
  /\ Busy => job \in JobType /\ Fits(job.target, ProductOf(job.key), listings)
  /\ \A p \in Products : Fits(mapping[p], p, listings)
  /\ StoreBehind /\ PayloadAhead

\* The store keeps its listings, each of the same product and no older.
Kept(old, new) ==
  \A l \in DOMAIN old : /\ l \in DOMAIN new /\ new[l].product = old[l].product
                        /\ old[l].version.edit <= new[l].version.edit

--------------------
\* The tables, with what TypeOK says of them spelt out.
LEMMA Typed ==
  ASSUME TypeOK
  PROVE  /\ Len(listings) \in Nat /\ DOMAIN listings = 1..Len(listings)
         /\ DOMAIN listings \subseteq Ids /\ Nowhere \notin DOMAIN listings
         /\ \A l \in DOMAIN listings :
              /\ listings[l] \in Listing /\ listings[l].product \in Products
              /\ listings[l].version \in Version /\ listings[l].version.edit \in Nat
         /\ \A p \in Products : product[p] \in Version /\ product[p].edit \in Nat
<1>1. /\ Len(listings) \in Nat /\ DOMAIN listings = 1..Len(listings)
      /\ Len(listings) <= MaxListings
  BY LenProperties DEF TypeOK
<1>2. DOMAIN listings \subseteq Ids /\ Nowhere \notin Ids BY <1>1, OutboxAssumption DEF Ids
<1>3. \A l \in DOMAIN listings : listings[l] \in Listing BY <1>1, ElementOfSeq DEF TypeOK
<1>4. \A v \in Version : v.edit \in Nat BY OutboxAssumption DEF Version
<1>5. \A p \in Products : product[p] \in Version BY DEF TypeOK
<1> QED BY <1>1, <1>2, <1>3, <1>4, <1>5 DEF Listing

\* A record's product is a product.
LEMMA KeyProduct == \A k \in Keys : ProductOf(k) \in Products
BY DEF Keys, ProductOf

\* The rows that enqueueing, recovery and supersession write are rows.
LEMMA EnqueuedTyped ==
  ASSUME NEW P, NEW E, records \in [Keys -> SyncOutboxRow]
  PROVE  EnqueuedProducts(P, E) \in [Keys -> SyncOutboxRow]
<1>1. NewRecord \in SyncOutboxRow BY OutboxAssumption DEF NewRecord, SyncOutboxRow, OpenStatuses
<1>2. \A k \in Keys : Enqueued(records[k]) \in SyncOutboxRow BY <1>1 DEF Enqueued
<1> QED BY <1>2 DEF EnqueuedProducts

LEMMA RecoveredTyped == \A row \in SyncOutboxRow : Recovered(row) \in SyncOutboxRow
BY DEF Recovered, SyncOutboxRow, OpenStatuses

LEMMA SupersededTyped ==
  ASSUME NEW table \in [Keys -> SyncOutboxRow], NEW k \in Keys
  PROVE  Superseded(table, k) \in [Keys -> SyncOutboxRow]
<1>1. \A row \in SyncOutboxRow : [row EXCEPT !.status = "synced", !.later = FALSE] \in SyncOutboxRow
  BY DEF SyncOutboxRow
<1> QED BY <1>1 DEF Superseded

\* A fault is counted.
LEMMA FaultTyped ==
  ASSUME faults \in [FaultKinds -> Nat], NEW kind \in FaultKinds, Happens(kind)
  PROVE  faults' \in [FaultKinds -> Nat]
BY DEF Happens

\* Nothing has been enqueued and the store is empty.
LEMMA OutboxInit == Init => OutboxInv
<1> SUFFICES ASSUME Init PROVE OutboxInv OBVIOUS
<1>1. listings \in Seq(Listing) /\ Len(listings) = 0 /\ DOMAIN listings = {}
  BY EmptySeq, LenProperties DEF Init
<1>2. records \in [Keys -> SyncOutboxRow]
  <2>1. \A row \in SyncOutboxRow : [row EXCEPT !.status = "none"] \in SyncOutboxRow
    BY DEF SyncOutboxRow
  <2>2. NewRecord \in SyncOutboxRow BY OutboxAssumption DEF NewRecord, SyncOutboxRow, OpenStatuses
  <2> QED BY <2>1, <2>2 DEF Init
<1>3. TypeOK BY <1>1, <1>2, OutboxAssumption DEF Init, TypeOK
<1>4. ~Busy /\ ~Sending BY DEF Init, Busy, Sending
<1>5. (\A p \in Products : mapping[p] = Nowhere) /\ QueueCounts BY DEF Init, QueueCounts
<1> QED BY <1>1, <1>3, <1>4, <1>5 DEF OutboxInv, StoreBehind, PayloadAhead, Fits

--------------------
\* What fits stays so, while the store keeps its listings.
LEMMA KeptFits ==
  ASSUME NEW id, NEW p, NEW old, NEW new, Fits(id, p, old), Kept(old, new)
  PROVE  Fits(id, p, new)
BY DEF Fits, Kept

\* The listings with that of the target brought up to the payload, or with a
\* new one.
LEMMA AcceptedStore ==
  ASSUME OutboxInv, Sending, CanAccept
  PROVE  /\ Accepted \in Seq(Listing) /\ Len(Accepted) <= MaxListings
         /\ Kept(listings, Accepted)
         /\ \A l \in DOMAIN Accepted :
              /\ Accepted[l].version.edit <= product[Accepted[l].product].edit
              /\ Accepted[l].product = ProductOf(job.key)
                   => Accepted[l].version.edit <= job.payload.edit
         /\ job.target = Nowhere => /\ Len(listings) + 1 \in Ids
                                    /\ Fits(Len(listings) + 1, ProductOf(job.key), Accepted)
<1> DEFINE p == ProductOf(job.key)
           n == Len(listings) + 1
           new == Accepted
<1>1. TypeOK /\ Busy /\ job \in JobType /\ Fits(job.target, p, listings)
  BY DEF OutboxInv, Sending, Busy
<1>2. /\ job.payload \in Version /\ job.payload.edit \in Nat /\ p \in Products
  BY <1>1, KeyProduct, OutboxAssumption DEF JobType, Version
<1>3. job.payload.edit <= product[p].edit BY DEF OutboxInv, PayloadAhead
<1>4. \A l \in DOMAIN listings : listings[l].product = p
                                   => listings[l].version.edit <= job.payload.edit
  BY DEF OutboxInv, PayloadAhead
<1>5. \A l \in DOMAIN listings : listings[l].version.edit <= product[listings[l].product].edit
  BY DEF OutboxInv, StoreBehind
<1>6. listings \in Seq(Listing) BY <1>1 DEF TypeOK
<1>7. CASE job.target = Nowhere
  <2> DEFINE row == Listed(p, job.payload)
  <2>1. row \in Listing /\ row.product = p /\ row.version = job.payload BY <1>2 DEF Listed, Listing
  <2>2. new = Append(listings, row) BY <1>7 DEF Accepted
  <2> HIDE DEF row
  <2>3. /\ new \in Seq(Listing) /\ Len(new) = n /\ DOMAIN new = DOMAIN listings \cup {n}
        /\ \A l \in DOMAIN listings : new[l] = listings[l]
        /\ new[n] = row
    <3>1. /\ Append(listings, row) \in Seq(Listing) /\ Len(Append(listings, row)) = n
          /\ DOMAIN Append(listings, row) = 1..n
          /\ \A l \in DOMAIN listings : Append(listings, row)[l] = listings[l]
          /\ Append(listings, row)[n] = row
      BY <1>6, <2>1, AppendProperties, LenProperties
    <3>2. 1..n = DOMAIN listings \cup {n} BY <1>1, Typed
    <3> QED BY <2>2, <3>1, <3>2
  <2>4. n <= MaxListings /\ n \in Ids BY <1>1, <1>7, Typed, OutboxAssumption DEF CanAccept, Ids
  <2> HIDE DEF new, n
  <2>5. Kept(listings, new) BY <1>1, <2>3, Typed DEF Kept
  <2>6. \A l \in DOMAIN new : /\ new[l].version.edit <= product[new[l].product].edit
                              /\ new[l].product = p => new[l].version.edit <= job.payload.edit
    BY <1>2, <1>3, <1>4, <1>5, <2>1, <2>3
  <2>7. Fits(n, p, new) BY <2>1, <2>3 DEF Fits
  <2> QED BY <2>3, <2>4, <2>5, <2>6, <2>7 DEF new, n
<1>8. CASE job.target # Nowhere
  <2> DEFINE t == job.target
             row == [listings[t] EXCEPT !.version = job.payload]
  <2>1. t \in DOMAIN listings /\ listings[t].product = p BY <1>1, <1>8 DEF Fits
  <2>2. row \in Listing /\ row.product = p /\ row.version = job.payload
    BY <1>1, <1>2, <2>1, Typed DEF Listing
  <2>3. new = [listings EXCEPT ![t] = row] BY <1>8 DEF Accepted
  <2> HIDE DEF row
  <2>4. /\ new \in Seq(Listing) /\ Len(new) = Len(listings) /\ DOMAIN new = DOMAIN listings
        /\ \A l \in DOMAIN listings : new[l] = IF l = t THEN row ELSE listings[l]
    <3>1. t \in 1..Len(listings) BY <1>1, <2>1, Typed
    <3>2. /\ [listings EXCEPT ![t] = row] \in Seq(Listing)
          /\ Len([listings EXCEPT ![t] = row]) = Len(listings)
          /\ DOMAIN [listings EXCEPT ![t] = row] = DOMAIN listings
          /\ \A l \in DOMAIN listings :
               [listings EXCEPT ![t] = row][l] = IF l = t THEN row ELSE listings[l]
      BY <1>6, <2>2, <3>1, ExceptSeq, LenProperties
    <3> QED BY <2>3, <3>2
  <2> HIDE DEF new
  <2>5. Kept(listings, new) BY <1>1, <1>2, <1>4, <2>1, <2>2, <2>4, Typed DEF Kept
  <2>6. \A l \in DOMAIN new : /\ new[l].version.edit <= product[new[l].product].edit
                              /\ new[l].product = p => new[l].version.edit <= job.payload.edit
    BY <1>2, <1>3, <1>4, <1>5, <2>1, <2>2, <2>4
  <2>7. Len(new) <= MaxListings BY <1>1, <2>4 DEF TypeOK
  <2> QED BY <1>8, <2>4, <2>5, <2>6, <2>7 DEF new
<1> QED BY <1>7, <1>8

\* What happened to the store and the faults when a record is given up for now.
LEMMA FailStep ==
  ASSUME OutboxInv, Busy, FailRecord, faults' \in [FaultKinds -> Nat],
         listings' \in Seq(Listing), Len(listings') <= MaxListings,
         Kept(listings, listings'), StoreBehind'
  PROVE  OutboxInv'
<1>1. TypeOK /\ job \in JobType /\ Fits(job.target, ProductOf(job.key), listings) BY DEF OutboxInv
<1>2. job.key \in Keys /\ ProductOf(job.key) \in Products /\ job.target \in Ids \cup {Nowhere}
  BY <1>1, KeyProduct DEF JobType
<1>3. records' \in [Keys -> SyncOutboxRow]
  <2>1. \A row \in SyncOutboxRow : [row EXCEPT !.status = "failed", !.later = TRUE] \in SyncOutboxRow
    BY DEF SyncOutboxRow, OpenStatuses
  <2> QED BY <1>1, <1>2, <2>1 DEF FailRecord, TypeOK
<1>4. /\ mapping' \in [Products -> Ids \cup {Nowhere}]
      /\ \A q \in Products : mapping'[q] = mapping[q]
                             \/ (q = ProductOf(job.key) /\ mapping'[q] = job.target)
  BY <1>1, <1>2 DEF FailRecord, KeepTarget, Mapped, TypeOK
<1>5. \A q \in Products : Fits(mapping'[q], q, listings')
  <2>1. \A q \in Products : Fits(mapping'[q], q, listings) BY <1>1, <1>4 DEF OutboxInv
  <2> QED BY <2>1, KeptFits
<1>6. /\ pc' = "draining" /\ job' = NoJob /\ UNCHANGED <<product, queue, done>> BY DEF FailRecord
<1>7. TypeOK' BY <1>1, <1>3, <1>4, <1>6 DEF TypeOK, NoJob
<1>8. ~Busy' /\ ~Sending' BY <1>6 DEF Busy, Sending
<1> QED BY <1>5, <1>6, <1>7, <1>8 DEF OutboxInv, PayloadAhead, QueueCounts

\* The worker stops, or is told to, in the middle of anything.
LEMMA StopStep ==
  ASSUME OutboxInv, pc' = "idle", queue' = <<>>, done' = {}, job' = NoJob,
         records' \in [Keys -> SyncOutboxRow], faults' \in [FaultKinds -> Nat],
         mapping' \in [Products -> Ids \cup {Nowhere}],
         \A p \in Products : Fits(mapping'[p], p, listings),
         UNCHANGED <<product, listings>>
  PROVE  OutboxInv'
<1>1. TypeOK' BY DEF OutboxInv, TypeOK, NoJob
<1>2. ~Busy' /\ ~Sending' BY DEF Busy, Sending
<1> QED BY <1>1, <1>2 DEF OutboxInv, StoreBehind, PayloadAhead, QueueCounts

LEMMA EditStep ==
  ASSUME OutboxInv, NEW p \in Products, NEW content \in Contents, NEW enqueue \in BOOLEAN,
         EditProduct(p, content, enqueue)
  PROVE  OutboxInv'
<1>1. TypeOK /\ UNCHANGED <<mapping, listings, worker, faults>> BY DEF OutboxInv, EditProduct
<1>2. product' \in [Products -> Version] /\ \A q \in Products : product[q].edit <= product'[q].edit
  <2> DEFINE v == [content |-> content, edit |-> product[p].edit + 1]
  <2>1. product[p].edit < MaxEdits /\ product' = [product EXCEPT ![p] = v] BY DEF EditProduct
  <2>2. v \in Version /\ product[p].edit <= v.edit
    BY <1>1, <2>1, Typed, OutboxAssumption DEF Version
  <2> HIDE DEF v
  <2> QED BY <1>1, <2>1, <2>2, Typed DEF TypeOK
<1>3. records' \in [Keys -> SyncOutboxRow] BY <1>1, EnqueuedTyped DEF EditProduct, TypeOK
<1>4. TypeOK' BY <1>1, <1>2, <1>3 DEF TypeOK, worker
<1>5. Busy' = Busy /\ Sending' = Sending /\ Busy \in BOOLEAN /\ Sending \in BOOLEAN
  BY <1>1 DEF Busy, Sending, worker
<1>6. StoreBehind'
  <2>1. \A l \in DOMAIN listings : listings[l].version.edit <= product[listings[l].product].edit
    BY DEF OutboxInv, StoreBehind
  <2>2. \A l \in DOMAIN listings : /\ product'[listings[l].product] \in Version
                                   /\ product'[listings[l].product].edit \in Nat
    BY <1>1, <1>2, Typed, OutboxAssumption DEF Version
  <2> QED BY <1>1, <1>2, <2>1, <2>2, Typed DEF StoreBehind
<1>7. PayloadAhead'
  <2> SUFFICES ASSUME Sending PROVE job.payload.edit <= product'[ProductOf(job.key)].edit
    BY <1>1, <1>5 DEF OutboxInv, PayloadAhead, worker
  <2>1. job.key \in Keys /\ job.payload \in Version BY DEF OutboxInv, Sending, Busy, JobType
  <2>2. ProductOf(job.key) \in Products /\ job.payload.edit \in Nat
    BY <2>1, KeyProduct, OutboxAssumption DEF Version
  <2>3. product'[ProductOf(job.key)].edit \in Nat BY <1>2, <2>2, OutboxAssumption DEF Version
  <2> QED BY <1>1, <1>2, <2>2, <2>3, Typed DEF OutboxInv, PayloadAhead
<1> QED BY <1>1, <1>4, <1>5, <1>6, <1>7 DEF OutboxInv, QueueCounts, worker

LEMMA BeginStep ==
  ASSUME OutboxInv, NEW publishing \in BOOLEAN, BeginRun(publishing)
  PROVE  OutboxInv'
<1>1. TypeOK BY DEF OutboxInv
<1>2. records' \in [Keys -> SyncOutboxRow]
  <2> DEFINE table == EnqueuedProducts(product, IF publishing THEN Products ELSE {})
  <2>1. table \in [Keys -> SyncOutboxRow] BY <1>1, EnqueuedTyped DEF TypeOK
  <2>2. records' = [k \in Keys |-> Recovered(table[k])] BY DEF BeginRun
  <2> HIDE DEF table
  <2> QED BY <2>1, <2>2, RecoveredTyped
<1>3. TypeOK' BY <1>1, <1>2 DEF BeginRun, TypeOK, NoJob
<1>4. ~Busy' /\ ~Sending' BY DEF BeginRun, Busy, Sending
<1> QED BY <1>3, <1>4 DEF BeginRun, OutboxInv, StoreBehind, PayloadAhead, QueueCounts

LEMMA ReadStep ==
  ASSUME OutboxInv, ReadOutbox
  PROVE  OutboxInv'
<1> DEFINE due == Pending(records) \ done
<1>1. TypeOK /\ UNCHANGED <<product, outbox, listings, done, job, faults>> /\ pc = "draining"
  BY DEF OutboxInv, ReadOutbox
<1>2. queue' = [k \in due |-> records[k].attempts] /\ pc' \in {"idle", "draining"}
  BY <1>1 DEF ReadOutbox
<1>3. due \subseteq Keys /\ \A k \in due : records[k].attempts < MaxAttempts BY DEF Pending
<1>6. \A k \in due : records[k].attempts \in 0..MaxAttempts BY <1>1, <1>3 DEF TypeOK, SyncOutboxRow
<1> HIDE DEF due
<1>4. TypeOK' BY <1>1, <1>2, <1>3 DEF TypeOK, outbox
<1>5. ~Busy' /\ ~Sending' BY <1>2 DEF Busy, Sending
<1>7. QueueCounts' BY <1>2, <1>3, <1>6, OutboxAssumption DEF QueueCounts
<1> QED BY <1>1, <1>4, <1>5, <1>7 DEF OutboxInv, StoreBehind, PayloadAhead, outbox

\* A job is something to do.
LEMMA JobIsJob == JobType \cap {NoJob} = {}
<1>1. \A j \in JobType : DOMAIN j = {"key", "attempts", "target", "tries", "payload"} BY DEF JobType
<1>2. DOMAIN NoJob = {"key"} BY DEF NoJob
<1> QED BY <1>1, <1>2

LEMMA ClaimStep ==
  ASSUME OutboxInv, NEW k \in Keys, ClaimRecord(k)
  PROVE  OutboxInv'
<1>1. TypeOK /\ UNCHANGED <<product, mapping, listings, faults>> BY DEF OutboxInv, ClaimRecord
<1>2. k \in DOMAIN queue /\ queue[k] + 1 \in 1..MaxAttempts /\ ProductOf(k) \in Products
  BY KeyProduct, OutboxAssumption DEF ClaimRecord, OutboxInv, QueueCounts
<1>3. /\ records' = [records EXCEPT ![k] = [status |-> "processing", attempts |-> queue[k] + 1,
                                            later |-> TRUE]]
      /\ pc' = "claimed" /\ queue' = Without(queue, {k}) /\ done' = done \cup {k}
      /\ job' = Job(k, queue[k] + 1)
  BY DEF ClaimRecord
<1>4. records' \in [Keys -> SyncOutboxRow]
  <2> DEFINE row == [status |-> "processing", attempts |-> queue[k] + 1, later |-> TRUE]
  <2>1. row \in SyncOutboxRow BY <1>2 DEF SyncOutboxRow
  <2> HIDE DEF row
  <2> QED BY <1>1, <1>3, <2>1 DEF TypeOK, row
<1>5. job' \in JobType /\ job'.target = Nowhere BY <1>1, <1>2, <1>3, Typed DEF Job, JobType
<1>6. /\ DOMAIN queue' \subseteq DOMAIN queue /\ done' \subseteq Keys
      /\ \A r \in DOMAIN queue' : queue'[r] = queue[r]
  BY <1>1, <1>3 DEF Without, TypeOK
<1>7. TypeOK' BY <1>1, <1>3, <1>4, <1>5, <1>6, JobIsJob DEF TypeOK
<1>8. QueueCounts' /\ ~Sending' /\ Fits(job'.target, ProductOf(job'.key), listings')
  BY <1>3, <1>5, <1>6 DEF OutboxInv, QueueCounts, Sending, Fits
<1> QED BY <1>1, <1>5, <1>7, <1>8 DEF OutboxInv, StoreBehind, PayloadAhead

\* What a retry finds in the store is a listing of the product.
LEMMA FoundFits ==
  ASSUME TypeOK, NEW p \in Products, NEW id \in Found(p)
  PROVE  id \in Ids \cup {Nowhere} /\ Fits(id, p, listings)
BY Typed DEF Found, ListingsOf, Fits

\* The job gets another target or payload: what was known of it stays.
LEMMA JobStep ==
  ASSUME OutboxInv, Busy, NEW id \in Ids \cup {Nowhere}, Fits(id, ProductOf(job.key), listings),
         NEW tries \in Nat, NEW payload \in Version,
         job' = [job EXCEPT !.target = id, !.tries = tries, !.payload = payload],
         pc' \in {"sending", "resending"},
         (payload = job.payload /\ Sending) \/ payload = product[ProductOf(job.key)],
         UNCHANGED <<product, outbox, listings, queue, done>>, faults' \in [FaultKinds -> Nat]
  PROVE  OutboxInv'
<1>1. TypeOK /\ job \in JobType /\ job.key \in Keys /\ ProductOf(job.key) \in Products
  BY KeyProduct DEF OutboxInv, JobType
<1>2. /\ job' \in JobType /\ job'.key = job.key /\ job'.target = id /\ job'.payload = payload
  BY <1>1 DEF JobType
<1>3. TypeOK' BY <1>1, <1>2, JobIsJob DEF TypeOK, outbox
<1>4. Busy' /\ Fits(job'.target, ProductOf(job'.key), listings') BY <1>2 DEF Busy
<1>5. PayloadAhead' BY <1>1, <1>2, Typed DEF OutboxInv, PayloadAhead, StoreBehind
<1> QED BY <1>2, <1>3, <1>4, <1>5 DEF OutboxInv, StoreBehind, QueueCounts, outbox

LEMMA PrepareStep == ASSUME OutboxInv, PreparePush PROVE OutboxInv'
<1> DEFINE p == ProductOf(job.key)
<1>1. TypeOK /\ Busy /\ job \in JobType /\ p \in Products
  BY KeyProduct DEF OutboxInv, PreparePush, Busy, JobType
<1>2. PICK target \in Targets(p, job.attempts) :
        job' = [job EXCEPT !.target = target, !.payload = product[p]]
  BY DEF PreparePush, Payload
<1>3. target \in Ids \cup {Nowhere} /\ Fits(target, p, listings)
  BY <1>1, <1>2, FoundFits DEF Targets, OutboxInv, TypeOK
<1>4. job' = [job EXCEPT !.target = target, !.tries = job.tries, !.payload = product[p]]
  BY <1>1, <1>2 DEF JobType
<1>5. job.tries \in Nat /\ product[p] \in Version BY <1>1, Typed DEF JobType
<1> QED BY <1>1, <1>3, <1>4, <1>5, JobStep DEF PreparePush, OutboxInv, TypeOK

LEMMA ReplaceStep == ASSUME OutboxInv, ReplaceListing PROVE OutboxInv'
<1> DEFINE p == ProductOf(job.key)
<1>1. TypeOK /\ Busy /\ Sending /\ job \in JobType /\ p \in Products
  BY KeyProduct DEF OutboxInv, ReplaceListing, Busy, Sending, JobType
<1>2. PICK target \in Found(p) : job' = [job EXCEPT !.target = target, !.tries = 0]
  BY DEF ReplaceListing
<1>3. target \in Ids \cup {Nowhere} /\ Fits(target, p, listings) BY <1>1, FoundFits
<1>4. job' = [job EXCEPT !.target = target, !.tries = 0, !.payload = job.payload]
  BY <1>1, <1>2 DEF JobType
<1>5. job.payload \in Version BY <1>1 DEF JobType
<1> QED BY <1>1, <1>3, <1>4, <1>5, JobStep DEF ReplaceListing, OutboxInv, TypeOK

\* The store took the request; what the worker knows of it is as before.
LEMMA StoreStep ==
  ASSUME OutboxInv, Sending, CanAccept, listings' = Accepted
  PROVE  /\ listings' \in Seq(Listing) /\ Len(listings') <= MaxListings
         /\ Kept(listings, listings')
         /\ UNCHANGED product => StoreBehind'
         /\ \A l \in DOMAIN listings' : listings'[l].product = ProductOf(job.key)
                                          => listings'[l].version.edit <= job.payload.edit
         /\ \A q \in Products : Fits(mapping[q], q, listings')
         /\ Fits(job.target, ProductOf(job.key), listings')
<1>1. Kept(listings, listings') BY AcceptedStore
<1>2. \A q \in Products : Fits(mapping[q], q, listings') BY <1>1, KeptFits DEF OutboxInv
<1>3. Fits(job.target, ProductOf(job.key), listings') BY <1>1, KeptFits DEF OutboxInv, Sending, Busy
<1> QED BY <1>1, <1>2, <1>3, AcceptedStore DEF StoreBehind

LEMMA SendStep == ASSUME OutboxInv, SendPush PROVE OutboxInv'
<1>1. /\ TypeOK /\ Sending /\ CanAccept /\ Busy /\ job \in JobType /\ listings' = Accepted
      /\ UNCHANGED <<product, outbox, queue, done, faults>> /\ pc' = "answered"
  BY DEF OutboxInv, SendPush, Sending, Busy
<1>2. job' \in JobType /\ job'.key = job.key /\ Fits(job'.target, ProductOf(job.key), listings')
  <2>1. CASE job.target = Nowhere
    <3> DEFINE n == Len(listings) + 1
    <3>1. n \in Ids /\ Fits(n, ProductOf(job.key), listings') BY <1>1, <2>1, AcceptedStore
    <3>2. job' = [job EXCEPT !.target = n] BY <2>1 DEF SendPush
    <3> HIDE DEF n
    <3> QED BY <1>1, <3>1, <3>2 DEF JobType
  <2>2. CASE job.target # Nowhere
    <3>1. job' = job BY <2>2 DEF SendPush
    <3> QED BY <1>1, <3>1, StoreStep
  <2> QED BY <2>1, <2>2
<1>3. TypeOK' BY <1>1, <1>2, JobIsJob, StoreStep DEF TypeOK, outbox
<1>4. ~Sending' /\ StoreBehind' /\ QueueCounts'
  BY <1>1, StoreStep DEF OutboxInv, Sending, QueueCounts
<1>5. \A q \in Products : Fits(mapping'[q], q, listings') BY <1>1, StoreStep DEF outbox
<1> QED BY <1>2, <1>3, <1>4, <1>5 DEF OutboxInv, PayloadAhead

LEMMA SettleStep == ASSUME OutboxInv, SettlePush PROVE OutboxInv'
<1> DEFINE p == ProductOf(job.key)
<1>1. /\ TypeOK /\ Busy /\ job \in JobType /\ job.key \in Keys /\ p \in Products
      /\ job.target \in Ids \cup {Nowhere} /\ Fits(job.target, p, listings)
      /\ UNCHANGED <<product, listings, done, faults>> /\ pc' = "draining" /\ job' = NoJob
  BY KeyProduct DEF OutboxInv, SettlePush, Busy, JobType
<1>2. records' \in [Keys -> SyncOutboxRow] BY <1>1, SupersededTyped DEF SettlePush, TypeOK
<1>3. mapping' = [mapping EXCEPT ![p] = job.target] BY DEF SettlePush, Mapped
<1>4. /\ mapping' \in [Products -> Ids \cup {Nowhere}]
      /\ \A q \in Products : Fits(mapping'[q], q, listings')
  BY <1>1, <1>3 DEF OutboxInv, TypeOK
<1>5. /\ DOMAIN queue' \subseteq DOMAIN queue
      /\ \A r \in DOMAIN queue' : queue'[r] = queue[r]
  BY DEF SettlePush, Without
<1>6. TypeOK' BY <1>1, <1>2, <1>4, <1>5 DEF TypeOK
<1>7. QueueCounts' /\ ~Busy' /\ ~Sending' BY <1>1, <1>5 DEF OutboxInv, QueueCounts, Busy, Sending
<1> QED BY <1>1, <1>4, <1>6, <1>7 DEF OutboxInv, StoreBehind, PayloadAhead

\* A record is given up and nothing happened in the store.
LEMMA FailQuietly ==
  ASSUME OutboxInv, Busy, FailRecord, UNCHANGED listings, faults' \in [FaultKinds -> Nat]
  PROVE  OutboxInv'
<1>1. /\ listings' \in Seq(Listing) /\ Len(listings') <= MaxListings /\ UNCHANGED product
  BY DEF OutboxInv, TypeOK, FailRecord
<1>2. Kept(listings, listings') BY Typed DEF Kept, OutboxInv
<1>3. StoreBehind' BY <1>1 DEF OutboxInv, StoreBehind
<1> QED BY <1>1, <1>2, <1>3, FailStep

LEMMA AbandonStep == ASSUME OutboxInv, AbandonPush PROVE OutboxInv'
<1>1. Busy /\ FailRecord /\ UNCHANGED listings /\ faults' \in [FaultKinds -> Nat]
  BY DEF AbandonPush, Busy, OutboxInv, TypeOK
<1> QED BY <1>1, FailQuietly

LEMMA RefuseStep == ASSUME OutboxInv, RefusePush PROVE OutboxInv'
<1>1. Busy /\ FailRecord /\ UNCHANGED listings BY DEF RefusePush, Sending, Busy
<1>2. faults' \in [FaultKinds -> Nat] BY FaultTyped DEF RefusePush, FaultKinds, OutboxInv, TypeOK
<1> QED BY <1>1, <1>2, FailQuietly

LEMMA LoseStep == ASSUME OutboxInv, LoseAnswer PROVE OutboxInv'
<1>1. TypeOK /\ Sending /\ Busy /\ job \in JobType /\ job.tries + 1 \in Nat
  BY DEF OutboxInv, LoseAnswer, Sending, Busy, JobType
<1>2. faults' \in [FaultKinds -> Nat] BY FaultTyped DEF LoseAnswer, FaultKinds, OutboxInv, TypeOK
<1>3. UNCHANGED product BY DEF LoseAnswer, FailRecord
<1>4. /\ listings' \in Seq(Listing) /\ Len(listings') <= MaxListings
      /\ Kept(listings, listings') /\ StoreBehind'
      /\ \A l \in DOMAIN listings' : listings'[l].product = ProductOf(job.key)
                                       => listings'[l].version.edit <= job.payload.edit
      /\ \A q \in Products : Fits(mapping[q], q, listings')
      /\ Fits(job.target, ProductOf(job.key), listings')
  <2>1. CASE UNCHANGED listings
    <3>1. Kept(listings, listings') BY <1>1, <2>1, Typed DEF Kept
    <3> QED BY <1>1, <1>3, <2>1, <3>1 DEF OutboxInv, TypeOK, StoreBehind, PayloadAhead
  <2>2. CASE CanAccept /\ listings' = Accepted BY <1>1, <1>3, <2>2, StoreStep
  <2> QED BY <2>1, <2>2 DEF LoseAnswer
<1>5. CASE FailRecord BY <1>1, <1>2, <1>4, <1>5, FailStep
<1>6. CASE /\ job' = [job EXCEPT !.tries = @ + 1]
           /\ UNCHANGED <<product, outbox, pc, queue, done>>
  <2>1. /\ job' \in JobType /\ job'.key = job.key /\ job'.target = job.target
        /\ job'.payload = job.payload
    BY <1>1, <1>6 DEF JobType
  <2>2. TypeOK' BY <1>1, <1>2, <1>4, <1>6, <2>1, JobIsJob DEF TypeOK, outbox
  <2>3. Busy' /\ Sending' /\ QueueCounts' BY <1>1, <1>6 DEF OutboxInv, Busy, Sending, QueueCounts
  <2>4. PayloadAhead' BY <1>1, <1>4, <1>6, <2>1 DEF OutboxInv, PayloadAhead
  <2> QED BY <1>4, <1>6, <2>1, <2>2, <2>3, <2>4 DEF OutboxInv, outbox
<1> QED BY <1>5, <1>6 DEF LoseAnswer

LEMMA LimitStep == ASSUME OutboxInv, LimitRate PROVE OutboxInv'
<1> DEFINE p == ProductOf(job.key)
<1>1. TypeOK /\ Busy /\ job \in JobType /\ Fits(job.target, p, listings)
  BY DEF OutboxInv, LimitRate, Sending, Busy
<1>2. job.key \in Keys /\ p \in Products /\ job.target \in Ids \cup {Nowhere}
      /\ job.attempts - 1 \in 0..MaxAttempts
  BY <1>1, KeyProduct, OutboxAssumption DEF JobType
<1>3. faults' \in [FaultKinds -> Nat] BY FaultTyped DEF LimitRate, FaultKinds, OutboxInv, TypeOK
<1>4. records' \in [Keys -> SyncOutboxRow]
  <2> DEFINE row == [status |-> "pending", attempts |-> job.attempts - 1, later |-> FALSE]
  <2>1. row \in SyncOutboxRow BY <1>2 DEF SyncOutboxRow, OpenStatuses
  <2>2. records' = [records EXCEPT ![job.key] = row] BY DEF LimitRate
  <2> HIDE DEF row
  <2> QED BY <1>1, <1>2, <2>1, <2>2 DEF TypeOK
<1>5. mapping' = mapping \/ mapping' = [mapping EXCEPT ![p] = job.target]
  BY DEF LimitRate, KeepTarget, Mapped
<1>6. /\ mapping' \in [Products -> Ids \cup {Nowhere}]
      /\ \A q \in Products : Fits(mapping'[q], q, listings)
  BY <1>1, <1>2, <1>5 DEF OutboxInv, TypeOK
<1>7. /\ pc' = "idle" /\ queue' = <<>> /\ done' = {} /\ job' = NoJob
      /\ UNCHANGED <<product, listings>>
  BY DEF LimitRate
<1> QED BY <1>3, <1>4, <1>6, <1>7, StopStep

LEMMA CrashStep == ASSUME OutboxInv, CrashWorker PROVE OutboxInv'
<1>1. /\ records' \in [Keys -> SyncOutboxRow] /\ mapping' \in [Products -> Ids \cup {Nowhere}]
      /\ \A p \in Products : Fits(mapping'[p], p, listings)
  BY DEF CrashWorker, OutboxInv, TypeOK, outbox
<1>2. faults' \in [FaultKinds -> Nat] BY FaultTyped DEF CrashWorker, FaultKinds, OutboxInv, TypeOK
<1>3. /\ pc' = "idle" /\ queue' = <<>> /\ done' = {} /\ job' = NoJob
      /\ UNCHANGED <<product, listings>>
  BY DEF CrashWorker
<1> QED BY <1>1, <1>2, <1>3, StopStep

LEMMA RemoveStep ==
  ASSUME OutboxInv, NEW l \in DOMAIN listings, RemoveListing(l)
  PROVE  OutboxInv' /\ Kept(listings, listings')
<1> DEFINE row == [listings[l] EXCEPT !.there = FALSE]
<1>1. TypeOK /\ UNCHANGED <<product, outbox, worker>> /\ l \in 1..Len(listings)
  BY Typed DEF OutboxInv, RemoveListing
<1>2. row \in Listing /\ row.product = listings[l].product /\ row.version = listings[l].version
  BY <1>1, Typed DEF Listing
<1>3. listings' = [listings EXCEPT ![l] = row] BY DEF RemoveListing
<1> HIDE DEF row
<1>4. /\ listings' \in Seq(Listing) /\ Len(listings') = Len(listings)
      /\ DOMAIN listings' = DOMAIN listings
      /\ \A m \in DOMAIN listings : listings'[m] = IF m = l THEN row ELSE listings[m]
  BY <1>1, <1>2, <1>3, ExceptSeq, LenProperties DEF TypeOK
<1>5. \A m \in DOMAIN listings : /\ listings'[m].product = listings[m].product
                                 /\ listings'[m].version = listings[m].version
  BY <1>2, <1>4
<1>6. Kept(listings, listings') BY <1>1, <1>4, <1>5, Typed DEF Kept
<1>7. faults' \in [FaultKinds -> Nat] BY <1>1, FaultTyped DEF RemoveListing, FaultKinds, TypeOK
<1>8. TypeOK' BY <1>1, <1>4, <1>7 DEF TypeOK, outbox, worker
<1>9. /\ Busy' = Busy /\ Sending' = Sending /\ Busy \in BOOLEAN /\ Sending \in BOOLEAN
      /\ QueueCounts'
  BY <1>1 DEF OutboxInv, QueueCounts, Busy, Sending, worker
<1>10. StoreBehind' /\ PayloadAhead'
  BY <1>1, <1>4, <1>5, <1>9 DEF OutboxInv, StoreBehind, PayloadAhead, worker
<1>11. \A p \in Products : Fits(mapping'[p], p, listings')
  <2>1. \A p \in Products : Fits(mapping[p], p, listings') BY <1>6, KeptFits DEF OutboxInv
  <2> QED BY <1>1, <2>1 DEF outbox
<1>12. Busy => /\ job' \in JobType
               /\ Fits(job'.target, ProductOf(job'.key), listings')
  <2>1. Busy => Fits(job.target, ProductOf(job.key), listings') BY <1>6, KeptFits DEF OutboxInv
  <2> QED BY <1>1, <2>1 DEF OutboxInv, worker
<1> QED BY <1>6, <1>8, <1>9, <1>10, <1>11, <1>12 DEF OutboxInv

LEMMA RetryStep ==
  ASSUME OutboxInv, NEW k \in Keys, RetryDue(k)
  PROVE  OutboxInv'
<1>1. TypeOK /\ UNCHANGED <<product, mapping, listings, worker, faults>> BY DEF OutboxInv, RetryDue
<1>2. records' \in [Keys -> SyncOutboxRow]
  <2>1. \A row \in SyncOutboxRow : [row EXCEPT !.later = FALSE] \in SyncOutboxRow
    BY DEF SyncOutboxRow
  <2> QED BY <1>1, <2>1 DEF RetryDue, TypeOK
<1>3. TypeOK' BY <1>1, <1>2 DEF TypeOK, worker
<1> QED BY <1>1, <1>3 DEF OutboxInv, QueueCounts, Busy, Sending, StoreBehind, PayloadAhead, worker

\* The store's listings are only touched by requests and by whoever removes one.
LEMMA StoreKept ==
  ASSUME OutboxInv, [Next]_vars
  PROVE  Kept(listings, listings')
<1>1. CASE UNCHANGED listings BY <1>1, Typed DEF OutboxInv, Kept
<1>2. CASE SendPush BY <1>2, AcceptedStore DEF SendPush
<1>3. CASE LoseAnswer
  <2>1. Sending BY <1>3 DEF LoseAnswer
  <2>2. UNCHANGED listings \/ (CanAccept /\ listings' = Accepted) BY <1>3 DEF LoseAnswer
  <2> QED BY <1>1, <2>1, <2>2, AcceptedStore
<1>4. CASE \E l \in DOMAIN listings : RemoveListing(l) BY <1>4, RemoveStep
<1>5. ASSUME ~SendPush, ~LoseAnswer, ~\E l \in DOMAIN listings : RemoveListing(l)
      PROVE  UNCHANGED listings
  BY <1>5 DEF Next, Work, Fault, vars, EditProduct, BeginRun, ReadOutbox, ClaimRecord, PreparePush,
              ReplaceListing, SettlePush, AbandonPush, RefusePush, LimitRate, CrashWorker, RetryDue
<1> QED BY <1>1, <1>2, <1>3, <1>4, <1>5

LEMMA OutboxStep == OutboxInv /\ [Next]_vars => OutboxInv'
<1> SUFFICES ASSUME OutboxInv, [Next]_vars PROVE OutboxInv' OBVIOUS
<1>1. CASE \E p \in Products, content \in Contents, enqueue \in BOOLEAN :
             EditProduct(p, content, enqueue)
  BY <1>1, EditStep
<1>2. CASE Work
  <2>1. CASE \E publishing \in BOOLEAN : BeginRun(publishing) BY <2>1, BeginStep
  <2>2. CASE \E k \in Keys : ClaimRecord(k) BY <2>2, ClaimStep
  <2> QED
    BY <1>2, <2>1, <2>2, ReadStep, PrepareStep, SendStep, ReplaceStep, SettleStep, AbandonStep
    DEF Work
<1>3. CASE Fault BY <1>3, RefuseStep, LoseStep, LimitStep, CrashStep, RemoveStep DEF Fault
<1>4. CASE \E k \in Keys : RetryDue(k) BY <1>4, RetryStep
<1>5. CASE UNCHANGED vars
  BY <1>5 DEF OutboxInv, vars, outbox, worker, TypeOK, QueueCounts, Busy, Sending, StoreBehind,
              PayloadAhead
<1> QED BY <1>1, <1>2, <1>3, <1>4, <1>5 DEF Next

LEMMA OutboxAlways == Spec => []OutboxInv
BY OutboxInit, OutboxStep, PTL DEF Spec

\* The products, the outbox, the mapping, the store's listings and what the
\* worker holds keep their types.
THEOREM OutboxTyped == Spec => []TypeOK
<1>1. OutboxInv => TypeOK BY DEF OutboxInv
<1> QED BY <1>1, OutboxAlways, PTL

\* Whatever crashes, is lost, refused or repeated, a listing never goes back to
\* an older edit of its product (process_sync_outbox builds what it sends anew).
THEOREM PublishingMonotone == Spec => MonotonePublishing
<1>1. OutboxInv /\ [Next]_vars
        => [\A l \in DOMAIN listings : listings'[l].version.edit >= listings[l].version.edit]_vars
  <2> SUFFICES ASSUME OutboxInv, [Next]_vars, NEW l \in DOMAIN listings
               PROVE  listings'[l].version.edit >= listings[l].version.edit
    OBVIOUS
  <2>1. /\ l \in DOMAIN listings' /\ listings[l].version.edit <= listings'[l].version.edit
    BY StoreKept DEF Kept
  <2>2. TypeOK /\ TypeOK' BY OutboxStep DEF OutboxInv
  <2>3. listings[l].version.edit \in Nat BY <2>2, Typed
  <2>4. listings'[l].version.edit \in Nat
    <3>1. listings' \in Seq(Listing) BY <2>2 DEF TypeOK
    <3>2. listings'[l] \in Listing BY <2>1, <3>1, ElementOfSeq, LenProperties
    <3> QED BY <3>2, OutboxAssumption DEF Listing, Version
  <2> QED BY <2>1, <2>3, <2>4
<1> QED BY <1>1, OutboxAlways, PTL DEF Spec, MonotonePublishing

--------------------
\* The listings the mapping does not know, and those of a product that is pushed
\* for the first time.

Asked == pc \in {"sending", "resending", "answered"}

\* The push goes where the mapping says, if that is still in the store.
MappingHeld ==
  /\ pc = "answered" => job.target # Nowhere
  /\ Asked => LET m == mapping[ProductOf(job.key)]
              IN  m # Nowhere /\ listings[m].there => job.target = m

\* The listings that neither the mapping nor the answered push knows.
Orphans == {l \in DOMAIN listings : /\ listings[l].there /\ l # mapping[listings[l].product]
                                    /\ ~(pc = "answered" /\ l = job.target)}
OrphansFew == Cardinality(Orphans) <= faults["crash"] + faults["lost"]

\* Only somebody deleting it takes a listing out of the store.
NothingGone == faults["removed"] = 0 => \A l \in DOMAIN listings : listings[l].there

\* What a request does to the store: of what was there nothing changes but a
\* version, and it may have got one listing more.
Grown(old, new) ==
  /\ Kept(old, new)
  /\ \A l \in DOMAIN old : new[l].there = old[l].there
  /\ \/ DOMAIN new = DOMAIN old
     \/ /\ job.target = Nowhere
        /\ DOMAIN new = DOMAIN old \cup {Len(old) + 1}
        /\ new[Len(old) + 1].product = ProductOf(job.key) /\ new[Len(old) + 1].there

LEMMA AcceptedGrows ==
  ASSUME OutboxInv, Sending, CanAccept
  PROVE  /\ Grown(listings, Accepted)
         /\ job.target = Nowhere => /\ DOMAIN Accepted = DOMAIN listings \cup {Len(listings) + 1}
                                    /\ Len(listings) + 1 \notin DOMAIN listings
         /\ job.target # Nowhere => DOMAIN Accepted = DOMAIN listings
<1> DEFINE p == ProductOf(job.key)
           n == Len(listings) + 1
<1>1. TypeOK /\ Busy /\ job \in JobType /\ Fits(job.target, p, listings)
  BY DEF OutboxInv, Sending, Busy
<1>2. listings \in Seq(Listing) /\ job.payload \in Version /\ p \in Products
  BY <1>1, KeyProduct DEF TypeOK, JobType
<1>3. Kept(listings, Accepted) BY AcceptedStore
<1>4. Len(listings) \in Nat /\ DOMAIN listings = 1..Len(listings) /\ n \notin DOMAIN listings
  BY <1>1, Typed
<1>5. CASE job.target = Nowhere
  <2> DEFINE row == Listed(p, job.payload)
  <2>1. row \in Listing /\ row.product = p /\ row.there BY <1>2 DEF Listed, Listing
  <2>2. Accepted = Append(listings, row) BY <1>5 DEF Accepted
  <2> HIDE DEF row
  <2>3. /\ DOMAIN Append(listings, row) = 1..n
        /\ \A l \in DOMAIN listings : Append(listings, row)[l] = listings[l]
        /\ Append(listings, row)[n] = row
    BY <1>2, <2>1, AppendProperties, LenProperties
  <2>4. 1..n = DOMAIN listings \cup {n} BY <1>4
  <2> QED BY <1>3, <1>4, <1>5, <2>1, <2>2, <2>3, <2>4 DEF Grown
<1>6. CASE job.target # Nowhere
  <2> DEFINE t == job.target
  <2>1. t \in DOMAIN listings /\ listings[t] \in Listing BY <1>1, <1>6, Typed DEF Fits
  <2>2. Accepted = [listings EXCEPT ![t].version = job.payload] BY <1>6 DEF Accepted
  <2>3. \A q \in Listing : [q EXCEPT !.version = job.payload].there = q.there BY DEF Listing
  <2>4. DOMAIN Accepted = DOMAIN listings BY <2>2
  <2>5. \A l \in DOMAIN listings : Accepted[l].there = listings[l].there BY <2>1, <2>2, <2>3
  <2> QED BY <1>3, <1>6, <2>4, <2>5 DEF Grown
<1> QED BY <1>5, <1>6

\* Taking a listing out of the store leaves the others.
LEMMA Shrinks ==
  ASSUME OutboxInv, NEW l \in DOMAIN listings, RemoveListing(l)
  PROVE  /\ DOMAIN listings' = DOMAIN listings
         /\ \A m \in DOMAIN listings : /\ listings'[m].product = listings[m].product
                                       /\ listings'[m].there => listings[m].there
<1>1. listings' = [listings EXCEPT ![l].there = FALSE] BY DEF RemoveListing
<1>2. \A q \in Listing : LET r == [q EXCEPT !.there = FALSE] IN r.product = q.product /\ ~r.there
  BY DEF Listing
<1>3. \A m \in DOMAIN listings : listings[m] \in Listing BY Typed DEF OutboxInv
<1> QED BY <1>1, <1>2, <1>3

\* The store changes by what requests do, or by a listing taken out.
LEMMA StoreChange ==
  ASSUME OutboxInv, [Next]_vars
  PROVE  \/ UNCHANGED listings
         \/ /\ SendPush \/ LoseAnswer
            /\ Sending /\ CanAccept /\ listings' = Accepted /\ Grown(listings, listings')
         \/ \E l \in DOMAIN listings :
              /\ RemoveListing(l) /\ DOMAIN listings' = DOMAIN listings
              /\ \A m \in DOMAIN listings : /\ listings'[m].product = listings[m].product
                                            /\ listings'[m].there => listings[m].there
<1>1. CASE SendPush BY <1>1, AcceptedGrows DEF SendPush
<1>2. CASE LoseAnswer
  <2>1. Sending BY <1>2 DEF LoseAnswer
  <2>2. UNCHANGED listings \/ (CanAccept /\ listings' = Accepted) BY <1>2 DEF LoseAnswer
  <2> QED BY <1>2, <2>1, <2>2, AcceptedGrows
<1>3. ASSUME NEW l \in DOMAIN listings, RemoveListing(l)
      PROVE  /\ DOMAIN listings' = DOMAIN listings
             /\ \A m \in DOMAIN listings : /\ listings'[m].product = listings[m].product
                                           /\ listings'[m].there => listings[m].there
  BY <1>3, Shrinks
<1>4. ASSUME ~SendPush, ~LoseAnswer, ~\E l \in DOMAIN listings : RemoveListing(l)
      PROVE  UNCHANGED listings
  BY <1>4 DEF Next, Work, Fault, vars, EditProduct, BeginRun, ReadOutbox, ClaimRecord, PreparePush,
              ReplaceListing, SettlePush, AbandonPush, RefusePush, LimitRate, CrashWorker, RetryDue
<1> QED BY <1>1, <1>2, <1>3, <1>4

\* A step that only takes from the store what it has, or adds the listings of S,
\* and changes the mapping only to what the push is about.
LEMMA OrphansStay ==
  ASSUME OutboxInv, MappingHeld, NEW S,
         \A l \in DOMAIN listings' \ S :
            /\ l \in DOMAIN listings /\ listings'[l].product = listings[l].product
            /\ listings'[l].there => listings[l].there,
         \/ UNCHANGED mapping
         \/ Asked /\ mapping' = [mapping EXCEPT ![ProductOf(job.key)] = job.target],
         pc = "answered" => \/ job.target \in S
                            \/ pc' = "answered" /\ job'.target = job.target
                            \/ mapping' = [mapping EXCEPT ![ProductOf(job.key)] = job.target]
  PROVE  Orphans' \subseteq Orphans \cup S
<1> DEFINE p == ProductOf(job.key)
<1> SUFFICES ASSUME NEW l \in Orphans', l \notin S PROVE l \in Orphans OBVIOUS
<1>1. /\ l \in DOMAIN listings' /\ listings'[l].there /\ l # mapping'[listings'[l].product]
      /\ ~(pc' = "answered" /\ l = job'.target)
  BY DEF Orphans
<1>2. l \in DOMAIN listings /\ listings'[l].product = listings[l].product /\ listings[l].there
  BY <1>1
<1>3. TypeOK /\ listings[l].product \in Products /\ mapping \in [Products -> Ids \cup {Nowhere}]
      /\ Nowhere \notin DOMAIN listings
  BY <1>2, Typed DEF OutboxInv, TypeOK
<1>4. Asked => p \in Products /\ (job.target # Nowhere => listings[job.target].product = p)
  BY KeyProduct DEF OutboxInv, Asked, Busy, JobType, Fits
<1>5. ASSUME l = mapping[listings[l].product] PROVE FALSE
  <2>1. Asked /\ mapping' = [mapping EXCEPT ![p] = job.target] BY <1>1, <1>2, <1>5
  <2>2. listings[l].product = p BY <1>1, <1>2, <1>3, <1>4, <1>5, <2>1
  <2>3. job.target = l BY <1>2, <1>3, <1>5, <2>1, <2>2 DEF MappingHeld
  <2> QED BY <1>1, <1>2, <1>3, <1>4, <2>1, <2>2, <2>3
<1>6. ASSUME pc = "answered", l = job.target PROVE FALSE
  <2>1. Asked /\ listings[l].product = p BY <1>2, <1>3, <1>4, <1>6 DEF Asked
  <2>2. mapping' = [mapping EXCEPT ![p] = l] BY <1>1, <1>6
  <2> QED BY <1>1, <1>2, <1>3, <2>1, <2>2
<1> QED BY <1>2, <1>5, <1>6 DEF Orphans

\* An answered push has a target, and the mapping that holds is the target.
LEMMA MappingStep ==
  ASSUME OutboxInv, MappingHeld, [Next]_vars
  PROVE  MappingHeld'
<1> DEFINE p == ProductOf(job.key)
           m == mapping[p]
<1>1. TypeOK /\ (Busy => job \in JobType /\ job.key \in Keys /\ p \in Products)
      /\ (Busy => job.target \in Ids \cup {Nowhere})
  BY KeyProduct DEF OutboxInv, JobType
<1>2. Asked => Busy BY DEF Asked, Busy
<1>3. ASSUME Busy, m # Nowhere PROVE m \in DOMAIN listings BY <1>1, <1>3 DEF OutboxInv, Fits
<1>4. CASE ~Asked' BY <1>4 DEF Asked, MappingHeld
<1>5. CASE PreparePush
  <2>1. PICK target \in Targets(p, job.attempts) :
          job' = [job EXCEPT !.target = target, !.payload = product[p]]
    BY <1>5 DEF PreparePush, Payload
  <2>2. Busy /\ pc' = "sending" /\ UNCHANGED <<product, outbox, listings>>
    BY <1>5 DEF PreparePush, Busy
  <2>3. job'.target = target /\ job'.key = job.key BY <1>1, <2>1, <2>2 DEF JobType
  <2>4. m # Nowhere => target = m BY <2>1 DEF Targets
  <2> QED BY <2>2, <2>3, <2>4 DEF MappingHeld, outbox
<1>6. CASE SendPush
  <2>1. Sending /\ Asked /\ Busy /\ CanAccept /\ listings' = Accepted /\ UNCHANGED outbox
    BY <1>6 DEF SendPush, Sending, Asked, Busy
  <2>2. Grown(listings, listings') BY <2>1, AcceptedGrows
  <2>3. m # Nowhere /\ listings'[m].there => job.target = m
    BY <1>3, <2>1, <2>2 DEF MappingHeld, Grown
  <2>4. CASE job.target = Nowhere
    <3> DEFINE n == Len(listings) + 1
    <3>1. job' = [job EXCEPT !.target = n] /\ n \in Ids
      BY <1>6, <2>1, <2>4, AcceptedStore DEF SendPush
    <3> HIDE DEF n
    <3>2. job'.target = n /\ job'.key = job.key BY <1>1, <2>1, <3>1 DEF JobType
    <3>3. n # Nowhere BY <3>1, OutboxAssumption
    <3>4. ~(m # Nowhere /\ listings'[m].there) BY <2>3, <2>4
    <3> QED BY <2>1, <3>2, <3>3, <3>4 DEF MappingHeld, outbox
  <2>5. CASE job.target # Nowhere
    <3>1. job' = job BY <1>6, <2>5 DEF SendPush
    <3> QED BY <2>1, <2>3, <2>5, <3>1 DEF MappingHeld, outbox
  <2> QED BY <2>4, <2>5
<1>7. CASE ReplaceListing
  <2>1. PICK target \in Found(p) : job' = [job EXCEPT !.target = target, !.tries = 0]
    BY <1>7 DEF ReplaceListing
  <2>2. /\ Asked /\ Busy /\ pc' = "resending" /\ UNCHANGED <<outbox, listings>>
        /\ job.target # Nowhere /\ ~listings[job.target].there
    BY <1>7 DEF ReplaceListing, Asked, Busy, TargetGone
  <2>3. job'.key = job.key BY <1>1, <2>1, <2>2 DEF JobType
  <2>4. ~(m # Nowhere /\ listings[m].there) BY <2>2 DEF MappingHeld
  <2> QED BY <2>2, <2>3, <2>4 DEF MappingHeld, outbox
<1>8. CASE LoseAnswer /\ Asked'
  <2>1. Sending /\ Asked /\ Busy BY <1>8 DEF LoseAnswer, Sending, Asked, Busy
  <2>2. job' = [job EXCEPT !.tries = @ + 1] /\ UNCHANGED <<outbox, pc>>
    BY <1>8 DEF LoseAnswer, FailRecord, Asked
  <2>3. job'.key = job.key /\ job'.target = job.target BY <1>1, <2>1, <2>2 DEF JobType
  <2>4. UNCHANGED listings \/ Grown(listings, listings') BY <1>8, <2>1, AcceptedGrows DEF LoseAnswer
  <2>5. m # Nowhere /\ listings'[m].there => job.target = m
    BY <1>3, <2>1, <2>4 DEF MappingHeld, Grown
  <2>6. pc' = pc /\ pc # "answered" BY <2>1, <2>2 DEF Sending
  <2> QED BY <2>2, <2>3, <2>5, <2>6 DEF MappingHeld, outbox
<1>9. CASE \E l \in DOMAIN listings : RemoveListing(l)
  <2>1. PICK l \in DOMAIN listings : RemoveListing(l) BY <1>9
  <2>2. UNCHANGED <<outbox, worker>> BY <2>1 DEF RemoveListing
  <2>3. Asked /\ m # Nowhere /\ listings'[m].there => listings[m].there BY <1>2, <1>3, <2>1, Shrinks
  <2> QED BY <2>2, <2>3 DEF MappingHeld, Asked, outbox, worker
<1>10. CASE UNCHANGED <<mapping, listings, worker>> BY <1>10 DEF MappingHeld, Asked, worker
<1>11. ASSUME Asked', ~PreparePush, ~SendPush, ~ReplaceListing, ~LoseAnswer,
              ~\E l \in DOMAIN listings : RemoveListing(l)
       PROVE  UNCHANGED <<mapping, listings, worker>>
  BY <1>11 DEF Next, Work, Fault, vars, EditProduct, BeginRun, ReadOutbox, ClaimRecord, Asked,
               SettlePush, AbandonPush, RefusePush, LimitRate, CrashWorker, RetryDue, FailRecord,
               outbox, worker
<1> QED BY <1>4, <1>5, <1>6, <1>7, <1>8, <1>9, <1>10, <1>11

\* A fault of a kind adds one to what happened of it and nothing to the others.
LEMMA FaultCounted ==
  ASSUME OutboxInv, [Next]_vars
  PROVE  /\ faults["crash"] \in Nat /\ faults["lost"] \in Nat
         /\ faults'["crash"] \in Nat /\ faults'["lost"] \in Nat
         /\ faults["crash"] <= faults'["crash"] /\ faults["lost"] <= faults'["lost"]
         /\ CrashWorker => faults'["crash"] = faults["crash"] + 1
         /\ LoseAnswer => faults'["lost"] = faults["lost"] + 1
         /\ \A kind \in {"error", "lost", "removed"} : faults'[kind] = 0 => faults[kind] = 0
<1>1. faults \in [FaultKinds -> Nat] BY DEF OutboxInv, TypeOK
<1>2. ASSUME NEW kind \in FaultKinds, Happens(kind)
      PROVE  /\ faults'[kind] = faults[kind] + 1
             /\ \A other \in FaultKinds \ {kind} : faults'[other] = faults[other]
  BY <1>1, <1>2 DEF Happens
<1>3. UNCHANGED faults \/ \E kind \in FaultKinds : Happens(kind)
  BY DEF Next, Work, Fault, vars, EditProduct, BeginRun, ReadOutbox, ClaimRecord, PreparePush,
         SendPush, ReplaceListing, SettlePush, AbandonPush, RefusePush, LoseAnswer, LimitRate,
         CrashWorker, RemoveListing, RetryDue, FaultKinds
<1>4. \A kind \in FaultKinds : /\ faults[kind] \in Nat /\ faults'[kind] \in Nat
                               /\ faults[kind] <= faults'[kind]
  BY <1>1, <1>2, <1>3
<1>5. \A kind \in FaultKinds : faults'[kind] = 0 => faults[kind] = 0 BY <1>4
<1>6. CrashWorker => Happens("crash") BY DEF CrashWorker
<1>7. LoseAnswer => Happens("lost") BY DEF LoseAnswer
<1> QED BY <1>2, <1>4, <1>5, <1>6, <1>7 DEF FaultKinds

\* One listing more that nothing knows of takes one fault more.
LEMMA FewStep ==
  ASSUME OutboxInv, MappingHeld, OrphansFew, [Next]_vars
  PROVE  OrphansFew'
<1> DEFINE p == ProductOf(job.key)
           n == Len(listings) + 1
           count == faults["crash"] + faults["lost"]
<1>1. IsFiniteSet(Orphans) /\ Cardinality(Orphans) \in Nat
  <2>1. Orphans \subseteq 1..Len(listings) /\ Len(listings) \in Nat BY Typed DEF OutboxInv, Orphans
  <2>2. IsFiniteSet(1..Len(listings)) BY <2>1, FS_Interval
  <2>3. IsFiniteSet(Orphans) BY <2>1, <2>2, FS_Subset
  <2> QED BY <2>3, FS_CardinalityType
<1>2. \/ Orphans' \subseteq Orphans
      \/ \E x : Orphans' \subseteq Orphans \cup {x} /\ (CrashWorker \/ LoseAnswer)
  <2>1. CASE LoseAnswer
    <3>1. Sending /\ Asked /\ pc # "answered" BY <2>1 DEF LoseAnswer, Sending, Asked
    <3>2. UNCHANGED mapping \/ mapping' = [mapping EXCEPT ![p] = job.target]
      BY <2>1, <3>1 DEF LoseAnswer, FailRecord, KeepTarget, Mapped, outbox
    <3>3. UNCHANGED listings \/ Grown(listings, listings')
      BY <2>1, <3>1, AcceptedGrows DEF LoseAnswer
    <3>4. \A l \in DOMAIN listings' \ {n} : /\ l \in DOMAIN listings
                                            /\ listings'[l].product = listings[l].product
                                            /\ listings'[l].there => listings[l].there
      BY <3>3 DEF Grown, Kept
    <3>5. Orphans' \subseteq Orphans \cup {n} BY <3>1, <3>2, <3>4, OrphansStay
    <3> QED BY <2>1, <3>5
  <2>2. CASE CrashWorker
    <3>1. UNCHANGED <<mapping, listings>> BY <2>2 DEF CrashWorker, outbox
    <3>2. Orphans' \subseteq Orphans \cup {job.target} BY <3>1, OrphansStay
    <3> QED BY <2>2, <3>2
  <2>3. CASE SendPush
    <3>1. /\ Sending /\ CanAccept /\ listings' = Accepted /\ UNCHANGED outbox
          /\ pc # "answered" /\ pc' = "answered"
      BY <2>3 DEF SendPush, Sending
    <3>2. Grown(listings, listings') BY <3>1, AcceptedGrows
    <3>3. CASE job.target = Nowhere
      <4>1. DOMAIN listings' \subseteq DOMAIN listings \cup {n} BY <3>2 DEF Grown
      <4>2. Orphans' \subseteq Orphans \cup {n}
        BY <3>1, <3>2, <4>1, OrphansStay DEF Grown, Kept, outbox
      <4>3. job' = [job EXCEPT !.target = n] BY <2>3, <3>3 DEF SendPush
      <4> HIDE DEF n
      <4>4. job'.target = n BY <3>1, <4>3 DEF OutboxInv, Sending, Busy, JobType
      <4>5. n \notin Orphans' BY <3>1, <4>4 DEF Orphans
      <4> QED BY <4>2, <4>5
    <3>4. CASE job.target # Nowhere
      <4>1. DOMAIN listings' = DOMAIN listings BY <3>1, <3>4, AcceptedGrows
      <4>2. Orphans' \subseteq Orphans \cup {}
        BY <3>1, <3>2, <4>1, OrphansStay DEF Grown, Kept, outbox
      <4> QED BY <4>2
    <3> QED BY <3>3, <3>4
  <2>4. CASE \E l \in DOMAIN listings : RemoveListing(l)
    <3>1. PICK l \in DOMAIN listings : RemoveListing(l) BY <2>4
    <3>2. UNCHANGED <<outbox, worker>> BY <3>1 DEF RemoveListing
    <3>3. Orphans' \subseteq Orphans \cup {} BY <3>1, <3>2, Shrinks, OrphansStay DEF outbox, worker
    <3> QED BY <3>3
  <2>5. ASSUME ~LoseAnswer, ~CrashWorker, ~SendPush, ~\E l \in DOMAIN listings : RemoveListing(l)
        PROVE  Orphans' \subseteq Orphans
    <3>1. UNCHANGED listings BY <2>5, StoreChange
    <3>2. \/ UNCHANGED mapping
          \/ Asked /\ mapping' = [mapping EXCEPT ![p] = job.target]
      BY <2>5 DEF Next, Work, Fault, vars, EditProduct, BeginRun, ReadOutbox, ClaimRecord,
                  PreparePush, ReplaceListing, SettlePush, AbandonPush, RefusePush, LimitRate,
                  RetryDue, FailRecord, KeepTarget, Mapped, Asked, Sending, outbox
    <3>3. pc = "answered" => \/ pc' = "answered" /\ job' = job
                             \/ mapping' = [mapping EXCEPT ![p] = job.target]
      BY <2>5 DEF Next, Work, Fault, vars, EditProduct, BeginRun, ReadOutbox, ClaimRecord,
                  PreparePush, ReplaceListing, SettlePush, AbandonPush, RefusePush, LimitRate,
                  RetryDue, Mapped, Sending, worker
    <3>4. Orphans' \subseteq Orphans \cup {} BY <3>1, <3>2, <3>3, OrphansStay
    <3> QED BY <3>4
  <2> QED BY <2>1, <2>2, <2>3, <2>4, <2>5
<1>3. CASE Orphans' \subseteq Orphans
  <2>1. Cardinality(Orphans') <= Cardinality(Orphans) /\ Cardinality(Orphans') \in Nat
    BY <1>1, <1>3, FS_Subset, FS_CardinalityType
  <2> QED BY <1>1, <2>1, FaultCounted DEF OrphansFew
<1>4. CASE ~(Orphans' \subseteq Orphans)
  <2>1. PICK x : Orphans' \subseteq Orphans \cup {x} /\ (CrashWorker \/ LoseAnswer) BY <1>2, <1>4
  <2> DEFINE more == Orphans \cup {x}
  <2>2. /\ IsFiniteSet(more) /\ Cardinality(more) \in Nat
        /\ Cardinality(more) <= Cardinality(Orphans) + 1
    BY <1>1, FS_AddElement, FS_CardinalityType
  <2>3. Cardinality(Orphans') <= Cardinality(more) /\ Cardinality(Orphans') \in Nat
    BY <2>1, <2>2, FS_Subset, FS_CardinalityType
  <2> HIDE DEF more
  <2> QED BY <1>1, <2>1, <2>2, <2>3, FaultCounted DEF OrphansFew
<1> QED BY <1>3, <1>4

--------------------
\* The product of the key has only ever had its content, and nothing but
\* crashes and refusals of the store's rate limit has happened.
Fresh(k) == /\ product[ProductOf(k)].content = k[2] /\ product[ProductOf(k)].edit = 0
            /\ \A kind \in {"error", "lost", "removed"} : faults[kind] = 0

Pushing(p) == Busy /\ ProductOf(job.key) = p

\* The record of the key is the only one of its product, and it counts its
\* attempts without a gap.
OnlyRecord(k) ==
  /\ \A r \in Keys \ {k} : ProductOf(r) = ProductOf(k)
                             => records[r].status = "none" /\ r \notin DOMAIN queue
  /\ records[k].status # "failed"
  /\ k \in DOMAIN queue => queue[k] = records[k].attempts /\ records[k].status # "none"
  /\ Pushing(ProductOf(k)) => /\ job.key = k /\ job.attempts = records[k].attempts
                              /\ records[k].status # "none"

\* What the store has and the mapping does not is looked for before a request.
LookedFor(k) ==
  ListingsOf(ProductOf(k)) # {} /\ mapping[ProductOf(k)] = Nowhere =>
    /\ records[k].attempts >= 1 /\ records[k].status # "none"
    /\ Pushing(ProductOf(k)) /\ pc = "claimed" => job.attempts >= 2
    /\ Pushing(ProductOf(k)) /\ Sending => job.target # Nowhere

ListedOnce(p) == \A l, m \in ListingsOf(p) : l = m

FirstPush == \A k \in Keys : Fresh(k) => OnlyRecord(k) /\ LookedFor(k) /\ ListedOnce(ProductOf(k))

\* With what it rests on.
AccountInv == MappingHeld /\ OrphansFew /\ NothingGone /\ FirstPush

\* Listings go when somebody takes them out, which is counted.
LEMMA GoneStep ==
  ASSUME OutboxInv, NothingGone, [Next]_vars
  PROVE  NothingGone'
<1> SUFFICES ASSUME faults'["removed"] = 0 PROVE \A l \in DOMAIN listings' : listings'[l].there
  BY DEF NothingGone
<1>1. faults["removed"] = 0 BY FaultCounted
<1>2. ASSUME NEW l \in DOMAIN listings, RemoveListing(l) PROVE FALSE
  <2>1. faults["removed"] \in Nat /\ faults \in [FaultKinds -> Nat] /\ "removed" \in FaultKinds
    BY DEF OutboxInv, TypeOK, FaultKinds
  <2>2. faults'["removed"] = faults["removed"] + 1 BY <1>2, <2>1 DEF RemoveListing, Happens
  <2> QED BY <2>1, <2>2
<1>3. UNCHANGED listings \/ Grown(listings, listings') BY <1>2, StoreChange
<1> QED BY <1>1, <1>3 DEF NothingGone, Grown

\* Nothing that has broken off or been taken out comes to be undone.
LEMMA FreshBefore ==
  ASSUME OutboxInv, NothingGone, [Next]_vars, NEW k \in Keys, Fresh(k)'
  PROVE  /\ Fresh(k) /\ product'[ProductOf(k)] = product[ProductOf(k)]
         /\ \A l \in DOMAIN listings : listings[l].there
         /\ ~RefusePush /\ ~LoseAnswer /\ ~(\E l \in DOMAIN listings : RemoveListing(l))
         /\ Busy => ~TargetGone
<1> DEFINE p == ProductOf(k)
<1>1. TypeOK /\ p \in Products BY KeyProduct DEF OutboxInv
<1>2. \A kind \in {"error", "lost", "removed"} : faults[kind] = 0 /\ faults'[kind] = 0
  BY FaultCounted DEF Fresh
<1>3. product'[p] = product[p]
  <2>1. ASSUME NEW q \in Products, NEW content \in Contents, NEW enqueue \in BOOLEAN,
               EditProduct(q, content, enqueue), q = p
        PROVE  FALSE
    <3> DEFINE v == [content |-> content, edit |-> product[p].edit + 1]
    <3>1. product' = [product EXCEPT ![p] = v] BY <2>1 DEF EditProduct
    <3>2. product'[p].edit = product[p].edit + 1 /\ product[p].edit \in Nat
      BY <1>1, <3>1, Typed DEF TypeOK
    <3> QED BY <3>2 DEF Fresh
  <2>2. ASSUME NEW q \in Products, NEW content \in Contents, NEW enqueue \in BOOLEAN,
               EditProduct(q, content, enqueue), q # p
        PROVE  product'[p] = product[p]
    BY <1>1, <2>2 DEF EditProduct, TypeOK
  <2>3. ASSUME ~\E q \in Products, content \in Contents, enqueue \in BOOLEAN :
                  EditProduct(q, content, enqueue)
        PROVE  UNCHANGED product
    BY <2>3 DEF Next, Work, Fault, vars, BeginRun, ReadOutbox, ClaimRecord, PreparePush, SendPush,
                ReplaceListing, SettlePush, AbandonPush, RefusePush, LoseAnswer, LimitRate,
                CrashWorker, RemoveListing, RetryDue, FailRecord
  <2> QED BY <2>1, <2>2, <2>3
<1>4. \A l \in DOMAIN listings : listings[l].there BY <1>2 DEF NothingGone
<1>5. \A kind \in {"error", "lost", "removed"} : ~Happens(kind)
  BY <1>1, <1>2 DEF Happens, TypeOK, FaultKinds
<1>6. ~RefusePush /\ ~LoseAnswer /\ ~(\E l \in DOMAIN listings : RemoveListing(l))
  BY <1>5 DEF RefusePush, LoseAnswer, RemoveListing
<1>7. Busy => ~TargetGone BY <1>4 DEF OutboxInv, Fits, TargetGone
<1> QED BY <1>2, <1>3, <1>4, <1>6, <1>7 DEF Fresh

\* A step that is not about the product leaves all this as it is.
LEMMA Aside ==
  ASSUME OutboxInv, NEW k \in Keys, OnlyRecord(k), LookedFor(k), ListedOnce(ProductOf(k)),
         \A r \in Keys : ProductOf(r) = ProductOf(k)
           => /\ records'[r].status = records[r].status
              /\ records'[r].attempts = records[r].attempts
              /\ r \in DOMAIN queue' => r \in DOMAIN queue /\ queue'[r] = queue[r],
         mapping'[ProductOf(k)] = mapping[ProductOf(k)],
         ListingsOf(ProductOf(k))' = ListingsOf(ProductOf(k)),
         Pushing(ProductOf(k))' => Pushing(ProductOf(k)) /\ UNCHANGED <<pc, job>>
  PROVE  OnlyRecord(k)' /\ LookedFor(k)' /\ ListedOnce(ProductOf(k))'
<1> DEFINE p == ProductOf(k)
<1>1. OnlyRecord(k)' BY DEF OnlyRecord
<1>2. LookedFor(k)' BY DEF LookedFor, Sending
<1>3. ListedOnce(p)' BY DEF ListedOnce
<1> QED BY <1>1, <1>2, <1>3

\* Enqueueing leaves the products it is not about, and gives a product the
\* record of its content.
LEMMA EnqueuedLeaves ==
  ASSUME NEW P, NEW E, NEW r \in Keys, ~(ProductOf(r) \in E /\ P[ProductOf(r)].content = r[2])
  PROVE  EnqueuedProducts(P, E)[r] = records[r]
BY DEF EnqueuedProducts

\* Keys of one product differ in their contents.
LEMMA KeyContent == \A k, r \in Keys : ProductOf(r) = ProductOf(k) /\ r # k => r[2] # k[2]
BY DEF Keys, ProductOf

LEMMA EditFresh ==
  ASSUME OutboxInv, NEW k \in Keys, OnlyRecord(k), LookedFor(k), ListedOnce(ProductOf(k)),
         product'[ProductOf(k)] = product[ProductOf(k)],
         NEW q \in Products, NEW content \in Contents, NEW enqueue \in BOOLEAN,
         EditProduct(q, content, enqueue)
  PROVE  OnlyRecord(k)' /\ LookedFor(k)' /\ ListedOnce(ProductOf(k))'
<1> DEFINE p == ProductOf(k)
<1>1. TypeOK /\ p \in Products /\ UNCHANGED <<mapping, listings, worker, faults>>
  BY KeyProduct DEF OutboxInv, EditProduct
<1>2. q # p
  <2> SUFFICES ASSUME q = p PROVE FALSE OBVIOUS
  <2> DEFINE v == [content |-> content, edit |-> product[p].edit + 1]
  <2>1. product' = [product EXCEPT ![p] = v] BY DEF EditProduct
  <2>2. product'[p].edit = product[p].edit + 1 /\ product[p].edit \in Nat
    BY <1>1, <2>1, Typed DEF TypeOK
  <2> QED BY <2>2
<1>3. \A r \in Keys : ProductOf(r) = p => records'[r] = records[r]
  BY <1>2, EnqueuedLeaves DEF EditProduct
<1>4. ListingsOf(p)' = ListingsOf(p) BY <1>1 DEF ListingsOf
<1>5. Pushing(p)' = Pushing(p) /\ Pushing(p) \in BOOLEAN BY <1>1 DEF Pushing, Busy, worker
<1> QED BY <1>1, <1>3, <1>4, <1>5, Aside DEF worker

\* A run of a publishing mode enqueues what has no record and leaves the rest.
LEMMA BeginFresh ==
  ASSUME OutboxInv, NEW k \in Keys, Fresh(k),
         OnlyRecord(k), LookedFor(k), ListedOnce(ProductOf(k)),
         NEW publishing \in BOOLEAN, BeginRun(publishing)
  PROVE  OnlyRecord(k)' /\ LookedFor(k)' /\ ListedOnce(ProductOf(k))'
<1> DEFINE p == ProductOf(k)
           E == IF publishing THEN Products ELSE {}
           table == EnqueuedProducts(product, E)
<1>1. TypeOK /\ p \in Products /\ k \in Keys /\ records \in [Keys -> SyncOutboxRow]
  BY KeyProduct DEF OutboxInv, TypeOK
<1>2. /\ records' = [r \in Keys |-> Recovered(table[r])] /\ queue' = <<>> /\ pc' = "draining"
      /\ UNCHANGED <<product, mapping, listings, faults>>
  BY DEF BeginRun
<1>3. \A r \in Keys \ {k} : ProductOf(r) = p => table[r] = records[r]
  BY KeyContent, EnqueuedLeaves DEF Fresh
<1>4. /\ table[k].status # "failed"
      /\ records[k].status # "none" => table[k] = records[k]
  BY <1>1 DEF EnqueuedProducts, Enqueued, NewRecord, OnlyRecord, OpenStatuses
<1>5. table \in [Keys -> SyncOutboxRow] BY <1>1, EnqueuedTyped
<1>6. \A row \in SyncOutboxRow : /\ Recovered(row).attempts = row.attempts
                                 /\ row.status = "none" => Recovered(row).status = "none"
                                 /\ row.status # "none" => Recovered(row).status # "none"
                                 /\ row.status # "failed" => Recovered(row).status # "failed"
  BY DEF Recovered, SyncOutboxRow
<1> HIDE DEF table
<1>7. \A r \in Keys : records'[r] = Recovered(table[r]) /\ table[r] \in SyncOutboxRow BY <1>2, <1>5
<1>8. /\ \A r \in Keys \ {k} : ProductOf(r) = p => records'[r].status = "none"
      /\ records'[k].status # "failed"
      /\ records[k].status # "none" => /\ records'[k].status # "none"
                                       /\ records'[k].attempts = records[k].attempts
  BY <1>1, <1>3, <1>4, <1>6, <1>7 DEF OnlyRecord
<1>9. DOMAIN queue' = {} /\ ~Pushing(p)' BY <1>2 DEF Pushing, Busy
<1>10. ListingsOf(p)' = ListingsOf(p) /\ mapping' = mapping BY <1>2 DEF ListingsOf
<1>11. OnlyRecord(k)' BY <1>8, <1>9 DEF OnlyRecord
<1>12. LookedFor(k)' BY <1>8, <1>9, <1>10 DEF LookedFor
<1> QED BY <1>10, <1>11, <1>12 DEF ListedOnce

LEMMA ReadFresh ==
  ASSUME OutboxInv, NEW k \in Keys, OnlyRecord(k), LookedFor(k), ListedOnce(ProductOf(k)),
         ReadOutbox
  PROVE  OnlyRecord(k)' /\ LookedFor(k)' /\ ListedOnce(ProductOf(k))'
<1> DEFINE p == ProductOf(k)
<1>1. UNCHANGED <<product, outbox, listings, done, job, faults>> /\ pc = "draining"
      /\ pc' \in {"idle", "draining"}
  BY DEF ReadOutbox
<1>2. \A r \in DOMAIN queue' : /\ r \in Keys /\ records[r].status \in OpenStatuses
                               /\ queue'[r] = records[r].attempts
  BY DEF ReadOutbox, Pending
<1>3. ~Pushing(p)' BY <1>1 DEF Pushing, Busy
<1>4. OnlyRecord(k)' BY <1>1, <1>2, <1>3 DEF OnlyRecord, outbox, OpenStatuses
<1>5. ListingsOf(p)' = ListingsOf(p) BY <1>1 DEF ListingsOf
<1> QED BY <1>1, <1>3, <1>4, <1>5 DEF LookedFor, ListedOnce, outbox

\* The second attempt comes after the first was counted.
LEMMA ClaimFresh ==
  ASSUME OutboxInv, NEW k \in Keys, OnlyRecord(k), LookedFor(k), ListedOnce(ProductOf(k)),
         NEW r \in Keys, ClaimRecord(r)
  PROVE  OnlyRecord(k)' /\ LookedFor(k)' /\ ListedOnce(ProductOf(k))'
<1> DEFINE p == ProductOf(k)
           row == [status |-> "processing", attempts |-> queue[r] + 1, later |-> TRUE]
<1>1. /\ TypeOK /\ r \in DOMAIN queue /\ queue[r] \in Nat /\ records \in [Keys -> SyncOutboxRow]
      /\ UNCHANGED <<product, mapping, listings, faults>> /\ pc' = "claimed"
      /\ records' = [records EXCEPT ![r] = row]
      /\ queue' = Without(queue, {r}) /\ job' = Job(r, queue[r] + 1)
  BY OutboxAssumption DEF ClaimRecord, OutboxInv, TypeOK, QueueCounts
<1>2. job'.key = r /\ job'.attempts = queue[r] + 1 BY <1>1 DEF Job
<1>3. /\ row.status = "processing" /\ row.attempts = queue[r] + 1 OBVIOUS
<1> HIDE DEF row
<1>4. ListingsOf(p)' = ListingsOf(p) BY <1>1 DEF ListingsOf
<1>5. /\ DOMAIN queue' \subseteq DOMAIN queue \ {r}
      /\ \A s \in DOMAIN queue' : queue'[s] = queue[s]
  BY <1>1 DEF Without
<1>6. CASE ProductOf(r) # p
  <2>1. \A s \in Keys : ProductOf(s) = p => records'[s] = records[s] BY <1>1, <1>6
  <2>2. ~Pushing(p)' BY <1>2, <1>6 DEF Pushing
  <2> QED BY <1>1, <1>4, <1>5, <2>1, <2>2, Aside
<1>7. CASE ProductOf(r) = p
  <2>1. r = k /\ queue[r] = records[k].attempts /\ records[k].status # "none"
    BY <1>1, <1>7 DEF OnlyRecord
  <2>2. /\ records'[k] = row
        /\ \A s \in Keys \ {k} : records'[s] = records[s]
    BY <1>1, <2>1
  <2>3. OnlyRecord(k)' BY <1>2, <1>3, <1>5, <2>1, <2>2 DEF OnlyRecord
  <2>4. LookedFor(k)'
    <3> SUFFICES ASSUME ListingsOf(p) # {}, mapping[p] = Nowhere
                 PROVE  /\ records'[k].attempts >= 1 /\ records'[k].status # "none"
                        /\ job'.attempts >= 2 /\ ~Sending'
      BY <1>1, <1>4 DEF LookedFor
    <3>1. queue[r] >= 1 BY <2>1 DEF LookedFor
    <3>2. ~Sending' BY <1>1 DEF Sending
    <3> QED BY <1>1, <1>2, <1>3, <2>2, <3>1, <3>2
  <2> QED BY <1>4, <2>3, <2>4 DEF ListedOnce
<1> QED BY <1>6, <1>7

\* A retry without a mapping finds what the store has.
LEMMA PrepareFresh ==
  ASSUME OutboxInv, NEW k \in Keys, OnlyRecord(k), LookedFor(k), ListedOnce(ProductOf(k)),
         PreparePush
  PROVE  OnlyRecord(k)' /\ LookedFor(k)' /\ ListedOnce(ProductOf(k))'
<1> DEFINE p == ProductOf(k)
           q == ProductOf(job.key)
<1>1. /\ TypeOK /\ Busy /\ job \in JobType /\ q \in Products /\ pc = "claimed" /\ pc' = "sending"
      /\ UNCHANGED <<product, outbox, listings, queue, done, faults>>
  BY KeyProduct DEF OutboxInv, PreparePush, Busy, JobType
<1>2. PICK target \in Targets(q, job.attempts) :
        job' = [job EXCEPT !.target = target, !.payload = product[q]]
  BY DEF PreparePush, Payload
<1>3. /\ job'.key = job.key /\ job'.attempts = job.attempts /\ job'.target = target
  BY <1>1, <1>2 DEF JobType
<1>4. ListingsOf(p)' = ListingsOf(p) BY <1>1 DEF ListingsOf
<1>5. (Pushing(p)' <=> q = p) /\ (Pushing(p) <=> q = p) /\ Busy' /\ Sending'
  BY <1>1, <1>3 DEF Pushing, Busy, Sending
<1>6. OnlyRecord(k)' BY <1>1, <1>3, <1>5 DEF OnlyRecord, outbox
<1>7. LookedFor(k)'
  <2> SUFFICES ASSUME ListingsOf(p) # {}, mapping[p] = Nowhere
               PROVE  /\ records[k].attempts >= 1 /\ records[k].status # "none"
                      /\ q = p => target # Nowhere
    BY <1>1, <1>3, <1>4, <1>5 DEF LookedFor, outbox
  <2>1. ASSUME q = p PROVE target # Nowhere
    <3>1. job.attempts >= 2 /\ job.attempts \in Nat BY <1>1, <1>5, <2>1 DEF LookedFor, JobType
    <3>2. target \in ListingsOf(p) BY <1>2, <2>1, <3>1 DEF Targets, Found
    <3> QED BY <1>1, <3>2, Typed DEF ListingsOf
  <2> QED BY <2>1 DEF LookedFor
<1> QED BY <1>4, <1>6, <1>7 DEF ListedOnce

\* Only a product that the store does not have gets a listing.
LEMMA SendFresh ==
  ASSUME OutboxInv, MappingHeld, \A l \in DOMAIN listings : listings[l].there,
         NEW k \in Keys, OnlyRecord(k), LookedFor(k), ListedOnce(ProductOf(k)), SendPush
  PROVE  OnlyRecord(k)' /\ LookedFor(k)' /\ ListedOnce(ProductOf(k))'
<1> DEFINE p == ProductOf(k)
           q == ProductOf(job.key)
           n == Len(listings) + 1
<1>1. /\ TypeOK /\ Sending /\ Asked /\ Busy /\ CanAccept /\ job \in JobType /\ q \in Products
      /\ listings' = Accepted /\ UNCHANGED <<product, outbox, queue, done, faults>>
      /\ pc' = "answered" /\ p \in Products
  BY KeyProduct DEF OutboxInv, SendPush, Sending, Asked, Busy, JobType
<1>2. Grown(listings, listings') BY <1>1, AcceptedGrows
<1>3. job'.key = job.key /\ job'.attempts = job.attempts
  <2>1. job' = [job EXCEPT !.target = n] \/ job' = job BY DEF SendPush
  <2> HIDE DEF n
  <2> QED BY <1>1, <2>1 DEF JobType
<1>4. (Pushing(p)' <=> q = p) /\ (Pushing(p) <=> q = p) /\ ~Sending'
  BY <1>1, <1>3 DEF Pushing, Busy, Sending
<1>5. OnlyRecord(k)' BY <1>1, <1>3, <1>4 DEF OnlyRecord, outbox
<1>6. CASE job.target # Nowhere \/ q # p
  <2>1. ListingsOf(p)' = ListingsOf(p)
    <3>1. DOMAIN listings \subseteq DOMAIN listings' BY <1>2 DEF Grown, Kept
    <3>2. \A l \in DOMAIN listings : /\ listings'[l].product = listings[l].product
                                     /\ listings'[l].there = listings[l].there
      BY <1>2 DEF Grown, Kept
    <3>3. \A l \in DOMAIN listings' \ DOMAIN listings : listings'[l].product # p
      BY <1>2, <1>6 DEF Grown
    <3> QED BY <3>1, <3>2, <3>3 DEF ListingsOf
  <2> QED BY <1>1, <1>4, <1>5, <2>1 DEF LookedFor, ListedOnce, outbox
<1>7. CASE job.target = Nowhere /\ q = p
  <2>1. ListingsOf(p) = {}
    <3> SUFFICES ASSUME ListingsOf(p) # {} PROVE FALSE OBVIOUS
    <3>1. mapping[p] # Nowhere BY <1>1, <1>4, <1>7 DEF LookedFor
    <3>2. mapping[p] \in DOMAIN listings BY <1>1, <3>1 DEF OutboxInv, Fits
    <3> QED BY <1>1, <1>7, <3>1, <3>2 DEF MappingHeld
  <2>2. ListingsOf(p)' \subseteq {n}
    <3>1. \A l \in DOMAIN listings : ~(listings[l].product = p /\ listings[l].there)
      BY <2>1 DEF ListingsOf
    <3>2. \A l \in DOMAIN listings : ~(listings'[l].product = p /\ listings'[l].there)
      BY <1>2, <3>1 DEF Grown, Kept
    <3>3. DOMAIN listings' \subseteq DOMAIN listings \cup {n} BY <1>2 DEF Grown
    <3> QED BY <3>2, <3>3 DEF ListingsOf
  <2>3. ListedOnce(p)' BY <2>2 DEF ListedOnce
  <2>4. /\ records[k].attempts >= 1 /\ records[k].status # "none" /\ UNCHANGED records
    <3>1. job.attempts = records[k].attempts /\ records[k].status # "none"
      BY <1>4, <1>7 DEF OnlyRecord
    <3>2. job.attempts \in 1..MaxAttempts /\ UNCHANGED records BY <1>1 DEF JobType, outbox
    <3> QED BY <3>1, <3>2, OutboxAssumption
  <2>5. LookedFor(k)' BY <1>1, <1>4, <2>4 DEF LookedFor
  <2> QED BY <1>5, <2>3, <2>5
<1> QED BY <1>6, <1>7

\* What is synced stays recorded, and the mapping knows the listing.
LEMMA SettleFresh ==
  ASSUME OutboxInv, MappingHeld,
         NEW k \in Keys, OnlyRecord(k), LookedFor(k), ListedOnce(ProductOf(k)), SettlePush
  PROVE  OnlyRecord(k)' /\ LookedFor(k)' /\ ListedOnce(ProductOf(k))'
<1> DEFINE p == ProductOf(k)
           q == ProductOf(job.key)
<1>1. /\ TypeOK /\ Busy /\ job \in JobType /\ job.key \in Keys /\ q \in Products
      /\ p \in Products /\ job.target # Nowhere /\ records \in [Keys -> SyncOutboxRow]
      /\ UNCHANGED <<product, listings, done, faults>> /\ pc' = "draining"
  BY KeyProduct DEF OutboxInv, SettlePush, Busy, JobType, MappingHeld, TypeOK
<1>2. /\ records' = Superseded(records, job.key)
      /\ queue' = Without(queue, {r \in Keys : ProductOf(r) = q})
      /\ mapping' = [mapping EXCEPT ![q] = job.target]
  BY DEF SettlePush, Mapped
<1>3. ~Pushing(p)' /\ ListingsOf(p)' = ListingsOf(p) BY <1>1 DEF Pushing, Busy, ListingsOf
<1>4. /\ DOMAIN queue' \subseteq DOMAIN queue
      /\ \A r \in DOMAIN queue' : queue'[r] = queue[r] /\ (r \in Keys => ProductOf(r) # q)
  BY <1>2 DEF Without
<1>5. CASE q # p
  <2>1. \A r \in Keys : ProductOf(r) = p => records'[r] = records[r] BY <1>2, <1>5 DEF Superseded
  <2>2. mapping'[p] = mapping[p] BY <1>1, <1>2, <1>5 DEF TypeOK
  <2> QED BY <1>3, <1>4, <2>1, <2>2, Aside
<1>6. CASE q = p
  <2>1. job.key = k BY <1>1, <1>6 DEF OnlyRecord, Pushing
  <2>2. \A r \in Keys \ {k} : ProductOf(r) = p => records'[r] = records[r]
    <3>1. \A r \in Keys \ {k} : ProductOf(r) = p => records[r].status = "none" BY DEF OnlyRecord
    <3> QED BY <1>2, <2>1, <3>1 DEF Superseded, OpenStatuses
  <2>3. records'[k].status = "synced"
    <3>1. \A row \in SyncOutboxRow : [row EXCEPT !.status = "synced", !.later = FALSE].status = "synced"
      BY DEF SyncOutboxRow
    <3>2. records'[k] = [records[k] EXCEPT !.status = "synced", !.later = FALSE]
      BY <1>2, <2>1 DEF Superseded
    <3> QED BY <1>1, <3>1, <3>2
  <2>4. \A r \in Keys : ProductOf(r) = p => r \notin DOMAIN queue' BY <1>4, <1>6
  <2>5. OnlyRecord(k)' BY <1>3, <2>2, <2>3, <2>4 DEF OnlyRecord
  <2>6. mapping'[p] # Nowhere BY <1>1, <1>2, <1>6 DEF TypeOK
  <2> QED BY <1>3, <2>5, <2>6 DEF LookedFor, ListedOnce
<1> QED BY <1>5, <1>6

\* An attempt is only given back when the mapping knows what it may have made.
LEMMA LimitFresh ==
  ASSUME OutboxInv, MappingHeld, \A l \in DOMAIN listings : listings[l].there,
         NEW k \in Keys, OnlyRecord(k), LookedFor(k), ListedOnce(ProductOf(k)), LimitRate
  PROVE  OnlyRecord(k)' /\ LookedFor(k)' /\ ListedOnce(ProductOf(k))'
<1> DEFINE p == ProductOf(k)
           q == ProductOf(job.key)
           row == [status |-> "pending", attempts |-> job.attempts - 1, later |-> FALSE]
<1>1. /\ TypeOK /\ Busy /\ job \in JobType /\ job.key \in Keys /\ q \in Products
      /\ p \in Products /\ pc' = "idle" /\ queue' = <<>> /\ UNCHANGED <<product, listings>>
      /\ records \in [Keys -> SyncOutboxRow]
  BY KeyProduct DEF OutboxInv, LimitRate, Busy, Sending, JobType, TypeOK
<1>2. ~Pushing(p)' /\ ListingsOf(p)' = ListingsOf(p) /\ DOMAIN queue' = {}
  BY <1>1 DEF Pushing, Busy, ListingsOf
<1>3. records' = [records EXCEPT ![job.key] = row] BY DEF LimitRate
<1>4. row.status = "pending" /\ row.attempts = job.attempts - 1 OBVIOUS
<1> HIDE DEF row
<1>5. mapping' = IF Sending THEN [mapping EXCEPT ![q] = job.target] ELSE mapping
  BY DEF LimitRate, KeepTarget, Mapped
<1>6. CASE q # p
  <2>1. \A r \in Keys : ProductOf(r) = p => records'[r] = records[r] BY <1>3, <1>6
  <2>2. mapping'[p] = mapping[p] BY <1>1, <1>5, <1>6 DEF TypeOK
  <2> QED BY <1>2, <2>1, <2>2, Aside
<1>7. CASE q = p
  <2>1. job.key = k /\ job.attempts = records[k].attempts BY <1>1, <1>7 DEF OnlyRecord, Pushing
  <2>2. records'[k] = row /\ \A r \in Keys \ {k} : records'[r] = records[r] BY <1>1, <1>3, <2>1
  <2>3. OnlyRecord(k)' BY <1>2, <1>4, <2>2 DEF OnlyRecord
  <2>4. ASSUME ListingsOf(p) # {}, mapping'[p] = Nowhere PROVE job.attempts >= 2
    <3>1. CASE Sending
      <4>1. job.target = Nowhere BY <1>1, <1>5, <1>7, <2>4, <3>1 DEF TypeOK
      <4>2. mapping[p] # Nowhere BY <1>1, <1>7, <2>4, <3>1, <4>1 DEF LookedFor, Pushing
      <4>3. mapping[p] \in DOMAIN listings /\ Asked
        BY <1>1, <3>1, <4>2 DEF OutboxInv, Fits, Sending, Asked
      <4> QED BY <1>7, <4>1, <4>2, <4>3 DEF MappingHeld
    <3>2. CASE ~Sending
      <4>1. job.attempts > 1 /\ job.attempts \in Nat BY <1>1, <3>2 DEF LimitRate, JobType
      <4> QED BY <4>1
    <3> QED BY <3>1, <3>2
  <2>5. LookedFor(k)'
    <3>1. job.attempts \in Nat BY <1>1 DEF JobType
    <3> QED BY <1>2, <1>4, <2>2, <2>4, <3>1 DEF LookedFor
  <2> QED BY <1>2, <2>3, <2>5 DEF ListedOnce
<1> QED BY <1>6, <1>7

LEMMA FirstPushStep ==
  ASSUME OutboxInv, MappingHeld, NothingGone, FirstPush, [Next]_vars
  PROVE  FirstPush'
<1> SUFFICES ASSUME NEW k \in Keys, Fresh(k)'
             PROVE  OnlyRecord(k)' /\ LookedFor(k)' /\ ListedOnce(ProductOf(k))'
  BY DEF FirstPush
<1> DEFINE p == ProductOf(k)
<1>1. /\ Fresh(k) /\ product'[p] = product[p] /\ \A l \in DOMAIN listings : listings[l].there
      /\ ~RefusePush /\ ~LoseAnswer /\ ~(\E l \in DOMAIN listings : RemoveListing(l))
      /\ Busy => ~TargetGone
  BY FreshBefore
<1>2. OnlyRecord(k) /\ LookedFor(k) /\ ListedOnce(p) BY <1>1 DEF FirstPush
<1>3. ~ReplaceListing /\ ~AbandonPush BY <1>1 DEF ReplaceListing, AbandonPush, Busy
<1>4. CASE \E q \in Products, content \in Contents, enqueue \in BOOLEAN :
             EditProduct(q, content, enqueue)
  BY <1>1, <1>2, <1>4, EditFresh
<1>5. CASE \E publishing \in BOOLEAN : BeginRun(publishing) BY <1>1, <1>2, <1>5, BeginFresh
<1>6. CASE \E r \in Keys : ClaimRecord(r) BY <1>2, <1>6, ClaimFresh
<1>7. CASE ReadOutbox \/ PreparePush \/ SendPush \/ SettlePush \/ LimitRate
  BY <1>1, <1>2, <1>7, ReadFresh, PrepareFresh, SendFresh, SettleFresh, LimitFresh
<1>8. CASE CrashWorker
  <2>1. UNCHANGED <<product, outbox, listings>> /\ pc' = "idle" /\ DOMAIN queue' = {}
    BY <1>8 DEF CrashWorker
  <2>2. ListingsOf(p)' = ListingsOf(p) /\ ~Pushing(p)' BY <2>1 DEF ListingsOf, Pushing, Busy
  <2> QED BY <1>2, <2>1, <2>2, Aside DEF outbox
<1>9. CASE \E r \in Keys : RetryDue(r)
  <2>1. PICK r \in Keys : RetryDue(r) BY <1>9
  <2>2. UNCHANGED <<product, mapping, listings, worker, faults>> BY <2>1 DEF RetryDue
  <2>3. records \in [Keys -> SyncOutboxRow] /\ records' = [records EXCEPT ![r].later = FALSE]
    BY <2>1 DEF RetryDue, OutboxInv, TypeOK
  <2>4. \A row \in SyncOutboxRow : /\ [row EXCEPT !.later = FALSE].status = row.status
                                   /\ [row EXCEPT !.later = FALSE].attempts = row.attempts
    BY DEF SyncOutboxRow
  <2>5. \A s \in Keys : /\ records'[s].status = records[s].status
                        /\ records'[s].attempts = records[s].attempts
    BY <2>3, <2>4
  <2>6. ListingsOf(p)' = ListingsOf(p) /\ (Pushing(p)' => Pushing(p) /\ UNCHANGED <<pc, job>>)
    BY <2>2 DEF ListingsOf, Pushing, Busy, worker
  <2> QED BY <1>2, <2>2, <2>5, <2>6, Aside DEF worker
<1>10. CASE UNCHANGED vars
  <2>1. ListingsOf(p)' = ListingsOf(p) /\ (Pushing(p)' => Pushing(p) /\ UNCHANGED <<pc, job>>)
    BY <1>10 DEF vars, ListingsOf, Pushing, Busy, worker
  <2> QED BY <1>2, <1>10, <2>1, Aside DEF vars, outbox, worker
<1> QED BY <1>1, <1>3, <1>4, <1>5, <1>6, <1>7, <1>8, <1>9, <1>10 DEF Next, Work, Fault

LEMMA AccountStart == Init => AccountInv
<1> SUFFICES ASSUME Init PROVE AccountInv OBVIOUS
<1>1. DOMAIN listings = {} /\ pc = "idle" /\ DOMAIN queue = {} BY DEF Init
<1>2. MappingHeld /\ NothingGone BY <1>1 DEF MappingHeld, NothingGone, Asked
<1>3. OrphansFew
  <2>1. Orphans = {} BY <1>1 DEF Orphans
  <2>2. faults["crash"] = 0 /\ faults["lost"] = 0 BY DEF Init, FaultKinds
  <2> QED BY <2>1, <2>2, FS_EmptySet DEF OrphansFew
<1>4. FirstPush
  <2>1. \A k \in Keys : records[k].status = "none"
    <3>1. records = [k \in Keys |-> [NewRecord EXCEPT !.status = "none"]] BY DEF Init
    <3> QED BY <3>1 DEF NewRecord
  <2>2. \A p : ~Pushing(p) /\ ListingsOf(p) = {} BY <1>1 DEF Pushing, Busy, ListingsOf
  <2> QED BY <1>1, <2>1, <2>2 DEF FirstPush, OnlyRecord, LookedFor, ListedOnce
<1> QED BY <1>2, <1>3, <1>4 DEF AccountInv

LEMMA AccountSound ==
  ASSUME OutboxInv, AccountInv
  PROVE  ListingsAccounted
<1>1. InterruptedCreateRecovered
  <2> SUFFICES ASSUME NEW p \in Products, product[p].edit = 0,
                      \A kind \in {"error", "lost", "removed"} : faults[kind] = 0
               PROVE  Cardinality(ListingsOf(p)) <= 1
    BY DEF InterruptedCreateRecovered
  <2> DEFINE k == <<p, product[p].content>>
  <2>1. k \in Keys /\ ProductOf(k) = p /\ k[2] = product[p].content
    BY Typed DEF OutboxInv, Keys, ProductOf, Version
  <2> HIDE DEF k
  <2>2. ListedOnce(p) BY <2>1 DEF AccountInv, FirstPush, Fresh
  <2>3. CASE ListingsOf(p) = {} BY <2>3, FS_EmptySet
  <2>4. CASE ListingsOf(p) # {}
    <3>1. PICK l : ListingsOf(p) = {l} BY <2>2, <2>4 DEF ListedOnce
    <3> QED BY <3>1, FS_Singleton
  <2> QED BY <2>3, <2>4
<1>2. OrphansAccounted
  <2> DEFINE lost == UNION {Unknown(p) : p \in Products}
  <2>1. lost \subseteq Orphans BY DEF Unknown, Orphans, ListingsOf
  <2>2. Orphans \subseteq 1..Len(listings) /\ Len(listings) \in Nat BY Typed DEF OutboxInv, Orphans
  <2>3. IsFiniteSet(1..Len(listings)) BY <2>2, FS_Interval
  <2>4. IsFiniteSet(Orphans) BY <2>2, <2>3, FS_Subset
  <2>5. /\ Cardinality(lost) <= Cardinality(Orphans) /\ Cardinality(lost) \in Nat
        /\ Cardinality(Orphans) \in Nat
    BY <2>1, <2>4, FS_Subset, FS_CardinalityType
  <2>6. faults["crash"] \in Nat /\ faults["lost"] \in Nat BY DEF OutboxInv, TypeOK, FaultKinds
  <2> HIDE DEF lost
  <2>7. Cardinality(lost) <= faults["crash"] + faults["lost"]
    BY <2>5, <2>6 DEF AccountInv, OrphansFew
  <2> QED BY <2>7 DEF OrphansAccounted, lost
<1> QED BY <1>1, <1>2 DEF ListingsAccounted

\* Whatever the worker, the store and the editors do: a product that is not
\* edited gets one listing however often its push breaks off, and the listings
\* the mapping does not know are no more than the crashes and the lost answers
\* (process_sync_outbox and its search for an existing product on a retry).
THEOREM ListingsTrue == Spec => []ListingsAccounted
<1>1. Init => AccountInv BY AccountStart
<1>2. OutboxInv /\ AccountInv /\ [Next]_vars => AccountInv'
  BY MappingStep, FewStep, GoneStep, FirstPushStep DEF AccountInv
<1>3. OutboxInv /\ AccountInv => ListingsAccounted BY AccountSound
<1> QED BY <1>1, <1>2, <1>3, OutboxAlways, PTL DEF Spec

--------------------
NoteIds == 1..Len(notes)

(* An open notification has an attempt left. *)
NoteAttempts(note) == /\ note.attempts <= PushMaxAttempts
                      /\ note.status \in OpenNotes => note.attempts < PushMaxAttempts

(* What the worker's transaction holds are notifications that are open in the table, those *)
(* it has tried with one attempt more. *)
BatchOfOpen ==
  /\ batch.open \in BOOLEAN
  /\ batch.open =>
       /\ \A n \in batch.todo \cup DOMAIN batch.done :
            n \in NoteIds /\ notes[n].status \in OpenNotes
       /\ \A n \in DOMAIN batch.done :
            /\ batch.done[n].attempts = notes[n].attempts + 1
            /\ NoteAttempts(batch.done[n])
            /\ batch.done[n].status = "sent" => \E d \in Devices : received[n][d] > 0

\* How often a notification was tried, as far as the table and the transaction know.
Tried(n) == IF n \in NoteIds
            THEN notes[n].attempts + IF batch.open /\ n \in DOMAIN batch.done THEN 1 ELSE 0
            ELSE 0

\* No device was sent more than that, but for what deaths took back.
NoMoreThanTried == \A n \in 1..MaxChanges, d \in Devices : received[n][d] <= Tried(n) + deaths

PushInv == /\ PushTypeOK /\ received \in [1..MaxChanges -> [Devices -> Nat]]
           /\ \A n \in NoteIds : NoteAttempts(notes[n])
           /\ BatchOfOpen /\ SentWasReceived /\ NoMoreThanTried

--------------------
LEMMA NotesAreSeq ==
  ASSUME PushTypeOK
  PROVE  /\ Len(notes) \in Nat /\ DOMAIN notes = NoteIds /\ notes \in [NoteIds -> PushNotification]
         /\ NoteIds \subseteq 1..MaxChanges /\ changes \in Nat /\ deaths \in Nat
         /\ \A n \in NoteIds : notes[n] \in PushNotification /\ notes[n].attempts \in Nat
<1>1. /\ Len(notes) \in Nat /\ DOMAIN notes = NoteIds /\ notes \in [NoteIds -> PushNotification]
  BY LenProperties DEF PushTypeOK, NoteIds
<1>2. changes \in Nat /\ deaths \in Nat /\ MaxChanges \in Nat BY PushAssumption DEF PushTypeOK
<1>3. NoteIds \subseteq 1..MaxChanges BY <1>1, <1>2 DEF PushTypeOK, NoteIds
<1> QED BY <1>1, <1>2, <1>3 DEF PushNotification

LEMMA PushInvStarts == PushInit => PushInv
<1> SUFFICES ASSUME PushInit PROVE PushInv OBVIOUS
<1>1. notes = <<>> /\ NoteIds = {} /\ DOMAIN notes = {} BY DEF PushInit, NoteIds
<1>2. notes \in Seq(PushNotification) /\ Len(notes) = 0 BY <1>1, EmptySeq
<1>3. batch.open = FALSE BY DEF PushInit, NoBatch
<1>4. PushTypeOK BY <1>2, <1>3, PushAssumption DEF PushInit, PushTypeOK
<1>5. received \in [1..MaxChanges -> [Devices -> Nat]] BY DEF PushInit
<1>6. NoMoreThanTried BY <1>1 DEF PushInit, NoMoreThanTried, Tried
<1> QED BY <1>1, <1>3, <1>4, <1>5, <1>6 DEF PushInv, BatchOfOpen, SentWasReceived

--------------------
(* A change queues a notification at the end: whatever is known of the others stays so. *)
LEMMA AppendStep ==
  ASSUME PushInv, NEW key \in Riders \cup {Unkeyed}, notes' = Append(notes, Queued(key)),
         changes < MaxChanges, changes' = changes + 1,
         UNCHANGED <<active, batch, received, deaths>>, rider' \in Riders
  PROVE  PushInv'
<1> USE DEF PushInv
<1>1. Queued(key) \in PushNotification /\ NoteAttempts(Queued(key)) /\ Queued(key).attempts = 0
      /\ Queued(key).status = "queued"
  BY PushAssumption DEF Queued, PushNotification, OpenNotes, FinalStatuses, NoteAttempts
<1>2. /\ notes' \in Seq(PushNotification) /\ Len(notes') = Len(notes) + 1
      /\ \A n \in NoteIds : notes'[n] = notes[n]
      /\ notes'[Len(notes) + 1] = Queued(key)
  BY <1>1, NotesAreSeq DEF PushTypeOK, NoteIds
<1>3. NoteIds' = NoteIds \cup {Len(notes) + 1} /\ Len(notes) + 1 \notin NoteIds
  BY <1>2, NotesAreSeq DEF NoteIds
<1>4. DOMAIN notes' = NoteIds' BY <1>2, LenProperties DEF NoteIds
<1>5. PushTypeOK'
  <2>1. Len(notes') <= changes' /\ changes' \in 0..MaxChanges
    BY <1>2, NotesAreSeq, PushAssumption DEF PushTypeOK
  <2> QED BY <1>2, <1>3, <1>4, <2>1, NotesAreSeq DEF PushTypeOK
<1>6. \A n \in NoteIds' : NoteAttempts(notes'[n]) BY <1>1, <1>2, <1>3
<1>7. BatchOfOpen' BY <1>2, <1>3 DEF BatchOfOpen
<1>8. SentWasReceived' BY <1>1, <1>2, <1>3, <1>4, NotesAreSeq DEF SentWasReceived
<1>9. NoMoreThanTried'
  <2> SUFFICES ASSUME NEW n \in 1..MaxChanges, NEW d \in Devices
               PROVE  received[n][d] <= Tried(n)' + deaths
    BY DEF NoMoreThanTried
  <2>1. CASE n = Len(notes) + 1
    <3>1. n \notin NoteIds /\ (batch.open => n \notin DOMAIN batch.done) /\ notes'[n].attempts = 0
      BY <1>1, <1>2, <1>3, <2>1 DEF BatchOfOpen
    <3>2. Tried(n) = 0 /\ Tried(n)' = 0 BY <1>3, <2>1, <3>1 DEF Tried
    <3> QED BY <3>2 DEF NoMoreThanTried
  <2>2. CASE n # Len(notes) + 1
    <3>1. Tried(n)' = Tried(n) BY <1>2, <1>3, <2>2 DEF Tried
    <3> QED BY <3>1 DEF NoMoreThanTried
  <2> QED BY <2>1, <2>2
<1> QED BY <1>5, <1>6, <1>7, <1>8, <1>9

(* What moves neither a notification nor the transaction. *)
LEMMA QuietStep ==
  ASSUME PushInv, UNCHANGED <<notes, batch, received, deaths>>,
         active' \subseteq Devices, rider' \in Riders,
         changes' \in 0..MaxChanges, changes' >= changes
  PROVE  PushInv'
<1>1. PushTypeOK' BY NotesAreSeq, PushAssumption DEF PushInv, PushTypeOK
<1> QED
  BY <1>1 DEF PushInv, NoteIds, NoteAttempts, BatchOfOpen, SentWasReceived, NoMoreThanTried, Tried

LEMMA ChangeOrderStep == ASSUME PushInv, ChangeOrder PROVE PushInv'
<1>1. rider' \in Riders BY DEF ChangeOrder, PushInv, PushTypeOK
<1> QED BY <1>1, AppendStep DEF ChangeOrder

LEMMA ReassignStep ==
  ASSUME PushInv, NEW r \in Riders, ReassignDelivery(r)
  PROVE  PushInv'
<1>1. CASE \E n \in DOMAIN notes : notes[n].key = r
  <2>1. notes' = notes /\ rider' = r /\ changes' = changes + 1 /\ changes < MaxChanges
        /\ UNCHANGED <<active, batch, received, deaths>>
    BY <1>1 DEF ReassignDelivery
  <2>2. changes' \in 0..MaxChanges /\ changes' >= changes /\ active' \subseteq Devices
    BY <2>1, NotesAreSeq, PushAssumption DEF PushInv, PushTypeOK
  <2> QED BY <2>1, <2>2, QuietStep
<1>2. CASE ~\E n \in DOMAIN notes : notes[n].key = r BY <1>2, AppendStep DEF ReassignDelivery
<1> QED BY <1>1, <1>2

LEMMA SubscriptionStep ==
  ASSUME PushInv, NEW d \in Devices, RegisterSubscription(d) \/ DeleteSubscription(d)
  PROVE  PushInv'
<1>1. UNCHANGED <<notes, batch, received, deaths, rider, changes>> /\ active' \subseteq Devices
  BY DEF RegisterSubscription, DeleteSubscription, PushInv, PushTypeOK
<1>2. changes' \in 0..MaxChanges /\ changes' >= changes /\ rider' \in Riders
  BY <1>1, NotesAreSeq DEF PushInv, PushTypeOK
<1> QED BY <1>1, <1>2, QuietStep

--------------------
LEMMA BeginBatchStep == ASSUME PushInv, BeginBatch PROVE PushInv'
<1> USE DEF PushInv
<1>1. batch' = Batch(Selected, <<>>, {}) /\ ~batch.open
      /\ UNCHANGED <<notes, active, received, rider, changes, deaths>>
  BY DEF BeginBatch
<1>2. batch'.open = TRUE /\ batch'.todo = Selected /\ DOMAIN batch'.done = {}
  <2>1. batch'.open = TRUE /\ batch'.todo = Selected /\ batch'.done = <<>> BY <1>1 DEF Batch
  <2> QED BY <2>1
<1>3. \A n \in Selected : n \in NoteIds /\ notes[n].status \in OpenNotes
  BY NotesAreSeq DEF Selected, Due
<1>4. NoteIds' = NoteIds BY <1>1 DEF NoteIds
<1>5. PushTypeOK' BY <1>1, <1>2, <1>3, NotesAreSeq DEF PushTypeOK
<1>6. BatchOfOpen' BY <1>1, <1>2, <1>3, <1>4 DEF BatchOfOpen
<1>7. NoMoreThanTried' BY <1>1, <1>2, <1>4 DEF NoMoreThanTried, Tried
<1> QED BY <1>1, <1>4, <1>5, <1>6, <1>7 DEF SentWasReceived

(* What a tried notification becomes: settled, or open with an attempt left; sent only when *)
(* a device answered so. *)
LEMMA OutcomeIsFair ==
  ASSUME NEW note \in PushNotification, NEW outcome, note.attempts <= PushMaxAttempts
  PROVE  LET o == Outcome(note, outcome)
         IN /\ o \in PushNotification /\ o.attempts = note.attempts /\ NoteAttempts(o)
            /\ o.status = "sent" => \E d \in DOMAIN outcome : outcome[d] = "sent"
<1> DEFINE some(status) == \E d \in DOMAIN outcome : outcome[d] = status
           o == Outcome(note, outcome)
<1>1. note.attempts \in Nat /\ PushMaxAttempts \in Nat BY PushAssumption DEF PushNotification
<1>2. CASE DOMAIN outcome = {}
  <2>1. o = [note EXCEPT !.status = "skipped"] BY <1>2 DEF Outcome
  <2> QED BY <1>1, <2>1 DEF PushNotification, OpenNotes, FinalStatuses, NoteAttempts
<1>3. CASE DOMAIN outcome # {} /\ some("sent")
  <2>1. o = [note EXCEPT !.status = "sent"] BY <1>3 DEF Outcome
  <2> QED BY <1>1, <1>3, <2>1 DEF PushNotification, OpenNotes, FinalStatuses, NoteAttempts
<1>4. CASE DOMAIN outcome # {} /\ ~some("sent") /\ some("failed") /\ AttemptLeft(note.attempts)
  <2>1. o = [note EXCEPT !.status = "retry", !.due = FALSE] BY <1>4 DEF Outcome
  <2> QED
    BY <1>1, <1>4, <2>1 DEF PushNotification, OpenNotes, FinalStatuses, NoteAttempts, AttemptLeft
<1>5. CASE DOMAIN outcome # {} /\ ~some("sent") /\ ~(some("failed") /\ AttemptLeft(note.attempts))
  <2>1. o = [note EXCEPT !.status = "failed"] BY <1>5 DEF Outcome
  <2> QED BY <1>1, <2>1 DEF PushNotification, OpenNotes, FinalStatuses, NoteAttempts
<1> QED BY <1>2, <1>3, <1>4, <1>5

LEMMA EarliestIsIn ==
  ASSUME NEW S \in SUBSET Nat, S # {}
  PROVE  Earliest(S) \in S
<1> DEFINE less == OpToRel(<, Nat)
<1>1. \E m \in S : \A k \in S : <<k, m>> \notin less
  <2>1. IsWellFoundedOn(less, Nat) BY NatLessThanWellFounded
  <2> HIDE DEF less
  <2> QED BY <2>1, WFMin
<1>2. \A k, m \in Nat : <<k, m>> \notin less => m <= k BY DEF OpToRel
<1> HIDE DEF less
<1>3. \E m \in S : \A k \in S : m <= k BY <1>1, <1>2
<1> QED BY <1>3 DEF Earliest

LEMMA DeliverNoteStep == ASSUME PushInv, DeliverNote PROVE PushInv'
<1> USE DEF PushInv
<1> DEFINE n == Earliest(batch.todo)
           targets == active \ batch.expired
           tried == [notes[n] EXCEPT !.attempts = @ + 1]
<1>1. PICK outcome \in [targets -> {"sent", "failed", "expired"}] :
      \E arrived \in SUBSET {d \in targets : outcome[d] = "failed"} :
        /\ batch' = Batch(batch.todo \ {n},
                          [m \in DOMAIN batch.done \cup {n} |->
                             IF m = n THEN Outcome(tried, outcome) ELSE batch.done[m]],
                          batch.expired \cup {d \in targets : outcome[d] = "expired"})
        /\ received' = [received EXCEPT ![n] =
             [d \in Devices |->
                IF d \in targets /\ (outcome[d] = "sent" \/ d \in arrived)
                THEN @[d] + 1 ELSE @[d]]]
  BY DEF DeliverNote
<1>0. PICK arrived \in SUBSET {d \in targets : outcome[d] = "failed"} :
        /\ batch' = Batch(batch.todo \ {n},
                          [m \in DOMAIN batch.done \cup {n} |->
                             IF m = n THEN Outcome(tried, outcome) ELSE batch.done[m]],
                          batch.expired \cup {d \in targets : outcome[d] = "expired"})
        /\ received' = [received EXCEPT ![n] =
             [d \in Devices |->
                IF d \in targets /\ (outcome[d] = "sent" \/ d \in arrived)
                THEN @[d] + 1 ELSE @[d]]]
  BY <1>1
<1>2. UNCHANGED <<notes, active, rider, changes, deaths>> /\ batch.open /\ batch.todo # {}
  BY DEF DeliverNote
<1>3. n \in batch.todo /\ n \in NoteIds /\ n \in 1..MaxChanges /\ n \notin DOMAIN batch.done
      /\ notes[n].status \in OpenNotes
  <2>1. batch.todo \subseteq NoteIds BY <1>2 DEF BatchOfOpen
  <2>2. batch.todo \subseteq Nat BY <2>1, NotesAreSeq DEF NoteIds
  <2>3. n \in batch.todo BY <1>2, <2>2, EarliestIsIn
  <2> QED BY <1>2, <2>1, <2>3, NotesAreSeq DEF BatchOfOpen, PushTypeOK
<1>4. /\ tried \in PushNotification /\ tried.attempts = notes[n].attempts + 1
      /\ tried.attempts <= PushMaxAttempts
  <2>1. notes[n] \in PushNotification /\ notes[n].attempts < PushMaxAttempts
        /\ notes[n].attempts \in Nat /\ PushMaxAttempts \in Nat
    BY <1>3, NotesAreSeq, PushAssumption DEF NoteAttempts
  <2> QED BY <2>1 DEF PushNotification
<1> DEFINE o == Outcome(tried, outcome)
<1>5. /\ o \in PushNotification /\ o.attempts = notes[n].attempts + 1 /\ NoteAttempts(o)
      /\ o.status = "sent" => \E d \in targets : outcome[d] = "sent"
  BY <1>4, OutcomeIsFair
<1>6. /\ received' \in [1..MaxChanges -> [Devices -> Nat]]
      /\ \A m \in 1..MaxChanges, d \in Devices :
           /\ received'[m][d] >= received[m][d]
           /\ received'[m][d] <= received[m][d] + IF m = n THEN 1 ELSE 0
      /\ (\E d \in targets : outcome[d] = "sent") => \E d \in Devices : received'[n][d] > 0
  <2> DEFINE new == [d \in Devices |->
                       IF d \in targets /\ (outcome[d] = "sent" \/ d \in arrived)
                       THEN received[n][d] + 1 ELSE received[n][d]]
  <2>1. received' = [received EXCEPT ![n] = new] BY <1>0
  <2>2. received[n] \in [Devices -> Nat] /\ targets \subseteq Devices BY <1>3 DEF PushTypeOK
  <2>3. /\ new \in [Devices -> Nat]
        /\ \A d \in Devices : new[d] >= received[n][d] /\ new[d] <= received[n][d] + 1
        /\ \A d \in targets : outcome[d] = "sent" => new[d] > 0
    BY <2>2
  <2> HIDE DEF new, targets, n
  <2> QED BY <1>3, <2>1, <2>2, <2>3
<1> DEFINE made == [m \in DOMAIN batch.done \cup {n} |-> IF m = n THEN o ELSE batch.done[m]]
<1>7. batch'.open = TRUE /\ batch'.todo = batch.todo \ {n} /\ batch'.done = made BY <1>0 DEF Batch
<1>8. DOMAIN made = DOMAIN batch.done \cup {n} /\ made[n] = o
      /\ \A m \in DOMAIN batch.done : made[m] = batch.done[m]
  BY <1>3
<1>9. NoteIds' = NoteIds /\ DOMAIN notes = NoteIds /\ DOMAIN notes' = NoteIds
  BY <1>2, NotesAreSeq DEF NoteIds
<1> HIDE DEF made, o, tried, targets, n
<1>10. PushTypeOK' BY <1>2, <1>3, <1>5, <1>7, <1>8, <1>9 DEF PushTypeOK
<1>11. BatchOfOpen'
  <2>1. ASSUME NEW m \in DOMAIN batch.done
        PROVE  m \in 1..MaxChanges
    BY <1>2, NotesAreSeq DEF BatchOfOpen
  <2>2. ASSUME NEW m \in 1..MaxChanges, \E d \in Devices : received[m][d] > 0
        PROVE  \E d \in Devices : received'[m][d] > 0
    <3>1. PICK d \in Devices : received[m][d] > 0 BY <2>2
    <3>2. received[m][d] \in Nat /\ received'[m][d] \in Nat /\ received'[m][d] >= received[m][d]
      BY <1>6
    <3> QED BY <3>1, <3>2
  <2>3. \A m \in batch'.todo \cup DOMAIN made : m \in NoteIds /\ notes[m].status \in OpenNotes
    BY <1>2, <1>3, <1>7, <1>8 DEF BatchOfOpen
  <2>4. ASSUME NEW m \in DOMAIN made
        PROVE  /\ made[m].attempts = notes[m].attempts + 1 /\ NoteAttempts(made[m])
               /\ made[m].status = "sent" => \E d \in Devices : received'[m][d] > 0
    <3>1. CASE m = n BY <1>5, <1>6, <1>8, <3>1
    <3>2. CASE m # n BY <1>2, <1>8, <2>1, <2>2, <3>2 DEF BatchOfOpen
    <3> QED BY <3>1, <3>2
  <2> QED BY <1>2, <1>7, <1>9, <2>3, <2>4 DEF BatchOfOpen, NoteAttempts
<1>12. SentWasReceived'
  <2> SUFFICES ASSUME NEW m \in NoteIds, notes[m].status = "sent"
               PROVE  \E d \in Devices : received'[m][d] > 0
    BY <1>2, <1>9 DEF SentWasReceived
  <2>1. PICK d \in Devices : received[m][d] > 0 BY <1>9 DEF SentWasReceived
  <2>2. m \in 1..MaxChanges BY NotesAreSeq
  <2>3. received[m][d] \in Nat /\ received'[m][d] \in Nat /\ received'[m][d] >= received[m][d]
    BY <1>6, <2>2
  <2> QED BY <2>1, <2>3
<1>13. NoMoreThanTried'
  <2> SUFFICES ASSUME NEW m \in 1..MaxChanges, NEW d \in Devices
               PROVE  received'[m][d] <= Tried(m)' + deaths'
    BY DEF NoMoreThanTried
  <2>1. /\ received[m][d] \in Nat /\ received'[m][d] \in Nat /\ deaths \in Nat /\ deaths' = deaths
        /\ received[m][d] <= Tried(m) + deaths
        /\ received'[m][d] <= received[m][d] + IF m = n THEN 1 ELSE 0
    BY <1>2, <1>6, NotesAreSeq DEF NoMoreThanTried
  <2>2. CASE m = n
    <3>1. Tried(m) = notes[m].attempts /\ Tried(m)' = notes[m].attempts + 1
          /\ notes[m].attempts \in Nat
      BY <1>2, <1>3, <1>7, <1>8, <1>9, <2>2, NotesAreSeq DEF Tried
    <3> QED BY <2>1, <2>2, <3>1
  <2>3. CASE m # n
    <3>1. Tried(m)' = Tried(m) /\ Tried(m) \in Nat
      BY <1>2, <1>3, <1>7, <1>8, <1>9, <2>3, NotesAreSeq DEF Tried
    <3> QED BY <2>1, <2>3, <3>1
  <2> QED BY <2>2, <2>3
<1> QED BY <1>2, <1>6, <1>9, <1>10, <1>11, <1>12, <1>13

(* The transaction ends: what it wrote is the table now. *)
LEMMA CommitBatchStep == ASSUME PushInv, CommitBatch PROVE PushInv'
<1> USE DEF PushInv
<1> DEFINE row(n) == IF n \in DOMAIN batch.done THEN batch.done[n] ELSE notes[n]
<1>1. /\ batch.open /\ notes' = [n \in DOMAIN notes |-> row(n)] /\ batch' = NoBatch
      /\ active' = active \ batch.expired /\ UNCHANGED <<received, rider, changes, deaths>>
  BY DEF CommitBatch
<1>2. batch'.open = FALSE BY <1>1 DEF NoBatch
<1>3. \A n \in NoteIds : row(n) \in PushNotification /\ NoteAttempts(row(n))
  BY <1>1, NotesAreSeq DEF BatchOfOpen, PushTypeOK
<1>4. notes' \in [NoteIds -> PushNotification] /\ \A n \in NoteIds : notes'[n] = row(n)
  BY <1>1, <1>3, NotesAreSeq
<1>5. notes' \in Seq(PushNotification) BY <1>4, NotesAreSeq, SeqDef DEF NoteIds
<1>6. Len(notes') = Len(notes) /\ DOMAIN notes' = NoteIds /\ NoteIds' = NoteIds
  BY <1>4, <1>5, NotesAreSeq, LenProperties DEF NoteIds
<1>7. PushTypeOK' BY <1>1, <1>2, <1>5, <1>6 DEF PushTypeOK
<1>8. \A n \in NoteIds' : NoteAttempts(notes'[n]) BY <1>3, <1>4, <1>6
<1>9. SentWasReceived' BY <1>1, <1>4, <1>6, NotesAreSeq DEF SentWasReceived, BatchOfOpen
<1>10. NoMoreThanTried'
  <2> SUFFICES ASSUME NEW n \in 1..MaxChanges PROVE Tried(n)' = Tried(n) BY <1>1 DEF NoMoreThanTried
  <2>1. CASE n \in NoteIds
    <3>1. notes[n].attempts \in Nat /\ notes'[n] = row(n)
          /\ (n \in DOMAIN batch.done => batch.done[n].attempts = notes[n].attempts + 1)
      BY <1>1, <1>4, <2>1, NotesAreSeq DEF BatchOfOpen
    <3>2. notes'[n].attempts = notes[n].attempts + IF n \in DOMAIN batch.done THEN 1 ELSE 0 BY <3>1
    <3>3. notes'[n].attempts \in Nat BY <3>1, <3>2
    <3> QED BY <1>1, <1>2, <1>6, <2>1, <3>1, <3>2, <3>3 DEF Tried
  <2>2. CASE n \notin NoteIds BY <1>6, <2>2 DEF Tried
  <2> QED BY <2>1, <2>2
<1> QED BY <1>1, <1>2, <1>7, <1>8, <1>9, <1>10 DEF BatchOfOpen

(* A crash takes back at most one attempt of each notification, and is counted. *)
LEMMA CrashBatchStep == ASSUME PushInv, CrashBatch PROVE PushInv'
<1> USE DEF PushInv
<1>1. /\ batch.open /\ deaths < MaxWorkerDeaths /\ deaths' = deaths + 1 /\ batch' = NoBatch
      /\ UNCHANGED <<notes, active, received, rider, changes>>
  BY DEF CrashBatch
<1>2. batch'.open = FALSE /\ NoteIds' = NoteIds BY <1>1 DEF NoBatch, NoteIds
<1>3. deaths' \in 0..MaxWorkerDeaths BY <1>1, NotesAreSeq, PushAssumption DEF PushTypeOK
<1>4. PushTypeOK' BY <1>1, <1>2, <1>3 DEF PushTypeOK
<1>5. NoMoreThanTried'
  <2> SUFFICES ASSUME NEW n \in 1..MaxChanges, NEW d \in Devices
               PROVE  received[n][d] <= Tried(n)' + deaths'
    BY <1>1 DEF NoMoreThanTried
  <2>1. /\ Tried(n) \in Nat /\ Tried(n)' \in Nat /\ Tried(n) <= Tried(n)' + 1
    BY <1>1, <1>2, NotesAreSeq DEF Tried
  <2>2. received[n][d] <= Tried(n) + deaths /\ received[n][d] \in Nat /\ deaths \in Nat
    BY NotesAreSeq DEF NoMoreThanTried
  <2> QED BY <1>1, <2>1, <2>2
<1> QED BY <1>1, <1>2, <1>4, <1>5 DEF SentWasReceived, BatchOfOpen

LEMMA NoteDueStep ==
  ASSUME PushInv, NEW n \in 1..MaxChanges, NoteDue(n)
  PROVE  PushInv'
<1> USE DEF PushInv
<1> DEFINE due == [notes[n] EXCEPT !.due = TRUE]
<1>1. /\ n \in DOMAIN notes /\ notes' = [notes EXCEPT ![n] = due]
      /\ UNCHANGED <<active, batch, received, rider, changes, deaths>>
  BY DEF NoteDue
<1>2. n \in NoteIds /\ notes[n] \in PushNotification BY <1>1, NotesAreSeq
<1>3. /\ due \in PushNotification /\ due.attempts = notes[n].attempts
      /\ due.status = notes[n].status
  BY <1>2 DEF PushNotification
<1> HIDE DEF due
<1>4. notes' \in Seq(PushNotification) /\ Len(notes') = Len(notes)
      /\ \A m \in NoteIds : notes'[m] = IF m = n THEN due ELSE notes[m]
  BY <1>1, <1>2, <1>3, ExceptSeq DEF PushTypeOK, NoteIds
<1>5. NoteIds' = NoteIds /\ DOMAIN notes' = NoteIds BY <1>4, LenProperties DEF NoteIds
<1>6. \A m \in NoteIds :
        notes'[m].attempts = notes[m].attempts /\ notes'[m].status = notes[m].status
  BY <1>3, <1>4
<1>7. PushTypeOK' BY <1>1, <1>4, <1>5, NotesAreSeq DEF PushTypeOK
<1>8. \A m \in NoteIds' : NoteAttempts(notes'[m]) BY <1>5, <1>6 DEF NoteAttempts
<1>9. BatchOfOpen' BY <1>1, <1>5, <1>6 DEF BatchOfOpen
<1>10. SentWasReceived' BY <1>1, <1>5, <1>6, NotesAreSeq DEF SentWasReceived
<1>11. NoMoreThanTried' BY <1>1, <1>5, <1>6 DEF NoMoreThanTried, Tried
<1> QED BY <1>1, <1>7, <1>8, <1>9, <1>10, <1>11

LEMMA PushStep == PushInv /\ [PushNext]_pushVars => PushInv'
<1> SUFFICES ASSUME PushInv, [PushNext]_pushVars PROVE PushInv' OBVIOUS
<1>1. CASE PushNext
  BY <1>1, ChangeOrderStep, ReassignStep, SubscriptionStep, BeginBatchStep, DeliverNoteStep,
     CommitBatchStep, CrashBatchStep, NoteDueStep DEF PushNext, Deliver
<1>2. CASE UNCHANGED pushVars
  BY <1>2 DEF pushVars, PushInv, PushTypeOK, NoteIds, NoteAttempts, BatchOfOpen, SentWasReceived,
              NoMoreThanTried, Tried
<1> QED BY <1>1, <1>2

--------------------
(* The notifications, the transaction and the subscriptions keep their types. *)
THEOREM PushTyped == PushSpec => []PushTypeOK
<1>1. PushInv => PushTypeOK BY DEF PushInv
<1> QED BY <1>1, PushInvStarts, PushStep, PTL DEF PushSpec

(* For any number of devices, changes, attempts and deaths: a notification marked as sent *)
(* has reached a device, and none shows it more often than attempts and deaths allow. *)
THEOREM DeliveriesTrue == PushSpec => []DeliveryRecorded
<1>1. PushInv => DeliveryRecorded
  <2> SUFFICES ASSUME PushInv, NEW n \in DOMAIN notes, NEW d \in Devices
               PROVE  received[n][d] <= PushMaxAttempts + deaths
    BY DEF PushInv, DeliveryRecorded, RepeatsBounded
  <2>1. n \in NoteIds /\ n \in 1..MaxChanges /\ notes[n].attempts \in Nat /\ deaths \in Nat
    BY NotesAreSeq DEF PushInv
  <2>2. PushMaxAttempts \in Nat /\ notes[n].attempts <= PushMaxAttempts
        /\ (notes[n].status \in OpenNotes => notes[n].attempts < PushMaxAttempts)
    BY <2>1, PushAssumption DEF PushInv, NoteAttempts
  <2>3. batch.open /\ n \in DOMAIN batch.done => notes[n].status \in OpenNotes
    BY DEF PushInv, BatchOfOpen
  <2>4. Tried(n) \in Nat /\ Tried(n) <= PushMaxAttempts BY <2>1, <2>2, <2>3 DEF Tried
  <2>5. received[n][d] <= Tried(n) + deaths /\ received[n][d] \in Nat
    BY <2>1 DEF PushInv, NoMoreThanTried
  <2> QED BY <2>1, <2>2, <2>4, <2>5
<1> QED BY <1>1, PushInvStarts, PushStep, PTL DEF PushSpec

(* A notification that was sent, skipped or failed stays so, since the worker only takes *)
(* open ones and nobody else writes a status (deliver_pending_notifications). *)
THEOREM SettledStays == PushSpec => SettledIsFinal
<1> DEFINE Same == \A n \in DOMAIN notes : notes[n].status \in FinalStatuses
                                             => notes'[n].status = notes[n].status
<1>1. ASSUME PushInv, PushNext, NEW n \in DOMAIN notes, notes[n].status \in FinalStatuses
      PROVE  notes'[n].status = notes[n].status
  <2>1. n \in NoteIds /\ notes[n] \in PushNotification /\ notes[n].status \notin OpenNotes
    BY <1>1, NotesAreSeq DEF PushInv, OpenNotes, FinalStatuses
  <2>2. ASSUME NEW key, notes' = Append(notes, Queued(key)) PROVE notes'[n] = notes[n]
    BY <2>1, <2>2, <1>1, NotesAreSeq DEF PushInv, PushTypeOK, NoteIds
  <2>3. ASSUME CommitBatch PROVE notes'[n] = notes[n]
    BY <1>1, <2>1, <2>3 DEF CommitBatch, PushInv, BatchOfOpen
  <2>4. ASSUME NEW m, NoteDue(m) PROVE notes'[n].status = notes[n].status
    <3>1. CASE m = n
      <4>1. notes'[n] = [notes[n] EXCEPT !.due = TRUE] BY <1>1, <2>4, <3>1 DEF NoteDue
      <4> QED BY <2>1, <4>1 DEF PushNotification
    <3>2. CASE m # n BY <2>4, <3>2 DEF NoteDue
    <3> QED BY <3>1, <3>2
  <2> QED
    BY <1>1, <2>2, <2>3, <2>4
       DEF PushNext, ChangeOrder, ReassignDelivery, RegisterSubscription, DeleteSubscription,
           Deliver, BeginBatch, DeliverNote, CrashBatch
<1>2. PushInv /\ [PushNext]_pushVars => [Same]_pushVars BY <1>1
<1>3. SettledIsFinal <=> [][Same]_pushVars BY DEF SettledIsFinal
<1> HIDE DEF Same
<1> QED BY <1>2, <1>3, PushInvStarts, PushStep, PTL DEF PushSpec
=============================================================================
