------------------------------ MODULE PushOutbox ------------------------------
(***************************************************************************)
(* The outbox of browser notifications to one user who follows one order,  *)
(* and the worker that delivers it.                                        *)
(*                                                                         *)
(* A business change queues a notification in its own transaction, unless  *)
(* one with the same idempotency key exists.  The worker's cycle reads the *)
(* due notifications, sends each to every active subscription of the user  *)
(* and commits all it wrote at the end (apps/worker/main.py:52): a crash   *)
(* before that leaves the table as it was, but not the messages unsent.    *)
(* The open transaction is `batch'.  A notification's id is its place in   *)
(* notes, which is also the order of created_at.                           *)
(***************************************************************************)
EXTENDS Naturals, Sequences, FiniteSets

CONSTANTS Devices,          \* the endpoints the user's browsers may register
          Riders,           \* the riders the order's delivery may be given to
          Unkeyed,          \* stands for the key of an event with an id of its own
          PushMaxAttempts,  \* push_max_attempts
          BatchLimit,       \* how many notifications a cycle takes
          MaxChanges,       \* bound: business changes
          MaxWorkerDeaths   \* bound: deaths of the worker

ASSUME PushAssumption ==
  /\ Unkeyed \notin Riders
  /\ PushMaxAttempts \in Nat \ {0} /\ BatchLimit \in Nat \ {0}
  /\ MaxChanges \in Nat /\ MaxWorkerDeaths \in Nat

VARIABLES notes,     \* the table push_notifications
          active,    \* push_subscriptions: the endpoints with is_active
          batch,     \* what the worker's open transaction has written
          received,  \* how often each device was sent each notification
          rider,     \* who delivers the order
          changes,   \* business changes made so far
          deaths

pushVars == <<notes, active, batch, received, rider, changes, deaths>>

-----------------------------------------------------------------------------
OpenNotes == {"queued", "retry"}
FinalStatuses == {"sent", "skipped", "failed"}

\* due says whether scheduled_at has passed.
PushNotification == [key: Riders \cup {Unkeyed}, attempts: Nat, due: BOOLEAN,
                     status: OpenNotes \cup FinalStatuses]

Queued(key) == [key |-> key, attempts |-> 0, due |-> TRUE, status |-> "queued"]

\* No transaction is open / this one has still to deliver todo, and has
\* rewritten the notifications done and deactivated the endpoints expired.
NoBatch == [open |-> FALSE]
Batch(todo, done, expired) ==
  [open |-> TRUE, todo |-> todo, done |-> done, expired |-> expired]

Earliest(S) == CHOOSE n \in S : \A m \in S : n <= m

\* Faulty: a notification to retry is forgotten.
DueQueued == {n \in DOMAIN notes : notes[n].status = "queued" /\ notes[n].due}

\* Faulty: one that was sent is taken again.
DueSent == {n \in DOMAIN notes : notes[n].status \in OpenNotes \cup {"sent"} /\ notes[n].due}

Due == {n \in DOMAIN notes : notes[n].status \in OpenNotes /\ notes[n].due}

\* The first BatchLimit of them.
Selected == {n \in Due : Cardinality({m \in Due : m < n}) < BatchLimit}

\* Faulty: one attempt too many.
OneAttemptMore(attempts) == attempts <= PushMaxAttempts

AttemptLeft(attempts) == attempts < PushMaxAttempts

\* Faulty: whatever was not refused for good counts as sent.
OutcomeHopeful(note, outcome) ==
  IF \E d \in DOMAIN outcome : outcome[d] # "expired"
  THEN [note EXCEPT !.status = "sent"] ELSE [note EXCEPT !.status = "failed"]

\* Faulty: the status a notification has while it is sent is kept.
OutcomeUnknown(note, outcome) == [note EXCEPT !.status = "sending"]

\* What a notification becomes once every subscription has been tried, where
\* outcome says of each how that went.
Outcome(note, outcome) ==
  LET some(status) == \E d \in DOMAIN outcome : outcome[d] = status
  IN IF DOMAIN outcome = {} THEN [note EXCEPT !.status = "skipped"]
     ELSE IF some("sent") THEN [note EXCEPT !.status = "sent"]
     ELSE IF some("failed") /\ AttemptLeft(note.attempts)
          THEN [note EXCEPT !.status = "retry", !.due = FALSE]
     ELSE [note EXCEPT !.status = "failed"]

-----------------------------------------------------------------------------
PushInit == /\ notes = <<>>
            /\ active \in SUBSET Devices
            /\ batch = NoBatch
            /\ received = [n \in 1..MaxChanges |-> [d \in Devices |-> 0]]
            /\ rider \in Riders
            /\ changes = 0 /\ deaths = 0

\* An order is created, paid, changes its status, is assigned for delivery...:
\* the event key holds the id of a new row.
ChangeOrder ==
  /\ changes < MaxChanges
  /\ changes' = changes + 1
  /\ notes' = Append(notes, Queued(Unkeyed))
  /\ UNCHANGED <<active, batch, received, rider, deaths>>

\* The delivery is given to another rider: the key is that of the rider.
ReassignDelivery(r) ==
  /\ r # rider
  /\ rider' = r
  /\ changes < MaxChanges
  /\ changes' = changes + 1
  /\ notes' = IF \E n \in DOMAIN notes : notes[n].key = r THEN notes
              ELSE Append(notes, Queued(r))
  /\ UNCHANGED <<active, batch, received, deaths>>

RegisterSubscription(d) ==
  /\ d \notin active
  /\ active' = active \cup {d}
  /\ UNCHANGED <<notes, batch, received, rider, changes, deaths>>

DeleteSubscription(d) ==
  /\ d \in active
  /\ active' = active \ {d}
  /\ UNCHANGED <<notes, batch, received, rider, changes, deaths>>

-----------------------------------------------------------------------------
\* The worker.

BeginBatch ==
  /\ ~batch.open
  /\ Due # {}
  /\ batch' = Batch(Selected, <<>>, {})
  /\ UNCHANGED <<notes, active, received, rider, changes, deaths>>

\* The next notification goes to every subscription that is active.  A message
\* whose answer is lost or an error other than 404 and 410 may have arrived.
DeliverNote ==
  /\ batch.open /\ batch.todo # {}
  /\ LET n == Earliest(batch.todo)
         targets == active \ batch.expired
     IN \E outcome \in [targets -> {"sent", "failed", "expired"}] :
        \E arrived \in SUBSET {d \in targets : outcome[d] = "failed"} :
          /\ batch' = Batch(batch.todo \ {n},
                            [m \in DOMAIN batch.done \cup {n} |->
                               IF m = n
                               THEN Outcome([notes[n] EXCEPT !.attempts = @ + 1], outcome)
                               ELSE batch.done[m]],
                            batch.expired \cup {d \in targets : outcome[d] = "expired"})
          /\ received' = [received EXCEPT ![n] =
               [d \in Devices |->
                  IF d \in targets /\ (outcome[d] = "sent" \/ d \in arrived)
                  THEN @[d] + 1 ELSE @[d]]]
  /\ UNCHANGED <<notes, active, rider, changes, deaths>>

CommitBatch ==
  /\ batch.open /\ batch.todo = {}
  /\ notes' = [n \in DOMAIN notes |->
                 IF n \in DOMAIN batch.done THEN batch.done[n] ELSE notes[n]]
  /\ active' = active \ batch.expired
  /\ batch' = NoBatch
  /\ UNCHANGED <<received, rider, changes, deaths>>

\* The process dies, or a statement of the transaction fails.
CrashBatch ==
  /\ batch.open
  /\ deaths < MaxWorkerDeaths
  /\ deaths' = deaths + 1
  /\ batch' = NoBatch
  /\ UNCHANGED <<notes, active, received, rider, changes>>

NoteDue(n) ==
  /\ n \in DOMAIN notes
  /\ ~notes[n].due
  /\ notes' = [notes EXCEPT ![n].due = TRUE]
  /\ UNCHANGED <<active, batch, received, rider, changes, deaths>>

Deliver == BeginBatch \/ DeliverNote \/ CommitBatch

PushNext ==
  \/ ChangeOrder
  \/ \E r \in Riders : ReassignDelivery(r)
  \/ \E d \in Devices : RegisterSubscription(d) \/ DeleteSubscription(d)
  \/ Deliver \/ CrashBatch
  \/ \E n \in 1..MaxChanges : NoteDue(n)

\* The worker polls for ever and time passes.
PushFairness == WF_pushVars(Deliver) /\ \A n \in 1..MaxChanges : WF_pushVars(NoteDue(n))

PushSpec == PushInit /\ [][PushNext]_pushVars
FairPushSpec == PushSpec /\ PushFairness

-----------------------------------------------------------------------------
\* Types; outside the worker's transaction no notification is ever "sending".
PushTypeOK ==
  /\ notes \in Seq(PushNotification) /\ Len(notes) <= changes
  /\ active \subseteq Devices
  /\ batch.open => /\ batch.todo \cap DOMAIN batch.done = {}
                   /\ batch.todo \cup DOMAIN batch.done \subseteq DOMAIN notes
                   /\ \A n \in DOMAIN batch.done : batch.done[n] \in PushNotification
  /\ rider \in Riders
  /\ changes \in 0..MaxChanges /\ deaths \in 0..MaxWorkerDeaths

\* A notification marked as sent has reached a device of the user.
SentWasReceived ==
  \A n \in DOMAIN notes : notes[n].status = "sent" => \E d \in Devices : received[n][d] > 0

\* No device shows a notification more often than attempts are allowed, plus
\* once for every batch a crash took back after its messages were out.
RepeatsBounded ==
  \A n \in DOMAIN notes, d \in Devices : received[n][d] <= PushMaxAttempts + deaths

\* The record of what was sent agrees with what the devices showed, but for repetitions.
DeliveryRecorded == SentWasReceived /\ RepeatsBounded

\* A notification that is sent, skipped or failed stays so.
SettledIsFinal ==
  [][\A n \in DOMAIN notes : notes[n].status \in FinalStatuses
                               => notes'[n].status = notes[n].status]_pushVars

\* Every notification is settled, whatever the provider answers.
EveryNoteSettles ==
  \A n \in 1..MaxChanges :
    n \in DOMAIN notes ~> (n \in DOMAIN notes /\ notes[n].status \in FinalStatuses)

\* Every business change the user is to hear of has a notification of its own
\* (docs/push_notifications.md:36).
EveryChangeNotified == Len(notes) = changes
=============================================================================
