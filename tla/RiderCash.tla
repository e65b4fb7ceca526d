------------------------------- MODULE RiderCash -------------------------------
(***************************************************************************)
(* The money between the company and one rider: cash on delivery he        *)
(* collected and the finance desk accepts, the cash he remits, the fee he  *)
(* earns with every accepted collection, bonuses, deductions and payouts.  *)
(*                                                                         *)
(* No row holds what the rider owes or is owed.  Every check sums other    *)
(* rows (rider_cash_in_hand_minor, rider_balance_minor), nothing locks     *)
(* them, and the sum is out of date as soon as another session commits.    *)
(* What does hold between sessions are unique keys: of a journal, of a     *)
(* payout and of an entry in the rider's ledger.                           *)
(***************************************************************************)
EXTENDS Integers, FiniteSets, Functions

CONSTANTS DeskSessions,  \* requests of the finance desk
          Collections,   \* COD collections the rider submitted
          Collected,     \* what he collected in each
          Fee,           \* what an accepted collection earns him, when his profile says so
          Remittances,   \* cash he hands in
          Remitted,      \* how much each time
          RiderKeys,     \* idempotency keys of adjustments and payouts
          Adjustments,   \* bonuses and deductions
          MaxRiderCalls  \* bound: sessions that commit

ASSUME RiderAssumption == /\ Collected \in Nat \ {0} /\ Fee \in Nat \ {0}
                          /\ Remitted \in Nat \ {0} /\ MaxRiderCalls \in Nat
                          /\ Adjustments \subseteq Int \ {0}
                          /\ IsFiniteSet(Collections) /\ IsFiniteSet(Remittances)

VARIABLES collected,   \* the collections: status, accepted_minor, and the payments made for them
          remitted,    \* the remittances: status, and whether their journal was posted
          fee,         \* delivery_fee_minor of the profile; 0 when there is none, or it is inactive
          keysUsed,    \* unique keys of the rider's ledger that are taken
          owed,        \* the sum of the rider's ledger
          shown,       \* balance_minor of its last entry
          deducted,    \* history: the deductions among them
          desk,        \* what every session is doing
          apartRider,  \* history: no session committed after one that overlapped it
          riderCalls   \* sessions that committed

riderVars == <<collected, remitted, fee, keysUsed, owed, shown, deducted, desk, apartRider, riderCalls>>

-----------------------------------------------------------------------------
CollectionRow == [status: {"submitted", "reconciled", "rejected"}, accepted: 0..Collected, paid: Nat]
RemittanceRow == [status: {"absent", "submitted", "reconciled", "rejected"}, booked: BOOLEAN]

\* One key for the earning of each collection, and those that come with the requests.
EntryKeys == Collections \cup RiderKeys

Idle == [step |-> "idle"]
DeskJobs == [kind: {"accept"}, on: Collections, amount: 1..Collected]
            \cup [kind: {"reject"}, on: Collections]
            \cup [kind: {"remit", "refuse"}, on: Remittances]
            \cup [kind: {"adjust"}, on: RiderKeys, amount: Adjustments]
            \cup [kind: {"payout"}, on: RiderKeys, amount: {1}]
DeskState == [step: {"checked", "summed"}, job: DeskJobs, entry: Int, sum: Int, lapped: BOOLEAN]

\* rider_cash_in_hand_minor: two sums over reconciled rows.
ReconciledRows(rows) == {x \in DOMAIN rows : rows[x].status = "reconciled"}
CashInHand == SumFunctionOnSet([c \in Collections |-> collected[c].accepted], ReconciledRows(collected))
                - Remitted * Cardinality(ReconciledRows(remitted))

\* reconcile_remittance: what it refuses.
MayDecide(job) == /\ remitted[job.on].status = "submitted"
                  /\ job.kind = "remit" => Remitted <= CashInHand

\* Faulty: the balance is not looked at.
MayBookAny(job) == job.on \notin keysUsed

\* create_rider_payout and post_rider_adjustment: a key that is known returns its row.
MayBook(job) == job.on \notin keysUsed /\ (job.kind = "payout" => job.amount <= owed)

\* reconcile_cod_collection: only a submitted one.
MaySettle(job) == collected[job.on].status = "submitted"

-----------------------------------------------------------------------------
RiderInit ==
  /\ collected = [c \in Collections |-> [status |-> "submitted", accepted |-> 0, paid |-> 0]]
  /\ remitted = [r \in Remittances |-> [status |-> "absent", booked |-> FALSE]]
  /\ fee \in {0, Fee} /\ keysUsed = {} /\ owed = 0 /\ shown = 0 /\ deducted = 0
  /\ desk = [s \in DeskSessions |-> Idle] /\ apartRider = TRUE /\ riderCalls = 0

riderRows == <<collected, remitted, fee, keysUsed, owed, shown, deducted>>

\* A request passes its checks.
CheckRider(s) == \E job \in DeskJobs :
  /\ desk[s] = Idle
  /\ riderCalls + Cardinality({r \in DeskSessions : desk[r] # Idle}) < MaxRiderCalls
  /\ CASE job.kind \in {"accept", "reject"} -> MaySettle(job)
       [] job.kind \in {"remit", "refuse"} -> MayDecide(job)
       [] OTHER -> MayBook(job)
  /\ desk' = [desk EXCEPT ![s] = [step |-> "checked", job |-> job, entry |-> 0, sum |-> 0,
                                  lapped |-> FALSE]]
  /\ UNCHANGED <<riderRows, apartRider, riderCalls>>

\* What the request adds to the rider's ledger.
EntryOf(job) == CASE job.kind = "accept" -> fee
                  [] job.kind = "adjust" -> job.amount
                  [] job.kind = "payout" -> -job.amount
                  [] OTHER -> 0

\* append_rider_ledger_entry: the balance an entry shows.
BalanceWith(entry) == owed + entry

\* The entry is made up, with the balance it is to show, and inserted.
SumRider(s) ==
  LET job == desk[s].job
      entry == EntryOf(job)
  IN /\ desk[s].step = "checked"
     /\ desk' = [desk EXCEPT ![s].step = "summed", ![s].entry = entry, ![s].sum = BalanceWith(entry)]
     /\ UNCHANGED <<riderRows, apartRider, riderCalls>>

\* A unique key stands in the way of the request.
Taken(s) == \/ desk[s].entry # 0 /\ desk[s].job.on \in keysUsed
            \/ desk[s].job.kind = "remit" /\ remitted[desk[s].job.on].booked

\* A decided remittance: its status, and its journal when it is accepted.
Decided(job, row) == [status |-> IF job.kind = "remit" THEN "reconciled" ELSE "rejected",
                      booked |-> row.booked \/ job.kind = "remit"]

SettledCollection(job, row) ==
  IF job.kind = "accept"
  THEN [status |-> "reconciled", accepted |-> job.amount, paid |-> row.paid + job.amount]
  ELSE [row EXCEPT !.status = "rejected"]

\* Everybody who is still at work has checked and summed what is no longer so.
CommitRider(s) ==
  LET job == desk[s].job
      entry == desk[s].entry
  IN /\ desk[s].step = "summed" /\ ~Taken(s)
     /\ desk' = [r \in DeskSessions |-> IF r = s \/ desk[r] = Idle THEN Idle
                                        ELSE [desk[r] EXCEPT !.lapped = TRUE]]
     /\ collected' = IF job.kind \in {"accept", "reject"}
                     THEN [collected EXCEPT ![job.on] = SettledCollection(job, @)] ELSE collected
     /\ remitted' = IF job.kind \in {"remit", "refuse"}
                    THEN [remitted EXCEPT ![job.on] = Decided(job, @)] ELSE remitted
     /\ IF entry # 0
        THEN /\ keysUsed' = keysUsed \cup {job.on}
             /\ owed' = owed + entry /\ shown' = desk[s].sum
        ELSE UNCHANGED <<keysUsed, owed, shown>>
     /\ deducted' = IF job.kind = "adjust" /\ entry < 0 THEN deducted - entry ELSE deducted
     /\ apartRider' = (apartRider /\ ~desk[s].lapped) /\ riderCalls' = riderCalls + 1
     /\ UNCHANGED fee

\* The insert fails on the key, and the request is rolled back.
RefuseRider(s) == /\ desk[s].step = "summed" /\ Taken(s)
                  /\ desk' = [desk EXCEPT ![s] = Idle]
                  /\ UNCHANGED <<riderRows, apartRider, riderCalls>>

\* The rider hands in cash; nothing is checked until the desk decides.
SubmitRemittance == \E r \in Remittances :
  /\ remitted[r].status = "absent"
  /\ remitted' = [remitted EXCEPT ![r].status = "submitted"]
  /\ UNCHANGED <<collected, fee, keysUsed, owed, shown, deducted, desk, apartRider, riderCalls>>

\* set_rider_profile: the fee of the collections that are accepted from now on.
SetRiderProfile == /\ riderCalls + Cardinality({r \in DeskSessions : desk[r] # Idle}) < MaxRiderCalls
                   /\ fee' \in {0, Fee} \ {fee}
                   /\ riderCalls' = riderCalls + 1
                   /\ UNCHANGED <<collected, remitted, keysUsed, owed, shown, deducted, desk, apartRider>>

RiderNext == \/ SubmitRemittance \/ SetRiderProfile
             \/ \E s \in DeskSessions : \/ CheckRider(s) \/ SumRider(s)
                                        \/ CommitRider(s) \/ RefuseRider(s)
RiderSpec == RiderInit /\ [][RiderNext]_riderVars

-----------------------------------------------------------------------------
(* The state is what the tables and the sessions can hold. *)
RiderTypeOK ==
  /\ collected \in [Collections -> CollectionRow] /\ remitted \in [Remittances -> RemittanceRow]
  /\ fee \in {0, Fee} /\ keysUsed \subseteq EntryKeys /\ owed \in Int /\ shown \in Int
  /\ deducted \in Nat /\ desk \in [DeskSessions -> DeskState \cup {Idle}]
  /\ apartRider \in BOOLEAN /\ riderCalls \in Nat

(* As long as no requests overlapped, the rider was never paid more than he earned, but *)
(* for what was deducted from him (create_rider_payout, post_rider_adjustment). *)
PayoutsBacked == apartRider => owed + deducted >= 0

(* As long as no requests overlapped, he did not remit more than he collected *)
(* (reconcile_remittance). *)
CashBacked == apartRider => CashInHand >= 0

(* A collection was paid into the order as often as it was accepted, once, unless two *)
(* requests that decided it overlapped; a rejected one never was (reconcile_cod_collection). *)
CollectedOnce == apartRider => \A c \in Collections :
  collected[c].paid = IF collected[c].status = "reconciled" THEN collected[c].accepted ELSE 0

(* A reconciled remittance has its journal, however the requests overlapped, and the other *)
(* way round unless one of them refused it when another had accepted it. *)
RemittedAsBooked == \A r \in Remittances :
  /\ remitted[r].status = "reconciled" => remitted[r].booked
  /\ apartRider /\ remitted[r].booked => remitted[r].status = "reconciled"

(* The balance the last entry shows is the sum of the ledger, unless requests overlapped. *)
RunningBalance == apartRider => shown = owed

(* Collections, remittances and the rider's ledger agree, but for the named exceptions. *)
RiderSound == PayoutsBacked /\ CashBacked /\ CollectedOnce /\ RemittedAsBooked /\ RunningBalance
=============================================================================
