------------------------------ MODULE VendorLines ------------------------------
(***************************************************************************)
(* A vendor's lines in the hands of several people at once: the vendor     *)
(* packs them, finance approves or rejects them, somebody settles what is  *)
(* approved, somebody refunds the order.  OrderFinance runs these calls    *)
(* one after the other; here a call reads when it begins and writes when   *)
(* it ends.  Nothing locks a line: the last to commit has its way with the *)
(* columns it writes, and only the keys of the journals are unique.        *)
(***************************************************************************)
EXTENDS Naturals, Sequences

CONSTANTS Lines,       \* vendor_order_items of one vendor, each of a paid order
          Packed,      \* those the vendor works on
          Clerks,      \* requests
          MaxLineCalls \* bound: calls that end

ASSUME VendorLinesAssumption == Packed \subseteq Lines /\ MaxLineCalls \in Nat

VARIABLES lines,     \* the rows
          approvals, \* the journal vendor-approval:<line>
          batches,   \* the settlements, in the order they were made
          refunded,  \* lines whose order was refunded
          history,   \* vendor_order_item_status_history of every line
          jobs,      \* what every request read, and is to do
          overlaps,  \* history: <<line, one, other>>: one ended while other had read before
          lineCalls  \* how many calls ended

vendorLinesVars == <<lines, approvals, batches, refunded, history, jobs, overlaps, lineCalls>>

-----------------------------------------------------------------------------
\* VENDOR_ORDER_ITEM_TRANSITIONS; a settled line has "allocated", which is not a key of it.
LineMoves == [pending |-> {"accepted", "rejected"}, accepted |-> {"packing"},
              packing |-> {"dispatched"}, dispatched |-> {"delivered"},
              delivered |-> {}, rejected |-> {}, allocated |-> {}]
Unpaid == 0
JobKinds == {"move", "approve", "reject", "settle", "refund"}

NoJob == [kind |-> "none"]
HistoryRow(from, to) == [from |-> from, to |-> to]
NewBatch(on) == [on |-> on, journal |-> "posted"]
Job(kind, on, read) == [kind |-> kind, on |-> on, read |-> read, seen |-> {}]

\* The row record_vendor_order_item makes, once its order is delivered and paid.
NewLine == [status |-> "pending", finance |-> "eligible", batch |-> Unpaid]

\* Some of the lines have been approved before.
VendorLinesInit == \E approved \in SUBSET Lines :
  /\ lines = [l \in Lines |-> IF l \in approved THEN [NewLine EXCEPT !.finance = "approved"]
                             ELSE NewLine]
  /\ approvals = [l \in Lines |-> IF l \in approved THEN "posted" ELSE "none"]
  /\ batches = <<>> /\ refunded = {}
  /\ history = [l \in Lines |-> <<>>]
  /\ jobs = [c \in Clerks |-> NoJob]
  /\ overlaps = {} /\ lineCalls = 0

-----------------------------------------------------------------------------
lineRows == <<lines, approvals, batches, refunded, history>>

BeginJob(c, job) ==
  /\ jobs[c] = NoJob /\ lineCalls < MaxLineCalls
  /\ jobs' = [jobs EXCEPT ![c] = job]
  /\ UNCHANGED <<lineRows, overlaps, lineCalls>>

\* A call ends: those still open have read what may no longer be so.
EndJob(c) == LET job == jobs[c] IN
  /\ lineCalls < MaxLineCalls /\ lineCalls' = lineCalls + 1
  /\ jobs' = [d \in Clerks |->
                CASE d = c -> NoJob
                  [] d # c /\ jobs[d] # NoJob ->
                       [jobs[d] EXCEPT !.seen = @ \cup {<<l, job.kind>> : l \in job.on}]
                  [] OTHER -> NoJob]
  /\ overlaps' = overlaps \cup {<<e[1], e[2], job.kind>> : e \in {e \in job.seen : e[1] \in job.on}}

-----------------------------------------------------------------------------
\* change_vendor_order_item_status: the vendor's own page.
BeginItemMove(c, l) == \E to \in LineMoves[lines[l].status] :
  BeginJob(c, Job("move", {l}, HistoryRow(lines[l].status, to)))

EndItemMove(c) == LET job == jobs[c] IN
  /\ job.kind = "move" /\ EndJob(c)
  /\ \E l \in job.on :
       /\ lines' = [lines EXCEPT ![l].status = job.read.to]
       /\ history' = [history EXCEPT ![l] = Append(@, job.read)]
  /\ UNCHANGED <<approvals, batches, refunded>>

\* decide_vendor_item; the approval's journal must not exist.
BeginDecision(c, l) == \E kind \in {"approve", "reject"} :
  /\ lines[l].finance = "eligible"
  /\ kind = "approve" => approvals[l] = "none"
  /\ BeginJob(c, Job(kind, {l}, lines[l]))

EndApproval(c) == LET job == jobs[c] IN
  /\ job.kind = "approve" /\ EndJob(c)
  /\ \E l \in job.on :
       IF approvals[l] = "none"
       THEN /\ approvals' = [approvals EXCEPT ![l] = "posted"]
            /\ lines' = [lines EXCEPT ![l].finance = "approved"]
       ELSE UNCHANGED <<approvals, lines>>
  /\ UNCHANGED <<batches, refunded, history>>

EndRejection(c) == LET job == jobs[c] IN
  /\ job.kind = "reject" /\ EndJob(c)
  /\ \E l \in job.on : lines' = [lines EXCEPT ![l].finance = "rejected"]
  /\ UNCHANGED <<approvals, batches, refunded, history>>

\* create_vendor_settlement: what is approved and in no settlement, of some period.
Unsettled(l) == lines[l].batch = Unpaid /\ lines[l].finance = "approved"

BeginSettlement(c) == \E on \in SUBSET {l \in Lines : Unsettled(l)} \ {{}} :
  BeginJob(c, Job("settle", on, Unpaid))

EndSettlement(c) == LET job == jobs[c] IN
  /\ job.kind = "settle" /\ EndJob(c)
  /\ batches' = Append(batches, NewBatch(job.on))
  /\ lines' = [l \in Lines |-> IF l \in job.on
                 THEN [status |-> "allocated", finance |-> "paid", batch |-> Len(batches')]
                 ELSE lines[l]]
  /\ UNCHANGED <<approvals, refunded, history>>

\* change_order_status to "refunded", with _reverse_order_finance_postings.
BeginRefund(c, l) ==
  /\ l \notin refunded
  /\ LET b == lines[l].batch IN
     BeginJob(c, Job("refund", {l},
       [finance |-> lines[l].finance, approved |-> approvals[l] = "posted",
        batch |-> IF b # Unpaid /\ batches[b].journal = "posted" THEN b ELSE Unpaid]))

\* The key of a reversal is taken: the payment's by another refund of the order, the
\* settlement's by the refund of another of its lines.
Conflicts(l, read) == \/ l \in refunded
                      \/ read.batch # Unpaid /\ batches[read.batch].journal # "posted"

EndRefund(c) == LET job == jobs[c] IN
  /\ job.kind = "refund" /\ EndJob(c)
  /\ \E l \in job.on :
       IF Conflicts(l, job.read) THEN UNCHANGED lineRows
       ELSE /\ refunded' = refunded \cup {l}
            /\ approvals' = IF job.read.approved THEN [approvals EXCEPT ![l] = "reversed"] ELSE approvals
            /\ batches' = IF job.read.batch = Unpaid THEN batches
                          ELSE [batches EXCEPT ![job.read.batch].journal = "reversed"]
            /\ lines' = IF job.read.finance \in {"eligible", "approved", "paid"}
                        THEN [lines EXCEPT ![l].finance = "reversed"] ELSE lines
            /\ UNCHANGED history

VendorLinesNext == \E c \in Clerks :
  \/ \E l \in Packed : BeginItemMove(c, l)
  \/ \E l \in Lines : BeginDecision(c, l) \/ BeginRefund(c, l)
  \/ BeginSettlement(c)
  \/ EndItemMove(c) \/ EndApproval(c) \/ EndRejection(c) \/ EndSettlement(c) \/ EndRefund(c)
VendorLinesSpec == VendorLinesInit /\ [][VendorLinesNext]_vendorLinesVars

-----------------------------------------------------------------------------
(* The rows hold what their columns may, and requests what they read. *)
VendorLinesTypeOK ==
  /\ lines \in [Lines -> [status: DOMAIN LineMoves, batch: 0..MaxLineCalls,
                          finance: {"eligible", "approved", "rejected", "paid", "reversed"}]]
  /\ approvals \in [Lines -> {"none", "posted", "reversed"}]
  /\ \A i \in DOMAIN batches : batches[i] \in [on: SUBSET Lines, journal: {"posted", "reversed"}]
  /\ refunded \subseteq Lines
  /\ \A l \in Lines : \A i \in DOMAIN history[l] : history[l][i].to \in LineMoves[history[l][i].from]
  /\ \A c \in Clerks : jobs[c].kind \in JobKinds \cup {"none"}
  /\ overlaps \subseteq Lines \X JobKinds \X JobKinds /\ lineCalls \in 0..MaxLineCalls

Lapped(l, one, other) == <<l, one, other>> \in overlaps
Crossed(l, one, other) == Lapped(l, one, other) \/ Lapped(l, other, one)

(* A line is paid for in one settlement, unless two settlements were made at the same time. *)
LinePaidOnce == \A l \in Lines :
  \/ \A i, j \in DOMAIN batches : l \in batches[i].on /\ l \in batches[j].on => i = j
  \/ Lapped(l, "settle", "settle")

(* What is approved or paid has its journal of approval, and what was rejected has none, but *)
(* for an approval that overlapped the rejection and a settlement the refund. *)
FinanceAsPosted == \A l \in Lines :
  /\ lines[l].finance \in {"approved", "paid"} =>
       approvals[l] = "posted" \/ Crossed(l, "refund", "settle")
  /\ lines[l].finance = "rejected" =>
       approvals[l] # "posted" \/ Lapped(l, "approve", "reject")

(* A refund takes back what the company owes and has paid for the line, but for what was *)
(* approved or settled at the same time, and the first of two settlements. *)
RefundTakesAllBack == \A l \in refunded :
  \/ /\ approvals[l] # "posted" /\ lines[l].finance \notin {"eligible", "approved", "paid"}
     /\ \A i \in DOMAIN batches : l \in batches[i].on => batches[i].journal = "reversed"
  \/ Crossed(l, "approve", "refund") \/ Crossed(l, "settle", "refund")
  \/ Lapped(l, "settle", "settle")

(* The history of a line leads to the status it has until it is settled, and nobody works on *)
(* a settled line: but for changes that overlapped each other or the settlement. *)
HistoryLeadsHere == \A l \in Lines :
  /\ \/ \A i \in 2..Len(history[l]) : history[l][i].from = history[l][i - 1].to
     \/ Lapped(l, "move", "move")
  /\ IF lines[l].batch = Unpaid
     THEN lines[l].status = IF history[l] = <<>> THEN "pending" ELSE history[l][Len(history[l])].to
     ELSE lines[l].status = "allocated" \/ Lapped(l, "settle", "move")

VendorLinesSound == LinePaidOnce /\ FinanceAsPosted /\ RefundTakesAllBack /\ HistoryLeadsHere
=============================================================================
