------------------------------ MODULE JournalBook ------------------------------
(***************************************************************************)
(* The company's books: the ledger (ledger_services.py) and, beside it,    *)
(* the older accounts, entries and vendor balances that are kept as its    *)
(* projection (accounting_services.py), each with periods of its own.      *)
(*                                                                         *)
(* Every posting is one transaction, refused as a whole or not at all.     *)
(* Which of its lines reach the projection depends on who posts: journals  *)
(* of the ledger's own API and reversals are copied, payments, settlements *)
(* and entries of the older API write both sides, approvals of a vendor's  *)
(* sale write the ledger alone.  Amounts are small: a sale of 2, of which  *)
(* 1 is the vendor's.                                                      *)
(***************************************************************************)
EXTENDS Integers, FiniteSets, Sequences, Functions

CONSTANTS BookDrafts,   \* sets of lines an accountant may post; no two of the same amount, which
                        \*   as a set would be one line once they are on one account
          SpareCodes,   \* account codes that are not among the defaults
          EditedCodes,  \* those of the accounts that are renamed, switched off or added
          MaxPostings,  \* bound: journals and entries
          MaxSettings,  \* bound: changes of accounts and periods
          MaxBookCalls  \* bound: both together

VARIABLES chart,        \* accounts: code and is_active of every row
          mirror,       \* ledger_accounts: by code, the row mirrored and whether it is active
          periods,      \* ledger_periods
          oldPeriods,   \* accounting_periods
          journals,     \* ledger_journals with their lines, in the order they were posted
          entries,      \* journal_entries with their lines
          vendorRows,   \* vendor_ledger_entries of one vendor
          reversing,    \* reversals that read a posted journal and have not committed
          month,
          renamed,      \* history: rows whose code was changed
          postings, settings

bookVars == <<chart, mirror, periods, oldPeriods, journals, entries, vendorRows, reversing,
              month, renamed, postings, settings>>

-----------------------------------------------------------------------------
DefaultCodes == <<"bank", "payable", "sales", "expense">>
Defaults == {DefaultCodes[i] : i \in 1..Len(DefaultCodes)}
Codes == Defaults \cup SpareCodes
Months == 1..2
Year == [from |-> 1, to |-> 2, status |-> "open"]
Statuses4Periods == {"open", "locked", "closed"}
Line == [code: Codes, vendor: BOOLEAN, minor: Int]
AmountsDiffer(lines) == \A k, l \in lines : k.minor = l.minor => k = l
ASSUME JournalBookAssumption ==
  /\ \A lines \in BookDrafts : IsFiniteSet(lines) /\ lines \subseteq Line /\ AmountsDiffer(lines)
  /\ EditedCodes \subseteq Codes /\ {MaxPostings, MaxSettings, MaxBookCalls} \subseteq Nat
NoSource == <<"none", 0>>
Named == <<"named", 0>>   \* a source the caller chose

Debit(c, n) == [code |-> c, vendor |-> FALSE, minor |-> n]
Vendors(n) == [code |-> "payable", vendor |-> TRUE, minor |-> n]

Total(lines) == SumFunctionOnSet([l \in lines |-> l.minor], lines)
OfVendor(lines) == SumFunctionOnSet([l \in lines |-> IF l.vendor THEN -l.minor ELSE 0], lines)

(* ensure_default_ledger_accounts: defaults that are missing are added to the older chart, *)
(* and every code the ledger does not know is mirrored, with the state the row has by then. *)
Having(ch, code) == IF \E r \in DOMAIN ch : ch[r].code = code THEN ch
                    ELSE Append(ch, [code |-> code, active |-> TRUE])
WithDefaults(ch) ==
  Having(Having(Having(Having(ch, DefaultCodes[1]), DefaultCodes[2]), DefaultCodes[3]), DefaultCodes[4])
RowOf(ch, code) == CHOOSE r \in DOMAIN ch : ch[r].code = code
Mirrored(ch, mi) ==
  [c \in DOMAIN mi \cup {ch[r].code : r \in DOMAIN ch} |->
     IF c \in DOMAIN mi THEN mi[c]
     ELSE [row |-> RowOf(ch, c), active |-> ch[RowOf(ch, c)].active]]
Chart == WithDefaults(chart)
Mirror == Mirrored(Chart, mirror)

(* validate_lines: at least two lines of active accounts that balance. *)
Valid(lines, mi) == /\ Cardinality(lines) >= 2 /\ Total(lines) = 0
                    /\ \A l \in lines : l.code \in DOMAIN mi /\ mi[l.code].active

Covering(ps, d) == {p \in ps : p.from <= d /\ d <= p.to}

(* ensure_period_for_date: whichever period the query finds first; without one, the year. *)
PeriodUsed(p, d) == /\ p \in (IF Covering(periods, d) = {} THEN {Year} ELSE Covering(periods, d))
                    /\ p.status = "open"
(* _ensure_period_is_open, of the older books: no period is as good as an open one. *)
OldBooksOpen(d) == \/ Covering(oldPeriods, d) = {}
                   \/ \E p \in Covering(oldPeriods, d) : p.status = "open"

KeyTaken(key) == \E j \in DOMAIN journals : journals[j].key = key

-----------------------------------------------------------------------------
BookInit ==
  /\ chart = [i \in 1..Len(DefaultCodes) |-> [code |-> DefaultCodes[i], active |-> TRUE]]
  /\ mirror = [c \in Defaults |-> [row |-> RowOf(chart, c), active |-> TRUE]]
  /\ periods \in {{}, {[from |-> 1, to |-> 1, status |-> "open"]}} /\ oldPeriods = {}
  /\ journals = <<>> /\ entries = <<>> /\ vendorRows = {}
  /\ reversing = {} /\ month = 1 /\ renamed = {} /\ postings = 0 /\ settings = 0

ledgerRows == <<periods, journals, chart, mirror>>
projectionRows == <<entries, vendorRows>>

RoomFor(done, most) == done < most /\ postings + settings < MaxBookCalls
Booked == /\ RoomFor(postings, MaxPostings) /\ postings' = postings + 1
           /\ UNCHANGED <<oldPeriods, month, renamed, settings>>

(* post_journal, without the projection. *)
Post(src, key, lines, d) ==
  /\ ~KeyTaken(key)
  /\ LET mi == Mirror IN Valid(lines, mi) /\ mirror' = mi
  /\ \E p \in periods \cup {Year} : PeriodUsed(p, d) /\ periods' = periods \cup {p}
  /\ journals' = Append(journals, [src |-> src, key |-> key, lines |-> lines, on |-> d,
                                   status |-> "posted"])
  /\ chart' = Chart

EntryFor(src, lines, mi) ==
  [src |-> src, status |-> "posted", of |-> Len(journals) + 1,
   lines |-> {[row |-> mi[l.code].row, minor |-> l.minor] : l \in lines}]

(* _append_legacy_vendor_projection: one row of a vendor for each source, and none for nil. *)
VendorRowsWith(src, amount) ==
  IF amount = 0 \/ \E v \in vendorRows : v.src = src THEN vendorRows
  ELSE vendorRows \cup {[src |-> src, minor |-> amount]}
(* Faulty: vendors' lines are not carried over. *)
NoVendorRows(src, lines) == UNCHANGED vendorRows
ProjectVendor(src, lines) == vendorRows' = VendorRowsWith(src, OfVendor(lines))

(* project_legacy_journal: an entry of the same source is taken for the projection. *)
Project(src, lines) ==
  IF \E e \in DOMAIN entries : entries[e].src = src THEN UNCHANGED projectionRows
  ELSE /\ entries' = Append(entries, EntryFor(src, lines, mirror'))
       /\ ProjectVendor(src, lines)

(* POST /ledger/journals, for a day gone by. *)
PostManual == \E lines \in BookDrafts, d \in 1..month,
                 src \in {Named, <<"manual", Len(journals) + 1>>} :
  /\ Booked /\ Post(src, src, lines, d) /\ Project(src, lines)
  /\ UNCHANGED reversing

(* create_journal_entry: what is there for the source is returned as it is; only a posted *)
(* entry reaches the ledger, over the mirror of its accounts, under a source of its own. *)
OwnEntry(src, status, lines) ==
  LET ch == Chart
  IN [src |-> src, status |-> status, of |-> 0,
      lines |-> {[row |-> RowOf(ch, l.code), minor |-> l.minor] : l \in lines}]
\* The lines on the ledger's accounts; two codes may mirror one row after it was renamed.
OnLedger(lines, ch, mi) ==
  LET Mapped(l) == {c \in DOMAIN mi : mi[c].row = RowOf(ch, l.code)}
      Ways == [lines -> UNION {Mapped(l) : l \in lines}]
  IN {{[l EXCEPT !.code = to[l]] : l \in lines} :
        to \in {t \in Ways : \A l \in lines : t[l] \in Mapped(l)}}
CreateEntry == \E lines \in BookDrafts, src \in {NoSource, Named}, status \in {"draft", "posted"} :
  LET own == <<"adapter", Len(journals) + 1>>
      plain == {[l EXCEPT !.vendor = FALSE] : l \in lines}
  IN /\ Booked /\ Total(lines) = 0 /\ OldBooksOpen(month)
     /\ src # NoSource => \A e \in DOMAIN entries : entries[e].src # src
     /\ \A l \in lines : \E r \in DOMAIN chart : chart[r].code = l.code
     /\ IF status = "draft" THEN UNCHANGED ledgerRows
        ELSE \E there \in OnLedger(plain, Chart, Mirror) :
                  Post(IF src = NoSource THEN own ELSE src, <<"adapter", src, own>>, there, month)
     /\ entries' = Append(entries, OwnEntry(src, status, plain))
     /\ UNCHANGED <<vendorRows, reversing>>

HowMany(kind) == Cardinality({j \in DOMAIN journals : journals[j].src[1] = kind})

(* post_order_payment_entry: revenue in the ledger, the vendor's share in the projection. *)
PostPayment ==
  LET src == <<"payment", Len(journals) + 1>>
      shares == {Debit("bank", 2), Debit("payable", -1), Debit("sales", -1)}
  IN /\ Booked /\ OldBooksOpen(month)
     /\ Post(src, src, {Debit("bank", 2), Debit("sales", -2)}, month)
     /\ entries' = Append(entries, OwnEntry(src, "posted", shares))
     /\ vendorRows' = vendorRows \cup {[src |-> src, minor |-> 1]}
     /\ UNCHANGED reversing

(* decide_vendor_item, of a sale that was paid: the ledger alone. *)
ApproveSale ==
  LET src == <<"approval", Len(journals) + 1>>
  IN /\ Booked /\ HowMany("approval") < HowMany("payment")
     /\ Post(src, src, {Debit("expense", 1), Vendors(-1)}, month)
     /\ UNCHANGED <<projectionRows, reversing>>

(* post_vendor_settlement_entry, of an approved sale. *)
PostSettlement ==
  LET src == <<"settlement", Len(journals) + 1>>
      lines == {Vendors(1), Debit("bank", -1)}
  IN /\ Booked /\ HowMany("settlement") < HowMany("approval") /\ OldBooksOpen(month)
     /\ Post(src, src, lines, month)
     /\ entries' = Append(entries, OwnEntry(src, "posted", lines))
     /\ vendorRows' = vendorRows \cup {[src |-> src, minor |-> -1]}
     /\ UNCHANGED reversing

(* create_expense, paid at once, on any account of the older chart the ledger mirrors. *)
PayExpense == \E code \in DOMAIN Mirror :
  LET src == <<"expense", Len(journals) + 1>>
      lines == {Debit(code, 1), Debit("bank", -1)}
  IN /\ Booked /\ code # "bank" /\ Mirror[code].row \notin {Mirror[c].row : c \in {"payable", "sales"}}
     /\ Post(src, src, lines, month) /\ Project(src, lines)
     /\ UNCHANGED reversing

(* reverse_journal, by hand or in a refund, which has a key of its own.  Other requests may *)
(* commit between its look at the status and its commit. *)
ReadForReversal == \E j \in DOMAIN journals, way \in {"hand", "refund"} :
  /\ journals[j].status = "posted" /\ <<way, j>> \notin reversing
  /\ way = "refund" => journals[j].src[1] \in {"payment", "approval", "settlement"}
  /\ Cardinality(reversing) + postings < MaxPostings
  /\ RoomFor(postings, MaxPostings)
  /\ reversing' = reversing \cup {<<way, j>>}
  /\ UNCHANGED <<ledgerRows, projectionRows, oldPeriods, month, renamed, postings,
                 settings>>

Negated(lines) == {[l EXCEPT !.minor = -l.minor] : l \in lines}
CommitReversal == \E r \in reversing :
  LET j == r[2]
      src == <<"reversal", j>>
      lines == Negated(journals[j].lines)
  IN /\ Booked /\ reversing' = reversing \ {r}
     /\ \E p \in periods \cup {Year} : PeriodUsed(p, month) /\ periods' = periods \cup {p}
     /\ ~KeyTaken(r)
     /\ LET mi == Mirror IN Valid(lines, mi) /\ mirror' = mi
     /\ journals' = Append([journals EXCEPT ![j].status = "reversed"],
                           [src |-> src, key |-> r, lines |-> lines, on |-> month,
                            status |-> "posted"])
     /\ chart' = Chart
     /\ Project(src, lines)

(* The reversal is refused: by a locked period, an account or its key. *)
ReversalRefused == \E r \in reversing :
  /\ \/ \E p \in Covering(periods, month) : p.status # "open"
     \/ ~Valid(journals[r[2]].lines, Mirror)
     \/ KeyTaken(r)
  /\ reversing' = reversing \ {r}
  /\ UNCHANGED <<ledgerRows, projectionRows, oldPeriods, month, renamed, postings,
                 settings>>

-----------------------------------------------------------------------------
Setting == /\ RoomFor(settings, MaxSettings) /\ settings' = settings + 1
           /\ UNCHANGED <<journals, projectionRows, reversing, month, postings>>

(* create_period of the ledger: never over another one. *)
CreatePeriod == \E m \in Months :
  /\ Setting /\ Covering(periods, m) = {}
  /\ periods' = periods \cup {[from |-> m, to |-> m, status |-> "open"]}
  /\ UNCHANGED <<chart, mirror, oldPeriods, renamed>>

(* set_period_status: a closed period stays closed. *)
MayBecomeAt(p, status) == p.status = "closed" => status = "closed"
SetPeriod == \E p \in periods, status \in Statuses4Periods :
  /\ Setting /\ status # p.status /\ MayBecomeAt(p, status)
  /\ periods' = (periods \ {p}) \cup {[p EXCEPT !.status = status]}
  /\ UNCHANGED <<chart, mirror, oldPeriods, renamed>>

(* create_period and update_period of the older books: any span, any status, back and forth. *)
SetOldPeriod == \E m \in Months, status \in {"open", "locked"} :
  /\ Setting /\ oldPeriods' = {p \in oldPeriods : p.from # m}
                     \cup {[from |-> m, to |-> m, status |-> status]}
  /\ oldPeriods' # oldPeriods
  /\ UNCHANGED <<chart, mirror, periods, renamed>>

(* create_account and update_account: codes are unique, everything else may change. *)
CreateAccount == \E c \in EditedCodes \cup SpareCodes, active \in BOOLEAN :
  /\ Setting /\ \A r \in DOMAIN chart : chart[r].code # c
  /\ chart' = Append(chart, [code |-> c, active |-> active])
  /\ UNCHANGED <<mirror, periods, oldPeriods, renamed>>

RenameAccount == \E r \in DOMAIN chart, c \in SpareCodes :
  /\ Setting /\ chart[r].code \in EditedCodes
  /\ \A q \in DOMAIN chart : chart[q].code # c
  /\ chart' = [chart EXCEPT ![r].code = c]
  /\ renamed' = renamed \cup {r}
  /\ UNCHANGED <<mirror, periods, oldPeriods>>

SwitchAccount == \E r \in DOMAIN chart :
  /\ Setting /\ chart[r].code \in EditedCodes \cup SpareCodes
  /\ chart' = [chart EXCEPT ![r].active = ~chart[r].active]
  /\ UNCHANGED <<mirror, periods, oldPeriods, renamed>>

NextMonth == /\ month < 2 /\ month' = month + 1
             /\ UNCHANGED <<ledgerRows, projectionRows, oldPeriods, reversing, renamed,
                            postings, settings>>

BookNext == \/ PostManual \/ CreateEntry \/ PostPayment \/ ApproveSale \/ PostSettlement
            \/ PayExpense \/ ReadForReversal \/ CommitReversal \/ ReversalRefused
            \/ CreatePeriod \/ SetPeriod \/ SetOldPeriod
            \/ CreateAccount \/ RenameAccount \/ SwitchAccount \/ NextMonth
BookSpec == BookInit /\ [][BookNext]_bookVars

-----------------------------------------------------------------------------
BookTypeOK ==
  /\ \A r \in DOMAIN chart : chart[r] \in [code: Codes, active: BOOLEAN]
  /\ \A c \in DOMAIN mirror : c \in Codes /\ mirror[c] \in [row: DOMAIN chart, active: BOOLEAN]
  /\ periods \cup oldPeriods \subseteq [from: Months, to: Months, status: Statuses4Periods]
  /\ \A j \in DOMAIN journals : journals[j].lines \subseteq Line /\ journals[j].on \in Months
  /\ \A e \in DOMAIN entries : entries[e].of \in 0..Len(journals)
  /\ reversing \subseteq {"hand", "refund"} \X DOMAIN journals

Kind(j) == journals[j].src[1]
Carried(j) == \E e \in DOMAIN entries : entries[e].of = j
Payable(js) == SumFunctionOnSet([j \in js |-> OfVendor(journals[j].lines)], js)

(* A journal is reversed when, and only when, its reversal is posted, and the two cancel out *)
(* on every account.  It is reversed twice only by hand and by a refund that overlapped, *)
(* whose keys differ. *)
ReversalsOf(j) == {k \in DOMAIN journals : journals[k].src = <<"reversal", j>>}
ReversedOnce == \A j \in DOMAIN journals :
  /\ journals[j].status = "reversed" <=> ReversalsOf(j) # {}
  /\ \A k \in ReversalsOf(j) : journals[k].lines = Negated(journals[j].lines)
  /\ \/ Cardinality(ReversalsOf(j)) <= 1
     \/ {journals[k].key[1] : k \in ReversalsOf(j)} = {"hand", "refund"}

(* The older vendor balance is off the ledger by the shares of the payments, less the sales *)
(* that finance approved, and by the journals that found an entry of their source there. *)
DriftExplained ==
  SumFunctionOnSet([v \in vendorRows |-> v.minor], vendorRows) - Payable(DOMAIN journals)
    = HowMany("payment") - HowMany("approval")
      - Payable({j \in DOMAIN journals :
                   ~Carried(j) /\ Kind(j) \notin {"payment", "approval", "settlement"}})

(* reconciliation_issues accuses no journal of a missing or a differing projection, nor of a *)
(* double, but: approvals, entries without a source, journals that found an entry of their *)
(* source, and the double reversals above. *)
Debits(lines) == SumFunctionOnSet([l \in lines |-> IF l.minor > 0 THEN l.minor ELSE 0], lines)
EntriesOf(j) == {e \in DOMAIN entries : entries[e].src = journals[j].src}
Accused(j) == \/ EntriesOf(j) = {}
              \/ \E e \in EntriesOf(j) : Debits(entries[e].lines) # Debits(journals[j].lines)
              \/ \E k \in DOMAIN journals \ {j} : journals[k].src = journals[j].src
FalselyAccused(j) == Kind(j) \in {"approval", "adapter"}
FoundAnEntry(j) == Kind(j) = "named" \/ Cardinality(ReversalsOf(journals[j].src[2])) = 2
ReconciliationKnown == \A j \in DOMAIN journals :
  Accused(j) => FalselyAccused(j) \/ FoundAnEntry(j)

(* What is copied into the older books is on the accounts it was posted to, until an account *)
(* is renamed there. *)
ProjectedAsPosted == \A e \in DOMAIN entries : entries[e].of # 0 =>
  {[code |-> chart[l.row].code, minor |-> l.minor] :
     l \in {x \in entries[e].lines : x.row \notin renamed}}
    \subseteq {[code |-> l.code, minor |-> l.minor] : l \in journals[entries[e].of].lines}

(* vendor_payables_report, on any day: settlements consume the oldest credits first, and *)
(* what is left of them, less what found no credit, is the balance of the vendor's lines. *)
SumOf(lots) == SumFunctionOnSet(lots, DOMAIN lots)
Least(a, b) == IF a < b THEN a ELSE b
Consumed(lots, debit) ==
  [i \in DOMAIN lots |->
     LET before == SumFunctionOnSet(lots, 1..(i - 1))
     IN lots[i] - Least(lots[i], IF debit > before THEN debit - before ELSE 0)]
Aged(report, credit) ==
  IF credit > 0 THEN [report EXCEPT !.lots = Append(@, credit)]
  ELSE [lots |-> Consumed(report.lots, -credit),
        over |-> report.over - credit - Least(-credit, SumOf(report.lots))]
\* The report, once the journals of a month are in it.
AfterMonth(report, m) ==
  LET after[n \in 0..Len(journals)] ==
        IF n = 0 THEN report
        ELSE IF journals[n].on = m THEN Aged(after[n - 1], OfVendor(journals[n].lines))
        ELSE after[n - 1]
  IN after[Len(journals)]
NoLots == [lots |-> <<>>, over |-> 0]
Report(d) == IF d = 1 THEN AfterMonth(NoLots, 1) ELSE AfterMonth(AfterMonth(NoLots, 1), 2)
ReportAdds == \A d \in Months :
  LET report == Report(d)
  IN /\ SumOf(report.lots) - report.over = Payable({j \in DOMAIN journals : journals[j].on <= d})
     /\ \A i \in DOMAIN report.lots : report.lots[i] >= 0

BookSound == ReversedOnce /\ DriftExplained /\ ReconciliationKnown /\ ProjectedAsPosted /\ ReportAdds

(* Nothing is posted into a month while every period over it is locked or closed, and no *)
(* closed period is opened again (ensure_period_for_date, set_period_status).  The year that *)
(* the ledger adds by itself is such a period: it opens a locked month again. *)
ClosedBooksStay == [][/\ \A j \in DOMAIN journals' \ DOMAIN journals :
                           LET over == Covering(periods, journals'[j].on)
                           IN over = {} \/ \E p \in over : p.status = "open"
                      /\ \A p \in periods : p.status = "closed" => p \in periods']_bookVars
=============================================================================
