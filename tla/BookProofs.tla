------------------------------ MODULE BookProofs ------------------------------
(***************************************************************************)
(* Proofs about JournalBook, for any drafts, accounts and number of        *)
(* postings: that every reversed journal has its reversal, how far the     *)
(* older books may be from the ledger, that the report of payables adds    *)
(* up, and that nothing is posted into closed books.                       *)
(*                                                                         *)
(* BookSound is not inductive: what the older books hold depends on the    *)
(* journal each entry was copied from and on the accounts the chart had    *)
(* then.  BookInv says of every journal what can have posted it and that a *)
(* reversed one has its reversal, of every entry which journal it is a     *)
(* copy of, and by which sums of journals the balances differ.             *)
(***************************************************************************)
EXTENDS JournalBook, SumLemmas, SequenceTheorems, FiniteSetTheorems, TLAPS

--------------------
\* The journals, whatever was posted: where they come from, and what they are keyed by.
OwnKinds == {"manual", "adapter", "payment", "approval", "settlement", "expense"}
BookRow(l) == /\ l = [code |-> l.code, vendor |-> l.vendor, minor |-> l.minor]
              /\ l.vendor \in BOOLEAN /\ l.minor \in Int
GoodLines(posts) == (\A l \in posts : BookRow(l)) /\ IsFiniteSet(posts) /\ AmountsDiffer(posts)
AsRow(x) == x = [src |-> x.src, key |-> x.key, lines |-> x.lines, on |-> x.on,
                 status |-> x.status]
JournalRow(x) == /\ AsRow(x) /\ GoodLines(x.lines) /\ x.on \in Months
ReversalFits(js, x, i) == /\ x.src = <<"reversal", i>> /\ x.key \in {<<"hand", i>>, <<"refund", i>>}
                          /\ x.lines = Negated(js[i].lines)
SourceFits(js, x, j) == \/ x.src = Named
                        \/ \E sort \in OwnKinds : x.src = <<sort, j>>
                        \/ \E i \in 1..(j - 1) : ReversalFits(js, x, i)
KeysDiffer == \A i, j \in DOMAIN journals : journals[i].key = journals[j].key => i = j
JournalsFit == /\ \E S : journals \in Seq(S)
               /\ \A j \in DOMAIN journals : /\ JournalRow(journals[j])
                                             /\ SourceFits(journals, journals[j], j)
               /\ KeysDiffer
IsReversed(j) == \E k \in DOMAIN journals : journals[k].src = <<"reversal", j>>
StatusesFit == \A j \in DOMAIN journals : journals[j].status = "reversed" <=> IsReversed(j)

\* One journal more; those before it change their status at most.
SameJournal(x, y) == x.src = y.src /\ x.key = y.key /\ x.lines = y.lines /\ x.on = y.on
Added(new) ==
  /\ \E S : journals' \in Seq(S)
  /\ Len(journals') = Len(journals) + 1
  /\ journals'[Len(journals) + 1] = new
  /\ \A j \in DOMAIN journals : SameJournal(journals'[j], journals[j])
  /\ \A j \in DOMAIN journals : AsRow(journals'[j])
  /\ \A j \in DOMAIN journals : journals[j].key # new.key
Journal(src, key, posts, d) == [src |-> src, key |-> key, lines |-> posts, on |-> d,
                                status |-> "posted"]

LEMMA Places ==
  ASSUME JournalsFit
  PROVE  Len(journals) \in Nat /\ DOMAIN journals = 1..Len(journals)
BY LenProperties DEF JournalsFit

LEMMA Longer ==
  ASSUME NEW new, Added(new), JournalsFit
  PROVE  /\ DOMAIN journals' = DOMAIN journals \cup {Len(journals) + 1}
         /\ Len(journals) + 1 \notin DOMAIN journals
         /\ DOMAIN journals' = 1..(Len(journals) + 1)
<1>1. Len(journals) \in Nat /\ DOMAIN journals = 1..Len(journals) BY Places
<1>2. DOMAIN journals' = 1..Len(journals') BY LenProperties DEF Added
<1> QED BY <1>1, <1>2 DEF Added

LEMMA AppendedTo ==
  ASSUME NEW some, NEW x, NEW S, some \in Seq(S)
  PROVE  /\ Append(some, x) \in Seq(S \cup {x})
         /\ Len(some) \in Nat /\ Len(Append(some, x)) = Len(some) + 1
         /\ DOMAIN some = 1..Len(some) /\ DOMAIN Append(some, x) = 1..(Len(some) + 1)
         /\ Append(some, x)[Len(some) + 1] = x
         /\ \A i \in DOMAIN some : Append(some, x)[i] = some[i]
<1>1. some \in Seq(S \cup {x})
  <2>1. Len(some) \in Nat /\ some \in [1..Len(some) -> S] BY LenProperties
  <2>2. some \in [1..Len(some) -> S \cup {x}] BY <2>1
  <2> QED BY <2>1, <2>2, SeqDef
<1>2. Append(some, x) \in Seq(S \cup {x}) /\ Len(Append(some, x)) = Len(some) + 1
  BY <1>1, AppendProperties
<1>3. /\ Append(some, x)[Len(some) + 1] = x
      /\ \A i \in 1..Len(some) : Append(some, x)[i] = some[i]
  BY <1>1, AppendProperties
<1> QED BY <1>1, <1>2, <1>3, LenProperties

LEMMA PostGrows ==
  ASSUME JournalsFit, NEW src, NEW key, NEW posts, NEW d, Post(src, key, posts, d)
  PROVE  /\ Added(Journal(src, key, posts, d))
         /\ \A j \in DOMAIN journals : journals'[j] = journals[j]
<1> DEFINE new == Journal(src, key, posts, d)
<1>1. journals' = Append(journals, new) /\ ~KeyTaken(key) BY DEF Post, Journal
<1>2. new.key = key BY DEF Journal
<1> HIDE DEF new
<1>3. PICK S : journals \in Seq(S) BY DEF JournalsFit
<1>4. /\ \E T : journals' \in Seq(T)
      /\ Len(journals') = Len(journals) + 1 /\ journals'[Len(journals) + 1] = new
      /\ \A j \in DOMAIN journals : journals'[j] = journals[j]
  <2> DEFINE longer == Append(journals, new)
  <2>1. /\ longer \in Seq(S \cup {new})
        /\ Len(longer) = Len(journals) + 1 /\ longer[Len(journals) + 1] = new
        /\ \A j \in DOMAIN journals : longer[j] = journals[j]
    BY <1>3, AppendedTo
  <2> QED BY <1>1, <2>1
<1>5. \A j \in DOMAIN journals : /\ SameJournal(journals'[j], journals[j])
                                 /\ journals[j].key # new.key
  BY <1>1, <1>2, <1>4 DEF SameJournal, KeyTaken
<1>6. \A j \in DOMAIN journals : AsRow(journals'[j]) BY <1>4 DEF JournalsFit, JournalRow
<1> QED BY <1>4, <1>5, <1>6 DEF Added, new

\* What a reversal that is being committed reverses.
ReversingFits == reversing \subseteq {"hand", "refund"} \X DOMAIN journals

LEMMA ReversalGrows ==
  ASSUME JournalsFit, ReversingFits, NEW r \in reversing,
         LET j == r[2]
         IN journals' = Append([journals EXCEPT ![j].status = "reversed"],
                               Journal(<<"reversal", j>>, r, Negated(journals[j].lines), month)),
         ~KeyTaken(r)
  PROVE  /\ Added(Journal(<<"reversal", r[2]>>, r, Negated(journals[r[2]].lines), month))
         /\ \A j \in DOMAIN journals :
              journals'[j].status = IF j = r[2] THEN "reversed" ELSE journals[j].status
<1> DEFINE new == Journal(<<"reversal", r[2]>>, r, Negated(journals[r[2]].lines), month)
           some == [journals EXCEPT ![r[2]].status = "reversed"]
<1>1. new.key = r /\ journals' = Append(some, new) BY DEF Journal
<1>2. r[2] \in DOMAIN journals BY DEF ReversingFits
<1>3. Len(journals) \in Nat /\ DOMAIN journals = 1..Len(journals) /\ DOMAIN some = DOMAIN journals
  BY Places
<1>4. \A j \in DOMAIN journals :
        /\ some[j] = [src |-> journals[j].src, key |-> journals[j].key, lines |-> journals[j].lines,
                      on |-> journals[j].on,
                      status |-> IF j = r[2] THEN "reversed" ELSE journals[j].status]
  <2> TAKE j \in DOMAIN journals
  <2>1. AsRow(journals[j]) BY DEF JournalsFit, JournalRow
  <2>2. some[j] = IF j = r[2] THEN [journals[j] EXCEPT !.status = "reversed"] ELSE journals[j]
    BY <1>2
  <2> HIDE DEF some
  <2> QED BY <2>1, <2>2 DEF AsRow
<1>5. some \in [1..Len(journals) -> {some[i] : i \in 1..Len(journals)}] BY <1>3
<1> HIDE DEF some, new
<1>6. some \in Seq({some[i] : i \in 1..Len(journals)}) /\ Len(some) = Len(journals)
  <2>1. some \in Seq({some[i] : i \in 1..Len(journals)}) BY <1>3, <1>5, SeqDef
  <2> QED BY <1>3, <2>1, LenProperties
<1>7. /\ \E T : journals' \in Seq(T)
      /\ Len(journals') = Len(journals) + 1 /\ journals'[Len(journals) + 1] = new
      /\ \A j \in DOMAIN journals : journals'[j] = some[j]
  <2> DEFINE longer == Append(some, new)
  <2>1. /\ longer \in Seq({some[i] : i \in 1..Len(journals)} \cup {new})
        /\ Len(longer) = Len(some) + 1 /\ longer[Len(some) + 1] = new
        /\ \A j \in DOMAIN some : longer[j] = some[j]
    BY <1>6, AppendedTo
  <2> QED BY <1>1, <1>3, <1>6, <2>1
<1>8. \A j \in DOMAIN journals :
        /\ SameJournal(journals'[j], journals[j]) /\ journals[j].key # new.key
        /\ AsRow(journals'[j])
        /\ journals'[j].status = IF j = r[2] THEN "reversed" ELSE journals[j].status
  BY <1>1, <1>4, <1>7 DEF SameJournal, KeyTaken, AsRow
<1>9. Added(new) BY <1>7, <1>8 DEF Added
<1> QED BY <1>8, <1>9 DEF new

LEMMA JournalsGrow ==
  ASSUME JournalsFit, NEW new, Added(new), JournalRow(new),
         SourceFits(journals, new, Len(journals) + 1)
  PROVE  JournalsFit'
<1>1. /\ DOMAIN journals' = DOMAIN journals \cup {Len(journals) + 1}
      /\ Len(journals) \in Nat /\ DOMAIN journals = 1..Len(journals)
  BY Places, Longer
<1>2. \A j \in DOMAIN journals : journals'[j].lines = journals[j].lines BY DEF Added, SameJournal
<1>3. ASSUME NEW x, NEW j \in 1..(Len(journals) + 1), SourceFits(journals, x, j)
      PROVE  SourceFits(journals', x, j)
  <2>1. ASSUME NEW i \in 1..(j - 1), ReversalFits(journals, x, i)
        PROVE  ReversalFits(journals', x, i)
    <3>1. i \in DOMAIN journals BY <1>1
    <3> QED BY <1>2, <2>1, <3>1 DEF ReversalFits
  <2> QED BY <1>3, <2>1 DEF SourceFits
<1>4. ASSUME NEW j \in DOMAIN journals
      PROVE  JournalRow(journals'[j]) /\ SourceFits(journals, journals'[j], j)
  <2>1. JournalRow(journals[j]) /\ SourceFits(journals, journals[j], j) BY DEF JournalsFit
  <2>2. SameJournal(journals'[j], journals[j]) BY DEF Added
  <2>3. SourceFits(journals, journals'[j], j)
    BY <2>1, <2>2 DEF SourceFits, ReversalFits, SameJournal
  <2>4. JournalRow(journals'[j]) BY <2>1, <2>2 DEF JournalRow, SameJournal, Added
  <2> QED BY <2>3, <2>4
<1>5. \A j \in DOMAIN journals' : JournalRow(journals'[j]) /\ SourceFits(journals, journals'[j], j)
  BY <1>1, <1>4 DEF Added
<1>6. \A j \in DOMAIN journals' : SourceFits(journals', journals'[j], j) BY <1>1, <1>3, <1>5
<1>7. KeysDiffer' BY <1>1 DEF JournalsFit, KeysDiffer, Added, SameJournal
<1>8. \A j \in DOMAIN journals' : JournalRow(journals[j])' BY <1>5 DEF JournalRow
<1>9. \E S : journals' \in Seq(S) BY DEF Added
<1> QED BY <1>6, <1>7, <1>8, <1>9 DEF JournalsFit

\* What a source says of its journal.
LEMMA SourceOfReversal ==
  ASSUME NEW js, NEW x, NEW j \in Nat, SourceFits(js, x, j), NEW i, x.src = <<"reversal", i>>
  PROVE  i \in 1..(j - 1) /\ ReversalFits(js, x, i)
<1>1. x.src # Named BY DEF Named
<1>2. \A sort \in OwnKinds : x.src # <<sort, j>> BY DEF OwnKinds
<1>3. PICK k \in 1..(j - 1) : ReversalFits(js, x, k) BY <1>1, <1>2 DEF SourceFits
<1>4. k = i BY <1>3 DEF ReversalFits
<1> QED BY <1>3, <1>4

LEMMA SourceOfOwn ==
  ASSUME NEW js, NEW x, NEW j \in Nat, SourceFits(js, x, j), NEW i, NEW sort \in OwnKinds,
         x.src = <<sort, i>>
  PROVE  i = j
<1>1. x.src # Named /\ sort # "reversal" BY DEF Named, OwnKinds
<1>2. \A k \in 1..(j - 1) : ~ReversalFits(js, x, k) BY <1>1 DEF ReversalFits
<1>3. PICK own \in OwnKinds : x.src = <<own, j>> BY <1>1, <1>2 DEF SourceFits
<1> QED BY <1>3

LEMMA StatusesGrow ==
  ASSUME JournalsFit, StatusesFit, NEW new, Added(new),
         SourceFits(journals, new, Len(journals) + 1), new.status = "posted",
         \A j \in DOMAIN journals :
           journals'[j].status = "reversed"
             <=> (journals[j].status = "reversed" \/ new.src = <<"reversal", j>>)
  PROVE  StatusesFit'
<1> DEFINE n == Len(journals) + 1
<1>1. /\ DOMAIN journals' = DOMAIN journals \cup {n} /\ n \notin DOMAIN journals
      /\ Len(journals) \in Nat /\ DOMAIN journals = 1..Len(journals)
  BY Places, Longer
<1>2. journals'[n] = new /\ \A j \in DOMAIN journals : journals'[j].src = journals[j].src
  BY DEF Added, SameJournal
<1>3. ASSUME NEW j \in DOMAIN journals
      PROVE  (\E k \in DOMAIN journals' : journals'[k].src = <<"reversal", j>>)
               <=> (IsReversed(j) \/ new.src = <<"reversal", j>>)
  BY <1>1, <1>2 DEF IsReversed
<1>4. ASSUME NEW j \in DOMAIN journals
      PROVE  journals'[j].status = "reversed"
               <=> \E k \in DOMAIN journals' : journals'[k].src = <<"reversal", j>>
  BY <1>3 DEF StatusesFit
<1>5. ASSUME NEW k \in DOMAIN journals', journals'[k].src = <<"reversal", n>>
      PROVE  FALSE
  <2>1. CASE k = n
    <3>1. n \in 1..(n - 1) BY <1>1, <1>2, <1>5, <2>1, SourceOfReversal
    <3> QED BY <1>1, <3>1
  <2>2. CASE k \in DOMAIN journals
    <3>1. SourceFits(journals, journals[k], k) /\ journals[k].src = <<"reversal", n>> /\ k \in Nat
      BY <1>1, <1>2, <1>5, <2>2 DEF JournalsFit
    <3>2. n \in 1..(k - 1) BY <3>1, SourceOfReversal
    <3> QED BY <1>1, <2>2, <3>2
  <2> QED BY <1>1, <2>1, <2>2
<1>6. \A j \in DOMAIN journals' : journals'[j].status = "reversed"
               <=> \E k \in DOMAIN journals' : journals'[k].src = <<"reversal", j>>
  BY <1>1, <1>2, <1>4, <1>5
<1> QED BY <1>6 DEF StatusesFit, IsReversed

\* The reversals of a journal are one by hand and one in a refund, at most.
LEMMA TwoReversals ==
  ASSUME JournalsFit, NEW j, NEW k \in ReversalsOf(j), NEW l \in ReversalsOf(j), k # l
  PROVE  /\ ReversalsOf(j) = {k, l} /\ Cardinality(ReversalsOf(j)) = 2
         /\ {journals[m].key[1] : m \in ReversalsOf(j)} = {"hand", "refund"}
<1>1. \A m \in ReversalsOf(j) : journals[m].key \in {<<"hand", j>>, <<"refund", j>>}
  <2> TAKE m \in ReversalsOf(j)
  <2>1. m \in Nat /\ SourceFits(journals, journals[m], m) /\ journals[m].src = <<"reversal", j>>
    BY Places DEF ReversalsOf, JournalsFit
  <2> QED BY <2>1, SourceOfReversal DEF ReversalFits
<1>2. \A m, o \in ReversalsOf(j) : journals[m].key = journals[o].key => m = o
  BY DEF JournalsFit, KeysDiffer, ReversalsOf
<1>3. ReversalsOf(j) = {k, l} BY <1>1, <1>2
<1>4. Cardinality({k, l}) = 2
  <2>1. IsFiniteSet({k}) /\ Cardinality({k}) = 1 /\ {k, l} = {k} \cup {l} BY FS_Singleton
  <2> QED BY <2>1, FS_AddElement
<1>5. {journals[m].key[1] : m \in ReversalsOf(j)} = {journals[k].key[1], journals[l].key[1]} BY <1>3
<1>6. {journals[k].key[1], journals[l].key[1]} = {"hand", "refund"}
  <2>1. /\ journals[k].key \in {<<"hand", j>>, <<"refund", j>>}
        /\ journals[l].key \in {<<"hand", j>>, <<"refund", j>>} /\ journals[k].key # journals[l].key
    BY <1>1, <1>2
  <2> QED BY <2>1
<1> QED BY <1>3, <1>4, <1>5, <1>6

LEMMA ReversedOnceHolds == ASSUME JournalsFit, StatusesFit PROVE ReversedOnce
<1> SUFFICES ASSUME NEW j \in DOMAIN journals
             PROVE  /\ journals[j].status = "reversed" <=> ReversalsOf(j) # {}
                    /\ \A k \in ReversalsOf(j) : journals[k].lines = Negated(journals[j].lines)
                    /\ \/ Cardinality(ReversalsOf(j)) <= 1
                       \/ {journals[k].key[1] : k \in ReversalsOf(j)} = {"hand", "refund"}
  BY DEF ReversedOnce
<1>1. journals[j].status = "reversed" <=> ReversalsOf(j) # {}
  BY DEF StatusesFit, IsReversed, ReversalsOf
<1>2. \A k \in ReversalsOf(j) : journals[k].lines = Negated(journals[j].lines)
  <2> TAKE k \in ReversalsOf(j)
  <2>1. k \in Nat /\ SourceFits(journals, journals[k], k) /\ journals[k].src = <<"reversal", j>>
    BY Places DEF ReversalsOf, JournalsFit
  <2> QED BY <2>1, SourceOfReversal DEF ReversalFits
<1>3. \/ Cardinality(ReversalsOf(j)) <= 1
      \/ {journals[k].key[1] : k \in ReversalsOf(j)} = {"hand", "refund"}
  <2>1. CASE \E k, l \in ReversalsOf(j) : k # l
    <3>1. PICK k \in ReversalsOf(j), l \in ReversalsOf(j) : k # l BY <2>1
    <3> QED BY <3>1, TwoReversals
  <2>2. CASE \A k, l \in ReversalsOf(j) : k = l
    <3>1. CASE ReversalsOf(j) = {}
      <4>1. Cardinality(ReversalsOf(j)) = 0 BY <3>1, FS_EmptySet
      <4> QED BY <4>1
    <3>2. CASE ReversalsOf(j) # {}
      <4>1. \E k : ReversalsOf(j) = {k} BY <2>2, <3>2
      <4>2. Cardinality(ReversalsOf(j)) = 1 BY <4>1, FS_Singleton
      <4> QED BY <4>2
    <3> QED BY <3>1, <3>2
  <2> QED BY <2>1, <2>2
<1> QED BY <1>1, <1>2, <1>3

--------------------
\* The accounts, and what is copied into the older books.
AccountRow(x) == x = [code |-> x.code, active |-> x.active]
ChartListed(ch) == (\E S : ch \in Seq(S)) /\ \A r \in DOMAIN ch : AccountRow(ch[r])
MirrorFits(ch, mi, rn) ==
  \A c \in DOMAIN mi : /\ mi[c].row \in DOMAIN ch
                       /\ ch[mi[c].row].code = c \/ mi[c].row \in rn
\* Rows stay, and so do their codes but for those that were changed.
RowsStay(ch, dh, rn) == /\ DOMAIN ch \subseteq DOMAIN dh
                        /\ \A r \in DOMAIN ch : r \in rn \/ dh[r].code = ch[r].code

\* One account more.
LEMMA ChartGrows ==
  ASSUME NEW ch, ChartListed(ch), NEW x, AccountRow(x)
  PROVE  ChartListed(Append(ch, x)) /\ RowsStay(ch, Append(ch, x), {})
<1> DEFINE dh == Append(ch, x)
<1>1. PICK S : ch \in Seq(S) BY DEF ChartListed
<1>2. /\ dh \in Seq(S \cup {x}) /\ Len(ch) \in Nat
      /\ DOMAIN ch = 1..Len(ch) /\ DOMAIN dh = 1..(Len(ch) + 1)
      /\ dh[Len(ch) + 1] = x /\ \A i \in DOMAIN ch : dh[i] = ch[i]
  BY <1>1, AppendedTo
<1> HIDE DEF dh
<1>3. \A r \in DOMAIN dh : AccountRow(dh[r])
  <2>1. \A r \in DOMAIN ch : AccountRow(ch[r]) BY DEF ChartListed
  <2>2. \A r \in DOMAIN dh : r \in DOMAIN ch \/ r = Len(ch) + 1 BY <1>2
  <2> QED BY <1>2, <2>1, <2>2
<1>4. ChartListed(dh) /\ RowsStay(ch, dh, {}) BY <1>2, <1>3 DEF ChartListed, RowsStay
<1> QED BY <1>4 DEF dh

LEMMA HavingKeeps ==
  ASSUME NEW ch, ChartListed(ch), NEW code
  PROVE  ChartListed(Having(ch, code)) /\ RowsStay(ch, Having(ch, code), {})
<1> DEFINE x == [code |-> code, active |-> TRUE]
<1>1. AccountRow(x) BY DEF AccountRow
<1>2. Having(ch, code) = ch \/ Having(ch, code) = Append(ch, x) BY DEF Having
<1> HIDE DEF x
<1>3. ChartListed(Append(ch, x)) /\ RowsStay(ch, Append(ch, x), {}) BY <1>1, ChartGrows
<1>4. RowsStay(ch, ch, {}) BY DEF RowsStay
<1> QED BY <1>2, <1>3, <1>4

LEMMA RowsStayOn ==
  ASSUME NEW ch, NEW dh, NEW eh, RowsStay(ch, dh, {}), RowsStay(dh, eh, {})
  PROVE  RowsStay(ch, eh, {})
BY DEF RowsStay

LEMMA DefaultsKeep ==
  ASSUME NEW ch, ChartListed(ch)
  PROVE  ChartListed(WithDefaults(ch)) /\ RowsStay(ch, WithDefaults(ch), {})
<1> DEFINE c1 == Having(ch, DefaultCodes[1])
           c2 == Having(c1, DefaultCodes[2])
           c3 == Having(c2, DefaultCodes[3])
           c4 == Having(c3, DefaultCodes[4])
<1>1. ChartListed(c1) /\ RowsStay(ch, c1, {}) BY HavingKeeps
<1> HIDE DEF c1
<1>2. ChartListed(c2) /\ RowsStay(c1, c2, {}) BY <1>1, HavingKeeps
<1> HIDE DEF c2
<1>3. ChartListed(c3) /\ RowsStay(c2, c3, {}) BY <1>2, HavingKeeps
<1> HIDE DEF c3
<1>4. ChartListed(c4) /\ RowsStay(c3, c4, {}) BY <1>3, HavingKeeps
<1> HIDE DEF c4
<1>5. WithDefaults(ch) = c4 BY DEF WithDefaults, c1, c2, c3, c4
<1>6. RowsStay(ch, c4, {}) BY <1>1, <1>2, <1>3, <1>4, RowsStayOn
<1> QED BY <1>4, <1>5, <1>6

LEMMA MirroredFits ==
  ASSUME NEW ch, NEW mi, NEW rn, MirrorFits(ch, mi, rn)
  PROVE  MirrorFits(ch, Mirrored(ch, mi), rn)
<1> SUFFICES ASSUME NEW c \in DOMAIN Mirrored(ch, mi)
             PROVE  /\ Mirrored(ch, mi)[c].row \in DOMAIN ch
                    /\ ch[Mirrored(ch, mi)[c].row].code = c \/ Mirrored(ch, mi)[c].row \in rn
  BY DEF MirrorFits
<1>1. CASE c \in DOMAIN mi
  <2>1. Mirrored(ch, mi)[c] = mi[c] BY <1>1 DEF Mirrored
  <2> QED BY <1>1, <2>1 DEF MirrorFits
<1>2. CASE c \notin DOMAIN mi
  <2>1. c \in {ch[r].code : r \in DOMAIN ch} BY <1>2 DEF Mirrored
  <2>2. Mirrored(ch, mi)[c].row = RowOf(ch, c) BY <1>2, <2>1 DEF Mirrored
  <2>3. RowOf(ch, c) \in DOMAIN ch /\ ch[RowOf(ch, c)].code = c BY <2>1 DEF RowOf
  <2> QED BY <2>2, <2>3
<1> QED BY <1>1, <1>2

LEMMA MirrorMoves ==
  ASSUME NEW ch, NEW dh, NEW mi, NEW rn, NEW rm, MirrorFits(ch, mi, rn), RowsStay(ch, dh, rm),
         rn \subseteq rm
  PROVE  MirrorFits(dh, mi, rm)
BY DEF MirrorFits, RowsStay

\* Every posting brings the accounts up to date.
LEMMA UpToDate ==
  ASSUME ChartListed(chart), MirrorFits(chart, mirror, renamed)
  PROVE  /\ ChartListed(Chart) /\ RowsStay(chart, Chart, {})
         /\ MirrorFits(Chart, Mirror, renamed)
<1>1. ChartListed(Chart) /\ RowsStay(chart, Chart, {}) BY DefaultsKeep DEF Chart
<1>2. RowsStay(chart, Chart, renamed) BY <1>1 DEF RowsStay
<1>3. MirrorFits(Chart, mirror, renamed) BY <1>2, MirrorMoves
<1> QED BY <1>1, <1>3, MirroredFits DEF Mirror

IsCopyOf(x, js, ch, rn) ==
  x.of # 0 => /\ x.of \in DOMAIN js
              /\ \A l \in x.lines :
                   /\ l.row \in DOMAIN ch
                   /\ \/ l.row \in rn
                      \/ \E k \in js[x.of].lines : k.code = ch[l.row].code /\ k.minor = l.minor
EntriesFit == /\ \E S : entries \in Seq(S)
              /\ \A e \in DOMAIN entries : IsCopyOf(entries[e], journals, chart, renamed)

\* One entry more.
EntryAdded(x) == entries' = Append(entries, x)

LEMMA EntriesGrow ==
  ASSUME EntriesFit, NEW x, EntryAdded(x)
  PROVE  /\ \E S : entries' \in Seq(S)
         /\ Len(entries) \in Nat /\ DOMAIN entries = 1..Len(entries)
         /\ DOMAIN entries' = DOMAIN entries \cup {Len(entries) + 1}
         /\ Len(entries) + 1 \notin DOMAIN entries
         /\ entries'[Len(entries) + 1] = x
         /\ \A e \in DOMAIN entries : entries'[e] = entries[e]
<1> DEFINE longer == Append(entries, x)
<1>1. PICK S : entries \in Seq(S) BY DEF EntriesFit
<1>2. /\ longer \in Seq(S \cup {x}) /\ Len(entries) \in Nat
      /\ DOMAIN entries = 1..Len(entries) /\ DOMAIN longer = 1..(Len(entries) + 1)
      /\ longer[Len(entries) + 1] = x /\ \A i \in DOMAIN entries : longer[i] = entries[i]
  BY <1>1, AppendedTo
<1>3. entries' = longer BY DEF EntryAdded
<1> HIDE DEF longer
<1> QED BY <1>2, <1>3

LEMMA AsPostedStays ==
  ASSUME NEW x, NEW js, NEW ks, NEW ch, NEW dh, NEW rn, NEW rm, IsCopyOf(x, js, ch, rn),
         rn \subseteq rm, RowsStay(ch, dh, rm), DOMAIN js \subseteq DOMAIN ks,
         \A j \in DOMAIN js : ks[j].lines = js[j].lines
  PROVE  IsCopyOf(x, ks, dh, rm)
BY DEF IsCopyOf, RowsStay

JournalsStay == /\ DOMAIN journals \subseteq DOMAIN journals'
                /\ \A j \in DOMAIN journals : journals'[j].lines = journals[j].lines

LEMMA EntriesStayFit ==
  ASSUME EntriesFit, JournalsStay, RowsStay(chart, chart', renamed'), renamed \subseteq renamed',
         \/ UNCHANGED entries
         \/ \E x : EntryAdded(x) /\ IsCopyOf(x, journals', chart', renamed')
  PROVE  EntriesFit'
<1>1. \A e \in DOMAIN entries : IsCopyOf(entries[e], journals', chart', renamed')
  BY AsPostedStays DEF EntriesFit, JournalsStay
<1>2. CASE UNCHANGED entries BY <1>1, <1>2 DEF EntriesFit
<1>3. CASE \E x : EntryAdded(x) /\ IsCopyOf(x, journals', chart', renamed')
  <2>1. PICK x : EntryAdded(x) /\ IsCopyOf(x, journals', chart', renamed') BY <1>3
  <2>2. \A e \in DOMAIN entries' : IsCopyOf(entries'[e], journals', chart', renamed')
    BY <1>1, <2>1, EntriesGrow
  <2>3. \E S : entries' \in Seq(S) BY <2>1, EntriesGrow
  <2> QED BY <2>2, <2>3 DEF EntriesFit
<1> QED BY <1>2, <1>3

\* What is copied is on the accounts it was posted to.
LEMMA CopiedAsPosted ==
  ASSUME JournalsFit, NEW src, NEW new, Added(new), \A l \in new.lines : l.code \in DOMAIN mirror',
         MirrorFits(chart', mirror', renamed')
  PROVE  IsCopyOf(EntryFor(src, new.lines, mirror'), journals', chart', renamed')
<1> DEFINE x == EntryFor(src, new.lines, mirror')
<1>1. /\ x.of = Len(journals) + 1
      /\ x.lines = {[row |-> mirror'[l.code].row, minor |-> l.minor] : l \in new.lines}
  BY DEF EntryFor
<1>2. Len(journals) + 1 \in DOMAIN journals' /\ journals'[Len(journals) + 1] = new
  BY Longer DEF Added
<1> HIDE DEF x
<1>3. ASSUME NEW k \in x.lines
      PROVE  /\ k.row \in DOMAIN chart'
             /\ k.row \in renamed' \/ \E l \in new.lines : /\ l.code = chart'[k.row].code
                                                      /\ l.minor = k.minor
  <2>1. PICK l \in new.lines : k = [row |-> mirror'[l.code].row, minor |-> l.minor] BY <1>1
  <2> QED BY <2>1 DEF MirrorFits
<1>4. IsCopyOf(x, journals', chart', renamed') BY <1>1, <1>2, <1>3 DEF IsCopyOf
<1> QED BY <1>4 DEF x

LEMMA ProjectedHolds == ASSUME EntriesFit PROVE ProjectedAsPosted
BY DEF EntriesFit, IsCopyOf, ProjectedAsPosted

--------------------
\* Sums of lines.
LEMMA FiniteImage ==
  ASSUME NEW S, IsFiniteSet(S), NEW T, NEW h \in [S -> T], \A t \in T : \E s \in S : h[s] = t
  PROVE  IsFiniteSet(T)
<1>1. h \in Surjection(S, T) BY DEF Surjection
<1> QED BY <1>1, FS_Surjection

\* Lines of different amounts have the same debits wherever they are written.
LEMMA DebitsCopied ==
  ASSUME NEW posts, GoodLines(posts), NEW made, NEW h \in [posts -> made],
         \A k \in made : \E l \in posts : h[l] = k, \A l \in posts : h[l].minor = l.minor
  PROVE  Debits(made) = Debits(posts) /\ IsFiniteSet(made)
<1> DEFINE f == [l \in posts |-> IF l.minor > 0 THEN l.minor ELSE 0]
           F == [k \in made |-> IF k.minor > 0 THEN k.minor ELSE 0]
           G == [k \in made |-> {l \in posts : h[l] = k}]
<1>1. IsFiniteSet(posts) /\ IsFiniteSet(made) BY FiniteImage DEF GoodLines
<1>2. \A l \in posts : f[l] \in Int /\ l.minor \in Int BY DEF GoodLines, BookRow
<1>3. ASSUME NEW k \in made PROVE F[k] = SumFunctionOnSet(f, G[k])
  <2>1. PICK l \in posts : h[l] = k OBVIOUS
  <2>2. G[k] = {l} BY <2>1 DEF GoodLines, AmountsDiffer
  <2>3. F[k] = f[l] BY <2>1
  <2> HIDE DEF f, F, G
  <2>4. SumFunctionOnSet(f, {} \cup {l}) = f[l] + SumFunctionOnSet(f, {})
    BY <1>2, FS_EmptySet, SumAdds
  <2>5. SumFunctionOnSet(f, {l}) = f[l] BY <1>2, <2>4, SumOfNone
  <2> QED BY <2>2, <2>3, <2>5
<1>4. Groups(G, h, posts, made, posts) BY DEF Groups
<1>5. Debits(made) = SumFunctionOnSet(F, made) /\ Debits(posts) = SumFunctionOnSet(f, posts)
  BY DEF Debits
<1> HIDE DEF f, F, G
<1>6. SumFunctionOnSet(F, made) = SumFunctionOnSet(f, posts) BY <1>1, <1>2, <1>3, <1>4, SumOfGroups
<1> QED BY <1>1, <1>5, <1>6

\* Lines with one debit.
LEMMA OneDebit ==
  ASSUME NEW posts, IsFiniteSet(posts), NEW d \in posts, d.minor \in Nat,
         \A l \in posts \ {d} : l.minor \in Int /\ l.minor <= 0
  PROVE  Debits(posts) = d.minor
<1> DEFINE f == [l \in posts |-> IF l.minor > 0 THEN l.minor ELSE 0]
           rest == posts \ {d}
<1>1. f[d] = d.minor /\ \A l \in rest : f[l] = 0 OBVIOUS
<1>2. Debits(posts) = SumFunctionOnSet(f, posts) BY DEF Debits
<1>3. IsFiniteSet(rest) /\ d \notin rest /\ posts = rest \cup {d} BY FS_RemoveElement
<1> HIDE DEF f, rest
<1>4. \A l \in rest \cup {d} : f[l] \in Int BY <1>1
<1>5. SumFunctionOnSet(f, rest \cup {d}) = f[d] + SumFunctionOnSet(f, rest) BY <1>3, <1>4, SumAdds
<1>6. SumFunctionOnSet(f, rest) = 0 BY <1>1, <1>3, SumOfZeros
<1> QED BY <1>1, <1>2, <1>3, <1>5, <1>6

LEMMA CreditsAreInt ==
  ASSUME NEW posts, GoodLines(posts)
  PROVE  OfVendor(posts) \in Int
<1> DEFINE f == [l \in posts |-> IF l.vendor THEN -l.minor ELSE 0]
<1>1. \A l \in posts : f[l] \in Int BY DEF GoodLines, BookRow
<1>2. OfVendor(posts) = SumFunctionOnSet(f, posts) /\ IsFiniteSet(posts) BY DEF OfVendor, GoodLines
<1> HIDE DEF f
<1> QED BY <1>1, <1>2, SumIsInt

LEMMA NoCredits ==
  ASSUME NEW posts, IsFiniteSet(posts), \A l \in posts : ~l.vendor
  PROVE  OfVendor(posts) = 0
<1> DEFINE f == [l \in posts |-> IF l.vendor THEN -l.minor ELSE 0]
<1>1. \A l \in posts : f[l] = 0 OBVIOUS
<1>2. OfVendor(posts) = SumFunctionOnSet(f, posts) BY DEF OfVendor
<1> HIDE DEF f
<1> QED BY <1>1, <1>2, SumOfZeros

LEMMA OneCredit ==
  ASSUME NEW v, NEW l, v # l, v.vendor, v.minor \in Int, ~l.vendor
  PROVE  OfVendor({v, l}) = -v.minor
<1> DEFINE f == [k \in {v, l} |-> IF k.vendor THEN -k.minor ELSE 0]
<1>1. f[v] = -v.minor /\ f[l] = 0 OBVIOUS
<1>2. OfVendor({v, l}) = SumFunctionOnSet(f, {v, l}) BY DEF OfVendor
<1> HIDE DEF f
<1>3. SumFunctionOnSet(f, {l}) = 0 BY <1>1, FS_Singleton, SumOfZeros
<1>4. IsFiniteSet({l}) /\ v \notin {l} /\ \A y \in {l} \cup {v} : f[y] \in Int
  <2>1. IsFiniteSet({l}) BY FS_Singleton
  <2>2. v \notin {l} /\ -v.minor \in Int OBVIOUS
  <2> QED BY <1>1, <2>1, <2>2
<1>5. SumFunctionOnSet(f, {l} \cup {v}) = f[v] + SumFunctionOnSet(f, {l}) BY <1>4, SumAdds
<1>6. {l} \cup {v} = {v, l} OBVIOUS
<1>7. SumFunctionOnSet(f, {v, l}) = f[v] + 0 BY <1>3, <1>5, <1>6
<1>8. f[v] + 0 = -v.minor BY <1>1
<1> QED BY <1>2, <1>7, <1>8

--------------------
\* Entries, rows and journals of the same source.
Unprojected == {"named", "approval", "adapter"}
EntriesKnown == \A e \in DOMAIN entries :
  \/ entries[e].src \in {NoSource, Named}
  \/ \E j \in DOMAIN journals : journals[j].src = entries[e].src
DebitsAgree == \A e \in DOMAIN entries, j \in DOMAIN journals :
  entries[e].src = journals[j].src /\ journals[j].src # Named
    => Debits(entries[e].lines) = Debits(journals[j].lines)
EntryThere == \A j \in DOMAIN journals :
  journals[j].src[1] \in Unprojected \/ \E e \in DOMAIN entries : entries[e].src = journals[j].src
OwedFit == /\ IsFiniteSet(vendorRows)
           /\ \A v \in vendorRows : /\ v.minor \in Int
                                   /\ \E e \in DOMAIN entries : entries[e].src = v.src
TieFits == EntriesKnown /\ DebitsAgree /\ EntryThere /\ OwedFit

RowsGrow == \/ UNCHANGED vendorRows
            \/ \E v : /\ vendorRows' = vendorRows \cup {v} /\ v.minor \in Int
                      /\ \E e \in DOMAIN entries' : entries'[e].src = v.src

\* Journals of one source that the caller did not choose are alike.
LEMMA SourceIsOne ==
  ASSUME JournalsFit, NEW new, SourceFits(journals, new, Len(journals) + 1),
         NEW j \in DOMAIN journals, journals[j].src = new.src, new.src # Named
  PROVE  journals[j].lines = new.lines
<1>1. /\ Len(journals) \in Nat /\ DOMAIN journals = 1..Len(journals)
      /\ SourceFits(journals, journals[j], j)
  BY Places DEF JournalsFit
<1>2. CASE \E sort \in OwnKinds : new.src = <<sort, Len(journals) + 1>>
  <2>1. PICK sort \in OwnKinds : new.src = <<sort, Len(journals) + 1>> BY <1>2
  <2>2. Len(journals) + 1 = j BY <1>1, <2>1, SourceOfOwn
  <2> QED BY <1>1, <2>2
<1>3. CASE \E i \in 1..Len(journals) : ReversalFits(journals, new, i)
  <2>1. PICK i \in 1..Len(journals) : ReversalFits(journals, new, i) BY <1>3
  <2>2. journals[j].src = <<"reversal", i>> BY <2>1 DEF ReversalFits
  <2>3. ReversalFits(journals, journals[j], i) BY <1>1, <2>2, SourceOfReversal
  <2> QED BY <2>1, <2>3 DEF ReversalFits
<1> QED BY <1>1, <1>2, <1>3 DEF SourceFits

LEMMA SourceIsSome ==
  ASSUME NEW js, NEW x, NEW j, SourceFits(js, x, j)
  PROVE  x.src # NoSource
BY DEF SourceFits, NoSource, Named, OwnKinds, ReversalFits

LEMMA TiesGrow ==
  ASSUME JournalsFit, EntriesFit, TieFits, NEW new, Added(new),
         SourceFits(journals, new, Len(journals) + 1),
         \/ UNCHANGED entries
         \/ \E x : /\ EntryAdded(x)
                   /\ \/ x.src \in {NoSource, Named}
                      \/ x.src = new.src /\ Debits(x.lines) = Debits(new.lines),
         new.src[1] \in Unprojected \/ \E e \in DOMAIN entries' : entries'[e].src = new.src,
         RowsGrow
  PROVE  TieFits'
<1> DEFINE n == Len(journals) + 1
<1>1. /\ DOMAIN journals' = DOMAIN journals \cup {n} /\ journals'[n] = new
      /\ \A j \in DOMAIN journals : /\ journals'[j].src = journals[j].src
                                    /\ journals'[j].lines = journals[j].lines
  BY Longer DEF Added, SameJournal
<1>2. /\ DOMAIN entries \subseteq DOMAIN entries'
      /\ \A e \in DOMAIN entries : entries'[e] = entries[e]
      /\ \A e \in DOMAIN entries' \ DOMAIN entries :
           \/ entries'[e].src \in {NoSource, Named}
           \/ entries'[e].src = new.src /\ Debits(entries'[e].lines) = Debits(new.lines)
  <2>1. CASE UNCHANGED entries BY <2>1
  <2>2. ASSUME NEW x, EntryAdded(x),
               \/ x.src \in {NoSource, Named}
               \/ x.src = new.src /\ Debits(x.lines) = Debits(new.lines)
        PROVE  <1>2!1 /\ <1>2!2 /\ <1>2!3
    BY <2>2, EntriesGrow
  <2> QED BY <2>1, <2>2
<1> HIDE DEF n
<1>3. \A j \in DOMAIN journals' : journals'[j].src # NoSource BY <1>1, SourceIsSome DEF JournalsFit
<1>4. \A j \in DOMAIN journals : journals[j].src = new.src /\ new.src # Named
                                 => journals[j].lines = new.lines
  BY SourceIsOne
<1>5. EntriesKnown' BY <1>1, <1>2 DEF TieFits, EntriesKnown
<1>6. ASSUME NEW e \in DOMAIN entries, entries[e].src = new.src, new.src # Named
      PROVE  Debits(entries[e].lines) = Debits(new.lines)
  <2>1. new.src # NoSource BY <1>1, <1>3
  <2>2. PICK j \in DOMAIN journals : journals[j].src = new.src
    BY <1>6, <2>1 DEF TieFits, EntriesKnown
  <2> QED BY <1>4, <1>6, <2>2 DEF TieFits, DebitsAgree
<1>7. ASSUME NEW e \in DOMAIN entries', NEW j \in DOMAIN journals',
             entries'[e].src = journals'[j].src, journals'[j].src # Named
      PROVE  Debits(entries'[e].lines) = Debits(journals'[j].lines)
  <2>1. CASE e \in DOMAIN entries /\ j \in DOMAIN journals
    BY <1>1, <1>2, <1>7, <2>1 DEF TieFits, DebitsAgree
  <2>2. CASE e \in DOMAIN entries /\ j = n BY <1>1, <1>2, <1>6, <1>7, <2>2
  <2>3. CASE e \notin DOMAIN entries
    <3>1. entries'[e].src = new.src /\ Debits(entries'[e].lines) = Debits(new.lines)
      BY <1>2, <1>3, <1>7, <2>3
    <3>2. journals'[j].lines = new.lines BY <1>1, <1>4, <1>7, <3>1
    <3> QED BY <3>1, <3>2
  <2> QED BY <1>1, <2>1, <2>2, <2>3
<1>8. DebitsAgree' BY <1>7 DEF DebitsAgree
<1>9. EntryThere' BY <1>1, <1>2 DEF TieFits, EntryThere
<1>10. OwedFit'
  <2>1. \A v \in vendorRows : v.minor \in Int /\ \E e \in DOMAIN entries' : entries'[e].src = v.src
    BY <1>2 DEF TieFits, OwedFit
  <2>2. CASE UNCHANGED vendorRows BY <2>1, <2>2 DEF OwedFit, TieFits
  <2>3. CASE \E v : /\ vendorRows' = vendorRows \cup {v} /\ v.minor \in Int
                    /\ \E e \in DOMAIN entries' : entries'[e].src = v.src
    <3>1. IsFiniteSet(vendorRows') BY <2>3, FS_AddElement DEF TieFits, OwedFit
    <3> QED BY <2>1, <2>3, <3>1 DEF OwedFit
  <2> QED BY <2>2, <2>3 DEF RowsGrow
<1> QED BY <1>5, <1>8, <1>9, <1>10 DEF TieFits

\* A draft, or nothing at all.
LEMMA TiesStay ==
  ASSUME JournalsFit, EntriesFit, TieFits, UNCHANGED <<journals, vendorRows>>,
         \/ UNCHANGED entries
         \/ \E x : EntryAdded(x) /\ x.src \in {NoSource, Named}
  PROVE  TieFits'
<1>1. /\ DOMAIN entries \subseteq DOMAIN entries'
      /\ \A e \in DOMAIN entries : entries'[e] = entries[e]
      /\ \A e \in DOMAIN entries' \ DOMAIN entries : entries'[e].src \in {NoSource, Named}
  <2>1. CASE UNCHANGED entries BY <2>1
  <2>2. ASSUME NEW x, EntryAdded(x), x.src \in {NoSource, Named} PROVE <1>1!1 /\ <1>1!2 /\ <1>1!3
    BY <2>2, EntriesGrow
  <2> QED BY <2>1, <2>2
<1>2. \A j \in DOMAIN journals : journals[j].src # NoSource BY SourceIsSome DEF JournalsFit
<1>3. EntriesKnown' BY <1>1 DEF TieFits, EntriesKnown
<1>4. DebitsAgree' BY <1>1, <1>2 DEF TieFits, DebitsAgree
<1>5. EntryThere' BY <1>1 DEF TieFits, EntryThere
<1>6. OwedFit' BY <1>1 DEF TieFits, OwedFit
<1> QED BY <1>3, <1>4, <1>5, <1>6 DEF TieFits

\* Who is accused is one of those excepted.
LEMMA AccusedAreKnown == ASSUME JournalsFit, TieFits PROVE ReconciliationKnown
<1> SUFFICES ASSUME NEW j \in DOMAIN journals, Accused(j), ~FalselyAccused(j), ~FoundAnEntry(j)
             PROVE  FALSE
  BY DEF ReconciliationKnown
<1>1. /\ Kind(j) \notin Unprojected /\ journals[j].src # Named
      /\ Cardinality(ReversalsOf(journals[j].src[2])) # 2
  BY DEF FalselyAccused, FoundAnEntry, Kind, Unprojected, Named
<1>2. EntriesOf(j) # {} BY <1>1 DEF EntriesOf, TieFits, EntryThere, Kind
<1>3. \A e \in EntriesOf(j) : Debits(entries[e].lines) = Debits(journals[j].lines)
  BY <1>1 DEF EntriesOf, TieFits, DebitsAgree
<1>4. ASSUME NEW k \in DOMAIN journals \ {j}, journals[k].src = journals[j].src PROVE FALSE
  <2>1. /\ j \in Nat /\ k \in Nat /\ SourceFits(journals, journals[j], j)
        /\ SourceFits(journals, journals[k], k)
    BY Places DEF JournalsFit
  <2>2. CASE \E sort \in OwnKinds : journals[j].src = <<sort, j>>
    <3>1. PICK sort \in OwnKinds : journals[j].src = <<sort, j>> BY <2>2
    <3>2. j = k BY <1>4, <2>1, <3>1, SourceOfOwn
    <3> QED BY <3>2
  <2>3. CASE \E i \in 1..(j - 1) : ReversalFits(journals, journals[j], i)
    <3>1. PICK i \in 1..(j - 1) : ReversalFits(journals, journals[j], i) BY <2>3
    <3>2. journals[j].src = <<"reversal", i>> /\ journals[j].src[2] = i BY <3>1 DEF ReversalFits
    <3>3. j \in ReversalsOf(i) /\ k \in ReversalsOf(i) BY <1>4, <3>2 DEF ReversalsOf
    <3>4. Cardinality(ReversalsOf(i)) = 2 BY <3>3, TwoReversals
    <3> QED BY <1>1, <3>2, <3>4
  <2> QED BY <1>1, <2>1, <2>2, <2>3 DEF SourceFits
<1> QED BY <1>2, <1>3, <1>4 DEF Accused

--------------------
\* The older balance of the vendors and the ledger's, one journal later.
PayableIn(js, S) == SumFunctionOnSet([j \in S |-> OfVendor(js[j].lines)], S)
RowsSum(made) == SumFunctionOnSet([v \in made |-> v.minor], made)
OfKind(js, sort) == {j \in DOMAIN js : js[j].src[1] = sort}
OnOwn == {"payment", "approval", "settlement"}
CarriedIn(es, j) == \E e \in DOMAIN es : es[e].of = j
Unexplained(js, es) == {j \in DOMAIN js : ~CarriedIn(es, j) /\ js[j].src[1] \notin OnOwn}

SameLines(js, ks, S) == \A j \in S : GoodLines(js[j].lines) /\ ks[j].lines = js[j].lines
LEMMA PayableMore ==
  ASSUME NEW js, NEW ks, NEW S, IsFiniteSet(S), NEW n, n \notin S, GoodLines(ks[n].lines),
         SameLines(js, ks, S)
  PROVE  /\ PayableIn(js, S) \in Int /\ PayableIn(ks, S) = PayableIn(js, S)
         /\ PayableIn(ks, S \cup {n}) = PayableIn(js, S) + OfVendor(ks[n].lines)
<1> DEFINE f == [j \in S |-> OfVendor(js[j].lines)]
           g == [j \in S |-> OfVendor(ks[j].lines)]
           h == [j \in S \cup {n} |-> OfVendor(ks[j].lines)]
<1>1. \A j \in S : f[j] \in Int /\ g[j] = f[j] /\ h[j] = f[j]
  <2> TAKE j \in S
  <2>1. OfVendor(js[j].lines) \in Int BY CreditsAreInt DEF SameLines
  <2>2. ks[j].lines = js[j].lines BY DEF SameLines
  <2> QED BY <2>1, <2>2
<1>2. h[n] = OfVendor(ks[n].lines) /\ h[n] \in Int BY CreditsAreInt
<1>3. /\ PayableIn(js, S) = SumFunctionOnSet(f, S) /\ PayableIn(ks, S) = SumFunctionOnSet(g, S)
      /\ PayableIn(ks, S \cup {n}) = SumFunctionOnSet(h, S \cup {n})
  BY DEF PayableIn
<1> HIDE DEF f, g, h
<1>4. SumFunctionOnSet(f, S) = SumFunctionOnSet(g, S) /\ SumFunctionOnSet(f, S) \in Int
  BY <1>1, SumAgrees, SumIsInt
<1>5. SumFunctionOnSet(f, S) = SumFunctionOnSet(h, S) BY <1>1, SumAgrees
<1>6. \A j \in S \cup {n} : h[j] \in Int BY <1>1, <1>2
<1>7. SumFunctionOnSet(h, S \cup {n}) = h[n] + SumFunctionOnSet(h, S) BY <1>6, SumAdds
<1> QED BY <1>2, <1>3, <1>4, <1>5, <1>7

LEMMA RowsMore ==
  ASSUME NEW made, IsFiniteSet(made), \A v \in made : v.minor \in Int, NEW v, v \notin made,
         v.minor \in Int
  PROVE  /\ RowsSum(made) \in Int /\ RowsSum(made \cup {v}) = RowsSum(made) + v.minor
<1> DEFINE f == [w \in made |-> w.minor]
           g == [w \in made \cup {v} |-> w.minor]
<1>1. /\ \A w \in made : f[w] \in Int /\ g[w] = f[w]
      /\ g[v] = v.minor /\ \A w \in made \cup {v} : g[w] \in Int
  OBVIOUS
<1>2. /\ RowsSum(made) = SumFunctionOnSet(f, made)
      /\ RowsSum(made \cup {v}) = SumFunctionOnSet(g, made \cup {v})
  BY DEF RowsSum
<1> HIDE DEF f, g
<1>3. SumFunctionOnSet(f, made) = SumFunctionOnSet(g, made) /\ SumFunctionOnSet(f, made) \in Int
  BY <1>1, SumAgrees, SumIsInt
<1>4. SumFunctionOnSet(g, made \cup {v}) = g[v] + SumFunctionOnSet(g, made) BY <1>1, SumAdds
<1> QED BY <1>1, <1>2, <1>3, <1>4

LEMMA RowsSumIsInt ==
  ASSUME NEW made, IsFiniteSet(made), \A v \in made : v.minor \in Int
  PROVE  RowsSum(made) \in Int
<1> DEFINE f == [w \in made |-> w.minor]
<1>1. \A w \in made : f[w] \in Int OBVIOUS
<1>2. RowsSum(made) = SumFunctionOnSet(f, made) BY DEF RowsSum
<1> HIDE DEF f
<1> QED BY <1>1, <1>2, SumIsInt

LEMMA DriftIs ==
  DriftExplained <=> RowsSum(vendorRows) - PayableIn(journals, DOMAIN journals)
                       = Cardinality(OfKind(journals, "payment"))
                         - Cardinality(OfKind(journals, "approval"))
                         - PayableIn(journals, Unexplained(journals, entries))
BY DEF DriftExplained, RowsSum, PayableIn, OfKind, HowMany, Payable, Unexplained, OnOwn, CarriedIn,
       Carried, Kind

\* One of a kind more, or not.
LEMMA CountMore ==
  ASSUME JournalsFit, NEW new, Added(new), NEW sort
  PROVE  /\ Cardinality(OfKind(journals, sort)) \in Nat
         /\ Cardinality(OfKind(journals', sort))
              = Cardinality(OfKind(journals, sort)) + IF new.src[1] = sort THEN 1 ELSE 0
<1> DEFINE n == Len(journals) + 1
<1>1. /\ DOMAIN journals' = DOMAIN journals \cup {n} /\ n \notin DOMAIN journals
      /\ journals'[n] = new /\ \A j \in DOMAIN journals : journals'[j].src = journals[j].src
  BY Longer DEF Added, SameJournal
<1> HIDE DEF n
<1>2. IsFiniteSet(OfKind(journals, sort))
  <2>1. IsFiniteSet(DOMAIN journals) BY Places, FS_Interval
  <2> QED BY <2>1, FS_Subset DEF OfKind
<1>3. CASE new.src[1] = sort
  <2>1. OfKind(journals', sort) = OfKind(journals, sort) \cup {n} /\ n \notin OfKind(journals, sort)
    BY <1>1, <1>3 DEF OfKind
  <2> QED BY <1>2, <1>3, <2>1, FS_AddElement, FS_CardinalityType
<1>4. CASE new.src[1] # sort
  <2>1. OfKind(journals', sort) = OfKind(journals, sort) BY <1>1, <1>4 DEF OfKind
  <2>2. Cardinality(OfKind(journals, sort)) \in Nat BY <1>2, FS_CardinalityType
  <2> QED BY <1>4, <2>1, <2>2
<1> QED BY <1>3, <1>4

\* What the new journal, its entry and its row put out of balance, they explain.
Explains(new, a, es) ==
  LET c == OfVendor(new.lines)
      b == IF CarriedIn(es, Len(journals) + 1) \/ new.src[1] \in OnOwn THEN 0 ELSE c
  IN a - c = (IF new.src[1] = "payment" THEN 1 ELSE 0)
             - (IF new.src[1] = "approval" THEN 1 ELSE 0) - b

LEMMA StillBalanced ==
  ASSUME NEW r \in Int, NEW m \in Int, NEW k \in Int, NEW l \in Int, NEW u \in Int,
         NEW a \in Int, NEW c \in Int, NEW p \in Int, NEW q \in Int, NEW b \in Int,
         r - m = k - l - u, a - c = p - q - b
  PROVE  (r + a) - (m + c) = (k + p) - (l + q) - (u + b)
OBVIOUS

LEMMA DriftGrows ==
  ASSUME JournalsFit, OwedFit, DriftExplained, NEW new, Added(new), GoodLines(new.lines),
         \A j \in DOMAIN journals : CarriedIn(entries', j) <=> CarriedIn(entries, j),
         NEW a \in Int, Explains(new, a, entries'),
         \/ UNCHANGED vendorRows /\ a = 0
         \/ \E v : v \notin vendorRows /\ vendorRows' = vendorRows \cup {v} /\ v.minor = a
  PROVE  DriftExplained'
<1> DEFINE n == Len(journals) + 1
           U == Unexplained(journals, entries)
           W == Unexplained(journals', entries')
           J == DOMAIN journals
           c == OfVendor(new.lines)
<1>1. /\ DOMAIN journals' = J \cup {n} /\ n \notin J /\ journals'[n] = new /\ IsFiniteSet(J)
  <2>1. IsFiniteSet(J) BY Places, FS_Interval
  <2> QED BY <2>1, Longer DEF Added
<1>2. \A j \in J : /\ GoodLines(journals[j].lines) /\ journals'[j].lines = journals[j].lines
                   /\ journals'[j].src = journals[j].src
  BY DEF JournalsFit, JournalRow, Added, SameJournal
<1>3. c \in Int BY CreditsAreInt
<1>4. RowsSum(vendorRows') = RowsSum(vendorRows) + a /\ RowsSum(vendorRows) \in Int
  <2>1. IsFiniteSet(vendorRows) /\ \A v \in vendorRows : v.minor \in Int BY DEF OwedFit
  <2>2. RowsSum(vendorRows) \in Int BY <2>1, RowsSumIsInt
  <2>3. CASE UNCHANGED vendorRows /\ a = 0 BY <2>2, <2>3
  <2>4. ASSUME NEW v, v \notin vendorRows, vendorRows' = vendorRows \cup {v}, v.minor = a
        PROVE  RowsSum(vendorRows') = RowsSum(vendorRows) + a
    BY <2>1, <2>4, RowsMore
  <2> QED BY <2>2, <2>3, <2>4
<1>5. /\ PayableIn(journals, J) \in Int
      /\ PayableIn(journals', J \cup {n}) = PayableIn(journals, J) + c
  <2> HIDE DEF n, c, J
  <2>1. GoodLines(journals'[n].lines) /\ OfVendor(journals'[n].lines) = c BY <1>1 DEF c
  <2>2. SameLines(journals, journals', J) BY <1>2 DEF SameLines, J
  <2>3. IsFiniteSet(J) /\ n \notin J BY <1>1
  <2>4. /\ PayableIn(journals, J) \in Int
        /\ PayableIn(journals', J \cup {n}) = PayableIn(journals, J) + OfVendor(journals'[n].lines)
    BY <2>1, <2>2, <2>3, PayableMore
  <2> QED BY <2>1, <2>4
<1>6. U \subseteq J /\ IsFiniteSet(U) /\ n \notin U BY <1>1, FS_Subset DEF Unexplained
<1>7. /\ PayableIn(journals, U) \in Int /\ PayableIn(journals', U) = PayableIn(journals, U)
      /\ PayableIn(journals', U \cup {n}) = PayableIn(journals, U) + c
  <2> HIDE DEF n, c, U
  <2>1. GoodLines(journals'[n].lines) /\ OfVendor(journals'[n].lines) = c BY <1>1 DEF c
  <2>2. SameLines(journals, journals', U) BY <1>2, <1>6 DEF SameLines
  <2>3. /\ PayableIn(journals, U) \in Int /\ PayableIn(journals', U) = PayableIn(journals, U)
        /\ PayableIn(journals', U \cup {n}) = PayableIn(journals, U) + OfVendor(journals'[n].lines)
    BY <1>6, <2>1, <2>2, PayableMore
  <2> QED BY <2>1, <2>3
<1>8. W = IF CarriedIn(entries', n) \/ new.src[1] \in OnOwn THEN U ELSE U \cup {n}
  <2>1. \A j \in J : j \in W <=> j \in U BY <1>1, <1>2 DEF Unexplained
  <2>2. n \in W <=> ~(CarriedIn(entries', n) \/ new.src[1] \in OnOwn) BY <1>1 DEF Unexplained
  <2>3. W \subseteq J \cup {n} BY <1>1 DEF Unexplained
  <2>4. U \subseteq J /\ n \notin J BY <1>1, <1>6
  <2> HIDE DEF U, W, n, J
  <2>5. CASE n \in W BY <2>1, <2>2, <2>3, <2>4, <2>5
  <2>6. CASE n \notin W BY <2>1, <2>2, <2>3, <2>4, <2>6
  <2> QED BY <2>5, <2>6
<1> DEFINE b == IF CarriedIn(entries', n) \/ new.src[1] \in OnOwn THEN 0 ELSE c
           p == IF new.src[1] = "payment" THEN 1 ELSE 0
           q == IF new.src[1] = "approval" THEN 1 ELSE 0
<1>9. PayableIn(journals', W) = PayableIn(journals, U) + b BY <1>3, <1>7, <1>8
<1>10. /\ Cardinality(OfKind(journals', "payment")) = Cardinality(OfKind(journals, "payment")) + p
       /\ Cardinality(OfKind(journals', "approval")) = Cardinality(OfKind(journals, "approval")) + q
       /\ Cardinality(OfKind(journals, "payment")) \in Nat
       /\ Cardinality(OfKind(journals, "approval")) \in Nat
  BY CountMore
<1>11. a - c = p - q - b BY DEF Explains
<1>12. b \in Int /\ p \in Int /\ q \in Int BY <1>3
<1>13. RowsSum(vendorRows) - PayableIn(journals, J)
         = Cardinality(OfKind(journals, "payment")) - Cardinality(OfKind(journals, "approval"))
           - PayableIn(journals, U)
  BY DriftIs
<1> DEFINE r == RowsSum(vendorRows)
           m == PayableIn(journals, J)
           k == Cardinality(OfKind(journals, "payment"))
           l == Cardinality(OfKind(journals, "approval"))
           u == PayableIn(journals, U)
<1>20. r \in Int /\ m \in Int /\ k \in Int /\ l \in Int /\ u \in Int BY <1>4, <1>5, <1>7, <1>10
<1>21. r - m = k - l - u BY <1>13
<1>22. /\ RowsSum(vendorRows') = r + a /\ PayableIn(journals', J \cup {n}) = m + c
       /\ Cardinality(OfKind(journals', "payment")) = k + p
       /\ Cardinality(OfKind(journals', "approval")) = l + q
       /\ PayableIn(journals', W) = u + b
  BY <1>4, <1>5, <1>9, <1>10
<1> HIDE DEF b, p, q, c, U, W, r, m, k, l, u
<1>23. (r + a) - (m + c) = (k + p) - (l + q) - (u + b)
  BY <1>3, <1>11, <1>12, <1>20, <1>21, StillBalanced
<1>14. RowsSum(vendorRows') - PayableIn(journals', J \cup {n})
         = Cardinality(OfKind(journals', "payment")) - Cardinality(OfKind(journals', "approval"))
           - PayableIn(journals', W)
  BY <1>22, <1>23
<1>15. RowsSum(vendorRows') - PayableIn(journals', DOMAIN journals')
         = Cardinality(OfKind(journals', "payment")) - Cardinality(OfKind(journals', "approval"))
           - PayableIn(journals', Unexplained(journals', entries'))
  BY <1>1, <1>14 DEF W
<1> QED
  BY <1>15 DEF DriftExplained, RowsSum, PayableIn, OfKind, HowMany, Payable, Unexplained, OnOwn,
               CarriedIn, Carried, Kind

LEMMA DriftStays ==
  ASSUME DriftExplained, UNCHANGED <<journals, vendorRows>>,
         \A j \in DOMAIN journals : CarriedIn(entries', j) <=> CarriedIn(entries, j)
  PROVE  DriftExplained'
<1>1. Unexplained(journals', entries') = Unexplained(journals, entries) BY DEF Unexplained
<1>2. RowsSum(vendorRows') - PayableIn(journals', DOMAIN journals')
         = Cardinality(OfKind(journals', "payment")) - Cardinality(OfKind(journals', "approval"))
           - PayableIn(journals', Unexplained(journals', entries'))
  BY <1>1, DriftIs
<1> QED
  BY <1>2 DEF DriftExplained, RowsSum, PayableIn, OfKind, HowMany, Payable, Unexplained, OnOwn,
              CarriedIn, Carried, Kind

\* Which journals are carried, once there is an entry more.
LEMMA CarriedMore ==
  ASSUME JournalsFit, EntriesFit, NEW x, EntryAdded(x), x.of \in {0, Len(journals) + 1}
  PROVE  /\ \A j \in DOMAIN journals : CarriedIn(entries', j) <=> CarriedIn(entries, j)
         /\ CarriedIn(entries', Len(journals) + 1) <=> x.of = Len(journals) + 1
<1>1. /\ DOMAIN entries' = DOMAIN entries \cup {Len(entries) + 1}
      /\ entries'[Len(entries) + 1] = x /\ \A e \in DOMAIN entries : entries'[e] = entries[e]
  BY EntriesGrow
<1>2. \A j \in DOMAIN journals : j # 0 /\ j # Len(journals) + 1 BY Places
<1>3. \A e \in DOMAIN entries : entries[e].of # Len(journals) + 1
  <2>1. Len(journals) + 1 # 0 /\ Len(journals) + 1 \notin DOMAIN journals BY Places
  <2> QED BY <2>1 DEF EntriesFit, IsCopyOf
<1> QED BY <1>1, <1>2, <1>3 DEF CarriedIn

LEMMA CarriedSame ==
  ASSUME JournalsFit, EntriesFit, UNCHANGED entries
  PROVE  /\ \A j \in DOMAIN journals : CarriedIn(entries', j) <=> CarriedIn(entries, j)
         /\ ~CarriedIn(entries', Len(journals) + 1)
<1>1. Len(journals) + 1 # 0 /\ Len(journals) + 1 \notin DOMAIN journals BY Places
<1> QED BY <1>1 DEF EntriesFit, IsCopyOf, CarriedIn

--------------------
\* The books, between two transactions.
BookInv == /\ JournalsFit /\ StatusesFit /\ ReversingFits /\ month \in Months
           /\ ChartListed(chart) /\ MirrorFits(chart, mirror, renamed)
           /\ EntriesFit /\ TieFits /\ DriftExplained

AccountsUpToDate == chart' = Chart /\ mirror' = Mirror /\ UNCHANGED <<renamed, month>>
StatusesMove(new) == \A j \in DOMAIN journals :
  journals'[j].status = "reversed"
    <=> (journals[j].status = "reversed" \/ new.src = <<"reversal", j>>)
EntryIsOf(new, x) == /\ x.of \in {0, Len(journals) + 1} /\ IsCopyOf(x, journals', chart', renamed')
                     /\ \/ x.src \in {NoSource, Named}
                        \/ x.src = new.src /\ Debits(x.lines) = Debits(new.lines)
EntryMore(new) == UNCHANGED entries \/ \E x : EntryAdded(x) /\ EntryIsOf(new, x)
Recorded(src) == \E e \in DOMAIN entries' : entries'[e].src = src
RowMore(a) == \/ UNCHANGED vendorRows /\ a = 0
              \/ \E v : /\ v \notin vendorRows /\ vendorRows' = vendorRows \cup {v} /\ v.minor = a
                        /\ Recorded(v.src)
Adds(new) == /\ Added(new) /\ JournalRow(new) /\ SourceFits(journals, new, Len(journals) + 1)
             /\ new.status = "posted" /\ StatusesMove(new)

LEMMA PostedNext ==
  ASSUME BookInv, NEW new, Adds(new), AccountsUpToDate, reversing' \subseteq reversing,
         EntryMore(new), new.src[1] \in Unprojected \/ Recorded(new.src),
         NEW a \in Int, Explains(new, a, entries'), RowMore(a)
  PROVE  BookInv'
<1>1. JournalsFit' BY JournalsGrow DEF BookInv, Adds
<1>2. StatusesFit' BY StatusesGrow DEF BookInv, Adds, StatusesMove
<1>3. DOMAIN journals \subseteq DOMAIN journals' /\ JournalsStay
  BY Longer DEF BookInv, Adds, JournalsStay, Added, SameJournal
<1>4. ReversingFits' BY <1>3 DEF BookInv, ReversingFits
<1>5. month' \in Months BY DEF BookInv, AccountsUpToDate
<1>6. /\ ChartListed(chart') /\ RowsStay(chart, chart', {}) /\ MirrorFits(chart', mirror', renamed')
  <2>1. ChartListed(Chart) /\ RowsStay(chart, Chart, {}) /\ MirrorFits(Chart, Mirror, renamed)
    BY UpToDate DEF BookInv
  <2> QED BY <2>1 DEF AccountsUpToDate
<1>7. RowsStay(chart, chart', renamed') /\ renamed \subseteq renamed'
  BY <1>6 DEF RowsStay, AccountsUpToDate
<1>8. EntriesFit' BY <1>3, <1>7, EntriesStayFit DEF BookInv, EntryMore, EntryIsOf
<1>9. RowsGrow BY DEF RowMore, RowsGrow, Recorded
<1>10. TieFits' BY <1>9, TiesGrow DEF BookInv, Adds, EntryMore, EntryIsOf, Recorded
<1>11. \A j \in DOMAIN journals : CarriedIn(entries', j) <=> CarriedIn(entries, j)
  <2>1. CASE UNCHANGED entries BY <2>1, CarriedSame DEF BookInv
  <2>2. CASE \E x : EntryAdded(x) /\ EntryIsOf(new, x) BY <2>2, CarriedMore DEF BookInv, EntryIsOf
  <2> QED BY <2>1, <2>2 DEF EntryMore
<1>12. DriftExplained'
  <2>1. /\ JournalsFit /\ OwedFit /\ DriftExplained /\ Added(new) /\ GoodLines(new.lines)
    BY DEF BookInv, TieFits, Adds, JournalRow
  <2>2. \/ UNCHANGED vendorRows /\ a = 0
        \/ \E v : v \notin vendorRows /\ vendorRows' = vendorRows \cup {v} /\ v.minor = a
    BY DEF RowMore
  <2> QED BY <1>11, <2>1, <2>2, DriftGrows
<1> QED BY <1>1, <1>2, <1>4, <1>5, <1>6, <1>8, <1>10, <1>12 DEF BookInv, ChartListed, MirrorFits

\* A posting to the ledger, whoever makes it.
LEMMA PostFits ==
  ASSUME BookInv, NEW src, NEW key, NEW posts, NEW d \in Months, Post(src, key, posts, d),
         GoodLines(posts), src = Named \/ \E sort \in OwnKinds : src = <<sort, Len(journals) + 1>>
  PROVE  /\ Adds(Journal(src, key, posts, d)) /\ chart' = Chart /\ mirror' = Mirror
         /\ \A l \in posts : l.code \in DOMAIN mirror'
<1> DEFINE new == Journal(src, key, posts, d)
<1>1. Added(new) /\ \A j \in DOMAIN journals : journals'[j] = journals[j] BY PostGrows DEF BookInv
<1>2. /\ AsRow(new) /\ new.src = src /\ new.lines = posts /\ new.on = d /\ new.status = "posted"
  BY DEF Journal, AsRow
<1> HIDE DEF new
<1>3. JournalRow(new) BY <1>2 DEF JournalRow
<1>4. SourceFits(journals, new, Len(journals) + 1) BY <1>2 DEF SourceFits
<1>5. \A j : src # <<"reversal", j>> BY DEF Named, OwnKinds
<1>6. StatusesMove(new) BY <1>1, <1>2, <1>5 DEF StatusesMove
<1>7. Adds(new) BY <1>1, <1>2, <1>3, <1>4, <1>6 DEF Adds
<1>8. chart' = Chart /\ mirror' = Mirror /\ \A l \in posts : l.code \in DOMAIN mirror'
  BY DEF Post, Valid
<1> QED BY <1>7, <1>8 DEF new

\* What the ledger's own postings and the reversals copy into the older books.
LEMMA ProjectNext ==
  ASSUME BookInv, NEW new, Adds(new), AccountsUpToDate, reversing' \subseteq reversing,
         new.src[1] \notin OnOwn, \A l \in new.lines : l.code \in DOMAIN mirror',
         Project(new.src, new.lines)
  PROVE  BookInv'
<1> DEFINE c == OfVendor(new.lines)
           x == EntryFor(new.src, new.lines, mirror')
<1>1. GoodLines(new.lines) /\ c \in Int BY CreditsAreInt DEF Adds, JournalRow
<1>2. CASE \E e \in DOMAIN entries : entries[e].src = new.src
  <2>1. UNCHANGED <<entries, vendorRows>> BY <1>2 DEF Project, projectionRows
  <2>2. EntryMore(new) /\ Recorded(new.src) /\ RowMore(0)
    BY <1>2, <2>1 DEF EntryMore, Recorded, RowMore
  <2>3. ~CarriedIn(entries', Len(journals) + 1) BY <2>1, CarriedSame DEF BookInv
  <2>4. new.src[1] # "payment" /\ new.src[1] # "approval" BY DEF OnOwn
  <2>5. Explains(new, 0, entries')
    <3> HIDE DEF c
    <3>1. 0 - c = 0 - 0 - c BY <1>1
    <3> QED BY <2>3, <2>4, <3>1 DEF Explains, c
  <2> QED BY <2>2, <2>5, PostedNext
<1>3. CASE ~\E e \in DOMAIN entries : entries[e].src = new.src
  <2>1. EntryAdded(x) /\ vendorRows' = VendorRowsWith(new.src, c)
    BY <1>3 DEF Project, ProjectVendor, EntryAdded
  <2>2. /\ x.src = new.src /\ x.of = Len(journals) + 1
        /\ x.lines = {[row |-> mirror'[l.code].row, minor |-> l.minor] : l \in new.lines}
    BY DEF EntryFor
  <2>3. IsCopyOf(x, journals', chart', renamed')
    <3>1. MirrorFits(chart', mirror', renamed') BY UpToDate DEF BookInv, AccountsUpToDate
    <3> QED BY <3>1, CopiedAsPosted DEF BookInv, Adds
  <2> HIDE DEF x
  <2>4. Debits(x.lines) = Debits(new.lines)
    <3> DEFINE h == [l \in new.lines |-> [row |-> mirror'[l.code].row, minor |-> l.minor]]
    <3>1. /\ h \in [new.lines -> x.lines] /\ \A k \in x.lines : \E l \in new.lines : h[l] = k
          /\ \A l \in new.lines : h[l].minor = l.minor
      BY <2>2
    <3> HIDE DEF h
    <3> QED BY <1>1, <3>1, DebitsCopied
  <2>5. EntryMore(new) BY <2>1, <2>2, <2>3, <2>4 DEF EntryMore, EntryIsOf
  <2>6. /\ Recorded(new.src) /\ CarriedIn(entries', Len(journals) + 1)
    <3>1. /\ entries'[Len(entries) + 1] = x /\ Len(entries) + 1 \in DOMAIN entries'
      BY <2>1, EntriesGrow DEF BookInv
    <3> QED BY <2>2, <3>1 DEF Recorded, CarriedIn
  <2>7. \A v \in vendorRows : v.src # new.src BY <1>3 DEF BookInv, TieFits, OwedFit
  <2>8. RowMore(c)
    <3> DEFINE v == [src |-> new.src, minor |-> c]
    <3> HIDE DEF c
    <3>1. v.src = new.src /\ v.minor = c /\ v \notin vendorRows BY <2>7
    <3>2. vendorRows' = IF c = 0 THEN vendorRows ELSE vendorRows \cup {v}
      BY <2>1, <2>7 DEF VendorRowsWith
    <3> HIDE DEF v
    <3> QED BY <2>6, <3>1, <3>2 DEF RowMore
  <2>9. Explains(new, c, entries')
    <3>1. new.src[1] # "payment" /\ new.src[1] # "approval" BY DEF OnOwn
    <3> HIDE DEF c
    <3>2. c - c = 0 - 0 - 0 BY <1>1
    <3> QED BY <2>6, <3>1, <3>2 DEF Explains, c
  <2> QED BY <1>1, <2>5, <2>6, <2>8, <2>9, PostedNext
<1> QED BY <1>2, <1>3

LEMMA PostManualNext == ASSUME BookInv, PostManual PROVE BookInv'
<1>1. PICK posts \in BookDrafts, d \in 1..month, src \in {Named, <<"manual", Len(journals) + 1>>} :
        /\ Post(src, src, posts, d) /\ Project(src, posts)
        /\ UNCHANGED reversing /\ Booked
  BY DEF PostManual
<1>2. GoodLines(posts) /\ d \in Months
  <2>1. d \in Months BY DEF BookInv, Months
  <2>2. IsFiniteSet(posts) /\ posts \subseteq Line /\ AmountsDiffer(posts) BY JournalBookAssumption
  <2> QED BY <2>1, <2>2 DEF GoodLines, BookRow, Line
<1>3. src = Named \/ \E sort \in OwnKinds : src = <<sort, Len(journals) + 1>> BY DEF OwnKinds
<1> DEFINE new == Journal(src, src, posts, d)
<1>4. /\ Adds(new) /\ chart' = Chart /\ mirror' = Mirror
      /\ \A l \in posts : l.code \in DOMAIN mirror'
  BY <1>1, <1>2, <1>3, PostFits
<1>5. new.src = src /\ new.lines = posts /\ src[1] \notin OnOwn BY DEF Journal, Named, OnOwn
<1>6. AccountsUpToDate /\ reversing' \subseteq reversing BY <1>1, <1>4 DEF AccountsUpToDate, Booked
<1> HIDE DEF new
<1> QED BY <1>1, <1>4, <1>5, <1>6, ProjectNext

\* Two lines of different amounts.
LEMMA PairIsGood ==
  ASSUME NEW k, NEW l, BookRow(k), BookRow(l), k.minor # l.minor
  PROVE  GoodLines({k, l})
<1>1. IsFiniteSet({k}) /\ {k, l} = {k} \cup {l} BY FS_Singleton
<1>2. IsFiniteSet({k, l}) BY <1>1, FS_AddElement
<1> QED BY <1>2 DEF GoodLines, AmountsDiffer

LEMMA DebitRow ==
  ASSUME NEW c, NEW n \in Int
  PROVE  BookRow(Debit(c, n)) /\ Debit(c, n).minor = n /\ ~Debit(c, n).vendor
BY DEF BookRow, Debit

LEMMA VendorsRow ==
  ASSUME NEW n \in Int
  PROVE  BookRow(Vendors(n)) /\ Vendors(n).minor = n /\ Vendors(n).vendor
BY DEF BookRow, Vendors

LEMMA PayExpenseNext == ASSUME BookInv, PayExpense PROVE BookInv'
<1> DEFINE src == <<"expense", Len(journals) + 1>>
           posts(code) == {Debit(code, 1), Debit("bank", -1)}
<1>1. PICK code \in DOMAIN Mirror :
        /\ Post(src, src, posts(code), month) /\ Project(src, posts(code))
        /\ UNCHANGED reversing /\ Booked
  BY DEF PayExpense
<1>2. GoodLines(posts(code))
  <2>1. BookRow(Debit(code, 1)) /\ Debit(code, 1).minor = 1 BY DebitRow
  <2>2. BookRow(Debit("bank", -1)) /\ Debit("bank", -1).minor = -1 BY DebitRow
  <2> QED BY <2>1, <2>2, PairIsGood
<1>3. \E sort \in OwnKinds : src = <<sort, Len(journals) + 1>> BY DEF OwnKinds
<1> DEFINE new == Journal(src, src, posts(code), month)
<1>4. /\ Adds(new) /\ chart' = Chart /\ mirror' = Mirror
      /\ \A l \in posts(code) : l.code \in DOMAIN mirror'
  <2> HIDE DEF src, posts
  <2>1. month \in Months BY DEF BookInv
  <2> QED BY <1>1, <1>2, <1>3, <2>1, PostFits
<1>5. new.src = src /\ new.lines = posts(code) /\ src[1] \notin OnOwn BY DEF Journal, OnOwn
<1>6. AccountsUpToDate /\ reversing' \subseteq reversing BY <1>1, <1>4 DEF AccountsUpToDate, Booked
<1> HIDE DEF new, src, posts
<1> QED BY <1>1, <1>4, <1>5, <1>6, ProjectNext

\* An entry of the same source, and a row of the vendor with it.
LEMMA SourceIsNew ==
  ASSUME BookInv, NEW sort \in OwnKinds, NEW v \in vendorRows
  PROVE  v.src # <<sort, Len(journals) + 1>>
<1> SUFFICES ASSUME v.src = <<sort, Len(journals) + 1>> PROVE FALSE OBVIOUS
<1>1. PICK e \in DOMAIN entries : entries[e].src = v.src BY DEF BookInv, TieFits, OwedFit
<1>2. v.src \notin {NoSource, Named} BY DEF NoSource, Named, OwnKinds
<1>3. PICK j \in DOMAIN journals : journals[j].src = v.src
  BY <1>1, <1>2 DEF BookInv, TieFits, EntriesKnown
<1>4. /\ j \in Nat /\ SourceFits(journals, journals[j], j) /\ j # Len(journals) + 1
  BY Places DEF BookInv, JournalsFit
<1> QED BY <1>3, <1>4, SourceOfOwn

RowAdded(src, a) == vendorRows' = vendorRows \cup {[src |-> src, minor |-> a]}

LEMMA OwnEntryNext ==
  ASSUME BookInv, NEW new, Adds(new), AccountsUpToDate, reversing' \subseteq reversing,
         NEW x, EntryAdded(x), x.of = 0, x.src = new.src, Debits(x.lines) = Debits(new.lines),
         NEW sort \in OwnKinds, new.src = <<sort, Len(journals) + 1>>,
         NEW a \in Int, RowAdded(new.src, a), Explains(new, a, entries')
  PROVE  BookInv'
<1>1. EntryMore(new) BY DEF EntryMore, EntryIsOf, IsCopyOf
<1>2. Recorded(new.src) BY EntriesGrow DEF BookInv, Recorded
<1>3. RowMore(a)
  <2> DEFINE v == [src |-> new.src, minor |-> a]
  <2>1. v.src = new.src /\ v.minor = a /\ vendorRows' = vendorRows \cup {v} BY DEF RowAdded
  <2> HIDE DEF v
  <2>2. v \notin vendorRows BY <2>1, SourceIsNew
  <2> QED BY <1>2, <2>1, <2>2 DEF RowMore
<1> QED BY <1>1, <1>2, <1>3, PostedNext

LEMMA OneDebitCopied ==
  ASSUME NEW posts, IsFiniteSet(posts), NEW d \in posts, d.minor \in Nat,
         \A l \in posts \ {d} : l.minor \in Int /\ l.minor <= 0,
         NEW made, NEW h \in [posts -> made], \A k \in made : \E l \in posts : h[l] = k,
         \A l \in posts : h[l].minor = l.minor
  PROVE  Debits(made) = d.minor
<1>1. IsFiniteSet(made) BY FiniteImage
<1>2. h[d] \in made /\ h[d].minor = d.minor OBVIOUS
<1>3. \A k \in made \ {h[d]} : k.minor \in Int /\ k.minor <= 0 OBVIOUS
<1> QED BY <1>1, <1>2, <1>3, OneDebit

\* The rows of an entry of the older books are its lines.
LEMMA OwnEntryRows ==
  ASSUME NEW src, NEW asWhat, NEW posts
  PROVE  LET x == OwnEntry(src, asWhat, posts)
             h == [l \in posts |-> [row |-> RowOf(Chart, l.code), minor |-> l.minor]]
         IN /\ x.src = src /\ x.of = 0 /\ h \in [posts -> x.lines]
            /\ \A k \in x.lines : \E l \in posts : h[l] = k
            /\ \A l \in posts : h[l].minor = l.minor
BY DEF OwnEntry

LEMMA PostPaymentNext == ASSUME BookInv, PostPayment PROVE BookInv'
<1> DEFINE src == <<"payment", Len(journals) + 1>>
           posts == {Debit("bank", 2), Debit("sales", -2)}
           shares == {Debit("bank", 2), Debit("payable", -1), Debit("sales", -1)}
           x == OwnEntry(src, "posted", shares)
           h == [l \in shares |-> [row |-> RowOf(Chart, l.code), minor |-> l.minor]]
           new == Journal(src, src, posts, month)
<1>1. /\ Post(src, src, posts, month) /\ EntryAdded(x)
      /\ vendorRows' = vendorRows \cup {[src |-> src, minor |-> 1]}
      /\ UNCHANGED reversing /\ Booked
  BY DEF PostPayment, EntryAdded
<1>2. /\ BookRow(Debit("bank", 2)) /\ Debit("bank", 2).minor = 2 /\ ~Debit("bank", 2).vendor
  BY DebitRow
<1>3. /\ BookRow(Debit("sales", -2)) /\ Debit("sales", -2).minor = -2
      /\ ~Debit("sales", -2).vendor
  BY DebitRow
<1>4. Debit("sales", -1).minor = -1 /\ Debit("payable", -1).minor = -1 BY DebitRow
<1>5. GoodLines(posts) BY <1>2, <1>3, PairIsGood
<1>6. \E sort \in OwnKinds : src = <<sort, Len(journals) + 1>> BY DEF OwnKinds
<1>7. Adds(new) /\ chart' = Chart /\ mirror' = Mirror
  <2> HIDE DEF src, posts
  <2>1. month \in Months BY DEF BookInv
  <2> QED BY <1>1, <1>5, <1>6, <2>1, PostFits
<1>8. new.src = src /\ new.lines = posts BY DEF Journal
<1>9. AccountsUpToDate /\ reversing' \subseteq reversing BY <1>1, <1>7 DEF AccountsUpToDate, Booked
<1>10. Debits(posts) = 2
  <2>1. \A l \in posts \ {Debit("bank", 2)} : l.minor \in Int /\ l.minor <= 0 BY <1>3
  <2>2. IsFiniteSet(posts) /\ Debit("bank", 2) \in posts BY <1>5 DEF GoodLines
  <2> HIDE DEF posts
  <2>3. Debits(posts) = Debit("bank", 2).minor BY <1>2, <2>1, <2>2, OneDebit
  <2> QED BY <1>2, <2>3
<1>11. x.src = src /\ x.of = 0 /\ Debits(x.lines) = 2
  <2>1. /\ x.src = src /\ x.of = 0 /\ h \in [shares -> x.lines]
        /\ \A k \in x.lines : \E l \in shares : h[l] = k
        /\ \A l \in shares : h[l].minor = l.minor
    BY OwnEntryRows
  <2>2. IsFiniteSet(shares)
    <3>1. IsFiniteSet({Debit("bank", 2)}) BY FS_Singleton
    <3>2. IsFiniteSet({Debit("bank", 2)} \cup {Debit("payable", -1)}) BY <3>1, FS_AddElement
    <3>3. IsFiniteSet(({Debit("bank", 2)} \cup {Debit("payable", -1)}) \cup {Debit("sales", -1)})
      BY <3>2, FS_AddElement
    <3>4. shares = ({Debit("bank", 2)} \cup {Debit("payable", -1)}) \cup {Debit("sales", -1)}
      OBVIOUS
    <3> QED BY <3>3, <3>4
  <2>3. \A l \in shares \ {Debit("bank", 2)} : l.minor \in Int /\ l.minor <= 0 BY <1>4
  <2>4. Debit("bank", 2) \in shares OBVIOUS
  <2> HIDE DEF x, h, shares
  <2>5. Debits(x.lines) = Debit("bank", 2).minor BY <1>2, <2>1, <2>2, <2>3, <2>4, OneDebitCopied
  <2> QED BY <1>2, <2>1, <2>5
<1>12. OfVendor(posts) = 0
  <2>1. IsFiniteSet(posts) /\ \A l \in posts : ~l.vendor BY <1>2, <1>3, <1>5 DEF GoodLines
  <2> QED BY <2>1, NoCredits
<1> HIDE DEF x, new, posts
<1>13. RowAdded(new.src, 1) /\ EntryAdded(x) /\ x.of = 0 /\ x.src = new.src
  BY <1>1, <1>8, <1>11 DEF RowAdded
<1>14. Debits(x.lines) = Debits(new.lines) BY <1>8, <1>10, <1>11
<1>15. Explains(new, 1, entries')
  <2>1. new.src[1] = "payment" /\ "payment" \in OnOwn /\ OfVendor(new.lines) = 0
    BY <1>8, <1>12 DEF OnOwn
  <2> QED BY <2>1 DEF Explains
<1>16. \E sort \in OwnKinds : new.src = <<sort, Len(journals) + 1>> BY <1>6, <1>8
<1> QED BY <1>7, <1>9, <1>13, <1>14, <1>15, <1>16, OwnEntryNext

LEMMA PostSettlementNext == ASSUME BookInv, PostSettlement PROVE BookInv'
<1> DEFINE src == <<"settlement", Len(journals) + 1>>
           posts == {Vendors(1), Debit("bank", -1)}
           x == OwnEntry(src, "posted", posts)
           h == [l \in posts |-> [row |-> RowOf(Chart, l.code), minor |-> l.minor]]
           new == Journal(src, src, posts, month)
<1>1. /\ Post(src, src, posts, month) /\ EntryAdded(x)
      /\ vendorRows' = vendorRows \cup {[src |-> src, minor |-> -1]}
      /\ UNCHANGED reversing /\ Booked
  BY DEF PostSettlement, EntryAdded
<1>2. BookRow(Vendors(1)) /\ Vendors(1).minor = 1 /\ Vendors(1).vendor BY VendorsRow
<1>3. /\ BookRow(Debit("bank", -1)) /\ Debit("bank", -1).minor = -1
      /\ ~Debit("bank", -1).vendor
  BY DebitRow
<1>4. GoodLines(posts) BY <1>2, <1>3, PairIsGood
<1>5. \E sort \in OwnKinds : src = <<sort, Len(journals) + 1>> BY DEF OwnKinds
<1>6. Adds(new) /\ chart' = Chart /\ mirror' = Mirror
  <2> HIDE DEF src, posts
  <2>1. month \in Months BY DEF BookInv
  <2> QED BY <1>1, <1>4, <1>5, <2>1, PostFits
<1>7. new.src = src /\ new.lines = posts BY DEF Journal
<1>8. AccountsUpToDate /\ reversing' \subseteq reversing BY <1>1, <1>6 DEF AccountsUpToDate, Booked
<1>9. x.src = src /\ x.of = 0 /\ Debits(x.lines) = Debits(posts)
  <2>1. /\ x.src = src /\ x.of = 0 /\ h \in [posts -> x.lines]
        /\ \A k \in x.lines : \E l \in posts : h[l] = k
        /\ \A l \in posts : h[l].minor = l.minor
    BY OwnEntryRows
  <2> HIDE DEF x, h, posts
  <2> QED BY <1>4, <2>1, DebitsCopied
<1>10. OfVendor(posts) = -1 BY <1>2, <1>3, OneCredit
<1> HIDE DEF x, new, posts
<1>11. RowAdded(new.src, -1) /\ EntryAdded(x) /\ x.of = 0 /\ x.src = new.src
  BY <1>1, <1>7, <1>9 DEF RowAdded
<1>12. Debits(x.lines) = Debits(new.lines) BY <1>7, <1>9
<1>13. Explains(new, -1, entries')
  <2>1. new.src[1] = "settlement" /\ "settlement" \in OnOwn /\ OfVendor(new.lines) = -1
    BY <1>7, <1>10 DEF OnOwn
  <2>2. new.src[1] # "payment" /\ new.src[1] # "approval" BY <2>1
  <2>3. (-1) - (-1) = 0 - 0 - 0 OBVIOUS
  <2> QED BY <2>1, <2>2, <2>3 DEF Explains
<1>14. \E sort \in OwnKinds : new.src = <<sort, Len(journals) + 1>> BY <1>5, <1>7
<1> QED BY <1>6, <1>8, <1>11, <1>12, <1>13, <1>14, OwnEntryNext

LEMMA ApproveSaleNext == ASSUME BookInv, ApproveSale PROVE BookInv'
<1> DEFINE src == <<"approval", Len(journals) + 1>>
           posts == {Vendors(-1), Debit("expense", 1)}
           new == Journal(src, src, posts, month)
<1>1. /\ Post(src, src, posts, month) /\ UNCHANGED <<entries, vendorRows>>
      /\ UNCHANGED reversing /\ Booked
  <2>1. posts = {Debit("expense", 1), Vendors(-1)} OBVIOUS
  <2> QED BY <2>1 DEF ApproveSale, projectionRows
<1>2. BookRow(Vendors(-1)) /\ Vendors(-1).minor = -1 /\ Vendors(-1).vendor BY VendorsRow
<1>3. /\ BookRow(Debit("expense", 1)) /\ Debit("expense", 1).minor = 1
      /\ ~Debit("expense", 1).vendor
  BY DebitRow
<1>4. GoodLines(posts) BY <1>2, <1>3, PairIsGood
<1>5. \E sort \in OwnKinds : src = <<sort, Len(journals) + 1>> BY DEF OwnKinds
<1>6. Adds(new) /\ chart' = Chart /\ mirror' = Mirror
  <2> HIDE DEF src, posts
  <2>1. month \in Months BY DEF BookInv
  <2> QED BY <1>1, <1>4, <1>5, <2>1, PostFits
<1>7. new.src = src /\ new.lines = posts /\ src[1] = "approval" BY DEF Journal
<1>8. AccountsUpToDate /\ reversing' \subseteq reversing BY <1>1, <1>6 DEF AccountsUpToDate, Booked
<1>9. OfVendor(posts) = 1 BY <1>2, <1>3, OneCredit
<1> HIDE DEF new, posts, src
<1>10. Explains(new, 0, entries')
  <2>1. new.src[1] = "approval" /\ "approval" \in OnOwn /\ OfVendor(new.lines) = 1
    BY <1>7, <1>9 DEF OnOwn
  <2> QED BY <2>1 DEF Explains
<1>11. /\ EntryMore(new) /\ RowMore(0)
       /\ new.src[1] \in Unprojected
  BY <1>1, <1>7 DEF EntryMore, RowMore, Unprojected
<1> QED BY <1>6, <1>8, <1>10, <1>11, PostedNext

\* A reversal, as it commits.
LEMMA NegatedLines == ASSUME NEW posts, GoodLines(posts) PROVE GoodLines(Negated(posts))
<1> DEFINE neg(l) == [l EXCEPT !.minor = -l.minor]
           h == [l \in posts |-> neg(l)]
<1>1. \A l \in posts : BookRow(l) /\ l.minor \in Int BY DEF GoodLines, BookRow
<1>2. ASSUME NEW l \in posts PROVE BookRow(neg(l)) /\ neg(l).minor = -l.minor
  <2>1. neg(l) = [code |-> l.code, vendor |-> l.vendor, minor |-> -l.minor] BY <1>1 DEF BookRow
  <2>2. l.vendor \in BOOLEAN /\ -l.minor \in Int BY <1>1 DEF BookRow
  <2> HIDE DEF neg
  <2>3. BookRow(neg(l)) BY <2>1, <2>2 DEF BookRow
  <2> QED BY <2>1, <2>3
<1>3. Negated(posts) = {neg(l) : l \in posts} /\ h \in [posts -> Negated(posts)] BY DEF Negated
<1>4. \A l \in posts : h[l] = neg(l) OBVIOUS
<1> HIDE DEF neg, h
<1>5. \A k \in Negated(posts) : \E l \in posts : h[l] = k BY <1>3, <1>4
<1>6. IsFiniteSet(Negated(posts)) BY <1>3, <1>5, FiniteImage DEF GoodLines
<1>7. \A k \in Negated(posts) : BookRow(k) BY <1>2, <1>3
<1>8. AmountsDiffer(Negated(posts))
  <2> SUFFICES ASSUME NEW k \in posts, NEW l \in posts, neg(k).minor = neg(l).minor
               PROVE  neg(k) = neg(l)
    BY <1>3 DEF AmountsDiffer
  <2>1. k.minor = l.minor BY <1>1, <1>2
  <2> QED BY <2>1 DEF GoodLines, AmountsDiffer
<1> QED BY <1>6, <1>7, <1>8 DEF GoodLines

LEMMA CommitReversalNext == ASSUME BookInv, CommitReversal PROVE BookInv'
<1>1. PICK r \in reversing :
        LET j == r[2]
            src == <<"reversal", j>>
            posts == Negated(journals[j].lines)
        IN /\ reversing' = reversing \ {r}
           /\ ~KeyTaken(r)
           /\ LET mi == Mirror IN Valid(posts, mi) /\ mirror' = mi
           /\ journals' = Append([journals EXCEPT ![j].status = "reversed"],
                                 [src |-> src, key |-> r, lines |-> posts, on |-> month,
                                  status |-> "posted"])
           /\ chart' = Chart
           /\ Project(src, posts)
           /\ Booked
  BY DEF CommitReversal
<1> DEFINE j == r[2]
           src == <<"reversal", j>>
           posts == Negated(journals[j].lines)
           new == Journal(src, r, posts, month)
<1>2. j \in DOMAIN journals /\ r \in {<<"hand", j>>, <<"refund", j>>} BY DEF BookInv, ReversingFits
<1>3. /\ Added(new)
      /\ \A i \in DOMAIN journals :
           journals'[i].status = IF i = j THEN "reversed" ELSE journals[i].status
  <2>1. journals' = Append([journals EXCEPT ![j].status = "reversed"], new) BY <1>1 DEF Journal
  <2>2. JournalsFit /\ ReversingFits /\ ~KeyTaken(r) BY <1>1 DEF BookInv
  <2> QED BY <2>1, <2>2, ReversalGrows
<1>4. GoodLines(posts) BY <1>2, NegatedLines DEF BookInv, JournalsFit, JournalRow
<1>5. /\ AsRow(new) /\ new.src = src /\ new.key = r /\ new.lines = posts /\ new.on = month
      /\ new.status = "posted"
  BY DEF Journal, AsRow
<1> HIDE DEF new
<1>6. JournalRow(new) BY <1>4, <1>5 DEF JournalRow, BookInv
<1>7. SourceFits(journals, new, Len(journals) + 1)
  <2>1. j \in 1..((Len(journals) + 1) - 1) BY <1>2, Places DEF BookInv
  <2>2. ReversalFits(journals, new, j) BY <1>2, <1>5 DEF ReversalFits
  <2> QED BY <2>1, <2>2 DEF SourceFits
<1>8. StatusesMove(new)
  <2>1. \A i : new.src = <<"reversal", i>> <=> i = j BY <1>5
  <2> QED BY <1>3, <2>1 DEF StatusesMove
<1>9. Adds(new) BY <1>3, <1>5, <1>6, <1>7, <1>8 DEF Adds
<1>10. AccountsUpToDate /\ reversing' \subseteq reversing BY <1>1 DEF AccountsUpToDate, Booked
<1>11. new.src[1] \notin OnOwn BY <1>5 DEF OnOwn
<1>12. \A l \in new.lines : l.code \in DOMAIN mirror' BY <1>1, <1>5 DEF Valid
<1>13. Project(new.src, new.lines) BY <1>1, <1>5
<1> QED BY <1>9, <1>10, <1>11, <1>12, <1>13, ProjectNext

--------------------
\* Steps that post nothing.
LEMMA QuietNext ==
  ASSUME BookInv, UNCHANGED <<journals, vendorRows>>,
         \/ UNCHANGED entries
         \/ \E x : EntryAdded(x) /\ x.of = 0 /\ x.src \in {NoSource, Named},
         month' \in Months, ReversingFits', ChartListed(chart'), renamed \subseteq renamed',
         RowsStay(chart, chart', renamed'), MirrorFits(chart', mirror', renamed')
  PROVE  BookInv'
<1>1. JournalsFit' /\ StatusesFit' BY DEF BookInv, JournalsFit, StatusesFit, IsReversed, KeysDiffer
<1>2. EntriesFit' BY EntriesStayFit DEF BookInv, JournalsStay, IsCopyOf
<1>3. TieFits' BY TiesStay DEF BookInv
<1>4. DriftExplained'
  <2>1. \A j \in DOMAIN journals : CarriedIn(entries', j) <=> CarriedIn(entries, j)
    BY CarriedMore, CarriedSame DEF BookInv
  <2> QED BY <2>1, DriftStays DEF BookInv
<1> QED BY <1>1, <1>2, <1>3, <1>4 DEF BookInv, ChartListed, MirrorFits

\* The accounts are as they were.
LEMMA AccountsSame ==
  ASSUME BookInv, UNCHANGED <<chart, mirror, renamed>>
  PROVE  /\ ChartListed(chart') /\ renamed \subseteq renamed' /\ RowsStay(chart, chart', renamed')
         /\ MirrorFits(chart', mirror', renamed')
BY DEF BookInv, RowsStay

LEMMA ReadForReversalNext == ASSUME BookInv, ReadForReversal PROVE BookInv'
<1>1. PICK j \in DOMAIN journals, way \in {"hand", "refund"} :
        reversing' = reversing \cup {<<way, j>>}
  BY DEF ReadForReversal
<1>2. UNCHANGED <<journals, vendorRows, entries, month, chart, mirror, renamed>>
  BY DEF ReadForReversal, ledgerRows, projectionRows
<1>3. ReversingFits' BY <1>1, <1>2 DEF BookInv, ReversingFits
<1> QED BY <1>2, <1>3, AccountsSame, QuietNext DEF BookInv

LEMMA ReversalRefusedNext == ASSUME BookInv, ReversalRefused PROVE BookInv'
<1>1. reversing' \subseteq reversing BY DEF ReversalRefused
<1>2. UNCHANGED <<journals, vendorRows, entries, month, chart, mirror, renamed>>
  BY DEF ReversalRefused, ledgerRows, projectionRows
<1>3. ReversingFits' BY <1>1, <1>2 DEF BookInv, ReversingFits
<1> QED BY <1>2, <1>3, AccountsSame, QuietNext DEF BookInv

LEMMA PeriodsNext ==
  ASSUME BookInv, CreatePeriod \/ SetPeriod \/ SetOldPeriod
  PROVE  BookInv'
<1>1. UNCHANGED <<journals, vendorRows, entries, month, chart, mirror, renamed, reversing>>
  BY DEF CreatePeriod, SetPeriod, SetOldPeriod, Setting, projectionRows
<1>2. ReversingFits' BY <1>1 DEF BookInv, ReversingFits
<1> QED BY <1>1, <1>2, AccountsSame, QuietNext DEF BookInv

LEMMA NextMonthNext == ASSUME BookInv, NextMonth PROVE BookInv'
<1>1. UNCHANGED <<journals, vendorRows, entries, chart, mirror, renamed, reversing>>
  BY DEF NextMonth, ledgerRows, projectionRows
<1>2. ReversingFits' BY <1>1 DEF BookInv, ReversingFits
<1>3. month' \in Months BY DEF NextMonth, Months, BookInv
<1> QED BY <1>1, <1>2, <1>3, AccountsSame, QuietNext

LEMMA CreateAccountNext == ASSUME BookInv, CreateAccount PROVE BookInv'
<1>1. PICK x : AccountRow(x) /\ chart' = Append(chart, x) BY DEF CreateAccount, AccountRow
<1>2. UNCHANGED <<journals, vendorRows, entries, month, mirror, renamed, reversing>>
  BY DEF CreateAccount, Setting, projectionRows
<1>3. ReversingFits' BY <1>2 DEF BookInv, ReversingFits
<1>4. ChartListed(chart') /\ RowsStay(chart, chart', {}) BY <1>1, ChartGrows DEF BookInv
<1>5. RowsStay(chart, chart', renamed') /\ renamed \subseteq renamed' BY <1>2, <1>4 DEF RowsStay
<1>6. MirrorFits(chart', mirror', renamed') BY <1>2, <1>5, MirrorMoves DEF BookInv
<1> QED BY <1>2, <1>3, <1>4, <1>5, <1>6, QuietNext DEF BookInv

\* One account changes.
LEMMA ChartChanges ==
  ASSUME NEW ch, ChartListed(ch), NEW r \in DOMAIN ch, NEW x, AccountRow(x)
  PROVE  /\ ChartListed([ch EXCEPT ![r] = x]) /\ RowsStay(ch, [ch EXCEPT ![r] = x], {r})
         /\ [ch EXCEPT ![r] = x][r] = x
<1> DEFINE dh == [ch EXCEPT ![r] = x]
<1>1. PICK S : ch \in Seq(S) BY DEF ChartListed
<1>2. Len(ch) \in Nat /\ ch \in [1..Len(ch) -> S] /\ DOMAIN ch = 1..Len(ch) BY <1>1, LenProperties
<1>3. dh \in [1..Len(ch) -> S \cup {x}] BY <1>2
<1>4. /\ DOMAIN dh = DOMAIN ch /\ dh[r] = x /\ \A q \in DOMAIN ch \ {r} : dh[q] = ch[q] BY <1>2
<1> HIDE DEF dh
<1>5. dh \in Seq(S \cup {x}) BY <1>2, <1>3, SeqDef
<1>6. \A q \in DOMAIN dh : AccountRow(dh[q]) BY <1>4 DEF ChartListed
<1>7. ChartListed(dh) /\ RowsStay(ch, dh, {r}) BY <1>4, <1>5, <1>6 DEF ChartListed, RowsStay
<1> QED BY <1>4, <1>7 DEF dh

LEMMA RenameAccountNext == ASSUME BookInv, RenameAccount PROVE BookInv'
<1>1. PICK r \in DOMAIN chart, c \in SpareCodes : /\ chart' = [chart EXCEPT ![r].code = c]
                                               /\ renamed' = renamed \cup {r}
  BY DEF RenameAccount
<1> DEFINE x == [chart[r] EXCEPT !.code = c]
<1>2. chart' = [chart EXCEPT ![r] = x] /\ AccountRow(x)
  <2>1. chart[r] = [code |-> chart[r].code, active |-> chart[r].active]
    BY DEF BookInv, ChartListed, AccountRow
  <2>2. x = [code |-> c, active |-> chart[r].active] BY <2>1
  <2>3. AccountRow(x) BY <2>2 DEF AccountRow
  <2> QED BY <1>1, <2>3
<1> HIDE DEF x
<1>3. UNCHANGED <<journals, vendorRows, entries, month, mirror, reversing>>
  BY DEF RenameAccount, Setting, projectionRows
<1>4. ReversingFits' BY <1>3 DEF BookInv, ReversingFits
<1>5. ChartListed(chart') /\ RowsStay(chart, chart', {r}) BY <1>2, ChartChanges DEF BookInv
<1>6. RowsStay(chart, chart', renamed') /\ renamed \subseteq renamed' BY <1>1, <1>5 DEF RowsStay
<1>7. MirrorFits(chart', mirror', renamed') BY <1>3, <1>6, MirrorMoves DEF BookInv
<1> QED BY <1>3, <1>4, <1>5, <1>6, <1>7, QuietNext DEF BookInv

LEMMA SwitchAccountNext == ASSUME BookInv, SwitchAccount PROVE BookInv'
<1>1. PICK r \in DOMAIN chart : chart' = [chart EXCEPT ![r].active = ~chart[r].active]
  BY DEF SwitchAccount
<1> DEFINE x == [chart[r] EXCEPT !.active = ~chart[r].active]
<1>2. chart' = [chart EXCEPT ![r] = x] /\ AccountRow(x) /\ x.code = chart[r].code
  <2>1. chart[r] = [code |-> chart[r].code, active |-> chart[r].active]
    BY DEF BookInv, ChartListed, AccountRow
  <2>2. x = [code |-> chart[r].code, active |-> ~chart[r].active] BY <2>1
  <2>3. AccountRow(x) /\ x.code = chart[r].code BY <2>2 DEF AccountRow
  <2> QED BY <1>1, <2>3
<1> HIDE DEF x
<1>3. UNCHANGED <<journals, vendorRows, entries, month, mirror, renamed, reversing>>
  BY DEF SwitchAccount, Setting, projectionRows
<1>4. ReversingFits' BY <1>3 DEF BookInv, ReversingFits
<1>5. ChartListed(chart') /\ RowsStay(chart, chart', {r}) /\ chart'[r] = x
  BY <1>2, ChartChanges DEF BookInv
<1>6. RowsStay(chart, chart', renamed') /\ renamed \subseteq renamed'
  BY <1>2, <1>3, <1>5 DEF RowsStay
<1>7. MirrorFits(chart', mirror', renamed') BY <1>3, <1>6, MirrorMoves DEF BookInv
<1> QED BY <1>3, <1>4, <1>5, <1>6, <1>7, QuietNext DEF BookInv

LEMMA BookStuttersNext == ASSUME BookInv, UNCHANGED bookVars PROVE BookInv'
<1>1. UNCHANGED <<journals, vendorRows, entries, month, chart, mirror, renamed, reversing>>
  BY DEF bookVars
<1>2. ReversingFits' BY <1>1 DEF BookInv, ReversingFits
<1> QED BY <1>1, <1>2, AccountsSame, QuietNext DEF BookInv

\* Lines of the same amounts, on other accounts.
LEMMA RelabelledLines ==
  ASSUME NEW posts, GoodLines(posts), NEW made, NEW h \in [posts -> made],
         \A k \in made : \E l \in posts : h[l] = k,
         \A l \in posts : BookRow(h[l]) /\ h[l].minor = l.minor
  PROVE  GoodLines(made)
<1>1. IsFiniteSet(made) BY FiniteImage DEF GoodLines
<1>2. \A k \in made : BookRow(k) OBVIOUS
<1>3. AmountsDiffer(made) BY DEF GoodLines, AmountsDiffer
<1> QED BY <1>1, <1>2, <1>3 DEF GoodLines

Plain(posts) == {[l EXCEPT !.vendor = FALSE] : l \in posts}
NotVendors(posts) == \A l \in posts : ~l.vendor

LEMMA VendorChanged ==
  ASSUME NEW l, l = [code |-> l.code, vendor |-> l.vendor, minor |-> l.minor], NEW w
  PROVE  [l EXCEPT !.vendor = w] = [code |-> l.code, vendor |-> w, minor |-> l.minor]
OBVIOUS

LEMMA PlainLines ==
  ASSUME NEW posts, GoodLines(posts)
  PROVE  GoodLines(Plain(posts)) /\ NotVendors(Plain(posts))
<1> DEFINE of(l) == [l EXCEPT !.vendor = FALSE]
           h == [l \in posts |-> of(l)]
<1>1. ASSUME NEW l \in posts PROVE BookRow(of(l)) /\ of(l).minor = l.minor /\ ~of(l).vendor
  <2>1. l = [code |-> l.code, vendor |-> l.vendor, minor |-> l.minor] /\ l.minor \in Int
    BY DEF GoodLines, BookRow
  <2>2. of(l) = [code |-> l.code, vendor |-> FALSE, minor |-> l.minor] BY <2>1, VendorChanged
  <2> HIDE DEF of
  <2>3. BookRow(of(l)) BY <2>1, <2>2 DEF BookRow
  <2> QED BY <2>2, <2>3
<1>2. /\ Plain(posts) = {of(l) : l \in posts} /\ h \in [posts -> Plain(posts)]
      /\ \A l \in posts : h[l] = of(l)
  BY DEF Plain
<1> HIDE DEF of, h
<1>3. \A k \in Plain(posts) : \E l \in posts : h[l] = k BY <1>2
<1>4. \A l \in posts : BookRow(h[l]) /\ h[l].minor = l.minor BY <1>1, <1>2
<1>5. GoodLines(Plain(posts)) BY <1>2, <1>3, <1>4, RelabelledLines
<1>6. NotVendors(Plain(posts)) BY <1>1, <1>2 DEF NotVendors
<1> QED BY <1>5, <1>6

LEMMA LinesOnLedger ==
  ASSUME NEW posts, GoodLines(posts), NotVendors(posts), NEW ch, NEW mi,
         NEW there \in OnLedger(posts, ch, mi)
  PROVE  GoodLines(there) /\ NotVendors(there)
<1>1. PICK to : there = {[l EXCEPT !.code = to[l]] : l \in posts} BY DEF OnLedger
<1> DEFINE at(l) == [l EXCEPT !.code = to[l]]
           h == [l \in posts |-> at(l)]
<1>2. ASSUME NEW l \in posts PROVE BookRow(at(l)) /\ at(l).minor = l.minor /\ ~at(l).vendor
  <2>1. /\ l = [code |-> l.code, vendor |-> l.vendor, minor |-> l.minor] /\ l.minor \in Int
        /\ l.vendor \in BOOLEAN
    BY DEF GoodLines, BookRow
  <2>2. at(l) = [code |-> to[l], vendor |-> l.vendor, minor |-> l.minor] BY <2>1
  <2> HIDE DEF at
  <2>3. BookRow(at(l)) BY <2>1, <2>2 DEF BookRow
  <2>4. ~l.vendor BY DEF NotVendors
  <2> QED BY <2>2, <2>3, <2>4
<1>3. /\ there = {at(l) : l \in posts} /\ h \in [posts -> there] /\ \A l \in posts : h[l] = at(l)
  BY <1>1
<1> HIDE DEF at, h
<1>4. \A k \in there : \E l \in posts : h[l] = k BY <1>3
<1>5. \A l \in posts : BookRow(h[l]) /\ h[l].minor = l.minor BY <1>2, <1>3
<1>6. GoodLines(there) BY <1>3, <1>4, <1>5, RelabelledLines
<1>7. NotVendors(there) BY <1>2, <1>3 DEF NotVendors
<1> QED BY <1>6, <1>7

LEMMA CreateEntryNext == ASSUME BookInv, CreateEntry PROVE BookInv'
<1> DEFINE own == <<"adapter", Len(journals) + 1>>
<1>1. PICK posts \in BookDrafts, src \in {NoSource, Named}, asWhat \in {"draft", "posted"} :
        /\ \/ UNCHANGED ledgerRows
           \/ \E there \in OnLedger(Plain(posts), Chart, Mirror) :
                Post(IF src = NoSource THEN own ELSE src, <<"adapter", src, own>>, there, month)
        /\ EntryAdded(OwnEntry(src, asWhat, Plain(posts)))
        /\ UNCHANGED <<vendorRows, reversing>> /\ Booked
  BY DEF CreateEntry, EntryAdded, Plain
<1> DEFINE x == OwnEntry(src, asWhat, Plain(posts))
<1>2. EntryAdded(x) /\ x.of = 0 /\ x.src = src BY <1>1 DEF OwnEntry
<1> HIDE DEF x
<1>3. UNCHANGED <<vendorRows, reversing, month, renamed>> BY <1>1 DEF Booked
<1>4. CASE UNCHANGED ledgerRows
  <2>1. UNCHANGED <<journals, vendorRows, month, chart, mirror, renamed, reversing>>
    BY <1>3, <1>4 DEF ledgerRows
  <2>2. ReversingFits' BY <2>1 DEF BookInv, ReversingFits
  <2>3. \E y : EntryAdded(y) /\ y.of = 0 /\ y.src \in {NoSource, Named} BY <1>2
  <2> QED BY <2>1, <2>2, <2>3, AccountsSame, QuietNext DEF BookInv
<1>5. CASE \E there \in OnLedger(Plain(posts), Chart, Mirror) :
             Post(IF src = NoSource THEN own ELSE src, <<"adapter", src, own>>, there, month)
  <2> DEFINE from == IF src = NoSource THEN own ELSE src
             key == <<"adapter", src, own>>
  <2>1. PICK there \in OnLedger(Plain(posts), Chart, Mirror) : Post(from, key, there, month) BY <1>5
  <2> DEFINE new == Journal(from, key, there, month)
  <2>2. GoodLines(there) /\ NotVendors(there)
    <3>1. IsFiniteSet(posts) /\ posts \subseteq Line /\ AmountsDiffer(posts)
      BY JournalBookAssumption
    <3>2. GoodLines(posts) BY <3>1 DEF GoodLines, BookRow, Line
    <3>3. GoodLines(Plain(posts)) /\ NotVendors(Plain(posts)) BY <3>2, PlainLines
    <3> QED BY <3>3, LinesOnLedger
  <2>3. from = Named \/ from = own OBVIOUS
  <2>4. from = Named \/ \E sort \in OwnKinds : from = <<sort, Len(journals) + 1>>
    BY <2>3 DEF OwnKinds
  <2>5. from[1] \in Unprojected /\ from[1] # "payment" /\ from[1] # "approval"
    BY <2>3 DEF Named, Unprojected
  <2> HIDE DEF from, key
  <2>6. Adds(new) /\ chart' = Chart /\ mirror' = Mirror
    <3>1. month \in Months BY DEF BookInv
    <3> QED BY <2>1, <2>2, <2>4, <3>1, PostFits
  <2>7. new.src = from /\ new.lines = there BY DEF Journal
  <2> HIDE DEF new
  <2>8. AccountsUpToDate /\ reversing' \subseteq reversing BY <1>3, <2>6 DEF AccountsUpToDate
  <2>9. EntryIsOf(new, x) BY <1>2 DEF EntryIsOf, IsCopyOf
  <2>10. EntryMore(new) /\ RowMore(0) BY <1>2, <1>3, <2>9 DEF EntryMore, RowMore
  <2>11. OfVendor(there) = 0 BY <2>2, NoCredits DEF GoodLines, NotVendors
  <2>12. Explains(new, 0, entries') BY <2>5, <2>7, <2>11 DEF Explains
  <2>13. new.src[1] \in Unprojected BY <2>5, <2>7
  <2> QED BY <2>6, <2>8, <2>10, <2>12, <2>13, PostedNext
<1> QED BY <1>1, <1>4, <1>5

--------------------
LEMMA BookStepKeeps == ASSUME BookInv, [BookNext]_bookVars PROVE BookInv'
<1>1. CASE UNCHANGED bookVars BY <1>1, BookStuttersNext
<1>2. CASE BookNext
  BY <1>2, PostManualNext, CreateEntryNext, PostPaymentNext, ApproveSaleNext, PostSettlementNext,
     PayExpenseNext, ReadForReversalNext, CommitReversalNext, ReversalRefusedNext, PeriodsNext,
     CreateAccountNext, RenameAccountNext, SwitchAccountNext, NextMonthNext DEF BookNext
<1> QED BY <1>1, <1>2

LEMMA BookStarts == ASSUME BookInit PROVE BookInv
<1>1. journals = <<>> /\ entries = <<>> /\ vendorRows = {} /\ reversing = {} /\ month = 1
      /\ renamed = {}
  BY DEF BookInit
<1>2. DOMAIN journals = {} /\ DOMAIN entries = {} BY <1>1
<1>3. JournalsFit /\ StatusesFit
  <2>1. journals \in Seq({}) BY <1>1
  <2> QED BY <1>2, <2>1 DEF JournalsFit, StatusesFit, KeysDiffer
<1>4. ReversingFits /\ month \in Months BY <1>1 DEF ReversingFits, Months
<1>5. ChartListed(chart) /\ MirrorFits(chart, mirror, renamed)
  <2>1. /\ chart = [i \in 1..Len(DefaultCodes) |-> [code |-> DefaultCodes[i], active |-> TRUE]]
        /\ mirror = [c \in Defaults |-> [row |-> RowOf(chart, c), active |-> TRUE]]
    BY DEF BookInit
  <2>2. Len(DefaultCodes) \in Nat BY DEF DefaultCodes
  <2>3. DOMAIN chart = 1..Len(DefaultCodes)
        /\ \A i \in DOMAIN chart : chart[i] = [code |-> DefaultCodes[i], active |-> TRUE]
    BY <2>1
  <2>4. ChartListed(chart)
    <3>1. \A i \in DOMAIN chart : AccountRow(chart[i]) BY <2>3 DEF AccountRow
    <3>2. chart \in [1..Len(DefaultCodes) -> {chart[i] : i \in DOMAIN chart}] BY <2>1, <2>3
    <3>3. chart \in Seq({chart[i] : i \in DOMAIN chart}) BY <2>2, <3>2, SeqDef
    <3> QED BY <3>1, <3>3 DEF ChartListed
  <2>5. ASSUME NEW c \in Defaults
        PROVE  RowOf(chart, c) \in DOMAIN chart /\ chart[RowOf(chart, c)].code = c
    <3>1. \E r \in DOMAIN chart : chart[r].code = c BY <2>3 DEF Defaults
    <3> QED BY <3>1 DEF RowOf
  <2>6. MirrorFits(chart, mirror, renamed) BY <2>1, <2>5 DEF MirrorFits
  <2> QED BY <2>4, <2>6
<1>6. EntriesFit
  <2>1. entries \in Seq({}) BY <1>1
  <2> QED BY <1>2, <2>1 DEF EntriesFit
<1>7. TieFits
  <2>1. IsFiniteSet(vendorRows) BY <1>1, FS_EmptySet
  <2> QED BY <1>1, <1>2, <2>1 DEF TieFits, EntriesKnown, DebitsAgree, EntryThere, OwedFit
<1>8. DriftExplained
  <2>1. RowsSum(vendorRows) = 0 BY <1>1, SumOfNone DEF RowsSum
  <2>2. PayableIn(journals, DOMAIN journals) = 0 BY <1>2, SumOfNone DEF PayableIn
  <2>3. OfKind(journals, "payment") = {} /\ OfKind(journals, "approval") = {}
        /\ Unexplained(journals, entries) = {}
    BY <1>2 DEF OfKind, Unexplained
  <2>4. PayableIn(journals, {}) = 0 BY SumOfNone DEF PayableIn
  <2>5. Cardinality({}) = 0 BY FS_EmptySet
  <2> QED BY <2>1, <2>2, <2>3, <2>4, <2>5, DriftIs
<1> QED BY <1>3, <1>4, <1>5, <1>6, <1>7, <1>8 DEF BookInv

--------------------
\* The report of what is owed to the vendors.
PrefixSum(lots, k) == SumFunctionOnSet(lots, 1..k)

LEMMA PrefixSumGrows ==
  ASSUME NEW lots, NEW k \in Nat, \A i \in 1..(k + 1) : lots[i] \in Int
  PROVE  PrefixSum(lots, k) \in Int /\ PrefixSum(lots, k + 1) = PrefixSum(lots, k) + lots[k + 1]
<1>1. IsFiniteSet(1..k) /\ k + 1 \notin 1..k /\ 1..(k + 1) = (1..k) \cup {k + 1} BY FS_Interval
<1>2. \A y \in (1..k) \cup {k + 1} : lots[y] \in Int BY <1>1
<1>3. /\ SumFunctionOnSet(lots, 1..k) \in Int
      /\ SumFunctionOnSet(lots, (1..k) \cup {k + 1}) = lots[k + 1] + SumFunctionOnSet(lots, 1..k)
  BY <1>1, <1>2, SumAdds
<1>4. lots[k + 1] \in Int OBVIOUS
<1> DEFINE p == SumFunctionOnSet(lots, 1..k)
           x == lots[k + 1]
<1>5. PrefixSum(lots, k) = p /\ p \in Int /\ x \in Int BY <1>3, <1>4 DEF PrefixSum
<1>6. PrefixSum(lots, k + 1) = x + p BY <1>1, <1>3 DEF PrefixSum
<1> HIDE DEF p, x
<1>7. PrefixSum(lots, k + 1) = PrefixSum(lots, k) + x BY <1>5, <1>6
<1> QED BY <1>5, <1>7 DEF x

LEMMA PrefixSumOfNone == ASSUME NEW lots PROVE PrefixSum(lots, 0) = 0
BY SumOfNone DEF PrefixSum

LEMMA SumOfIsPrefix ==
  ASSUME NEW lots \in Seq(Nat)
  PROVE  SumOf(lots) = PrefixSum(lots, Len(lots)) /\ Len(lots) \in Nat
BY LenProperties DEF SumOf, PrefixSum

\* What a debit takes from one lot, after those before it.
LEMMA TakenInOrder ==
  ASSUME NEW p \in Nat, NEW x \in Nat, NEW d \in Nat, NEW l,
         l = x - Least(x, IF d > p THEN d - p ELSE 0)
  PROVE  /\ l \in Nat /\ Least(d, p) \in Nat
         /\ (p - Least(d, p)) + l = (p + x) - Least(d, p + x)
BY DEF Least

LEMMA ConsumedIs ==
  ASSUME NEW lots \in Seq(Nat), NEW d \in Nat
  PROVE  /\ Consumed(lots, d) \in Seq(Nat)
         /\ SumOf(lots) \in Nat /\ SumOf(Consumed(lots, d)) = SumOf(lots) - Least(d, SumOf(lots))
<1> DEFINE N == Len(lots)
           rest == Consumed(lots, d)
           P(k) == PrefixSum(lots, k)
           C(k) == PrefixSum(rest, k)
           right(k) == P(k) \in Nat /\ C(k) = P(k) - Least(d, P(k))
           left(k) == lots[k] - Least(lots[k], IF d > P(k - 1) THEN d - P(k - 1) ELSE 0)
           good == {k \in Nat : k <= N => right(k) /\ \A i \in 1..k : rest[i] \in Nat}
<1>1. N \in Nat /\ DOMAIN lots = 1..N /\ \A i \in 1..N : lots[i] \in Nat BY LenProperties
<1>2. DOMAIN rest = 1..N /\ \A i \in 1..N : rest[i] = left(i) BY <1>1 DEF Consumed, PrefixSum
<1> HIDE DEF N, rest
<1>3. 0 \in good
  <2>1. P(0) = 0 /\ C(0) = 0 BY PrefixSumOfNone
  <2>2. Least(d, 0) = 0 BY DEF Least
  <2> QED BY <2>1, <2>2
<1>4. ASSUME NEW k \in good PROVE k + 1 \in good
  <2> SUFFICES ASSUME k + 1 <= N PROVE right(k + 1) /\ \A i \in 1..(k + 1) : rest[i] \in Nat OBVIOUS
  <2>1. k \in Nat /\ right(k) /\ \A i \in 1..k : rest[i] \in Nat BY <1>1
  <2>2. k + 1 \in 1..N /\ lots[k + 1] \in Nat BY <1>1, <2>1
  <2>3. (k + 1) - 1 = k BY <2>1
  <2> DEFINE x == lots[k + 1]
             p == P(k)
             l == x - Least(x, IF d > p THEN d - p ELSE 0)
  <2>4. rest[k + 1] = l BY <1>2, <2>2, <2>3
  <2>5. p \in Nat /\ x \in Nat /\ C(k) = p - Least(d, p) BY <2>1, <2>2
  <2>12. l = x - Least(x, IF d > p THEN d - p ELSE 0) OBVIOUS
  <2> HIDE DEF x, p, l
  <2>6. l \in Nat /\ Least(d, p) \in Nat /\ (p - Least(d, p)) + l = (p + x) - Least(d, p + x)
    BY <2>5, <2>12, TakenInOrder
  <2>7. \A i \in 1..(k + 1) : rest[i] \in Nat
    <3>1. \A i \in 1..(k + 1) : i \in 1..k \/ i = k + 1 BY <2>1
    <3> QED BY <2>1, <2>4, <2>6, <3>1
  <2>8. P(k + 1) = p + x
    <3>1. \A i \in 1..(k + 1) : lots[i] \in Int BY <1>1, <2>1, <2>2
    <3>2. PrefixSum(lots, k + 1) = PrefixSum(lots, k) + lots[k + 1] BY <2>1, <3>1, PrefixSumGrows
    <3> QED BY <3>2 DEF p, x
  <2>9. C(k + 1) = C(k) + l
    <3>1. \A i \in 1..(k + 1) : rest[i] \in Int BY <2>7
    <3>2. PrefixSum(rest, k + 1) = PrefixSum(rest, k) + rest[k + 1] BY <2>1, <3>1, PrefixSumGrows
    <3> QED BY <2>4, <3>2
  <2>10. p + x \in Nat BY <2>5
  <2>11. C(k + 1) = (p + x) - Least(d, p + x) BY <2>5, <2>6, <2>9
  <2> QED BY <2>7, <2>8, <2>10, <2>11
<1>5. good = Nat
  <2> HIDE DEF good
  <2>1. good \in SUBSET Nat BY DEF good
  <2> QED BY <1>3, <1>4, <2>1, NatSets
<1>6. right(N) /\ \A i \in 1..N : rest[i] \in Nat
  <2> HIDE DEF good
  <2>1. N \in good BY <1>1, <1>5
  <2>2. N <= N => right(N) /\ \A i \in 1..N : rest[i] \in Nat BY <2>1 DEF good
  <2> QED BY <1>1, <2>2
<1>7. rest \in Seq(Nat) /\ Len(rest) = N
  <2>1. rest = [i \in 1..N |-> rest[i]] BY <1>2 DEF rest, Consumed
  <2>2. rest \in [1..N -> Nat] BY <1>6, <2>1
  <2>3. rest \in Seq(Nat) BY <1>1, <2>2, SeqDef
  <2> QED BY <1>1, <1>2, <2>3, LenProperties
<1>8. SumOf(lots) = P(N) /\ SumOf(rest) = C(N) BY <1>7, SumOfIsPrefix DEF N
<1> QED BY <1>6, <1>7, <1>8 DEF rest

LEMMA LotAdded ==
  ASSUME NEW lots \in Seq(Nat), NEW c \in Nat
  PROVE  /\ Append(lots, c) \in Seq(Nat) /\ SumOf(lots) \in Int
         /\ SumOf(Append(lots, c)) = SumOf(lots) + c
<1> DEFINE more == Append(lots, c)
           N == Len(lots)
<1>1. /\ more \in Seq(Nat) /\ N \in Nat /\ Len(more) = N + 1 /\ more[N + 1] = c
      /\ \A i \in 1..N : more[i] = lots[i] /\ lots[i] \in Nat
  BY AppendProperties, LenProperties
<1> HIDE DEF more, N
<1>2. SumOf(lots) = PrefixSum(lots, N) /\ SumOf(more) = PrefixSum(more, N + 1)
  BY <1>1, SumOfIsPrefix DEF N
<1>3. \A i \in 1..(N + 1) : more[i] \in Int
  <2>1. \A i \in 1..(N + 1) : i \in 1..N \/ i = N + 1 BY <1>1
  <2> QED BY <1>1, <2>1
<1>4. PrefixSum(more, N) \in Int /\ PrefixSum(more, N + 1) = PrefixSum(more, N) + c
  BY <1>1, <1>3, PrefixSumGrows
<1>5. PrefixSum(lots, N) = PrefixSum(more, N)
  <2>1. IsFiniteSet(1..N) BY <1>1, FS_Interval
  <2>2. \A y \in 1..N : more[y] \in Int /\ lots[y] = more[y] BY <1>1
  <2> QED BY <2>1, <2>2, SumAgrees DEF PrefixSum
<1> QED BY <1>1, <1>2, <1>4, <1>5 DEF more

\* The report goes with what it is given.
Shaped(rep) == /\ rep = [lots |-> rep.lots, over |-> rep.over]
               /\ rep.lots \in Seq(Nat) /\ rep.over \in Int
Owed(rep) == SumOf(rep.lots) - rep.over

LEMMA AgedOwes ==
  ASSUME NEW rep, Shaped(rep), NEW c \in Int
  PROVE  /\ Shaped(Aged(rep, c)) /\ Owed(rep) \in Int /\ Owed(Aged(rep, c)) = Owed(rep) + c
<1> DEFINE s == SumOf(rep.lots)
           o == rep.over
<1>1. rep.lots \in Seq(Nat) /\ o \in Int /\ rep = [lots |-> rep.lots, over |-> o] BY DEF Shaped
<1>2. CASE c > 0
  <2>1. c \in Nat BY <1>2
  <2>2. Aged(rep, c) = [lots |-> Append(rep.lots, c), over |-> o]
    <3>1. Aged(rep, c) = [rep EXCEPT !.lots = Append(rep.lots, c)] BY <1>2 DEF Aged
    <3> QED BY <1>1, <3>1
  <2>3. Append(rep.lots, c) \in Seq(Nat) /\ s \in Int /\ SumOf(Append(rep.lots, c)) = s + c
    BY <1>1, <2>1, LotAdded
  <2>4. Shaped(Aged(rep, c)) BY <1>1, <2>2, <2>3 DEF Shaped
  <2>5. Owed(Aged(rep, c)) = SumOf(Append(rep.lots, c)) - o BY <2>2 DEF Owed
  <2>6. Owed(rep) = s - o BY DEF Owed
  <2> HIDE DEF s, o
  <2> QED BY <1>1, <2>3, <2>4, <2>5, <2>6
<1>3. CASE ~(c > 0)
  <2> DEFINE d == -c
             rest == Consumed(rep.lots, d)
             q == Least(d, s)
  <2>1. d \in Nat BY <1>3
  <2>2. rest \in Seq(Nat) /\ s \in Nat /\ SumOf(rest) = s - q BY <1>1, <2>1, ConsumedIs
  <2>3. Aged(rep, c) = [lots |-> rest, over |-> o - c - q] BY <1>3 DEF Aged
  <2>4. q \in Int BY <2>1, <2>2 DEF Least
  <2> HIDE DEF rest, q
  <2>5. o - c - q \in Int BY <1>1, <2>4
  <2>6. Shaped(Aged(rep, c)) BY <2>2, <2>3, <2>5 DEF Shaped
  <2>7. Owed(Aged(rep, c)) = SumOf(rest) - (o - c - q) BY <2>3 DEF Owed
  <2>8. Owed(rep) = s - o BY DEF Owed
  <2> HIDE DEF s, o
  <2> QED BY <1>1, <2>2, <2>4, <2>6, <2>7, <2>8
<1> QED BY <1>2, <1>3

\* The recursion by which AfterMonth is defined, as far as there are journals.
ReportSteps(g, rep, m, N) ==
  g = [n \in 0..N |-> IF n = 0 THEN rep
                     ELSE IF journals[n].on = m THEN Aged(g[n - 1], OfVendor(journals[n].lines))
                     ELSE g[n - 1]]

LEMMA AfterMonthIs ==
  ASSUME NEW rep, NEW m
  PROVE  AfterMonth(rep, m) = (CHOOSE g : ReportSteps(g, rep, m, Len(journals)))[Len(journals)]
BY DEF AfterMonth, ReportSteps

LEMMA ReportStepsExist ==
  ASSUME NEW rep, NEW m, NEW N \in Nat
  PROVE  \E g : ReportSteps(g, rep, m, N)
<1> DEFINE some == {k \in Nat : \E g : ReportSteps(g, rep, m, k)}
<1>1. 0 \in some
  <2> DEFINE g == [n \in 0..0 |-> rep]
  <2>1. g = [n \in 0..0 |-> IF n = 0 THEN rep
                     ELSE IF journals[n].on = m THEN Aged(g[n - 1], OfVendor(journals[n].lines))
                     ELSE g[n - 1]]
    OBVIOUS
  <2> HIDE DEF g
  <2>2. ReportSteps(g, rep, m, 0) BY <2>1 DEF ReportSteps
  <2> QED BY <2>2
<1>2. ASSUME NEW k \in some PROVE k + 1 \in some
  <2>1. PICK g : ReportSteps(g, rep, m, k) OBVIOUS
  <2> DEFINE next(f, n) ==
               IF n = 0 THEN rep
               ELSE IF journals[n].on = m THEN Aged(f[n - 1], OfVendor(journals[n].lines))
               ELSE f[n - 1]
             h == [n \in 0..(k + 1) |-> next(g, n)]
  <2>2. k \in Nat /\ \A n \in 0..k : g[n] = next(g, n) BY <2>1 DEF ReportSteps
  <2>3. \A n \in 0..(k + 1) : h[n] = next(g, n) OBVIOUS
  <2>4. \A n \in 0..k : h[n] = g[n]
    <3> HIDE DEF next, h
    <3> QED BY <2>2, <2>3
  <2>5. ASSUME NEW n \in 0..(k + 1) PROVE next(h, n) = next(g, n)
    <3>1. n = 0 \/ n - 1 \in 0..k BY <2>2
    <3>2. n = 0 \/ h[n - 1] = g[n - 1] BY <2>4, <3>1
    <3> HIDE DEF h
    <3> QED BY <3>2
  <2>6. h = [n \in 0..(k + 1) |-> next(h, n)]
    <3>1. h = [n \in 0..(k + 1) |-> next(g, n)] OBVIOUS
    <3> HIDE DEF next, h
    <3> QED BY <2>5, <3>1
  <2> HIDE DEF h
  <2>7. ReportSteps(h, rep, m, k + 1) BY <2>6 DEF ReportSteps
  <2> QED BY <2>2, <2>7
<1>3. some = Nat
  <2> HIDE DEF some
  <2>1. some \in SUBSET Nat BY DEF some
  <2> QED BY <1>1, <1>2, <2>1, NatSets
<1> QED BY <1>3

OnIn(m, k) == {j \in 1..k : journals[j].on = m}

LEMMA MonthAdds ==
  ASSUME JournalsFit, NEW rep, Shaped(rep), NEW m
  PROVE  /\ Shaped(AfterMonth(rep, m)) /\ Owed(rep) \in Int
         /\ PayableIn(journals, OnIn(m, Len(journals))) \in Int
         /\ Owed(AfterMonth(rep, m)) = Owed(rep) + PayableIn(journals, OnIn(m, Len(journals)))
<1> DEFINE N == Len(journals)
           g == CHOOSE f : ReportSteps(f, rep, m, N)
           sum(k) == PayableIn(journals, OnIn(m, k))
           right(k) == /\ Shaped(g[k]) /\ sum(k) \in Int /\ Owed(g[k]) = Owed(rep) + sum(k)
           good == {k \in Nat : k <= N => right(k)}
<1>1. N \in Nat /\ DOMAIN journals = 1..N BY Places
<1>2. ReportSteps(g, rep, m, N) /\ AfterMonth(rep, m) = g[N]
  <2>1. \E f : ReportSteps(f, rep, m, N) BY <1>1, ReportStepsExist
  <2>2. ReportSteps(g, rep, m, N) BY <2>1
  <2> QED BY <2>2, AfterMonthIs
<1> HIDE DEF g, N
<1>3. \A k \in 0..N : g[k] = IF k = 0 THEN rep
                     ELSE IF journals[k].on = m THEN Aged(g[k - 1], OfVendor(journals[k].lines))
                     ELSE g[k - 1]
  BY <1>2 DEF ReportSteps
<1>4. Owed(rep) \in Int BY AgedOwes
<1>5. 0 \in good
  <2>1. OnIn(m, 0) = {} BY DEF OnIn
  <2>2. sum(0) = 0 BY <2>1, SumOfNone DEF PayableIn
  <2>3. g[0] = rep BY <1>1, <1>3
  <2>4. Owed(rep) = Owed(rep) + 0 BY <1>4
  <2> QED BY <2>2, <2>3, <2>4
<1>6. ASSUME NEW k \in good PROVE k + 1 \in good
  <2> SUFFICES ASSUME k + 1 <= N PROVE right(k + 1) OBVIOUS
  <2>1. k \in Nat /\ right(k) BY <1>1
  <2>2. /\ k + 1 \in 0..N /\ k + 1 # 0 /\ (k + 1) - 1 = k /\ k + 1 \in DOMAIN journals
        /\ k + 1 \notin 1..k
    BY <1>1, <2>1
  <2>3. g[k + 1] = IF journals[k + 1].on = m THEN Aged(g[k], OfVendor(journals[k + 1].lines))
                   ELSE g[k]
    BY <1>3, <2>2
  <2>4. CASE journals[k + 1].on = m
    <3> DEFINE c == OfVendor(journals[k + 1].lines)
    <3>1. GoodLines(journals[k + 1].lines) BY <2>2 DEF JournalsFit, JournalRow
    <3>2. c \in Int BY <3>1, CreditsAreInt
    <3>3. OnIn(m, k + 1) = OnIn(m, k) \cup {k + 1} /\ k + 1 \notin OnIn(m, k)
      <4>1. 1..(k + 1) = (1..k) \cup {k + 1} BY <2>1
      <4> QED BY <2>2, <2>4, <4>1 DEF OnIn
    <3>4. sum(k + 1) = sum(k) + c
      <4>1. IsFiniteSet(OnIn(m, k))
        <5>1. IsFiniteSet(1..k) /\ OnIn(m, k) \subseteq 1..k BY <2>1, FS_Interval DEF OnIn
        <5> QED BY <5>1, FS_Subset
      <4>2. SameLines(journals, journals, OnIn(m, k))
        <5>1. OnIn(m, k) \subseteq DOMAIN journals BY <1>1, <2>1, <2>2 DEF OnIn
        <5> QED BY <5>1 DEF SameLines, JournalsFit, JournalRow
      <4> DEFINE o == k + 1
      <4>3. GoodLines(journals[o].lines) /\ o \notin OnIn(m, k) BY <3>1, <3>3
      <4> HIDE DEF o
      <4>4. PayableIn(journals, OnIn(m, k) \cup {o})
              = PayableIn(journals, OnIn(m, k)) + OfVendor(journals[o].lines)
        BY <4>1, <4>2, <4>3, PayableMore
      <4> QED BY <3>3, <4>4 DEF o
    <3>5. Shaped(g[k + 1]) /\ Owed(g[k + 1]) = Owed(g[k]) + c
      <4> HIDE DEF c
      <4>1. Shaped(Aged(g[k], c)) /\ Owed(Aged(g[k], c)) = Owed(g[k]) + c BY <2>1, <3>2, AgedOwes
      <4>2. g[k + 1] = Aged(g[k], c) BY <2>3, <2>4 DEF c
      <4> QED BY <4>1, <4>2
    <3> DEFINE w == Owed(rep)
               s == sum(k)
               t == sum(k + 1)
               v == Owed(g[k + 1])
    <3>6. w \in Int /\ s \in Int /\ t = s + c /\ v = (w + s) + c BY <1>4, <2>1, <3>4, <3>5
    <3> HIDE DEF w, s, t, v, c
    <3>7. t \in Int /\ v = w + t BY <3>2, <3>6
    <3> QED BY <3>5, <3>7 DEF w, t, v
  <2>5. CASE journals[k + 1].on # m
    <3>1. OnIn(m, k + 1) = OnIn(m, k)
      <4>1. 1..(k + 1) = (1..k) \cup {k + 1} BY <2>1
      <4> QED BY <2>5, <4>1 DEF OnIn
    <3>2. g[k + 1] = g[k] BY <2>3, <2>5
    <3> QED BY <2>1, <3>1, <3>2
  <2> QED BY <2>4, <2>5
<1>7. good = Nat
  <2> HIDE DEF good
  <2>1. good \in SUBSET Nat BY DEF good
  <2> QED BY <1>5, <1>6, <2>1, NatSets
<1>8. right(N)
  <2> HIDE DEF good, right
  <2>1. N \in good BY <1>1, <1>7
  <2>2. N <= N => right(N) BY <2>1 DEF good
  <2> QED BY <1>1, <2>2
<1> QED BY <1>2, <1>4, <1>8 DEF N

LEMMA ReportAddsUp == ASSUME JournalsFit PROVE ReportAdds
<1> DEFINE N == Len(journals)
           r1 == AfterMonth(NoLots, 1)
           r2 == AfterMonth(r1, 2)
           A == OnIn(1, N)
           B == OnIn(2, N)
<1>1. DOMAIN journals = 1..N /\ N \in Nat /\ \A j \in DOMAIN journals : journals[j].on \in {1, 2}
  BY Places DEF JournalsFit, JournalRow, Months
<1>2. Shaped(NoLots) /\ Owed(NoLots) = 0
  <2>1. NoLots.lots = <<>> /\ NoLots.over = 0 BY DEF NoLots
  <2>2. <<>> \in Seq(Nat) /\ DOMAIN <<>> = {} OBVIOUS
  <2>3. SumOf(<<>>) = 0 BY <2>2, SumOfNone DEF SumOf
  <2>4. Shaped(NoLots) BY <2>1, <2>2 DEF Shaped, NoLots
  <2> QED BY <2>1, <2>3, <2>4 DEF Owed
<1>3. Shaped(r1) /\ PayableIn(journals, A) \in Int /\ Owed(r1) = PayableIn(journals, A)
  BY <1>2, MonthAdds
<1>4. Shaped(r2) /\ PayableIn(journals, B) \in Int
      /\ Owed(r2) = PayableIn(journals, A) + PayableIn(journals, B)
  <2> HIDE DEF r1
  <2>1. Shaped(r2) /\ PayableIn(journals, B) \in Int /\ Owed(r2) = Owed(r1) + PayableIn(journals, B)
    BY <1>3, MonthAdds
  <2> QED BY <1>3, <2>1
<1>5. /\ {j \in DOMAIN journals : journals[j].on <= 1} = A
      /\ {j \in DOMAIN journals : journals[j].on <= 2} = A \cup B
      /\ A \cap B = {} /\ A \subseteq DOMAIN journals /\ B \subseteq DOMAIN journals
  BY <1>1 DEF OnIn
<1>6. PayableIn(journals, A \cup B) = PayableIn(journals, A) + PayableIn(journals, B)
  <2> DEFINE f == [j \in A |-> OfVendor(journals[j].lines)]
             h == [j \in B |-> OfVendor(journals[j].lines)]
             e == [j \in A \cup B |-> OfVendor(journals[j].lines)]
  <2> HIDE DEF A, B
  <2>1. IsFiniteSet(A) /\ IsFiniteSet(B)
    <3>1. IsFiniteSet(DOMAIN journals) BY <1>1, FS_Interval
    <3> QED BY <1>5, <3>1, FS_Subset
  <2>2. \A j \in DOMAIN journals : OfVendor(journals[j].lines) \in Int
    BY CreditsAreInt DEF JournalsFit, JournalRow
  <2>3. /\ \A j \in A \cup B : e[j] \in Int
        /\ \A j \in A : f[j] = e[j] /\ e[j] \in Int
        /\ \A j \in B : h[j] = e[j] /\ e[j] \in Int
    BY <1>5, <2>2
  <2>4. /\ PayableIn(journals, A) = SumFunctionOnSet(f, A)
        /\ PayableIn(journals, B) = SumFunctionOnSet(h, B)
        /\ PayableIn(journals, A \cup B) = SumFunctionOnSet(e, A \cup B)
    BY DEF PayableIn
  <2> HIDE DEF f, h, e
  <2>5. SumFunctionOnSet(e, A \cup B) = SumFunctionOnSet(e, A) + SumFunctionOnSet(e, B)
    BY <1>5, <2>1, <2>3, SumOfUnion
  <2>6. SumFunctionOnSet(e, A) = SumFunctionOnSet(f, A) BY <2>1, <2>3, SumAgrees
  <2>7. SumFunctionOnSet(e, B) = SumFunctionOnSet(h, B) BY <2>1, <2>3, SumAgrees
  <2> QED BY <2>4, <2>5, <2>6, <2>7
<1>7. /\ Report(1) = r1 /\ Report(2) = r2 BY DEF Report
<1> HIDE DEF A, B, r1, r2
<1>8. \A d \in Months :
        /\ Shaped(Report(d))
        /\ Owed(Report(d)) = PayableIn(journals, {j \in DOMAIN journals : journals[j].on <= d})
  <2> TAKE d \in Months
  <2>1. d = 1 \/ d = 2 BY DEF Months
  <2> QED BY <1>3, <1>4, <1>5, <1>6, <1>7, <2>1
<1>9. \A d \in Months : \A i \in DOMAIN Report(d).lots : Report(d).lots[i] >= 0
  <2> TAKE d \in Months
  <2> DEFINE lots == Report(d).lots
  <2>1. lots \in Seq(Nat) BY <1>8 DEF Shaped
  <2> HIDE DEF lots
  <2>2. \A i \in DOMAIN lots : lots[i] \in Nat BY <2>1, LenProperties
  <2> QED BY <2>2 DEF lots
<1> QED BY <1>8, <1>9 DEF ReportAdds, Owed, Payable, PayableIn

LEMMA BooksSound == BookInv => BookSound
BY ReversedOnceHolds, AccusedAreKnown, ProjectedHolds, ReportAddsUp DEF BookInv, BookSound

(* A journal is reversed if and only if its reversal is posted, the older balance of the *)
(* vendors differs from the ledger's by what DriftExplained says, reconciliation accuses only *)
(* what ReconciliationKnown names, copied entries are on the accounts they were posted to, *)
(* and the report of payables adds up: for any drafts, accounts and number of postings *)
(* (reverse_journal, project_legacy_journal, reconciliation_issues, vendor_payables_report). *)
THEOREM BooksTrue == BookSpec => []BookSound
BY BooksSound, BookStarts, BookStepKeeps, PTL DEF BookSpec

--------------------
\* Nothing is posted into closed books: what a step adds is of a day without a period, or with
\* an open one.
PeriodsStay == \A p \in periods : p.status = "closed" => p \in periods'
InOpenBooks(d) == LET over == Covering(periods, d)
                  IN over = {} \/ \E p \in over : p.status = "open"
AddedInOpenBooks == \A j \in DOMAIN journals' \ DOMAIN journals : InOpenBooks(journals'[j].on)

LEMMA PeriodOpen ==
  ASSUME NEW p, NEW d, PeriodUsed(p, d)
  PROVE  InOpenBooks(d)
BY DEF PeriodUsed, InOpenBooks

LEMMA OneInOpenBooks ==
  ASSUME JournalsFit, NEW new, Added(new), InOpenBooks(new.on)
  PROVE  AddedInOpenBooks
<1>1. DOMAIN journals' \ DOMAIN journals = {Len(journals) + 1} BY Longer
<1> QED BY <1>1 DEF Added, AddedInOpenBooks

LEMMA PostStays ==
  ASSUME BookInv, NEW src, NEW key, NEW posts, NEW d, Post(src, key, posts, d)
  PROVE  PeriodsStay /\ AddedInOpenBooks
<1>1. PICK p \in periods \cup {Year} : PeriodUsed(p, d) /\ periods' = periods \cup {p} BY DEF Post
<1> DEFINE new == Journal(src, key, posts, d)
<1>2. Added(new) /\ new.on = d BY PostGrows DEF BookInv, Journal
<1> HIDE DEF new
<1>3. InOpenBooks(d) BY <1>1, PeriodOpen
<1> QED BY <1>1, <1>2, <1>3, OneInOpenBooks DEF PeriodsStay, BookInv

LEMMA ReversalStays == ASSUME BookInv, CommitReversal PROVE PeriodsStay /\ AddedInOpenBooks
<1>1. PICK r \in reversing :
        LET j == r[2]
        IN /\ \E p \in periods \cup {Year} : PeriodUsed(p, month) /\ periods' = periods \cup {p}
           /\ ~KeyTaken(r)
           /\ journals' = Append([journals EXCEPT ![j].status = "reversed"],
                                 Journal(<<"reversal", j>>, r, Negated(journals[j].lines), month))
  BY DEF CommitReversal, Journal
<1>2. PICK p \in periods \cup {Year} : PeriodUsed(p, month) /\ periods' = periods \cup {p} BY <1>1
<1> DEFINE new == Journal(<<"reversal", r[2]>>, r, Negated(journals[r[2]].lines), month)
<1>3. Added(new) BY <1>1, ReversalGrows DEF BookInv
<1>4. new.on = month BY DEF Journal
<1> HIDE DEF new
<1>5. InOpenBooks(month) BY <1>2, PeriodOpen
<1> QED BY <1>2, <1>3, <1>4, <1>5, OneInOpenBooks DEF PeriodsStay, BookInv

LEMMA BookStep ==
  ASSUME BookInv, [BookNext]_bookVars
  PROVE  PeriodsStay /\ AddedInOpenBooks
<1>1. CASE PostManual BY <1>1, PostStays DEF PostManual
<1>2. CASE CreateEntry
  <2>1. PICK posts \in BookDrafts, src \in {NoSource, Named}, asWhat \in {"draft", "posted"} :
          LET own == <<"adapter", Len(journals) + 1>>
              plain == {[l EXCEPT !.vendor = FALSE] : l \in posts}
          IN IF asWhat = "draft" THEN UNCHANGED ledgerRows
             ELSE \E there \in OnLedger(plain, Chart, Mirror) :
                    Post(IF src = NoSource THEN own ELSE src, <<"adapter", src, own>>, there, month)
    BY <1>2 DEF CreateEntry
  <2>2. CASE UNCHANGED ledgerRows BY <2>2 DEF ledgerRows, AddedInOpenBooks, PeriodsStay
  <2>3. CASE \E key, src2, there : Post(src2, key, there, month) BY <2>3, PostStays
  <2> QED BY <2>1, <2>2, <2>3
<1>3. CASE PostPayment BY <1>3, PostStays DEF PostPayment
<1>4. CASE ApproveSale BY <1>4, PostStays DEF ApproveSale
<1>5. CASE PostSettlement BY <1>5, PostStays DEF PostSettlement
<1>6. CASE PayExpense BY <1>6, PostStays DEF PayExpense
<1>7. CASE CommitReversal BY <1>7, ReversalStays
<1>8. CASE UNCHANGED <<journals, periods>> BY <1>8 DEF AddedInOpenBooks, PeriodsStay
<1>9. CASE ReadForReversal \/ ReversalRefused \/ NextMonth
  BY <1>8, <1>9 DEF ReadForReversal, ReversalRefused, NextMonth, ledgerRows
<1>10. CASE SetOldPeriod \/ CreateAccount \/ RenameAccount \/ SwitchAccount
  BY <1>8, <1>10 DEF SetOldPeriod, CreateAccount, RenameAccount, SwitchAccount, Setting
<1>11. CASE CreatePeriod BY <1>11 DEF CreatePeriod, Setting, AddedInOpenBooks, PeriodsStay
<1>12. CASE SetPeriod BY <1>12 DEF SetPeriod, Setting, MayBecomeAt, AddedInOpenBooks, PeriodsStay
<1>13. CASE UNCHANGED bookVars BY <1>8, <1>13 DEF bookVars
<1> QED BY <1>1, <1>2, <1>3, <1>4, <1>5, <1>6, <1>7, <1>9, <1>10, <1>11, <1>12, <1>13 DEF BookNext

(* Nothing is posted into a month while every period over it is locked or closed, and no *)
(* closed period is opened again, for any drafts, accounts and number of postings *)
(* (ensure_period_for_date, set_period_status). *)
THEOREM BooksStayClosed == BookSpec => ClosedBooksStay
<1> DEFINE Stays == /\ \A j \in DOMAIN journals' \ DOMAIN journals :
                         LET over == Covering(periods, journals'[j].on)
                         IN over = {} \/ \E p \in over : p.status = "open"
                    /\ \A p \in periods : p.status = "closed" => p \in periods'
<1>1. BookInit => BookInv BY BookStarts
<1>2. BookInv /\ [BookNext]_bookVars => BookInv' BY BookStepKeeps
<1>3. BookInv /\ [BookNext]_bookVars => [Stays]_bookVars
  BY BookStep DEF PeriodsStay, InOpenBooks, AddedInOpenBooks
<1>4. ClosedBooksStay <=> [][Stays]_bookVars BY DEF ClosedBooksStay
<1> HIDE DEF Stays
<1> QED BY <1>1, <1>2, <1>3, <1>4, PTL DEF BookSpec
=============================================================================
