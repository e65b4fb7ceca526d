------------------------------ MODULE StoreProofs ------------------------------
(***************************************************************************)
(* Proofs about the work with the store and its buyers: the pulls, the     *)
(* requests and the settings they are made with, the messages to the       *)
(* buyers, the stock that goes to and comes from the store, whose customer *)
(* an account is, and what becomes of the store's products and orders; for *)
(* any products, calls, messages, orders and rows.                         *)
(***************************************************************************)
EXTENDS StorePull, StoreRequests, StoreSettings, WhatsAppQueue, StoreStock, Customers,
        StoreOrders, FiniteSetTheorems, SequenceTheorems, WellFoundedInduction, TLAPS

--------------------
\* StorePull: the answer of the store, and the places of the products in it.

LEMMA ListingFinite ==
  ASSUME NEW run
  PROVE  IsFiniteSet(Listing(run)) /\ Cardinality(Listing(run)) \in Nat
         /\ Listing(run) \subseteq StoreProducts
<1>1. NumProducts \in Nat BY PullAssumption
<1>2. IsFiniteSet(1..NumProducts) BY <1>1, FS_Interval
<1>3. Listing(run) \in SUBSET (1..NumProducts) BY DEF Listing, StoreProducts
<1>4. IsFiniteSet(Listing(run)) BY <1>2, <1>3, FS_Subset
<1> QED BY <1>3, <1>4, FS_CardinalityType DEF StoreProducts

\* The clock's readings, and the rows of the store.
Dated == \A p \in StoreProducts : store[p].at \in Nat

\* Two products, and which of them the store lists first.
LEMMA InOrder ==
  ASSUME Dated, NEW run, NEW p \in StoreProducts, NEW q \in StoreProducts, NEW r \in StoreProducts
  PROVE  /\ ~Earlier(run, p, p)
         /\ (p # q => Earlier(run, p, q) \/ Earlier(run, q, p))
         /\ (Earlier(run, p, q) => ~Earlier(run, q, p))
         /\ (Earlier(run, p, q) /\ Earlier(run, q, r) => Earlier(run, p, r))
<1>1. p \in Int /\ q \in Int /\ r \in Int BY PullAssumption DEF StoreProducts
<1>2. store[p].at \in Int /\ store[q].at \in Int /\ store[r].at \in Int BY DEF Dated
<1> QED BY <1>1, <1>2 DEF Earlier

UpToPlace(run, p) == {q \in Listing(run) : q = p \/ Earlier(run, q, p)}

LEMMA PlaceCounts ==
  ASSUME NEW run, NEW p \in Listing(run)
  PROVE  /\ Place(run, p) = Cardinality(UpToPlace(run, p)) /\ IsFiniteSet(UpToPlace(run, p))
         /\ Place(run, p) \in 1..Cardinality(Listing(run))
<1>1. Place(run, p) = Cardinality(UpToPlace(run, p)) BY DEF Place, UpToPlace
<1>2. UpToPlace(run, p) \in SUBSET Listing(run) /\ p \in UpToPlace(run, p) BY DEF UpToPlace
<1>3. IsFiniteSet(Listing(run)) /\ Cardinality(Listing(run)) \in Nat BY ListingFinite
<1>4. IsFiniteSet(UpToPlace(run, p))
      /\ Cardinality(UpToPlace(run, p)) <= Cardinality(Listing(run))
  BY <1>2, <1>3, FS_Subset
<1>5. Cardinality(UpToPlace(run, p)) \in Nat /\ Cardinality(UpToPlace(run, p)) # 0
  BY <1>2, <1>4, FS_CardinalityType, FS_EmptySet
<1> QED BY <1>1, <1>3, <1>4, <1>5

(* Who comes earlier has the smaller place. *)
LEMMA PlaceGrows ==
  ASSUME Dated, NEW run, NEW p \in Listing(run), NEW q \in Listing(run), Earlier(run, p, q)
  PROVE  Place(run, p) < Place(run, q)
<1>1. p \in StoreProducts /\ q \in StoreProducts /\ Listing(run) \subseteq StoreProducts
  BY ListingFinite
<1>2. UpToPlace(run, p) \in SUBSET UpToPlace(run, q) BY <1>1, InOrder DEF UpToPlace
<1>3. q \in UpToPlace(run, q) /\ q \notin UpToPlace(run, p)
  <2>1. ~Earlier(run, p, p) /\ ~Earlier(run, q, p) BY <1>1, InOrder
  <2>2. q # p BY <2>1
  <2> QED BY <2>1, <2>2 DEF UpToPlace
<1>4. IsFiniteSet(UpToPlace(run, q)) /\ IsFiniteSet(UpToPlace(run, p))
      /\ Place(run, p) = Cardinality(UpToPlace(run, p))
      /\ Place(run, q) = Cardinality(UpToPlace(run, q))
  BY PlaceCounts
<1>5. /\ Cardinality(UpToPlace(run, p)) <= Cardinality(UpToPlace(run, q))
      /\ (Cardinality(UpToPlace(run, q)) = Cardinality(UpToPlace(run, p))
            => UpToPlace(run, q) = UpToPlace(run, p))
  BY <1>2, <1>4, FS_Subset
<1>6. Cardinality(UpToPlace(run, p)) \in Nat /\ Cardinality(UpToPlace(run, q)) \in Nat
  BY <1>4, FS_CardinalityType
<1>7. Cardinality(UpToPlace(run, p)) # Cardinality(UpToPlace(run, q)) BY <1>3, <1>5
<1> QED BY <1>4, <1>5, <1>6, <1>7

(* Every place is taken, by one product. *)
LEMMA PlacesTaken ==
  ASSUME Dated, NEW run, NEW n \in 1..Cardinality(Listing(run))
  PROVE  \E p \in Listing(run) : Place(run, p) = n
<1> DEFINE L == Listing(run)
           place == [p \in L |-> Place(run, p)]
           size == Cardinality(L)
<1>1. IsFiniteSet(L) /\ size \in Nat /\ L \subseteq StoreProducts BY ListingFinite
<1>2. place \in [L -> 1..size] BY PlaceCounts
<1>3. \A p, q \in L : place[p] = place[q] => p = q
  <2> SUFFICES ASSUME NEW p \in L, NEW q \in L, p # q PROVE place[p] # place[q] OBVIOUS
  <2>1. Earlier(run, p, q) \/ Earlier(run, q, p) BY <1>1, InOrder
  <2>2. Place(run, p) < Place(run, q) \/ Place(run, q) < Place(run, p) BY <2>1, PlaceGrows
  <2>3. Place(run, p) \in Int /\ Place(run, q) \in Int
    <3>1. Place(run, p) \in 1..size /\ Place(run, q) \in 1..size BY PlaceCounts
    <3> QED BY <1>1, <3>1
  <2> QED BY <2>2, <2>3
<1>4. place \in Injection(L, 1..size) BY <1>2, <1>3 DEF Injection, IsInjective
<1>5. IsFiniteSet(1..size) /\ Cardinality(1..size) = size
  <2>1. 1 \in Int /\ size \in Int BY <1>1
  <2>2. IsFiniteSet(1..size) /\ Cardinality(1..size) = IF 1 > size THEN 0 ELSE size - 1 + 1
    BY <2>1, FS_Interval
  <2> HIDE DEF size
  <2> QED BY <1>1, <2>2
<1>6. place \in Surjection(L, 1..size) BY <1>4, <1>5, FS_Injection
<1> QED BY <1>6 DEF Surjection

\* The products on the first pages.
LEMMA PagesAdd ==
  ASSUME NEW n \in Nat
  PROVE  UpTo(n) \in Nat /\ UpTo(n + 1) = UpTo(n) + PageSize /\ PageSize \in Nat \ {0}
<1>1. PageSize \in Nat \ {0} BY PullAssumption
<1> QED BY <1>1 DEF UpTo

(* A page that is not full is the last. *)
LEMMA ShortIsLast ==
  ASSUME Dated, NEW run, run.page \in Nat \ {0}, Cardinality(PageOf(run)) < PageSize,
         NEW p \in Listing(run)
  PROVE  Place(run, p) <= UpTo(run.page)
<1> DEFINE before == UpTo(run.page - 1)
           end == UpTo(run.page)
           page == PageOf(run)
<1>1. before \in Nat /\ end \in Nat /\ end = before + PageSize /\ PageSize \in Nat \ {0}
  <2>1. run.page - 1 \in Nat /\ run.page = (run.page - 1) + 1 OBVIOUS
  <2>2. UpTo(run.page - 1) \in Nat /\ UpTo((run.page - 1) + 1) = UpTo(run.page - 1) + PageSize
    BY <2>1, PagesAdd
  <2>3. UpTo(run.page) = UpTo(run.page - 1) + PageSize BY <2>1, <2>2
  <2>4. PageSize \in Nat \ {0} BY PullAssumption
  <2>5. UpTo(run.page) \in Nat BY PagesAdd
  <2> QED BY <2>2, <2>3, <2>4, <2>5
<1>2. Place(run, p) \in 1..Cardinality(Listing(run)) /\ Cardinality(Listing(run)) \in Nat
  BY PlaceCounts, ListingFinite
<1> SUFFICES ASSUME end < Place(run, p) PROVE FALSE BY <1>1, <1>2
<1>3. IsFiniteSet(page) /\ Cardinality(page) \in Nat
  <2>1. page \in SUBSET Listing(run) BY DEF PageOf
  <2> QED BY <2>1, ListingFinite, FS_Subset, FS_CardinalityType
<1>4. \A n \in before + 1 .. end : \E q \in page : Place(run, q) = n
  <2> SUFFICES ASSUME NEW n \in before + 1 .. end PROVE \E q \in page : Place(run, q) = n OBVIOUS
  <2>1. n \in 1..Cardinality(Listing(run)) BY <1>1, <1>2
  <2>2. PICK q \in Listing(run) : Place(run, q) = n BY <2>1, PlacesTaken
  <2>3. q \in page BY <2>2 DEF PageOf
  <2> QED BY <2>2, <2>3
<1> DEFINE place == [q \in page |-> Place(run, q)]
<1>5. place \in Surjection(page, before + 1 .. end)
  <2>1. place \in [page -> before + 1 .. end] BY DEF PageOf
  <2> QED BY <1>4, <2>1 DEF Surjection
<1>6. Cardinality(before + 1 .. end) <= Cardinality(page) BY <1>3, <1>5, FS_Surjection
<1>7. Cardinality(before + 1 .. end) = PageSize
  <2>1. before + 1 \in Int /\ end \in Int BY <1>1
  <2>2. Cardinality(before + 1 .. end) = IF before + 1 > end THEN 0 ELSE end - (before + 1) + 1
    BY <2>1, FS_Interval
  <2> HIDE DEF before, end
  <2> QED BY <1>1, <2>2
<1> QED BY <1>1, <1>3, <1>6, <1>7

--------------------
\* StorePull: what a run has read, and what is still to come.

IsPull(r) == r = [phase |-> r.phase, kind |-> r.kind, page |-> r.page, start |-> r.start,
                  items |-> r.items, since |-> r.since, ids |-> r.ids, last |-> r.last,
                  hidden |-> r.hidden]
Pulling == pull.phase # "idle"
ReadSoFar(run) == UpTo(IF run.phase = "fetch" THEN run.page - 1 ELSE run.page)

\* A product is in the ERP as it is in the store, or is known not to be.
AsItIs(p) == erp[p].text = store[p].text \/ p \in exposed \cup late
\* It is on a page that is still to be read, or on the one that was.
Beyond(p) == /\ pull.phase \in {"fetch", "import"} /\ p \in Listing(pull)
             /\ Place(pull, p) > ReadSoFar(pull)
OnPage(p) == pull.phase = "import" /\ \E i \in pull.items : i.product = p /\ i.text = store[p].text

RowsOfStore ==
  /\ clock \in Nat /\ checkpoint \in 0..clock
  /\ \A p \in StoreProducts : store[p].at \in 0..clock
  /\ store = [p \in StoreProducts |-> store[p]] /\ erp = [p \in StoreProducts |-> erp[p]]
  /\ \A p \in StoreProducts : erp[p] = [text |-> erp[p].text, status |-> erp[p].status]
HooksTrue == \A h \in hooks : h.product \in StoreProducts /\ (h.gone => ~store[h.product].there)

RunFits == Pulling =>
  /\ IsPull(pull) /\ pull.phase \in {"fetch", "import", "end"} /\ pull.kind \in PullKinds
  /\ pull.page \in Nat \ {0} /\ pull.start \in checkpoint..clock
  /\ pull.since \in {0, checkpoint} /\ (pull.kind # "all" => pull.since = 0)
ItemsFit == Pulling =>
  /\ \A i \in pull.items : /\ i.product \in StoreProducts
                           /\ i.text = store[i.product].text \/ store[i.product].at >= pull.start
  /\ \A i, j \in pull.items : i.product = j.product => i.text = j.text
LastPage == pull.phase = "import" /\ pull.last =>
  \A p \in Listing(pull) : Place(pull, p) <= ReadSoFar(pull)

\* What a pull of everything will have imported, and what a reconciliation will have named.
Covers == Pulling /\ pull.kind = "all" => \A p \in StoreProducts :
  store[p].there /\ store[p].at < pull.start
  => AsItIs(p) \/ p \in pull.hidden \/ Beyond(p) \/ OnPage(p)
Names == Pulling /\ pull.kind = "reconcile" => \A p \in StoreProducts :
  store[p].there => p \in pull.ids \/ p \in pull.hidden \/ Beyond(p)

PullInv == /\ RowsOfStore /\ HooksTrue /\ RunFits /\ ItemsFit /\ LastPage /\ Covers /\ Names
           /\ PullSound

LEMMA RowsDated == RowsOfStore => Dated
  BY DEF RowsOfStore, Dated

LEMMA IdlePull == NoPull.phase = "idle"
  BY DEF NoPull

(* Runs that ask for the same window are answered the same. *)
LEMMA SameWindow ==
  ASSUME NEW r, NEW s, r.since = s.since, r.start = s.start
  PROVE  Listing(r) = Listing(s) /\ \A p : Place(r, p) = Place(s, p)
<1>1. \A p : InWindow(r, p) <=> InWindow(s, p) BY DEF InWindow
<1>2. \A p, q : Earlier(r, p, q) <=> Earlier(s, p, q) BY DEF Earlier
<1>3. Listing(r) = Listing(s) BY <1>1 DEF Listing
<1>4. ASSUME NEW p PROVE Place(r, p) = Place(s, p)
  <2>1. UpToPlace(r, p) = UpToPlace(s, p) BY <1>2, <1>3 DEF UpToPlace
  <2> QED BY <2>1 DEF Place, UpToPlace
<1> QED BY <1>3, <1>4

LEMMA SameStore ==
  ASSUME store' = store
  PROVE  Listing(pull)' = Listing(pull') /\ \A p : Place(pull, p)' = Place(pull', p)
<1>1. \A p : InWindow(pull, p)' <=> InWindow(pull', p) BY DEF InWindow
<1>2. \A p, q : Earlier(pull, p, q)' <=> Earlier(pull', p, q) BY DEF Earlier
<1>3. Listing(pull)' = Listing(pull') BY <1>1 DEF Listing
<1>4. ASSUME NEW p PROVE Place(pull, p)' = Place(pull', p)
  <2>1. UpToPlace(pull, p)' = UpToPlace(pull', p) BY <1>2, <1>3 DEF UpToPlace
  <2>2. Place(pull, p)' = Cardinality(UpToPlace(pull, p)') BY DEF Place, UpToPlace
  <2>3. Place(pull', p) = Cardinality(UpToPlace(pull', p)) BY DEF Place, UpToPlace
  <2> QED BY <2>1, <2>2, <2>3
<1> QED BY <1>3, <1>4

(* Of a run that goes on asking for the same, the same is to come. *)
LEMMA SameAnswer ==
  ASSUME store' = store, pull'.since = pull.since, pull'.start = pull.start
  PROVE  Listing(pull)' = Listing(pull) /\ \A p : Place(pull, p)' = Place(pull, p)
  BY SameStore, SameWindow

LEMMA PullStart == PullInit => PullInv
<1> SUFFICES ASSUME PullInit PROVE PullInv OBVIOUS
<1>1. ~Pulling /\ pull.phase # "import" BY IdlePull DEF PullInit, Pulling
<1>2. RowsOfStore BY DEF PullInit, RowsOfStore
<1>3. HooksTrue /\ RunFits /\ ItemsFit /\ LastPage /\ Covers /\ Names
  BY <1>1 DEF PullInit, HooksTrue, RunFits, ItemsFit, LastPage, Covers, Names
<1>4. PullSound
  <2>1. \A p \in StoreProducts : store[p].at = 1 /\ erp[p].status = "absent" BY DEF PullInit
  <2>2. checkpoint = 0 BY DEF PullInit
  <2> QED BY <2>1, <2>2 DEF PullSound, PulledUpToCheckpoint, ArchivedIfGoneOrHidden
<1> QED BY <1>2, <1>3, <1>4 DEF PullInv

(* A step that leaves the store and the run alone. *)
LEMMA RunStays ==
  ASSUME PullInv, UNCHANGED <<store, pull>>
  PROVE  \A p : (Beyond(p) <=> Beyond(p)') /\ (OnPage(p) <=> OnPage(p)')
<1>1. Listing(pull)' = Listing(pull) /\ \A p : Place(pull, p)' = Place(pull, p) BY SameAnswer
<1>2. ReadSoFar(pull)' = ReadSoFar(pull) BY DEF ReadSoFar, UpTo
<1> QED BY <1>1, <1>2 DEF Beyond, OnPage

LEMMA TickClockStep ==
  ASSUME PullInv, TickClock
  PROVE  PullInv'
<1>1. /\ clock' = clock + 1
      /\ UNCHANGED <<store, hooks, inbox, erp, checkpoint, pull, exposed, late>>
  BY DEF TickClock
<1>2. \A p : (Beyond(p) <=> Beyond(p)') /\ (OnPage(p) <=> OnPage(p)') BY <1>1, RunStays
<1>3. RowsOfStore'
  <2>1. clock' \in Nat /\ checkpoint \in 0..clock' /\ \A p \in StoreProducts : store[p].at \in 0..clock'
    BY <1>1 DEF PullInv, RowsOfStore
  <2> QED BY <1>1, <2>1 DEF PullInv, RowsOfStore
<1>4. RunFits'
  <2> SUFFICES ASSUME Pulling' PROVE (IsPull(pull) /\ pull.phase \in {"fetch", "import", "end"}
        /\ pull.kind \in PullKinds /\ pull.page \in Nat \ {0} /\ pull.start \in checkpoint..clock
        /\ pull.since \in {0, checkpoint} /\ (pull.kind # "all" => pull.since = 0))'
    BY DEF RunFits
  <2>1. Pulling BY <1>1 DEF Pulling
  <2>2. pull.start \in checkpoint..clock /\ clock \in Nat /\ checkpoint \in Nat
    BY <2>1 DEF PullInv, RunFits, RowsOfStore
  <2>3. pull.start \in checkpoint..clock' BY <1>1, <2>2
  <2> QED BY <1>1, <2>1, <2>3 DEF PullInv, RunFits, IsPull
<1>5. HooksTrue' /\ ItemsFit' BY <1>1 DEF PullInv, HooksTrue, ItemsFit, Pulling
<1>6. LastPage'
  <2>1. Listing(pull)' = Listing(pull) /\ (\A p : Place(pull, p)' = Place(pull, p))
        /\ ReadSoFar(pull)' = ReadSoFar(pull)
    BY <1>1, SameAnswer DEF ReadSoFar, UpTo
  <2> QED BY <1>1, <2>1 DEF PullInv, LastPage
<1>7. Covers' /\ Names' BY <1>1, <1>2 DEF PullInv, Covers, Names, Pulling, AsItIs
<1>8. PullSound' BY <1>1 DEF PullInv, PullSound, PulledUpToCheckpoint, ArchivedIfGoneOrHidden
<1> QED BY <1>3, <1>4, <1>5, <1>6, <1>7, <1>8 DEF PullInv

LEMMA StartPullStep ==
  ASSUME PullInv, StartPull
  PROVE  PullInv'
<1>1. PICK sort \in PullKinds, from \in {0, checkpoint} :
        /\ pull = NoPull /\ (sort # "all" => from = 0)
        /\ pull' = [phase |-> "fetch", kind |-> sort, page |-> 1, start |-> clock, items |-> {},
                    since |-> from, ids |-> {}, last |-> FALSE, hidden |-> {}]
        /\ UNCHANGED <<clock, store, hooks, inbox, erp, checkpoint, exposed, late>>
  BY DEF StartPull
<1>2. RowsOfStore' /\ HooksTrue' BY <1>1 DEF PullInv, RowsOfStore, HooksTrue
<1>3. /\ IsPull(pull') /\ pull'.phase = "fetch" /\ pull'.kind = sort /\ pull'.page = 1
      /\ pull'.start = clock /\ pull'.items = {} /\ pull'.since = from /\ pull'.ids = {}
      /\ pull'.hidden = {}
  BY <1>1 DEF IsPull
<1>4. RunFits' /\ ItemsFit' /\ LastPage'
  <2>1. clock \in checkpoint..clock BY DEF PullInv, RowsOfStore
  <2>2. pull'.phase # "import" BY <1>3
  <2>3. ItemsFit' /\ LastPage' BY <1>3, <2>2 DEF ItemsFit, LastPage
  <2> QED BY <1>1, <1>3, <2>1, <2>3 DEF RunFits
<1>5. ASSUME NEW p \in StoreProducts, store[p].there,
             from = 0 \/ (store[p].at < clock /\ ~(store[p].at < checkpoint))
      PROVE  Beyond(p)'
  <2>1. store[p].at \in Nat /\ clock \in Nat /\ checkpoint \in Nat BY DEF PullInv, RowsOfStore
  <2>2. InWindow(pull', p)
    <3>1. CASE from = 0 BY <1>3, <3>1 DEF InWindow
    <3>2. CASE from # 0
      <4>1. from = checkpoint /\ store[p].at > After(from) /\ store[p].at < clock
        BY <1>5, <2>1, <3>2 DEF After
      <4> QED BY <1>3, <4>1 DEF InWindow
    <3> QED BY <3>1, <3>2
  <2>3. p \in Listing(pull') BY <1>5, <2>2 DEF Listing
  <2>4. Place(pull', p) \in 1..Cardinality(Listing(pull')) BY <2>3, PlaceCounts
  <2>5. Cardinality(Listing(pull')) \in Nat BY ListingFinite
  <2>6. ReadSoFar(pull') = 0
    <3>1. ReadSoFar(pull') = UpTo(1 - 1) BY <1>3 DEF ReadSoFar
    <3>2. 1 - 1 = 0 OBVIOUS
    <3>3. UpTo(0) = 0
      <4>1. PageSize \in Nat BY PullAssumption
      <4> QED BY <4>1 DEF UpTo
    <3> QED BY <3>1, <3>2, <3>3
  <2>7. Place(pull', p) > ReadSoFar(pull') BY <2>4, <2>5, <2>6
  <2>8. ReadSoFar(pull)' = ReadSoFar(pull') BY DEF ReadSoFar, UpTo
  <2>9. Listing(pull)' = Listing(pull') /\ Place(pull, p)' = Place(pull', p) BY <1>1, SameStore
  <2> QED BY <1>3, <2>3, <2>7, <2>8, <2>9 DEF Beyond
<1>6. Covers'
  <2> SUFFICES ASSUME Pulling', NEW p \in StoreProducts, (store[p].there)',
                      (store[p].at < pull.start)'
               PROVE  AsItIs(p)' \/ Beyond(p)'
    BY DEF Covers
  <2>1. store[p].there /\ store[p].at < clock BY <1>1, <1>3
  <2>2. CASE from = 0 \/ ~(store[p].at < checkpoint) BY <1>5, <2>1, <2>2
  <2>3. CASE store[p].at < checkpoint
    BY <1>1, <2>1, <2>3 DEF PullInv, PullSound, PulledUpToCheckpoint, AsItIs
  <2> QED BY <2>2, <2>3
<1>7. Names'
  <2> SUFFICES ASSUME (pull.kind = "reconcile")', NEW p \in StoreProducts, (store[p].there)'
               PROVE  Beyond(p)'
    BY DEF Names
  <2>1. from = 0 /\ store[p].there BY <1>1, <1>3
  <2> QED BY <1>5, <2>1
<1>8. PullSound' BY <1>1 DEF PullInv, PullSound, PulledUpToCheckpoint, ArchivedIfGoneOrHidden
<1> QED BY <1>2, <1>4, <1>6, <1>7, <1>8 DEF PullInv

--------------------
(* What was to come is on the page that is read now, or is to come still. *)
LEMMA PageRead ==
  ASSUME PullInv, pull.phase = "fetch", NEW p, Beyond(p)
  PROVE  /\ p \in Listing(pull) /\ Place(pull, p) \in Nat
         /\ p \in PageOf(pull) \/ Place(pull, p) > UpTo(pull.page)
<1>1. p \in Listing(pull) /\ Place(pull, p) > UpTo(pull.page - 1) BY DEF Beyond, ReadSoFar
<1>2. Place(pull, p) \in 1..Cardinality(Listing(pull)) /\ Cardinality(Listing(pull)) \in Nat
  BY <1>1, PlaceCounts, ListingFinite
<1>3. pull.page - 1 \in Nat /\ pull.page \in Nat BY DEF PullInv, RunFits, Pulling
<1>4. UpTo(pull.page - 1) \in Nat /\ UpTo(pull.page) \in Nat BY <1>3, PagesAdd
<1>5. Place(pull, p) \in UpTo(pull.page - 1) + 1 .. UpTo(pull.page)
      \/ Place(pull, p) > UpTo(pull.page)
  BY <1>1, <1>2, <1>4
<1> QED BY <1>1, <1>2, <1>5 DEF PageOf

LEMMA FetchPageStep ==
  ASSUME PullInv, FetchPage
  PROVE  PullInv'
<1> DEFINE page == PageOf(pull)
           short == Cardinality(page) < PageSize
           read == {[product |-> p, text |-> store[p].text] : p \in page}
<1>1. /\ pull.phase = "fetch" /\ pull.kind # "reconcile"
      /\ pull' = [pull EXCEPT !.phase = "import", !.last = short, !.items = read]
      /\ UNCHANGED <<clock, store, hooks, inbox, erp, checkpoint, exposed, late>>
  BY DEF FetchPage
<1>2. /\ Pulling /\ IsPull(pull) /\ pull.kind \in PullKinds /\ pull.page \in Nat \ {0}
      /\ pull.start \in checkpoint..clock /\ pull.since \in {0, checkpoint}
      /\ (pull.kind # "all" => pull.since = 0) /\ Dated
  BY <1>1, RowsDated DEF PullInv, RunFits, Pulling
<1>3. page \subseteq StoreProducts /\ page \subseteq Listing(pull) BY ListingFinite DEF PageOf
<1>4. \A p \in Listing(pull) : short => Place(pull, p) <= UpTo(pull.page) BY <1>2, ShortIsLast
<1> HIDE DEF page, short
<1>5. pull' = [phase |-> "import", kind |-> pull.kind, page |-> pull.page, start |-> pull.start,
               items |-> read, since |-> pull.since, ids |-> pull.ids, last |-> short,
               hidden |-> pull.hidden]
  BY <1>1, <1>2 DEF IsPull
<1>6. /\ IsPull(pull') /\ pull'.phase = "import" /\ pull'.kind = pull.kind
      /\ pull'.page = pull.page /\ pull'.start = pull.start /\ pull'.items = read
      /\ pull'.since = pull.since /\ pull'.hidden = pull.hidden /\ (pull'.last => short)
  BY <1>5 DEF IsPull
<1>7. Listing(pull)' = Listing(pull) /\ \A p : Place(pull, p)' = Place(pull, p)
  BY <1>1, <1>6, SameAnswer
<1>8. ReadSoFar(pull)' = UpTo(pull.page) BY <1>6 DEF ReadSoFar, UpTo
<1>9. RowsOfStore' /\ HooksTrue' /\ PullSound'
  BY <1>1 DEF PullInv, RowsOfStore, HooksTrue, PullSound, PulledUpToCheckpoint,
              ArchivedIfGoneOrHidden
<1>10. RunFits' BY <1>1, <1>2, <1>6 DEF RunFits
<1>11. ItemsFit'
  <2>1. \A i \in read : i.product \in page /\ i.text = store[i.product].text OBVIOUS
  <2> QED BY <1>1, <1>3, <1>6, <2>1 DEF ItemsFit
<1>12. LastPage' BY <1>4, <1>6, <1>7, <1>8 DEF LastPage
<1>13. Names' BY <1>1, <1>6 DEF Names
<1>14. Covers'
  <2> SUFFICES ASSUME (pull.kind = "all")', NEW p \in StoreProducts, (store[p].there)',
                      (store[p].at < pull.start)'
               PROVE  AsItIs(p)' \/ (p \in pull.hidden)' \/ Beyond(p)' \/ OnPage(p)'
    BY DEF Covers
  <2>1. pull.kind = "all" /\ store[p].there /\ store[p].at < pull.start BY <1>1, <1>6
  <2>2. AsItIs(p) \/ p \in pull.hidden \/ Beyond(p) \/ OnPage(p) BY <1>2, <2>1 DEF PullInv, Covers
  <2>3. ~OnPage(p) BY <1>1 DEF OnPage
  <2>4. AsItIs(p) => AsItIs(p)' BY <1>1 DEF AsItIs
  <2>5. CASE Beyond(p)
    <3>1. p \in Listing(pull) /\ (p \in page \/ Place(pull, p) > UpTo(pull.page))
      BY <1>1, <2>5, PageRead DEF page
    <3>2. CASE p \in page
      <4> DEFINE item == [product |-> p, text |-> store[p].text]
      <4>1. item \in read /\ item.product = p /\ item.text = store[p].text BY <3>2
      <4> HIDE DEF item, read
      <4>2. item \in pull'.items /\ item.text = store'[p].text BY <1>1, <1>6, <4>1
      <4>3. OnPage(p)' BY <1>6, <4>1, <4>2 DEF OnPage
      <4> QED BY <4>3
    <3>3. CASE Place(pull, p) > UpTo(pull.page) BY <1>6, <1>7, <1>8, <3>1, <3>3 DEF Beyond
    <3> QED BY <3>1, <3>2, <3>3
  <2> QED BY <1>6, <2>2, <2>3, <2>4, <2>5
<1> QED BY <1>9, <1>10, <1>11, <1>12, <1>13, <1>14 DEF PullInv

\* The run, once a page was dealt with.
LEMMA TurnedIs ==
  ASSUME NEW run, IsPull(run)
  PROVE  /\ IsPull(Turned(run)) /\ Turned(run).kind = run.kind /\ Turned(run).page = run.page + 1
         /\ Turned(run).start = run.start /\ Turned(run).since = run.since
         /\ Turned(run).ids = run.ids /\ Turned(run).hidden = run.hidden /\ Turned(run).items = {}
         /\ Turned(run).phase \in {"end", "fetch"} /\ (~run.last => Turned(run).phase = "fetch")
<1> DEFINE stage == IF run.last THEN "end" ELSE "fetch"
<1>1. Turned(run) = [run EXCEPT !.phase = stage, !.page = @ + 1, !.items = {}] BY DEF Turned
<1>2. stage \in {"end", "fetch"} /\ (~run.last => stage = "fetch") OBVIOUS
<1> HIDE DEF stage
<1>3. Turned(run) = [phase |-> stage, kind |-> run.kind, page |-> run.page + 1,
                     start |-> run.start, items |-> {}, since |-> run.since, ids |-> run.ids,
                     last |-> run.last, hidden |-> run.hidden]
  BY <1>1 DEF IsPull
<1> QED BY <1>2, <1>3 DEF IsPull

LEMMA ImportPageStep ==
  ASSUME PullInv, ImportPage
  PROVE  PullInv'
<1> DEFINE items == {i \in pull.items : Imported(pull, i)}
           ContentOf(p) == (CHOOSE i \in items : i.product = p).text
<1>1. /\ pull.phase = "import"
      /\ erp' = [p \in StoreProducts |-> IF \E i \in items : i.product = p
                                         THEN [text |-> ContentOf(p), status |-> "active"]
                                         ELSE erp[p]]
      /\ pull' = Turned(pull)
      /\ exposed' = exposed \ Arrived(items) /\ late' = late \ Arrived(items)
      /\ UNCHANGED <<clock, store, hooks, inbox, checkpoint>>
  BY DEF ImportPage
<1>2. /\ Pulling /\ IsPull(pull) /\ pull.kind \in PullKinds /\ pull.page \in Nat \ {0}
      /\ pull.start \in checkpoint..clock /\ pull.since \in {0, checkpoint}
      /\ (pull.kind # "all" => pull.since = 0)
  BY <1>1 DEF PullInv, RunFits, Pulling
<1>3. /\ IsPull(pull') /\ pull'.kind = pull.kind /\ pull'.page = pull.page + 1
      /\ pull'.start = pull.start /\ pull'.since = pull.since /\ pull'.ids = pull.ids
      /\ pull'.hidden = pull.hidden /\ pull'.items = {} /\ pull'.phase \in {"end", "fetch"}
      /\ (~pull.last => pull'.phase = "fetch") /\ pull'.phase # "import"
  BY <1>1, <1>2, TurnedIs
\* what is imported of a product is on the page
<1>4. ASSUME NEW i \in items
      PROVE  /\ i.product \in StoreProducts /\ erp'[i.product].text = i.text
             /\ erp'[i.product].status = "active"
             /\ i.text = store[i.product].text \/ store[i.product].at >= pull.start
  <2>1. i.product \in StoreProducts
        /\ (i.text = store[i.product].text \/ store[i.product].at >= pull.start)
    BY <1>2 DEF PullInv, ItemsFit
  <2>2. erp'[i.product] = [text |-> ContentOf(i.product), status |-> "active"] BY <1>1, <2>1
  <2>3. \A j \in items : j.product = i.product => j.text = i.text BY <1>2 DEF PullInv, ItemsFit
  <2>4. ContentOf(i.product) = i.text BY <2>3
  <2> HIDE DEF ContentOf, items
  <2> QED BY <2>1, <2>2, <2>4
<1>5. ASSUME NEW p \in StoreProducts, ~\E i \in items : i.product = p
      PROVE  erp'[p] = erp[p] /\ p \notin Arrived(items)
  BY <1>1, <1>5 DEF Arrived
<1>6. \A p \in Arrived(items) : \E i \in items : i.product = p /\ i.text = store[p].text
  BY DEF Arrived
<1> HIDE DEF ContentOf, items
<1>7. ASSUME NEW p \in StoreProducts, store[p].at < pull.start, AsItIs(p)
      PROVE  AsItIs(p)'
  <2>1. CASE \E i \in items : i.product = p
    <3>1. PICK i \in items : i.product = p BY <2>1
    <3>2. i.text = store[p].text \/ store[p].at >= pull.start BY <1>4, <3>1
    <3>3. store[p].at \in Int /\ pull.start \in Int BY <1>2 DEF PullInv, RowsOfStore
    <3>4. i.text = store[p].text BY <1>7, <3>2, <3>3
    <3> QED BY <1>1, <1>4, <3>1, <3>4 DEF AsItIs
  <2>2. CASE ~\E i \in items : i.product = p BY <1>1, <1>5, <1>7, <2>2 DEF AsItIs
  <2> QED BY <2>1, <2>2
<1>8. RowsOfStore'
  <2>1. \A p \in StoreProducts : erp'[p] = [text |-> erp'[p].text, status |-> erp'[p].status]
    <3> SUFFICES ASSUME NEW p \in StoreProducts
                 PROVE  erp'[p] = [text |-> erp'[p].text, status |-> erp'[p].status]
      OBVIOUS
    <3>1. erp'[p] = [text |-> ContentOf(p), status |-> "active"] \/ erp'[p] = erp[p] BY <1>1
    <3> QED BY <3>1 DEF PullInv, RowsOfStore
  <2>2. erp' = [p \in StoreProducts |-> erp'[p]] BY <1>1
  <2> QED BY <1>1, <2>1, <2>2 DEF PullInv, RowsOfStore
<1>9. RunFits' /\ ItemsFit' /\ LastPage' /\ HooksTrue'
  <2>1. pull'.page \in Nat \ {0} BY <1>2, <1>3
  <2>2. RunFits' BY <1>1, <1>2, <1>3, <2>1 DEF RunFits
  <2>3. ItemsFit' /\ LastPage' /\ HooksTrue'
    BY <1>1, <1>3 DEF ItemsFit, LastPage, PullInv, HooksTrue
  <2> QED BY <2>2, <2>3
\* what was beyond the page still is
<1>10. ASSUME NEW p, Beyond(p) PROVE Beyond(p)'
  <2>1. p \in Listing(pull) /\ Place(pull, p) > UpTo(pull.page) BY <1>1, <1>10 DEF Beyond, ReadSoFar
  <2>2. ~pull.last
    <3> SUFFICES ASSUME pull.last PROVE FALSE OBVIOUS
    <3>1. Place(pull, p) <= UpTo(pull.page) BY <1>1, <2>1 DEF PullInv, LastPage, ReadSoFar
    <3>2. Place(pull, p) \in 1..Cardinality(Listing(pull)) /\ Cardinality(Listing(pull)) \in Nat
          /\ UpTo(pull.page) \in Nat
      BY <1>2, <2>1, PlaceCounts, ListingFinite, PagesAdd
    <3> QED BY <2>1, <3>1, <3>2
  <2>3. pull'.phase = "fetch" /\ pull'.page - 1 = pull.page BY <1>2, <1>3, <2>2
  <2>4. ReadSoFar(pull)' = UpTo(pull.page) BY <2>3 DEF ReadSoFar, UpTo
  <2>5. Listing(pull)' = Listing(pull) /\ Place(pull, p)' = Place(pull, p) BY <1>1, <1>3, SameAnswer
  <2> QED BY <2>1, <2>3, <2>4, <2>5 DEF Beyond
<1>11. Covers'
  <2> SUFFICES ASSUME (pull.kind = "all")', NEW p \in StoreProducts, (store[p].there)',
                      (store[p].at < pull.start)'
               PROVE  AsItIs(p)' \/ (p \in pull.hidden)' \/ Beyond(p)' \/ OnPage(p)'
    BY DEF Covers
  <2>1. pull.kind = "all" /\ store[p].there /\ store[p].at < pull.start BY <1>1, <1>3
  <2>2. AsItIs(p) \/ p \in pull.hidden \/ Beyond(p) \/ OnPage(p) BY <1>2, <2>1 DEF PullInv, Covers
  <2>3. CASE OnPage(p)
    <3>1. PICK i \in pull.items : i.product = p /\ i.text = store[p].text BY <2>3 DEF OnPage
    <3>2. i \in items BY <2>1, <3>1 DEF items, Imported
    <3> QED BY <1>1, <1>4, <3>1, <3>2 DEF AsItIs
  <2> QED BY <1>3, <1>7, <1>10, <2>1, <2>2, <2>3
<1>12. Names' BY <1>1, <1>2, <1>3, <1>10 DEF PullInv, Names
<1>13. PullSound'
  <2>1. PulledUpToCheckpoint'
    <3> SUFFICES ASSUME NEW p \in StoreProducts, store[p].there, store[p].at < checkpoint
                 PROVE  AsItIs(p)'
      BY <1>1 DEF PulledUpToCheckpoint, AsItIs
    <3>1. AsItIs(p) BY DEF PullInv, PullSound, PulledUpToCheckpoint, AsItIs
    <3>2. store[p].at < pull.start BY <1>2 DEF PullInv, RowsOfStore
    <3> QED BY <1>7, <3>1, <3>2
  <2>2. ArchivedIfGoneOrHidden'
    <3> SUFFICES ASSUME NEW p \in StoreProducts, erp'[p].status = "archived"
                 PROVE  ~store[p].there \/ p \in exposed'
      BY <1>1 DEF ArchivedIfGoneOrHidden
    <3>1. ~\E i \in items : i.product = p BY <1>4
    <3>2. erp[p].status = "archived" /\ p \notin Arrived(items) BY <1>5, <3>1
    <3> QED BY <1>1, <3>2 DEF PullInv, PullSound, ArchivedIfGoneOrHidden
  <2> QED BY <2>1, <2>2 DEF PullSound
<1> QED BY <1>8, <1>9, <1>11, <1>12, <1>13 DEF PullInv

(* A reconciliation remembers a page. *)
LEMMA NoteIdsStep ==
  ASSUME PullInv, NoteIds
  PROVE  PullInv'
<1> DEFINE page == PageOf(pull)
           short == Cardinality(page) < PageSize
           run == [pull EXCEPT !.last = short]
<1>1. /\ pull.phase = "fetch" /\ pull.kind = "reconcile"
      /\ pull' = [Turned(run) EXCEPT !.ids = @ \cup page]
      /\ UNCHANGED <<clock, store, hooks, inbox, erp, checkpoint, exposed, late>>
  BY DEF NoteIds
<1>2. /\ Pulling /\ IsPull(pull) /\ pull.kind \in PullKinds /\ pull.page \in Nat \ {0}
      /\ pull.start \in checkpoint..clock /\ pull.since \in {0, checkpoint}
      /\ (pull.kind # "all" => pull.since = 0) /\ Dated
  BY <1>1, RowsDated DEF PullInv, RunFits, Pulling
<1>3. \A p \in Listing(pull) : short => Place(pull, p) <= UpTo(pull.page) BY <1>2, ShortIsLast
<1> HIDE DEF page, short
<1>4. /\ IsPull(run) /\ run.kind = pull.kind /\ run.page = pull.page /\ run.start = pull.start
      /\ run.since = pull.since /\ run.ids = pull.ids /\ run.hidden = pull.hidden
      /\ (run.last => short)
  <2>1. run = [phase |-> pull.phase, kind |-> pull.kind, page |-> pull.page, start |-> pull.start,
               items |-> pull.items, since |-> pull.since, ids |-> pull.ids, last |-> short,
               hidden |-> pull.hidden]
    BY <1>2 DEF IsPull
  <2> HIDE DEF run
  <2> QED BY <2>1 DEF IsPull
<1> HIDE DEF run
<1>5. /\ IsPull(pull') /\ pull'.kind = pull.kind /\ pull'.page = pull.page + 1
      /\ pull'.start = pull.start /\ pull'.since = pull.since /\ pull'.ids = pull.ids \cup page
      /\ pull'.hidden = pull.hidden /\ pull'.items = {} /\ pull'.phase \in {"end", "fetch"}
      /\ (~short => pull'.phase = "fetch") /\ pull'.phase # "import"
  <2> DEFINE t == Turned(run)
  <2>1. /\ IsPull(t) /\ t.kind = pull.kind /\ t.page = pull.page + 1
        /\ t.start = pull.start /\ t.since = pull.since /\ t.ids = pull.ids
        /\ t.hidden = pull.hidden /\ t.items = {} /\ t.phase \in {"end", "fetch"}
        /\ (~short => t.phase = "fetch")
    BY <1>4, TurnedIs
  <2>2. pull' = [t EXCEPT !.ids = @ \cup page] BY <1>1
  <2> HIDE DEF t
  <2>3. pull' = [phase |-> t.phase, kind |-> t.kind, page |-> t.page, start |-> t.start,
                 items |-> t.items, since |-> t.since, ids |-> t.ids \cup page,
                 last |-> t.last, hidden |-> t.hidden]
    BY <2>1, <2>2 DEF IsPull
  <2> QED BY <2>1, <2>3 DEF IsPull
<1>6. RowsOfStore' /\ HooksTrue' /\ PullSound'
  BY <1>1 DEF PullInv, RowsOfStore, HooksTrue, PullSound, PulledUpToCheckpoint,
              ArchivedIfGoneOrHidden
<1>7. RunFits' /\ ItemsFit' /\ LastPage' /\ Covers'
  <2>1. pull'.page \in Nat \ {0} BY <1>2, <1>5
  <2>2. RunFits' BY <1>1, <1>2, <1>5, <2>1 DEF RunFits
  <2>3. ItemsFit' /\ LastPage' /\ Covers' BY <1>1, <1>5 DEF ItemsFit, LastPage, Covers
  <2> QED BY <2>2, <2>3
<1>8. Names'
  <2> SUFFICES ASSUME NEW p \in StoreProducts, (store[p].there)'
               PROVE  (p \in pull.ids)' \/ (p \in pull.hidden)' \/ Beyond(p)'
    BY DEF Names
  <2>1. store[p].there BY <1>1
  <2>2. p \in pull.ids \/ p \in pull.hidden \/ Beyond(p) BY <1>1, <1>2, <2>1 DEF PullInv, Names
  <2>3. CASE Beyond(p) /\ p \notin page
    <3>1. p \in Listing(pull) /\ Place(pull, p) \in Nat /\ Place(pull, p) > UpTo(pull.page)
      BY <1>1, <2>3, PageRead DEF page
    <3>2. UpTo(pull.page) \in Nat BY <1>2, PagesAdd
    <3>3. ~short BY <1>3, <3>1, <3>2
    <3>4. pull'.phase = "fetch" /\ pull'.page - 1 = pull.page BY <1>2, <1>5, <3>3
    <3>5. ReadSoFar(pull)' = UpTo(pull.page) BY <3>4 DEF ReadSoFar, UpTo
    <3>6. Listing(pull)' = Listing(pull) /\ Place(pull, p)' = Place(pull, p)
      BY <1>1, <1>5, SameAnswer
    <3> QED BY <3>1, <3>4, <3>5, <3>6 DEF Beyond
  <2> QED BY <1>5, <2>2, <2>3
<1> QED BY <1>6, <1>7, <1>8 DEF PullInv

--------------------
LEMMA PullEnds ==
  ASSUME pull' = NoPull
  PROVE  RunFits' /\ ItemsFit' /\ LastPage' /\ Covers' /\ Names'
<1>1. ~Pulling' /\ pull'.phase = "idle" BY IdlePull DEF Pulling
<1> QED BY <1>1 DEF RunFits, ItemsFit, LastPage, Covers, Names

LEMMA FinishPullStep ==
  ASSUME PullInv, FinishPull
  PROVE  PullInv'
<1>1. /\ pull.phase = "end" /\ pull.kind # "reconcile" /\ pull' = NoPull
      /\ checkpoint' = (IF KeepsCheckpoint(pull) THEN StampOf(pull) ELSE checkpoint)
      /\ exposed' = (IF KeepsCheckpoint(pull) THEN exposed \cup pull.hidden ELSE exposed)
      /\ UNCHANGED <<clock, store, hooks, inbox, erp, late>>
  BY DEF FinishPull
<1>2. /\ Pulling /\ pull.kind \in PullKinds /\ pull.start \in checkpoint..clock
      /\ clock \in Nat /\ checkpoint \in Nat
  BY <1>1 DEF PullInv, RunFits, Pulling, RowsOfStore
<1>3. CASE KeepsCheckpoint(pull)
  <2>1. pull.kind = "all" /\ checkpoint' = pull.start /\ exposed' = exposed \cup pull.hidden
    BY <1>1, <1>2, <1>3 DEF KeepsCheckpoint, StampOf, PullKinds
  <2>2. checkpoint' \in 0..clock BY <1>2, <2>1
  <2>3. RowsOfStore' /\ HooksTrue' BY <1>1, <2>2 DEF PullInv, RowsOfStore, HooksTrue
  <2>4. PulledUpToCheckpoint'
    <3> SUFFICES ASSUME NEW p \in StoreProducts, store[p].there, store[p].at < pull.start
                 PROVE  erp[p].text = store[p].text \/ p \in exposed' \cup late
      BY <1>1, <2>1 DEF PulledUpToCheckpoint
    <3>1. AsItIs(p) \/ p \in pull.hidden \/ Beyond(p) \/ OnPage(p) BY <1>2, <2>1 DEF PullInv, Covers
    <3>2. ~Beyond(p) /\ ~OnPage(p) BY <1>1 DEF Beyond, OnPage
    <3> QED BY <2>1, <3>1, <3>2 DEF AsItIs
  <2>5. ArchivedIfGoneOrHidden' BY <1>1, <2>1 DEF PullInv, PullSound, ArchivedIfGoneOrHidden
  <2> QED BY <1>1, <2>3, <2>4, <2>5, PullEnds DEF PullInv, PullSound
<1>4. CASE ~KeepsCheckpoint(pull)
  <2>1. UNCHANGED <<clock, store, hooks, erp, checkpoint, exposed, late>> BY <1>1, <1>4
  <2>2. RowsOfStore' /\ HooksTrue' /\ PullSound'
    BY <2>1 DEF PullInv, RowsOfStore, HooksTrue, PullSound, PulledUpToCheckpoint,
                ArchivedIfGoneOrHidden
  <2> QED BY <1>1, <2>2, PullEnds DEF PullInv
<1> QED BY <1>3, <1>4

LEMMA FinishReconcileStep ==
  ASSUME PullInv, FinishReconcile
  PROVE  PullInv'
<1>1. /\ pull.phase = "end" /\ pull.kind = "reconcile" /\ pull' = NoPull
      /\ erp' = [p \in StoreProducts |-> IF p \in Missing(pull)
                                         THEN [erp[p] EXCEPT !.status = "archived"] ELSE erp[p]]
      /\ exposed' = exposed \cup pull.hidden
      /\ UNCHANGED <<clock, store, hooks, inbox, checkpoint, late>>
  BY DEF FinishReconcile
<1>2. \A p \in StoreProducts :
        \/ erp'[p] = erp[p] /\ p \notin Missing(pull)
        \/ erp'[p] = [text |-> erp[p].text, status |-> "archived"] /\ p \in Missing(pull)
  <2> SUFFICES ASSUME NEW p \in StoreProducts, p \in Missing(pull)
               PROVE  erp'[p] = [text |-> erp[p].text, status |-> "archived"]
    BY <1>1
  <2>1. erp[p] = [text |-> erp[p].text, status |-> erp[p].status] BY DEF PullInv, RowsOfStore
  <2>2. erp'[p] = [erp[p] EXCEPT !.status = "archived"] BY <1>1
  <2> QED BY <2>1, <2>2
<1>3. \A p \in StoreProducts : /\ erp'[p] = [text |-> erp'[p].text, status |-> erp'[p].status]
                               /\ erp'[p].text = erp[p].text
  <2> SUFFICES ASSUME NEW p \in StoreProducts
               PROVE  /\ erp'[p] = [text |-> erp'[p].text, status |-> erp'[p].status]
                      /\ erp'[p].text = erp[p].text
    OBVIOUS
  <2>1. CASE erp'[p] = erp[p]
    <3>1. erp[p] = [text |-> erp[p].text, status |-> erp[p].status] BY DEF PullInv, RowsOfStore
    <3> QED BY <2>1, <3>1
  <2>2. CASE erp'[p] = [text |-> erp[p].text, status |-> "archived"] BY <2>2
  <2> QED BY <1>2, <2>1, <2>2
<1>4. RowsOfStore' /\ HooksTrue'
  <2>1. erp' = [p \in StoreProducts |-> erp'[p]] BY <1>1
  <2> QED BY <1>1, <1>3, <2>1 DEF PullInv, RowsOfStore, HooksTrue
<1>5. PulledUpToCheckpoint' BY <1>1, <1>3 DEF PullInv, PullSound, PulledUpToCheckpoint
<1>6. ArchivedIfGoneOrHidden'
  <2> SUFFICES ASSUME NEW p \in StoreProducts, erp'[p].status = "archived", store[p].there
               PROVE  p \in exposed'
    BY <1>1 DEF ArchivedIfGoneOrHidden
  <2>1. CASE p \in Missing(pull)
    <3>1. p \notin pull.ids BY <2>1 DEF Missing
    <3>2. p \in pull.ids \/ p \in pull.hidden \/ Beyond(p) BY <1>1 DEF PullInv, Names, Pulling
    <3>3. ~Beyond(p) BY <1>1 DEF Beyond
    <3> QED BY <1>1, <3>1, <3>2, <3>3
  <2>2. CASE p \notin Missing(pull)
    <3>1. erp[p].status = "archived" BY <1>2, <2>2
    <3> QED BY <1>1, <3>1 DEF PullInv, PullSound, ArchivedIfGoneOrHidden
  <2> QED BY <2>1, <2>2
<1> QED BY <1>1, <1>4, <1>5, <1>6, PullEnds DEF PullInv, PullSound

LEMMA AbortPullStep ==
  ASSUME PullInv, AbortPull
  PROVE  PullInv'
<1>1. pull' = NoPull /\ UNCHANGED <<clock, store, hooks, inbox, erp, checkpoint, exposed, late>>
  BY DEF AbortPull
<1>2. RowsOfStore' /\ HooksTrue' /\ PullSound'
  BY <1>1 DEF PullInv, RowsOfStore, HooksTrue, PullSound, PulledUpToCheckpoint,
              ArchivedIfGoneOrHidden
<1> QED BY <1>1, <1>2, PullEnds DEF PullInv

(* A webhook brings its product up to the store, or the product is known to be late. *)
LEMMA DeliverHookStep ==
  ASSUME PullInv, DeliverHook
  PROVE  PullInv'
<1>1. PICK word \in hooks, done \in BOOLEAN :
        LET p == word.product
            newest == word.text = store[p].text
        IN /\ ~Seen(word)
           /\ erp' = CASE ~done -> erp
                       [] done /\ word.gone -> IF erp[p].status = "absent" THEN erp
                                               ELSE [erp EXCEPT ![p].status = "archived"]
                       [] OTHER -> [erp EXCEPT ![p] = [text |-> word.text, status |-> "active"]]
           /\ late' = CASE ~done \/ word.gone \/ word \in inbox -> late
                        [] done /\ ~word.gone /\ word \notin inbox /\ newest -> late \ {p}
                        [] OTHER -> late \cup {p}
           /\ exposed' = IF done /\ newest THEN exposed \ {p} ELSE exposed
           /\ UNCHANGED <<clock, store, hooks, checkpoint, pull>>
  BY Zenon DEF DeliverHook
<1> DEFINE p == word.product
           newest == word.text = store[p].text
<1>2. /\ word \notin inbox /\ p \in StoreProducts /\ (word.gone => ~store[p].there)
      /\ UNCHANGED <<clock, store, hooks, checkpoint, pull>>
      /\ exposed' = (IF done /\ newest THEN exposed \ {p} ELSE exposed)
  BY <1>1 DEF Seen, PullInv, HooksTrue
<1>3. \/ erp' = erp /\ late' = late /\ exposed' = exposed
      \/ /\ ~store[p].there /\ late' = late
         /\ erp' = erp \/ erp' = [erp EXCEPT ![p].status = "archived"]
         /\ exposed' = exposed \/ exposed' = exposed \ {p}
      \/ /\ erp' = [erp EXCEPT ![p] = [text |-> word.text, status |-> "active"]]
         /\ \/ newest /\ late' = late \ {p} /\ exposed' = exposed \ {p}
            \/ late' = late \cup {p} /\ exposed' = exposed
  <2>1. CASE ~done BY <1>1, <1>2, <2>1
  <2>2. CASE done /\ word.gone BY <1>1, <1>2, <2>2
  <2>3. CASE done /\ ~word.gone BY <1>1, <1>2, <2>3
  <2> QED BY <2>1, <2>2, <2>3
<1> HIDE DEF p, newest
<1>4. \A q : (Beyond(q) <=> Beyond(q)') /\ (OnPage(q) <=> OnPage(q)') BY <1>2, RunStays
<1>5. /\ \A q \in StoreProducts \ {p} : /\ erp'[q] = erp[q] /\ (q \in exposed' <=> q \in exposed)
                                        /\ (q \in late' <=> q \in late)
      /\ erp' = [q \in StoreProducts |-> erp'[q]]
  <2>1. erp = [q \in StoreProducts |-> erp[q]] BY DEF PullInv, RowsOfStore
  <2> QED BY <1>2, <1>3, <2>1
<1>6. \/ erp'[p] = erp[p] /\ (p \in late' <=> p \in late) /\ (p \in exposed' <=> p \in exposed)
      \/ /\ ~store[p].there
         /\ erp'[p] = erp[p] \/ erp'[p] = [text |-> erp[p].text, status |-> "archived"]
      \/ /\ erp'[p] = [text |-> word.text, status |-> "active"]
         /\ erp'[p].text = store[p].text \/ p \in late'
  <2>1. erp = [q \in StoreProducts |-> erp[q]]
        /\ erp[p] = [text |-> erp[p].text, status |-> erp[p].status]
    BY <1>2 DEF PullInv, RowsOfStore
  <2>2. CASE erp' = [erp EXCEPT ![p].status = "archived"] /\ ~store[p].there BY <1>2, <2>1, <2>2
  <2>3. CASE /\ erp' = [erp EXCEPT ![p] = [text |-> word.text, status |-> "active"]]
             /\ newest \/ p \in late'
    <3>1. erp'[p] = [text |-> word.text, status |-> "active"] BY <1>2, <2>1, <2>3
    <3> QED BY <2>3, <3>1 DEF newest, p
  <2>4. CASE erp' = erp /\ late' = late /\ exposed' = exposed BY <2>4
  <2>5. CASE erp' = erp /\ ~store[p].there BY <2>5
  <2> QED BY <1>3, <2>2, <2>3, <2>4, <2>5
<1>7. \A q \in StoreProducts : store[q].there /\ AsItIs(q) => AsItIs(q)'
  <2> SUFFICES ASSUME NEW q \in StoreProducts, store[q].there, AsItIs(q) PROVE AsItIs(q)' OBVIOUS
  <2>1. CASE q # p
    <3>1. erp'[q] = erp[q] /\ (q \in exposed' <=> q \in exposed) /\ (q \in late' <=> q \in late)
      BY <1>5, <2>1
    <3> QED BY <1>2, <3>1 DEF AsItIs
  <2>2. CASE q = p BY <1>2, <1>6, <2>2 DEF AsItIs
  <2> QED BY <2>1, <2>2
<1>8. RowsOfStore' /\ HooksTrue'
  <2>1. \A q \in StoreProducts : erp'[q] = [text |-> erp'[q].text, status |-> erp'[q].status]
    <3> SUFFICES ASSUME NEW q \in StoreProducts
                 PROVE  erp'[q] = [text |-> erp'[q].text, status |-> erp'[q].status]
      OBVIOUS
    <3>1. erp[q] = [text |-> erp[q].text, status |-> erp[q].status] BY DEF PullInv, RowsOfStore
    <3>2. CASE q # p BY <1>5, <3>1, <3>2
    <3>3. CASE q = p BY <1>6, <3>1, <3>3
    <3> QED BY <3>2, <3>3
  <2> QED BY <1>2, <1>5, <2>1 DEF PullInv, RowsOfStore, HooksTrue
<1>9. RunFits' /\ ItemsFit' BY <1>2 DEF PullInv, RunFits, ItemsFit, Pulling, IsPull
<1>10. LastPage'
  <2>1. Listing(pull)' = Listing(pull) /\ (\A q : Place(pull, q)' = Place(pull, q))
        /\ ReadSoFar(pull)' = ReadSoFar(pull)
    BY <1>2, SameAnswer DEF ReadSoFar, UpTo
  <2> QED BY <1>2, <2>1 DEF PullInv, LastPage
<1>11. Covers' BY <1>2, <1>4, <1>7 DEF PullInv, Covers, Pulling
<1>12. Names' BY <1>2, <1>4 DEF PullInv, Names, Pulling
<1>13. PullSound'
  <2>1. PulledUpToCheckpoint'
    <3> SUFFICES ASSUME NEW q \in StoreProducts, store[q].there, store[q].at < checkpoint
                 PROVE  AsItIs(q)'
      BY <1>2 DEF PulledUpToCheckpoint, AsItIs
    <3>1. AsItIs(q) BY DEF PullInv, PullSound, PulledUpToCheckpoint, AsItIs
    <3> QED BY <1>7, <3>1
  <2>2. ArchivedIfGoneOrHidden'
    <3> SUFFICES ASSUME NEW q \in StoreProducts, erp'[q].status = "archived", store[q].there
                 PROVE  q \in exposed'
      BY <1>2 DEF ArchivedIfGoneOrHidden
    <3>1. erp[q].status = "archived" => q \in exposed
      BY DEF PullInv, PullSound, ArchivedIfGoneOrHidden
    <3>2. CASE q # p BY <1>5, <3>1, <3>2
    <3>3. CASE q = p BY <1>6, <3>1, <3>3
    <3> QED BY <3>2, <3>3
  <2> QED BY <2>1, <2>2 DEF PullSound
<1> QED BY <1>8, <1>9, <1>10, <1>11, <1>12, <1>13 DEF PullInv

\* A product is changed in the store while a run pulls.
ChangedIn(p, hidden) ==
  /\ store[p].there /\ store'[p].at = clock
  /\ \A r \in StoreProducts \ {p} : store'[r] = store[r]
  /\ pull' = [pull EXCEPT !.hidden = @ \cup hidden]

LEMMA RunGoesOn ==
  ASSUME PullInv, Pulling, NEW p, NEW hidden, ChangedIn(p, hidden)
  PROVE  /\ IsPull(pull') /\ pull'.phase = pull.phase /\ pull'.kind = pull.kind
         /\ pull'.page = pull.page /\ pull'.start = pull.start /\ pull'.items = pull.items
         /\ pull'.since = pull.since /\ pull'.ids = pull.ids
         /\ pull'.hidden = pull.hidden \cup hidden /\ (pull'.last => pull.last)
<1>1. IsPull(pull) BY DEF PullInv, RunFits
<1>2. pull' = [phase |-> pull.phase, kind |-> pull.kind, page |-> pull.page,
               start |-> pull.start, items |-> pull.items, since |-> pull.since,
               ids |-> pull.ids, last |-> pull.last, hidden |-> pull.hidden \cup hidden]
  BY <1>1 DEF IsPull, ChangedIn
<1> QED BY <1>2 DEF IsPull

(* A product that leaves the store's answer makes the places of those behind it less by one. *)
LEMMA PlacesAfter ==
  ASSUME PullInv, Pulling, NEW p \in StoreProducts, NEW hidden, ChangedIn(p, hidden),
         ~store'[p].there \/ pull.since # 0
  PROVE  /\ p \notin Listing(pull)'
         /\ \A q \in StoreProducts \ {p} : q \in Listing(pull)' <=> q \in Listing(pull)
         /\ \A q \in Listing(pull) \ {p} :
              Place(pull, q)' = IF p \in UpToPlace(pull, q) THEN Place(pull, q) - 1
                                                            ELSE Place(pull, q)
<1>1. pull.start \in checkpoint..clock /\ clock \in Nat /\ checkpoint \in Nat
  BY DEF PullInv, RunFits, RowsOfStore
<1>3. pull'.since = pull.since /\ pull'.start = pull.start BY RunGoesOn
<1>4. \A r, q \in StoreProducts \ {p} : /\ r \in Listing(pull)' <=> r \in Listing(pull)
                                        /\ Earlier(pull, r, q)' <=> Earlier(pull, r, q)
  <2> SUFFICES ASSUME NEW r \in StoreProducts \ {p}, NEW q \in StoreProducts \ {p}
               PROVE  /\ r \in Listing(pull)' <=> r \in Listing(pull)
                      /\ Earlier(pull, r, q)' <=> Earlier(pull, r, q)
    OBVIOUS
  <2>1. store'[r] = store[r] /\ store'[q] = store[q] BY DEF ChangedIn
  <2>2. InWindow(pull, r)' <=> InWindow(pull, r) BY <1>3, <2>1 DEF InWindow
  <2>3. Earlier(pull, r, q)' <=> Earlier(pull, r, q) BY <1>3, <2>1 DEF Earlier
  <2> QED BY <2>1, <2>2, <2>3 DEF Listing, StoreProducts
<1>5. p \notin Listing(pull)'
  <2>1. CASE ~store'[p].there BY <2>1 DEF Listing
  <2>2. CASE pull.since # 0
    <3>1. ~(store'[p].at < pull'.start) BY <1>1, <1>3 DEF ChangedIn
    <3>2. ~InWindow(pull, p)' BY <1>3, <2>2, <3>1 DEF InWindow
    <3> QED BY <3>2 DEF Listing
  <2> QED BY <2>1, <2>2
<1>6. Listing(pull)' \subseteq StoreProducts /\ Listing(pull) \subseteq StoreProducts
  BY DEF Listing, StoreProducts
<1>7. ASSUME NEW q \in Listing(pull) \ {p}
      PROVE  Place(pull, q)' = IF p \in UpToPlace(pull, q) THEN Place(pull, q) - 1
                                                           ELSE Place(pull, q)
  <2> DEFINE before == UpToPlace(pull, q)
  <2>1. \A r : r \in UpToPlace(pull, q)' <=> r \in Listing(pull)' /\ (r = q \/ Earlier(pull, r, q)')
    BY DEF UpToPlace
  <2>2. \A r : r \in before <=> r \in Listing(pull) /\ (r = q \/ Earlier(pull, r, q))
    BY DEF UpToPlace
  <2>3. \A r \in StoreProducts \ {p} : r \in UpToPlace(pull, q)' <=> r \in before
    BY <1>4, <1>6, <2>1, <2>2
  <2>4. p \notin UpToPlace(pull, q)' BY <1>5, <2>1
  <2>5. UpToPlace(pull, q)' \subseteq StoreProducts /\ before \subseteq StoreProducts
    BY <1>6, <2>1, <2>2
  <2>6. Place(pull, q)' = Cardinality(UpToPlace(pull, q)') BY DEF Place, UpToPlace
  <2>7. IsFiniteSet(before) /\ Place(pull, q) = Cardinality(before) BY PlaceCounts
  <2> HIDE DEF before
  <2>8. UpToPlace(pull, q)' = before \ {p} BY <2>3, <2>4, <2>5
  <2>9. Place(pull, q)' = IF p \in before THEN Place(pull, q) - 1 ELSE Place(pull, q)
    BY <2>6, <2>7, <2>8, FS_RemoveElement
  <2> QED BY <2>9 DEF before
<1> QED BY <1>4, <1>5, <1>7

(* At most one product that was to come moves to a page that was read, and it is known to be *)
(* hidden. *)
LEMMA ComingStays ==
  ASSUME PullInv, Pulling, NEW p \in StoreProducts, NEW hidden, ChangedIn(p, hidden),
         ~store'[p].there \/ pull.since # 0, Hidden(p) \subseteq hidden,
         NEW q \in StoreProducts \ {p}, Beyond(q)
  PROVE  Beyond(q)' \/ q \in hidden
<1> DEFINE L == Listing(pull)
           before == UpToPlace(pull, q)
           read == ReadSoFar(pull)
<1>1. pull.page \in Nat \ {0} /\ Dated BY RowsDated DEF PullInv, RunFits
<1>3. pull'.phase = pull.phase /\ pull'.page = pull.page BY RunGoesOn
<1>7. q \in L /\ pull.phase \in {"fetch", "import"} /\ Place(pull, q) > read BY DEF Beyond
<1>8. /\ q \in Listing(pull)'
      /\ Place(pull, q)' = IF p \in before THEN Place(pull, q) - 1 ELSE Place(pull, q)
  BY <1>7, PlacesAfter
<1>10. Place(pull, q) \in 1..Cardinality(L) /\ Cardinality(L) \in Nat
  BY <1>7, PlaceCounts, ListingFinite
<1>12. read \in Nat
  <2>1. pull.page - 1 \in Nat /\ pull.page \in Nat BY <1>1
  <2> QED BY <2>1, PagesAdd DEF ReadSoFar
<1>13. ReadSoFar(pull)' = read BY <1>3 DEF ReadSoFar, UpTo
<1>14. ASSUME Place(pull, q)' > read PROVE Beyond(q)' BY <1>3, <1>7, <1>8, <1>13, <1>14 DEF Beyond
<1>15. CASE p \notin before
  <2>1. Place(pull, q)' = Place(pull, q) BY <1>8, <1>15
  <2> QED BY <1>7, <1>14, <2>1
<1>16. CASE p \in before
  <2>1. p \in L /\ Earlier(pull, p, q) BY <1>16 DEF UpToPlace
  <2>2. Place(pull, p) < Place(pull, q) /\ Place(pull, p) \in 1..Cardinality(L)
    BY <1>1, <1>7, <2>1, PlaceGrows, PlaceCounts
  <2>3. Place(pull, q)' = Place(pull, q) - 1 BY <1>8, <1>16
  <2> HIDE DEF L, read, before
  <2>4. Place(pull, q) \in Nat /\ Place(pull, p) \in Nat /\ Place(pull, q)' \in Nat
    BY <1>10, <2>2, <2>3
  <2>5. CASE Place(pull, p) <= read /\ Place(pull, q) = read + 1
    <3>1. q \in Hidden(p)
      <4>1. read = UpTo(IF pull.phase = "fetch" THEN pull.page - 1 ELSE pull.page)
        BY DEF read, ReadSoFar
      <4> QED BY <1>7, <2>1, <2>5, <4>1 DEF Hidden, L, Pulling
    <3> QED BY <3>1
  <2>6. CASE ~(Place(pull, p) <= read /\ Place(pull, q) = read + 1)
    <3>1. Place(pull, q)' > read BY <1>7, <1>12, <2>2, <2>3, <2>4, <2>6
    <3> QED BY <1>14, <3>1
  <2> QED BY <2>5, <2>6
<1> QED BY <1>15, <1>16

(* A product that stays in the answer keeps its place, and so do all. *)
LEMMA PlacesStay ==
  ASSUME PullInv, Pulling, NEW p \in StoreProducts, NEW hidden, ChangedIn(p, hidden),
         store'[p].there, pull.since = 0
  PROVE  /\ Listing(pull)' = Listing(pull) /\ \A q : Place(pull, q)' = Place(pull, q)
         /\ \A q : Beyond(q) => Beyond(q)'
<1>1. pull'.since = 0 /\ pull'.phase = pull.phase /\ pull'.page = pull.page BY RunGoesOn
<1>2. \A q : InWindow(pull, q)' /\ InWindow(pull, q) BY <1>1 DEF InWindow
<1>3. \A q \in StoreProducts : store'[q].there <=> store[q].there BY DEF ChangedIn
<1>4. Listing(pull)' = Listing(pull) BY <1>2, <1>3 DEF Listing, StoreProducts
<1>5. \A q, r : Earlier(pull, q, r)' <=> Earlier(pull, q, r) BY <1>1 DEF Earlier
<1>6. ASSUME NEW q PROVE Place(pull, q)' = Place(pull, q)
  <2>1. UpToPlace(pull, q)' = UpToPlace(pull, q) BY <1>4, <1>5 DEF UpToPlace
  <2>2. Place(pull, q)' = Cardinality(UpToPlace(pull, q)') BY DEF Place, UpToPlace
  <2>3. Place(pull, q) = Cardinality(UpToPlace(pull, q)) BY DEF Place, UpToPlace
  <2> QED BY <2>1, <2>2, <2>3
<1>7. ReadSoFar(pull)' = ReadSoFar(pull) BY <1>1 DEF ReadSoFar, UpTo
<1> QED BY <1>1, <1>4, <1>6, <1>7 DEF Beyond

LEMMA ChangeStoreStep ==
  ASSUME PullInv, ChangeStore
  PROVE  PullInv'
<1>1. PICK p \in StoreProducts, there \in BOOLEAN :
        LET version == [there |-> there, at |-> clock, text |-> store[p].text + 1]
            leaves == ~there \/ (pull.phase # "idle" => pull.since # 0)
        IN  /\ store[p].there /\ store' = [store EXCEPT ![p] = version]
            /\ hooks' = hooks \cup {[product |-> p, text |-> version.text, gone |-> ~there]}
            /\ pull' = Hide(IF leaves THEN Hidden(p) ELSE {})
            /\ UNCHANGED <<clock, inbox, erp, checkpoint, exposed, late>>
  BY Zenon DEF ChangeStore
<1> DEFINE text == store[p].text + 1
           version == [there |-> there, at |-> clock, text |-> text]
           leaves == ~there \/ (pull.phase # "idle" => pull.since # 0)
           word == [product |-> p, text |-> text, gone |-> ~there]
           hidden == IF leaves THEN Hidden(p) ELSE {}
<1>2. /\ store[p].there /\ store' = [store EXCEPT ![p] = version]
      /\ hooks' = hooks \cup {word} /\ pull' = Hide(hidden)
      /\ UNCHANGED <<clock, inbox, erp, checkpoint, exposed, late>>
  BY <1>1
<1> HIDE DEF text, hidden
<1>3. /\ store' = [q \in StoreProducts |-> IF q = p THEN version ELSE store[q]]
      /\ clock \in Nat /\ checkpoint \in 0..clock
  BY <1>2 DEF PullInv, RowsOfStore
<1>4. /\ store'[p].at = clock /\ (store'[p].there <=> there)
      /\ \A r \in StoreProducts \ {p} : store'[r] = store[r]
  BY <1>3
<1>5. RowsOfStore'
  <2>1. \A q \in StoreProducts : store'[q].at \in 0..clock
    <3>1. clock \in 0..clock BY <1>3
    <3>2. \A q \in StoreProducts : store[q].at \in 0..clock BY DEF PullInv, RowsOfStore
    <3> QED BY <1>4, <3>1, <3>2
  <2>2. store' = [q \in StoreProducts |-> store'[q]] BY <1>3
  <2> QED BY <1>2, <2>1, <2>2 DEF PullInv, RowsOfStore
<1>6. HooksTrue'
  <2> SUFFICES ASSUME NEW h \in hooks'
               PROVE  h.product \in StoreProducts /\ (h.gone => ~store'[h.product].there)
    BY DEF HooksTrue
  <2>1. CASE h \in hooks
    <3>1. h.product \in StoreProducts /\ (h.gone => ~store[h.product].there)
      BY <2>1 DEF PullInv, HooksTrue
    <3> QED BY <1>2, <1>4, <3>1
  <2>2. CASE h = word
    <3>1. h.product = p /\ (h.gone <=> ~there) BY <2>2
    <3> QED BY <1>4, <3>1
  <2> QED BY <1>2, <2>1, <2>2
<1>7. PullSound'
  <2>1. PulledUpToCheckpoint'
    <3> SUFFICES ASSUME NEW q \in StoreProducts, store'[q].there, store'[q].at < checkpoint
                 PROVE  erp[q].text = store'[q].text \/ q \in exposed \cup late
      BY <1>2 DEF PulledUpToCheckpoint
    <3>1. q # p BY <1>3, <1>4
    <3> QED BY <1>4, <3>1 DEF PullInv, PullSound, PulledUpToCheckpoint
  <2>2. ArchivedIfGoneOrHidden'
    <3> SUFFICES ASSUME NEW q \in StoreProducts, erp[q].status = "archived", store'[q].there
                 PROVE  q \in exposed
      BY <1>2 DEF ArchivedIfGoneOrHidden
    <3>1. store[q].there BY <1>2, <1>4
    <3> QED BY <3>1 DEF PullInv, PullSound, ArchivedIfGoneOrHidden
  <2> QED BY <2>1, <2>2 DEF PullSound
<1>8. CASE ~Pulling
  <2>1. pull' = NoPull BY <1>2, <1>8 DEF Hide, Pulling
  <2> QED BY <1>5, <1>6, <1>7, <2>1, PullEnds DEF PullInv
<1>9. CASE Pulling
  <2>1. ChangedIn(p, hidden) BY <1>2, <1>4, <1>9 DEF Hide, Pulling, ChangedIn
  <2>2. /\ IsPull(pull') /\ pull'.phase = pull.phase /\ pull'.kind = pull.kind
        /\ pull'.page = pull.page /\ pull'.start = pull.start /\ pull'.items = pull.items
        /\ pull'.since = pull.since /\ pull'.ids = pull.ids
        /\ pull'.hidden = pull.hidden \cup hidden /\ (pull'.last => pull.last)
    BY <1>9, <2>1, RunGoesOn
  <2>3. /\ pull.phase \in {"fetch", "import", "end"} /\ pull.kind \in PullKinds
        /\ pull.page \in Nat \ {0} /\ pull.start \in checkpoint..clock
        /\ pull.since \in {0, checkpoint} /\ (pull.kind # "all" => pull.since = 0)
        /\ pull.start \in Int
    BY <1>3, <1>9 DEF PullInv, RunFits
  <2>4. RunFits' BY <1>2, <2>2, <2>3 DEF RunFits
  <2>5. ItemsFit'
    <3>1. ASSUME NEW i \in pull.items
          PROVE  /\ i.product \in StoreProducts
                 /\ i.text = store'[i.product].text \/ store'[i.product].at >= pull.start
      <4>1. /\ i.product \in StoreProducts
            /\ i.text = store[i.product].text \/ store[i.product].at >= pull.start
        BY <1>9 DEF PullInv, ItemsFit
      <4>2. clock >= pull.start BY <1>3, <2>3
      <4> QED BY <1>4, <4>1, <4>2
    <3>2. \A i, j \in pull.items : i.product = j.product => i.text = j.text
      BY <1>9 DEF PullInv, ItemsFit
    <3> QED BY <2>2, <3>1, <3>2 DEF ItemsFit
  <2>6. ReadSoFar(pull)' = ReadSoFar(pull) /\ ReadSoFar(pull) \in Nat
    <3>1. pull.page - 1 \in Nat /\ pull.page \in Nat BY <2>3
    <3> QED BY <2>2, <3>1, PagesAdd DEF ReadSoFar, UpTo
  <2>7. ~there \/ pull.since # 0 => Hidden(p) \subseteq hidden BY <1>9 DEF hidden, Pulling
  <2>8. ASSUME NEW q \in StoreProducts, Beyond(q), q # p \/ (there /\ pull.since = 0)
        PROVE  Beyond(q)' \/ q \in hidden
    <3>1. CASE ~there \/ pull.since # 0
      <4>1. ~store'[p].there \/ pull.since # 0 BY <1>4, <3>1
      <4>2. q \in StoreProducts \ {p} BY <2>8, <3>1
      <4> QED BY <1>9, <2>1, <2>7, <2>8, <3>1, <4>1, <4>2, ComingStays
    <3>2. CASE there /\ pull.since = 0
      <4>1. store'[p].there BY <1>4, <3>2
      <4> QED BY <1>9, <2>1, <2>8, <3>2, <4>1, PlacesStay
    <3> QED BY <3>1, <3>2
  <2>9. LastPage'
    <3> SUFFICES ASSUME pull.phase = "import", pull.last, NEW q \in Listing(pull)'
                 PROVE  Place(pull, q)' <= ReadSoFar(pull)
      BY <2>2, <2>6 DEF LastPage
    <3>1. \A r \in Listing(pull) : Place(pull, r) <= ReadSoFar(pull) BY DEF PullInv, LastPage
    <3>2. CASE ~there \/ pull.since # 0
      <4>1. ~store'[p].there \/ pull.since # 0 BY <1>4, <3>2
      <4>2. q \in StoreProducts BY DEF Listing, StoreProducts
      <4>3. q # p /\ q \in Listing(pull) BY <1>9, <2>1, <4>1, <4>2, PlacesAfter
      <4>4. Place(pull, q)' = Place(pull, q) - 1 \/ Place(pull, q)' = Place(pull, q)
        <5>1. q \in Listing(pull) \ {p} BY <4>3
        <5>2. Place(pull, q)' = IF p \in UpToPlace(pull, q) THEN Place(pull, q) - 1
                                                            ELSE Place(pull, q)
          BY <1>9, <2>1, <4>1, <5>1, PlacesAfter
        <5> QED BY <5>2
      <4>5. Place(pull, q) \in 1..Cardinality(Listing(pull)) /\ Cardinality(Listing(pull)) \in Nat
        BY <4>3, PlaceCounts, ListingFinite
      <4>6. Place(pull, q) <= ReadSoFar(pull) BY <3>1, <4>3
      <4>7. Place(pull, q) \in Nat /\ Place(pull, q)' \in Nat BY <4>4, <4>5
      <4> QED BY <2>6, <4>4, <4>6, <4>7
    <3>3. CASE there /\ pull.since = 0
      <4>1. store'[p].there BY <1>4, <3>3
      <4>2. Listing(pull)' = Listing(pull) /\ Place(pull, q)' = Place(pull, q)
        BY <1>9, <2>1, <3>3, <4>1, PlacesStay
      <4> QED BY <3>1, <4>2
    <3> QED BY <3>2, <3>3
  <2>10. Covers'
    <3> SUFFICES ASSUME pull.kind = "all", NEW q \in StoreProducts, store'[q].there,
                        store'[q].at < pull.start
                 PROVE  AsItIs(q)' \/ (q \in pull.hidden)' \/ Beyond(q)' \/ OnPage(q)'
      BY <2>2 DEF Covers
    <3>1. q # p BY <1>3, <1>4, <2>3
    <3>2. store'[q] = store[q] BY <1>4, <3>1
    <3>3. AsItIs(q) \/ q \in pull.hidden \/ Beyond(q) \/ OnPage(q) BY <1>9, <3>2 DEF PullInv, Covers
    <3>4. AsItIs(q) => AsItIs(q)' BY <1>2, <3>2 DEF AsItIs
    <3>5. OnPage(q) => OnPage(q)' BY <2>2, <3>2 DEF OnPage
    <3>6. Beyond(q) => Beyond(q)' \/ q \in hidden BY <2>8, <3>1
    <3> QED BY <2>2, <3>3, <3>4, <3>5, <3>6
  <2>11. Names'
    <3> SUFFICES ASSUME pull.kind = "reconcile", NEW q \in StoreProducts, store'[q].there
                 PROVE  (q \in pull.ids)' \/ (q \in pull.hidden)' \/ Beyond(q)'
      BY <2>2 DEF Names
    <3>1. store[q].there /\ pull.since = 0 BY <1>2, <1>4, <2>3
    <3>2. q \in pull.ids \/ q \in pull.hidden \/ Beyond(q) BY <1>9, <3>1 DEF PullInv, Names
    <3>3. q # p \/ (there /\ pull.since = 0) BY <1>4, <3>1
    <3>4. Beyond(q) => Beyond(q)' \/ q \in hidden BY <2>8, <3>3
    <3> QED BY <2>2, <3>2, <3>4
  <2> QED BY <1>5, <1>6, <1>7, <2>4, <2>5, <2>9, <2>10, <2>11 DEF PullInv
<1> QED BY <1>8, <1>9

(* Every step of the store, the runs and the webhooks keeps it. *)
LEMMA PullStep == PullInv /\ [PullNext]_pullVars => PullInv'
<1> SUFFICES ASSUME PullInv, [PullNext]_pullVars PROVE PullInv' OBVIOUS
<1>1. CASE UNCHANGED pullVars
  <2>1. UNCHANGED <<clock, store, hooks, inbox, erp, checkpoint, pull, exposed, late>>
    BY <1>1 DEF pullVars
  <2>2. RowsOfStore' /\ HooksTrue' /\ RunFits' /\ ItemsFit' /\ PullSound'
    BY <2>1 DEF PullInv, RowsOfStore, HooksTrue, RunFits, ItemsFit, Pulling, IsPull, PullSound,
                PulledUpToCheckpoint, ArchivedIfGoneOrHidden
  <2>3. Listing(pull)' = Listing(pull) /\ (\A q : Place(pull, q)' = Place(pull, q))
        /\ ReadSoFar(pull)' = ReadSoFar(pull)
    BY <2>1, SameAnswer DEF ReadSoFar, UpTo
  <2>4. LastPage' BY <2>1, <2>3 DEF PullInv, LastPage
  <2>5. \A p : (Beyond(p) <=> Beyond(p)') /\ (OnPage(p) <=> OnPage(p)') BY <2>1, RunStays
  <2>6. Covers' /\ Names' BY <2>1, <2>5 DEF PullInv, Covers, Names, Pulling, AsItIs
  <2> QED BY <2>2, <2>4, <2>6 DEF PullInv
<1> QED
  BY <1>1, TickClockStep, ChangeStoreStep, StartPullStep, FetchPageStep, ImportPageStep,
     NoteIdsStep, FinishPullStep, FinishReconcileStep, AbortPullStep, DeliverHookStep DEF PullNext

(* What was modified before the checkpoint is in the ERP, and what is archived is gone, but *)
(* for what a page shift hid or a late webhook wrote over, for any pages and products *)
(* (_pull_incremental_woocommerce_collection, reconcile_products). *)
THEOREM StorePullTrue == PullSpec => []PullSound
<1>1. PullInit => PullInv BY PullStart
<1>2. PullInv /\ [PullNext]_pullVars => PullInv' BY PullStep
<1>3. PullInv => PullSound BY DEF PullInv
<1> QED BY <1>1, <1>2, <1>3, PTL DEF PullSpec

--------------------
\* StoreRequests: a call is performed once, but for what was not heard.

\* How many ways to ask were tried in full.
Rung(l) == IF Len(l.modes) = 2 THEN IF l.auth = "basic" THEN 0 ELSE 1
                               ELSE IF l.auth = "basic" THEN 2 ELSE 3

IsLadder(l) == l = [modes |-> l.modes, auth |-> l.auth, attempt |-> l.attempt,
                    denied |-> l.denied, answered |-> l.answered]
LadderStands(l) ==
  /\ IsLadder(l)
  /\ l.modes \in Seq(ModeSet) /\ Len(l.modes) \in 1..2
  /\ l.auth \in Auths /\ l.attempt \in 1..RemoteAttempts

\* While a call is tried all that was done is unheard, and at most once for each try.
Tries(rungs) == RemoteAttempts * rungs
StoreCallFits == Calling =>
  /\ LadderStands(ladder)
  /\ performed = unheard /\ performed + 1 <= Tries(Rung(ladder)) + ladder.attempt
  /\ heard \subseteq {"denied", "missing"} /\ report = "none"
  /\ ladder.denied <=> "denied" \in heard
  /\ ladder.answered <=> heard # {}

RequestsInv ==
  /\ spoken \subseteq ModeSet /\ learned \in {{}, {"pretty"}, {"query"}}
  /\ performed \in Nat /\ unheard \in Nat /\ performed <= Tries(4)
  /\ performed <= unheard + 1
  /\ heard \subseteq {"ok", "limited", "denied", "missing"} /\ report \in Reports
  /\ ~Calling => ladder = NoLadder
  /\ StoreCallFits /\ FailedDidNothing

\* Facts of arithmetic, cited where Booleans stand beside numbers.
LEMMA SameFits == \A n \in Nat : n <= n + 1
  OBVIOUS

LEMMA AtMostTwo == \A n \in 1..2 : n <= 2
  OBVIOUS

LEMMA RungAdds ==
  ASSUME NEW r \in 0..3, NEW q \in 0..4, r + 1 <= q
  PROVE  Tries(r) + RemoteAttempts <= Tries(q)
<1>1. RemoteAttempts \in Nat BY StoreRequestsAssumption
<1>2. r = 0 \/ r = 1 \/ r = 2 \/ r = 3 OBVIOUS
<1>3. q = 0 \/ q = 1 \/ q = 2 \/ q = 3 \/ q = 4 OBVIOUS
<1> QED BY <1>1, <1>2, <1>3 DEF Tries

LEMMA TriesCount == RemoteAttempts \in Nat \ {0} /\ Tries(0) = 0 /\ \A r \in 0..4 : Tries(r) \in Nat
<1>1. RemoteAttempts \in Nat \ {0} BY StoreRequestsAssumption
<1>2. ASSUME NEW r \in 0..4 PROVE Tries(r) \in Nat
  <2>1. r = 0 \/ r = 1 \/ r = 2 \/ r = 3 \/ r = 4 OBVIOUS
  <2> QED BY <1>1, <2>1 DEF Tries
<1> QED BY <1>1, <1>2 DEF Tries

LEMMA OnARung ==
  ASSUME NEW l, LadderStands(l)
  PROVE  Rung(l) \in 0..3 /\ Tries(Rung(l)) \in Nat /\ l.attempt \in 1..RemoteAttempts
<1>1. Len(l.modes) = 1 \/ Len(l.modes) = 2 BY DEF LadderStands
<1>2. Rung(l) \in 0..3 BY <1>1 DEF Rung
<1> QED BY <1>2, TriesCount DEF LadderStands

LEMMA RequestsTrue == RequestsInv => StoreRequestsTypeOK /\ StoreRequestsSound
<1> SUFFICES ASSUME RequestsInv PROVE StoreRequestsTypeOK /\ StoreRequestsSound OBVIOUS
<1>1. Cardinality({}) = 0 /\ (\A x : Cardinality({x}) = 1) /\ Cardinality(ModeSet) = 2
  <2>1. Cardinality({}) = 0 BY FS_EmptySet
  <2>2. \A x : IsFiniteSet({x}) /\ Cardinality({x}) = 1 BY FS_Singleton
  <2>3. Cardinality({"pretty"} \cup {"query"}) = Cardinality({"pretty"}) + 1
    <3>1. IsFiniteSet({"pretty"}) /\ "query" \notin {"pretty"} BY <2>2
    <3> QED BY <3>1, FS_AddElement
  <2>4. ModeSet = {"pretty"} \cup {"query"} BY DEF ModeSet
  <2>5. Cardinality(ModeSet) = 1 + 1 BY <2>2, <2>3, <2>4
  <2> QED BY <2>1, <2>2, <2>5
<1>2. Cardinality(learned) <= 1 /\ learned \subseteq ModeSet
  <2>1. CASE learned = {} BY <1>1, <2>1
  <2>2. CASE learned = {"pretty"}
    <3>1. Cardinality(learned) = 1 BY <1>1, <2>2
    <3> QED BY <2>2, <3>1 DEF ModeSet
  <2>3. CASE learned = {"query"}
    <3>1. Cardinality(learned) = 1 BY <1>1, <2>3
    <3> QED BY <2>3, <3>1 DEF ModeSet
  <2> QED BY <2>1, <2>2, <2>3 DEF RequestsInv
<1>3. Len(ladder.modes) <= 2 /\ ladder.auth \in Auths /\ ladder.attempt \in 0..RemoteAttempts
  <2>1. CASE Calling
    <3>1. LadderStands(ladder) BY <2>1 DEF RequestsInv, StoreCallFits
    <3>2. Len(ladder.modes) \in 1..2 /\ ladder.auth \in Auths
          /\ ladder.attempt \in 1..RemoteAttempts
      BY <3>1 DEF LadderStands
    <3>3. RemoteAttempts \in Nat BY TriesCount
    <3>4. Len(ladder.modes) <= 2 BY <3>2, AtMostTwo, Zenon
    <3>5. ladder.attempt \in 0..RemoteAttempts BY <3>2, <3>3
    <3> QED BY <3>2, <3>4, <3>5
  <2>2. CASE ~Calling
    <3>1. Len(<<>>) = 0 BY EmptySeq
    <3>2. ladder.modes = <<>> /\ ladder.auth = "basic" /\ ladder.attempt = 0
      BY <2>2 DEF RequestsInv, NoLadder
    <3>3. Len(ladder.modes) = 0 BY <3>1, <3>2
    <3>4. 0 \in 0..RemoteAttempts BY StoreRequestsAssumption
    <3>5. Len(ladder.modes) <= 2 BY <3>3
    <3> QED BY <3>2, <3>4, <3>5 DEF Auths
  <2> QED BY <2>1, <2>2
<1>4. StoreRequestsTypeOK BY <1>2, <1>3 DEF RequestsInv, StoreRequestsTypeOK
<1>5. OnceUnlessUnheard BY <1>1, TriesCount DEF RequestsInv, OnceUnlessUnheard, Tries
<1> QED BY <1>4, <1>5 DEF RequestsInv, StoreRequestsSound

LEMMA RequestsStart == StoreRequestsInit => RequestsInv
<1> SUFFICES ASSUME StoreRequestsInit PROVE RequestsInv OBVIOUS
<1>1. ~Calling BY DEF StoreRequestsInit, Calling, NoLadder
<1>2. 0 <= Tries(4) BY TriesCount
<1> QED BY <1>1, <1>2 DEF StoreRequestsInit, RequestsInv, StoreCallFits, FailedDidNothing, Reports

--------------------
LEMMA CandidatesFit ==
  ASSUME learned \in {{}, {"pretty"}, {"query"}}
  PROVE  Candidates \in Seq(ModeSet) /\ Len(Candidates) = 2
<1>1. CASE learned = {} BY <1>1 DEF Candidates, Modes, ModeSet
<1>2. CASE learned # {}
  <2>1. (CHOOSE m \in learned : TRUE) \in ModeSet BY <1>2 DEF ModeSet
  <2>2. \A one : (CHOOSE m \in ModeSet : m # one) \in ModeSet BY DEF ModeSet
  <2> QED
    <3> DEFINE one == CHOOSE m \in learned : TRUE
               other == CHOOSE m \in ModeSet : m # one
    <3>1. Candidates = <<one, other>> BY <1>2 DEF Candidates
    <3>2. one \in ModeSet /\ other \in ModeSet BY <2>1, <2>2
    <3> HIDE DEF one, other
    <3> QED BY <3>1, <3>2
<1> QED BY <1>1, <1>2

LEMMA AskStoreStep ==
  ASSUME RequestsInv, AskStore
  PROVE  RequestsInv'
<1>1. ladder' = [modes |-> Candidates, auth |-> "basic", attempt |-> 1, denied |-> FALSE,
                 answered |-> FALSE]
  BY DEF AskStore, NoLadder
<1>2. Candidates \in Seq(ModeSet) /\ Len(Candidates) = 2 BY CandidatesFit DEF RequestsInv
<1>3. Candidates # <<>> BY <1>2, EmptySeq
<1>4. report' = "none" /\ performed' = 0 /\ unheard' = 0 /\ heard' = {}
      /\ UNCHANGED <<spoken, learned>>
  BY DEF AskStore
<1>5. Calling' /\ LadderStands(ladder') /\ Rung(ladder') = 0
  <2>1. ladder'.modes = Candidates /\ ladder'.auth = "basic" /\ ladder'.attempt = 1
        /\ IsLadder(ladder')
    BY <1>1 DEF IsLadder
  <2> QED BY <1>2, <1>3, <2>1, TriesCount DEF Calling, LadderStands, Rung, Auths
<1>6. StoreCallFits'
  <2>1. 0 + 1 <= Tries(Rung(ladder')) + ladder'.attempt BY <1>1, <1>5, TriesCount
  <2> QED BY <1>1, <1>4, <1>5, <2>1 DEF StoreCallFits
<1>7. 0 <= Tries(4) BY TriesCount
<1> QED BY <1>4, <1>5, <1>6, <1>7 DEF RequestsInv, FailedDidNothing, Reports

\* What a call was told, or on which rung it stands next.
LeftOff(denied, answered) ==
  \/ Told(IF denied THEN "denied" ELSE IF answered THEN "missing" ELSE "unreachable")
  \/ /\ LadderStands(ladder') /\ Rung(ladder') \in 0..3 /\ Rung(ladder) + 1 <= Rung(ladder')
     /\ ladder'.attempt = 1 /\ ladder'.modes # <<>>
     /\ (ladder'.denied <=> denied) /\ (ladder'.answered <=> answered) /\ report' = report

LEMMA GoesOn ==
  ASSUME Calling, LadderStands(ladder), NEW next, NEW denied, NEW answered,
         GoOn(next, denied, answered)
  PROVE  LeftOff(denied, answered)
<1> DEFINE left == IF next /\ ladder.auth = "basic" THEN ladder.modes ELSE Tail(ladder.modes)
           auth == IF next /\ ladder.auth = "basic" THEN "query" ELSE "basic"
<1>1. CASE left = <<>> BY <1>1 DEF GoOn, LeftOff
<1>2. CASE left # <<>>
  <2>1. ladder' = [modes |-> left, attempt |-> 1, denied |-> denied, answered |-> answered,
                   auth |-> auth] /\ report' = report
    BY <1>2 DEF GoOn
  <2>2. /\ ladder.modes \in Seq(ModeSet) /\ Len(ladder.modes) \in 1..2 /\ ladder.modes # <<>>
        /\ ladder.auth \in Auths
    BY DEF LadderStands, Calling
  <2>3. Tail(ladder.modes) \in Seq(ModeSet) /\ Len(Tail(ladder.modes)) = Len(ladder.modes) - 1
    BY <2>2, HeadTailProperties
  <2>4. \/ left = ladder.modes /\ ladder.auth = "basic" /\ auth = "query"
        \/ left = Tail(ladder.modes) /\ auth = "basic"
    OBVIOUS
  <2> HIDE DEF left, auth
  <2>5. left \in Seq(ModeSet) /\ Len(left) \in 1..2 /\ auth \in Auths
    <3>1. left \in Seq(ModeSet) /\ auth \in Auths BY <2>2, <2>3, <2>4 DEF Auths
    <3>3. Len(left) \in 0..2
      <4>1. CASE left = ladder.modes BY <2>2, <4>1
      <4>2. CASE left = Tail(ladder.modes)
        <5>1. Len(Tail(ladder.modes)) \in 0..2 BY <2>2, <2>3
        <5> QED BY <4>2, <5>1
      <4> QED BY <2>4, <4>1, <4>2
    <3>2. Len(left) # 0 BY <1>2, <3>1, EmptySeq
    <3> QED BY <3>1, <3>2, <3>3
  <2>6. ladder'.modes = left /\ ladder'.auth = auth /\ ladder'.attempt = 1
        /\ (ladder'.denied <=> denied) /\ (ladder'.answered <=> answered)
    BY <2>1
  <2>7. LadderStands(ladder')
    <3>1. IsLadder(ladder') BY <2>1 DEF IsLadder
    <3> QED BY <2>5, <2>6, <3>1, TriesCount DEF LadderStands
  <2>8. Rung(ladder') \in 0..3 /\ Rung(ladder) + 1 <= Rung(ladder')
    <3>1. Len(ladder.modes) = 1 \/ Len(ladder.modes) = 2 BY <2>2
    <3>2. Len(left) = 1 \/ Len(left) = 2 BY <2>5
    <3>3. CASE left = ladder.modes /\ ladder.auth = "basic" /\ auth = "query"
      BY <2>6, <3>1, <3>3 DEF Rung
    <3>4. CASE left = Tail(ladder.modes) /\ auth = "basic"
      <4>1. Len(ladder.modes) = 2 /\ Len(left) = 1
        <5>1. Len(Tail(ladder.modes)) = Len(ladder.modes) - 1 BY <2>3
        <5>2. Len(Tail(ladder.modes)) = 1 \/ Len(Tail(ladder.modes)) = 2 BY <3>2, <3>4
        <5> QED BY <3>1, <3>4, <5>1, <5>2
      <4> QED
        <5>1. Rung(ladder') = 2
          <6>1. ladder'.auth = "basic" /\ ladder'.modes = left BY <2>6, <3>4
          <6>2. Len(ladder'.modes) = 1 BY <4>1, <6>1
          <6>3. Len(ladder'.modes) # 2 BY <6>2
          <6> QED BY <6>1, <6>3 DEF Rung
        <5>2. Rung(ladder) \in {0, 1} BY <4>1 DEF Rung
        <5> QED BY <5>1, <5>2
    <3> QED BY <2>4, <3>3, <3>4
  <2> QED BY <1>2, <2>1, <2>6, <2>7, <2>8 DEF LeftOff
<1> QED BY <1>1, <1>2

(* A call that stands where it was left off, or was told, fits what was heard. *)
LEMMA LeftOffFits ==
  ASSUME RequestsInv, Calling, NEW denied, NEW answered, LeftOff(denied, answered),
         UNCHANGED <<spoken, learned>>, performed' \in Nat, unheard' = performed',
         performed' <= Tries(Rung(ladder)) + RemoteAttempts,
         heard' \subseteq {"denied", "missing"},
         denied <=> "denied" \in heard', answered <=> heard' # {}
  PROVE  RequestsInv'
<1>1. LadderStands(ladder) /\ report = "none" /\ Rung(ladder) \in 0..3
  <2>1. LadderStands(ladder) /\ report = "none" BY DEF RequestsInv, StoreCallFits
  <2> QED BY <2>1, OnARung
<1>2. Tries(Rung(ladder)) + RemoteAttempts <= Tries(4) BY <1>1, RungAdds
<1>3. RemoteAttempts \in Nat /\ Tries(Rung(ladder)) \in Nat /\ Tries(4) \in Nat BY <1>1, TriesCount
<1>4. performed' <= Tries(4) /\ performed' <= unheard' + 1 /\ unheard' \in Nat
  <2>1. unheard' \in Nat /\ performed' \in Nat /\ unheard' = performed' OBVIOUS
  <2>2. performed' <= unheard' + 1 BY <2>1, SameFits, Zenon
  <2>3. performed' <= Tries(Rung(ladder)) + RemoteAttempts OBVIOUS
  <2>4. performed' <= Tries(4) BY <1>2, <1>3, <2>1, <2>3
  <2> QED BY <2>1, <2>2, <2>4
<1>5. CASE Told(IF denied THEN "denied" ELSE IF answered THEN "missing" ELSE "unreachable")
  <2>1. ladder' = NoLadder /\ ~Calling' BY <1>5 DEF Told, Calling, NoLadder
  <2>2. report' = IF denied THEN "denied" ELSE IF answered THEN "missing" ELSE "unreachable"
    BY <1>5 DEF Told
  <2>3. FailedDidNothing' /\ report' \in Reports BY <2>2 DEF FailedDidNothing, Reports
  <2> QED BY <1>4, <2>1, <2>3 DEF RequestsInv, StoreCallFits
<1>6. CASE ~Told(IF denied THEN "denied" ELSE IF answered THEN "missing" ELSE "unreachable")
  <2>1. /\ LadderStands(ladder') /\ Rung(ladder') \in 0..3 /\ Rung(ladder) + 1 <= Rung(ladder')
        /\ ladder'.attempt = 1 /\ ladder'.modes # <<>>
        /\ (ladder'.denied <=> denied) /\ (ladder'.answered <=> answered) /\ report' = "none"
    BY <1>1, <1>6 DEF LeftOff
  <2>2. Tries(Rung(ladder)) + RemoteAttempts <= Tries(Rung(ladder')) BY <1>1, <2>1, RungAdds
  <2>3. performed' + 1 <= Tries(Rung(ladder')) + ladder'.attempt
    <3>1. Tries(Rung(ladder')) \in Nat BY <2>1, TriesCount
    <3> QED BY <1>3, <2>1, <2>2, <3>1
  <2>4. StoreCallFits' /\ Calling' BY <2>1, <2>3 DEF StoreCallFits, Calling
  <2>5. FailedDidNothing' /\ report' \in Reports BY <2>1, <2>4 DEF FailedDidNothing, Reports
  <2> QED BY <1>4, <2>4, <2>5 DEF RequestsInv
<1> QED BY <1>5, <1>6

LEMMA TryFailsStep ==
  ASSUME RequestsInv, TryFails
  PROVE  RequestsInv'
<1>1. PICK fault \in Faults, acted \in {0, 1} :
        /\ performed' = performed + acted /\ unheard' = unheard + acted
        /\ IF ladder.attempt < RemoteAttempts
           THEN ladder' = [ladder EXCEPT !.attempt = @ + 1] /\ UNCHANGED report
           ELSE IF fault = "gateway" THEN Told("gateway")
                                     ELSE GoOn(TRUE, ladder.denied, ladder.answered)
  <2>1. PICK fault \in Faults, acted \in BOOLEAN :
          /\ performed' = performed + (IF acted THEN 1 ELSE 0)
          /\ unheard' = unheard + (IF acted THEN 1 ELSE 0)
          /\ IF ladder.attempt < RemoteAttempts
             THEN ladder' = [ladder EXCEPT !.attempt = @ + 1] /\ UNCHANGED report
             ELSE IF fault = "gateway" THEN Told("gateway")
                                       ELSE GoOn(TRUE, ladder.denied, ladder.answered)
    BY Zenon DEF TryFails
  <2>2. (IF acted THEN 1 ELSE 0) \in {0, 1} OBVIOUS
  <2> QED BY <2>1, <2>2
<1>2. Calling /\ UNCHANGED <<spoken, learned, heard>> BY DEF TryFails
<1>3. /\ LadderStands(ladder) /\ performed = unheard /\ performed \in Nat
      /\ performed + 1 <= Tries(Rung(ladder)) + ladder.attempt
      /\ heard \subseteq {"denied", "missing"} /\ report = "none"
      /\ (ladder.denied <=> "denied" \in heard) /\ (ladder.answered <=> heard # {})
  BY <1>2 DEF RequestsInv, StoreCallFits
<1>4. ladder.attempt \in 1..RemoteAttempts /\ Rung(ladder) \in 0..3 /\ RemoteAttempts \in Nat
      /\ Tries(Rung(ladder)) \in Nat
  BY <1>3, OnARung, TriesCount
<1>5. /\ performed' \in Nat /\ unheard' \in Nat /\ unheard' = performed'
      /\ performed' <= Tries(Rung(ladder)) + ladder.attempt
      /\ performed' <= Tries(Rung(ladder)) + RemoteAttempts
  BY <1>1, <1>3, <1>4
<1>6. Tries(Rung(ladder)) + RemoteAttempts <= Tries(4)
      /\ performed' <= Tries(4)
  <2>1. Tries(Rung(ladder)) + RemoteAttempts <= Tries(4) /\ Tries(4) \in Nat
    BY <1>4, RungAdds, TriesCount
  <2> QED BY <1>4, <1>5, <2>1
<1>7. CASE ladder.attempt < RemoteAttempts
  <2>1. ladder' = [ladder EXCEPT !.attempt = @ + 1] /\ report' = report BY <1>1, <1>7
  <2>2. /\ ladder' = [modes |-> ladder.modes, auth |-> ladder.auth, attempt |-> ladder.attempt + 1,
                      denied |-> ladder.denied, answered |-> ladder.answered]
    <3>1. IsLadder(ladder) BY <1>3 DEF LadderStands
    <3> QED BY <2>1, <3>1 DEF IsLadder
  <2>3. LadderStands(ladder') /\ Rung(ladder') = Rung(ladder) /\ Calling'
    <3>1. /\ ladder'.modes = ladder.modes /\ ladder'.auth = ladder.auth
          /\ ladder'.attempt = ladder.attempt + 1 /\ IsLadder(ladder')
      BY <2>2 DEF IsLadder
    <3>2. ladder.attempt + 1 \in 1..RemoteAttempts BY <1>4, <1>7
    <3> QED BY <1>2, <1>3, <3>1, <3>2 DEF LadderStands, Rung, Calling
  <2>4. StoreCallFits' BY <1>2, <1>3, <1>4, <1>5, <2>1, <2>2, <2>3 DEF StoreCallFits
  <2> QED BY <1>2, <1>3, <1>5, <1>6, <2>1, <2>3, <2>4 DEF RequestsInv, FailedDidNothing, Reports
<1>8. CASE ~(ladder.attempt < RemoteAttempts) /\ fault = "gateway"
  <2>1. ladder' = NoLadder /\ report' = "gateway" /\ ~Calling'
    BY <1>1, <1>8 DEF Told, Calling, NoLadder
  <2>2. performed' = unheard' /\ heard' \subseteq {"denied", "missing"} BY <1>2, <1>3, <1>5
  <2>3. FailedDidNothing' /\ StoreCallFits' BY <2>1, <2>2 DEF FailedDidNothing, StoreCallFits
  <2>4. performed' <= unheard' + 1 BY <1>5, SameFits, Zenon
  <2>5. UNCHANGED <<spoken, learned>> BY <1>2
  <2> QED BY <1>5, <1>6, <2>1, <2>2, <2>3, <2>4, <2>5 DEF RequestsInv, Reports
<1>9. CASE ~(ladder.attempt < RemoteAttempts) /\ fault # "gateway"
  <2>1. GoOn(TRUE, ladder.denied, ladder.answered) BY <1>1, <1>9
  <2>2. LeftOff(ladder.denied, ladder.answered) BY <1>2, <1>3, <2>1, GoesOn
  <2> QED BY <1>2, <1>3, <1>5, <2>2, LeftOffFits
<1> QED BY <1>7, <1>8, <1>9

(* The store answers. *)
LEMMA AnswerSteps ==
  ASSUME RequestsInv, TryOk \/ TryLimited \/ TryDenied \/ TryMissing
  PROVE  RequestsInv'
<1>1. Calling BY DEF TryOk, TryLimited, TryDenied, TryMissing
<1>2. /\ LadderStands(ladder) /\ performed = unheard /\ performed \in Nat
      /\ performed + 1 <= Tries(Rung(ladder)) + ladder.attempt
      /\ heard \subseteq {"denied", "missing"} /\ report = "none"
      /\ (ladder.denied <=> "denied" \in heard) /\ (ladder.answered <=> heard # {})
  BY <1>1 DEF RequestsInv, StoreCallFits
<1>3. ladder.attempt \in 1..RemoteAttempts /\ Rung(ladder) \in 0..3 /\ RemoteAttempts \in Nat
      /\ Tries(Rung(ladder)) \in Nat
  BY <1>2, OnARung, TriesCount
<1>4. Tries(Rung(ladder)) + RemoteAttempts <= Tries(4)
      /\ performed + 1 <= Tries(4)
      /\ performed <= Tries(Rung(ladder)) + RemoteAttempts
  <2>1. Tries(Rung(ladder)) + RemoteAttempts <= Tries(4) /\ Tries(4) \in Nat
    BY <1>3, RungAdds, TriesCount
  <2>2. ladder.attempt \in Nat /\ ladder.attempt <= RemoteAttempts BY <1>3
  <2> QED BY <1>2, <1>3, <2>1, <2>2
<1>5. CASE TryOk
  <2>1. /\ Head(ladder.modes) \in spoken /\ performed' = performed + 1 /\ unheard' = unheard
        /\ learned' = {Head(ladder.modes)} /\ heard' = heard \cup {"ok"} /\ spoken' = spoken
        /\ ladder' = NoLadder /\ report' = "ok"
    BY <1>5 DEF TryOk, Told
  <2>2. learned' \in {{}, {"pretty"}, {"query"}} /\ ~Calling'
    BY <2>1 DEF RequestsInv, ModeSet, Calling, NoLadder
  <2>3. FailedDidNothing' BY <1>2, <2>1, <2>2 DEF FailedDidNothing
  <2>4. StoreCallFits' /\ report' \in Reports /\ heard' \subseteq {"ok", "limited", "denied", "missing"}
    BY <2>1, <2>2 DEF RequestsInv, StoreCallFits, Reports
  <2> QED BY <1>2, <1>4, <2>1, <2>2, <2>3, <2>4 DEF RequestsInv
<1>6. CASE TryLimited
  <2>1. /\ heard' = heard \cup {"limited"} /\ ladder' = NoLadder /\ report' = "limited"
        /\ UNCHANGED <<spoken, learned, performed, unheard>> /\ ~Calling'
    BY <1>6 DEF TryLimited, Told, Calling, NoLadder
  <2>2. FailedDidNothing' BY <1>2, <2>1 DEF FailedDidNothing
  <2> QED BY <1>2, <2>1, <2>2 DEF RequestsInv, StoreCallFits, Reports
<1>7. CASE TryDenied
  <2>1. /\ heard' = heard \cup {"denied"} /\ GoOn(TRUE, TRUE, TRUE)
        /\ UNCHANGED <<spoken, learned, performed, unheard>>
    BY <1>7 DEF TryDenied
  <2>2. LeftOff(TRUE, TRUE) BY <1>1, <1>2, <2>1, GoesOn
  <2> QED BY <1>1, <1>2, <1>4, <2>1, <2>2, LeftOffFits
<1>8. CASE TryMissing
  <2>1. /\ heard' = heard \cup {"missing"} /\ GoOn(FALSE, ladder.denied, TRUE)
        /\ UNCHANGED <<spoken, learned, performed, unheard>>
    BY <1>8 DEF TryMissing
  <2>2. LeftOff(ladder.denied, TRUE) BY <1>1, <1>2, <2>1, GoesOn
  <2> QED BY <1>1, <1>2, <1>4, <2>1, <2>2, LeftOffFits
<1> QED BY <1>5, <1>6, <1>7, <1>8

(* Every step of a call and of the store keeps it. *)
LEMMA RequestsStep == RequestsInv /\ [StoreRequestsNext]_requestVars => RequestsInv'
<1> SUFFICES ASSUME RequestsInv, [StoreRequestsNext]_requestVars PROVE RequestsInv' OBVIOUS
<1>1. CASE ChangePermalinks
  <2>1. spoken' \subseteq ModeSet
        /\ UNCHANGED <<learned, ladder, report, performed, unheard, heard>>
    BY <1>1 DEF ChangePermalinks
  <2> QED BY <2>1 DEF RequestsInv, StoreCallFits, FailedDidNothing, Calling
<1>2. CASE UNCHANGED requestVars
  BY <1>2 DEF requestVars, RequestsInv, StoreCallFits, FailedDidNothing, Calling
<1> QED BY <1>1, <1>2, AskStoreStep, TryFailsStep, AnswerSteps DEF StoreRequestsNext

(* A call is performed once, but for the times that was not heard, and at most once for each *)
(* way to ask; one that failed did nothing (make_woocommerce_request). *)
THEOREM StoreRequestsTrue == StoreRequestsSpec => [](StoreRequestsTypeOK /\ StoreRequestsSound)
<1>1. StoreRequestsInit => RequestsInv BY RequestsStart
<1>2. RequestsInv /\ [StoreRequestsNext]_requestVars => RequestsInv' BY RequestsStep
<1>3. RequestsInv => StoreRequestsTypeOK /\ StoreRequestsSound BY RequestsTrue
<1> QED BY <1>1, <1>2, <1>3, PTL DEF StoreRequestsSpec

--------------------
\* StoreSettings: every row that is read, held or written was saved once.

IsSettingsRow(r) == r = [site |-> r.site, save |-> r.save, secret |-> r.secret, mode |-> r.mode,
                 mark |-> r.mark, plugin |-> r.plugin]
IsTest(t) == t = [at |-> t.at, site |-> t.site, copy |-> t.copy]
IsRun(r) == r = [at |-> r.at, began |-> r.began, since |-> r.since, asked |-> r.asked,
                 copy |-> r.copy, flushed |-> r.flushed]

\* The row, and what is held of it.
Rows == {connector, testing.copy, storeRun.copy} \cup {saving[u] : u \in Savers}

\* A checkpoint that was made of one store lets nothing of it be passed over.
HonestMark(m, pulled) ==
  /\ m.till \in Nat /\ m.of \subseteq StoreSites
  /\ \A s \in StoreSites : m.of \subseteq {s} => m.till <= pulled[s]

\* A row is of a save that was made, and names its site.
OfASave(r, n, pulled) ==
  /\ IsSettingsRow(r) /\ r.save \in 0..n /\ (r.save = 0 => r.site = "none")
  /\ (r.save > 0 => r.site \in StoreSites)
  /\ HonestMark(r.mark, pulled)
OneSave(r, q) == r.save = q.save => r.site = q.site /\ r.secret = q.secret

SettingsStand == \A r \in Rows : r = NoCopy \/ OfASave(r, saves, pulledTill)
RowsAgree == \A r, q \in Rows : r # NoCopy /\ q # NoCopy => OneSave(r, q)

\* What runs has begun after a save, and holds rows of saves.
HeldIsSaved(copy) == copy = NoCopy \/ copy.save > 0
InHand ==
  /\ connector # NoCopy /\ connector.save \in 0..saves
  /\ IsTest(testing) /\ IsRun(storeRun) /\ saving = [u \in Savers |-> saving[u]]
  /\ HeldIsSaved(testing.copy) /\ HeldIsSaved(storeRun.copy)
  /\ (storeRun.flushed => storeRun.copy # NoCopy)
  /\ (testing.at # "idle" => Configured(connector))
  /\ (storeRun.at # "idle" => Configured(connector))
  /\ storeRun.asked \subseteq StoreSites /\ HonestMark(storeRun.since, pulledTill)
  /\ storeRun.began \in Nat /\ edited \in Nat
  /\ saves \in 0..MaxSaves /\ pulledTill \in [StoreSites -> Nat]

SettingsInv == SettingsStand /\ RowsAgree /\ InHand /\ KeysStay /\ SecretStays /\ PluginOfThisStore

\* A row that says what one that is held says.
SaysSame(r, q) == r.site = q.site /\ r.save = q.save /\ r.secret = q.secret /\ r.mark = q.mark
Fits(r) == r = NoCopy \/ (IsSettingsRow(r) /\ \E q \in Rows : q # NoCopy /\ SaysSame(r, q))

LEMMA NoCopyIs == NoCopy.save = -1 /\ NoCopy.site = "none" /\ NoCopy.secret = 0
  BY DEF NoCopy, Unset

LEMMA SettingsTrue == SettingsInv => StoreSettingsTypeOK /\ StoreSettingsSound
<1> SUFFICES ASSUME SettingsInv PROVE StoreSettingsTypeOK /\ StoreSettingsSound OBVIOUS
<1>1. OfASave(connector, saves, pulledTill) BY DEF SettingsInv, SettingsStand, Rows, InHand
<1>2. saves \in 0..MaxSaves /\ MaxSaves \in Nat /\ connector.save \in 0..saves
  BY StoreSettingsAssumption DEF SettingsInv, InHand
<1>3. connector.save \in 0..MaxSaves BY <1>2
<1>4. connector.site \in StoreSites \cup {"none"} /\ (Configured(connector) <=> connector.site # "none")
      /\ connector.mark.of \subseteq StoreSites
  <2>1. "none" \notin StoreSites BY DEF StoreSites
  <2>2. connector.save = 0 \/ connector.save > 0 BY <1>2
  <2>3. ~(0 > 0) OBVIOUS
  <2> QED BY <1>1, <2>1, <2>2, <2>3 DEF OfASave, Configured, HonestMark
<1>5. StoreSettingsTypeOK BY <1>2, <1>3, <1>4 DEF StoreSettingsTypeOK
<1>6. MarkHonest
  <2> SUFFICES ASSUME Configured(connector), connector.mark.of \subseteq {connector.site}
               PROVE  connector.mark.till <= pulledTill[connector.site]
    BY DEF MarkHonest
  <2> QED BY <1>1 DEF OfASave, HonestMark, Configured
<1> QED BY <1>5, <1>6 DEF SettingsInv, StoreSettingsSound

LEMMA SettingsStart == StoreSettingsInit => SettingsInv
<1> SUFFICES ASSUME StoreSettingsInit PROVE SettingsInv OBVIOUS
<1>1. /\ connector = Unset /\ testing = IdleTest /\ storeRun = IdleRun
      /\ saving = [u \in Savers |-> NoCopy] /\ saves = 0 /\ edited = 0
      /\ pulledTill = [s \in StoreSites |-> 0] /\ lastSecret = 0 /\ lost = {}
  BY DEF StoreSettingsInit
<1>2. \A r \in Rows : r = NoCopy \/ r = Unset BY <1>1 DEF Rows, IdleTest, IdleRun
<1>3. OfASave(Unset, 0, pulledTill) /\ HonestMark(Unset.mark, pulledTill)
  BY <1>1 DEF OfASave, IsSettingsRow, Unset, HonestMark, StoreSites
<1>4. Unset # NoCopy
  <2>1. Unset.save = 0 BY DEF Unset
  <2> QED BY <2>1, NoCopyIs
<1>5. SettingsStand /\ RowsAgree BY <1>1, <1>2, <1>3 DEF SettingsStand, RowsAgree, OneSave
<1>6. InHand
  <2>1. IsTest(testing) /\ IsRun(storeRun) /\ testing.copy = NoCopy /\ storeRun.copy = NoCopy
        /\ testing.at = "idle" /\ storeRun.at = "idle" /\ storeRun.asked = {} /\ storeRun.began = 0
        /\ storeRun.since = Unset.mark
    BY <1>1 DEF IsTest, IsRun, IdleTest, IdleRun
  <2>2. ~storeRun.flushed BY <1>1 DEF IdleRun
  <2>3. Unset.save = 0 BY DEF Unset
  <2>4. connector.save \in 0..saves /\ saves \in 0..MaxSaves BY <1>1, <2>3, StoreSettingsAssumption
  <2>5. pulledTill \in [StoreSites -> Nat] /\ saving = [u \in Savers |-> saving[u]] BY <1>1
  <2> QED BY <1>1, <1>3, <1>4, <2>1, <2>2, <2>4, <2>5 DEF InHand, HeldIsSaved
<1>7. KeysStay /\ SecretStays BY <1>1 DEF KeysStay, SecretStays, Unset
<1>8. PluginOfThisStore BY DEF StoreSettingsInit, PluginOfThisStore
<1> QED BY <1>5, <1>6, <1>7, <1>8 DEF SettingsInv

--------------------
LEMMA HeldFits == SettingsInv => \A r \in Rows : Fits(r)
<1> SUFFICES ASSUME SettingsInv, NEW r \in Rows, r # NoCopy PROVE IsSettingsRow(r)
  BY DEF Fits, SaysSame
<1> QED BY DEF SettingsInv, SettingsStand, OfASave

(* The row a session sees is one that is held. *)
LEMMA SeenRow ==
  ASSUME SettingsInv, NEW copy \in Rows \cup {NoCopy}
  PROVE  /\ View(copy) \in Rows /\ View(copy) # NoCopy /\ IsSettingsRow(View(copy))
         /\ OfASave(View(copy), saves, pulledTill)
         /\ (copy = NoCopy => View(copy) = connector) /\ (copy # NoCopy => View(copy) = copy)
<1>1. connector \in Rows /\ connector # NoCopy BY DEF SettingsInv, InHand, Rows
<1>2. View(copy) \in Rows /\ View(copy) # NoCopy BY <1>1 DEF View
<1> QED BY <1>2 DEF SettingsInv, SettingsStand, OfASave, View

LEMMA LearnedFits ==
  ASSUME SettingsInv, NEW copy \in Rows \cup {NoCopy}
  PROVE  /\ Fits(Learned(copy)) /\ (copy # NoCopy => Learned(copy) # NoCopy)
         /\ (Learned(copy) = NoCopy \/ Learned(copy).save = View(copy).save)
<1>1. /\ View(copy) \in Rows /\ View(copy) # NoCopy /\ IsSettingsRow(View(copy))
      /\ View(copy).save \in Nat /\ (copy # NoCopy => View(copy) = copy)
  BY SeenRow DEF OfASave
<1>2. Fits(copy) BY HeldFits DEF Fits
<1>3. CASE View(copy).mode = ModeOf[View(copy).site]
  <2>1. Learned(copy) = copy BY <1>3 DEF Learned
  <2> QED BY <1>1, <1>2, <2>1
<1>4. CASE View(copy).mode # ModeOf[View(copy).site]
  <2> DEFINE v == View(copy)
             m == ModeOf[View(copy).site]
  <2>1. Learned(copy) = [v EXCEPT !.mode = m] BY <1>4 DEF Learned
  <2>2. v \in Rows /\ v # NoCopy /\ IsSettingsRow(v) /\ v.save \in Nat BY <1>1
  <2>3. View(copy).save = v.save OBVIOUS
  <2> HIDE DEF v, m
  <2>4. Learned(copy) = [site |-> v.site, save |-> v.save, secret |-> v.secret, mode |-> m,
                         mark |-> v.mark, plugin |-> v.plugin]
    BY <2>1, <2>2 DEF IsSettingsRow
  <2>5. IsSettingsRow(Learned(copy)) /\ SaysSame(Learned(copy), v)
    BY <2>4 DEF IsSettingsRow, SaysSame
  <2>6. Learned(copy).save # -1
    <3>1. Learned(copy).save = v.save BY <2>5 DEF SaysSame
    <3> QED BY <2>2, <3>1
  <2>7. Learned(copy) # NoCopy BY <2>6, NoCopyIs
  <2> QED BY <2>2, <2>3, <2>5, <2>7 DEF Fits, SaysSame
<1> QED BY <1>3, <1>4

(* Rows that say what others said stand as they stood. *)
LEMMA RowsCarried ==
  ASSUME SettingsInv, saves' = saves, pulledTill' = pulledTill,
         Fits(connector'), Fits(testing'.copy), Fits(storeRun'.copy),
         \A u \in Savers : Fits(saving'[u])
  PROVE  SettingsStand' /\ RowsAgree'
<1>1. \A r \in Rows' : Fits(r) BY DEF Rows
<1>2. \A r \in Rows' : r = NoCopy \/ OfASave(r, saves, pulledTill)
  <2> SUFFICES ASSUME NEW r \in Rows', r # NoCopy PROVE OfASave(r, saves, pulledTill) OBVIOUS
  <2>1. PICK q \in Rows : q # NoCopy /\ SaysSame(r, q) BY <1>1 DEF Fits
  <2>2. OfASave(q, saves, pulledTill) /\ IsSettingsRow(r)
    BY <1>1, <2>1 DEF Fits, SettingsInv, SettingsStand
  <2> QED BY <2>1, <2>2 DEF OfASave, SaysSame
<1>3. \A r, s \in Rows' : r # NoCopy /\ s # NoCopy => OneSave(r, s)
  <2> SUFFICES ASSUME NEW r \in Rows', NEW s \in Rows', r # NoCopy, s # NoCopy
               PROVE  OneSave(r, s)
    OBVIOUS
  <2>1. PICK q \in Rows : q # NoCopy /\ SaysSame(r, q) BY <1>1 DEF Fits
  <2>2. PICK p \in Rows : p # NoCopy /\ SaysSame(s, p) BY <1>1 DEF Fits
  <2>3. OneSave(q, p) BY <2>1, <2>2 DEF SettingsInv, RowsAgree
  <2> QED BY <2>1, <2>2, <2>3 DEF OneSave, SaysSame
<1> QED BY <1>2, <1>3 DEF SettingsStand, RowsAgree

LEMMA HeldRowsFit ==
  SettingsInv => /\ Fits(connector) /\ Fits(testing.copy) /\ Fits(storeRun.copy) /\ Fits(NoCopy)
                 /\ \A u \in Savers : Fits(saving[u])
<1> SUFFICES ASSUME SettingsInv
             PROVE  /\ Fits(connector) /\ Fits(testing.copy) /\ Fits(storeRun.copy) /\ Fits(NoCopy)
                    /\ \A u \in Savers : Fits(saving[u])
  OBVIOUS
<1>1. Fits(NoCopy) BY DEF Fits
<1>2. connector \in Rows /\ testing.copy \in Rows /\ storeRun.copy \in Rows
      /\ \A u \in Savers : saving[u] \in Rows
  BY DEF Rows
<1> QED BY <1>1, <1>2, HeldFits

LEMMA ReadToSaveStep ==
  ASSUME SettingsInv, NEW u \in Savers, ReadToSave(u)
  PROVE  SettingsInv'
<1>1. /\ saving' = [saving EXCEPT ![u] = connector]
      /\ UNCHANGED <<connector, testing, storeRun, edited, pulledTill, saves, lastSecret, lost,
                     overlap, tested>>
  BY DEF ReadToSave
<1>2. saving = [v \in Savers |-> saving[v]] BY DEF SettingsInv, InHand
<1>3. saving' = [v \in Savers |-> IF v = u THEN connector ELSE saving[v]] BY <1>1, <1>2
<1>4. \A v \in Savers : Fits(saving'[v]) BY <1>3, HeldRowsFit
<1>5. SettingsStand' /\ RowsAgree' BY <1>1, <1>4, HeldRowsFit, RowsCarried
<1>6. saving' = [v \in Savers |-> saving'[v]] BY <1>3
<1>7. InHand' BY <1>1, <1>6 DEF SettingsInv, InHand, Configured
<1> QED BY <1>1, <1>5, <1>7 DEF SettingsInv, KeysStay, SecretStays, PluginOfThisStore

(* A save that was read and is written becomes the row, and no other row is of that save. *)
LEMMA WriteSavedStep ==
  ASSUME SettingsInv, NEW u \in Savers, WriteSaved(u)
  PROVE  SettingsInv'
<1>1. PICK site \in StoreSites, secret \in BOOLEAN :
        /\ saving[u] # NoCopy /\ saves < MaxSaves
        /\ IF saving[u].save = 0 /\ Configured(connector)
           THEN UNCHANGED <<connector, saves, lastSecret, overlap, tested>>
           ELSE /\ connector' = SavedOver(saving[u], site, secret)
                /\ saves' = saves + 1 /\ lastSecret' = IF secret THEN saves + 1 ELSE lastSecret
                /\ overlap' = (overlap \/ saving[u].save # connector.save)
                /\ tested' = (StillTested(saving[u]) /\ site = connector.site)
        /\ saving' = [saving EXCEPT ![u] = NoCopy]
        /\ UNCHANGED <<testing, storeRun, edited, pulledTill, lost>>
  BY Zenon DEF WriteSaved
<1>2. saving = [v \in Savers |-> saving[v]] BY DEF SettingsInv, InHand
<1>3. saving' = [v \in Savers |-> IF v = u THEN NoCopy ELSE saving[v]] BY <1>1, <1>2
<1>4. saving' = [v \in Savers |-> saving'[v]] BY <1>3
<1>5. CASE saving[u].save = 0 /\ Configured(connector)
  <2>1. UNCHANGED <<connector, saves, lastSecret, overlap, tested, testing, storeRun, edited,
                    pulledTill, lost>>
    BY <1>1, <1>5
  <2>2. \A v \in Savers : Fits(saving'[v]) BY <1>3, HeldRowsFit
  <2>3. SettingsStand' /\ RowsAgree' BY <2>1, <2>2, HeldRowsFit, RowsCarried
  <2>4. InHand' BY <1>4, <2>1 DEF SettingsInv, InHand, Configured
  <2> QED BY <2>1, <2>3, <2>4 DEF SettingsInv, KeysStay, SecretStays, PluginOfThisStore
<1>6. CASE ~(saving[u].save = 0 /\ Configured(connector))
  <2> DEFINE r == saving[u]
             s == IF secret THEN saves + 1 ELSE r.secret
  <2>1. /\ r \in Rows /\ r # NoCopy /\ IsSettingsRow(r) /\ OfASave(r, saves, pulledTill)
    BY <1>1 DEF SettingsInv, SettingsStand, Rows, OfASave
  <2>2. connector' = SavedOver(r, site, secret) BY <1>1, <1>6
  <2>3. connector' = [site |-> site, save |-> saves + 1, secret |-> s, mode |-> r.mode,
                      mark |-> r.mark, plugin |-> r.plugin]
    <3>1. r = [site |-> r.site, save |-> r.save, secret |-> r.secret, mode |-> r.mode,
               mark |-> r.mark, plugin |-> r.plugin]
      BY <2>1 DEF IsSettingsRow
    <3>2. connector' = [r EXCEPT !.site = site, !.save = saves + 1, !.secret = s]
      BY <2>2 DEF SavedOver
    <3> QED BY <3>1, <3>2
  <2>4. /\ saves' = saves + 1 /\ lastSecret' = (IF secret THEN saves + 1 ELSE lastSecret)
        /\ UNCHANGED <<testing, storeRun, edited, pulledTill, lost>>
    BY <1>1, <1>6
  <2>5. /\ saves \in Nat /\ saves' \in 0..MaxSaves /\ saves' \in Nat /\ MaxSaves \in Nat
    BY <1>1, <2>4, StoreSettingsAssumption DEF SettingsInv, InHand
  <2>6. /\ connector'.save = saves + 1 /\ connector'.site = site /\ connector'.secret = s
        /\ connector'.mark = r.mark /\ connector'.plugin = r.plugin /\ IsSettingsRow(connector')
    BY <2>3 DEF IsSettingsRow
  <2>7. connector'.save > 0 /\ connector'.save # -1 /\ connector'.save \in 0..saves'
        /\ connector' # NoCopy /\ connector'.save # 0
    <3>1. connector'.save > 0 /\ connector'.save # -1 /\ connector'.save \in 0..saves'
          /\ connector'.save # 0
      BY <2>4, <2>5, <2>6
    <3> QED BY <3>1, NoCopyIs
  <2>8. OfASave(connector', saves', pulledTill') BY <2>1, <2>4, <2>6, <2>7 DEF OfASave
  <2>9. \A q \in Rows' : q = connector' \/ q = NoCopy \/ q \in Rows BY <1>3, <2>4 DEF Rows
  <2>10. \A q \in Rows : q # NoCopy => OfASave(q, saves', pulledTill') /\ q.save # saves + 1
    <3> SUFFICES ASSUME NEW q \in Rows, q # NoCopy
                 PROVE  OfASave(q, saves', pulledTill') /\ q.save # saves + 1
      OBVIOUS
    <3>1. OfASave(q, saves, pulledTill) BY DEF SettingsInv, SettingsStand
    <3>2. q.save \in 0..saves BY <3>1 DEF OfASave
    <3>3. q.save \in 0..saves' /\ q.save # saves + 1 BY <2>4, <2>5, <3>2
    <3> QED BY <2>4, <3>1, <3>3 DEF OfASave
  <2>11. SettingsStand' BY <2>8, <2>9, <2>10 DEF SettingsStand
  <2>12. RowsAgree'
    <3> SUFFICES ASSUME NEW p \in Rows', NEW q \in Rows', p # NoCopy, q # NoCopy
                 PROVE  OneSave(p, q)
      BY DEF RowsAgree
    <3>1. (p = connector' \/ p \in Rows) /\ (q = connector' \/ q \in Rows) BY <2>9
    <3>2. CASE p = connector' /\ q = connector' BY <3>2 DEF OneSave
    <3>3. CASE p = connector' /\ q \in Rows BY <2>6, <2>10, <3>3 DEF OneSave
    <3>4. CASE p \in Rows /\ q = connector' BY <2>6, <2>10, <3>4 DEF OneSave
    <3>5. CASE p \in Rows /\ q \in Rows BY <3>5 DEF OneSave, SettingsInv, RowsAgree
    <3> QED BY <3>1, <3>2, <3>3, <3>4, <3>5
  <2>13. InHand' BY <1>4, <2>4, <2>5, <2>7 DEF SettingsInv, InHand, Configured
  <2>14. KeysStay' BY <2>4, <2>6 DEF SettingsInv, KeysStay
  <2>15. SecretStays'
    <3> SUFFICES ASSUME ~(lost # {}), ~overlap' PROVE connector'.secret = lastSecret'
      BY <2>4 DEF SecretStays
    <3>1. overlap' = (overlap \/ saving[u].save # connector.save) BY <1>1, <1>6
    <3>2. ~overlap /\ r.save = connector.save BY <3>1
    <3>3. connector.secret = lastSecret BY <3>2 DEF SettingsInv, SecretStays
    <3>4. r.secret = connector.secret
      <4>1. OneSave(r, connector)
        <5>1. connector \in Rows /\ connector # NoCopy BY DEF SettingsInv, InHand, Rows
        <5> QED BY <2>1, <5>1 DEF SettingsInv, RowsAgree
      <4> QED BY <3>2, <4>1 DEF OneSave
    <3> QED BY <2>4, <2>6, <3>3, <3>4
  <2>16. PluginOfThisStore'
    <3> SUFFICES ASSUME tested' PROVE connector'.plugin = connector'.site BY DEF PluginOfThisStore
    <3>1. tested' = (StillTested(saving[u]) /\ site = connector.site) BY <1>1, <1>6
    <3>2. tested /\ r.plugin = connector.plugin /\ site = connector.site BY <3>1 DEF StillTested
    <3>3. connector.plugin = connector.site BY <3>2 DEF SettingsInv, PluginOfThisStore
    <3> QED BY <2>6, <3>2, <3>3
  <2> QED BY <2>11, <2>12, <2>13, <2>14, <2>15, <2>16 DEF SettingsInv
<1> QED BY <1>5, <1>6

--------------------
\* A row that is held is written as the settings: where that was not the row it was, it is known.
WrittenBack(entry, what, found) ==
  /\ entry \in Rows /\ entry # NoCopy
  /\ connector'.site = entry.site /\ connector'.save = entry.save /\ connector'.secret = entry.secret
  /\ WroteOver(what, entry, found)
  /\ UNCHANGED <<saves, lastSecret, overlap>>

LEMMA WrittenBackKeeps ==
  ASSUME SettingsInv, NEW entry, NEW what, NEW found, WrittenBack(entry, what, found),
         entry # connector => found
  PROVE  KeysStay' /\ SecretStays'
<1>1. /\ entry \in Rows /\ entry # NoCopy /\ connector \in Rows /\ connector # NoCopy
      /\ connector'.site = entry.site /\ connector'.save = entry.save /\ connector'.secret = entry.secret
      /\ UNCHANGED <<saves, lastSecret, overlap>>
  BY DEF WrittenBack, SettingsInv, InHand, Rows
<1>2. OneSave(entry, connector) BY <1>1 DEF SettingsInv, RowsAgree
<1>3. CASE entry.save = connector.save
  <2>1. lost' = lost BY <1>3 DEF WrittenBack, WroteOver
  <2>2. connector'.save = connector.save /\ connector'.secret = connector.secret
    BY <1>1, <1>2, <1>3 DEF OneSave
  <2> QED BY <1>1, <2>1, <2>2 DEF SettingsInv, KeysStay, SecretStays
<1>4. CASE entry.save # connector.save
  <2>1. lost' = lost \cup {[by |-> what, learned |-> found]} BY <1>4 DEF WrittenBack, WroteOver
  <2>2. found BY <1>4
  <2>3. lost' # {} BY <2>1
  <2>4. \A l \in lost' : l.learned BY <2>1, <2>2 DEF SettingsInv, KeysStay
  <2> QED BY <2>3, <2>4 DEF KeysStay, SecretStays
<1> QED BY <1>3, <1>4

LEMMA TestStarts ==
  ASSUME SettingsInv, BeginTest \/ ProbePlugin
  PROVE  SettingsInv'
<1>1. UNCHANGED <<connector, saving, storeRun, edited, pulledTill, saves, lastSecret, lost,
                  overlap, tested>>
  BY DEF BeginTest, ProbePlugin
<1>2. IsTest(testing') /\ Fits(testing'.copy) /\ HeldIsSaved(testing'.copy) /\ Configured(connector)
  <2>1. CASE BeginTest
    <3>1. testing' = [at |-> "asked", site |-> connector.site, copy |-> Learned(NoCopy)]
          /\ Configured(connector)
      BY <2>1 DEF BeginTest
    <3>2. Fits(Learned(NoCopy)) /\ (Learned(NoCopy) = NoCopy \/ Learned(NoCopy).save = connector.save)
      BY LearnedFits, SeenRow
    <3> QED BY <3>1, <3>2 DEF IsTest, HeldIsSaved, Configured
  <2>2. CASE ProbePlugin
    <3>1. testing' = [testing EXCEPT !.at = "probed", !.site = View(testing.copy).site]
          /\ testing.at = "asked"
      BY <2>2 DEF ProbePlugin
    <3>2. IsTest(testing) /\ HeldIsSaved(testing.copy) /\ Configured(connector)
      BY <3>1 DEF SettingsInv, InHand
    <3>3. testing' = [at |-> "probed", site |-> View(testing.copy).site, copy |-> testing.copy]
      BY <3>1, <3>2 DEF IsTest
    <3> QED BY <3>2, <3>3, HeldRowsFit DEF IsTest
  <2> QED BY <2>1, <2>2
<1>3. SettingsStand' /\ RowsAgree' BY <1>1, <1>2, HeldRowsFit, RowsCarried
<1>4. InHand' BY <1>1, <1>2 DEF SettingsInv, InHand, Configured
<1> QED BY <1>1, <1>3, <1>4 DEF SettingsInv, KeysStay, SecretStays, PluginOfThisStore

\* The row that was seen, with another status of the plugin.
LEMMA EndTestStep ==
  ASSUME SettingsInv, EndTest
  PROVE  SettingsInv'
<1> DEFINE v == View(testing.copy)
<1>1. /\ connector' = [v EXCEPT !.plugin = testing.site]
      /\ WroteOver("test", v, testing.copy # NoCopy)
      /\ tested' = (testing.site = v.site) /\ testing' = IdleTest
      /\ UNCHANGED <<saving, storeRun, edited, pulledTill, saves, lastSecret, overlap>>
      /\ testing.at = "probed"
  BY DEF EndTest
<1>2. testing.copy \in Rows BY DEF Rows
<1>3. /\ v \in Rows /\ v # NoCopy /\ IsSettingsRow(v) /\ OfASave(v, saves, pulledTill)
      /\ (testing.copy = NoCopy => v = connector) /\ (testing.copy # NoCopy => v = testing.copy)
  BY <1>2, SeenRow
<1>4. v.save > 0 BY <1>1, <1>3 DEF SettingsInv, InHand, HeldIsSaved, Configured
<1> HIDE DEF v
<1>5. connector' = [site |-> v.site, save |-> v.save, secret |-> v.secret, mode |-> v.mode,
                    mark |-> v.mark, plugin |-> testing.site]
  BY <1>1, <1>3 DEF IsSettingsRow
<1>6. IsSettingsRow(connector') /\ SaysSame(connector', v) /\ connector'.plugin = testing.site
  BY <1>5 DEF IsSettingsRow, SaysSame
<1>7. connector'.save > 0 /\ connector' # NoCopy /\ connector'.save \in 0..saves
  <2>1. connector'.save = v.save /\ v.save \in 0..saves BY <1>3, <1>6 DEF SaysSame, OfASave
  <2>2. connector'.save # -1 BY <2>1
  <2> QED BY <1>4, <2>1, <2>2, NoCopyIs
<1>8. IsTest(testing') /\ testing'.copy = NoCopy /\ testing'.at = "idle"
  BY <1>1 DEF IsTest, IdleTest
<1>9. SettingsStand' /\ RowsAgree'
  <2>1. Fits(connector') /\ Fits(testing'.copy) BY <1>3, <1>6, <1>8 DEF Fits
  <2> QED BY <1>1, <2>1, HeldRowsFit, RowsCarried
<1>10. InHand' BY <1>1, <1>7, <1>8 DEF SettingsInv, InHand, HeldIsSaved, Configured
<1>11. KeysStay' /\ SecretStays'
  <2>1. WrittenBack(v, "test", testing.copy # NoCopy) BY <1>1, <1>3, <1>6 DEF WrittenBack, SaysSame
  <2> QED BY <1>3, <2>1, WrittenBackKeeps
<1>12. PluginOfThisStore'
  <2> SUFFICES ASSUME tested' PROVE connector'.plugin = connector'.site BY DEF PluginOfThisStore
  <2>1. testing.site = v.site BY <1>1
  <2> QED BY <1>6, <2>1 DEF SaysSame
<1> QED BY <1>9, <1>10, <1>11, <1>12 DEF SettingsInv

LEMMA TestStopsStep ==
  ASSUME SettingsInv, TestStops
  PROVE  SettingsInv'
<1>1. /\ testing' = IdleTest
      /\ UNCHANGED <<saving, storeRun, edited, pulledTill, saves, lastSecret, overlap>>
      /\ testing.at = "asked"
      /\ IF testing.copy = NoCopy THEN UNCHANGED <<connector, lost, tested>>
         ELSE /\ connector' = testing.copy /\ WroteOver("test", testing.copy, TRUE)
              /\ tested' = StillTested(testing.copy)
  BY DEF TestStops
<1>2. IsTest(testing') /\ testing'.copy = NoCopy /\ testing'.at = "idle" /\ Fits(testing'.copy)
  BY <1>1 DEF IsTest, IdleTest, Fits
<1>3. CASE testing.copy = NoCopy
  <2>1. UNCHANGED <<connector, lost, tested>> BY <1>1, <1>3
  <2>2. SettingsStand' /\ RowsAgree' BY <1>1, <1>2, <2>1, HeldRowsFit, RowsCarried
  <2>3. InHand' BY <1>1, <1>2, <2>1 DEF SettingsInv, InHand, HeldIsSaved, Configured
  <2> QED BY <1>1, <2>1, <2>2, <2>3 DEF SettingsInv, KeysStay, SecretStays, PluginOfThisStore
<1>4. CASE testing.copy # NoCopy
  <2>1. connector' = testing.copy /\ WroteOver("test", testing.copy, TRUE)
        /\ tested' = StillTested(testing.copy)
    BY <1>1, <1>4
  <2>2. SettingsStand' /\ RowsAgree'
    <3>1. Fits(connector') BY <2>1, HeldRowsFit
    <3> QED BY <1>1, <1>2, <3>1, HeldRowsFit, RowsCarried
  <2>3. testing.copy \in Rows /\ testing.copy.save > 0 /\ testing.copy.save \in 0..saves
    BY <1>4 DEF SettingsInv, InHand, HeldIsSaved, SettingsStand, Rows, OfASave
  <2>4. InHand' BY <1>1, <1>2, <1>4, <2>1, <2>3 DEF SettingsInv, InHand, HeldIsSaved, Configured
  <2>5. KeysStay' /\ SecretStays'
    <3>1. WrittenBack(testing.copy, "test", TRUE) BY <1>1, <1>4, <2>1, <2>3 DEF WrittenBack
    <3> QED BY <3>1, WrittenBackKeeps
  <2>6. PluginOfThisStore'
    <3> SUFFICES ASSUME tested' PROVE connector'.plugin = connector'.site BY DEF PluginOfThisStore
    <3>1. tested /\ testing.copy.site = connector.site /\ testing.copy.plugin = connector.plugin
      BY <2>1 DEF StillTested
    <3> QED BY <2>1, <3>1 DEF SettingsInv, PluginOfThisStore
  <2> QED BY <2>2, <2>4, <2>5, <2>6 DEF SettingsInv
<1> QED BY <1>3, <1>4

--------------------
LEMMA StoreRunSteps ==
  ASSUME SettingsInv, BeginStoreRun \/ PullPage \/ FlushPage \/ StoreRunFails
  PROVE  SettingsInv'
<1>1. UNCHANGED <<connector, saving, testing, edited, pulledTill, saves, lastSecret, lost,
                  overlap, tested>>
  BY DEF BeginStoreRun, PullPage, FlushPage, StoreRunFails
<1>2. /\ connector \in Rows /\ storeRun.copy \in Rows /\ IsRun(storeRun) /\ edited \in Nat
      /\ OfASave(connector, saves, pulledTill)
      /\ HonestMark(storeRun.since, pulledTill) /\ storeRun.asked \subseteq StoreSites
      /\ storeRun.began \in Nat /\ HeldIsSaved(storeRun.copy)
      /\ (storeRun.flushed => storeRun.copy # NoCopy)
      /\ (storeRun.at # "idle" => Configured(connector))
  BY DEF SettingsInv, InHand, SettingsStand, Rows
<1>3. HonestMark(IdleRun.since, pulledTill)
  <2>1. pulledTill \in [StoreSites -> Nat] BY DEF SettingsInv, InHand
  <2>2. IdleRun.since.till = 0 /\ IdleRun.since.of = {} BY DEF IdleRun, Unset
  <2> QED BY <2>1, <2>2 DEF HonestMark
<1>4. /\ Fits(storeRun'.copy) /\ IsRun(storeRun') /\ HeldIsSaved(storeRun'.copy)
      /\ (storeRun'.flushed => storeRun'.copy # NoCopy)
      /\ (storeRun'.at # "idle" => Configured(connector))
      /\ storeRun'.asked \subseteq StoreSites /\ HonestMark(storeRun'.since, pulledTill)
      /\ storeRun'.began \in Nat
  <2>1. CASE BeginStoreRun
    <3>1. /\ storeRun' = [at |-> "pulling", began |-> edited, since |-> connector.mark,
                          asked |-> {}, copy |-> NoCopy, flushed |-> FALSE]
          /\ Configured(connector)
      BY <2>1 DEF BeginStoreRun, IdleRun
    <3>2. /\ storeRun'.began = edited /\ storeRun'.since = connector.mark /\ storeRun'.asked = {}
          /\ storeRun'.copy = NoCopy /\ ~storeRun'.flushed /\ IsRun(storeRun')
      BY <3>1 DEF IsRun
    <3>3. HonestMark(connector.mark, pulledTill) BY <1>2 DEF OfASave
    <3>4. HonestMark(storeRun'.since, pulledTill) /\ Fits(storeRun'.copy) /\ HeldIsSaved(storeRun'.copy)
      BY <3>2, <3>3 DEF Fits, HeldIsSaved
    <3> QED BY <1>2, <3>1, <3>2, <3>4
  <2>2. CASE PullPage
    <3> DEFINE copy == Learned(storeRun.copy)
               site == View(storeRun.copy).site
    <3>1. /\ storeRun' = [storeRun EXCEPT !.asked = @ \cup {site}, !.copy = copy]
          /\ storeRun.at = "pulling"
      BY <2>2 DEF PullPage
    <3>2. /\ Fits(copy) /\ (storeRun.copy # NoCopy => copy # NoCopy)
          /\ (copy = NoCopy \/ copy.save = View(storeRun.copy).save)
      BY <1>2, LearnedFits
    <3>3. /\ OfASave(View(storeRun.copy), saves, pulledTill)
          /\ (storeRun.copy = NoCopy => View(storeRun.copy) = connector)
          /\ (storeRun.copy # NoCopy => View(storeRun.copy) = storeRun.copy)
      BY <1>2, SeenRow
    <3>4. View(storeRun.copy).save > 0 BY <1>2, <3>1, <3>3 DEF HeldIsSaved, Configured
    <3>5. site \in StoreSites BY <3>3, <3>4 DEF OfASave
    <3>6. HeldIsSaved(copy) BY <3>2, <3>4 DEF HeldIsSaved
    <3> HIDE DEF copy, site
    <3>7. storeRun' = [at |-> storeRun.at, began |-> storeRun.began, since |-> storeRun.since,
                       asked |-> storeRun.asked \cup {site}, copy |-> copy,
                       flushed |-> storeRun.flushed]
      BY <1>2, <3>1 DEF IsRun
    <3>8. /\ storeRun'.began = storeRun.began /\ storeRun'.since = storeRun.since
          /\ storeRun'.asked = storeRun.asked \cup {site} /\ storeRun'.copy = copy
          /\ storeRun'.flushed = storeRun.flushed /\ IsRun(storeRun')
      BY <3>7 DEF IsRun
    <3> QED BY <1>2, <3>1, <3>2, <3>5, <3>6, <3>8
  <2>3. CASE FlushPage
    <3>1. storeRun' = [storeRun EXCEPT !.flushed = TRUE] /\ storeRun.copy # NoCopy
      BY <2>3 DEF FlushPage
    <3>2. storeRun' = [at |-> storeRun.at, began |-> storeRun.began, since |-> storeRun.since,
                       asked |-> storeRun.asked, copy |-> storeRun.copy, flushed |-> TRUE]
      BY <1>2, <3>1 DEF IsRun
    <3>3. /\ storeRun'.began = storeRun.began /\ storeRun'.since = storeRun.since
          /\ storeRun'.asked = storeRun.asked /\ storeRun'.copy = storeRun.copy
          /\ storeRun'.at = storeRun.at /\ IsRun(storeRun')
      BY <3>2 DEF IsRun
    <3> QED BY <1>2, <3>1, <3>3, HeldRowsFit
  <2>4. CASE StoreRunFails
    <3>1. storeRun' = IdleRun BY <2>4 DEF StoreRunFails
    <3>2. /\ IsRun(IdleRun) /\ IdleRun.copy = NoCopy /\ IdleRun.at = "idle" /\ ~IdleRun.flushed
          /\ IdleRun.asked = {} /\ IdleRun.began = 0
      BY DEF IsRun, IdleRun
    <3> QED BY <1>3, <3>1, <3>2, HeldRowsFit DEF HeldIsSaved
  <2> QED BY <2>1, <2>2, <2>3, <2>4
<1>5. SettingsStand' /\ RowsAgree' BY <1>1, <1>4, HeldRowsFit, RowsCarried
<1>6. InHand' BY <1>1, <1>4 DEF SettingsInv, InHand, Configured
<1> QED BY <1>1, <1>5, <1>6 DEF SettingsInv, KeysStay, SecretStays, PluginOfThisStore

(* A pull that ends writes the row it merges with, with the checkpoint it began at. *)
LEMMA EndStoreRunStep ==
  ASSUME SettingsInv, EndStoreRun
  PROVE  SettingsInv'
<1> DEFINE base == MergeBase
           of == storeRun.asked \cup storeRun.since.of
           mark == [till |-> storeRun.began, of |-> of]
<1>1. /\ storeRun.at = "pulling" /\ storeRun.asked # {}
      /\ connector' = [base EXCEPT !.mark = mark]
      /\ WroteOver("run", base, storeRun.flushed)
      /\ tested' = StillTested(base)
      /\ pulledTill' = [s \in StoreSites |->
           IF storeRun.asked = {s} /\ storeRun.since.till <= pulledTill[s]
              /\ storeRun.began > pulledTill[s] THEN storeRun.began ELSE pulledTill[s]]
      /\ storeRun' = IdleRun
      /\ UNCHANGED <<saving, testing, edited, saves, lastSecret, overlap>>
  BY DEF EndStoreRun
<1>2. /\ (storeRun.flushed => base = storeRun.copy /\ storeRun.copy # NoCopy)
      /\ (~storeRun.flushed => base = connector)
  BY DEF MergeBase, SettingsInv, InHand
<1>3. /\ base \in Rows /\ base # NoCopy /\ OfASave(base, saves, pulledTill) /\ IsSettingsRow(base)
  <2>1. base \in Rows /\ base # NoCopy BY <1>2 DEF Rows, SettingsInv, InHand
  <2> QED BY <2>1 DEF SettingsInv, SettingsStand, OfASave
<1>4. /\ HonestMark(storeRun.since, pulledTill) /\ storeRun.asked \subseteq StoreSites
      /\ storeRun.began \in Nat /\ pulledTill \in [StoreSites -> Nat] /\ saves \in Nat
      /\ (storeRun.at # "idle" => Configured(connector)) /\ HeldIsSaved(storeRun.copy)
      /\ storeRun.since.till \in Nat
  BY DEF SettingsInv, InHand, HonestMark
<1>5. base.save > 0 BY <1>1, <1>2, <1>4 DEF HeldIsSaved, Configured
<1>6. pulledTill' \in [StoreSites -> Nat] /\ \A s \in StoreSites : pulledTill[s] <= pulledTill'[s]
  <2>1. \A s \in StoreSites :
          /\ pulledTill[s] \in Nat
          /\ pulledTill'[s] = pulledTill[s]
             \/ (pulledTill'[s] = storeRun.began /\ storeRun.began > pulledTill[s])
    BY <1>1, <1>4
  <2>2. \A s \in StoreSites : pulledTill'[s] \in Nat /\ pulledTill[s] <= pulledTill'[s]
    BY <1>4, <2>1
  <2>3. pulledTill' = [s \in StoreSites |-> pulledTill'[s]] BY <1>1
  <2> QED BY <2>2, <2>3
<1>7. HonestMark(mark, pulledTill')
  <2>1. mark.till = storeRun.began /\ mark.of = of /\ of \subseteq StoreSites BY <1>4 DEF HonestMark
  <2>2. ASSUME NEW s \in StoreSites, of \subseteq {s} PROVE storeRun.began <= pulledTill'[s]
    <3>1. storeRun.asked = {s} /\ storeRun.since.of \subseteq {s} BY <1>1, <2>2
    <3>2. storeRun.since.till <= pulledTill[s] /\ pulledTill[s] \in Nat BY <1>4, <3>1 DEF HonestMark
    <3>3. pulledTill'[s] = IF storeRun.began > pulledTill[s] THEN storeRun.began ELSE pulledTill[s]
      BY <1>1, <3>1, <3>2
    <3>4. CASE storeRun.began > pulledTill[s]
      <4>1. pulledTill'[s] = storeRun.began BY <3>3, <3>4
      <4> QED BY <1>4, <4>1
    <3>5. CASE ~(storeRun.began > pulledTill[s])
      <4>1. pulledTill'[s] = pulledTill[s] BY <3>3, <3>5
      <4> QED BY <1>4, <3>2, <3>5, <4>1
    <3> QED BY <3>4, <3>5
  <2> HIDE DEF of
  <2> QED BY <1>4, <2>1, <2>2 DEF HonestMark
<1> HIDE DEF base, of, mark
<1>8. connector' = [site |-> base.site, save |-> base.save, secret |-> base.secret,
                    mode |-> base.mode, mark |-> mark, plugin |-> base.plugin]
  BY <1>1, <1>3 DEF IsSettingsRow
<1>9. /\ connector'.site = base.site /\ connector'.save = base.save
      /\ connector'.secret = base.secret /\ connector'.mark = mark
      /\ connector'.plugin = base.plugin /\ IsSettingsRow(connector')
  BY <1>8 DEF IsSettingsRow
<1>10. connector'.save > 0 /\ connector' # NoCopy /\ connector'.save \in 0..saves
  <2>1. connector'.save = base.save /\ base.save \in 0..saves BY <1>3, <1>9 DEF OfASave
  <2>2. connector'.save # -1 BY <2>1
  <2> QED BY <1>5, <2>1, <2>2, NoCopyIs
<1>11. /\ IsRun(IdleRun) /\ IdleRun.copy = NoCopy /\ IdleRun.at = "idle" /\ ~IdleRun.flushed
       /\ IdleRun.asked = {} /\ IdleRun.began = 0 /\ IdleRun.since.till = 0
       /\ IdleRun.since.of = {}
  BY DEF IsRun, IdleRun, Unset
<1>12. \A q \in Rows' : q = connector' \/ q = NoCopy \/ q \in Rows BY <1>1, <1>11 DEF Rows
<1>13. \A q \in Rows : q # NoCopy => OfASave(q, saves, pulledTill')
  <2> SUFFICES ASSUME NEW q \in Rows, q # NoCopy PROVE OfASave(q, saves, pulledTill') OBVIOUS
  <2>1. OfASave(q, saves, pulledTill) BY DEF SettingsInv, SettingsStand
  <2>2. HonestMark(q.mark, pulledTill')
    <3>1. HonestMark(q.mark, pulledTill) BY <2>1 DEF OfASave
    <3>2. \A s \in StoreSites : q.mark.of \subseteq {s} => q.mark.till <= pulledTill'[s]
      <4> SUFFICES ASSUME NEW s \in StoreSites, q.mark.of \subseteq {s}
                   PROVE  q.mark.till <= pulledTill'[s]
        OBVIOUS
      <4>1. q.mark.till \in Nat /\ q.mark.till <= pulledTill[s] BY <3>1 DEF HonestMark
      <4>2. pulledTill[s] \in Nat /\ pulledTill'[s] \in Nat /\ pulledTill[s] <= pulledTill'[s]
        BY <1>4, <1>6
      <4> QED BY <4>1, <4>2
    <3> QED BY <3>1, <3>2 DEF HonestMark
  <2> QED BY <2>1, <2>2 DEF OfASave
<1>14. OfASave(connector', saves, pulledTill') BY <1>3, <1>7, <1>9, <1>10 DEF OfASave
<1>15. SettingsStand' BY <1>1, <1>12, <1>13, <1>14 DEF SettingsStand
<1>16. RowsAgree'
  <2> SUFFICES ASSUME NEW p \in Rows', NEW q \in Rows', p # NoCopy, q # NoCopy
               PROVE  OneSave(p, q)
    BY DEF RowsAgree
  <2>1. (p = connector' \/ p \in Rows) /\ (q = connector' \/ q \in Rows) BY <1>12
  <2>2. \A r, s \in Rows : r # NoCopy /\ s # NoCopy => OneSave(r, s) BY DEF SettingsInv, RowsAgree
  <2> QED BY <1>3, <1>9, <2>1, <2>2 DEF OneSave
<1>17. InHand'
  <2>1. storeRun'.asked \subseteq StoreSites /\ HonestMark(storeRun'.since, pulledTill')
        /\ storeRun'.began \in Nat
    <3>1. 0 \in Nat /\ \A s \in StoreSites : 0 <= pulledTill'[s] BY <1>6
    <3> QED BY <1>1, <1>11, <3>1 DEF HonestMark
  <2>2. Configured(connector') /\ connector'.save \in 0..saves /\ connector' # NoCopy
    BY <1>10 DEF Configured
  <2>3. IsRun(storeRun') /\ storeRun'.copy = NoCopy /\ storeRun'.at = "idle" /\ ~storeRun'.flushed
    BY <1>1, <1>11
  <2> QED BY <1>1, <1>6, <2>1, <2>2, <2>3 DEF SettingsInv, InHand, HeldIsSaved, Configured
<1>18. KeysStay' /\ SecretStays'
  <2>1. WrittenBack(base, "run", storeRun.flushed) BY <1>1, <1>3, <1>9 DEF WrittenBack
  <2>2. base # connector => storeRun.flushed BY <1>2
  <2> QED BY <2>1, <2>2, WrittenBackKeeps
<1>19. PluginOfThisStore'
  <2> SUFFICES ASSUME tested' PROVE connector'.plugin = connector'.site BY DEF PluginOfThisStore
  <2>1. tested /\ base.site = connector.site /\ base.plugin = connector.plugin
    BY <1>1 DEF StillTested
  <2> QED BY <1>9, <2>1 DEF SettingsInv, PluginOfThisStore
<1> QED BY <1>15, <1>16, <1>17, <1>18, <1>19 DEF SettingsInv

(* Every step of the administrators, the test, the run and the stores keeps it. *)
LEMMA SettingsKept == SettingsInv /\ [StoreSettingsNext]_settingsVars => SettingsInv'
<1> SUFFICES ASSUME SettingsInv, [StoreSettingsNext]_settingsVars PROVE SettingsInv' OBVIOUS
<1>1. CASE StoreEdited \/ UNCHANGED settingsVars
  <2>1. UNCHANGED <<connector, saving, testing, storeRun, pulledTill, saves, lastSecret, lost,
                    overlap, tested>> /\ (edited \in Nat => edited' \in Nat)
    BY <1>1 DEF StoreEdited, settingsVars
  <2>2. SettingsStand' /\ RowsAgree' BY <2>1, HeldRowsFit, RowsCarried
  <2>3. InHand' BY <2>1 DEF SettingsInv, InHand, Configured
  <2> QED BY <2>1, <2>2, <2>3 DEF SettingsInv, KeysStay, SecretStays, PluginOfThisStore
<1> QED
  BY <1>1, ReadToSaveStep, WriteSavedStep, TestStarts, EndTestStep, TestStopsStep, StoreRunSteps,
     EndStoreRunStep DEF StoreSettingsNext

(* The keys are those saved last and the secret stays, but for rows that were written over; *)
(* the checkpoint passes nothing over, and the plugin is of the store that is named *)
(* (configure_woocommerce, update_woocommerce_setting_value). *)
THEOREM StoreSettingsTrue == StoreSettingsSpec => [](StoreSettingsTypeOK /\ StoreSettingsSound)
<1>1. StoreSettingsInit => SettingsInv BY SettingsStart
<1>2. SettingsInv /\ [StoreSettingsNext]_settingsVars => SettingsInv' BY SettingsKept
<1>3. SettingsInv => StoreSettingsTypeOK /\ StoreSettingsSound BY SettingsTrue
<1> QED BY <1>1, <1>2, <1>3, PTL DEF StoreSettingsSpec

--------------------
\* WhatsAppQueue: what is queued, and how it went.

\* A row of the queue, and what it says of its sendings.
TextRow == [key : TextKeys \cup {Unkeyed}, text : Texts, status : {"queued", "sent", "failed"},
            sent : BOOLEAN, failed : BOOLEAN, log : Seq(Answers)]
WasSent(x) == x.sent <=> \E i \in DOMAIN x.log : x.log[i] = "sent"
LastTold(x) == /\ x.status = IF x.log = <<>> THEN "queued" ELSE x.log[Len(x.log)]
               /\ x.failed <=> x.status = "failed"

\* What a request is to do: the key it found is used, and the row it read is the row there is
\* unless another sending came between.
TemplateJob == [kind : {"template"}, name : Templates, asks : SUBSET Blanks]
EnqueueJob == [kind : {"enqueue"}, key : TextKeys \cup {Unkeyed}, text : Texts, found : BOOLEAN]
DeliverJob == [kind : {"deliver"}, message : Nat, read : TextRow, answer : Answers, late : BOOLEAN]
IsQueued(key) == key # Unkeyed /\ \E m \in DOMAIN messages : messages[m].key = key
TextJobStands(j) ==
  \/ j = NotSending
  \/ j \in TemplateJob
  \/ j \in EnqueueJob /\ (j.found => IsQueued(j.key))
  \/ /\ j \in DeliverJob /\ j.message \in DOMAIN messages
     /\ j.late \/ j.read = messages[j.message]

TextsStand ==
  /\ messages \in Seq(TextRow)
  /\ \A m, n \in DOMAIN messages : messages[m].key = messages[n].key => m = n \/ messages[m].key = Unkeyed
  /\ \A m \in DOMAIN messages : /\ WasSent(messages[m]) /\ (m \notin lapped => LastTold(messages[m]))
                                /\ <<messages[m].key, messages[m].text>> \in accepted
  /\ \A a \in accepted : \E m \in DOMAIN messages : messages[m].key = a[1]

TextsInv == /\ DOMAIN templates \subseteq Templates
            /\ \A t \in DOMAIN templates : templates[t] \subseteq Blanks
            /\ Len(messages) <= MaxMessages /\ sends \in 0..MaxSends
            /\ lapped \subseteq DOMAIN messages /\ accepted \subseteq (TextKeys \cup {Unkeyed}) \X Texts
            /\ sending = [s \in Senders |-> sending[s]]
            /\ \A s \in Senders : TextJobStands(sending[s])
            /\ TextsStand

LEMMA TextsTrue == TextsInv => WhatsAppTypeOK /\ WhatsAppSound
<1> SUFFICES ASSUME TextsInv PROVE WhatsAppTypeOK /\ WhatsAppSound OBVIOUS
<1>1. WhatsAppTypeOK
  <2>1. \A m \in DOMAIN messages : messages[m] \in TextRow
    BY ElementOfSeq, LenProperties DEF TextsInv, TextsStand
  <2>2. \A m \in DOMAIN messages :
       /\ messages[m].key \in TextKeys \cup {Unkeyed} /\ messages[m].text \in Texts
       /\ messages[m].status \in {"queued", "sent", "failed"}
       /\ {messages[m].sent, messages[m].failed} \subseteq BOOLEAN
    BY <2>1 DEF TextRow
  <2>3. \A s \in Senders : sending[s].kind \in {"none", "template", "enqueue", "deliver"}
    BY DEF TextsInv, TextJobStands, NotSending, TemplateJob, EnqueueJob, DeliverJob
  <2> QED BY <2>2, <2>3 DEF WhatsAppTypeOK, TextsInv
<1>2. AcceptedIsQueued
  <2>1. ASSUME NEW a \in accepted
        PROVE  \E m \in DOMAIN messages :
                 /\ messages[m].key = a[1]
                 /\ messages[m].text = a[2] \/ <<a[1], messages[m].text>> \in accepted
    BY DEF TextsInv, TextsStand
  <2> QED BY <2>1 DEF AcceptedIsQueued, TextsInv, TextsStand
<1>3. StatusOfLastSending
  <2> SUFFICES ASSUME NEW m \in DOMAIN messages
               PROVE  /\ messages[m].sent <=> "sent" \in ToSet(messages[m].log)
                      /\ m \notin lapped =>
                           /\ messages[m].status = IF messages[m].log = <<>> THEN "queued"
                                                   ELSE Last(messages[m].log)
                           /\ messages[m].failed <=> messages[m].status = "failed"
    BY DEF StatusOfLastSending
  <2>1. WasSent(messages[m]) /\ (m \notin lapped => LastTold(messages[m]))
    BY DEF TextsInv, TextsStand
  <2>2. messages[m].sent <=> "sent" \in ToSet(messages[m].log) BY <2>1 DEF WasSent, ToSet
  <2> QED BY <2>1, <2>2 DEF LastTold, Last
<1> QED BY <1>1, <1>2, <1>3 DEF WhatsAppSound

LEMMA TextsStart == WhatsAppInit => TextsInv
<1> SUFFICES ASSUME WhatsAppInit PROVE TextsInv OBVIOUS
<1>1. messages \in Seq(TextRow) /\ DOMAIN messages = {} /\ Len(messages) = 0 BY DEF WhatsAppInit
<1>2. \A s \in Senders : TextJobStands(sending[s]) BY DEF WhatsAppInit, TextJobStands
<1>3. TextsStand BY <1>1 DEF WhatsAppInit, TextsStand
<1>4. 0 <= MaxMessages /\ 0 \in 0..MaxSends BY WhatsAppAssumption
<1> QED BY <1>1, <1>2, <1>3, <1>4 DEF WhatsAppInit, TextsInv

--------------------
(* A request begins. *)
LEMMA BeginText ==
  ASSUME TextsInv, NEW s \in Senders, NEW task, TextJobStands(task), Begin(s, task)
  PROVE  TextsInv'
<1>1. \A r \in Senders : TextJobStands(sending'[r]) BY DEF Begin, TextsInv
<1>2. \A r \in Senders : TextJobStands(sending[r])' BY <1>1 DEF Begin, TextJobStands, IsQueued
<1> QED BY <1>2 DEF Begin, TextsInv, TextsStand

(* What the other requests are to do stands when one ends that delivers nothing. *)
LEMMA EndText ==
  ASSUME TextsInv, NEW s \in Senders, NEW mm \in Nat, End(s, mm),
         \A n \in DOMAIN messages : /\ n \in DOMAIN messages' /\ messages'[n].key = messages[n].key
                                    /\ n # mm => messages'[n] = messages[n]
  PROVE  /\ sends' \in 0..MaxSends /\ sending' = [r \in Senders |-> sending'[r]]
         /\ \A r \in Senders : TextJobStands(sending[r])'
<1>1. sends' \in 0..MaxSends BY WhatsAppAssumption DEF End, TextsInv
<1>2. ASSUME NEW r \in Senders PROVE TextJobStands(sending[r])'
  <2>1. CASE r = s BY <2>1 DEF End, TextJobStands
  <2>2. CASE r # s /\ sending[r].kind = "deliver"
    <3> DEFINE j == sending[r]
    <3>1. j \in DeliverJob /\ j.message \in DOMAIN messages /\ (j.late \/ j.read = messages[j.message])
      BY <2>2 DEF TextsInv, TextJobStands, NotSending, TemplateJob, EnqueueJob
    <3>2. sending'[r] = [j EXCEPT !.late = @ \/ j.message = mm] BY <2>2 DEF End
    <3> HIDE DEF j
    <3>3. /\ sending'[r] \in DeliverJob /\ sending'[r].message = j.message
          /\ sending'[r].read = j.read /\ (sending'[r].late <=> j.late \/ j.message = mm)
      BY <3>1, <3>2 DEF DeliverJob
    <3>4. j.message \in DOMAIN messages' /\ (j.message # mm => messages'[j.message] = messages[j.message])
      BY <3>1
    <3> QED BY <3>1, <3>3, <3>4 DEF TextJobStands
  <2>3. CASE r # s /\ sending[r].kind # "deliver"
    <3>1. sending'[r] = sending[r] /\ sending[r] \notin DeliverJob /\ TextJobStands(sending[r])
      BY <2>3 DEF End, TextsInv, DeliverJob
    <3>2. \A key : IsQueued(key) => IsQueued(key)' BY DEF IsQueued
    <3> QED BY <3>1, <3>2 DEF TextJobStands
  <2> QED BY <2>1, <2>2, <2>3
<1>3. sending' = [r \in Senders |-> sending'[r]] BY DEF End
<1> QED BY <1>1, <1>2, <1>3

(* What a request is to do, by its kind. *)
LEMMA TextJobKinds ==
  ASSUME TextsInv, NEW s \in Senders
  PROVE  /\ sending[s].kind = "template" => sending[s] \in TemplateJob
         /\ sending[s].kind = "enqueue" => sending[s] \in EnqueueJob
                                           /\ (sending[s].found => IsQueued(sending[s].key))
         /\ sending[s].kind = "deliver" => /\ sending[s] \in DeliverJob
                                           /\ sending[s].message \in DOMAIN messages
                                           /\ sending[s].late
                                              \/ sending[s].read = messages[sending[s].message]
BY DEF TextsInv, TextJobStands, NotSending, TemplateJob, EnqueueJob, DeliverJob

LEMMA EndTemplateStep ==
  ASSUME TextsInv, NEW s \in Senders, EndTemplate(s)
  PROVE  TextsInv'
<1> DEFINE task == sending[s]
<1>1. task \in TemplateJob BY TextJobKinds DEF EndTemplate
<1>2. End(s, 0) /\ UNCHANGED <<messages, lapped, accepted>> BY DEF EndTemplate
<1>3. /\ sends' \in 0..MaxSends /\ sending' = [r \in Senders |-> sending'[r]]
      /\ \A r \in Senders : TextJobStands(sending[r])'
  BY <1>2, EndText
<1>4. /\ DOMAIN templates' \subseteq Templates
      /\ \A t \in DOMAIN templates' : templates'[t] \subseteq Blanks
  BY <1>1 DEF EndTemplate, TextsInv, TemplateJob
<1> QED BY <1>2, <1>3, <1>4 DEF TextsInv, TextsStand

(* A message more is at the end of the queue, and not sent. *)
LEMMA QueuedAtEnd ==
  ASSUME TextsInv, NEW key \in TextKeys \cup {Unkeyed}, NEW text \in Texts,
         messages' = Append(messages, NewMessage(key, text))
  PROVE  /\ messages' \in Seq(TextRow) /\ Len(messages') = Len(messages) + 1
         /\ DOMAIN messages' = DOMAIN messages \cup {Len(messages) + 1}
         /\ Len(messages) + 1 \notin DOMAIN messages
         /\ \A m \in DOMAIN messages : messages'[m] = messages[m]
         /\ messages'[Len(messages) + 1] = NewMessage(key, text)
         /\ WasSent(NewMessage(key, text)) /\ LastTold(NewMessage(key, text))
<1>1. NewMessage(key, text) \in TextRow BY DEF NewMessage, TextRow
<1>2. WasSent(NewMessage(key, text)) /\ LastTold(NewMessage(key, text))
  BY DEF NewMessage, WasSent, LastTold
<1> QED BY <1>1, <1>2, AppendProperties, LenProperties DEF TextsInv, TextsStand

LEMMA EndMessageStep ==
  ASSUME TextsInv, NEW s \in Senders, EndMessage(s)
  PROVE  TextsInv'
<1> DEFINE task == sending[s]
           last == Len(messages) + 1
<1>1. task \in EnqueueJob /\ (task.found => IsQueued(task.key)) BY TextJobKinds DEF EndMessage
<1>2. End(s, 0) /\ UNCHANGED <<templates, lapped>> BY DEF EndMessage
<1>3. task.key \in TextKeys \cup {Unkeyed} /\ task.text \in Texts BY <1>1 DEF EnqueueJob
<1>4. CASE UNCHANGED <<messages, accepted>> BY <1>2, <1>4, EndText DEF TextsInv, TextsStand
<1>5. CASE task.found /\ accepted' = accepted \cup {<<task.key, task.text>>} /\ UNCHANGED messages
  <2>1. \A a \in accepted' : \E m \in DOMAIN messages' : messages'[m].key = a[1]
    BY <1>1, <1>5 DEF IsQueued, TextsInv, TextsStand
  <2>2. accepted' \subseteq (TextKeys \cup {Unkeyed}) \X Texts BY <1>3, <1>5 DEF TextsInv
  <2>3. TextsStand' BY <1>2, <1>5, <2>1 DEF TextsInv, TextsStand
  <2> QED BY <1>2, <1>5, <2>2, <2>3, EndText DEF TextsInv
<1>6. CASE /\ ~KeyIsTaken(task.key) /\ Len(messages) < MaxMessages
           /\ messages' = Append(messages, NewMessage(task.key, task.text))
           /\ accepted' = accepted \cup {<<task.key, task.text>>}
  <2>1. /\ messages' \in Seq(TextRow) /\ Len(messages') = Len(messages) + 1
        /\ DOMAIN messages' = DOMAIN messages \cup {last} /\ last \notin DOMAIN messages
        /\ \A m \in DOMAIN messages : messages'[m] = messages[m]
        /\ messages'[last] = NewMessage(task.key, task.text)
        /\ WasSent(messages'[last]) /\ LastTold(messages'[last])
    BY <1>3, <1>6, QueuedAtEnd
  <2>2. messages'[last].key = task.key /\ messages'[last].text = task.text BY <2>1 DEF NewMessage
  <2>3. \A m \in DOMAIN messages : messages[m].key = task.key => task.key = Unkeyed
    BY <1>6 DEF KeyIsTaken, HasKey
  <2>4. Len(messages') <= MaxMessages
    BY <1>6, <2>1, LenProperties, WhatsAppAssumption DEF TextsInv, TextsStand
  <2> HIDE DEF task, last
  <2>5. accepted' \subseteq (TextKeys \cup {Unkeyed}) \X Texts BY <1>3, <1>6 DEF TextsInv
  <2>6. \A m, n \in DOMAIN messages' :
          messages'[m].key = messages'[n].key => m = n \/ messages'[m].key = Unkeyed
    BY <2>1, <2>2, <2>3 DEF TextsInv, TextsStand
  <2>7. \A m \in DOMAIN messages' :
          /\ WasSent(messages'[m]) /\ (m \notin lapped' => LastTold(messages'[m]))
          /\ <<messages'[m].key, messages'[m].text>> \in accepted'
    BY <1>2, <1>6, <2>1, <2>2 DEF TextsInv, TextsStand
  <2>8. ASSUME NEW a \in accepted' PROVE \E m \in DOMAIN messages' : messages'[m].key = a[1]
    <3>1. CASE a \in accepted BY <2>1, <3>1 DEF TextsInv, TextsStand
    <3>2. CASE a = <<task.key, task.text>> BY <2>1, <2>2, <3>2
    <3> QED BY <1>6, <3>1, <3>2
  <2>9. TextsStand' BY <2>1, <2>6, <2>7, <2>8 DEF TextsStand
  <2>10. /\ sends' \in 0..MaxSends /\ sending' = [r \in Senders |-> sending'[r]]
         /\ \A r \in Senders : TextJobStands(sending[r])'
    BY <1>2, <2>1, EndText
  <2> QED BY <1>2, <2>1, <2>4, <2>5, <2>9, <2>10 DEF TextsInv
<1> QED BY <1>4, <1>5, <1>6 DEF EndMessage

--------------------
(* What a sending leaves of a row: that it was sent is not lost, and what is said is of the *)
(* last answer when the row is as it was read. *)
LEMMA DeliveredFits ==
  ASSUME NEW x \in TextRow, NEW was \in TextRow, NEW answer \in Answers, WasSent(x)
  PROVE  /\ Delivered(x, was, answer) \in TextRow /\ Delivered(x, was, answer).key = x.key
         /\ Delivered(x, was, answer).text = x.text
         /\ WasSent(Delivered(x, was, answer))
         /\ was = x /\ LastTold(x) => LastTold(Delivered(x, was, answer))
<1> DEFINE y == Delivered(x, was, answer)
           longer == Append(x.log, answer)
<1>1. x.log \in Seq(Answers) BY DEF TextRow
<1>2. /\ longer \in Seq(Answers) /\ DOMAIN longer = DOMAIN x.log \cup {Len(x.log) + 1}
      /\ Len(longer) = Len(x.log) + 1 /\ longer[Len(longer)] = answer
      /\ \A i \in DOMAIN x.log : longer[i] = x.log[i]
      /\ longer # <<>>
  BY <1>1, AppendProperties, LenProperties
<1> DEFINE says == IF was.status = answer THEN x.status ELSE answer
           failed == CASE answer = "failed" -> TRUE
                       [] answer = "sent" /\ was.failed -> FALSE
                       [] OTHER -> x.failed
<1>3. y = [key |-> x.key, text |-> x.text, status |-> says,
           sent |-> (x.sent \/ answer = "sent"), failed |-> failed, log |-> longer]
  <2>1. x = [key |-> x.key, text |-> x.text, status |-> x.status, sent |-> x.sent,
             failed |-> x.failed, log |-> x.log]
    BY DEF TextRow
  <2> DEFINE sent == x.sent \/ answer = "sent"
  <2>2. y = [x EXCEPT !.status = says, !.sent = sent, !.failed = failed, !.log = longer]
    BY Zenon DEF Delivered, Logged
  <2> HIDE DEF says, sent, failed, longer, y
  <2>3. y = [key |-> x.key, text |-> x.text, status |-> says, sent |-> sent, failed |-> failed,
             log |-> longer]
    BY <2>1, <2>2
  <2> QED BY <2>3 DEF sent
<1>4. says \in {"queued", "sent", "failed"} /\ failed \in BOOLEAN BY DEF TextRow, Answers
<1>5. was = x => says = answer /\ (LastTold(x) => (failed <=> answer = "failed"))
  BY DEF Answers, LastTold, TextRow
<1> HIDE DEF says, failed, longer, y
<1>6. y \in TextRow BY <1>2, <1>3, <1>4 DEF TextRow
<1>7. (\E i \in DOMAIN longer : longer[i] = "sent")
        <=> answer = "sent" \/ \E j \in DOMAIN x.log : x.log[j] = "sent"
  BY <1>2
<1>8. WasSent(y) BY <1>3, <1>7 DEF WasSent
<1>9. was = x /\ LastTold(x) => LastTold(y) BY <1>2, <1>3, <1>5 DEF LastTold
<1> QED BY <1>3, <1>6, <1>8, <1>9 DEF y

LEMMA EndDeliveryStep ==
  ASSUME TextsInv, NEW s \in Senders, EndDelivery(s)
  PROVE  TextsInv'
<1> DEFINE task == sending[s]
           mm == task.message
           new == Delivered(messages[mm], task.read, task.answer)
<1>1. task \in DeliverJob /\ mm \in DOMAIN messages /\ (task.late \/ task.read = messages[mm])
  BY TextJobKinds DEF EndDelivery
<1>2. /\ End(s, mm) /\ UNCHANGED <<templates, accepted>>
      /\ messages' = [messages EXCEPT ![mm] = new]
      /\ lapped' = IF task.late THEN lapped \cup {mm} ELSE lapped
  BY DEF EndDelivery
<1>3. mm \in Nat /\ task.read \in TextRow /\ task.answer \in Answers BY <1>1 DEF DeliverJob
<1>4. messages[mm] \in TextRow /\ WasSent(messages[mm]) /\ (mm \notin lapped => LastTold(messages[mm]))
  BY <1>1, ElementOfSeq, LenProperties DEF TextsInv, TextsStand
<1>5. /\ new \in TextRow /\ new.key = messages[mm].key /\ new.text = messages[mm].text
      /\ WasSent(new) /\ (task.read = messages[mm] /\ LastTold(messages[mm]) => LastTold(new))
  BY <1>3, <1>4, DeliveredFits
<1> HIDE DEF new
<1>6. /\ messages' \in Seq(TextRow) /\ Len(messages') = Len(messages)
      /\ DOMAIN messages' = DOMAIN messages /\ messages'[mm] = new
      /\ \A n \in DOMAIN messages : n # mm => messages'[n] = messages[n]
  BY <1>1, <1>2, <1>5, ExceptSeq, LenProperties DEF TextsInv, TextsStand
<1> HIDE DEF mm, task
<1>7. \A n \in DOMAIN messages : /\ messages'[n].key = messages[n].key
                                 /\ messages'[n].text = messages[n].text
  BY <1>5, <1>6
<1>8. /\ sends' \in 0..MaxSends /\ sending' = [r \in Senders |-> sending'[r]]
      /\ \A r \in Senders : TextJobStands(sending[r])'
  BY <1>2, <1>3, <1>6, <1>7, EndText
<1>9. lapped' \subseteq DOMAIN messages' /\ lapped \subseteq lapped'
  BY <1>1, <1>2, <1>6 DEF TextsInv
<1>10. \A m \in DOMAIN messages' :
         /\ WasSent(messages'[m]) /\ (m \notin lapped' => LastTold(messages'[m]))
         /\ <<messages'[m].key, messages'[m].text>> \in accepted'
  <2> SUFFICES ASSUME NEW m \in DOMAIN messages
               PROVE  /\ WasSent(messages'[m]) /\ (m \notin lapped' => LastTold(messages'[m]))
                      /\ <<messages'[m].key, messages'[m].text>> \in accepted'
    BY <1>6
  <2>1. <<messages'[m].key, messages'[m].text>> \in accepted' BY <1>2, <1>7 DEF TextsInv, TextsStand
  <2>2. CASE m = mm BY <1>1, <1>2, <1>4, <1>5, <1>6, <2>1, <2>2
  <2>3. CASE m # mm BY <1>6, <1>9, <2>1, <2>3 DEF TextsInv, TextsStand
  <2> QED BY <2>2, <2>3
<1>11. TextsStand' BY <1>2, <1>6, <1>7, <1>10 DEF TextsInv, TextsStand
<1> QED BY <1>2, <1>6, <1>8, <1>9, <1>11 DEF TextsInv

(* Every step of the requests keeps it. *)
LEMMA TextsStep == TextsInv /\ [WhatsAppNext]_whatsAppVars => TextsInv'
<1> SUFFICES ASSUME TextsInv, [WhatsAppNext]_whatsAppVars PROVE TextsInv' OBVIOUS
<1>1. ASSUME NEW s \in Senders, BeginTemplate(s) PROVE TextsInv'
  <2>1. PICK t \in Templates \ DOMAIN templates, wish \in SUBSET Blanks :
          Begin(s, [kind |-> "template", name |-> t, asks |-> wish])
    BY <1>1 DEF BeginTemplate
  <2> DEFINE j == [kind |-> "template", name |-> t, asks |-> wish]
  <2>2. TextJobStands(j) BY DEF TextJobStands, TemplateJob
  <2> QED BY <2>1, <2>2, BeginText
<1>2. ASSUME NEW s \in Senders, BeginMessage(s) PROVE TextsInv'
  <2>1. PICK key \in TextKeys \cup {Unkeyed}, text \in TextsToSend :
          Begin(s, [kind |-> "enqueue", key |-> key, text |-> text, found |-> HasKey(key) # {}])
    BY <1>2 DEF BeginMessage
  <2> DEFINE j == [kind |-> "enqueue", key |-> key, text |-> text, found |-> HasKey(key) # {}]
  <2>2. text \in Texts BY DEF TextsToSend, Texts, TextsInv
  <2>3. TextJobStands(j) BY <2>2 DEF TextJobStands, EnqueueJob, IsQueued, HasKey
  <2> QED BY <2>1, <2>3, BeginText
<1>3. ASSUME NEW s \in Senders, BeginDelivery(s) PROVE TextsInv'
  <2>1. PICK m \in DOMAIN messages, answer \in Answers :
          Begin(s, [kind |-> "deliver", message |-> m, read |-> messages[m], answer |-> answer,
                    late |-> FALSE])
    BY <1>3 DEF BeginDelivery
  <2> DEFINE j == [kind |-> "deliver", message |-> m, read |-> messages[m], answer |-> answer,
                   late |-> FALSE]
  <2>2. m \in Nat /\ messages[m] \in TextRow BY ElementOfSeq, LenProperties DEF TextsInv, TextsStand
  <2>3. TextJobStands(j) BY <2>2 DEF TextJobStands, DeliverJob
  <2> QED BY <2>1, <2>3, BeginText
<1>4. CASE UNCHANGED whatsAppVars
  BY <1>4 DEF whatsAppVars, TextsInv, TextsStand, TextJobStands, IsQueued
<1> QED BY <1>1, <1>2, <1>3, <1>4, EndTemplateStep, EndMessageStep, EndDeliveryStep DEF WhatsAppNext

(* What was told to be queued is queued, once, and what a message says of its sendings is of *)
(* the last one, but for sendings that overlap, for any requests, keys, templates and *)
(* messages (enqueue_message, deliver_with_mock_adapter). *)
THEOREM WhatsAppTrue == WhatsAppSpec => [](WhatsAppTypeOK /\ WhatsAppSound)
<1> QED BY TextsTrue, TextsStart, TextsStep, PTL DEF WhatsAppSpec

--------------------
\* StoreStock: what the store offers is what there is.

\* Nothing was undone or lost yet.
Unspoilt == ~saleUndone /\ ~additionLost

\* What the page, a webhook, a pull and a push go by; who goes by the last change of the store
\* goes by what it has.
SheetShape(x) == x \in [knows : Nat, shown : Nat]
FetchedShape(j) == j \in [kind : {"fetched"}, item : Nat, at : Nat]
TakeShape(j) == j \in [kind : {"take"}, item : Nat, at : Nat, loaded : Nat, current : Int,
                       lapped : BOOLEAN]
PushShape(j) == j \in [kind : {"push"}, quantity : Nat, knows : Nat, adds : Nat]

FromStore(item, at) == at <= storeMoves /\ (at = storeMoves => item = inStore)
TakerFits(j) ==
  \/ j = Resting
  \/ FetchedShape(j) /\ FromStore(j.item, j.at)
  \/ TakeShape(j) /\ FromStore(j.item, j.at) /\ (~j.lapped => j.current = onHand)
PushFits(j) == /\ PushShape(j) /\ j.knows <= storeMoves /\ j.adds <= unsent
               /\ Unspoilt /\ j.knows = storeMoves => j.quantity = inStore + j.adds
SheetFits == \/ sheetOpen = NoSheet
             \/ /\ SheetShape(sheetOpen) /\ sheetOpen.knows <= storeMoves
                /\ Unspoilt /\ sheetOpen.knows = storeMoves => sheetOpen.shown = inStore + unsent

StockTypes == /\ inStore \in Nat /\ price \in Nat /\ quantity \in Nat /\ onHand \in Int
              /\ truth \in Int /\ unsent \in Nat /\ informed \in Nat /\ storeMoves \in Nat
              /\ told = [quantity |-> told.quantity, since |-> told.since]
              /\ told.quantity \in Int /\ told.since \in Int
              /\ \A c \in DOMAIN pushes : pushes[c] \in {"open", "synced"}
              /\ saleUndone \in BOOLEAN /\ additionLost \in BOOLEAN /\ skewed \in BOOLEAN
              /\ stockSteps \in 0..MaxStockSteps
              /\ takers = [t \in Takers |-> takers[t]]

StoreStockInv ==
  /\ StockTypes
  /\ \A t \in Takers : TakerFits(takers[t]) \/ (t = "run" /\ PushFits(takers[t]))
  /\ SheetFits
  /\ informed <= storeMoves
  /\ Unspoilt /\ informed = storeMoves => quantity = inStore + unsent
  /\ Unspoilt => inStore = truth - unsent
  /\ ~skewed => onHand = told.quantity + told.since

LEMMA StoreStockSafe == StoreStockInv => StoreStockTypeOK /\ StoreStockSound
<1> SUFFICES ASSUME StoreStockInv PROVE StoreStockTypeOK /\ StoreStockSound OBVIOUS
<1>1. \A t \in Takers : takers[t].kind \in {"none", "fetched", "take", "push"}
  <2> TAKE t \in Takers
  <2>1. \/ takers[t] = Resting \/ FetchedShape(takers[t]) \/ TakeShape(takers[t])
        \/ PushShape(takers[t])
    BY DEF StoreStockInv, TakerFits, PushFits
  <2> QED BY <2>1 DEF Resting, FetchedShape, TakeShape, PushShape
<1>2. \A n \in Nat : n \in Int OBVIOUS
<1>3. StoreStockTypeOK BY <1>1, <1>2, Zenon DEF StoreStockInv, StockTypes, StoreStockTypeOK
<1>4. StoreStockSound
  BY Zenon DEF StoreStockInv, StoreStockSound, StoreOffersWhatThereIs, WooFollowsStore, Unspoilt
<1> QED BY <1>3, <1>4

LEMMA TakerKinds ==
  ASSUME StoreStockInv, NEW t \in Takers
  PROVE  /\ takers[t].kind = "fetched" => /\ FetchedShape(takers[t])
                                          /\ FromStore(takers[t].item, takers[t].at)
         /\ takers[t].kind = "take" => /\ TakeShape(takers[t])
                                       /\ FromStore(takers[t].item, takers[t].at)
                                       /\ ~takers[t].lapped => takers[t].current = onHand
         /\ takers[t].kind = "push" => t = "run" /\ PushFits(takers[t])
         /\ takers[t].kind \notin {"fetched", "take", "push"} => takers[t] = Resting
<1> DEFINE j == takers[t]
<1>1. TakerFits(j) \/ (t = "run" /\ PushFits(j)) BY DEF StoreStockInv
<1> HIDE DEF j
<1>2. /\ FetchedShape(j) => j.kind = "fetched"
      /\ TakeShape(j) => j.kind = "take"
      /\ PushShape(j) => j.kind = "push"
      /\ j = Resting => j.kind = "none"
  BY DEF FetchedShape, TakeShape, PushShape, Resting
<1>3. PushFits(j) => PushShape(j) BY DEF PushFits
<1> HIDE DEF FetchedShape, TakeShape, PushShape, PushFits, FromStore
<1>4. /\ j.kind = "fetched" => FetchedShape(j) /\ FromStore(j.item, j.at)
      /\ j.kind = "take" => /\ TakeShape(j) /\ FromStore(j.item, j.at)
                            /\ ~j.lapped => j.current = onHand
      /\ j.kind = "push" => t = "run" /\ PushFits(j)
      /\ j.kind \notin {"fetched", "take", "push"} => j = Resting
  BY <1>1, <1>2, <1>3 DEF TakerFits
<1> QED BY <1>4 DEF j

LEMMA StoreStockStart == StoreStockInit => StoreStockInv
<1> SUFFICES ASSUME StoreStockInit PROVE StoreStockInv OBVIOUS
<1>1. FirstStock \in Nat /\ MaxStockSteps \in Nat BY StoreStockAssumption
<1>2. FirstStock \in Int /\ 0 \in Int /\ 0 \in Nat /\ 0 \in 0..MaxStockSteps /\ 0 <= 0
      /\ FirstStock = FirstStock + 0 /\ FirstStock = FirstStock - 0
  BY <1>1
<1>3. StockTypes BY <1>1, <1>2, Zenon DEF StoreStockInit, StockTypes
<1>4. \A t \in Takers : TakerFits(takers[t]) BY DEF StoreStockInit, TakerFits
<1> QED BY <1>1, <1>2, <1>3, <1>4, Zenon DEF StoreStockInit, StoreStockInv, SheetFits

--------------------
LEMMA StockStepCounts ==
  ASSUME StoreStockInv, stockSteps < MaxStockSteps, stockSteps' = stockSteps + 1
  PROVE  stockSteps' \in 0..MaxStockSteps
BY StoreStockAssumption DEF StoreStockInv, StockTypes

\* The store's stock stands, and so does what goes by it.
StoreStands == UNCHANGED <<inStore, storeMoves>> /\ (Unspoilt' => Unspoilt)

LEMMA TakerStands ==
  ASSUME NEW j, TakerFits(j), StoreStands, UNCHANGED onHand
  PROVE  TakerFits(j)'
BY Zenon DEF TakerFits, FromStore, StoreStands

LEMMA PushStands ==
  ASSUME NEW j, PushFits(j), StoreStands, unsent' = unsent
  PROVE  PushFits(j)'
BY Zenon DEF PushFits, StoreStands

LEMMA SheetStands ==
  ASSUME SheetFits, StoreStands, unsent' = unsent, sheetOpen' \in {sheetOpen, NoSheet}
  PROVE  SheetFits'
BY Zenon DEF SheetFits, StoreStands

\* One more movement in the warehouse: who had read the sum is overtaken.
LEMMA OvertakenFit ==
  ASSUME StoreStockInv, StoreStands, NEW t, takers' = Overtaken(t), unsent' = unsent
  PROVE  /\ takers' = [u \in Takers |-> takers'[u]]
         /\ \A u \in Takers : (TakerFits(takers[u]) \/ (u = "run" /\ PushFits(takers[u])))'
<1>1. takers' = [u \in Takers |-> takers'[u]] BY DEF Overtaken
<1>2. ASSUME NEW u \in Takers
      PROVE  (TakerFits(takers[u]) \/ (u = "run" /\ PushFits(takers[u])))'
  <2> DEFINE j == takers[u]
  <2>1. TakerFits(j) \/ (u = "run" /\ PushFits(j)) BY DEF StoreStockInv
  <2>2. CASE u = t BY <2>2 DEF Overtaken, TakerFits
  <2>3. CASE u # t /\ j.kind = "take"
    <3>1. TakeShape(j) /\ FromStore(j.item, j.at) BY <2>3, TakerKinds
    <3>2. takers'[u] = [j EXCEPT !.lapped = TRUE] BY <2>3 DEF Overtaken
    <3> HIDE DEF j
    <3>3. PICK x : x = takers'[u] OBVIOUS
    <3>4. TakeShape(x) /\ x.lapped /\ x.item = j.item /\ x.at = j.at
      BY <3>1, <3>2, <3>3 DEF TakeShape
    <3>5. TakerFits(x)' BY <3>1, <3>4, Zenon DEF TakerFits, FromStore, StoreStands
    <3> QED BY <3>3, <3>5
  <2>4. CASE u # t /\ j.kind # "take"
    <3>1. PICK x : x = j OBVIOUS
    <3>2. takers'[u] = x /\ x.kind # "take" BY <2>4, <3>1 DEF Overtaken
    <3>3. ASSUME TakerFits(x) PROVE TakerFits(x)'
      <4>1. ~TakeShape(x) BY <3>2 DEF TakeShape
      <4> QED BY <3>3, <4>1, Zenon DEF TakerFits, FromStore, StoreStands
    <3>4. TakerFits(x)' \/ (u = "run" /\ PushFits(x)') BY <2>1, <3>1, <3>3, PushStands
    <3> QED BY <3>2, <3>4
  <2> QED BY <2>2, <2>3, <2>4
<1> QED BY <1>1, <1>2

--------------------
LEMMA StoreMovesStep ==
  ASSUME StoreStockInv, StoreMoves
  PROVE  StoreStockInv'
<1>1. PICK d \in {-1, 1} : /\ inStore + d >= 0 /\ inStore' = inStore + d /\ truth' = truth + d
                           /\ storeMoves' = storeMoves + 1
                           /\ UNCHANGED <<price, quantity, onHand, pushes, sheetOpen, takers,
                                          unsent, informed, ghostsOfErp, stockSteps>>
  BY DEF StoreMoves
<1>2. /\ inStore \in Nat /\ truth \in Int /\ unsent \in Nat /\ storeMoves \in Nat /\ informed \in Nat
      /\ informed <= storeMoves
  BY DEF StoreStockInv, StockTypes
<1>3. inStore' \in Nat /\ truth' \in Int /\ storeMoves' \in Nat BY <1>1, <1>2
<1>4. /\ \A n \in Nat : n <= storeMoves => n <= storeMoves' /\ n # storeMoves'
      /\ inStore = truth - unsent => inStore' = truth' - unsent
  BY <1>1, <1>2
<1>5. UNCHANGED <<saleUndone, additionLost, told, skewed>> BY <1>1 DEF ghostsOfErp
<1>6. StockTypes' BY <1>1, <1>3, <1>5, Zenon DEF StoreStockInv, StockTypes
<1>7. ASSUME NEW t \in Takers
      PROVE  (TakerFits(takers[t]) \/ (t = "run" /\ PushFits(takers[t])))'
  <2>1. TakerFits(takers[t]) \/ (t = "run" /\ PushFits(takers[t])) BY DEF StoreStockInv
  <2>2. \A j : (FetchedShape(j) \/ TakeShape(j) => j.at \in Nat)
              /\ (PushShape(j) => j.knows \in Nat)
    BY DEF FetchedShape, TakeShape, PushShape
  <2>3. ASSUME TakerFits(takers[t]) PROVE TakerFits(takers[t])'
    BY <1>1, <1>4, <2>2, <2>3, Zenon DEF TakerFits, FromStore
  <2>4. ASSUME PushFits(takers[t]) PROVE PushFits(takers[t])'
    BY <1>1, <1>4, <2>2, <2>4, Zenon DEF PushFits
  <2> QED BY <2>1, <2>3, <2>4
<1>8. SheetFits'
  <2>1. \A x : SheetShape(x) => x.knows \in Nat BY DEF SheetShape
  <2> QED BY <1>1, <1>4, <2>1, Zenon DEF StoreStockInv, SheetFits
<1>9. (Unspoilt => inStore = truth - unsent)' BY <1>1, <1>4, <1>5, Zenon DEF StoreStockInv, Unspoilt
<1> QED BY <1>1, <1>2, <1>4, <1>5, <1>6, <1>7, <1>8, <1>9, Zenon DEF StoreStockInv

LEMMA FetchStep ==
  ASSUME StoreStockInv, NEW t \in Takers, Fetch(t) \/ ReadStock(t)
  PROVE  StoreStockInv'
<1>1. /\ UNCHANGED <<inStore, price, quantity, onHand, pushes, sheetOpen, unsent, informed, truth,
                     storeMoves, saleUndone, additionLost, told, skewed>>
      /\ stockSteps < MaxStockSteps /\ stockSteps' = stockSteps + 1
      /\ \A u \in Takers : u # t => takers'[u] = takers[u]
      /\ takers' = [u \in Takers |-> takers'[u]]
  BY DEF Fetch, ReadStock, StockStep, ghostsOfStore, ghostsOfErp, StoreStockInv, StockTypes
<1>2. stockSteps' \in 0..MaxStockSteps BY <1>1, StockStepCounts
<1>3. StoreStands BY <1>1, Zenon DEF StoreStands, Unspoilt
<1>4. /\ inStore \in Nat /\ storeMoves \in Nat /\ onHand \in Int /\ storeMoves <= storeMoves
      /\ quantity \in Nat
  BY DEF StoreStockInv, StockTypes
<1>5. TakerFits(takers[t])'
  <2>1. CASE Fetch(t)
    <3>1. takers'[t] = [kind |-> "fetched", item |-> inStore, at |-> storeMoves]
      BY <2>1 DEF Fetch, StoreStockInv, StockTypes
    <3>2. FetchedShape(takers'[t]) BY <1>4, <3>1 DEF FetchedShape
    <3> QED BY <1>1, <1>4, <3>1, <3>2 DEF TakerFits, FromStore
  <2>2. CASE ReadStock(t)
    <3> DEFINE j == takers[t]
    <3>1. FetchedShape(j) /\ FromStore(j.item, j.at) BY <2>2, TakerKinds DEF ReadStock
    <3>2. takers'[t] = [kind |-> "take", item |-> j.item, at |-> j.at, loaded |-> quantity,
                        current |-> onHand, lapped |-> FALSE]
      BY <2>2 DEF ReadStock, StoreStockInv, StockTypes
    <3> HIDE DEF j
    <3>3. PICK x : x = takers'[t] OBVIOUS
    <3>4. TakeShape(x) /\ x.current = onHand /\ x.item = j.item /\ x.at = j.at
      BY <1>4, <3>1, <3>2, <3>3 DEF TakeShape, FetchedShape
    <3>5. TakerFits(x)' BY <1>1, <3>1, <3>4, Zenon DEF TakerFits, FromStore
    <3> QED BY <3>3, <3>5
  <2> QED BY <2>1, <2>2
<1>6. \A u \in Takers : (TakerFits(takers[u]) \/ (u = "run" /\ PushFits(takers[u])))'
  <2> TAKE u \in Takers
  <2>1. CASE u = t BY <1>5, <2>1
  <2>2. CASE u # t
    <3>1. takers'[u] = takers[u] BY <1>1, <2>2
    <3>2. TakerFits(takers[u]) \/ (u = "run" /\ PushFits(takers[u])) BY DEF StoreStockInv
    <3> QED BY <1>1, <1>3, <3>1, <3>2, TakerStands, PushStands
  <2> QED BY <2>1, <2>2
<1>7. SheetFits' BY <1>1, <1>3, SheetStands DEF StoreStockInv
<1>8. StockTypes' BY <1>1, <1>2, Zenon DEF StoreStockInv, StockTypes
<1> QED BY <1>1, <1>6, <1>7, <1>8, Zenon DEF StoreStockInv, Unspoilt

LEMMA AdoptStockStep ==
  ASSUME StoreStockInv, NEW t \in Takers, AdoptStock(t)
  PROVE  StoreStockInv'
<1> DEFINE j == takers[t]
<1>1. /\ j.kind = "take" /\ takers' = Overtaken(t) /\ onHand' = onHand + Adjustment(j)
      /\ skewed' = j.lapped /\ told' = [quantity |-> j.item, since |-> 0]
      /\ quantity' = IF j.item = j.loaded THEN quantity ELSE j.item
      /\ IF quantity' = j.item
         THEN /\ informed' = IF quantity' = quantity THEN Later(informed, j.at) ELSE j.at
              /\ additionLost' = (additionLost \/ unsent > 0)
         ELSE UNCHANGED <<informed, additionLost>>
      /\ UNCHANGED <<inStore, price, pushes, sheetOpen, unsent, truth, storeMoves, saleUndone>>
      /\ stockSteps < MaxStockSteps /\ stockSteps' = stockSteps + 1
  BY DEF AdoptStock, StockStep, ghostsOfStore
<1>2. TakeShape(j) /\ FromStore(j.item, j.at) /\ (~j.lapped => j.current = onHand)
  BY <1>1, TakerKinds
<1> HIDE DEF j
<1>3. /\ j.item \in Nat /\ j.at \in Nat /\ j.current \in Int /\ j.lapped \in BOOLEAN
      /\ j.at <= storeMoves /\ (j.at = storeMoves => j.item = inStore)
  BY <1>2 DEF TakeShape, FromStore
<1>4. /\ inStore \in Nat /\ storeMoves \in Nat /\ onHand \in Int /\ quantity \in Nat /\ unsent \in Nat
      /\ informed \in Nat /\ informed <= storeMoves /\ additionLost \in BOOLEAN
  BY DEF StoreStockInv, StockTypes
<1>5. StoreStands BY <1>1, Zenon DEF StoreStands, Unspoilt
<1>6. stockSteps' \in 0..MaxStockSteps BY <1>1, StockStepCounts
<1>7. /\ onHand' \in Int /\ told'.quantity = j.item /\ told'.since = 0
      /\ told' = [quantity |-> told'.quantity, since |-> told'.since]
      /\ j.current = onHand => onHand' = told'.quantity + told'.since
  BY <1>1, <1>3, <1>4 DEF Adjustment
<1>8. quantity' \in Nat BY <1>1, <1>3, <1>4
<1>9. informed' \in Nat /\ informed' <= storeMoves BY <1>1, <1>3, <1>4 DEF Later
<1>10. additionLost' \in BOOLEAN BY <1>1, <1>4, Zenon
<1>11. StockTypes'
  <2>1. takers' = [u \in Takers |-> takers'[u]] BY <1>1 DEF Overtaken
  <2>2. told'.quantity \in Int /\ told'.since \in Int BY <1>3, <1>7
  <2> QED
    BY <1>1, <1>3, <1>6, <1>7, <1>8, <1>9, <1>10, <2>1, <2>2, Zenon DEF StoreStockInv, StockTypes
<1>12. \A u \in Takers : (TakerFits(takers[u]) \/ (u = "run" /\ PushFits(takers[u])))'
  BY <1>1, <1>5, OvertakenFit
<1>13. SheetFits' BY <1>1, <1>5, SheetStands DEF StoreStockInv
<1>14. (Unspoilt /\ informed = storeMoves => quantity = inStore + unsent)'
  <2>1. CASE quantity' # j.item
    <3>1. UNCHANGED <<informed, quantity>> BY <1>1, <2>1
    <3> QED BY <1>1, <1>5, <3>1, Zenon DEF StoreStockInv, StoreStands
  <2>2. CASE quantity' = j.item
    <3> SUFFICES ASSUME Unspoilt', informed' = storeMoves PROVE quantity' = inStore + unsent BY <1>1
    <3>1. ~(unsent > 0) BY <1>1, <2>2, Zenon DEF Unspoilt
    <3>2. unsent = 0 BY <1>4, <3>1
    <3>3. informed = storeMoves => quantity = inStore + unsent
      BY <1>5, Zenon DEF StoreStockInv, StoreStands
    <3>4. CASE quantity' = quantity /\ informed = storeMoves BY <3>3, <3>4
    <3>5. CASE ~(quantity' = quantity /\ informed = storeMoves)
      <4>1. j.at = storeMoves BY <1>1, <1>3, <1>4, <2>2, <3>5 DEF Later
      <4> QED BY <1>3, <1>4, <2>2, <3>2, <4>1
    <3> QED BY <3>4, <3>5
  <2> QED BY <2>1, <2>2
<1>15. (Unspoilt => inStore = truth - unsent)' BY <1>1, <1>5, Zenon DEF StoreStockInv, StoreStands
<1>16. (~skewed => onHand = told.quantity + told.since)' BY <1>1, <1>2, <1>7, Zenon
<1> QED BY <1>1, <1>9, <1>11, <1>12, <1>13, <1>14, <1>15, <1>16, Zenon DEF StoreStockInv

LEMMA MoveInWooStep ==
  ASSUME StoreStockInv, MoveInWoo
  PROVE  StoreStockInv'
<1>1. PICK d \in {-1, 1} :
        /\ onHand' = onHand + d /\ told' = [told EXCEPT !.since = @ + d]
        /\ takers' = Overtaken("none")
        /\ UNCHANGED <<inStore, price, quantity, pushes, sheetOpen, unsent, informed, truth,
                       storeMoves, saleUndone, additionLost, skewed>>
        /\ stockSteps < MaxStockSteps /\ stockSteps' = stockSteps + 1
  BY DEF MoveInWoo, StockStep, ghostsOfStore
<1>2. StoreStands BY <1>1, Zenon DEF StoreStands, Unspoilt
<1>3. stockSteps' \in 0..MaxStockSteps BY <1>1, StockStepCounts
<1>4. /\ onHand \in Int /\ told = [quantity |-> told.quantity, since |-> told.since]
      /\ told.quantity \in Int /\ told.since \in Int
  BY DEF StoreStockInv, StockTypes
<1>5. told' = [quantity |-> told.quantity, since |-> told.since + d] BY <1>1, <1>4
<1>6. /\ onHand' \in Int /\ told'.quantity \in Int /\ told'.since \in Int
      /\ told' = [quantity |-> told'.quantity, since |-> told'.since]
      /\ onHand = told.quantity + told.since => onHand' = told'.quantity + told'.since
  BY <1>1, <1>4, <1>5
<1>7. /\ takers' = [u \in Takers |-> takers'[u]]
      /\ \A u \in Takers : (TakerFits(takers[u]) \/ (u = "run" /\ PushFits(takers[u])))'
  BY <1>1, <1>2, OvertakenFit
<1>8. StockTypes' BY <1>1, <1>3, <1>6, <1>7, Zenon DEF StoreStockInv, StockTypes
<1>9. SheetFits' BY <1>1, <1>2, SheetStands DEF StoreStockInv
<1> QED BY <1>1, <1>6, <1>7, <1>8, <1>9, Zenon DEF StoreStockInv, Unspoilt

(* The form is opened, a run queues the product, or the product is read for a push. *)
LEMMA OpenAndReadStep ==
  ASSUME StoreStockInv, OpenSheet \/ Requeue \/ ReadForPush
  PROVE  StoreStockInv'
<1>1. /\ UNCHANGED <<inStore, price, quantity, onHand, unsent, informed, truth, storeMoves,
                     saleUndone, additionLost, told, skewed>>
      /\ stockSteps < MaxStockSteps /\ stockSteps' = stockSteps + 1
      /\ \A u \in Takers : u # "run" => takers'[u] = takers[u]
      /\ takers' = [u \in Takers |-> takers'[u]]
  BY DEF OpenSheet, Requeue, ReadForPush, StockStep, ghostsOfStore, ghostsOfErp, StoreStockInv,
         StockTypes
<1>2. stockSteps' \in 0..MaxStockSteps BY <1>1, StockStepCounts
<1>3. StoreStands BY <1>1, Zenon DEF StoreStands, Unspoilt
<1>4. /\ inStore \in Nat /\ quantity \in Nat /\ informed \in Nat /\ unsent \in Nat /\ storeMoves \in Nat
      /\ informed <= storeMoves /\ unsent <= unsent
      /\ (Unspoilt /\ informed = storeMoves => quantity = inStore + unsent)
  BY DEF StoreStockInv, StockTypes
<1>5. \A c \in DOMAIN pushes' : pushes'[c] \in {"open", "synced"}
  BY DEF OpenSheet, Requeue, ReadForPush, StockStep, Queued, StoreStockInv, StockTypes
<1>6. StockTypes' BY <1>1, <1>2, <1>5, Zenon DEF StoreStockInv, StockTypes
<1>7. \A u \in Takers : (TakerFits(takers[u]) \/ (u = "run" /\ PushFits(takers[u])))'
  <2> TAKE u \in Takers
  <2>1. CASE takers'[u] = takers[u]
    <3>1. TakerFits(takers[u]) \/ (u = "run" /\ PushFits(takers[u])) BY DEF StoreStockInv
    <3> QED BY <1>1, <1>3, <2>1, <3>1, TakerStands, PushStands
  <2>2. CASE takers'[u] # takers[u]
    <3>1. u = "run" /\ takers'["run"] = [kind |-> "push", quantity |-> quantity, knows |-> informed,
                                         adds |-> unsent]
      BY <1>1, <2>2 DEF OpenSheet, Requeue, ReadForPush, StockStep, StoreStockInv, StockTypes
    <3>2. /\ PushShape(takers'["run"]) /\ takers'["run"].knows = informed
          /\ takers'["run"].quantity = quantity /\ takers'["run"].adds = unsent
      BY <1>4, <3>1 DEF PushShape
    <3>3. PushFits(takers["run"])' BY <1>1, <1>3, <1>4, <3>2, Zenon DEF PushFits, StoreStands
    <3> QED BY <3>1, <3>3
  <2> QED BY <2>1, <2>2
<1>8. SheetFits'
  <2>1. CASE OpenSheet
    <3>1. sheetOpen' = [knows |-> informed, shown |-> quantity] BY <2>1 DEF OpenSheet
    <3>2. SheetShape(sheetOpen') /\ sheetOpen'.knows = informed /\ sheetOpen'.shown = quantity
      BY <1>4, <3>1 DEF SheetShape
    <3> QED BY <1>1, <1>3, <1>4, <3>2, Zenon DEF SheetFits, StoreStands
  <2>2. CASE Requeue \/ ReadForPush
    <3>1. sheetOpen' = sheetOpen BY <2>2 DEF Requeue, ReadForPush, StockStep
    <3> QED BY <1>1, <1>3, <3>1, SheetStands DEF StoreStockInv
  <2> QED BY <2>1, <2>2
<1> QED BY <1>1, <1>6, <1>7, <1>8, Zenon DEF StoreStockInv, Unspoilt

LEMMA SaveSheetStep ==
  ASSUME StoreStockInv, SaveSheet
  PROVE  StoreStockInv'
<1>1. PICK add \in {0, 1} :
        /\ sheetOpen # NoSheet /\ sheetOpen' = NoSheet
        /\ quantity' = sheetOpen.shown + add /\ informed' = sheetOpen.knows
        /\ price' = (IF add = 0 THEN price + 1 ELSE price)
        /\ truth' = truth + add /\ unsent' = unsent + add
        /\ additionLost' = (additionLost \/ (sheetOpen.shown # quantity /\ unsent > 0))
        /\ pushes' = Queued(<<price', quantity'>>)
        /\ UNCHANGED <<inStore, onHand, takers, storeMoves, saleUndone, told, skewed>>
        /\ stockSteps < MaxStockSteps /\ stockSteps' = stockSteps + 1
  BY DEF SaveSheet, StockStep
<1>2. /\ SheetShape(sheetOpen) /\ sheetOpen.knows <= storeMoves
      /\ Unspoilt /\ sheetOpen.knows = storeMoves => sheetOpen.shown = inStore + unsent
  BY <1>1, Zenon DEF StoreStockInv, SheetFits
<1>3. /\ inStore \in Nat /\ storeMoves \in Nat /\ unsent \in Nat /\ price \in Nat /\ truth \in Int
      /\ sheetOpen.knows \in Nat /\ sheetOpen.shown \in Nat
  BY <1>2 DEF StoreStockInv, StockTypes, SheetShape
<1>4. quantity' \in Nat /\ price' \in Nat /\ truth' \in Int /\ unsent' \in Nat BY <1>1, <1>3
<1>5. \A n \in Nat : n <= unsent => n <= unsent' BY <1>1, <1>3
<1>6. StoreStands BY <1>1, Zenon DEF StoreStands, Unspoilt
<1>7. stockSteps' \in 0..MaxStockSteps BY <1>1, StockStepCounts
<1>8. additionLost' \in BOOLEAN BY <1>1, Zenon
<1>9. \A c \in DOMAIN pushes' : pushes'[c] \in {"open", "synced"}
  <2>1. PICK content : pushes' = Queued(content) BY <1>1
  <2> QED BY <2>1 DEF Queued, StoreStockInv, StockTypes
<1>10. StockTypes' BY <1>1, <1>3, <1>4, <1>7, <1>8, <1>9, Zenon DEF StoreStockInv, StockTypes
<1>11. \A u \in Takers : (TakerFits(takers[u]) \/ (u = "run" /\ PushFits(takers[u])))'
  <2> TAKE u \in Takers
  <2>1. TakerFits(takers[u]) \/ (u = "run" /\ PushFits(takers[u])) BY DEF StoreStockInv
  <2>2. CASE u = "run" /\ PushFits(takers[u])
    <3>0. takers[u].adds \in Nat BY <2>2 DEF PushFits, PushShape
    <3>1. PushFits(takers[u])' BY <1>1, <1>5, <1>6, <2>2, <3>0, Zenon DEF PushFits, StoreStands
    <3> QED BY <1>1, <2>2, <3>1
  <2> QED BY <1>1, <1>6, <2>1, <2>2, TakerStands
<1>12. (Unspoilt /\ informed = storeMoves => quantity = inStore + unsent)'
  <2>1. sheetOpen.shown = inStore + unsent => quantity' = inStore + unsent' BY <1>1, <1>3
  <2> QED BY <1>1, <1>2, <1>6, <2>1, Zenon DEF StoreStands
<1>13. (Unspoilt => inStore = truth - unsent)'
  <2>1. inStore = truth - unsent => inStore = truth' - unsent' BY <1>1, <1>3
  <2> QED BY <1>1, <1>6, <2>1, Zenon DEF StoreStockInv, StoreStands
<1> QED BY <1>1, <1>2, <1>10, <1>11, <1>12, <1>13, Zenon DEF StoreStockInv, SheetFits

(* A push ends: unless it undoes a change of the store, it brings what was added. *)
LEMMA PutStockStep ==
  ASSUME StoreStockInv, PutStock
  PROVE  StoreStockInv'
<1> DEFINE j == takers["run"]
<1>1. /\ j.kind = "push" /\ inStore' = j.quantity
      /\ saleUndone' = (saleUndone \/ j.knows < storeMoves)
      /\ storeMoves' = (IF j.quantity = inStore THEN storeMoves ELSE storeMoves + 1)
      /\ informed' = (IF quantity = j.quantity /\ informed = j.knows THEN storeMoves' ELSE informed)
      /\ unsent' = unsent - j.adds
      /\ pushes' = [c \in DOMAIN pushes |-> "synced"]
      /\ takers' = [takers EXCEPT !["run"] = Resting]
      /\ UNCHANGED <<price, quantity, onHand, sheetOpen, truth, additionLost, told, skewed>>
      /\ stockSteps < MaxStockSteps /\ stockSteps' = stockSteps + 1
  BY DEF PutStock, StockStep
<1>2. /\ PushFits(j) /\ takers = [u \in Takers |-> takers[u]]
  BY <1>1, TakerKinds DEF StoreStockInv, StockTypes, Takers
<1>3. /\ \A u \in Takers : u # "run" => takers'[u] = takers[u]
      /\ takers'["run"] = Resting /\ takers' = [u \in Takers |-> takers'[u]]
  BY <1>1, <1>2 DEF Takers
<1> HIDE DEF j
<1>4. /\ j.quantity \in Nat /\ j.knows \in Nat /\ j.adds \in Nat /\ j.knows <= storeMoves
      /\ j.adds <= unsent
  BY <1>2 DEF PushFits, PushShape
<1>5. /\ inStore \in Nat /\ storeMoves \in Nat /\ unsent \in Nat /\ quantity \in Nat /\ informed \in Nat
      /\ informed <= storeMoves /\ truth \in Int
  BY DEF StoreStockInv, StockTypes
<1>6. /\ storeMoves' \in Nat /\ unsent' \in Nat /\ informed' \in Nat /\ inStore' \in Nat
      /\ informed' <= storeMoves'
      /\ \A n \in Nat : n <= storeMoves => n <= storeMoves'
      /\ \A n \in Nat : n <= storeMoves /\ n = storeMoves'
                        => storeMoves' = storeMoves /\ n = storeMoves /\ inStore' = inStore
  BY <1>1, <1>4, <1>5
<1>7. stockSteps' \in 0..MaxStockSteps BY <1>1, StockStepCounts
<1>8. StockTypes'
  <2>1. \A c \in DOMAIN pushes' : pushes'[c] \in {"open", "synced"} BY <1>1
  <2>2. saleUndone' \in BOOLEAN BY <1>1, Zenon
  <2> QED BY <1>1, <1>3, <1>6, <1>7, <2>1, <2>2, Zenon DEF StoreStockInv, StockTypes
<1>9. Unspoilt' => Unspoilt /\ ~(j.knows < storeMoves) BY <1>1, Zenon DEF Unspoilt
<1>10. ~(j.knows < storeMoves) => j.knows = storeMoves BY <1>4, <1>5
<1>11. Unspoilt' => /\ Unspoilt /\ j.quantity = inStore + j.adds /\ inStore = truth - unsent
                    /\ j.knows = storeMoves
                    /\ (informed = storeMoves => quantity = inStore + unsent)
  BY <1>2, <1>9, <1>10, Zenon DEF PushFits, StoreStockInv
<1>12. \A u \in Takers : (TakerFits(takers[u]) \/ (u = "run" /\ PushFits(takers[u])))'
  <2> TAKE u \in Takers
  <2>1. CASE u = "run" BY <1>3, <2>1 DEF TakerFits
  <2>2. CASE u # "run"
    <3>1. TakerFits(takers[u]) /\ takers'[u] = takers[u] BY <1>3, <2>2, Zenon DEF StoreStockInv
    <3>2. \A item, at : at \in Nat /\ FromStore(item, at) => FromStore(item, at)'
      BY <1>6, Zenon DEF FromStore
    <3>3. \A x : FetchedShape(x) \/ TakeShape(x) => x.at \in Nat BY DEF FetchedShape, TakeShape
    <3>4. TakerFits(takers[u])' BY <1>1, <3>1, <3>2, <3>3, Zenon DEF TakerFits
    <3> QED BY <3>4
  <2> QED BY <2>1, <2>2
<1>13. SheetFits'
  <2>1. CASE sheetOpen = NoSheet BY <1>1, <2>1, Zenon DEF SheetFits
  <2>2. CASE sheetOpen # NoSheet
    <3>1. /\ SheetShape(sheetOpen) /\ sheetOpen.knows <= storeMoves
          /\ Unspoilt /\ sheetOpen.knows = storeMoves => sheetOpen.shown = inStore + unsent
      BY <2>2, Zenon DEF StoreStockInv, SheetFits
    <3>2. sheetOpen.knows \in Nat /\ sheetOpen.knows <= storeMoves'
      <4>1. sheetOpen.knows \in Nat BY <3>1 DEF SheetShape
      <4> QED BY <1>6, <3>1, <4>1, Zenon
    <3>3. ASSUME Unspoilt', sheetOpen.knows = storeMoves' PROVE sheetOpen.shown = inStore' + unsent'
      <4>1. storeMoves' = storeMoves /\ sheetOpen.knows = storeMoves /\ inStore' = inStore
        BY <1>6, <3>1, <3>2, <3>3, Zenon
      <4>2. sheetOpen.shown = inStore + unsent BY <1>11, <3>1, <3>3, <4>1, Zenon
      <4>3. j.quantity = inStore /\ j.quantity = inStore + j.adds BY <1>1, <1>11, <3>3, <4>1
      <4>4. unsent' = unsent BY <1>1, <1>4, <1>5, <4>3
      <4> QED BY <4>1, <4>2, <4>4
    <3> QED BY <1>1, <3>1, <3>2, <3>3, Zenon DEF SheetFits
  <2> QED BY <2>1, <2>2
<1>14. (Unspoilt /\ informed = storeMoves => quantity = inStore + unsent)'
  <2> SUFFICES ASSUME Unspoilt', informed' = storeMoves' PROVE quantity = inStore' + unsent' BY <1>1
  <2>1. /\ j.quantity = inStore + j.adds /\ j.knows = storeMoves
        /\ (informed = storeMoves => quantity = inStore + unsent)
    BY <1>11
  <2>2. CASE quantity = j.quantity /\ informed = j.knows
    <3>1. quantity = inStore + unsent /\ quantity = inStore + j.adds BY <2>1, <2>2
    <3> QED BY <1>1, <1>4, <1>5, <2>2, <3>1
  <2>3. CASE ~(quantity = j.quantity /\ informed = j.knows)
    <3>1. informed = storeMoves' /\ informed <= storeMoves BY <1>1, <1>5, <2>3
    <3>2. storeMoves' = storeMoves /\ informed = storeMoves /\ inStore' = inStore
      BY <1>5, <1>6, <3>1
    <3>3. j.quantity = inStore BY <1>1, <3>2
    <3> QED BY <1>1, <1>4, <1>5, <2>1, <3>2, <3>3
  <2> QED BY <2>2, <2>3
<1>15. (Unspoilt => inStore = truth - unsent)'
  <2> SUFFICES ASSUME Unspoilt' PROVE inStore' = truth' - unsent' OBVIOUS
  <2>1. j.quantity = inStore + j.adds /\ inStore = truth - unsent BY <1>11
  <2> QED BY <1>1, <1>4, <1>5, <2>1
<1> QED BY <1>1, <1>6, <1>8, <1>12, <1>13, <1>14, <1>15, Zenon DEF StoreStockInv

(* Every step of the store, the pulls, the webhooks, the pushes and the staff keeps it. *)
LEMMA StoreStockStep == StoreStockInv /\ [StoreStockNext]_storeStockVars => StoreStockInv'
<1> SUFFICES ASSUME StoreStockInv, [StoreStockNext]_storeStockVars PROVE StoreStockInv' OBVIOUS
<1>1. CASE UNCHANGED storeStockVars
  <2>1. /\ StoreStands /\ UNCHANGED <<inStore, price, quantity, onHand, pushes, sheetOpen, takers,
                 truth, unsent, storeMoves, informed, saleUndone, additionLost, told, skewed, stockSteps>>
    BY <1>1, Zenon DEF storeStockVars, StoreStands, Unspoilt
  <2> QED
    BY <2>1, Zenon DEF StoreStockInv, StockTypes, TakerFits, PushFits, SheetFits, FromStore, Unspoilt
<1> QED
  BY <1>1, StoreMovesStep, FetchStep, AdoptStockStep, MoveInWooStep, OpenAndReadStep, SaveSheetStep,
     PutStockStep DEF StoreStockNext

(* What the store offers is what there is, but for what the ERP did not send yet, a push that *)
(* undid a sale and an addition that was written over; and the warehouse WOO follows the store *)
(* but for adjustments that overlapped (sync_product_stock_from_woocommerce). *)
THEOREM StoreStockTrue == StoreStockSpec => [](StoreStockTypeOK /\ StoreStockSound)
<1> QED BY StoreStockSafe, StoreStockStart, StoreStockStep, PTL DEF StoreStockSpec

--------------------
\* Customers: an account of the store is one customer.

\* Nothing happened that may give a customer to another account; nothing at all happened.
Undisputed == causes \cap {"moved", "desk", "billing"} = {}
Untroubled == causes = {}

CustomerShape == [mail : Mails \cup {NoMail}, phone : Int, of : BuyerIds \cup {DeskId, -1}]
WorldShape == [rows : [CustomerRows -> CustomerShape], map : [BuyerIds -> CustomerRows \cup {0}],
               ok : BOOLEAN, room : BOOLEAN]

BuyersFit ==
  /\ buyers \in [BuyerIds -> {NoBuyer} \cup [mail : Mails, phone : Phones \cup {NoPhone}]]
  /\ \A b, c \in BuyerIds : b # c /\ buyers[b] # NoBuyer => buyers[c].mail # buyers[b].mail
  /\ Untroubled => \A b, c \in BuyerIds :
                     b # c /\ buyers[b].phone = buyers[c].phone => buyers[b].phone = NoPhone

\* Rows and mappings: each leads to a row there is; to the account's own while nobody else wrote
\* there; and while nothing happened, there are no other rows, and no phone is another's.
RowsFit(roll, map) == /\ roll \in [CustomerRows -> CustomerShape]
                      /\ map \in [BuyerIds -> CustomerRows \cup {0}]
                      /\ \A b \in BuyerIds : map[b] # 0 => map[b] \in Made(roll)
OwnRows(roll, map) ==
  /\ \A b \in BuyerIds : map[b] # 0 => roll[map[b]].of = b
  /\ \A r \in Made(roll), b \in BuyerIds :
       buyers[b] # NoBuyer /\ roll[r].mail = buyers[b].mail => roll[r].of = b
OnlyTheirs(roll, map) ==
  \A r \in Made(roll) :
    /\ roll[r].of \in BuyerIds /\ map[roll[r].of] = r
    /\ roll[r].phone \in {NoPhone, -roll[r].of} \cup Phones
    /\ \A b \in BuyerIds : b # roll[r].of /\ roll[r].phone = buyers[b].phone => roll[r].phone = NoPhone
WorldFits(roll, map) == /\ RowsFit(roll, map) /\ Unique(roll)
                        /\ Undisputed => OwnRows(roll, map)
                        /\ Untroubled => OnlyTheirs(roll, map)

CustomersInv ==
  /\ BuyersFit /\ WorldFits(customers, matched)
  /\ runStopped => ~Untroubled
  /\ misbooked => ~Undisputed

LEMMA TroubleTells == Untroubled => Undisputed
BY DEF Untroubled, Undisputed

LEMMA CustomersTrueOf == CustomersInv => CustomersTypeOK /\ CustomersSound
<1> SUFFICES ASSUME CustomersInv PROVE CustomersTypeOK /\ CustomersSound OBVIOUS
<1>1. CustomersTypeOK BY DEF CustomersInv, WorldFits, RowsFit, CustomersTypeOK
<1>2. OneCustomerEach
  <2> SUFFICES ASSUME matched[1] = matched[2], matched[1] # 0, Undisputed PROVE FALSE
    BY DEF OneCustomerEach, Undisputed
  <2>1. OwnRows(customers, matched) BY DEF CustomersInv, WorldFits
  <2>2. customers[matched[1]].of = 1 /\ customers[matched[2]].of = 2 BY <2>1 DEF OwnRows, BuyerIds
  <2> QED BY <2>2
<1>3. CustomersGetThrough BY DEF CustomersInv, CustomersGetThrough, Untroubled
<1>4. OrdersFindTheirBuyer BY DEF CustomersInv, OrdersFindTheirBuyer, Undisputed
<1> QED BY <1>1, <1>2, <1>3, <1>4 DEF CustomersSound

LEMMA CustomersStart == CustomersInit => CustomersInv
<1> SUFFICES ASSUME CustomersInit PROVE CustomersInv OBVIOUS
<1>1. Made(customers) = {} BY DEF CustomersInit, Made
<1>2. RowsFit(customers, matched)
  <2>1. NoCustomer \in CustomerShape BY DEF NoCustomer, CustomerShape, NoPhone
  <2>2. customers = [r \in CustomerRows |-> NoCustomer] /\ matched = [b \in BuyerIds |-> 0]
    BY DEF CustomersInit
  <2> QED BY <2>1, <2>2 DEF RowsFit
<1>3. BuyersFit BY DEF CustomersInit, BuyersFit, NoBuyer
<1>4. Unique(customers) /\ OwnRows(customers, matched) /\ OnlyTheirs(customers, matched)
  BY <1>1 DEF CustomersInit, Unique, OwnRows, OnlyTheirs, BuyerIds
<1> QED BY <1>2, <1>3, <1>4 DEF CustomersInit, CustomersInv, WorldFits

--------------------
(* The least of some rows. *)
LEMMA LeastRow ==
  ASSUME NEW S \in SUBSET Nat, S # {}
  PROVE  \E r \in S : \A q \in S : r <= q
<1> DEFINE less == OpToRel(<, Nat)
<1>1. PICK r \in S : \A q \in S : <<q, r>> \notin less
  <2>1. IsWellFoundedOn(less, Nat) BY NatLessThanWellFounded
  <2> HIDE DEF less
  <2> QED BY <2>1, WFMin
<1>2. \A q \in S : ~(q < r) BY <1>1 DEF OpToRel
<1> QED BY <1>2

LEMMA NextRowIsFree ==
  ASSUME NEW roll, Made(roll) # CustomerRows
  PROVE  NextRow(roll) \in CustomerRows \ Made(roll) /\ NextRow(roll) # 0
<1>1. /\ CustomerRows \ Made(roll) \in SUBSET Nat /\ CustomerRows \ Made(roll) # {}
      /\ 0 \notin CustomerRows
  BY CustomersAssumption DEF Made
<1>2. \E r \in CustomerRows \ Made(roll) : \A q \in CustomerRows \ Made(roll) : r <= q
  BY <1>1, LeastRow
<1>3. NextRow(roll) \in CustomerRows \ Made(roll) BY <1>2 DEF NextRow
<1> QED BY <1>1, <1>3

(* A row is written for an account: its own, one with its e-mail, or a new one. *)
LEMMA RowWritten ==
  ASSUME BuyersFit, NEW roll, NEW map, WorldFits(roll, map), NEW b \in BuyerIds,
         buyers[b] # NoBuyer, NEW r \in CustomerRows, NEW x \in CustomerShape, x.of = b,
         r = map[b] \/ (map[b] = 0 /\ (r \notin Made(roll) \/ roll[r].mail = buyers[b].mail))
  PROVE  LET after == [roll EXCEPT ![r] = x]
             to == [map EXCEPT ![b] = r]
         IN /\ RowsFit(after, to) /\ Made(after) = Made(roll) \cup {r}
            /\ Undisputed /\ x.mail = buyers[b].mail => OwnRows(after, to)
            /\ /\ Untroubled /\ x.mail = buyers[b].mail
               /\ x.phone \in {NoPhone, -b, buyers[b].phone}
               => OnlyTheirs(after, to) /\ Unique(after)
<1> DEFINE after == [roll EXCEPT ![r] = x]
           to == [map EXCEPT ![b] = r]
<1>1. /\ roll \in [CustomerRows -> CustomerShape] /\ map \in [BuyerIds -> CustomerRows \cup {0}]
      /\ \A c \in BuyerIds : map[c] # 0 => map[c] \in Made(roll)
      /\ 0 \notin CustomerRows
  BY CustomersAssumption DEF WorldFits, RowsFit
<1>2. /\ after \in [CustomerRows -> CustomerShape] /\ after[r] = x
      /\ \A q \in CustomerRows : q # r => after[q] = roll[q]
      /\ to \in [BuyerIds -> CustomerRows \cup {0}] /\ to[b] = r
      /\ \A c \in BuyerIds : c # b => to[c] = map[c]
  BY <1>1
<1>3. x # NoCustomer BY DEF NoCustomer, BuyerIds
<1> HIDE DEF after, to
<1>4. Made(after) = Made(roll) \cup {r} BY <1>2, <1>3 DEF Made
<1>5. RowsFit(after, to) BY <1>1, <1>2, <1>4 DEF RowsFit
<1>6. \A c \in BuyerIds : c # b => buyers[c].mail # buyers[b].mail BY DEF BuyersFit
<1>7. ASSUME Undisputed PROVE \A c \in BuyerIds : c # b => map[c] # r
  <2>1. OwnRows(roll, map) BY <1>7 DEF WorldFits
  <2> SUFFICES ASSUME NEW c \in BuyerIds, c # b, map[c] = r PROVE FALSE OBVIOUS
  <2>2. roll[r].of = c /\ r \in Made(roll) BY <1>1, <2>1 DEF OwnRows
  <2>3. roll[r].of = b BY <1>1, <2>1, <2>2 DEF OwnRows
  <2> QED BY <2>2, <2>3
<1>8. ASSUME Undisputed, x.mail = buyers[b].mail PROVE OwnRows(after, to)
  <2>1. OwnRows(roll, map) BY <1>8 DEF WorldFits
  <2>2. \A c \in BuyerIds : to[c] # 0 => after[to[c]].of = c
    BY <1>1, <1>2, <1>7, <1>8, <2>1 DEF OwnRows
  <2>3. ASSUME NEW q \in Made(after), NEW c \in BuyerIds, buyers[c] # NoBuyer,
               after[q].mail = buyers[c].mail
        PROVE  after[q].of = c
    <3>1. CASE q = r BY <1>2, <1>6, <1>8, <2>3, <3>1
    <3>2. CASE q # r
      <4>1. q \in Made(roll) /\ after[q] = roll[q] BY <1>2, <1>4, <3>2 DEF Made
      <4> QED BY <2>1, <2>3, <4>1 DEF OwnRows
    <3> QED BY <3>1, <3>2
  <2> QED BY <2>2, <2>3 DEF OwnRows
<1>9. ASSUME Untroubled, x.mail = buyers[b].mail, x.phone \in {NoPhone, -b, buyers[b].phone}
      PROVE  OnlyTheirs(after, to) /\ Unique(after)
  <2>1. OwnRows(roll, map) /\ OnlyTheirs(roll, map) /\ Unique(roll)
    BY <1>9, TroubleTells DEF WorldFits
  <2>2. /\ \A c \in BuyerIds : buyers[c].phone \in Phones \cup {NoPhone}
        /\ \A c \in BuyerIds : c # b /\ buyers[b].phone = buyers[c].phone => buyers[b].phone = NoPhone
        /\ buyers[b].mail # NoMail
    <3>1. NoMail \notin Mails BY CustomersAssumption DEF NoMail
    <3>2. \A c \in BuyerIds : buyers[c] \in {NoBuyer} \cup [mail : Mails, phone : Phones \cup {NoPhone}]
      BY DEF BuyersFit
    <3> QED BY <1>9, <3>1, <3>2 DEF BuyersFit, NoBuyer
  <2>3. \A q \in Made(after) : q # r => q \in Made(roll) /\ q \in CustomerRows /\ after[q] = roll[q]
    BY <1>2, <1>4 DEF Made
  <2>4. ASSUME NEW q \in Made(roll), q # r PROVE roll[q].of # b
    <3>1. roll[q].of = b => map[b] = q BY <2>1 DEF OnlyTheirs
    <3> QED BY <1>1, <2>4, <3>1 DEF Made
  <2>5. OnlyTheirs(after, to)
    <3> SUFFICES ASSUME NEW q \in Made(after)
                 PROVE  /\ after[q].of \in BuyerIds /\ to[after[q].of] = q
                        /\ after[q].phone \in {NoPhone, -after[q].of} \cup Phones
                        /\ \A c \in BuyerIds : c # after[q].of /\ after[q].phone = buyers[c].phone
                                               => after[q].phone = NoPhone
      BY DEF OnlyTheirs
    <3>1. CASE q = r
      <4>1. \A c \in BuyerIds : buyers[c].phone # -b BY <2>2 DEF Phones, NoPhone, BuyerIds
      <4> QED BY <1>2, <1>9, <2>2, <3>1, <4>1
    <3>2. CASE q # r BY <1>2, <2>1, <2>3, <2>4, <3>2 DEF OnlyTheirs
    <3> QED BY <3>1, <3>2
  <2>6. ASSUME NEW q \in Made(roll), q # r
        PROVE  roll[q].mail # x.mail /\ (x.phone = NoPhone \/ x.phone # roll[q].phone)
    <3>1. roll[q].of # b /\ roll[q].of \in BuyerIds BY <2>1, <2>4, <2>6 DEF OnlyTheirs
    <3>2. roll[q].mail # x.mail BY <1>9, <2>1, <2>6, <3>1 DEF OwnRows
    <3>3. x.phone = buyers[b].phone => x.phone = NoPhone \/ x.phone # roll[q].phone
      BY <2>1, <2>6, <3>1 DEF OnlyTheirs
    <3>4. x.phone = -b => x.phone # roll[q].phone
      <4>1. roll[q].phone \in {NoPhone, -roll[q].of} \cup Phones BY <2>1, <2>6 DEF OnlyTheirs
      <4> QED BY <3>1, <4>1 DEF Phones, NoPhone, BuyerIds
    <3> QED BY <1>9, <3>2, <3>3, <3>4
  <2>7. Unique(after)
    <3> SUFFICES ASSUME NEW p \in Made(after), NEW q \in Made(after), p # q
                 PROVE  /\ after[p].mail = NoMail \/ after[p].mail # after[q].mail
                        /\ after[p].phone = NoPhone \/ after[p].phone # after[q].phone
      BY DEF Unique
    <3>1. CASE p = r BY <1>2, <2>3, <2>6, <3>1
    <3>2. CASE q = r
      <4>1. p # r /\ p \in Made(roll) /\ after[p] = roll[p] /\ after[q] = x BY <1>2, <2>3, <3>2
      <4>2. roll[p].mail # x.mail /\ (x.phone = NoPhone \/ x.phone # roll[p].phone) BY <2>6, <4>1
      <4> QED BY <4>1, <4>2
    <3>3. CASE p # r /\ q # r BY <2>1, <2>3, <3>3 DEF Unique
    <3> QED BY <3>1, <3>2, <3>3
  <2> QED BY <2>5, <2>7
<1> QED BY <1>4, <1>5, <1>8, <1>9 DEF after, to

(* What an import writes into the world of rows and mappings. *)
LEMMA PutIs ==
  ASSUME NEW w \in WorldShape, NEW r \in CustomerRows, NEW x \in CustomerShape
  PROVE  /\ Put(w, r, x).rows = [w.rows EXCEPT ![r] = x] /\ Put(w, r, x).map = w.map
         /\ Put(w, r, x).ok <=> w.ok /\ Unique([w.rows EXCEPT ![r] = x])
         /\ Put(w, r, x) \in WorldShape
<1> DEFINE after == [w.rows EXCEPT ![r] = x]
           good == w.ok /\ Unique(after)
           p == Put(w, r, x)
<1>1. p = [w EXCEPT !.rows = after, !.ok = good] BY Zenon DEF Put
<1>2. after \in [CustomerRows -> CustomerShape] /\ good \in BOOLEAN BY DEF WorldShape
<1> HIDE DEF after, good, p
<1>3. /\ p \in WorldShape /\ p.rows = after /\ p.map = w.map /\ p.ok = good
  BY <1>1, <1>2 DEF WorldShape
<1> QED BY <1>3, Zenon DEF after, good, p

LEMMA MappedIs ==
  ASSUME NEW w \in WorldShape, NEW r \in CustomerRows, NEW b \in BuyerIds
  PROVE  /\ Mapped(w, b, r).rows = w.rows /\ Mapped(w, b, r).map = [w.map EXCEPT ![b] = r]
         /\ Mapped(w, b, r).ok = w.ok /\ Mapped(w, b, r) \in WorldShape
<1>1. Mapped(w, b, r) = [w EXCEPT !.map = [w.map EXCEPT ![b] = r]] BY DEF Mapped, WorldShape
<1>2. [w.map EXCEPT ![b] = r] \in [BuyerIds -> CustomerRows \cup {0}] BY DEF WorldShape
<1> QED BY <1>1, <1>2 DEF WorldShape

LEMMA WorldIs ==
  ASSUME CustomersInv
  PROVE  /\ World \in WorldShape /\ World.rows = customers /\ World.map = matched
         /\ World.ok /\ World.room
BY DEF World, WorldShape, CustomersInv, WorldFits, RowsFit

(* The same for the first row written. *)
LEMMA PutFirst ==
  ASSUME CustomersInv, NEW r \in CustomerRows, NEW x \in CustomerShape
  PROVE  /\ Put(World, r, x) \in WorldShape
         /\ Put(World, r, x).rows = [customers EXCEPT ![r] = x]
         /\ Put(World, r, x).map = matched
         /\ Put(World, r, x).ok => Unique([customers EXCEPT ![r] = x])
<1>1. World \in WorldShape /\ World.rows = customers /\ World.map = matched BY WorldIs
<1> HIDE DEF World
<1>2. /\ Put(World, r, x).rows = [World.rows EXCEPT ![r] = x]
      /\ Put(World, r, x).map = World.map /\ Put(World, r, x) \in WorldShape
  BY <1>1, PutIs
<1>3. Put(World, r, x).ok => Unique([World.rows EXCEPT ![r] = x]) BY <1>1, PutIs
<1> QED BY <1>1, <1>2, <1>3

LEMMA PutAndMapped ==
  ASSUME CustomersInv, NEW r \in CustomerRows, NEW x \in CustomerShape, NEW b \in BuyerIds
  PROVE  /\ Mapped(Put(World, r, x), b, r) \in WorldShape
         /\ Mapped(Put(World, r, x), b, r).rows = [customers EXCEPT ![r] = x]
         /\ Mapped(Put(World, r, x), b, r).map = [matched EXCEPT ![b] = r]
         /\ Mapped(Put(World, r, x), b, r).ok => Unique([customers EXCEPT ![r] = x])
<1>1. /\ Put(World, r, x) \in WorldShape
      /\ Put(World, r, x).rows = [customers EXCEPT ![r] = x]
      /\ Put(World, r, x).map = matched
      /\ Put(World, r, x).ok => Unique([customers EXCEPT ![r] = x])
  BY PutFirst
<1> DEFINE p == Put(World, r, x)
<1> HIDE DEF p
<1>2. p \in WorldShape /\ p.rows = [customers EXCEPT ![r] = x] /\ p.map = matched BY <1>1 DEF p
<1>3. /\ Mapped(p, b, r).rows = p.rows /\ Mapped(p, b, r).map = [p.map EXCEPT ![b] = r]
      /\ Mapped(p, b, r).ok = p.ok /\ Mapped(p, b, r) \in WorldShape
  BY <1>2, MappedIs
<1>4. Mapped(p, b, r).ok => Unique([customers EXCEPT ![r] = x]) BY <1>1, <1>3, Zenon DEF p
<1> QED BY <1>2, <1>3, <1>4 DEF p

(* An account is imported: while nothing happened the keys let it. *)
LEMMA BuyerImported ==
  ASSUME BuyersFit, NEW w \in WorldShape, NEW b \in BuyerIds,
         w.ok => WorldFits(w.rows, w.map), Untroubled => w.ok
  PROVE  /\ ImportBuyer(w, b) \in WorldShape
         /\ ImportBuyer(w, b).ok => WorldFits(ImportBuyer(w, b).rows, ImportBuyer(w, b).map)
         /\ Untroubled => ImportBuyer(w, b).ok
<1> DEFINE v == ImportBuyer(w, b)
<1>1. CASE buyers[b] = NoBuyer \/ ~w.ok
  <2>1. v = w BY <1>1 DEF ImportBuyer
  <2> QED BY <2>1
<1>2. CASE ~(buyers[b] = NoBuyer \/ ~w.ok) /\ v = [w EXCEPT !.room = FALSE]
  <2>1. v \in WorldShape /\ v.rows = w.rows /\ v.map = w.map /\ v.ok = w.ok BY <1>2 DEF WorldShape
  <2> QED BY <1>2, <2>1
<1>3. CASE /\ ~(buyers[b] = NoBuyer \/ ~w.ok) /\ v # [w EXCEPT !.room = FALSE]
  <2> DEFINE x == BuyerRow(b)
  <2>1. /\ buyers[b] \in [mail : Mails, phone : Phones \cup {NoPhone}]
        /\ w.rows \in [CustomerRows -> CustomerShape] /\ w.map \in [BuyerIds -> CustomerRows \cup {0}]
        /\ WorldFits(w.rows, w.map) /\ w.ok
    BY <1>3 DEF BuyersFit, WorldShape
  <2>2. /\ x \in CustomerShape /\ x.of = b /\ x.mail = buyers[b].mail
        /\ x.phone \in {NoPhone, -b, buyers[b].phone}
    BY <2>1 DEF BuyerRow, PhoneOf, CustomerShape, Phones, NoPhone, BuyerIds
  <2> HIDE DEF x
  <2>3. PICK r \in CustomerRows :
          /\ r = w.map[b] \/ (w.map[b] = 0 /\ (r \notin Made(w.rows) \/ w.rows[r].mail = buyers[b].mail))
          /\ \/ v = Put(w, r, x) /\ r = w.map[b]
             \/ v = Mapped(Put(w, r, x), b, r)
    <3>1. CASE w.map[b] # 0 BY <1>3, <2>1, <3>1 DEF ImportBuyer, x
    <3>2. CASE w.map[b] = 0 /\ WithMail(w.rows, buyers[b].mail) # {}
      <4> DEFINE r == CHOOSE r \in WithMail(w.rows, buyers[b].mail) : TRUE
      <4>1. r \in WithMail(w.rows, buyers[b].mail) BY <3>2
      <4>2. v = Mapped(Put(w, r, x), b, r) BY <1>3, <3>2 DEF ImportBuyer, x
      <4> HIDE DEF r, v
      <4>3. r \in CustomerRows /\ w.rows[r].mail = buyers[b].mail BY <4>1 DEF WithMail, Made
      <4> QED BY <3>2, <4>2, <4>3
    <3>3. CASE w.map[b] = 0 /\ WithMail(w.rows, buyers[b].mail) = {}
      <4>1. Made(w.rows) # CustomerRows BY <1>3, <3>3 DEF ImportBuyer
      <4>2. v = Mapped(Put(w, NextRow(w.rows), x), b, NextRow(w.rows))
        BY <1>3, <3>3, <4>1 DEF ImportBuyer, x
      <4> HIDE DEF v
      <4> QED BY <3>3, <4>1, <4>2, NextRowIsFree
    <3> QED BY <3>1, <3>2, <3>3
  <2> DEFINE after == [w.rows EXCEPT ![r] = x]
             to == [w.map EXCEPT ![b] = r]
  <2>4. r = w.map[b] => to = w.map BY <2>1
  <2>5. /\ v \in WorldShape /\ v.rows = after /\ v.map = to /\ (v.ok <=> Unique(after))
    <3> DEFINE p == Put(w, r, x)
    <3>1. /\ p \in WorldShape /\ p.rows = after /\ p.map = w.map BY <2>2, PutIs
    <3>2. p.ok <=> Unique(after) BY <2>1, <2>2, PutIs
    <3> HIDE DEF p, v, after
    <3>3. /\ Mapped(p, b, r).rows = p.rows /\ Mapped(p, b, r).map = [p.map EXCEPT ![b] = r]
          /\ Mapped(p, b, r).ok = p.ok /\ Mapped(p, b, r) \in WorldShape
      BY <3>1, MappedIs
    <3>4. \/ v = p /\ r = w.map[b]
          \/ v = Mapped(p, b, r)
      BY <2>3 DEF p
    <3>5. v.ok <=> Unique(after) BY <3>2, <3>3, <3>4, Zenon
    <3> QED BY <2>4, <3>1, <3>3, <3>4, <3>5
  <2>6. /\ RowsFit(after, to)
        /\ Undisputed => OwnRows(after, to)
        /\ Untroubled => OnlyTheirs(after, to) /\ Unique(after)
    BY <1>3, <2>1, <2>2, <2>3, RowWritten
  <2> HIDE DEF after, to, v
  <2>7. v.ok => WorldFits(v.rows, v.map) BY <2>5, <2>6 DEF WorldFits
  <2> QED BY <2>5, <2>6, <2>7 DEF v
<1> QED BY <1>1, <1>2, <1>3

--------------------
LEMMA ImportsStep ==
  ASSUME CustomersInv, PullCustomers \/ \E b \in BuyerIds : HookOf(b)
  PROVE  CustomersInv'
<1>1. /\ World \in WorldShape /\ World.rows = customers /\ World.map = matched
      /\ World.ok /\ World.room
  BY WorldIs
<1>2. BuyersFit /\ WorldFits(customers, matched) BY DEF CustomersInv
<1>3. UNCHANGED <<buyers, causes, misbooked>> BY DEF PullCustomers, HookOf
<1>4. WorldFits(customers', matched') /\ (Untroubled => ~runStopped')
  <2>1. CASE PullCustomers
    <3> DEFINE v == ImportBuyer(World, 1)
               w == ImportBuyer(v, 2)
    <3>0. 1 \in BuyerIds /\ 2 \in BuyerIds BY DEF BuyerIds
    <3> HIDE DEF World
    <3>1. v \in WorldShape /\ (v.ok => WorldFits(v.rows, v.map)) /\ (Untroubled => v.ok)
      BY <1>1, <1>2, <3>0, BuyerImported
    <3> HIDE DEF v
    <3>2. w \in WorldShape /\ (w.ok => WorldFits(w.rows, w.map)) /\ (Untroubled => w.ok)
      BY <1>2, <3>0, <3>1, BuyerImported
    <3>3. /\ runStopped' = ~w.ok
          /\ IF w.ok THEN customers' = w.rows /\ matched' = w.map ELSE UNCHANGED <<customers, matched>>
      BY <2>1 DEF PullCustomers, Take, v
    <3> HIDE DEF w
    <3>4. w.ok \in BOOLEAN BY <3>2 DEF WorldShape
    <3> QED BY <1>2, <3>2, <3>3, <3>4, Zenon
  <2>2. CASE \E b \in BuyerIds : HookOf(b)
    <3>1. PICK b \in BuyerIds : HookOf(b) BY <2>2
    <3> DEFINE w == ImportBuyer(World, b)
    <3> HIDE DEF World
    <3>2. w \in WorldShape /\ (w.ok => WorldFits(w.rows, w.map)) BY <1>1, <1>2, BuyerImported
    <3>3. w.ok /\ customers' = w.rows /\ matched' = w.map /\ runStopped' = runStopped
      BY <3>1 DEF HookOf, Take
    <3> HIDE DEF w
    <3> QED BY <3>2, <3>3 DEF CustomersInv
  <2> QED BY <2>1, <2>2
<1>5. (Untroubled' <=> Untroubled) /\ (Undisputed' <=> Undisputed) /\ BuyersFit'
  BY <1>2, <1>3 DEF Untroubled, Undisputed, BuyersFit
<1>6. WorldFits(customers, matched)' BY <1>3, <1>4, <1>5 DEF WorldFits, OwnRows, OnlyTheirs
<1> QED BY <1>3, <1>4, <1>5, <1>6 DEF CustomersInv

LEMMA ContactsStep ==
  ASSUME CustomersInv, RegisterBuyer \/ ChangeContact
  PROVE  CustomersInv'
<1>1. PICK b \in BuyerIds, mail \in Mails, phone \in Phones \cup {NoPhone} : Contact(b, mail, phone)
  BY DEF RegisterBuyer, ChangeContact
<1> DEFINE other == [mail |-> mail, phone |-> phone]
<1>2. /\ \A c \in BuyerIds \ {b} : buyers[c].mail # mail
      /\ buyers' = [buyers EXCEPT ![b] = other]
      /\ UNCHANGED <<customers, matched, runStopped, misbooked>>
      /\ causes \subseteq causes'
      /\ (\E c \in BuyerIds \ {b} : phone # NoPhone /\ buyers[c].phone = phone) => "shared" \in causes'
      /\ \A r \in Made(customers) :
           /\ customers[r].of # b
           /\ customers[r].mail = mail \/ (phone # NoPhone /\ customers[r].phone = phone)
           => "moved" \in causes'
  BY <1>1 DEF Contact
<1>3. /\ buyers \in [BuyerIds -> {NoBuyer} \cup [mail : Mails, phone : Phones \cup {NoPhone}]]
      /\ WorldFits(customers, matched) /\ BuyersFit
  BY DEF CustomersInv, BuyersFit
<1>4. /\ buyers' \in [BuyerIds -> {NoBuyer} \cup [mail : Mails, phone : Phones \cup {NoPhone}]]
      /\ buyers'[b].mail = mail /\ buyers'[b].phone = phone
      /\ \A c \in BuyerIds : c # b => buyers'[c] = buyers[c]
  BY <1>2, <1>3
<1> HIDE DEF other
<1>5. (Untroubled' => Untroubled) /\ (Undisputed' => Undisputed) BY <1>2 DEF Untroubled, Undisputed
<1>6. BuyersFit'
  <2>1. NoMail \notin Mails BY CustomersAssumption DEF NoMail
  <2>2. ASSUME NEW c \in BuyerIds, NEW d \in BuyerIds, c # d, buyers'[c] # NoBuyer
        PROVE  buyers'[d].mail # buyers'[c].mail
    <3>1. CASE c = b BY <1>2, <1>4, <2>2, <3>1
    <3>2. CASE d = b BY <1>2, <1>4, <2>2, <3>2
    <3>3. CASE c # b /\ d # b BY <1>3, <1>4, <2>2, <3>3 DEF BuyersFit
    <3> QED BY <3>1, <3>2, <3>3
  <2>3. ASSUME Untroubled', NEW c \in BuyerIds, NEW d \in BuyerIds, c # d,
               buyers'[c].phone = buyers'[d].phone
        PROVE  buyers'[c].phone = NoPhone
    <3>1. "shared" \notin causes' BY <2>3 DEF Untroubled
    <3> QED BY <1>2, <1>3, <1>4, <1>5, <2>3, <3>1 DEF BuyersFit
  <2> QED BY <1>4, <2>2, <2>3 DEF BuyersFit
<1>7. ASSUME Undisputed' PROVE OwnRows(customers, matched)'
  <2>1. OwnRows(customers, matched) /\ "moved" \notin causes'
    BY <1>3, <1>5, <1>7 DEF WorldFits, Undisputed
  <2>2. ASSUME NEW r \in Made(customers), NEW c \in BuyerIds, buyers'[c] # NoBuyer,
               customers[r].mail = buyers'[c].mail
        PROVE  customers[r].of = c
    BY <1>2, <1>4, <2>1, <2>2 DEF OwnRows
  <2> QED BY <1>2, <2>1, <2>2 DEF OwnRows
<1>8. ASSUME Untroubled' PROVE OnlyTheirs(customers, matched)'
  <2>1. OnlyTheirs(customers, matched) /\ "moved" \notin causes'
    BY <1>3, <1>5, <1>8 DEF WorldFits, Untroubled
  <2>2. ASSUME NEW r \in Made(customers), NEW c \in BuyerIds, c # customers[r].of,
               customers[r].phone = buyers'[c].phone
        PROVE  customers[r].phone = NoPhone
    BY <1>2, <1>4, <2>1, <2>2 DEF OnlyTheirs
  <2> QED BY <1>2, <2>1, <2>2 DEF OnlyTheirs
<1>9. WorldFits(customers, matched)' BY <1>2, <1>3, <1>7, <1>8 DEF WorldFits, RowsFit
<1> QED BY <1>2, <1>5, <1>6, <1>9 DEF CustomersInv

(* Whoever writes at the desk or for another account is known as a cause. *)
LEMMA DisputedStep ==
  ASSUME CustomersInv, NEW w \in WorldShape, w.ok, Unique(w.rows), RowsFit(w.rows, w.map),
         customers' = w.rows, matched' = w.map, UNCHANGED <<buyers, runStopped>>,
         ~Undisputed', causes \subseteq causes'
  PROVE  CustomersInv'
<1>1. ~Untroubled' BY TroubleTells, PTL
<1>2. BuyersFit' BY <1>1 DEF CustomersInv, BuyersFit
<1>3. WorldFits(customers, matched)' BY <1>1 DEF WorldFits
<1> QED BY <1>1, <1>2, <1>3 DEF CustomersInv

LEMMA RowPut ==
  ASSUME CustomersInv, NEW r \in CustomerRows, NEW x \in CustomerShape, x # NoCustomer,
         NEW map \in [BuyerIds -> CustomerRows \cup {0}], \A b \in BuyerIds : map[b] \in {matched[b], r}
  PROVE  RowsFit([customers EXCEPT ![r] = x], map)
<1>1. /\ customers \in [CustomerRows -> CustomerShape]
      /\ \A b \in BuyerIds : matched[b] # 0 => matched[b] \in Made(customers)
  BY DEF CustomersInv, WorldFits, RowsFit
<1>2. Made([customers EXCEPT ![r] = x]) = Made(customers) \cup {r} BY <1>1 DEF Made
<1> QED BY <1>1, <1>2 DEF RowsFit

LEMMA DeskStep ==
  ASSUME CustomersInv, CreateCustomer \/ UpdateCustomer
  PROVE  CustomersInv'
<1>1. PICK r \in CustomerRows, x \in CustomerShape : x # NoCustomer /\ DeskWrites(r, x)
  <2>1. CASE CreateCustomer
    <3>1. PICK mail \in Mails \cup {NoMail}, phone \in Phones :
            /\ Made(customers) # CustomerRows
            /\ DeskWrites(NextRow(customers), [mail |-> mail, phone |-> phone, of |-> DeskId])
      BY <2>1 DEF CreateCustomer
    <3>2. [mail |-> mail, phone |-> phone, of |-> DeskId] \in CustomerShape
      BY DEF CustomerShape, Phones
    <3>3. [mail |-> mail, phone |-> phone, of |-> DeskId] # NoCustomer BY DEF NoCustomer, DeskId
    <3> QED BY <3>1, <3>2, <3>3, NextRowIsFree
  <2>2. CASE UpdateCustomer
    <3>1. PICK r \in Made(customers), mail \in Mails, phone \in Phones :
            DeskWrites(r, [customers[r] EXCEPT !.mail = mail, !.phone = phone])
      BY <2>2 DEF UpdateCustomer
    <3>2. r \in CustomerRows /\ customers[r] \in CustomerShape /\ phone \in Int
      BY DEF Made, CustomersInv, WorldFits, RowsFit, Phones
    <3> DEFINE x == [customers[r] EXCEPT !.mail = mail, !.phone = phone]
    <3>3. x \in CustomerShape /\ x.mail = mail BY <3>2 DEF CustomerShape
    <3>4. NoMail \notin Mails BY CustomersAssumption DEF NoMail
    <3>5. x # NoCustomer BY <3>3, <3>4 DEF NoCustomer
    <3> QED BY <3>1, <3>2, <3>3, <3>5
  <2> QED BY <2>1, <2>2
<1> DEFINE w == Put(World, r, x)
<1>2. World \in WorldShape /\ World.rows = customers /\ World.map = matched /\ World.ok BY WorldIs
<1>3. /\ w.ok /\ customers' = w.rows /\ matched' = w.map /\ causes' = causes \cup {"desk"}
      /\ UNCHANGED <<buyers, runStopped>>
  BY <1>1 DEF DeskWrites, Take
<1> HIDE DEF World
<1>4. /\ w \in WorldShape /\ w.rows = [customers EXCEPT ![r] = x] /\ w.map = matched
      /\ Unique(w.rows)
  BY <1>3, PutFirst
<1>5. matched \in [BuyerIds -> CustomerRows \cup {0}] BY DEF CustomersInv, WorldFits, RowsFit
<1>6. RowsFit(w.rows, w.map) BY <1>1, <1>4, <1>5, RowPut
<1>7. ~Undisputed' /\ causes \subseteq causes' BY <1>3 DEF Undisputed
<1> HIDE DEF w
<1> QED BY <1>3, <1>4, <1>6, <1>7, DisputedStep

LEMMA ImportOrderStep ==
  ASSUME CustomersInv, ImportOrder
  PROVE  CustomersInv'
<1>1. PICK b \in BuyerIds \cup {DeskId}, mail \in Mails :
        LET phone == IF b = DeskId THEN NoPhone ELSE buyers[b].phone
            w == BuyerOfOrder(b, mail, phone)
            own == b # DeskId /\ buyers[b].mail = mail
        IN  /\ b # DeskId => buyers[b] # NoBuyer
            /\ Made(customers) # CustomerRows /\ w.ok /\ Take(w)
            /\ causes' = IF own THEN causes ELSE causes \cup {"billing"}
            /\ misbooked' = (misbooked \/ (b # DeskId /\ w.rows[BookedOn(w, b, mail)].of # b))
            /\ UNCHANGED <<buyers, runStopped>>
  BY DEF ImportOrder
<1> DEFINE phone == IF b = DeskId THEN NoPhone ELSE buyers[b].phone
           w == BuyerOfOrder(b, mail, phone)
           own == b # DeskId /\ buyers[b].mail = mail
           r == NextRow(customers)
           x == [mail |-> mail, phone |-> phone, of |-> b]
<1>2. World \in WorldShape /\ World.rows = customers /\ World.map = matched /\ World.ok BY WorldIs
<1>3. /\ buyers \in [BuyerIds -> {NoBuyer} \cup [mail : Mails, phone : Phones \cup {NoPhone}]]
      /\ BuyersFit /\ WorldFits(customers, matched) /\ RowsFit(customers, matched)
      /\ matched \in [BuyerIds -> CustomerRows \cup {0}] /\ Unique(customers)
  BY DEF CustomersInv, BuyersFit, WorldFits, RowsFit
<1>4. r \in CustomerRows \ Made(customers) /\ r # 0 BY <1>1, NextRowIsFree
<1>5. phone \in Phones \cup {NoPhone} /\ 0 \notin BuyerIds
  BY <1>1, <1>3 DEF NoPhone, DeskId, BuyerIds
<1>6. x \in CustomerShape /\ x # NoCustomer /\ x.of = b /\ x.mail = mail /\ x.phone = phone
  BY <1>5 DEF CustomerShape, NoCustomer, Phones, NoPhone, DeskId, BuyerIds
<1>7. \/ w = World
      \/ b = DeskId /\ w = Put(World, r, x)
      \/ b \in BuyerIds /\ matched[b] = 0 /\ w = Mapped(Put(World, r, x), b, r)
  BY DEF BuyerOfOrder
<1>8. /\ w.ok /\ customers' = w.rows /\ matched' = w.map /\ UNCHANGED <<buyers, runStopped>>
      /\ causes' = IF own THEN causes ELSE causes \cup {"billing"}
      /\ misbooked' = (misbooked \/ (b # DeskId /\ w.rows[BookedOn(w, b, mail)].of # b))
      /\ b # DeskId => buyers[b] # NoBuyer
  BY <1>1 DEF Take
<1>9. 1 \in BuyerIds /\ DeskId \notin BuyerIds BY DEF BuyerIds, DeskId
<1> HIDE DEF World, x, r, phone
<1>13. ASSUME b \in BuyerIds
       PROVE  LET m == Mapped(Put(World, r, x), b, r)
              IN  m.rows = [customers EXCEPT ![r] = x] /\ m.map = [matched EXCEPT ![b] = r] /\ m.map[b] = r
  <2>1. /\ Mapped(Put(World, r, x), b, r).rows = [customers EXCEPT ![r] = x]
        /\ Mapped(Put(World, r, x), b, r).map = [matched EXCEPT ![b] = r]
    BY <1>4, <1>6, <1>13, PutAndMapped
  <2>2. [matched EXCEPT ![b] = r][b] = r BY <1>3, <1>13
  <2> QED BY <2>1, <2>2
<1>10. /\ w \in WorldShape /\ Unique(w.rows) /\ RowsFit(w.rows, w.map)
  <2>1. CASE w = World BY <1>2, <1>3, <2>1
  <2>2. CASE b = DeskId /\ w = Put(World, r, x)
    <3>1. w \in WorldShape /\ w.rows = [customers EXCEPT ![r] = x] /\ w.map = matched /\ Unique(w.rows)
      BY <1>4, <1>6, <1>8, <2>2, PutFirst
    <3> HIDE DEF w
    <3> QED BY <1>3, <1>4, <1>6, <3>1, RowPut
  <2>3. CASE b \in BuyerIds /\ w = Mapped(Put(World, r, x), b, r)
    <3> DEFINE to == [matched EXCEPT ![b] = r]
    <3>1. w \in WorldShape /\ w.rows = [customers EXCEPT ![r] = x] /\ w.map = to /\ Unique(w.rows)
      BY <1>4, <1>6, <1>8, <2>3, PutAndMapped
    <3>2. to \in [BuyerIds -> CustomerRows \cup {0}] /\ \A c \in BuyerIds : to[c] \in {matched[c], r}
      BY <1>3, <1>4
    <3> HIDE DEF w, to
    <3> QED BY <1>4, <1>6, <3>1, <3>2, RowPut
  <2> QED BY <1>7, <2>1, <2>2, <2>3
<1>11. CASE ~own
  <2>1. ~Undisputed' /\ causes \subseteq causes' BY <1>8, <1>11 DEF Undisputed
  <2> HIDE DEF w, own
  <2> QED BY <1>8, <1>10, <2>1, DisputedStep
<1>12. CASE own
  <2>1. /\ b \in BuyerIds /\ buyers[b].mail = mail /\ buyers[b] # NoBuyer /\ causes' = causes
    BY <1>8, <1>12
  <2>2. phone = buyers[b].phone /\ NoMail \notin Mails
    BY <1>9, <2>1, CustomersAssumption DEF phone, NoMail
  <2>3. /\ Undisputed => OwnRows(w.rows, w.map)
        /\ Untroubled => OnlyTheirs(w.rows, w.map)
    <3>1. CASE w = World BY <1>2, <1>3, <3>1 DEF WorldFits
    <3>2. CASE matched[b] = 0 /\ w = Mapped(Put(World, r, x), b, r)
      <4>1. w.rows = [customers EXCEPT ![r] = x] /\ w.map = [matched EXCEPT ![b] = r]
        BY <1>13, <2>1, <3>2
      <4> HIDE DEF w
      <4>2. x \in CustomerShape /\ x.of = b /\ x.mail = buyers[b].mail /\ x.phone = buyers[b].phone
        BY <1>6, <2>1, <2>2
      <4>3. r \in CustomerRows /\ r \notin Made(customers) /\ matched[b] = 0 BY <1>4, <3>2
      <4> HIDE DEF own
      <4>4. /\ Undisputed => OwnRows([customers EXCEPT ![r] = x], [matched EXCEPT ![b] = r])
            /\ Untroubled => OnlyTheirs([customers EXCEPT ![r] = x], [matched EXCEPT ![b] = r])
        BY <1>3, <2>1, <4>2, <4>3, RowWritten
      <4> QED BY <4>1, <4>4
    <3> QED BY <1>7, <1>9, <2>1, <3>1, <3>2
  <2>4. ASSUME Undisputed PROVE w.rows[BookedOn(w, b, mail)].of = b
    <3>1. OwnRows(customers, matched) /\ OwnRows(w.rows, w.map) BY <1>3, <2>3, <2>4 DEF WorldFits
    <3>2. CASE w.map[b] # 0 BY <1>9, <2>1, <3>1, <3>2 DEF BookedOn, OwnRows
    <3>3. CASE w.map[b] = 0
      <4>1. w = World /\ matched[b] = 0
        <5>1. w = Mapped(Put(World, r, x), b, r) => w.map[b] = r BY <1>13, <2>1
        <5> QED BY <1>2, <1>4, <1>7, <1>9, <2>1, <3>3, <5>1
      <4>2. WithMail(customers, mail) # {}
        <5>1. WithMail(customers, mail) = {} => w = Mapped(Put(World, r, x), b, r)
          BY <1>9, <2>1, <4>1 DEF BuyerOfOrder, r, x
        <5>2. w # Mapped(Put(World, r, x), b, r) BY <1>4, <1>13, <2>1, <3>3
        <5> QED BY <5>1, <5>2
      <4> DEFINE q == CHOOSE q \in WithMail(customers, mail) : TRUE
      <4>3. BookedOn(w, b, mail) = q /\ w.rows = customers BY <1>2, <3>3, <4>1 DEF BookedOn
      <4>4. q \in WithMail(customers, mail) BY <4>2
      <4> HIDE DEF q, w
      <4>5. q \in Made(customers) /\ customers[q].mail = mail BY <4>4 DEF WithMail
      <4> QED BY <2>1, <3>1, <4>3, <4>5 DEF OwnRows
    <3> QED BY <3>2, <3>3
  <2>5. (Untroubled' <=> Untroubled) /\ (Undisputed' <=> Undisputed) /\ BuyersFit'
    BY <1>3, <1>8, <2>1 DEF Untroubled, Undisputed, BuyersFit
  <2> HIDE DEF w, own
  <2>6. WorldFits(customers, matched)'
    BY <1>8, <1>10, <2>1, <2>3, <2>5 DEF WorldFits, OwnRows, OnlyTheirs, RowsFit
  <2>7. Undisputed => ~misbooked' BY <1>8, <2>4 DEF CustomersInv
  <2> QED BY <1>8, <2>5, <2>6, <2>7 DEF CustomersInv
<1> QED BY <1>11, <1>12

(* Every step of the runs, the webhooks, the buyers and the desk keeps it. *)
LEMMA CustomersStep == CustomersInv /\ [CustomersNext]_customerVars => CustomersInv'
<1> SUFFICES ASSUME CustomersInv, [CustomersNext]_customerVars PROVE CustomersInv' OBVIOUS
<1>1. CASE UNCHANGED customerVars
  BY <1>1 DEF customerVars, CustomersInv, BuyersFit, WorldFits, OwnRows, OnlyTheirs, RowsFit,
              Untroubled, Undisputed
<1> QED BY <1>1, ImportsStep, ContactsStep, DeskStep, ImportOrderStep DEF CustomersNext

(* An account of the store is one customer, runs get through and orders find their buyer, but *)
(* for what buyers and the desk did, for any rows and e-mail addresses *)
(* (sync_single_customer, sync_single_order). *)
THEOREM CustomersTrue == CustomersSpec => [](CustomersTypeOK /\ CustomersSound)
<1> QED BY CustomersTrueOf, CustomersStart, CustomersStep, PTL DEF CustomersSpec

--------------------
\* StoreOrders: what is imported one after the other.

(* What holds of 0 and, with a number, of the next, holds of all. *)
LEMMA AllNumbers ==
  ASSUME NEW P \in SUBSET Nat, 0 \in P, \A n \in P : n + 1 \in P
  PROVE  P = Nat
<1> SUFFICES ASSUME Nat \ P # {} PROVE FALSE OBVIOUS
<1>1. Nat \ P \in SUBSET Nat OBVIOUS
<1>2. PICK r \in Nat \ P : \A q \in Nat \ P : r <= q BY <1>1, LeastRow
<1>3. r - 1 \in P BY <1>2
<1> QED BY <1>2, <1>3

LEMMA GreatestIsIn ==
  ASSUME NEW n \in Nat, NEW s \in SUBSET (1..n), s # {}
  PROVE  Max(s) \in s /\ \A x \in s : x <= Max(s)
<1> DEFINE below == {n - x : x \in s}
<1>1. below \in SUBSET Nat /\ below # {}
  <2>1. \A x \in s : n - x \in Nat OBVIOUS
  <2> QED BY <2>1
<1> HIDE DEF below
<1>2. PICK d \in below : \A e \in below : d <= e BY <1>1, LeastRow
<1> USE DEF below
<1>3. PICK x \in s : d = n - x BY <1>2
<1>4. \A y \in s : x >= y
  <2> SUFFICES ASSUME NEW y \in s PROVE x >= y OBVIOUS
  <2>1. n - y \in below OBVIOUS
  <2> QED BY <1>2, <1>3, <2>1
<1>5. \E z \in s : \A y \in s : z >= y BY <1>4
<1>6. Max(s) \in s /\ \A y \in s : Max(s) >= y BY <1>5 DEF Max
<1> QED BY <1>6

LEMMA PlacesCount ==
  ASSUME NEW n \in Nat, NEW s \in SUBSET (1..n)
  PROVE  IsFiniteSet(s) /\ Cardinality(s) \in Nat /\ Cardinality(s) <= n
<1>1. IsFiniteSet(1..n) /\ Cardinality(1..n) = n
  <2>1. 1 \in Int /\ n \in Int OBVIOUS
  <2>2. IsFiniteSet(1..n) /\ Cardinality(1..n) = IF 1 > n THEN 0 ELSE n - 1 + 1 BY <2>1, FS_Interval
  <2> QED BY <2>2
<1>2. IsFiniteSet(s) /\ Cardinality(s) <= Cardinality(1..n) BY <1>1, FS_Subset
<1> QED BY <1>1, <1>2, FS_CardinalityType

\* The recursion by which FoldLeft is defined, over a function of the places 1, 2, ...
Folds1(F, base, g, S) ==
  F = [s \in S |-> IF s = {} THEN base ELSE g[<<F[s \ {Max(s)}], Max(s)>>]]

LEMMA FoldExists ==
  ASSUME NEW n \in Nat, NEW base, NEW g
  PROVE  \E F : Folds1(F, base, g, SUBSET (1..n))
<1> DEFINE upTo(k) == {s \in SUBSET (1..n) : Cardinality(s) <= k}
           P == {k \in Nat : \E F : Folds1(F, base, g, upTo(k))}
<1>1. \A s \in SUBSET (1..n) : IsFiniteSet(s) /\ Cardinality(s) \in Nat /\ Cardinality(s) <= n
  BY PlacesCount
<1>2. \A s \in SUBSET (1..n) : s # {} => /\ s \ {Max(s)} \in SUBSET (1..n)
                                          /\ Cardinality(s \ {Max(s)}) = Cardinality(s) - 1
  BY <1>1, GreatestIsIn, FS_RemoveElement
<1>3. 0 \in P
  <2>1. \A s \in upTo(0) : s = {} BY <1>1, FS_EmptySet
  <2>2. Folds1([s \in upTo(0) |-> base], base, g, upTo(0)) BY <2>1, Zenon DEF Folds1
  <2> QED BY <2>2
<1>4. ASSUME NEW k \in P PROVE k + 1 \in P
  <2>1. PICK F : Folds1(F, base, g, upTo(k)) OBVIOUS
  <2> DEFINE G == [s \in upTo(k + 1) |-> IF s = {} THEN base ELSE g[<<F[s \ {Max(s)}], Max(s)>>]]
  <2>2. \A s \in upTo(k + 1) : s # {} => s \ {Max(s)} \in upTo(k) BY <1>1, <1>2
  <2>3. \A s \in upTo(k) : F[s] = G[s]
    <3>1. \A s \in upTo(k) : F[s] = IF s = {} THEN base ELSE g[<<F[s \ {Max(s)}], Max(s)>>]
      BY <2>1, Zenon DEF Folds1
    <3>2. \A s \in upTo(k) : s \in upTo(k + 1) BY <1>1
    <3> QED BY <3>1, <3>2, Zenon
  <2>4. Folds1(G, base, g, upTo(k + 1))
    <3>1. \A s \in upTo(k + 1) :
            (IF s = {} THEN base ELSE g[<<F[s \ {Max(s)}], Max(s)>>])
              = (IF s = {} THEN base ELSE g[<<G[s \ {Max(s)}], Max(s)>>])
      BY <2>2, <2>3, Zenon
    <3> HIDE DEF upTo
    <3>2. G = [s \in upTo(k + 1) |-> IF s = {} THEN base ELSE g[<<G[s \ {Max(s)}], Max(s)>>]]
      BY <3>1, Zenon
    <3> QED BY <3>2, Zenon DEF Folds1
  <2> HIDE DEF G, upTo
  <2> QED BY <2>4
<1> HIDE DEF P
<1>5. n \in P
  <2>1. P \in SUBSET Nat BY DEF P
  <2> QED BY <1>3, <1>4, <2>1, AllNumbers
<1>6. upTo(n) = SUBSET (1..n) BY <1>1
<1> QED BY <1>5, <1>6 DEF P

LEMMA FoldStays ==
  ASSUME NEW n \in Nat, NEW D, NEW base \in D, NEW g \in [D \X (1..n) -> D], NEW F,
         Folds1(F, base, g, SUBSET (1..n))
  PROVE  \A s \in SUBSET (1..n) : F[s] \in D
<1> DEFINE P == {k \in Nat : \A s \in SUBSET (1..n) : Cardinality(s) <= k => F[s] \in D}
<1>1. \A s \in SUBSET (1..n) : IsFiniteSet(s) /\ Cardinality(s) \in Nat /\ Cardinality(s) <= n
  BY PlacesCount
<1>2. \A s \in SUBSET (1..n) : s # {} => /\ s \ {Max(s)} \in SUBSET (1..n) /\ Max(s) \in 1..n
                                          /\ Cardinality(s \ {Max(s)}) = Cardinality(s) - 1
  BY <1>1, GreatestIsIn, FS_RemoveElement
<1>3. \A s \in SUBSET (1..n) : F[s] = IF s = {} THEN base ELSE g[<<F[s \ {Max(s)}], Max(s)>>]
  BY Zenon DEF Folds1
<1>4. 0 \in P
  <2>1. \A s \in SUBSET (1..n) : Cardinality(s) <= 0 => s = {} BY <1>1, FS_EmptySet
  <2> QED BY <1>3, <2>1
<1>5. ASSUME NEW k \in P PROVE k + 1 \in P
  <2> SUFFICES ASSUME NEW s \in SUBSET (1..n), Cardinality(s) <= k + 1 PROVE F[s] \in D OBVIOUS
  <2>1. CASE s = {} BY <1>3, <2>1
  <2>2. CASE s # {}
    <3>1. F[s \ {Max(s)}] \in D BY <1>1, <1>2, <2>2
    <3>2. F[s] = g[<<F[s \ {Max(s)}], Max(s)>>] BY <1>3, <2>2
    <3> QED BY <1>2, <2>2, <3>1, <3>2
  <2> QED BY <2>1, <2>2
<1>6. n \in P
  <2>1. P \in SUBSET Nat OBVIOUS
  <2> HIDE DEF P
  <2> QED BY <1>4, <1>5, <2>1, AllNumbers
<1> QED BY <1>1, <1>6

(* A fold over a list ends where every one of its steps stays. *)
LEMMA FoldEnds ==
  ASSUME NEW n \in Nat, NEW D, NEW F, F[{}] \in D,
         \A k \in 0..(n - 1) : F[1..k] \in D => F[1..(k + 1)] \in D
  PROVE  F[1..n] \in D
<1> DEFINE P == {k \in Nat : k <= n => F[1..k] \in D}
<1>1. 0 \in P
  <2>1. 1..0 = {} OBVIOUS
  <2> QED BY <2>1
<1>2. \A k \in P : k + 1 \in P OBVIOUS
<1>3. P \in SUBSET Nat OBVIOUS
<1> HIDE DEF P
<1>4. n \in P BY <1>1, <1>2, <1>3, AllNumbers
<1> QED BY <1>4 DEF P

LEMMA LastOfPlaces ==
  ASSUME NEW k \in Nat
  PROVE  /\ Max(1..(k + 1)) = k + 1 /\ (1..(k + 1)) \ {k + 1} = 1..k /\ 1..(k + 1) # {}
<1>1. 1..(k + 1) \in SUBSET (1..(k + 1)) /\ 1..(k + 1) # {} /\ k + 1 \in Nat /\ k + 1 \in 1..(k + 1)
  OBVIOUS
<1>2. Max(1..(k + 1)) \in 1..(k + 1) /\ \A x \in 1..(k + 1) : x <= Max(1..(k + 1))
  BY <1>1, GreatestIsIn
<1> QED BY <1>1, <1>2

LEMMA WaresFold ==
  ASSUME NEW D, NEW w \in D, NEW n \in Nat, NEW X, NEW q \in [1..n -> X],
         \A v \in D, x \in X : v.said = "fine" => ImportWare(v, x) \in D
  PROVE  ImportWares(w, q) \in D
<1> DEFINE Step(v, x) == IF v.said = "fine" THEN ImportWare(v, x) ELSE v
           g == [p \in D \X (1..n) |-> Step(p[1], q[p[2]])]
           Rec(F) == F = [s \in SUBSET (1..n) |->
                            IF s = {} THEN w ELSE Step(F[s \ {Max(s)}], q[Max(s)])]
           F == CHOOSE F : Rec(F)
<1>1. ImportWares(w, q) = F[1..n]
  <2>1. DOMAIN q = 1..n OBVIOUS
  <2> QED BY <2>1, Zenon DEF ImportWares, FoldLeft, MapThenFoldSet
<1>2. \A v \in D, x \in X : Step(v, x) \in D OBVIOUS
<1> HIDE DEF Step
<1>3. g \in [D \X (1..n) -> D] /\ \A v \in D, i \in 1..n : g[<<v, i>>] = Step(v, q[i]) BY <1>2
<1> HIDE DEF g
<1>4. PICK G : Folds1(G, w, g, SUBSET (1..n)) BY FoldExists
<1>5. \A s \in SUBSET (1..n) : G[s] \in D BY <1>3, <1>4, FoldStays
<1>6. Rec(G)
  <2>1. \A s \in SUBSET (1..n) : s # {} => s \ {Max(s)} \in SUBSET (1..n) /\ Max(s) \in 1..n
    BY GreatestIsIn
  <2>2. \A s \in SUBSET (1..n) :
          (IF s = {} THEN w ELSE g[<<G[s \ {Max(s)}], Max(s)>>])
             = (IF s = {} THEN w ELSE Step(G[s \ {Max(s)}], q[Max(s)]))
    BY <1>3, <1>5, <2>1, Zenon
  <2> QED BY <1>4, <2>2, Zenon DEF Folds1
<1>7. Rec(F) BY <1>6, Zenon
<1> HIDE DEF F
<1>8. \A s \in SUBSET (1..n) : F[s] = IF s = {} THEN w ELSE Step(F[s \ {Max(s)}], q[Max(s)])
  BY <1>7, Zenon
<1>9. F[{}] = w BY <1>8
<1>10. ASSUME NEW k \in 0..(n - 1), F[1..k] \in D PROVE F[1..(k + 1)] \in D
  <2>1. 1..(k + 1) \in SUBSET (1..n) /\ k + 1 \in 1..n /\ k \in Nat OBVIOUS
  <2>2. F[1..(k + 1)] = Step(F[1..k], q[k + 1]) BY <1>8, <2>1, LastOfPlaces
  <2> QED BY <1>2, <1>10, <2>1, <2>2
<1>11. F[{}] \in D BY <1>9
<1>12. \A k \in 0..(n - 1) : F[1..k] \in D => F[1..(k + 1)] \in D BY <1>10
<1>13. F[1..n] \in D BY <1>11, <1>12, FoldEnds
<1> QED BY <1>1, <1>13

LEMMA SalesFold ==
  ASSUME NEW D, NEW w \in D, NEW n \in Nat, NEW X, NEW q \in [1..n -> X],
         \A v \in D, x \in X : v.said = "fine" => ImportSale(v, x, saleStates[x]) \in D
  PROVE  ImportSales(w, q) \in D
<1> DEFINE Step(v, x) == IF v.said = "fine" THEN ImportSale(v, x, saleStates[x]) ELSE v
           g == [p \in D \X (1..n) |-> Step(p[1], q[p[2]])]
           Rec(F) == F = [s \in SUBSET (1..n) |->
                            IF s = {} THEN w ELSE Step(F[s \ {Max(s)}], q[Max(s)])]
           F == CHOOSE F : Rec(F)
<1>1. ImportSales(w, q) = F[1..n]
  <2>1. DOMAIN q = 1..n OBVIOUS
  <2> QED BY <2>1, Zenon DEF ImportSales, FoldLeft, MapThenFoldSet
<1>2. \A v \in D, x \in X : Step(v, x) \in D OBVIOUS
<1> HIDE DEF Step
<1>3. g \in [D \X (1..n) -> D] /\ \A v \in D, i \in 1..n : g[<<v, i>>] = Step(v, q[i]) BY <1>2
<1> HIDE DEF g
<1>4. PICK G : Folds1(G, w, g, SUBSET (1..n)) BY FoldExists
<1>5. \A s \in SUBSET (1..n) : G[s] \in D BY <1>3, <1>4, FoldStays
<1>6. Rec(G)
  <2>1. \A s \in SUBSET (1..n) : s # {} => s \ {Max(s)} \in SUBSET (1..n) /\ Max(s) \in 1..n
    BY GreatestIsIn
  <2>2. \A s \in SUBSET (1..n) :
          (IF s = {} THEN w ELSE g[<<G[s \ {Max(s)}], Max(s)>>])
             = (IF s = {} THEN w ELSE Step(G[s \ {Max(s)}], q[Max(s)]))
    BY <1>3, <1>5, <2>1, Zenon
  <2> QED BY <1>4, <2>2, Zenon DEF Folds1
<1>7. Rec(F) BY <1>6, Zenon
<1> HIDE DEF F
<1>8. \A s \in SUBSET (1..n) : F[s] = IF s = {} THEN w ELSE Step(F[s \ {Max(s)}], q[Max(s)])
  BY <1>7, Zenon
<1>9. F[{}] = w BY <1>8
<1>10. ASSUME NEW k \in 0..(n - 1), F[1..k] \in D PROVE F[1..(k + 1)] \in D
  <2>1. 1..(k + 1) \in SUBSET (1..n) /\ k + 1 \in 1..n /\ k \in Nat OBVIOUS
  <2>2. F[1..(k + 1)] = Step(F[1..k], q[k + 1]) BY <1>8, <2>1, LastOfPlaces
  <2> QED BY <1>2, <1>10, <2>1, <2>2
<1>11. F[{}] \in D BY <1>9
<1>12. \A k \in 0..(n - 1) : F[1..k] \in D => F[1..(k + 1)] \in D BY <1>10
<1>13. F[1..n] \in D BY <1>11, <1>12, FoldEnds
<1> QED BY <1>1, <1>13

--------------------
\* StoreOrders: what the rows, the mappings and the orders are like, whatever was imported.
SaleStatuses == {"none", "pending", "confirmed", "packing", "ready", "dispatched", "delivered",
                 "cancelled", "returned", "refunded"}
PlainRow == [slug : {"plain"}, sku : {"", "p"}, item : {"", "x", "p"}, vendor : BOOLEAN,
             live : BOOLEAN]
SizedRow == [slug : {"sized", "sized, large"}, sku : {"", "s"}, item : {"s", "v", "auto"},
             vendor : BOOLEAN, live : BOOLEAN]
SaleShape == [status : SaleStatuses, sum : Int, paid : Nat, vendor : BOOLEAN,
              stock : {"none", "deducted", "restored"}, due : BOOLEAN, unpaid : BOOLEAN]
MaybeRow == GoodsRows \cup {0}
TradeShape == [goods : [GoodsRows -> PlainRow \cup SizedRow \cup {NoGoods}],
               listed : [Wares -> MaybeRow], first : [Wares -> MaybeRow], variation : MaybeRow,
               people : [Patrons -> {"none", "active", "archived"}],
               sales : [StoreSales -> SaleShape], strays : Nat, line : MaybeRow,
               said : {"fine", "refused", "broken"}]

\* What an order may be imported as while the store has it in a status.
StoreStatuses == {"unplaced", "pending", "processing", "completed", "cancelled", "refunded"}
SeenAs(status) == CASE status = "unplaced" -> {}
                    [] status = "pending" -> {"pending"}
                    [] status = "processing" -> {"pending", "confirmed"}
                    [] status = "completed" -> {"pending", "confirmed", "delivered"}
                    [] status = "cancelled" -> {"pending", "confirmed", "cancelled"}
                    [] OTHER -> {"pending", "confirmed", "delivered", "refunded"}

\* The rows of the simple product: one, to which it is mapped.
PlainFits(w) ==
  /\ \A r \in GoodsRows : w.goods[r].slug = "plain" => r = w.listed["plain"]
  /\ w.listed["plain"] # 0 => w.goods[w.listed["plain"]].slug = "plain"
  /\ w.first["plain"] = w.listed["plain"]
  /\ \A r \in GoodsRows : w.goods[r].slug = "plain" /\ w.goods[r].item = "" => r = 1
\* The rows of the other: one, until a line makes it another one, to which its variation and
\* the product are mapped from then on.
IsSized(w, r) == w.goods[r].slug \in {"sized", "sized, large"}
Moved(w) == w.listed["sized"] # w.first["sized"]
SizedFits(w) ==
  /\ w.listed["sized"] # 0 => IsSized(w, w.listed["sized"])
  /\ \A r \in GoodsRows :
       IsSized(w, r) => w.listed["sized"] # 0 /\ (r = w.listed["sized"] \/ Moved(w))
  /\ w.first["sized"] = 0 => w.listed["sized"] = 0
  /\ Moved(w) => w.variation # 0 /\ lineSku # "product"
  /\ w.variation # 0 => w.variation = w.listed["sized"]
  /\ w.variation = 0 => \A r \in GoodsRows : w.goods[r].slug # "sized, large"
  /\ lineSku = "product" => \A r \in GoodsRows : IsSized(w, r) => w.goods[r].item = "s"
SlugsDiffer(w) == \A r, q \in GoodsRows :
  r # q /\ w.goods[r].slug = w.goods[q].slug => w.goods[r].slug = ""
NothingArchived(w) == "archived" \notin meddled =>
  /\ \A r \in GoodsRows : w.goods[r].slug # "" => w.goods[r].live
  /\ \A b \in Patrons : w.people[b] # "archived"
  /\ w.strays = 0

\* An order: its payment, its stock, and how far it is when no user moved it.
PaidAsDue(sale) ==
  /\ sale.sum = SaleTotal + reading /\ sale.paid \in {0, SaleTotal} /\ (sale.paid # 0 => reading >= 0)
  /\ sale.status # "refunded" /\ ~sale.unpaid /\ reading = 0 => sale.paid = SaleTotal
StockedAsSold(sale) == sale.vendor =>
  /\ sale.status = "cancelled" => sale.stock # "deducted"
  /\ sale.status \notin {"cancelled", "refunded"} => sale.stock = "deducted" \/ reading < 0
SaleFits(sale, status) ==
  IF sale.status = "none" THEN sale = NoSale
  ELSE PaidAsDue(sale) /\ StockedAsSold(sale) /\ (meddled = {} => sale.status \in SeenAs(status))
CreditFits(w, s) == w.sales[s].vendor # w.sales[s].due => WareOf[s] = "sized" /\ Moved(w)
SalesFit(w) == \A s \in StoreSales : SaleFits(w.sales[s], saleStates[s]) /\ CreditFits(w, s)

TradeFits(w) == /\ w \in TradeShape /\ PlainFits(w) /\ SizedFits(w) /\ SlugsDiffer(w)
                /\ NothingArchived(w) /\ SalesFit(w)

StoreOrdersInv ==
  /\ TradeFits(trade) /\ trade.line = 0 /\ trade.said = "fine"
  /\ saleStates \in [StoreSales -> StoreStatuses]
  /\ lineSku \in {"own", "product", "none"} /\ reading \in {-1, 0, 1}
  /\ unread \subseteq Wares \cup StoreSales /\ IsFiniteSet(unread)
  /\ \A s \in unread \cap StoreSales : saleStates[s] # "unplaced"
  /\ RunsGetThrough

LEMMA SkusAre ==
  /\ SkuOf["plain"] = "p" /\ SkuOf["sized"] = "s"
  /\ SoldSku("plain") = "p"
  /\ lineSku = "own" => SoldSku("sized") = "v"
  /\ lineSku = "product" => SoldSku("sized") = "s"
  /\ lineSku = "none" => SoldSku("sized") = ""
  /\ SoldName("plain") = "plain" /\ SoldName("sized") = "sized, large"
BY DEF SkuOf, SoldSku, SoldName

\* A row as it is read: none, one of the simple product, or one of the other.
LEMMA RowsAre ==
  ASSUME NEW w \in TradeShape, NEW r \in GoodsRows
  PROVE  /\ \/ w.goods[r] = NoGoods /\ w.goods[r].slug = "" /\ w.goods[r].sku = ""
               /\ w.goods[r].item = "" /\ ~IsSized(w, r) /\ ~IsRow(w, r)
            \/ w.goods[r] \in PlainRow /\ w.goods[r].slug = "plain" /\ w.goods[r].sku \in {"", "p"}
               /\ w.goods[r].item \in {"", "x", "p"} /\ ~IsSized(w, r) /\ IsRow(w, r)
            \/ w.goods[r] \in SizedRow /\ IsSized(w, r) /\ w.goods[r].sku \in {"", "s"}
               /\ w.goods[r].item \in {"s", "v", "auto"} /\ IsRow(w, r)
<1>1. w.goods[r] \in PlainRow \cup SizedRow \cup {NoGoods} BY DEF TradeShape
<1>2. NoGoods.slug = "" /\ NoGoods.sku = "" /\ NoGoods.item = "" BY DEF NoGoods
<1>3. /\ \A x \in PlainRow : x.slug = "plain" /\ x.sku \in {"", "p"} /\ x.item \in {"", "x", "p"}
      /\ \A x \in SizedRow : /\ x.slug \in {"sized", "sized, large"} /\ x.sku \in {"", "s"}
                             /\ x.item \in {"s", "v", "auto"}
  BY DEF PlainRow, SizedRow
<1>4. CASE w.goods[r] = NoGoods BY <1>2, <1>4 DEF IsSized, IsRow
<1>5. CASE w.goods[r] \in PlainRow BY <1>2, <1>3, <1>5 DEF IsSized, IsRow
<1>6. CASE w.goods[r] \in SizedRow BY <1>2, <1>3, <1>6 DEF IsSized, IsRow
<1> QED BY <1>1, <1>4, <1>5, <1>6

\* The rows of the table are numbered.
LEMMA RowNumbers ==
  /\ 1 \in GoodsRows /\ 2 \in GoodsRows /\ 3 \in GoodsRows /\ 1 # 2 /\ 1 # 3 /\ 2 # 3
  /\ GoodsRows \in SUBSET Nat /\ 0 \notin GoodsRows
  /\ \A r \in GoodsRows : \A q \in 1..(r - 1) : q \in GoodsRows /\ ~(r <= q)
<1>1. PICK n \in Nat : n >= 3 /\ GoodsRows = 1..n BY FS_CardinalityType, StoreOrdersAssumption
<1> QED BY <1>1

(* While a name is free there is a row for it. *)
LEMMA RowForName ==
  ASSUME NEW w \in TradeShape, SlugsDiffer(w), NEW name \in {"plain", "sized", "sized, large"},
         ~SlugTaken(w, name)
  PROVE  FreeRow(w) \in GoodsRows /\ w.goods[FreeRow(w)] = NoGoods
<1>2. \E r \in GoodsRows : ~IsRow(w, r)
  <2> SUFFICES ASSUME \A r \in GoodsRows : IsRow(w, r) PROVE FALSE OBVIOUS
  <2>1. ASSUME NEW r \in GoodsRows
        PROVE  /\ w.goods[r].slug \in {"plain", "sized", "sized, large"}
               /\ w.goods[r].slug # name /\ w.goods[r].slug # ""
    <3>1. IsRow(w, r) /\ w.goods[r].slug # name BY Zenon DEF SlugTaken
    <3>2. w.goods[r].slug = "plain" \/ IsSized(w, r) BY <3>1, RowsAre
    <3> QED BY <3>1, <3>2 DEF IsSized
  <2> DEFINE a == w.goods[1].slug  b == w.goods[2].slug  c == w.goods[3].slug
  <2>3. /\ a \in {"plain", "sized", "sized, large"} /\ a # name
        /\ b \in {"plain", "sized", "sized, large"} /\ b # name
        /\ c \in {"plain", "sized", "sized, large"} /\ c # name
    BY <2>1, RowNumbers, Zenon
  <2>4. ASSUME NEW r \in GoodsRows, NEW q \in GoodsRows, r # q
        PROVE  w.goods[r].slug # w.goods[q].slug
    BY <2>1, <2>4, Zenon DEF SlugsDiffer
  <2>6. a # b /\ a # c /\ b # c BY <2>4, RowNumbers, Zenon
  <2> HIDE DEF a, b, c
  <2> QED BY <2>3, <2>6
<1>3. PICK r \in GoodsRows : ~IsRow(w, r) /\ \A q \in GoodsRows : ~IsRow(w, q) => r <= q
  <2> DEFINE free == {r \in GoodsRows : ~IsRow(w, r)}
  <2>1. free \in SUBSET Nat /\ free # {} BY <1>2, RowNumbers, Zenon
  <2> HIDE DEF free
  <2>2. PICK r \in free : \A q \in free : r <= q BY <2>1, LeastRow
  <2> QED BY <2>2, Zenon DEF free
<1>4. \A q \in 1..(r - 1) : IsRow(w, q) BY <1>3, RowNumbers, Zenon
<1>5. FreeRow(w) \in GoodsRows /\ ~IsRow(w, FreeRow(w)) BY <1>3, <1>4, Zenon DEF FreeRow
<1> QED BY <1>5 DEF IsRow

\* A row is written for a product, which is mapped to it.
LEMMA RowWrittenFor ==
  ASSUME NEW w \in TradeShape, NEW ware \in Wares, NEW r \in GoodsRows,
         NEW entry \in PlainRow \cup SizedRow, NEW v, v = MapTo([w EXCEPT !.goods[r] = entry], ware, r)
  PROVE  /\ v \in TradeShape /\ v.goods = [w.goods EXCEPT ![r] = entry]
         /\ v.listed = [w.listed EXCEPT ![ware] = r]
         /\ v.first = [w.first EXCEPT ![ware] = IF w.first[ware] = 0 THEN r ELSE w.first[ware]]
         /\ v.variation = w.variation /\ v.people = w.people /\ v.sales = w.sales
         /\ v.strays = w.strays /\ v.line = w.line /\ v.said = w.said
<1> DEFINE goods == [w.goods EXCEPT ![r] = entry]
           listed == [w.listed EXCEPT ![ware] = r]
           first == [w.first EXCEPT ![ware] = IF w.first[ware] = 0 THEN r ELSE w.first[ware]]
<1>1. v = [w EXCEPT !.goods = goods, !.listed = listed, !.first = first] BY DEF MapTo, TradeShape
<1>2. /\ goods \in [GoodsRows -> PlainRow \cup SizedRow \cup {NoGoods}]
      /\ listed \in [Wares -> MaybeRow] /\ first \in [Wares -> MaybeRow]
  BY DEF TradeShape, MaybeRow
<1> HIDE DEF goods, listed, first
<1>3. /\ v \in TradeShape /\ v.goods = goods /\ v.listed = listed /\ v.first = first
      /\ v.variation = w.variation /\ v.people = w.people /\ v.sales = w.sales
      /\ v.strays = w.strays /\ v.line = w.line /\ v.said = w.said
  BY <1>1, <1>2 DEF TradeShape
<1> QED BY <1>3 DEF goods, listed, first
--------------------
\* StoreOrders: a row is written, and everything fits as before.
Bare(w) == w.goods[1].slug = "plain" /\ w.goods[1].item = ""
\* The rest of what is held stays as it is.
OnlyRows(w, v) == /\ v \in TradeShape /\ v.people = w.people /\ v.sales = w.sales
                  /\ v.strays = w.strays
WrittenAs(w, v, r, entry) ==
  /\ v.goods[r] = entry /\ \A q \in GoodsRows : q # r => v.goods[q] = w.goods[q]
RowsApart(w, r, entry) == \A q \in GoodsRows : q # r => w.goods[q].slug # entry.slug
FirstOf(w, ware, r) == IF w.first[ware] = 0 THEN r ELSE w.first[ware]

LEMMA SlugsStillDiffer ==
  ASSUME NEW w, NEW v, NEW r \in GoodsRows, NEW entry, SlugsDiffer(w), WrittenAs(w, v, r, entry),
         RowsApart(w, r, entry)
  PROVE  SlugsDiffer(v)
<1> SUFFICES ASSUME NEW a \in GoodsRows, NEW b \in GoodsRows, a # b,
                    v.goods[a].slug = v.goods[b].slug
             PROVE  v.goods[a].slug = ""
  BY Zenon DEF SlugsDiffer
<1>1. CASE a = r \/ b = r BY <1>1, Zenon DEF WrittenAs, RowsApart
<1>2. CASE a # r /\ b # r BY <1>2, Zenon DEF WrittenAs, SlugsDiffer
<1> QED BY <1>1, <1>2

LEMMA NothingStillArchived ==
  ASSUME NEW w, NEW v, NEW r \in GoodsRows, NEW entry, NothingArchived(w), WrittenAs(w, v, r, entry),
         OnlyRows(w, v), entry.live \/ "archived" \in meddled
  PROVE  NothingArchived(v)
<1> SUFFICES ASSUME "archived" \notin meddled
             PROVE  /\ \A q \in GoodsRows : v.goods[q].slug # "" => v.goods[q].live
                    /\ \A b \in Patrons : v.people[b] # "archived"
                    /\ v.strays = 0
  BY Zenon DEF NothingArchived
<1>1. ASSUME NEW q \in GoodsRows, v.goods[q].slug # "" PROVE v.goods[q].live
  <2>1. CASE q = r BY <2>1, Zenon DEF WrittenAs
  <2>2. CASE q # r BY <1>1, <2>2, Zenon DEF WrittenAs, NothingArchived
  <2> QED BY <2>1, <2>2
<1> QED BY <1>1, Zenon DEF NothingArchived, OnlyRows

LEMMA SalesStillFit ==
  ASSUME NEW w, NEW v, SalesFit(w), v.sales = w.sales, Moved(w) => Moved(v)
  PROVE  SalesFit(v)
BY Zenon DEF SalesFit, CreditFits

LEMMA PlainStillFits ==
  ASSUME NEW w, NEW v, PlainFits(w), v.listed["plain"] = w.listed["plain"],
         v.first["plain"] = w.first["plain"],
         \A q \in GoodsRows : v.goods[q].slug = "plain" <=> w.goods[q].slug = "plain",
         \A q \in GoodsRows : w.goods[q].slug = "plain" => v.goods[q].item = w.goods[q].item,
         w \in TradeShape
  PROVE  PlainFits(v)
<1>1. w.listed["plain"] # 0 => w.listed["plain"] \in GoodsRows BY DEF TradeShape, MaybeRow, Wares
<1> QED BY <1>1, Zenon DEF PlainFits

LEMMA PlainWritten ==
  ASSUME NEW w, TradeFits(w), NEW v, OnlyRows(w, v), NEW r \in GoodsRows, NEW entry \in PlainRow,
         WrittenAs(w, v, r, entry), v.variation = w.variation,
         v.listed = [w.listed EXCEPT !["plain"] = r],
         v.first = [w.first EXCEPT !["plain"] = FirstOf(w, "plain", r)],
         entry.live \/ "archived" \in meddled,
         \/ w.listed["plain"] = r /\ entry.item = w.goods[r].item
         \/ w.listed["plain"] = 0 /\ w.goods[r] = NoGoods /\ entry.item # ""
  PROVE  TradeFits(v) /\ (Moved(v) <=> Moved(w)) /\ (Bare(v) => Bare(w))
<1>1. /\ v.listed["plain"] = r /\ v.listed["sized"] = w.listed["sized"]
      /\ v.first["plain"] = FirstOf(w, "plain", r) /\ v.first["sized"] = w.first["sized"]
  BY DEF TradeFits, TradeShape, Wares
<1>2. entry.slug = "plain" BY DEF PlainRow
<1>3. ASSUME NEW q \in GoodsRows, q # r PROVE v.goods[q] = w.goods[q] /\ w.goods[q].slug # "plain"
  <2>1. w.goods[q].slug = "plain" => q = w.listed["plain"] BY Zenon DEF TradeFits, PlainFits
  <2>2. q # 0 BY RowNumbers
  <2> QED BY <1>3, <2>1, <2>2, Zenon DEF WrittenAs
<1>4. w.listed["plain"] = 0 \/ w.listed["plain"] = r BY Zenon
<1>5. w.goods[r].slug = "plain" \/ w.goods[r] = NoGoods
  <2>1. r # 0 BY RowNumbers
  <2>2. w.listed["plain"] # 0 => w.goods[w.listed["plain"]].slug = "plain"
    BY Zenon DEF TradeFits, PlainFits
  <2>3. w.listed["plain"] = r \/ w.goods[r] = NoGoods BY Zenon
  <2> QED BY <2>1, <2>2, <2>3, Zenon
<1>6. ~IsSized(v, r) /\ ~IsSized(w, r) /\ v.goods[r] = entry
  <2>1. v.goods[r] = entry BY Zenon DEF WrittenAs
  <2>2. ~IsSized(v, r) BY <1>2, <2>1 DEF IsSized
  <2>3. NoGoods.slug = "" BY DEF NoGoods
  <2>4. w.goods[r].slug = "plain" \/ w.goods[r].slug = "" BY <1>5, <2>3, Zenon
  <2>5. ~IsSized(w, r) BY <2>4 DEF IsSized
  <2> QED BY <2>1, <2>2, <2>5
<1>7. \A q \in GoodsRows : IsSized(v, q) => IsSized(w, q) /\ v.goods[q] = w.goods[q]
  BY <1>3, <1>6, Zenon DEF IsSized
<1>8. Moved(v) <=> Moved(w) BY <1>1 DEF Moved
<1>9. FirstOf(w, "plain", r) = r
  <2>1. w.first["plain"] = w.listed["plain"] BY DEF TradeFits, PlainFits
  <2> QED BY <1>4, <2>1 DEF FirstOf
<1>10. PlainFits(v)
  <2>1. \A q \in GoodsRows : v.goods[q].slug = "plain" => q = r BY <1>3, Zenon
  <2>2. v.goods[r].item = "" => r = 1
    <3>1. entry.item = "" => w.listed["plain"] = r /\ w.goods[r].item = "" OBVIOUS
    <3>2. w.listed["plain"] = r => w.goods[r].slug = "plain"
      <4>1. r # 0 BY RowNumbers
      <4> QED BY <4>1 DEF TradeFits, PlainFits
    <3> QED BY <1>6, <3>1, <3>2, Zenon DEF TradeFits, PlainFits
  <2> QED BY <1>1, <1>2, <1>6, <1>9, <2>1, <2>2, Zenon DEF PlainFits
<1>11. SizedFits(v)
  <2>1. SizedFits(w) BY DEF TradeFits
  <2>2. w.listed["sized"] # 0 => IsSized(v, w.listed["sized"])
    <3>1. w.listed["sized"] # 0 => w.listed["sized"] \in GoodsRows
      BY DEF TradeFits, TradeShape, MaybeRow, Wares
    <3>2. w.listed["sized"] # 0 => IsSized(w, w.listed["sized"]) BY <2>1 DEF SizedFits
    <3> QED BY <1>3, <1>6, <3>1, <3>2, Zenon DEF IsSized
  <2>3. \A q \in GoodsRows : v.goods[q].slug = "sized, large" => w.goods[q].slug = "sized, large"
    BY <1>3, <1>6, <1>2
  <2>4. /\ \A q \in GoodsRows :
             IsSized(v, q) => w.listed["sized"] # 0 /\ (q = w.listed["sized"] \/ Moved(v))
        /\ lineSku = "product" => \A q \in GoodsRows : IsSized(v, q) => v.goods[q].item = "s"
    BY <1>7, <1>8, <2>1, Zenon DEF SizedFits
  <2>5. w.variation = 0 => \A q \in GoodsRows : v.goods[q].slug # "sized, large"
    BY <2>1, <2>3, Zenon DEF SizedFits
  <2>6. /\ v.first["sized"] = 0 => v.listed["sized"] = 0
        /\ Moved(v) => v.variation # 0 /\ lineSku # "product"
        /\ v.variation # 0 => v.variation = v.listed["sized"]
    <3>1. /\ w.first["sized"] = 0 => w.listed["sized"] = 0
          /\ Moved(w) => w.variation # 0 /\ lineSku # "product"
          /\ w.variation # 0 => w.variation = w.listed["sized"]
      BY <2>1, Zenon DEF SizedFits
    <3> QED BY <1>1, <1>8, <3>1
  <2>7. /\ v.listed["sized"] # 0 => IsSized(v, v.listed["sized"])
        /\ \A q \in GoodsRows :
             IsSized(v, q) => v.listed["sized"] # 0 /\ (q = v.listed["sized"] \/ Moved(v))
        /\ v.variation = 0 => \A q \in GoodsRows : v.goods[q].slug # "sized, large"
        /\ lineSku = "product" => \A q \in GoodsRows : IsSized(v, q) => v.goods[q].item = "s"
    BY <1>1, <2>2, <2>4, <2>5
  <2> QED BY <2>6, <2>7 DEF SizedFits
<1>12. SlugsDiffer(v)
  <2>1. RowsApart(w, r, entry) BY <1>2, <1>3, Zenon DEF RowsApart
  <2>2. SlugsDiffer(w) BY DEF TradeFits
  <2> QED BY <2>1, <2>2, SlugsStillDiffer, Zenon
<1>13. NothingArchived(v) BY NothingStillArchived, Zenon DEF TradeFits
<1>14. SalesFit(v) BY <1>8, SalesStillFit, Zenon DEF TradeFits, OnlyRows
<1>15. Bare(v) => Bare(w)
  <2> SUFFICES ASSUME Bare(v) PROVE Bare(w) OBVIOUS
  <2>1. v.goods[1].slug = "plain" /\ v.goods[1].item = "" /\ 1 \in GoodsRows BY RowNumbers DEF Bare
  <2>2. r = 1 BY <1>3, <2>1, Zenon
  <2>3. entry.item = "" /\ r # 0 BY <1>6, <2>1, <2>2, RowNumbers
  <2>4. w.listed["plain"] = r /\ w.goods[r].item = "" BY <2>3
  <2>5. w.goods[r].slug = "plain" BY <2>3, <2>4 DEF TradeFits, PlainFits
  <2> QED BY <2>2, <2>4, <2>5 DEF Bare
<1> QED BY <1>8, <1>10, <1>11, <1>12, <1>13, <1>14, <1>15, Zenon DEF TradeFits, OnlyRows

\* How the row written for the other product comes about: it is its row; or the first one;
\* or one made for a line, to which the variation is mapped.
Rewritten(w, v, r, entry) == r = w.listed["sized"] /\ v.variation = w.variation /\ entry.slug = "sized"
MadeFirst(w, v, r, entry) ==
  w.goods[r] = NoGoods /\ w.listed["sized"] = 0 /\ v.variation = w.variation /\ entry.slug = "sized"
MadeForLine(w, v, r) == /\ w.goods[r] = NoGoods /\ v.variation = r /\ ~Moved(w)
                        /\ (w.listed["sized"] # 0 => lineSku # "product")

LEMMA SizedWritten ==
  ASSUME NEW w, TradeFits(w), NEW v, OnlyRows(w, v), NEW r \in GoodsRows, NEW entry \in SizedRow,
         WrittenAs(w, v, r, entry),
         v.listed = [w.listed EXCEPT !["sized"] = r],
         v.first = [w.first EXCEPT !["sized"] = FirstOf(w, "sized", r)],
         entry.live \/ "archived" \in meddled, lineSku = "product" => entry.item = "s",
         RowsApart(w, r, entry),
         Rewritten(w, v, r, entry) \/ MadeFirst(w, v, r, entry) \/ MadeForLine(w, v, r)
  PROVE  /\ TradeFits(v) /\ (Moved(w) => Moved(v)) /\ (Bare(v) => Bare(w))
         /\ (Rewritten(w, v, r, entry) \/ MadeFirst(w, v, r, entry)) /\ Moved(v) => Moved(w)
<1> DEFINE L == w.listed["sized"]  F == w.first["sized"]  V == w.variation
<1>1. /\ v.listed["sized"] = r /\ v.listed["plain"] = w.listed["plain"]
      /\ v.first["sized"] = (IF F = 0 THEN r ELSE F) /\ v.first["plain"] = w.first["plain"]
  BY DEF TradeFits, TradeShape, Wares, FirstOf
<1>2. r # 0 BY RowNumbers
<1>3. entry.slug \in {"sized", "sized, large"} BY DEF SizedRow
<1>4. v.goods[r] = entry /\ \A q \in GoodsRows : q # r => v.goods[q] = w.goods[q]
  BY Zenon DEF WrittenAs
<1>5. IsSized(v, r) BY <1>3, <1>4 DEF IsSized
<1>6. \A q \in GoodsRows : q # r => (IsSized(v, q) <=> IsSized(w, q)) BY <1>4, Zenon DEF IsSized
<1>7. SizedFits(w) BY DEF TradeFits
<1>8. /\ L # 0 => IsSized(w, L)
      /\ F = 0 => L = 0
      /\ Moved(w) => V # 0 /\ lineSku # "product"
      /\ V # 0 => V = L
      /\ \A q \in GoodsRows : IsSized(w, q) => L # 0 /\ (q = L \/ Moved(w))
  BY <1>7, Zenon DEF SizedFits
<1>9. (Moved(w) <=> L # F) /\ (Moved(v) <=> F # 0 /\ r # F)
  <2>1. Moved(v) <=> r # (IF F = 0 THEN r ELSE F) BY <1>1 DEF Moved
  <2>2. Moved(w) <=> L # F BY DEF Moved
  <2> QED BY <2>1, <2>2
<1>10. w.goods[r] = NoGoods => w.goods[r].slug = "" /\ ~IsSized(w, r)
  <2>1. NoGoods.slug = "" BY DEF NoGoods
  <2>2. w.goods[r] = NoGoods => w.goods[r].slug = "" BY <2>1, Zenon
  <2> QED BY <2>2 DEF IsSized
<1> DEFINE Goal == /\ Moved(w) => Moved(v)
                   /\ Moved(v) => v.variation # 0 /\ lineSku # "product"
                   /\ v.variation # 0 => v.variation = r
                   /\ \A q \in GoodsRows : q # r /\ IsSized(w, q) => Moved(v)
                   /\ v.variation = 0 => /\ entry.slug # "sized, large"
                                         /\ \A q \in GoodsRows : w.goods[q].slug # "sized, large"
<1>11. ASSUME Rewritten(w, v, r, entry) PROVE Goal /\ (Moved(v) => Moved(w))
  <2>1. r = L /\ v.variation = V /\ entry.slug = "sized" BY <1>11, Zenon DEF Rewritten
  <2>2. Moved(v) <=> Moved(w) BY <1>2, <1>8, <1>9, <2>1, Zenon
  <2>3. V = 0 => \A q \in GoodsRows : w.goods[q].slug # "sized, large" BY <1>7, Zenon DEF SizedFits
  <2>4. entry.slug # "sized, large" BY <2>1
  <2> QED BY <1>8, <2>1, <2>2, <2>3, <2>4, Zenon
<1>12. ASSUME MadeFirst(w, v, r, entry) PROVE Goal /\ (Moved(v) => Moved(w))
  <2>1. L = 0 /\ v.variation = V /\ entry.slug = "sized" BY <1>12, Zenon DEF MadeFirst
  <2>2. V = 0 /\ ~Moved(w) /\ F = 0 BY <1>8, <1>9, <2>1, Zenon
  <2>3. ~Moved(v) BY <1>9, <2>2, Zenon
  <2>4. \A q \in GoodsRows : ~IsSized(w, q) BY <1>8, <2>1, Zenon
  <2>5. \A q \in GoodsRows : w.goods[q].slug # "sized, large" BY <2>4 DEF IsSized
  <2>6. entry.slug # "sized, large" BY <2>1
  <2> QED BY <2>1, <2>2, <2>3, <2>4, <2>5, <2>6, Zenon
<1>13. ASSUME MadeForLine(w, v, r) PROVE Goal
  <2>1. w.goods[r] = NoGoods /\ v.variation = r /\ ~Moved(w) /\ (L # 0 => lineSku # "product")
    BY <1>13, Zenon DEF MadeForLine
  <2>2. L = F BY <1>9, <2>1, Zenon
  <2>3. L # 0 => Moved(v) BY <1>8, <1>9, <1>10, <2>1, <2>2, Zenon
  <2>4. Moved(v) => lineSku # "product" BY <1>8, <1>9, <2>1, <2>2, Zenon
  <2> QED BY <1>2, <1>8, <2>1, <2>3, <2>4, Zenon
<1>14. Goal /\ ((Rewritten(w, v, r, entry) \/ MadeFirst(w, v, r, entry)) /\ Moved(v) => Moved(w))
  BY <1>9, <1>11, <1>12, <1>13, Zenon
<1> HIDE DEF L, F, V
<1>15. SizedFits(v)
  <2>1. v.listed["sized"] # 0 => IsSized(v, v.listed["sized"]) BY <1>1, <1>5, Zenon
  <2>2. \A q \in GoodsRows : IsSized(v, q) => v.listed["sized"] # 0 /\ (q = v.listed["sized"] \/ Moved(v))
    BY <1>1, <1>2, <1>6, <1>14, Zenon
  <2>3. v.first["sized"] # 0 BY <1>1, <1>2, Zenon
  <2>4. v.variation = 0 => \A q \in GoodsRows : v.goods[q].slug # "sized, large"
    BY <1>4, <1>14, Zenon
  <2>5. lineSku = "product" => \A q \in GoodsRows : IsSized(v, q) => v.goods[q].item = "s"
    <3>1. lineSku = "product" => \A q \in GoodsRows : IsSized(w, q) => w.goods[q].item = "s"
      BY <1>7, Zenon DEF SizedFits
    <3>2. lineSku = "product" => entry.item = "s" BY Zenon
    <3> QED BY <1>4, <1>6, <3>1, <3>2, Zenon
  <2>6. /\ Moved(v) => v.variation # 0 /\ lineSku # "product"
        /\ v.variation # 0 => v.variation = v.listed["sized"]
    BY <1>1, <1>14, Zenon
  <2> HIDE DEF Goal
  <2> QED BY <2>1, <2>2, <2>3, <2>4, <2>5, <2>6, Zenon DEF SizedFits
<1>16. /\ \A q \in GoodsRows : v.goods[q].slug = "plain" <=> w.goods[q].slug = "plain"
       /\ \A q \in GoodsRows : w.goods[q].slug = "plain" => v.goods[q].item = w.goods[q].item
  <2>1. entry.slug # "plain" BY <1>3
  <2>2. w.goods[r].slug # "plain"
    <3>1. IsSized(w, r) \/ w.goods[r].slug = ""
      BY <1>2, <1>8, <1>10, Zenon DEF Rewritten, MadeFirst, MadeForLine, L
    <3> QED BY <3>1 DEF IsSized
  <2> QED BY <1>4, <2>1, <2>2, Zenon
<1>17. PlainFits(v)
  <2>1. PlainFits(w) /\ w \in TradeShape BY DEF TradeFits
  <2> QED BY <1>1, <1>16, <2>1, PlainStillFits, Zenon
<1>18. SlugsDiffer(v)
  <2>1. SlugsDiffer(w) BY DEF TradeFits
  <2> QED BY <1>4, <2>1, SlugsStillDiffer, Zenon
<1>19. NothingArchived(v) BY NothingStillArchived, Zenon DEF TradeFits
<1>20. SalesFit(v) BY <1>14, SalesStillFit, Zenon DEF TradeFits, OnlyRows
<1>21. Bare(v) => Bare(w) BY <1>16, RowNumbers, Zenon DEF Bare
<1> QED BY <1>14, <1>15, <1>17, <1>18, <1>19, <1>20, <1>21, Zenon DEF TradeFits, OnlyRows

--------------------
\* StoreOrders: a product is imported.
RowOfWare(w, v, ware, r, entry) ==
  /\ OnlyRows(w, v) /\ WrittenAs(w, v, r, entry) /\ v.listed = [w.listed EXCEPT ![ware] = r]
  /\ v.first = [w.first EXCEPT ![ware] = FirstOf(w, ware, r)]
  /\ v.variation = w.variation /\ v.line = w.line /\ v.said = w.said

LEMMA WrittenIsRowFor ==
  ASSUME NEW w \in TradeShape, NEW ware \in Wares, NEW r \in GoodsRows,
         NEW entry \in PlainRow \cup SizedRow, NEW v, v = MapTo([w EXCEPT !.goods[r] = entry], ware, r)
  PROVE  RowOfWare(w, v, ware, r, entry)
<1>1. /\ v \in TradeShape /\ v.goods = [w.goods EXCEPT ![r] = entry]
      /\ v.listed = [w.listed EXCEPT ![ware] = r]
      /\ v.first = [w.first EXCEPT ![ware] = IF w.first[ware] = 0 THEN r ELSE w.first[ware]]
      /\ v.variation = w.variation /\ v.people = w.people /\ v.sales = w.sales
      /\ v.strays = w.strays /\ v.line = w.line /\ v.said = w.said
  BY RowWrittenFor
<1>2. v.goods[r] = entry /\ \A q \in GoodsRows : q # r => v.goods[q] = w.goods[q]
  BY <1>1 DEF TradeShape
<1> QED BY <1>1, <1>2, Zenon DEF RowOfWare, OnlyRows, WrittenAs, FirstOf

LEMMA GoodsMade ==
  ASSUME NEW w, TradeFits(w), NEW ware \in Wares, NEW name \in {"plain", "sized", "sized, large"},
         NEW sku, NEW entry \in PlainRow \cup SizedRow, ~SlugTaken(w, name), ~SkuTaken(w, sku),
         entry = [slug |-> name, sku |-> "", vendor |-> FALSE, live |-> TRUE,
                item |-> IF sku = "" THEN "auto" ELSE sku]
  PROVE  \E r \in GoodsRows : /\ w.goods[r] = NoGoods /\ RowsApart(w, r, entry)
                             /\ RowOfWare(w, MakeGoods(w, ware, name, sku), ware, r, entry)
<1>1. w \in TradeShape /\ SlugsDiffer(w) BY DEF TradeFits
<1> DEFINE r == FreeRow(w)
<1>2. r \in GoodsRows /\ w.goods[r] = NoGoods BY <1>1, RowForName
<1> HIDE DEF r
<1>3. MakeGoods(w, ware, name, sku) = MapTo([w EXCEPT !.goods[r] = entry], ware, r)
  BY Zenon DEF MakeGoods, r
<1>4. RowOfWare(w, MakeGoods(w, ware, name, sku), ware, r, entry)
  BY <1>1, <1>2, <1>3, WrittenIsRowFor, Zenon
<1>5. RowsApart(w, r, entry)
  <2>1. entry.slug = name OBVIOUS
  <2> QED BY <2>1, Zenon DEF RowsApart, SlugTaken
<1> QED BY <1>2, <1>4, <1>5, Zenon

Clash(w, ware, r) == \E q \in GoodsRows \ {r} : w.goods[q].slug = ware \/ w.goods[q].sku = SkuOf[ware]
WrittenRow(w, ware, r) == [w.goods[r] EXCEPT !.slug = ware, !.sku = SkuOf[ware], !.live = TRUE]

LEMMA GoodsRewritten ==
  ASSUME NEW w, TradeFits(w), NEW ware \in Wares, NEW r \in GoodsRows, ~Clash(w, ware, r),
         \/ ware = "plain" /\ w.goods[r] \in PlainRow
         \/ ware = "sized" /\ w.goods[r] \in SizedRow
  PROVE  /\ RowOfWare(w, Overwrite(w, ware, r), ware, r, WrittenRow(w, ware, r))
         /\ RowsApart(w, r, WrittenRow(w, ware, r)) /\ WrittenRow(w, ware, r).live
         /\ WrittenRow(w, ware, r).slug = ware /\ WrittenRow(w, ware, r).item = w.goods[r].item
         /\ ware = "plain" => WrittenRow(w, ware, r) \in PlainRow
         /\ ware = "sized" => WrittenRow(w, ware, r) \in SizedRow
<1>1. w \in TradeShape BY DEF TradeFits
<1> DEFINE entry == WrittenRow(w, ware, r)
<1>2. ware = "plain" => entry \in PlainRow BY SkusAre DEF WrittenRow, PlainRow, SizedRow
<1>3. ware = "sized" => entry \in SizedRow BY SkusAre DEF WrittenRow, PlainRow, SizedRow
<1>4. entry.live /\ entry.slug = ware /\ entry.item = w.goods[r].item
  BY DEF WrittenRow, PlainRow, SizedRow
<1>5. [w EXCEPT !.goods[r].slug = ware, !.goods[r].sku = SkuOf[ware], !.goods[r].live = TRUE]
        = [w EXCEPT !.goods[r] = entry]
  <2>1. w.goods \in [GoodsRows -> PlainRow \cup SizedRow \cup {NoGoods}] BY <1>1 DEF TradeShape
  <2> QED BY <1>1, <2>1 DEF TradeShape, WrittenRow
<1>6. Overwrite(w, ware, r) = MapTo([w EXCEPT !.goods[r] = entry], ware, r)
  <2>1. Overwrite(w, ware, r) = MapTo([w EXCEPT !.goods[r].slug = ware, !.goods[r].sku = SkuOf[ware],
                                                 !.goods[r].live = TRUE], ware, r)
    BY Zenon DEF Overwrite, Clash
  <2> HIDE DEF entry
  <2> QED BY <1>5, <2>1, Zenon
<1> HIDE DEF entry
<1>7. RowOfWare(w, Overwrite(w, ware, r), ware, r, entry)
  <2>1. entry \in PlainRow \cup SizedRow BY <1>2, <1>3, Zenon DEF Wares
  <2> QED BY <1>1, <1>6, <2>1, WrittenIsRowFor, Zenon
<1>8. RowsApart(w, r, entry) BY <1>4, Zenon DEF RowsApart, Clash
<1> QED BY <1>2, <1>3, <1>4, <1>7, <1>8, Zenon DEF entry

WareKept(w, v) == /\ TradeFits(v) /\ (Moved(v) <=> Moved(w)) /\ (Bare(v) => Bare(w)) /\ v.line = w.line
                  /\ v.said = w.said /\ v.sales = w.sales

\* What a row for the simple product is found by.
LEMMA PlainFound ==
  ASSUME NEW w, TradeFits(w)
  PROVE  /\ \A r \in GoodsRows : w.goods[r].sku = "p" \/ w.goods[r].item = "p" \/ w.goods[r].slug = "plain"
              => w.goods[r] \in PlainRow /\ w.listed["plain"] = r
         /\ w.listed["plain"] # 0 => /\ w.listed["plain"] \in GoodsRows
                                     /\ w.goods[w.listed["plain"]] \in PlainRow
<1>1. w \in TradeShape BY DEF TradeFits
<1>2. w.listed["plain"] # 0 => w.listed["plain"] \in GoodsRows
  BY <1>1 DEF TradeShape, MaybeRow, Wares
<1>3. ASSUME NEW r \in GoodsRows, w.goods[r].sku = "p" \/ w.goods[r].item = "p" \/ w.goods[r].slug = "plain"
      PROVE  w.goods[r] \in PlainRow /\ w.goods[r].slug = "plain"
  BY <1>1, <1>3, RowsAre DEF IsSized
<1>4. ASSUME NEW r \in GoodsRows, w.goods[r].slug = "plain" PROVE w.listed["plain"] = r
  BY <1>4, Zenon DEF TradeFits, PlainFits
<1>5. w.listed["plain"] # 0 => w.goods[w.listed["plain"]].slug = "plain"
  BY Zenon DEF TradeFits, PlainFits
<1> QED BY <1>2, <1>3, <1>4, <1>5, Zenon

LEMMA SizedFound ==
  ASSUME NEW w, TradeFits(w)
  PROVE  /\ \A r \in GoodsRows : w.goods[r].sku = "s" \/ w.goods[r].item \in {"s", "v"} \/ IsSized(w, r)
              => w.goods[r] \in SizedRow /\ IsSized(w, r) /\ w.listed["sized"] # 0
                 /\ (r = w.listed["sized"] \/ Moved(w))
         /\ w.listed["sized"] # 0 => /\ w.listed["sized"] \in GoodsRows
                                     /\ w.goods[w.listed["sized"]] \in SizedRow
                                     /\ IsSized(w, w.listed["sized"])
<1>1. w \in TradeShape BY DEF TradeFits
<1>2. w.listed["sized"] # 0 => w.listed["sized"] \in GoodsRows
  BY <1>1 DEF TradeShape, MaybeRow, Wares
<1>3. ASSUME NEW r \in GoodsRows, w.goods[r].sku = "s" \/ w.goods[r].item \in {"s", "v"} \/ IsSized(w, r)
      PROVE  w.goods[r] \in SizedRow /\ IsSized(w, r)
  BY <1>1, <1>3, RowsAre
<1>4. ASSUME NEW r \in GoodsRows, IsSized(w, r)
      PROVE  w.listed["sized"] # 0 /\ (r = w.listed["sized"] \/ Moved(w))
  BY <1>4, Zenon DEF TradeFits, SizedFits
<1>5. w.listed["sized"] # 0 => IsSized(w, w.listed["sized"]) BY Zenon DEF TradeFits, SizedFits
<1> QED BY <1>2, <1>3, <1>4, <1>5, Zenon

LEMMA PlainMade ==
  ASSUME NEW w, TradeFits(w), w.listed["plain"] = 0
  PROVE  LET v == MakeGoods(w, "plain", "plain", "p")
         IN WareKept(w, v) /\ v.listed["plain"] \in GoodsRows /\ v.goods[v.listed["plain"]].slug = "plain"
<1> DEFINE v == MakeGoods(w, "plain", "plain", "p")
           entry == [slug |-> "plain", sku |-> "", vendor |-> FALSE, live |-> TRUE, item |-> "p"]
<1>1. ~SlugTaken(w, "plain") BY PlainFound, RowNumbers, Zenon DEF SlugTaken
<1>2. ~SkuTaken(w, "p") BY PlainFound, RowNumbers DEF SkuTaken
<1>3. entry \in PlainRow /\ entry.item # "" /\ entry.live /\ entry.slug = "plain" BY DEF PlainRow
<1>4. entry = [slug |-> "plain", sku |-> "", vendor |-> FALSE, live |-> TRUE,
             item |-> IF "p" = "" THEN "auto" ELSE "p"]
  OBVIOUS
<1> HIDE DEF entry
<1>5. PICK r \in GoodsRows : w.goods[r] = NoGoods /\ RowOfWare(w, v, "plain", r, entry)
  BY <1>1, <1>2, <1>3, <1>4, GoodsMade DEF Wares
<1> HIDE DEF v
<1>6. /\ OnlyRows(w, v) /\ WrittenAs(w, v, r, entry) /\ v.listed = [w.listed EXCEPT !["plain"] = r]
      /\ v.first = [w.first EXCEPT !["plain"] = FirstOf(w, "plain", r)]
      /\ v.variation = w.variation /\ v.line = w.line /\ v.said = w.said
  BY <1>5, Zenon DEF RowOfWare
<1>7. TradeFits(v) /\ (Moved(v) <=> Moved(w)) /\ (Bare(v) => Bare(w))
  BY <1>3, <1>5, <1>6, PlainWritten, Zenon
<1>8. v.listed["plain"] = r BY <1>6 DEF TradeFits, TradeShape, Wares
<1>9. v.goods[r].slug = "plain" BY <1>3, <1>6, Zenon DEF WrittenAs
<1> QED BY <1>6, <1>7, <1>8, <1>9, Zenon DEF WareKept, OnlyRows, v

LEMMA SizedMade ==
  ASSUME NEW w, TradeFits(w), w.listed["sized"] = 0
  PROVE  WareKept(w, MakeGoods(w, "sized", "sized", "s"))
<1> DEFINE v == MakeGoods(w, "sized", "sized", "s")
           entry == [slug |-> "sized", sku |-> "", vendor |-> FALSE, live |-> TRUE, item |-> "s"]
<1>1. ~SlugTaken(w, "sized") BY SizedFound DEF SlugTaken, IsSized
<1>2. ~SkuTaken(w, "s") BY SizedFound DEF SkuTaken
<1>3. entry \in SizedRow /\ entry.item = "s" /\ entry.live /\ entry.slug = "sized" BY DEF SizedRow
<1>4. entry = [slug |-> "sized", sku |-> "", vendor |-> FALSE, live |-> TRUE,
             item |-> IF "s" = "" THEN "auto" ELSE "s"]
  OBVIOUS
<1> HIDE DEF entry
<1>5. PICK r \in GoodsRows : w.goods[r] = NoGoods /\ RowsApart(w, r, entry) /\ RowOfWare(w, v, "sized", r, entry)
  BY <1>1, <1>2, <1>3, <1>4, GoodsMade DEF Wares
<1> HIDE DEF v
<1>6. /\ OnlyRows(w, v) /\ WrittenAs(w, v, r, entry) /\ v.listed = [w.listed EXCEPT !["sized"] = r]
      /\ v.first = [w.first EXCEPT !["sized"] = FirstOf(w, "sized", r)]
      /\ v.variation = w.variation /\ v.line = w.line /\ v.said = w.said
  BY <1>5, Zenon DEF RowOfWare
<1>7. MadeFirst(w, v, r, entry) BY <1>3, <1>5, <1>6, Zenon DEF MadeFirst
<1>8. TradeFits(v) /\ (Moved(v) <=> Moved(w)) /\ (Bare(v) => Bare(w))
  BY <1>3, <1>5, <1>6, <1>7, SizedWritten, Zenon
<1> QED BY <1>6, <1>8, Zenon DEF WareKept, OnlyRows, v

LEMMA PlainRewritten ==
  ASSUME NEW w, TradeFits(w), NEW r \in GoodsRows, w.listed["plain"] = r
  PROVE  WareKept(w, Overwrite(w, "plain", r))
<1> DEFINE v == Overwrite(w, "plain", r)  entry == WrittenRow(w, "plain", r)
<1>1. w.goods[r] \in PlainRow BY PlainFound, RowNumbers, Zenon
<1>2. ~Clash(w, "plain", r) BY PlainFound, SkusAre, Zenon DEF Clash
<1>3. RowOfWare(w, v, "plain", r, entry) /\ entry.live /\ entry.item = w.goods[r].item /\ entry \in PlainRow
  BY <1>1, <1>2, GoodsRewritten, Zenon DEF Wares
<1> HIDE DEF v, entry
<1>4. /\ OnlyRows(w, v) /\ WrittenAs(w, v, r, entry) /\ v.listed = [w.listed EXCEPT !["plain"] = r]
      /\ v.first = [w.first EXCEPT !["plain"] = FirstOf(w, "plain", r)]
      /\ v.variation = w.variation /\ v.line = w.line /\ v.said = w.said
  BY <1>3, Zenon DEF RowOfWare
<1>5. TradeFits(v) /\ (Moved(v) <=> Moved(w)) /\ (Bare(v) => Bare(w))
  BY <1>3, <1>4, PlainWritten, Zenon
<1> QED BY <1>4, <1>5, Zenon DEF WareKept, OnlyRows, v

LEMMA SizedRewritten ==
  ASSUME NEW w, TradeFits(w), NEW r \in GoodsRows, w.listed["sized"] = r, ~Clash(w, "sized", r)
  PROVE  WareKept(w, Overwrite(w, "sized", r))
<1> DEFINE v == Overwrite(w, "sized", r)  entry == WrittenRow(w, "sized", r)
<1>1. w.goods[r] \in SizedRow /\ IsSized(w, r) BY SizedFound, RowNumbers, Zenon
<1>2. /\ RowOfWare(w, v, "sized", r, entry) /\ entry.live /\ entry.item = w.goods[r].item /\ entry \in SizedRow
      /\ RowsApart(w, r, entry) /\ entry.slug = "sized"
  BY <1>1, GoodsRewritten, Zenon DEF Wares
<1> HIDE DEF v, entry
<1>3. /\ OnlyRows(w, v) /\ WrittenAs(w, v, r, entry) /\ v.listed = [w.listed EXCEPT !["sized"] = r]
      /\ v.first = [w.first EXCEPT !["sized"] = FirstOf(w, "sized", r)]
      /\ v.variation = w.variation /\ v.line = w.line /\ v.said = w.said
  BY <1>2, Zenon DEF RowOfWare
<1>4. Rewritten(w, v, r, entry) BY <1>2, <1>3, Zenon DEF Rewritten
<1>5. lineSku = "product" => entry.item = "s" BY <1>1, <1>2, Zenon DEF TradeFits, SizedFits
<1>6. TradeFits(v) /\ (Moved(v) <=> Moved(w)) /\ (Bare(v) => Bare(w))
  BY <1>2, <1>3, <1>4, <1>5, SizedWritten, Zenon
<1> QED BY <1>3, <1>6, Zenon DEF WareKept, OnlyRows, v

SameTrade(w, v) == /\ v \in TradeShape /\ v.goods = w.goods /\ v.listed = w.listed /\ v.first = w.first
                   /\ v.variation = w.variation /\ v.people = w.people /\ v.sales = w.sales
                   /\ v.strays = w.strays

LEMMA SameTradeFits ==
  ASSUME NEW w, TradeFits(w), NEW v, SameTrade(w, v)
  PROVE  TradeFits(v) /\ (Moved(v) <=> Moved(w)) /\ (Bare(v) <=> Bare(w))
<1>1. /\ v.goods = w.goods /\ v.listed = w.listed /\ v.first = w.first /\ v.variation = w.variation
      /\ v.people = w.people /\ v.sales = w.sales /\ v.strays = w.strays /\ v \in TradeShape
  BY Zenon DEF SameTrade
<1>2. (Moved(v) <=> Moved(w)) /\ (Bare(v) <=> Bare(w)) BY <1>1, Zenon DEF Moved, Bare
<1>3. PlainFits(v)
  <2>1. PlainFits(w) BY DEF TradeFits
  <2> QED BY <1>1, <2>1 DEF PlainFits
<1>4. SizedFits(v)
  <2>1. SizedFits(w) BY DEF TradeFits
  <2> QED BY <1>1, <1>2, <2>1 DEF SizedFits, IsSized
<1>5. SlugsDiffer(v) BY <1>1, Zenon DEF TradeFits, SlugsDiffer
<1>6. NothingArchived(v) BY <1>1, Zenon DEF TradeFits, NothingArchived
<1>7. SalesFit(v) BY <1>1, <1>2, SalesStillFit, Zenon DEF TradeFits
<1> QED BY <1>1, <1>2, <1>3, <1>4, <1>5, <1>6, <1>7, Zenon DEF TradeFits

LEMMA SaidIsSame ==
  ASSUME NEW w \in TradeShape, NEW said \in {"fine", "refused", "broken"}
  PROVE  /\ SameTrade(w, [w EXCEPT !.said = said]) /\ [w EXCEPT !.said = said].said = said
         /\ [w EXCEPT !.said = said].line = w.line
BY DEF SameTrade, TradeShape

LEMMA LineIsSame ==
  ASSUME NEW w \in TradeShape, NEW r \in MaybeRow
  PROVE  /\ SameTrade(w, [w EXCEPT !.line = r]) /\ [w EXCEPT !.line = r].said = w.said
         /\ [w EXCEPT !.line = r].line = r
BY DEF SameTrade, TradeShape

WareImport(w, v, ware) ==
  /\ TradeFits(v) /\ (Moved(v) <=> Moved(w)) /\ (Bare(v) => Bare(w)) /\ v.line = w.line
  /\ v.said # "fine" => ware = "sized" /\ Moved(w)

(* A product's import: only the row of another stands in its way. *)
LEMMA WareImported ==
  ASSUME NEW w, TradeFits(w), NEW ware \in Wares, w.said = "fine"
  PROVE  WareImport(w, ImportWare(w, ware), ware)
<1>1. ASSUME NEW v, WareKept(w, v) PROVE WareImport(w, v, ware)
  BY <1>1, Zenon DEF WareKept, WareImport
<1>2. CASE w.listed[ware] # 0
  <2> DEFINE r == w.listed[ware]
  <2>1. GoodsFor(w, ware) = {r} BY <1>2, Zenon DEF GoodsFor
  <2>2. ImportWare(w, ware) = Overwrite(w, ware, r)
    <3>1. GoodsFor(w, ware) # {} /\ (CHOOSE q \in GoodsFor(w, ware) : TRUE) = r BY <2>1
    <3> QED BY <3>1, Zenon DEF ImportWare
  <2>3. CASE ware = "plain"
    <3>1. r \in GoodsRows BY <1>2, <2>3, PlainFound, Zenon
    <3> QED BY <1>1, <2>2, <2>3, <3>1, PlainRewritten, Zenon
  <2>4. CASE ware = "sized"
    <3>1. r \in GoodsRows BY <1>2, <2>4, SizedFound, Zenon
    <3>2. CASE ~Clash(w, "sized", r) BY <1>1, <2>2, <2>4, <3>1, <3>2, SizedRewritten, Zenon
    <3>3. CASE Clash(w, "sized", r)
      <4>1. ImportWare(w, ware) = [w EXCEPT !.said = "broken"]
        BY <2>2, <2>4, <3>3, Zenon DEF Overwrite, Clash
      <4>2. PICK q \in GoodsRows \ {r} : w.goods[q].slug = "sized" \/ w.goods[q].sku = "s"
        BY <3>3, SkusAre DEF Clash
      <4>3. w.goods[q].sku = "s" \/ IsSized(w, q) BY <4>2 DEF IsSized
      <4>4. Moved(w) BY <2>4, <4>2, <4>3, SizedFound, Zenon
      <4>5. w \in TradeShape BY DEF TradeFits
      <4>6. SameTrade(w, ImportWare(w, ware)) /\ ImportWare(w, ware).line = w.line
        BY <4>1, <4>5, SaidIsSame
      <4> QED BY <2>4, <4>4, <4>6, SameTradeFits, Zenon DEF WareImport
    <3> QED BY <3>2, <3>3
  <2> QED BY <2>3, <2>4 DEF Wares
<1>3. CASE w.listed[ware] = 0
  <2>1. CASE ware = "plain"
    <3>1. \A r \in GoodsRows : w.goods[r].sku # "p" /\ w.goods[r].item # "p"
      BY <1>3, <2>1, PlainFound, RowNumbers, Zenon
    <3>2. GoodsFor(w, ware) = {} BY <1>3, <2>1, <3>1, SkusAre DEF GoodsFor
    <3>3. ImportWare(w, ware) = MakeGoods(w, "plain", "plain", "p")
      BY <2>1, <3>2, SkusAre, Zenon DEF ImportWare
    <3> QED BY <1>1, <1>3, <2>1, <3>3, PlainMade, Zenon
  <2>2. CASE ware = "sized"
    <3>1. \A r \in GoodsRows : w.goods[r].sku # "s" /\ w.goods[r].item # "s"
      BY <1>3, <2>2, SizedFound
    <3>2. GoodsFor(w, ware) = {} BY <1>3, <2>2, <3>1, SkusAre DEF GoodsFor
    <3>3. ImportWare(w, ware) = MakeGoods(w, "sized", "sized", "s")
      BY <2>2, <3>2, SkusAre, Zenon DEF ImportWare
    <3> QED BY <1>1, <1>3, <2>2, <3>3, SizedMade, Zenon
  <2> QED BY <2>1, <2>2 DEF Wares
<1> QED BY <1>2, <1>3

--------------------
\* StoreOrders: an order's status, payment and stock.
LEMMA ProgressIs ==
  ToSet(Progress) = {"pending", "confirmed", "packing", "ready", "dispatched", "delivered"}
<1>1. DOMAIN Progress = 1..6 BY DEF Progress
<1>2. /\ Progress[1] = "pending" /\ Progress[2] = "confirmed" /\ Progress[3] = "packing"
      /\ Progress[4] = "ready" /\ Progress[5] = "dispatched" /\ Progress[6] = "delivered"
  BY DEF Progress
<1>3. \A i : i \in 1..6 <=> i = 1 \/ i = 2 \/ i = 3 \/ i = 4 \/ i = 5 \/ i = 6 OBVIOUS
<1> HIDE DEF Progress
<1> QED BY <1>1, <1>2, <1>3, Zenon DEF ToSet

LEMMA PlacesAre ==
  PlaceIn("pending") = 1 /\ PlaceIn("confirmed") = 2 /\ PlaceIn("delivered") = 6
<1>1. Len(Progress) = 6 BY DEF Progress
<1>2. /\ Progress[1] = "pending" /\ Progress[2] = "confirmed" /\ Progress[3] = "packing"
      /\ Progress[4] = "ready" /\ Progress[5] = "dispatched" /\ Progress[6] = "delivered"
  BY DEF Progress
<1>3. \A i \in 1..6 : i = 1 \/ i = 2 \/ i = 3 \/ i = 4 \/ i = 5 \/ i = 6 OBVIOUS
<1> HIDE DEF Progress
<1>4. /\ \A i \in 1..6 : Progress[i] = "pending" <=> i = 1
      /\ \A i \in 1..6 : Progress[i] = "confirmed" <=> i = 2
      /\ \A i \in 1..6 : Progress[i] = "delivered" <=> i = 6
  BY <1>2, <1>3
<1>5. 1 \in 1..6 /\ 2 \in 1..6 /\ 6 \in 1..6 OBVIOUS
<1> QED BY <1>1, <1>4, <1>5, Zenon DEF PlaceIn

LEMMA TargetsAre ==
  /\ Target("pending") = "pending" /\ Target("processing") = "confirmed"
  /\ Target("completed") = "delivered" /\ Target("cancelled") = "cancelled"
  /\ Target("refunded") = "refunded"
BY DEF Target

LEMMA FollowsWhenNew ==
  ASSUME NEW news \in StoreStatuses \ {"unplaced"}
  PROVE  MayFollow("pending", Target(news))
<1>1. MayFollow("pending", "pending") BY DEF MayFollow
<1>2. MayFollow("pending", "confirmed") /\ MayFollow("pending", "delivered")
  BY ProgressIs, PlacesAre DEF MayFollow
<1>3. MayFollow("pending", "cancelled") BY DEF MayFollow, MayTurn
<1>4. MayFollow("pending", "refunded") BY ProgressIs DEF MayFollow
<1> QED BY <1>1, <1>2, <1>3, <1>4, TargetsAre DEF StoreStatuses

\* No user moved it: a run finds that the order may follow the store.
LEMMA FollowsWhenUnmoved ==
  ASSUME NEW status \in StoreStatuses, NEW from \in SeenAs(status)
  PROVE  MayFollow(from, Target(status))
<1>1. \A x \in {"pending", "confirmed", "delivered", "cancelled", "refunded"} : MayFollow(x, x)
  BY Zenon DEF MayFollow
<1>2. /\ MayFollow("pending", "confirmed") /\ MayFollow("pending", "delivered")
      /\ MayFollow("confirmed", "delivered")
  BY ProgressIs, PlacesAre DEF MayFollow
<1>3. MayFollow("pending", "cancelled") /\ MayFollow("confirmed", "cancelled")
  BY DEF MayFollow, MayTurn
<1>4. /\ MayFollow("pending", "refunded") /\ MayFollow("confirmed", "refunded")
      /\ MayFollow("delivered", "refunded")
  BY ProgressIs DEF MayFollow
<1> QED BY <1>1, <1>2, <1>3, <1>4, TargetsAre DEF StoreStatuses, SeenAs

LEMMA ToldIsSeen ==
  ASSUME NEW status \in StoreStatuses, status # "unplaced", NEW news \in ToldStatuses(status)
  PROVE  news \in StoreStatuses \ {"unplaced"} /\ Target(news) \in SeenAs(status)
BY TargetsAre DEF StoreStatuses, SeenAs, ToldStatuses

\* Nothing follows a cancellation or a refund.
LEMMA EndsAreEnds ==
  ASSUME NEW from \in SaleStatuses, NEW to, MayFollow(from, to), from # to
  PROVE  from \notin {"cancelled", "refunded"}
BY ProgressIs DEF MayFollow, MayTurn

LEMMA TurnKeeps ==
  ASSUME NEW x \in SaleShape, NEW to \in SaleStatuses, x.status \notin {"cancelled", "refunded"},
         PaidAsDue(x), StockedAsSold(x)
  PROVE  LET y == Turn(x, to)
         IN /\ y \in SaleShape /\ y.status = to /\ PaidAsDue(y) /\ StockedAsSold(y)
            /\ y.vendor = x.vendor /\ y.due = x.due
<1> DEFINE y == Turn(x, to)
<1>1. x.status # "cancelled" /\ x.status # "refunded" OBVIOUS
<1>2. /\ y.status = to /\ y.sum = x.sum /\ y.paid = (IF to = "refunded" THEN 0 ELSE x.paid)
      /\ y.vendor = x.vendor /\ y.stock = (IF to = "cancelled" THEN GiveBack(x.stock) ELSE x.stock)
      /\ y.due = x.due /\ y.unpaid = x.unpaid
  BY DEF Turn, SaleShape
<1>3. GiveBack(x.stock) \in {"none", "restored"} BY DEF GiveBack, SaleShape
<1>4. y \in SaleShape BY <1>3 DEF Turn, SaleShape
<1> HIDE DEF y
<1>5. PaidAsDue(y)
  <2>1. /\ x.sum = SaleTotal + reading /\ x.paid \in {0, SaleTotal}
        /\ x.paid # 0 => reading >= 0
        /\ ~x.unpaid /\ reading = 0 => x.paid = SaleTotal
    BY <1>1 DEF PaidAsDue
  <2>2. y.paid = 0 \/ y.paid = x.paid BY <1>2
  <2>3. y.status # "refunded" => y.paid = x.paid BY <1>2
  <2>4. y.sum = SaleTotal + reading /\ y.paid \in {0, SaleTotal} BY <1>2, <2>1, <2>2, Zenon
  <2>5. y.paid # 0 => reading >= 0 BY <2>1, <2>2, Zenon
  <2>6. y.status # "refunded" /\ ~y.unpaid /\ reading = 0 => y.paid = SaleTotal
    BY <1>2, <2>1, <2>3, Zenon
  <2> QED BY <2>4, <2>5, <2>6, Zenon DEF PaidAsDue
<1>6. StockedAsSold(y)
  <2>1. x.vendor => x.stock = "deducted" \/ reading < 0 BY <1>1, Zenon DEF StockedAsSold
  <2>2. to = "cancelled" => y.stock # "deducted" BY <1>2, <1>3
  <2>3. to # "cancelled" => y.stock = x.stock BY <1>2
  <2> QED BY <1>2, <2>1, <2>2, <2>3, Zenon DEF StockedAsSold
<1> QED BY <1>2, <1>4, <1>5, <1>6, Zenon DEF y

Stocked(x) == IF ~x.vendor \/ x.status = "refunded" THEN x
              ELSE [x EXCEPT !.stock = IF x.status = "cancelled" THEN GiveBack(@)
                                       ELSE IF @ = "none" THEN "deducted" ELSE @]

LEMMA StockTaken ==
  ASSUME NEW x \in SaleShape, PaidAsDue(x), StockedAsSold(x) \/ x.stock = "none"
  PROVE  LET y == Stocked(x)
         IN /\ y \in SaleShape /\ y.status = x.status /\ PaidAsDue(y) /\ StockedAsSold(y)
            /\ y.vendor = x.vendor /\ y.due = x.due
<1> DEFINE y == Stocked(x)
<1>1. CASE ~x.vendor \/ x.status = "refunded"
  <2>1. y = x BY <1>1, Zenon DEF Stocked
  <2>2. StockedAsSold(x) BY <1>1, Zenon DEF StockedAsSold
  <2> HIDE DEF y
  <2> QED BY <2>1, <2>2, Zenon DEF y
<1>2. CASE x.vendor /\ x.status # "refunded"
  <2> DEFINE stock == IF x.status = "cancelled" THEN GiveBack(x.stock)
                      ELSE IF x.stock = "none" THEN "deducted" ELSE x.stock
  <2>1. y = [x EXCEPT !.stock = stock] BY <1>2 DEF Stocked
  <2>2. /\ stock \in {"none", "deducted", "restored"}
        /\ x.status = "cancelled" => stock # "deducted"
        /\ x.status # "cancelled" /\ x.stock = "none" => stock = "deducted"
        /\ x.status # "cancelled" /\ x.stock = "deducted" => stock = "deducted"
    BY DEF GiveBack, SaleShape
  <2> HIDE DEF stock, y
  <2>3. /\ y \in SaleShape /\ y.status = x.status /\ y.sum = x.sum /\ y.paid = x.paid
        /\ y.vendor = x.vendor /\ y.due = x.due /\ y.unpaid = x.unpaid /\ y.stock = stock
    BY <2>1, <2>2 DEF SaleShape
  <2>4. PaidAsDue(y)
    <3>1. /\ x.sum = SaleTotal + reading /\ x.paid \in {0, SaleTotal}
          /\ x.paid # 0 => reading >= 0
          /\ x.status # "refunded" /\ ~x.unpaid /\ reading = 0 => x.paid = SaleTotal
      BY Zenon DEF PaidAsDue
    <3> QED BY <2>3, <3>1, Zenon DEF PaidAsDue
  <2>5. StockedAsSold(y)
    <3>1. x.status # "cancelled" => x.stock = "none" \/ x.stock = "deducted" \/ reading < 0
      BY <1>2, Zenon DEF StockedAsSold
    <3>2. x.status # "cancelled" => stock = "deducted" \/ reading < 0 BY <2>2, <3>1, Zenon
    <3> QED BY <2>2, <2>3, <3>2, Zenon DEF StockedAsSold
  <2> QED BY <2>3, <2>4, <2>5, Zenon DEF y
<1> QED BY <1>1, <1>2

NewSale(vendor, due) == [NoSale EXCEPT !.status = "pending", !.vendor = vendor,
                                       !.sum = SaleTotal + reading, !.due = due]
TurnedTo(x, to) == IF x.status = to THEN x ELSE Turn(x, to)
PaidOf(x, news) == IF IsPaidFor(news) THEN [x EXCEPT !.paid = SaleTotal] ELSE [x EXCEPT !.unpaid = TRUE]

LEMMA NewSaleTurned ==
  ASSUME NEW vendor \in BOOLEAN, NEW due \in BOOLEAN, NEW to \in SaleStatuses, reading \in {-1, 0, 1}
  PROVE  LET x == TurnedTo(NewSale(vendor, due), to)
         IN /\ x \in SaleShape /\ x.status = to /\ x.vendor = vendor /\ x.due = due /\ x.paid = 0
            /\ x.sum = SaleTotal + reading /\ x.stock = "none" /\ ~x.unpaid
            /\ NewSale(vendor, due) \in SaleShape /\ NewSale(vendor, due).status = "pending"
            /\ NewSale(vendor, due).sum = SaleTotal + reading
<1> DEFINE sum == SaleTotal + reading  new == NewSale(vendor, due)
<1>1. sum \in Int BY StoreOrdersAssumption
<1>2. new = [status |-> "pending", sum |-> sum, paid |-> 0, vendor |-> vendor, stock |-> "none",
             due |-> due, unpaid |-> FALSE]
  <2> HIDE DEF sum
  <2>1. new = [NoSale EXCEPT !.status = "pending", !.vendor = vendor, !.sum = sum, !.due = due]
    BY Zenon DEF NewSale, sum
  <2> HIDE DEF new
  <2> QED BY <2>1 DEF NoSale
<1> HIDE DEF sum, new
<1>3. /\ new.status = "pending" /\ new.sum = sum /\ new.paid = 0 /\ new.vendor = vendor
      /\ new.stock = "none" /\ new.due = due /\ new.unpaid = FALSE /\ new \in SaleShape
  BY <1>1, <1>2 DEF SaleShape, SaleStatuses
<1>4. CASE to = "pending"
  <2>1. TurnedTo(new, to) = new BY <1>3, <1>4, Zenon DEF TurnedTo
  <2> QED BY <1>3, <1>4, <2>1, Zenon DEF sum, new
<1>5. CASE to # "pending"
  <2>1. TurnedTo(new, to) = Turn(new, to) BY <1>3, <1>5, Zenon DEF TurnedTo
  <2>2. GiveBack("none") = "none" BY DEF GiveBack
  <2>3. Turn(new, to) = [new EXCEPT !.status = to, !.paid = 0, !.stock = "none"]
    BY <1>3, <2>2 DEF Turn
  <2> DEFINE x == Turn(new, to)
  <2> HIDE DEF x
  <2>4. /\ x.status = to /\ x.sum = sum /\ x.paid = 0 /\ x.vendor = vendor
        /\ x.stock = "none" /\ x.due = due /\ x.unpaid = FALSE /\ x \in SaleShape
    BY <1>3, <2>3 DEF SaleShape, x
  <2> QED BY <1>3, <2>1, <2>4, Zenon DEF sum, new, x
<1> QED BY <1>4, <1>5

\* An order that is not paid for as the store says fits while the cents fall short.
LEMMA ShortSaleFits ==
  ASSUME NEW x \in SaleShape, x.paid = 0, x.sum = SaleTotal + reading, x.stock = "none", reading < 0
  PROVE  PaidAsDue(x) /\ StockedAsSold(x)
<1>1. reading # 0 \/ ~(reading < 0) OBVIOUS
<1>2. x.paid \in {0, SaleTotal} /\ (x.paid # 0 => reading >= 0) OBVIOUS
<1>3. PaidAsDue(x) BY <1>1, <1>2, Zenon DEF PaidAsDue
<1>4. x.stock # "deducted" OBVIOUS
<1> QED BY <1>3, <1>4, Zenon DEF StockedAsSold

LEMMA NewSalePaid ==
  ASSUME NEW x \in SaleShape, NEW news, x.paid = 0, x.sum = SaleTotal + reading, ~x.unpaid,
         reading \in {-1, 0, 1}, IsPaidFor(news) => ~(SaleTotal > x.sum)
  PROVE  LET y == PaidOf(x, news)
         IN /\ y \in SaleShape /\ y.status = x.status /\ y.vendor = x.vendor /\ y.due = x.due
            /\ PaidAsDue(y) /\ y.stock = x.stock
<1> DEFINE y == PaidOf(x, news)
<1>1. SaleTotal \in Nat BY StoreOrdersAssumption
<1>2. CASE IsPaidFor(news)
  <2>1. y = [x EXCEPT !.paid = SaleTotal] BY <1>2, Zenon DEF PaidOf
  <2> HIDE DEF y
  <2>2. /\ y \in SaleShape /\ y.status = x.status /\ y.sum = x.sum /\ y.paid = SaleTotal
        /\ y.vendor = x.vendor /\ y.due = x.due /\ y.unpaid = x.unpaid /\ y.stock = x.stock
    BY <1>1, <2>1 DEF SaleShape
  <2>3. reading >= 0 BY <1>1, <1>2
  <2>4. PaidAsDue(y) BY <2>2, <2>3 DEF PaidAsDue
  <2> QED BY <2>2, <2>4, Zenon DEF y
<1>3. CASE ~IsPaidFor(news)
  <2>1. y = [x EXCEPT !.unpaid = TRUE] BY <1>3, Zenon DEF PaidOf
  <2> HIDE DEF y
  <2>2. /\ y \in SaleShape /\ y.status = x.status /\ y.sum = x.sum /\ y.paid = 0
        /\ y.vendor = x.vendor /\ y.due = x.due /\ y.unpaid /\ y.stock = x.stock
    BY <2>1 DEF SaleShape
  <2>3. PaidAsDue(y) BY <2>2 DEF PaidAsDue
  <2> QED BY <2>2, <2>3, Zenon DEF y
<1> QED BY <1>2, <1>3

--------------------
\* StoreOrders: an order is imported.
PutAs(w, v, s, x) ==
  /\ v \in TradeShape /\ v.goods = w.goods /\ v.listed = w.listed /\ v.first = w.first
  /\ v.variation = w.variation /\ v.people = w.people /\ v.strays = w.strays
  /\ v.sales = [w.sales EXCEPT ![s] = x]

LEMMA SalePutFits ==
  ASSUME NEW w, TradeFits(w), NEW s \in StoreSales, NEW x \in SaleShape, NEW v, PutAs(w, v, s, x),
         SaleFits(x, saleStates[s]), x.vendor # x.due => WareOf[s] = "sized" /\ Moved(w)
  PROVE  TradeFits(v) /\ (Moved(v) <=> Moved(w)) /\ (Bare(v) <=> Bare(w))
<1>1. /\ v.goods = w.goods /\ v.listed = w.listed /\ v.first = w.first /\ v.variation = w.variation
      /\ v.people = w.people /\ v.strays = w.strays /\ v \in TradeShape
      /\ v.sales = [w.sales EXCEPT ![s] = x]
  BY Zenon DEF PutAs
<1>2. (Moved(v) <=> Moved(w)) /\ (Bare(v) <=> Bare(w)) BY <1>1, Zenon DEF Moved, Bare
<1>3. PlainFits(v)
  <2>1. PlainFits(w) BY DEF TradeFits
  <2> QED BY <1>1, <2>1 DEF PlainFits
<1>4. SizedFits(v)
  <2>1. SizedFits(w) BY DEF TradeFits
  <2> QED BY <1>1, <1>2, <2>1 DEF SizedFits, IsSized
<1>5. SlugsDiffer(v) BY <1>1, Zenon DEF TradeFits, SlugsDiffer
<1>6. NothingArchived(v) BY <1>1, Zenon DEF TradeFits, NothingArchived
<1>7. SalesFit(v)
  <2>1. v.sales[s] = x /\ \A o \in StoreSales : o # s => v.sales[o] = w.sales[o]
    BY <1>1 DEF TradeFits, TradeShape
  <2>2. ASSUME NEW o \in StoreSales PROVE SaleFits(v.sales[o], saleStates[o]) /\ CreditFits(v, o)
    <3>1. CASE o = s BY <1>2, <2>1, <3>1, Zenon DEF CreditFits
    <3>2. CASE o # s BY <1>2, <2>1, <3>2, Zenon DEF TradeFits, SalesFit, CreditFits
    <3> QED BY <3>1, <3>2
  <2> QED BY <2>2, Zenon DEF SalesFit
<1> QED BY <1>1, <1>2, <1>3, <1>4, <1>5, <1>6, <1>7, Zenon DEF TradeFits

LEMMA PutHolds ==
  ASSUME NEW w \in TradeShape, NEW s \in StoreSales, NEW x, NEW v, PutAs(w, v, s, x)
  PROVE  v.sales[s] = x /\ v \in TradeShape
<1>1. v.sales = [w.sales EXCEPT ![s] = x] /\ v \in TradeShape BY Zenon DEF PutAs
<1> QED BY <1>1 DEF TradeShape

LEMMA PutAgain ==
  ASSUME NEW w \in TradeShape, NEW s \in StoreSales, NEW x \in SaleShape, NEW v, PutAs(w, v, s, x),
         NEW y \in SaleShape
  PROVE  /\ PutAs(w, [v EXCEPT !.sales[s] = y], s, y) /\ [v EXCEPT !.sales[s] = y].said = v.said
         /\ v.sales[s] = x
<1>1. v.sales = [w.sales EXCEPT ![s] = x] /\ v \in TradeShape BY Zenon DEF PutAs
<1>2. v.sales[s] = x BY <1>1 DEF TradeShape
<1> DEFINE u == [v EXCEPT !.sales[s] = y]
<1>3. /\ u \in TradeShape /\ u.goods = v.goods /\ u.listed = v.listed /\ u.first = v.first
      /\ u.variation = v.variation /\ u.people = v.people /\ u.strays = v.strays
      /\ u.said = v.said /\ u.sales = [v.sales EXCEPT ![s] = y]
  BY <1>1 DEF TradeShape
<1>4. [v.sales EXCEPT ![s] = y] = [w.sales EXCEPT ![s] = y] BY <1>1 DEF TradeShape
<1> HIDE DEF u
<1> QED BY <1>2, <1>3, <1>4, Zenon DEF PutAs, u

LEMMA PutSaid ==
  ASSUME NEW w, NEW s, NEW x, NEW v, PutAs(w, v, s, x)
  PROVE  PutAs(w, Refuse(v), s, x) /\ Refuse(v).said = "refused"
BY DEF PutAs, TradeShape, Refuse

LEMMA Followed ==
  ASSUME NEW w \in TradeShape, NEW s \in StoreSales, NEW x \in SaleShape, NEW v, PutAs(w, v, s, x),
         v.said = "fine", NEW news, TurnedTo(x, Target(news)) \in SaleShape
  PROVE  LET u == FollowStore(v, s, news)
         IN IF MayFollow(x.status, Target(news))
            THEN PutAs(w, u, s, TurnedTo(x, Target(news))) /\ u.said = "fine"
            ELSE PutAs(w, u, s, x) /\ u.said = "refused"
<1> DEFINE u == FollowStore(v, s, news)  y == TurnedTo(x, Target(news))
<1>1. v.sales[s] = x BY PutHolds
<1>2. CASE ~MayFollow(x.status, Target(news))
  <2>1. u = Refuse(v) BY <1>1, <1>2, Zenon DEF FollowStore
  <2> QED BY <1>2, <2>1, PutSaid, Zenon
<1>3. CASE MayFollow(x.status, Target(news)) /\ x.status = Target(news)
  <2>1. u = v /\ y = x BY <1>1, <1>3, Zenon DEF FollowStore, TurnedTo
  <2> QED BY <1>3, <2>1, Zenon
<1>4. CASE MayFollow(x.status, Target(news)) /\ x.status # Target(news)
  <2>1. u = [v EXCEPT !.sales[s] = Turn(v.sales[s], Target(news))] /\ y = Turn(x, Target(news))
    BY <1>1, <1>4, Zenon DEF FollowStore, TurnedTo
  <2>2. u = [v EXCEPT !.sales[s] = y] BY <1>1, <2>1, Zenon
  <2> HIDE DEF u, y
  <2>3. PutAs(w, u, s, y) /\ u.said = "fine" BY <2>2, PutAgain DEF y
  <2> QED BY <1>4, <2>3, Zenon DEF u, y
<1> QED BY <1>2, <1>3, <1>4

LEMMA PaymentTaken ==
  ASSUME NEW w \in TradeShape, NEW s \in StoreSales, NEW x \in SaleShape, NEW v, PutAs(w, v, s, x),
         v.said = "fine", NEW news, PaidOf(x, news) \in SaleShape
  PROVE  LET u == TakePayment(v, s, news)
         IN IF IsPaidFor(news) /\ SaleTotal > x.sum
            THEN PutAs(w, u, s, x) /\ u.said = "refused"
            ELSE PutAs(w, u, s, PaidOf(x, news)) /\ u.said = "fine"
<1> DEFINE u == TakePayment(v, s, news)  y == PaidOf(x, news)
<1>1. v.sales[s] = x /\ v \in TradeShape BY PutHolds
<1>2. CASE IsPaidFor(news) /\ SaleTotal > x.sum
  <2>1. u = Refuse(v) BY <1>1, <1>2, Zenon DEF TakePayment
  <2> QED BY <1>2, <2>1, PutSaid, Zenon
<1>3. CASE IsPaidFor(news) /\ ~(SaleTotal > x.sum)
  <2>1. u = [v EXCEPT !.sales[s].paid = SaleTotal] /\ y = [x EXCEPT !.paid = SaleTotal]
    BY <1>1, <1>3, Zenon DEF TakePayment, PaidOf
  <2>2. [v EXCEPT !.sales[s].paid = SaleTotal] = [v EXCEPT !.sales[s] = [x EXCEPT !.paid = SaleTotal]]
    BY <1>1 DEF TradeShape
  <2>3. u = [v EXCEPT !.sales[s] = y] BY <2>1, <2>2, Zenon
  <2> HIDE DEF u, y
  <2>4. PutAs(w, u, s, y) /\ u.said = "fine" BY <2>3, PutAgain DEF y
  <2> QED BY <1>3, <2>4, Zenon DEF u, y
<1>4. CASE ~IsPaidFor(news)
  <2>1. u = [v EXCEPT !.sales[s].unpaid = TRUE] /\ y = [x EXCEPT !.unpaid = TRUE]
    BY <1>1, <1>4, Zenon DEF TakePayment, PaidOf
  <2>2. [v EXCEPT !.sales[s].unpaid = TRUE] = [v EXCEPT !.sales[s] = [x EXCEPT !.unpaid = TRUE]]
    BY <1>1 DEF TradeShape
  <2>3. u = [v EXCEPT !.sales[s] = y] BY <2>1, <2>2, Zenon
  <2> HIDE DEF u, y
  <2>4. PutAs(w, u, s, y) /\ u.said = "fine" BY <2>3, PutAgain DEF y
  <2> QED BY <1>4, <2>4, Zenon DEF u, y
<1> QED BY <1>2, <1>3, <1>4

LEMMA StockTakenAs ==
  ASSUME NEW w \in TradeShape, NEW s \in StoreSales, NEW x \in SaleShape, NEW v, PutAs(w, v, s, x),
         v.said = "fine", Stocked(x) \in SaleShape
  PROVE  LET u == TakeStock(v, s) IN PutAs(w, u, s, Stocked(x)) /\ u.said = "fine"
<1> DEFINE u == TakeStock(v, s)  y == Stocked(x)
<1>1. v.sales[s] = x /\ v \in TradeShape BY PutHolds
<1>2. CASE ~x.vendor \/ x.status = "refunded"
  <2>1. u = v /\ y = x BY <1>1, <1>2, Zenon DEF TakeStock, Stocked
  <2> QED BY <2>1, Zenon
<1>3. CASE ~(~x.vendor \/ x.status = "refunded")
  <2> DEFINE stock == IF x.status = "cancelled" THEN GiveBack(x.stock)
                      ELSE IF x.stock = "none" THEN "deducted" ELSE x.stock
  <2>1. v.sales[s].stock = x.stock BY <1>1, Zenon
  <2>2. u = [v EXCEPT !.sales[s].stock = stock]
    <3>1. u = [v EXCEPT !.sales[s].stock =
                 IF x.status = "cancelled" THEN GiveBack(v.sales[s].stock)
                 ELSE IF v.sales[s].stock = "none" THEN "deducted" ELSE v.sales[s].stock]
      BY <1>1, <1>3, Zenon DEF TakeStock
    <3> QED BY <2>1, <3>1, Zenon
  <2>3. y = [x EXCEPT !.stock = stock] BY <1>3, Zenon DEF Stocked
  <2> HIDE DEF u, y, stock
  <2>4. [v EXCEPT !.sales[s].stock = stock] = [v EXCEPT !.sales[s] = [x EXCEPT !.stock = stock]]
    BY <1>1 DEF TradeShape
  <2>5. u = [v EXCEPT !.sales[s] = y] BY <2>2, <2>3, <2>4, Zenon
  <2>6. PutAs(w, u, s, y) /\ u.said = "fine" BY <2>5, PutAgain DEF y
  <2> QED BY <2>6, Zenon DEF u, y
<1> QED BY <1>2, <1>3

\* What an import keeps of what fitted.
KeptOn(w, v) == TradeFits(v) /\ (Moved(w) => Moved(v)) /\ (Bare(v) => Bare(w))

\* People and strays are counted on, and the rest stays.
LEMMA OthersFit ==
  ASSUME NEW w, TradeFits(w), NEW v, v \in TradeShape, v.goods = w.goods, v.listed = w.listed,
         v.first = w.first, v.variation = w.variation, v.sales = w.sales,
         \/ "archived" \in meddled
         \/ v.strays = w.strays /\ \A b \in Patrons : v.people[b] = "archived" => w.people[b] = "archived"
  PROVE  KeptOn(w, v)
<1>1. (Moved(v) <=> Moved(w)) /\ (Bare(v) <=> Bare(w)) BY Zenon DEF Moved, Bare
<1>2. PlainFits(v)
  <2>1. PlainFits(w) BY DEF TradeFits
  <2> QED BY <2>1, Zenon DEF PlainFits
<1>3. SizedFits(v)
  <2>1. SizedFits(w) BY DEF TradeFits
  <2>2. \A r : IsSized(v, r) <=> IsSized(w, r) BY Zenon DEF IsSized
  <2> QED BY <1>1, <2>1, <2>2, Zenon DEF SizedFits
<1>4. SlugsDiffer(v) BY Zenon DEF TradeFits, SlugsDiffer
<1>5. NothingArchived(v) BY Zenon DEF TradeFits, NothingArchived
<1>6. SalesFit(v) BY <1>1, SalesStillFit, Zenon DEF TradeFits
<1> QED BY <1>1, <1>2, <1>3, <1>4, <1>5, <1>6, Zenon DEF TradeFits, KeptOn

LEMMA BuyerFound ==
  ASSUME NEW w, TradeFits(w), w.said = "fine", NEW s \in StoreSales
  PROVE  LET v == FindBuyer(w, s)
         IN KeptOn(w, v) /\ v.sales = w.sales /\ (v.said # "fine" => samePhone)
<1> DEFINE v == FindBuyer(w, s)  b == BuyerOf[s]
<1>1. w \in TradeShape BY DEF TradeFits
<1>2. b \in Patrons BY StoreOrdersAssumption DEF Patrons
<1>3. CASE v = w BY <1>3, Zenon DEF KeptOn
<1>4. CASE samePhone /\ v = Refuse(w)
  <2>1. SameTrade(w, v) BY <1>1, <1>4, SaidIsSame DEF Refuse
  <2> QED BY <1>4, <2>1, SameTradeFits, Zenon DEF KeptOn, SameTrade
<1>5. CASE v = [w EXCEPT !.people[b] = "active"]
  <2> HIDE DEF v
  <2>1. /\ v \in TradeShape /\ v.goods = w.goods /\ v.listed = w.listed /\ v.first = w.first
        /\ v.variation = w.variation /\ v.sales = w.sales /\ v.strays = w.strays /\ v.said = w.said
        /\ v.people = [w.people EXCEPT ![b] = "active"]
    BY <1>1, <1>2, <1>5 DEF TradeShape
  <2>2. \A c \in Patrons : v.people[c] = "archived" => w.people[c] = "archived"
    BY <1>1, <2>1 DEF TradeShape
  <2>3. KeptOn(w, v) BY <2>1, <2>2, OthersFit, Zenon
  <2> QED BY <2>1, <2>3, Zenon DEF v
<1>6. v = w \/ (samePhone /\ v = Refuse(w)) \/ v = [w EXCEPT !.people[b] = "active"]
  BY Zenon DEF FindBuyer
<1> QED BY <1>3, <1>4, <1>5, <1>6

\* The row a line is sold from.
LineStands(v, ware) == /\ v.line \in GoodsRows /\ v.goods[v.line].slug # ""
                       /\ (v.line = v.listed[ware] \/ (ware = "sized" /\ Moved(v)))

LEMMA PlainMatched ==
  ASSUME NEW w, TradeFits(w)
  PROVE  LET m == MatchLine(w, "plain")
         IN /\ m # 0 => m \in GoodsRows /\ w.goods[m].slug = "plain" /\ m = w.listed["plain"]
            /\ m = 0 /\ w.listed["plain"] # 0 => Bare(w)
<1> DEFINE m == MatchLine(w, "plain")  l == w.listed["plain"]
           bySku == {r \in GoodsRows : SoldSku("plain") # "" /\ w.goods[r].item = SoldSku("plain")}
<1>1. l # 0 => l \in GoodsRows /\ w.goods[l].slug = "plain" BY PlainFound DEF PlainRow
<1>2. \A r \in bySku : r = l BY PlainFound, SkusAre, Zenon
<1>3. m = IF l # 0 /\ w.goods[l].item # "" THEN l
          ELSE IF bySku # {} THEN CHOOSE r \in bySku : TRUE ELSE 0
  <2> DEFINE mapped == IF "plain" = "plain" THEN w.listed["plain"] ELSE w.variation
             first == CHOOSE r \in bySku : TRUE
  <2>1. mapped = l OBVIOUS
  <2>2. m = IF mapped # 0 /\ w.goods[mapped].item # "" THEN mapped
            ELSE IF bySku # {} THEN first ELSE 0
    BY DEF MatchLine
  <2> HIDE DEF mapped, m, bySku, l, first
  <2>3. m = IF l # 0 /\ w.goods[l].item # "" THEN l ELSE IF bySku # {} THEN first ELSE 0
    BY <2>1, <2>2
  <2> QED BY <2>3, Zenon DEF first
<1>4. bySku # {} => (CHOOSE r \in bySku : TRUE) \in bySku BY Zenon
<1>5. bySku \subseteq GoodsRows BY Zenon
<1> HIDE DEF bySku, m
<1>6. m # 0 => m = l BY <1>2, <1>3, <1>4, Zenon
<1>7. m = 0 /\ l # 0 => w.goods[l].item = "" BY <1>3, <1>1, <1>4, <1>5, RowNumbers, Zenon
<1>8. l # 0 /\ w.goods[l].item = "" => Bare(w)
  <2>1. l # 0 /\ w.goods[l].item = "" => l = 1 BY <1>1, Zenon DEF TradeFits, PlainFits
  <2> QED BY <1>1, <2>1, Zenon DEF Bare
<1> QED BY <1>1, <1>6, <1>7, <1>8, Zenon DEF m

LEMMA SizedMatched ==
  ASSUME NEW w, TradeFits(w), lineSku \in {"own", "product", "none"}
  PROVE  LET m == MatchLine(w, "sized")
         IN /\ m # 0 => m \in GoodsRows /\ IsSized(w, m) /\ (m = w.listed["sized"] \/ Moved(w))
            /\ m = 0 => /\ w.variation = 0 /\ ~Moved(w)
                        /\ lineSku # "none" =>
                              \A r \in GoodsRows : w.goods[r].item # SoldSku("sized")
<1> DEFINE m == MatchLine(w, "sized")  l == w.variation
           bySku == {r \in GoodsRows : SoldSku("sized") # "" /\ w.goods[r].item = SoldSku("sized")}
<1>1. l # 0 => l = w.listed["sized"] BY Zenon DEF TradeFits, SizedFits
<1>2. l # 0 => l \in GoodsRows /\ IsSized(w, l) /\ w.goods[l].item # ""
  <2>1. l # 0 => l \in GoodsRows /\ IsSized(w, l) /\ w.goods[l] \in SizedRow
    BY <1>1, SizedFound, Zenon
  <2> QED BY <2>1 DEF SizedRow
<1>3. \A r \in bySku : r \in GoodsRows /\ IsSized(w, r) /\ (r = w.listed["sized"] \/ Moved(w))
  <2>1. SoldSku("sized") # "" => SoldSku("sized") \in {"s", "v"} BY SkusAre
  <2> QED BY <2>1, SizedFound, Zenon
<1>4. m = IF l # 0 /\ w.goods[l].item # "" THEN l
          ELSE IF bySku # {} THEN CHOOSE r \in bySku : TRUE ELSE 0
  <2> DEFINE mapped == IF "sized" = "plain" THEN w.listed["sized"] ELSE w.variation
             first == CHOOSE r \in bySku : TRUE
  <2>1. mapped = l OBVIOUS
  <2>2. m = IF mapped # 0 /\ w.goods[mapped].item # "" THEN mapped
            ELSE IF bySku # {} THEN first ELSE 0
    BY DEF MatchLine
  <2> HIDE DEF mapped, m, bySku, l, first
  <2>3. m = IF l # 0 /\ w.goods[l].item # "" THEN l ELSE IF bySku # {} THEN first ELSE 0
    BY <2>1, <2>2
  <2> QED BY <2>3, Zenon DEF first
<1>5. bySku # {} => (CHOOSE r \in bySku : TRUE) \in bySku BY Zenon
<1>6. lineSku # "none" => SoldSku("sized") # "" BY SkusAre
<1>7. bySku = {} => (lineSku # "none" => \A r \in GoodsRows : w.goods[r].item # SoldSku("sized"))
  BY <1>6, Zenon
<1> HIDE DEF bySku, m
<1>8. m # 0 => m \in GoodsRows /\ IsSized(w, m) /\ (m = w.listed["sized"] \/ Moved(w))
  BY <1>1, <1>2, <1>3, <1>4, <1>5, Zenon
<1>9. m = 0 => l = 0 /\ bySku = {} BY <1>2, <1>3, <1>4, <1>5, RowNumbers, Zenon
<1>10. l = 0 => ~Moved(w) BY Zenon DEF TradeFits, SizedFits
<1> QED BY <1>7, <1>8, <1>9, <1>10, Zenon DEF m

LEMMA PlainLine ==
  ASSUME NEW w, TradeFits(w), w.said = "fine", NEW s \in StoreSales, WareOf[s] = "plain"
  PROVE  LET v == FindLine(w, s)
         IN /\ KeptOn(w, v) /\ v.sales = w.sales /\ (v.said = "fine" => LineStands(v, "plain"))
            /\ v.said # "fine" => Bare(w)
<1> DEFINE v == FindLine(w, s)  m == MatchLine(w, "plain")  l == w.listed["plain"]
           made == MakeGoods(w, "plain", "plain", "p")
<1>1. w \in TradeShape BY DEF TradeFits
<1>2. /\ m # 0 => m \in GoodsRows /\ w.goods[m].slug = "plain" /\ m = l
      /\ m = 0 /\ l # 0 => Bare(w)
  BY PlainMatched
<1>3. v = IF m # 0 THEN [w EXCEPT !.line = m] ELSE IF made.said # "fine" THEN made
          ELSE [made EXCEPT !.line = made.listed["plain"],
                            !.variation = IF "plain" = "sized" THEN made.listed["plain"] ELSE @]
  BY SkusAre, Zenon DEF FindLine
<1>4. CASE m # 0
  <2>1. v = [w EXCEPT !.line = m] BY <1>3, <1>4, Zenon
  <2>2. m \in MaybeRow BY <1>2, <1>4 DEF MaybeRow
  <2> HIDE DEF v, m
  <2>3. SameTrade(w, v) /\ v.said = w.said /\ v.line = m BY <1>1, <2>1, <2>2, LineIsSame
  <2>4. LineStands(v, "plain")
    <3>1. v.goods = w.goods /\ v.listed = w.listed BY <2>3, Zenon DEF SameTrade
    <3>2. "plain" # "" OBVIOUS
    <3> QED BY <1>2, <1>4, <2>3, <3>1, <3>2, Zenon DEF LineStands
  <2> QED BY <2>3, <2>4, SameTradeFits, Zenon DEF KeptOn, SameTrade, v
<1>5. CASE m = 0 /\ l # 0
  <2>1. SlugTaken(w, "plain")
    <3>1. w.goods[l] \in PlainRow /\ l \in GoodsRows BY <1>5, PlainFound, Zenon
    <3> QED BY <3>1 DEF SlugTaken, PlainRow
  <2>2. made = Refuse(w) BY <2>1, Zenon DEF MakeGoods
  <2>3. SameTrade(w, made) /\ made.said = "refused" BY <1>1, <2>2, SaidIsSame DEF Refuse
  <2> HIDE DEF made, v, m, l
  <2>4. v = made BY <1>3, <1>5, <2>3
  <2> QED BY <1>2, <1>5, <2>3, <2>4, SameTradeFits DEF KeptOn, SameTrade, v
<1>6. CASE m = 0 /\ l = 0
  <2>1. /\ WareKept(w, made) /\ made.listed["plain"] \in GoodsRows
        /\ made.goods[made.listed["plain"]].slug = "plain"
    BY <1>6, PlainMade, Zenon
  <2> DEFINE r == made.listed["plain"]
  <2>2. made \in TradeShape /\ made.said = "fine" /\ KeptOn(w, made) /\ made.sales = w.sales
        /\ TradeFits(made)
    BY <2>1, Zenon DEF WareKept, TradeFits, KeptOn
  <2> HIDE DEF made, v, m, l
  <2>3. v = [made EXCEPT !.line = r, !.variation = IF "plain" = "sized" THEN r ELSE made.variation]
    BY <1>3, <1>6, <2>2
  <2>4. v = [made EXCEPT !.line = r] BY <2>2, <2>3 DEF TradeShape
  <2>5. r \in MaybeRow /\ r \in GoodsRows BY <2>1 DEF MaybeRow
  <2>6. SameTrade(made, v) /\ v.said = "fine" /\ v.line = r BY <2>2, <2>4, <2>5, LineIsSame
  <2>7. LineStands(v, "plain")
    <3>1. v.goods = made.goods /\ v.listed = made.listed BY <2>6, Zenon DEF SameTrade
    <3>2. "plain" # "" OBVIOUS
    <3> QED BY <2>1, <2>5, <2>6, <3>1, <3>2, Zenon DEF LineStands
  <2>8. KeptOn(w, v) BY <2>2, <2>6, SameTradeFits, Zenon DEF KeptOn
  <2> QED BY <2>2, <2>6, <2>7, <2>8, Zenon DEF SameTrade, v
<1> QED BY <1>4, <1>5, <1>6

LEMMA SizedLine ==
  ASSUME NEW w, TradeFits(w), w.said = "fine", NEW s \in StoreSales, WareOf[s] = "sized",
         lineSku \in {"own", "product", "none"}
  PROVE  LET v == FindLine(w, s)
         IN KeptOn(w, v) /\ v.sales = w.sales /\ v.said = "fine" /\ LineStands(v, "sized")
<1> DEFINE v == FindLine(w, s)  m == MatchLine(w, "sized")
           sku == SoldSku("sized")
           made == MakeGoods(w, "sized", "sized, large", sku)
<1>1. w \in TradeShape BY DEF TradeFits
<1>2. /\ m # 0 => m \in GoodsRows /\ IsSized(w, m) /\ (m = w.listed["sized"] \/ Moved(w))
      /\ m = 0 => /\ w.variation = 0 /\ ~Moved(w)
                  /\ lineSku # "none" => \A r \in GoodsRows : w.goods[r].item # sku
  BY SizedMatched
<1>3. v = IF m # 0 THEN [w EXCEPT !.line = m] ELSE IF made.said # "fine" THEN made
          ELSE [made EXCEPT !.line = made.listed["sized"],
                            !.variation = IF "sized" = "sized" THEN made.listed["sized"] ELSE @]
  BY SkusAre, Zenon DEF FindLine
<1>4. CASE m # 0
  <2>1. v = [w EXCEPT !.line = m] BY <1>3, <1>4, Zenon
  <2>2. m \in MaybeRow BY <1>2, <1>4 DEF MaybeRow
  <2> HIDE DEF v, m
  <2>3. SameTrade(w, v) /\ v.said = w.said /\ v.line = m BY <1>1, <2>1, <2>2, LineIsSame
  <2>4. LineStands(v, "sized")
    <3>1. v.goods = w.goods /\ v.listed = w.listed /\ (Moved(v) <=> Moved(w))
      BY <2>3, SameTradeFits, Zenon DEF SameTrade
    <3>2. IsSized(w, m) => w.goods[m].slug # "" BY DEF IsSized
    <3> QED BY <1>2, <1>4, <2>3, <3>1, <3>2, Zenon DEF LineStands
  <2> QED BY <2>3, <2>4, SameTradeFits, Zenon DEF KeptOn, SameTrade, v
<1>5. CASE m = 0
  <2> DEFINE entry == [slug |-> "sized, large", sku |-> "", vendor |-> FALSE, live |-> TRUE,
                     item |-> IF sku = "" THEN "auto" ELSE sku]
  <2>1. w.variation = 0 /\ ~Moved(w) /\ (lineSku # "none" => \A r \in GoodsRows : w.goods[r].item # sku)
    BY <1>2, <1>5, Zenon
  <2>2. \A r \in GoodsRows : w.goods[r].slug # "sized, large"
    BY <2>1, Zenon DEF TradeFits, SizedFits
  <2>3. ~SlugTaken(w, "sized, large") BY <2>2, Zenon DEF SlugTaken
  <2>4. /\ sku \in {"", "s", "v"} /\ (sku = "" <=> lineSku = "none") /\ (sku = "s" <=> lineSku = "product")
    BY SkusAre
  <2>5. lineSku = "product" => w.listed["sized"] = 0 /\ \A r \in GoodsRows : ~IsSized(w, r)
    <3>1. ASSUME lineSku = "product", NEW r \in GoodsRows, IsSized(w, r) PROVE FALSE
      <4>1. w.goods[r].item = "s" BY <3>1, Zenon DEF TradeFits, SizedFits
      <4>2. lineSku # "none" /\ sku = "s" BY <2>4, <3>1
      <4> QED BY <2>1, <4>1, <4>2, Zenon
    <3> QED BY <3>1, SizedFound, Zenon
  <2>6. ~SkuTaken(w, sku)
    <3> SUFFICES ASSUME NEW r \in GoodsRows, sku # "", sku = w.goods[r].sku \/ sku = w.goods[r].item
                 PROVE  FALSE
      BY DEF SkuTaken
    <3>1. sku # w.goods[r].item BY <2>1, <2>4, Zenon
    <3>2. sku = w.goods[r].sku BY <3>1, Zenon
    <3>3. w.goods[r].sku \in {"", "p", "s"} BY <1>1, RowsAre
    <3>4. sku = "s" /\ w.goods[r].sku = "s" BY <2>4, <3>2, <3>3
    <3>5. IsSized(w, r) BY <3>4, SizedFound, Zenon
    <3> QED BY <2>4, <2>5, <3>4, <3>5, Zenon
  <2>7. entry \in SizedRow /\ entry.live /\ (lineSku = "product" => entry.item = "s") /\ entry.slug = "sized, large"
    BY <2>4 DEF SizedRow
  <2>8. entry = [slug |-> "sized, large", sku |-> "", vendor |-> FALSE, live |-> TRUE,
               item |-> IF sku = "" THEN "auto" ELSE sku]
    OBVIOUS
  <2> HIDE DEF entry, sku
  <2>9. PICK r \in GoodsRows : /\ w.goods[r] = NoGoods /\ RowsApart(w, r, entry)
                               /\ RowOfWare(w, made, "sized", r, entry)
    BY <2>3, <2>6, <2>7, <2>8, GoodsMade DEF Wares
  <2> HIDE DEF made, v, m
  <2>10. /\ OnlyRows(w, made) /\ WrittenAs(w, made, r, entry) /\ made.listed = [w.listed EXCEPT !["sized"] = r]
         /\ made.first = [w.first EXCEPT !["sized"] = FirstOf(w, "sized", r)]
         /\ made.variation = w.variation /\ made.line = w.line /\ made.said = w.said
    BY <2>9, Zenon DEF RowOfWare
  <2>11. made.listed["sized"] = r BY <1>1, <2>10 DEF TradeShape, Wares
  <2>12. v = [made EXCEPT !.line = r, !.variation = r] BY <1>3, <1>5, <2>10, <2>11
  <2>13. /\ v \in TradeShape /\ v.goods = made.goods /\ v.listed = made.listed /\ v.first = made.first
         /\ v.variation = r /\ v.people = made.people /\ v.sales = made.sales
         /\ v.strays = made.strays /\ v.said = made.said /\ v.line = r
    BY <2>10, <2>12 DEF OnlyRows, TradeShape, MaybeRow
  <2>14. OnlyRows(w, v) /\ WrittenAs(w, v, r, entry) BY <2>10, <2>13, Zenon DEF OnlyRows, WrittenAs
  <2>15. MadeForLine(w, v, r) BY <2>1, <2>5, <2>9, <2>13, Zenon DEF MadeForLine
  <2>16. /\ v.listed = [w.listed EXCEPT !["sized"] = r]
         /\ v.first = [w.first EXCEPT !["sized"] = FirstOf(w, "sized", r)]
    BY <2>10, <2>13, Zenon
  <2>17. TradeFits(v) /\ (Moved(w) => Moved(v)) /\ (Bare(v) => Bare(w))
    BY <2>7, <2>9, <2>14, <2>15, <2>16, SizedWritten, Zenon
  <2>18. LineStands(v, "sized")
    <3>1. v.goods[r] = entry BY <2>14, Zenon DEF WrittenAs
    <3>2. v.goods[r].slug # "" BY <2>7, <3>1
    <3> QED BY <2>11, <2>13, <3>2, Zenon DEF LineStands
  <2>19. v.sales = w.sales /\ v.said = "fine" BY <2>10, <2>13, Zenon DEF OnlyRows
  <2> QED BY <2>17, <2>18, <2>19, Zenon DEF KeptOn, v
<1> QED BY <1>4, <1>5

\* The order that is entered: credited as its line's row says.
LEMMA SaleMade ==
  ASSUME NEW w, TradeFits(w), w.said = "fine", NEW s \in StoreSales, LineStands(w, WareOf[s]),
         reading \in {-1, 0, 1}
  PROVE  LET v == MakeSale(w, s)
         IN \/ v.said # "fine" /\ "archived" \in meddled /\ KeptOn(w, v)
            \/ /\ v.said = "fine"
               /\ \E vendor \in BOOLEAN, due \in BOOLEAN :
                    /\ PutAs(w, v, s, NewSale(vendor, due))
                    /\ vendor # due => WareOf[s] = "sized" /\ Moved(w)
<1> DEFINE v == MakeSale(w, s)  entry == w.goods[w.line]
           due == \E r \in GoodsRows : w.first[WareOf[s]] = r /\ w.goods[r].vendor
<1>1. w \in TradeShape BY DEF TradeFits
<1>2. w.line \in GoodsRows /\ entry.slug # "" BY Zenon DEF LineStands
<1>3. CASE w.people[BuyerOf[s]] = "archived"
  <2>1. v = Refuse(w) BY <1>3, Zenon DEF MakeSale
  <2>2. SameTrade(w, v) /\ v.said = "refused" BY <1>1, <2>1, SaidIsSame DEF Refuse
  <2>3. BuyerOf[s] \in Patrons BY StoreOrdersAssumption DEF Patrons
  <2>4. "archived" \in meddled BY <1>3, <2>3, Zenon DEF TradeFits, NothingArchived
  <2> HIDE DEF v
  <2>5. v.said # "fine" BY <2>2
  <2> QED BY <2>2, <2>4, <2>5, SameTradeFits, Zenon DEF KeptOn, v
<1>4. CASE w.people[BuyerOf[s]] # "archived" /\ ~entry.live
  <2>1. v = Refuse([w EXCEPT !.strays = w.strays + 1]) BY <1>4, Zenon DEF MakeSale
  <2>2. "archived" \in meddled BY <1>2, <1>4, Zenon DEF TradeFits, NothingArchived
  <2> HIDE DEF v
  <2>3. w.strays + 1 \in Nat BY <1>1 DEF TradeShape
  <2> DEFINE n == w.strays + 1
  <2> HIDE DEF n
  <2>4. /\ v \in TradeShape /\ v.goods = w.goods /\ v.listed = w.listed /\ v.first = w.first
        /\ v.variation = w.variation /\ v.sales = w.sales /\ v.said = "refused"
    <3>1. v = Refuse([w EXCEPT !.strays = n]) /\ n \in Nat BY <2>1, <2>3, Zenon DEF n
    <3> QED BY <1>1, <3>1 DEF TradeShape, Refuse
  <2>5. KeptOn(w, v) BY <2>2, <2>4, OthersFit, Zenon
  <2>6. v.said # "fine" BY <2>4
  <2> QED BY <2>2, <2>5, <2>6, Zenon DEF v
<1>5. CASE w.people[BuyerOf[s]] # "archived" /\ entry.live
  <2>1. v = [w EXCEPT !.sales[s] = NewSale(entry.vendor, due)] BY <1>5, Zenon DEF MakeSale, NewSale
  <2>2. entry.vendor \in BOOLEAN
    <3>1. entry \in PlainRow \cup SizedRow \cup {NoGoods} BY <1>1, <1>2 DEF TradeShape
    <3>2. NoGoods.vendor = FALSE BY DEF NoGoods
    <3>3. \A x \in PlainRow \cup SizedRow : x.vendor \in BOOLEAN BY DEF PlainRow, SizedRow
    <3> QED BY <3>1, <3>2, <3>3, Zenon
  <2>3. due \in BOOLEAN BY Zenon
  <2>4. ASSUME ~(WareOf[s] = "sized" /\ Moved(w)) PROVE entry.vendor = due
    <3>1. WareOf[s] \in Wares /\ (WareOf[s] = "plain" \/ WareOf[s] = "sized")
      BY StoreOrdersAssumption DEF Wares
    <3>2. w.line = w.listed[WareOf[s]] BY <2>4, Zenon DEF LineStands
    <3>3. w.first[WareOf[s]] = w.listed[WareOf[s]]
      BY <2>4, <3>1, Zenon DEF Moved, TradeFits, PlainFits
    <3>4. entry.vendor <=> due BY <1>2, <3>2, <3>3, Zenon
    <3> QED BY <2>2, <3>4, Zenon
  <2> HIDE DEF v, due
  <2> DEFINE x == NewSale(entry.vendor, due)
  <2>6. PutAs(w, v, s, x) /\ v.said = "fine"
    <3>1. x \in SaleShape
      <4>1. "pending" \in SaleStatuses BY DEF SaleStatuses
      <4> QED BY <2>2, <2>3, <4>1, NewSaleTurned, Zenon
    <3>2. v = [w EXCEPT !.sales[s] = x] BY <2>1, Zenon
    <3> HIDE DEF x
    <3> QED BY <1>1, <3>1, <3>2 DEF PutAs, TradeShape
  <2> QED BY <2>2, <2>3, <2>4, <2>6, Zenon DEF v, due
<1> QED BY <1>3, <1>4, <1>5

SaleImport(w, v, s, news) ==
  /\ KeptOn(w, v)
  /\ v.said # "fine" /\ news = saleStates[s] => samePhone \/ meddled # {} \/ reading < 0 \/ Bare(w)

LEMMA KeptOnAndOn ==
  ASSUME NEW u, NEW v, NEW w, KeptOn(u, v), KeptOn(v, w)
  PROVE  KeptOn(u, w)
BY Zenon DEF KeptOn

LEMMA KeptSame ==
  ASSUME NEW w, TradeFits(w)
  PROVE  KeptOn(w, w)
BY Zenon DEF KeptOn

\* A new order follows the store, is paid for, and its stock is taken.
LEMMA NewSaleFollows ==
  ASSUME NEW w, TradeFits(w), NEW s \in StoreSales, NEW vendor \in BOOLEAN, NEW due \in BOOLEAN,
         NEW v, PutAs(w, v, s, NewSale(vendor, due)), v.said = "fine",
         vendor # due => WareOf[s] = "sized" /\ Moved(w),
         reading \in {-1, 0, 1}, saleStates[s] \in StoreStatuses \ {"unplaced"},
         NEW news \in ToldStatuses(saleStates[s])
  PROVE  LET c == FollowStore(v, s, news)
             d == IF c.said = "fine" THEN TakePayment(c, s, news) ELSE c
             e == IF d.said = "fine" THEN TakeStock(d, s) ELSE d
         IN KeptOn(w, e) /\ (e.said # "fine" => reading < 0)
<1> DEFINE c == FollowStore(v, s, news)
           d == IF c.said = "fine" THEN TakePayment(c, s, news) ELSE c
           e == IF d.said = "fine" THEN TakeStock(d, s) ELSE d
           to == Target(news)
           x1 == NewSale(vendor, due)
           x2 == TurnedTo(x1, to)
           x3 == PaidOf(x2, news)
           x4 == Stocked(x3)
<1>1. news \in StoreStatuses \ {"unplaced"} /\ to \in SeenAs(saleStates[s]) BY ToldIsSeen
<1>2. to \in SaleStatuses /\ to # "none" BY <1>1 DEF SeenAs, SaleStatuses
<1>3. MayFollow("pending", to) BY <1>1, FollowsWhenNew
<1>4. w \in TradeShape BY DEF TradeFits
<1> HIDE DEF to
<1>5. /\ x2 \in SaleShape /\ x2.status = to /\ x2.vendor = vendor /\ x2.due = due /\ x2.paid = 0
      /\ x2.sum = SaleTotal + reading /\ x2.stock = "none" /\ ~x2.unpaid
      /\ x1 \in SaleShape /\ x1.status = "pending"
  <2>1. LET x == TurnedTo(NewSale(vendor, due), to)
        IN /\ x \in SaleShape /\ x.status = to /\ x.vendor = vendor /\ x.due = due /\ x.paid = 0
           /\ x.sum = SaleTotal + reading /\ x.stock = "none" /\ ~x.unpaid
           /\ NewSale(vendor, due) \in SaleShape /\ NewSale(vendor, due).status = "pending"
           /\ NewSale(vendor, due).sum = SaleTotal + reading
    BY <1>2, NewSaleTurned
  <2> QED BY <2>1, Zenon
<1> HIDE DEF x1
<1>6. PutAs(w, c, s, x2) /\ c.said = "fine"
  <2>1. MayFollow(x1.status, Target(news)) /\ TurnedTo(x1, Target(news)) \in SaleShape
    BY <1>3, <1>5, Zenon DEF to
  <2>2. PutAs(w, v, s, x1) BY DEF x1
  <2> QED BY <1>4, <1>5, <2>1, <2>2, Followed, Zenon DEF to
<1> HIDE DEF c, x2
<1>7. d = TakePayment(c, s, news) BY <1>6, Zenon
<1>8. ASSUME NEW x \in SaleShape, x.status = to, x.vendor = vendor, x.due = due, NEW u, PutAs(w, u, s, x),
             PaidAsDue(x), StockedAsSold(x)
      PROVE  KeptOn(w, u)
  <2>1. SaleFits(x, saleStates[s]) BY <1>1, <1>2, <1>8, Zenon DEF SaleFits
  <2>2. TradeFits(u) /\ (Moved(u) <=> Moved(w)) /\ (Bare(u) <=> Bare(w))
    BY <1>8, <2>1, SalePutFits, Zenon
  <2> QED BY <2>2, Zenon DEF KeptOn
<1>9. CASE IsPaidFor(news) /\ SaleTotal > x2.sum
  <2>1. SaleTotal \in Nat BY StoreOrdersAssumption
  <2>2. reading < 0 BY <1>5, <1>9, <2>1
  <2>3. PaidAsDue(x2) /\ StockedAsSold(x2) BY <1>5, <2>2, ShortSaleFits, Zenon
  <2>4. PaidOf(x2, news) \in SaleShape BY <1>5, <1>9, <2>1 DEF PaidOf, SaleShape
  <2>5. PutAs(w, d, s, x2) /\ d.said = "refused"
    BY <1>4, <1>5, <1>6, <1>7, <1>9, <2>4, PaymentTaken, Zenon
  <2>6. e = d BY <2>5
  <2>7. KeptOn(w, d) BY <1>5, <1>8, <2>3, <2>5, Zenon
  <2> QED BY <2>2, <2>6, <2>7, Zenon DEF c
<1>10. CASE ~(IsPaidFor(news) /\ SaleTotal > x2.sum)
  <2>1. /\ x3 \in SaleShape /\ x3.status = x2.status /\ x3.vendor = x2.vendor /\ x3.due = x2.due
        /\ PaidAsDue(x3) /\ x3.stock = x2.stock
    BY <1>5, <1>10, NewSalePaid, Zenon
  <2>2. PutAs(w, d, s, x3) /\ d.said = "fine"
    BY <1>4, <1>5, <1>6, <1>7, <1>10, <2>1, PaymentTaken, Zenon
  <2> HIDE DEF x3, d
  <2>3. /\ x4 \in SaleShape /\ x4.status = x3.status /\ PaidAsDue(x4) /\ StockedAsSold(x4)
        /\ x4.vendor = x3.vendor /\ x4.due = x3.due
    BY <1>5, <2>1, StockTaken, Zenon
  <2>4. e = TakeStock(d, s) BY <2>2, Zenon
  <2>5. PutAs(w, e, s, x4) /\ e.said = "fine" BY <1>4, <2>1, <2>2, <2>3, <2>4, StockTakenAs, Zenon
  <2> HIDE DEF x4, e
  <2>6. KeptOn(w, e) BY <1>5, <1>8, <2>1, <2>3, <2>5, Zenon
  <2> QED BY <2>5, <2>6, Zenon DEF e, d, c
<1> QED BY <1>9, <1>10

\* An order that is known follows the store, and its stock follows it.
LEMMA KnownSaleFollows ==
  ASSUME NEW w, TradeFits(w), w.said = "fine", NEW s \in StoreSales, w.sales[s].status # "none",
         saleStates[s] \in StoreStatuses \ {"unplaced"}, NEW news \in ToldStatuses(saleStates[s])
  PROVE  LET c == FollowStore(w, s, news)
             d == IF c.said = "fine" THEN TakeStock(c, s) ELSE c
         IN KeptOn(w, d) /\ (d.said # "fine" /\ news = saleStates[s] => meddled # {})
<1> DEFINE c == FollowStore(w, s, news)
           d == IF c.said = "fine" THEN TakeStock(c, s) ELSE c
           to == Target(news)
           x == w.sales[s]
           y == TurnedTo(x, to)
           z == Stocked(y)
<1>1. w \in TradeShape BY DEF TradeFits
<1>2. x \in SaleShape BY <1>1 DEF TradeShape
<1>3. /\ PaidAsDue(x) /\ StockedAsSold(x) /\ (meddled = {} => x.status \in SeenAs(saleStates[s]))
      /\ x.vendor # x.due => WareOf[s] = "sized" /\ Moved(w)
  BY Zenon DEF TradeFits, SalesFit, SaleFits, CreditFits
<1>4. to \in SeenAs(saleStates[s]) /\ to \in SaleStatuses /\ to # "none"
  <2>1. to \in SeenAs(saleStates[s]) BY ToldIsSeen
  <2> QED BY <2>1 DEF SeenAs, SaleStatuses
<1>5. PutAs(w, w, s, x)
  <2>1. w.sales = [w.sales EXCEPT ![s] = x] BY <1>1 DEF TradeShape
  <2> QED BY <1>1, <2>1, Zenon DEF PutAs
<1>6. CASE ~MayFollow(x.status, to)
  <2>1. c = Refuse(w) BY <1>6, Zenon DEF FollowStore
  <2>2. SameTrade(w, c) /\ c.said = "refused" BY <1>1, <2>1, SaidIsSame DEF Refuse
  <2> HIDE DEF c
  <2>3. d = c BY <2>2
  <2>4. KeptOn(w, c) BY <2>2, SameTradeFits, Zenon DEF KeptOn
  <2>5. news = saleStates[s] => meddled # {} BY <1>3, <1>6, FollowsWhenUnmoved
  <2> QED BY <2>3, <2>4, <2>5, Zenon DEF c
<1>7. CASE MayFollow(x.status, to)
  <2>1. /\ y \in SaleShape /\ y.status = to /\ PaidAsDue(y) /\ StockedAsSold(y)
        /\ y.vendor = x.vendor /\ y.due = x.due
    <3>1. CASE x.status = to
      <4>1. y = x BY <3>1, Zenon DEF TurnedTo
      <4> QED BY <1>2, <1>3, <3>1, <4>1, Zenon
    <3>2. CASE x.status # to
      <4>1. y = Turn(x, to) BY <3>2, Zenon DEF TurnedTo
      <4>2. LET u == Turn(x, to)
            IN /\ u \in SaleShape /\ u.status = to /\ PaidAsDue(u) /\ StockedAsSold(u)
               /\ u.vendor = x.vendor /\ u.due = x.due
        <5>1. x.status \in SaleStatuses BY <1>2 DEF SaleShape
        <5>2. x.status \notin {"cancelled", "refunded"} BY <1>7, <3>2, <5>1, EndsAreEnds
        <5> QED BY <1>2, <1>3, <1>4, <5>2, TurnKeeps, Zenon
      <4> HIDE DEF y
      <4> QED BY <4>1, <4>2, Zenon
    <3> QED BY <3>1, <3>2
  <2> HIDE DEF x
  <2>2. PutAs(w, c, s, y) /\ c.said = "fine"
    <3>1. MayFollow(x.status, Target(news)) /\ TurnedTo(x, Target(news)) \in SaleShape
      BY <1>7, <2>1, Zenon
    <3>2. LET u == FollowStore(w, s, news)
          IN IF MayFollow(x.status, Target(news))
             THEN PutAs(w, u, s, TurnedTo(x, Target(news))) /\ u.said = "fine"
             ELSE PutAs(w, u, s, x) /\ u.said = "refused"
      BY <1>1, <1>2, <1>5, <3>1, Followed
    <3> QED BY <3>1, <3>2, Zenon
  <2> HIDE DEF c, y, to
  <2>3. /\ z \in SaleShape /\ z.status = y.status /\ PaidAsDue(z) /\ StockedAsSold(z)
        /\ z.vendor = y.vendor /\ z.due = y.due
    BY <2>1, StockTaken, Zenon
  <2>4. d = TakeStock(c, s) BY <2>2, Zenon
  <2>5. PutAs(w, d, s, z) /\ d.said = "fine" BY <1>1, <2>1, <2>2, <2>3, <2>4, StockTakenAs, Zenon
  <2> HIDE DEF z, d
  <2>6. SaleFits(z, saleStates[s]) BY <1>4, <2>1, <2>3, Zenon DEF SaleFits
  <2>7. TradeFits(d) /\ (Moved(d) <=> Moved(w)) /\ (Bare(d) <=> Bare(w))
    BY <1>3, <2>1, <2>3, <2>5, <2>6, SalePutFits, Zenon
  <2> QED BY <2>5, <2>7, Zenon DEF KeptOn, d, c
<1> QED BY <1>6, <1>7

(* An order's import, whatever the store told: a run's is refused only where the users, the *)
(* cents or the rows stand in its way. *)
LEMMA SaleImported ==
  ASSUME NEW w, TradeFits(w), w.said = "fine", NEW s \in StoreSales,
         reading \in {-1, 0, 1}, lineSku \in {"own", "product", "none"},
         saleStates[s] \in StoreStatuses \ {"unplaced"}, NEW news \in ToldStatuses(saleStates[s])
  PROVE  SaleImport(w, ImportSale(w, s, news), s, news)
<1> DEFINE a == FindBuyer(w, s)
           b == IF a.said = "fine" THEN FindLine(a, s) ELSE a
           c == IF b.said = "fine" THEN MakeSale(b, s) ELSE b
           d == IF c.said = "fine" THEN FollowStore(c, s, news) ELSE c
           e == IF d.said = "fine" THEN TakePayment(d, s, news) ELSE d
           f == IF e.said = "fine" THEN TakeStock(e, s) ELSE e
<1>1. CASE w.sales[s].status # "none"
  <2> DEFINE g == FollowStore(w, s, news)
             h == IF g.said = "fine" THEN TakeStock(g, s) ELSE g
  <2>1. ImportSale(w, s, news) = h BY <1>1 DEF ImportSale, Then
  <2>2. KeptOn(w, h) /\ (h.said # "fine" /\ news = saleStates[s] => meddled # {})
    BY <1>1, KnownSaleFollows
  <2> HIDE DEF h
  <2> QED BY <2>1, <2>2, Zenon DEF SaleImport
<1>2. CASE w.sales[s].status = "none"
  <2>1. ImportSale(w, s, news) = f BY <1>2 DEF ImportSale, Then
  <2>2. KeptOn(w, a) /\ a.sales = w.sales /\ (a.said # "fine" => samePhone) BY BuyerFound
  <2> HIDE DEF a
  <2>3. CASE a.said # "fine"
    <3>1. f = a BY <2>3, Zenon
    <3> HIDE DEF f
    <3> QED BY <2>1, <2>2, <2>3, <3>1, Zenon DEF SaleImport
  <2>4. CASE a.said = "fine"
    <3>1. b = FindLine(a, s) /\ TradeFits(a) BY <2>2, <2>4, Zenon DEF KeptOn
    <3>2. /\ KeptOn(a, b) /\ b.sales = a.sales /\ (b.said = "fine" => LineStands(b, WareOf[s]))
          /\ b.said # "fine" => Bare(a)
      <4>1. WareOf[s] = "plain" \/ WareOf[s] = "sized" BY StoreOrdersAssumption
      <4> HIDE DEF b
      <4>2. CASE WareOf[s] = "plain" BY <2>4, <3>1, <4>2, PlainLine, Zenon
      <4>3. CASE WareOf[s] = "sized" BY <2>4, <3>1, <4>3, SizedLine, Zenon
      <4> QED BY <4>1, <4>2, <4>3
    <3> HIDE DEF b
    <3>3. KeptOn(w, b) BY <2>2, <3>2, KeptOnAndOn, Zenon
    <3>4. CASE b.said # "fine"
      <4>1. f = b BY <3>4, Zenon
      <4>2. Bare(w) BY <2>2, <3>2, <3>4, Zenon DEF KeptOn
      <4> HIDE DEF f
      <4> QED BY <2>1, <3>3, <4>1, <4>2, Zenon DEF SaleImport
    <3>5. CASE b.said = "fine"
      <4>1. c = MakeSale(b, s) /\ TradeFits(b) /\ LineStands(b, WareOf[s])
        BY <3>2, <3>5, Zenon DEF KeptOn
      <4>2. \/ c.said # "fine" /\ "archived" \in meddled /\ KeptOn(b, c)
            \/ /\ c.said = "fine"
               /\ \E vendor \in BOOLEAN, due \in BOOLEAN :
                    /\ PutAs(b, c, s, NewSale(vendor, due))
                    /\ vendor # due => WareOf[s] = "sized" /\ Moved(b)
        BY <3>5, <4>1, SaleMade, Zenon
      <4> HIDE DEF c
      <4>3. CASE c.said # "fine" /\ "archived" \in meddled /\ KeptOn(b, c)
        <5>1. f = c BY <4>3, Zenon
        <5>2. KeptOn(w, c) /\ meddled # {} BY <3>3, <4>3, KeptOnAndOn, Zenon
        <5> HIDE DEF f
        <5> QED BY <2>1, <5>1, <5>2, Zenon DEF SaleImport
      <4>4. CASE /\ c.said = "fine"
                 /\ \E vendor \in BOOLEAN, due \in BOOLEAN :
                      /\ PutAs(b, c, s, NewSale(vendor, due))
                      /\ vendor # due => WareOf[s] = "sized" /\ Moved(b)
        <5>1. PICK vendor \in BOOLEAN, due \in BOOLEAN :
                /\ PutAs(b, c, s, NewSale(vendor, due))
                /\ vendor # due => WareOf[s] = "sized" /\ Moved(b)
          BY <4>4, Zenon
        <5>2. LET k == FollowStore(c, s, news)
                  l == IF k.said = "fine" THEN TakePayment(k, s, news) ELSE k
                  m == IF l.said = "fine" THEN TakeStock(l, s) ELSE l
              IN KeptOn(b, m) /\ (m.said # "fine" => reading < 0)
          BY <4>1, <4>4, <5>1, NewSaleFollows
        <5>3. d = FollowStore(c, s, news) BY <4>4, Zenon
        <5>4. KeptOn(b, f) /\ (f.said # "fine" => reading < 0) BY <5>2, <5>3
        <5> HIDE DEF f
        <5>5. KeptOn(w, f) BY <3>3, <5>4, KeptOnAndOn, Zenon
        <5> QED BY <2>1, <5>4, <5>5, Zenon DEF SaleImport
      <4> QED BY <4>2, <4>3, <4>4
    <3> QED BY <3>4, <3>5
  <2> QED BY <2>3, <2>4
<1> QED BY <1>1, <1>2

--------------------
\* StoreOrders: what a step leaves, said of the next state.
LEMMA PartsNext ==
  ASSUME NEW v, v = trade', lineSku' = lineSku
  PROVE  /\ (trade \in TradeShape)' <=> v \in TradeShape
         /\ PlainFits(trade)' <=> PlainFits(v)
         /\ SizedFits(trade)' <=> SizedFits(v)
         /\ SlugsDiffer(trade)' <=> SlugsDiffer(v)
         /\ Moved(trade)' <=> Moved(v)
         /\ Bare(trade)' <=> Bare(v)
<1>1. (trade \in TradeShape)' <=> v \in TradeShape
  BY DEF TradeShape, MaybeRow, Wares, Patrons, StoreSales, PlainRow, SizedRow, SaleShape, SaleStatuses, NoGoods
<1>2. PlainFits(trade)' <=> PlainFits(v) BY DEF PlainFits
<1>3. SizedFits(trade)' <=> SizedFits(v) BY DEF SizedFits, IsSized, Moved
<1>4. SlugsDiffer(trade)' <=> SlugsDiffer(v) BY DEF SlugsDiffer
<1>5. (Moved(trade)' <=> Moved(v)) /\ (Bare(trade)' <=> Bare(v)) BY DEF Moved, Bare
<1> QED BY <1>1, <1>2, <1>3, <1>4, <1>5, Zenon

LEMMA SalesNext ==
  ASSUME NEW v, v = trade', lineSku' = lineSku, reading' = reading,
         \A s \in StoreSales :
            /\ IF v.sales[s].status = "none" THEN v.sales[s] = NoSale
               ELSE /\ PaidAsDue(v.sales[s]) /\ StockedAsSold(v.sales[s])
                    /\ meddled' = {} => v.sales[s].status \in SeenAs(saleStates'[s])
            /\ CreditFits(v, s)
  PROVE  SalesFit(trade)'
<1> SUFFICES ASSUME NEW s \in StoreSales
             PROVE  (SaleFits(trade.sales[s], saleStates[s]) /\ CreditFits(trade, s))'
  BY DEF SalesFit, StoreSales
<1>1. CreditFits(trade, s)' <=> CreditFits(v, s) BY DEF CreditFits, Moved
<1>2. \A x : PaidAsDue(x)' <=> PaidAsDue(x) BY DEF PaidAsDue
<1>3. \A x : StockedAsSold(x)' <=> StockedAsSold(x) BY DEF StockedAsSold
<1>4. SaleFits(trade.sales[s], saleStates[s])'
  <2>1. CASE v.sales[s].status = "none" BY <2>1 DEF SaleFits, NoSale
  <2>2. CASE v.sales[s].status # "none" BY <2>2 DEF SaleFits, PaidAsDue, StockedAsSold, SeenAs
  <2> QED BY <2>1, <2>2
<1> QED BY <1>1, <1>4

LEMMA TradeNext ==
  ASSUME NEW v, TradeFits(v), v = trade',
         UNCHANGED <<saleStates, lineSku, reading, meddled>>
  PROVE  TradeFits(trade)'
<1>1. /\ (trade \in TradeShape)' /\ PlainFits(trade)' /\ SizedFits(trade)' /\ SlugsDiffer(trade)'
  BY PartsNext DEF TradeFits
<1>2. NothingArchived(trade)' BY DEF TradeFits, NothingArchived, Patrons, StoreSales
<1>3. SalesFit(trade)'
  <2>1. \A s \in StoreSales :
            /\ IF v.sales[s].status = "none" THEN v.sales[s] = NoSale
               ELSE /\ PaidAsDue(v.sales[s]) /\ StockedAsSold(v.sales[s])
                    /\ meddled' = {} => v.sales[s].status \in SeenAs(saleStates'[s])
            /\ CreditFits(v, s)
    BY Zenon DEF TradeFits, SalesFit, SaleFits
  <2> QED BY <2>1, SalesNext
<1> QED BY <1>1, <1>2, <1>3 DEF TradeFits

--------------------
\* StoreOrders: the invariant, from the start and step by step.
LEMMA NoSaleFits ==
  NoSale \in SaleShape /\ NoSale.status = "none" /\ NoSale.vendor = NoSale.due
<1>1. ASSUME NEW no \in BOOLEAN, NEW sum \in Int, NEW paid \in Nat, NEW status \in SaleStatuses,
             NEW stock \in {"none", "deducted", "restored"}
      PROVE  [status |-> status, sum |-> sum, paid |-> paid, vendor |-> no, stock |-> stock,
              due |-> no, unpaid |-> no] \in SaleShape
  BY DEF SaleShape
<1>2. 0 \in Int /\ 0 \in Nat OBVIOUS
<1>3. "none" \in SaleStatuses /\ "none" \in {"none", "deducted", "restored"}
  BY Zenon DEF SaleStatuses
<1>4. NoSale \in SaleShape BY <1>1, <1>2, <1>3, Zenon DEF NoSale
<1>5. NoSale.status = "none" /\ NoSale.vendor = NoSale.due BY DEF NoSale
<1> QED BY <1>4, <1>5

LEMMA StoreOrdersStart ==
  StoreOrderInit => StoreOrdersInv
<1> SUFFICES ASSUME StoreOrderInit PROVE StoreOrdersInv OBVIOUS
<1>1. PICK entry \in {NoGoods, Own(""), Own("x")} :
        LET listed == [w \in Wares |-> IF w = "plain" /\ entry # NoGoods THEN 1 ELSE 0]
        IN /\ trade = [goods |-> [r \in GoodsRows |-> IF r = 1 THEN entry ELSE NoGoods],
                       listed |-> listed, first |-> listed, variation |-> 0,
                       people |-> [b \in Patrons |-> "none"],
                       sales |-> [s \in StoreSales |-> NoSale],
                       strays |-> 0, line |-> 0, said |-> "fine"]
           /\ unread = {w \in Wares : listed[w] = 0}
  BY Zenon DEF StoreOrderInit
<1>2. /\ saleStates = [s \in StoreSales |-> "unplaced"] /\ lineSku \in {"own", "product", "none"}
      /\ reading \in {-1, 0, 1} /\ refusedAt = "nowhere" /\ meddled = {}
  BY DEF StoreOrderInit
<1> DEFINE l == IF entry # NoGoods THEN 1 ELSE 0
<1>3. /\ trade.goods = [r \in GoodsRows |-> IF r = 1 THEN entry ELSE NoGoods]
      /\ trade.listed["plain"] = l /\ trade.listed["sized"] = 0 /\ trade.first = trade.listed
      /\ trade.listed \in [Wares -> {0, 1}]
      /\ trade.variation = 0 /\ trade.people = [b \in Patrons |-> "none"]
      /\ trade.sales = [s \in StoreSales |-> NoSale]
      /\ trade.strays = 0 /\ trade.line = 0 /\ trade.said = "fine"
  BY <1>1 DEF Wares
<1>4. entry = NoGoods \/ (entry \in PlainRow /\ entry.slug = "plain" /\ entry.live)
  <2>1. ASSUME NEW item \in {"", "x"}
        PROVE  Own(item) \in PlainRow /\ Own(item).slug = "plain" /\ Own(item).live
    <3>1. ASSUME NEW yes \in BOOLEAN
          PROVE  LET row2 == [slug |-> "plain", sku |-> "p", item |-> item, vendor |-> yes, live |-> yes]
                 IN row2 \in PlainRow /\ row2.slug = "plain" /\ row2.live = yes
      BY DEF PlainRow
    <3> QED BY <3>1, SkusAre, Zenon DEF Own
  <2> QED BY <2>1, Zenon
<1>5. NoGoods.slug = "" BY DEF NoGoods
<1>6. /\ \A r \in GoodsRows : r # 1 => trade.goods[r] = NoGoods
      /\ trade.goods[1] = entry
  BY <1>3, RowNumbers
<1>7. trade \in TradeShape
  <2>1. trade.goods \in [GoodsRows -> PlainRow \cup SizedRow \cup {NoGoods}]
    <3>1. entry \in PlainRow \cup SizedRow \cup {NoGoods} BY <1>4, Zenon
    <3>2. trade.goods = [r \in GoodsRows |-> IF r = 1 THEN entry ELSE NoGoods] BY <1>3
    <3> QED BY <3>1, <3>2
  <2>2. trade.listed \in [Wares -> MaybeRow]
    <3>1. {0, 1} \subseteq MaybeRow BY RowNumbers DEF MaybeRow
    <3> QED BY <1>3, <3>1
  <2>3. NoSale \in SaleShape BY NoSaleFits
  <2>4. /\ trade.people \in [Patrons -> {"none", "active", "archived"}]
        /\ trade.sales \in [StoreSales -> SaleShape]
    BY <1>3, <2>3
  <2>5. trade = [goods |-> trade.goods, listed |-> trade.listed, first |-> trade.first,
                 variation |-> trade.variation, people |-> trade.people, sales |-> trade.sales,
                 strays |-> trade.strays, line |-> trade.line, said |-> trade.said]
    BY <1>1
  <2> DEFINE g == trade.goods  li == trade.listed  p == trade.people  sa == trade.sales
  <2>6. trade = [goods |-> g, listed |-> li, first |-> li, variation |-> 0, people |-> p, sales |-> sa,
                 strays |-> 0, line |-> 0, said |-> "fine"]
    BY <1>3, <2>5, Zenon
  <2> HIDE DEF g, li, p, sa
  <2>7. /\ g \in [GoodsRows -> PlainRow \cup SizedRow \cup {NoGoods}] /\ li \in [Wares -> MaybeRow]
        /\ p \in [Patrons -> {"none", "active", "archived"}] /\ sa \in [StoreSales -> SaleShape]
    BY <2>1, <2>2, <2>4, Zenon DEF g, li, p, sa
  <2>8. 0 \in MaybeRow BY DEF MaybeRow
  <2> QED BY <2>6, <2>7, <2>8 DEF TradeShape
<1>8. \A r \in GoodsRows : ~IsSized(trade, r)
  <2>1. \A r \in GoodsRows : trade.goods[r].slug \in {"", "plain"} BY <1>4, <1>5, <1>6, Zenon
  <2> QED BY <2>1 DEF IsSized
<1>9. PlainFits(trade)
  <2>1. \A r \in GoodsRows : trade.goods[r].slug = "plain" => r = 1 /\ entry # NoGoods
    <3>1. "plain" # "" OBVIOUS
    <3> QED BY <1>5, <1>6, <3>1, Zenon
  <2>2. entry # NoGoods => entry.slug = "plain" BY <1>4, Zenon
  <2>3. l # 0 => l = 1 /\ entry # NoGoods OBVIOUS
  <2>4. entry # NoGoods => l = 1 OBVIOUS
  <2> HIDE DEF l
  <2> QED BY <1>3, <1>6, <2>1, <2>2, <2>3, <2>4, Zenon DEF PlainFits
<1>10. SizedFits(trade)
  <2>1. ~Moved(trade) BY <1>3 DEF Moved
  <2>2. \A r \in GoodsRows : trade.goods[r].slug # "sized, large" BY <1>8 DEF IsSized
  <2> QED BY <1>3, <1>8, <2>1, <2>2, Zenon DEF SizedFits
<1>11. SlugsDiffer(trade) BY <1>5, <1>6, Zenon DEF SlugsDiffer
<1>12. NothingArchived(trade)
  <2>1. \A r \in GoodsRows : trade.goods[r].slug # "" => trade.goods[r].live
    BY <1>4, <1>5, <1>6, Zenon
  <2>2. \A b \in Patrons : trade.people[b] # "archived" BY <1>3
  <2> QED BY <1>3, <2>1, <2>2, Zenon DEF NothingArchived
<1>13. SalesFit(trade)
  <2> SUFFICES ASSUME NEW s \in StoreSales
               PROVE  SaleFits(trade.sales[s], saleStates[s]) /\ CreditFits(trade, s)
    BY Zenon DEF SalesFit
  <2>1. trade.sales[s] = NoSale BY <1>3
  <2>2. NoSale.status = "none" /\ NoSale.vendor = NoSale.due BY DEF NoSale
  <2> QED BY <2>1, <2>2, Zenon DEF SaleFits, CreditFits
<1>14. unread \subseteq Wares /\ IsFiniteSet(unread) /\ \A s \in unread : s \notin StoreSales
  <2>1. unread \subseteq Wares BY <1>1
  <2>2. IsFiniteSet(Wares)
    <3>1. IsFiniteSet({"plain"}) /\ IsFiniteSet({"sized"}) BY FS_Singleton
    <3>2. IsFiniteSet({"plain"} \cup {"sized"}) BY <3>1, FS_Union
    <3>3. Wares = {"plain"} \cup {"sized"} BY DEF Wares
    <3> QED BY <3>2, <3>3
  <2>3. IsFiniteSet(unread) BY <2>1, <2>2, FS_Subset
  <2>4. Wares \cap StoreSales = {} BY StoreOrdersAssumption DEF Wares
  <2> QED BY <2>1, <2>3, <2>4
<1>15. RunsGetThrough BY <1>2 DEF RunsGetThrough
<1>16. saleStates \in [StoreSales -> StoreStatuses] BY <1>2 DEF StoreStatuses
<1> QED
  BY <1>2, <1>3, <1>7, <1>9, <1>10, <1>11, <1>12, <1>13, <1>14, <1>15, <1>16
  DEF StoreOrdersInv, TradeFits

\* What an import step leaves, when the run is not stopped.
LEMMA ImportedNext ==
  ASSUME StoreOrdersInv, NEW v, TradeFits(v), v = trade', v.line = 0, v.said = "fine",
         UNCHANGED <<saleStates, lineSku, reading, meddled>>, unread' \subseteq unread, RunsGetThrough'
  PROVE  StoreOrdersInv'
<1>1. TradeFits(trade)' /\ (trade.line = 0)' /\ (trade.said = "fine")' BY TradeNext
<1>2. /\ saleStates' \in [StoreSales -> StoreStatuses] /\ lineSku' \in {"own", "product", "none"}
      /\ reading' \in {-1, 0, 1}
  BY DEF StoreOrdersInv
<1>3. unread' \subseteq Wares \cup StoreSales /\ IsFiniteSet(unread')
  BY FS_Subset DEF StoreOrdersInv
<1>4. \A s \in unread' \cap StoreSales : saleStates'[s] # "unplaced" BY DEF StoreOrdersInv
<1> QED BY <1>1, <1>2, <1>3, <1>4, Zenon DEF StoreOrdersInv, StoreSales, StoreStatuses, Wares

LEMMA PulledNext ==
  ASSUME StoreOrdersInv, PullSales
  PROVE  StoreOrdersInv'
<1> DEFINE W == unread \cap Wares  S == unread \cap StoreSales
<1>1. PICK q \in Orderings(W), o \in Orderings(S) :
        LET wares == ImportWares(trade, q)
            all == ImportSales(wares, o)
            kept == IF all.said = "fine" THEN all ELSE IF wares.said = "fine" THEN wares ELSE trade
        IN /\ Importing
           /\ trade' = [kept EXCEPT !.line = 0]
           /\ refusedAt' = IF wares.said # "fine" THEN "products"
                           ELSE IF all.said # "fine" THEN "orders" ELSE "nowhere"
           /\ unread' = IF wares.said # "fine" THEN unread
                        ELSE IF all.said # "fine" THEN unread \ Wares ELSE {}
  BY Zenon DEF PullSales
<1> DEFINE wares == ImportWares(trade, q)
           all == ImportSales(wares, o)
           kept == IF all.said = "fine" THEN all ELSE IF wares.said = "fine" THEN wares ELSE trade
<1>2. /\ UNCHANGED <<saleStates, lineSku, reading, samePhone, meddled>>
      /\ trade' = [kept EXCEPT !.line = 0]
      /\ refusedAt' = IF wares.said # "fine" THEN "products"
                      ELSE IF all.said # "fine" THEN "orders" ELSE "nowhere"
      /\ unread' = IF wares.said # "fine" THEN unread
                   ELSE IF all.said # "fine" THEN unread \ Wares ELSE {}
  BY <1>1, Zenon DEF Importing
<1>3. /\ TradeFits(trade) /\ trade.said = "fine" /\ trade \in TradeShape
      /\ lineSku \in {"own", "product", "none"} /\ reading \in {-1, 0, 1}
  BY Zenon DEF StoreOrdersInv, TradeFits
<1>4. /\ IsFiniteSet(W) /\ Cardinality(W) \in Nat /\ q \in [1..Cardinality(W) -> W]
      /\ IsFiniteSet(S) /\ Cardinality(S) \in Nat /\ o \in [1..Cardinality(S) -> S]
  <2>1. IsFiniteSet(unread) BY DEF StoreOrdersInv
  <2>2. IsFiniteSet(W) /\ IsFiniteSet(S) BY <2>1, FS_Subset
  <2>3. Cardinality(W) \in Nat /\ Cardinality(S) \in Nat BY <2>2, FS_CardinalityType
  <2> QED BY <2>2, <2>3, Zenon DEF Orderings
<1>5. PICK t : t = trade OBVIOUS
<1>6. KeptOn(t, wares) /\ (Moved(wares) => Moved(t)) /\ wares \in TradeShape
      /\ (wares.said # "fine" => "sized" \in unread /\ Moved(t))
  <2> DEFINE D == {w \in TradeShape : /\ KeptOn(t, w) /\ (Moved(w) => Moved(t))
                                      /\ w.said # "fine" => "sized" \in unread /\ Moved(t)}
  <2>1. t \in D BY <1>3, <1>5, KeptSame, Zenon
  <2>2. ASSUME NEW v \in D, NEW x \in W, v.said = "fine" PROVE ImportWare(v, x) \in D
    <3>1. TradeFits(v) /\ KeptOn(t, v) /\ (Moved(v) => Moved(t)) /\ x \in Wares /\ x \in unread
      BY Zenon DEF KeptOn
    <3>2. WareImport(v, ImportWare(v, x), x) BY <2>2, <3>1, WareImported, Zenon
    <3> DEFINE u == ImportWare(v, x)
    <3> HIDE DEF u
    <3>3. /\ TradeFits(u) /\ (Moved(u) <=> Moved(v)) /\ (Bare(u) => Bare(v))
          /\ u.said # "fine" => x = "sized" /\ Moved(v)
      BY <3>2, Zenon DEF WareImport, u
    <3>4. KeptOn(t, u) /\ (Moved(u) => Moved(t)) /\ (u.said # "fine" => "sized" \in unread /\ Moved(t))
      BY <3>1, <3>3, Zenon DEF KeptOn
    <3>5. u \in TradeShape BY <3>3, Zenon DEF TradeFits
    <3> QED BY <3>4, <3>5, Zenon DEF u
  <2> HIDE DEF D
  <2>3. ImportWares(t, q) \in D BY <1>4, <2>1, <2>2, WaresFold
  <2> QED BY <1>5, <2>3, Zenon DEF D
<1>7. PICK w : w = wares OBVIOUS
<1>8. wares.said # "fine" => all = wares
  <2> SUFFICES ASSUME wares.said # "fine" PROVE all = wares OBVIOUS
  <2>1. \A v \in {w}, x \in S : v.said = "fine" => ImportSale(v, x, saleStates[x]) \in {w} BY <1>7
  <2>2. ImportSales(w, o) \in {w} BY <1>4, <2>1, SalesFold
  <2> QED BY <1>7, <2>2
<1>9. wares.said = "fine" =>
        /\ KeptOn(w, all) /\ all \in TradeShape
        /\ all.said # "fine" => samePhone \/ meddled # {} \/ reading < 0 \/ Bare(w)
  <2> SUFFICES ASSUME wares.said = "fine"
               PROVE  /\ KeptOn(w, all) /\ all \in TradeShape
                      /\ all.said # "fine" => samePhone \/ meddled # {} \/ reading < 0 \/ Bare(w)
    OBVIOUS
  <2> DEFINE D == {v \in TradeShape :
                     /\ KeptOn(w, v)
                     /\ v.said # "fine" => samePhone \/ meddled # {} \/ reading < 0 \/ Bare(w)}
  <2>1. w \in D BY <1>6, <1>7, KeptSame, Zenon DEF KeptOn
  <2>2. ASSUME NEW v \in D, NEW s \in S, v.said = "fine"
        PROVE  ImportSale(v, s, saleStates[s]) \in D
    <3>1. TradeFits(v) /\ KeptOn(w, v) /\ s \in StoreSales BY Zenon DEF KeptOn
    <3>2. saleStates[s] \in StoreStatuses \ {"unplaced"} BY <3>1 DEF StoreOrdersInv
    <3>3. saleStates[s] \in ToldStatuses(saleStates[s]) BY <3>2 DEF StoreStatuses, ToldStatuses
    <3> DEFINE u == ImportSale(v, s, saleStates[s])
    <3>4. SaleImport(v, u, s, saleStates[s]) BY <1>3, <2>2, <3>1, <3>2, <3>3, SaleImported, Zenon
    <3> HIDE DEF u
    <3>5. /\ KeptOn(v, u)
          /\ u.said # "fine" => samePhone \/ meddled # {} \/ reading < 0 \/ Bare(v)
      BY <3>4, Zenon DEF SaleImport
    <3>6. KeptOn(w, u) /\ u \in TradeShape BY <3>1, <3>5, KeptOnAndOn, Zenon DEF KeptOn, TradeFits
    <3>7. Bare(v) => Bare(w) BY <3>1, Zenon DEF KeptOn
    <3> QED BY <3>5, <3>6, <3>7, Zenon DEF u
  <2> HIDE DEF D
  <2>3. ImportSales(w, o) \in D BY <1>4, <2>1, <2>2, SalesFold
  <2> QED BY <1>7, <2>3, Zenon DEF D
<1> HIDE DEF wares, all
<1>10. KeptOn(t, kept) /\ kept \in TradeShape /\ kept.said = "fine"
  <2>1. CASE wares.said # "fine"
    <3>1. kept = t BY <1>5, <1>8, <2>1, Zenon
    <3> QED BY <1>3, <1>5, <3>1, KeptSame, Zenon
  <2>2. CASE wares.said = "fine" /\ all.said # "fine"
    <3>1. kept = wares BY <2>2, Zenon
    <3> QED BY <1>6, <2>2, <3>1, Zenon
  <2>3. CASE wares.said = "fine" /\ all.said = "fine"
    <3>1. kept = all BY <2>3, Zenon
    <3> QED BY <1>6, <1>7, <1>9, <2>3, <3>1, KeptOnAndOn, Zenon
  <2> QED BY <2>1, <2>2, <2>3
<1>11. /\ wares.said # "fine" => kept = t
       /\ wares.said = "fine" /\ all.said # "fine" => kept = w
  BY <1>5, <1>7, <1>8, Zenon
<1> HIDE DEF kept
<1> DEFINE v == [kept EXCEPT !.line = 0]
<1>12. SameTrade(kept, v) /\ v.said = kept.said /\ v.line = 0
  <2>1. 0 \in MaybeRow BY DEF MaybeRow
  <2> QED BY <1>10, <2>1, LineIsSame
<1>13. v = trade' BY <1>2
<1> HIDE DEF v
<1>14. TradeFits(v) /\ (Moved(v) <=> Moved(kept)) /\ (Bare(v) <=> Bare(kept))
  BY <1>10, <1>12, SameTradeFits, Zenon DEF KeptOn
<1>15. refusedAt' = "products" => \E ware \in unread' \cap Wares : Repointed(ware)'
  <2> SUFFICES ASSUME refusedAt' = "products" PROVE "sized" \in unread' \cap Wares /\ Repointed("sized")'
    BY Zenon
  <2>1. wares.said # "fine" BY <1>2
  <2>2. "sized" \in unread' \cap Wares BY <1>2, <1>6, <2>1 DEF Wares
  <2>3. Moved(v) BY <1>6, <1>11, <1>14, <2>1, Zenon
  <2>4. Repointed("sized")' BY <1>13, <2>3 DEF Repointed, Moved
  <2> QED BY <2>2, <2>4
<1>16. refusedAt' = "orders" => samePhone' \/ meddled' # {} \/ reading' < 0 \/ Bare(v)
  <2> SUFFICES ASSUME refusedAt' = "orders" PROVE samePhone' \/ meddled' # {} \/ reading' < 0 \/ Bare(v)
    OBVIOUS
  <2>1. wares.said = "fine" /\ all.said # "fine" BY <1>2
  <2>2. samePhone \/ meddled # {} \/ reading < 0 \/ Bare(w) BY <1>9, <2>1, Zenon
  <2>3. Bare(w) => Bare(v) BY <1>11, <1>14, <2>1, Zenon
  <2>4. samePhone' = samePhone /\ meddled' = meddled /\ reading' = reading BY <1>2
  <2> QED BY <2>2, <2>3, <2>4, Zenon
<1>17. RunsGetThrough'
  <2>1. Bare(v) => (trade.goods[1].item = "" /\ trade.goods[1].slug = "plain")'
    BY <1>13, Zenon DEF Bare
  <2> QED BY <1>15, <1>16, <2>1, Zenon DEF RunsGetThrough, Wares
<1>18. unread' \subseteq unread BY <1>2
<1>19. UNCHANGED <<saleStates, lineSku, reading, meddled>> BY <1>2
<1> QED BY <1>10, <1>12, <1>13, <1>14, <1>17, <1>18, <1>19, ImportedNext

LEMMA WebhookNext ==
  ASSUME StoreOrdersInv, NEW w, TradeFits(w), Webhook(w)
  PROVE  StoreOrdersInv'
<1> DEFINE kept == IF w.said = "broken" THEN trade ELSE w
           fine == Fine(kept)
           v == [fine EXCEPT !.line = 0]
<1>1. /\ UNCHANGED <<saleStates, lineSku, reading, samePhone, meddled, unread>>
      /\ trade' = v /\ refusedAt' = "nowhere"
  BY Zenon DEF Webhook, Importing
<1>2. TradeFits(kept) /\ kept \in TradeShape BY Zenon DEF StoreOrdersInv, TradeFits
<1> HIDE DEF kept
<1>3. SameTrade(kept, fine) /\ fine.said = "fine" /\ fine \in TradeShape
  BY <1>2, SaidIsSame DEF Fine, SameTrade
<1>4. 0 \in MaybeRow BY DEF MaybeRow
<1> HIDE DEF fine
<1>5. SameTrade(fine, v) /\ v.said = "fine" /\ v.line = 0 BY <1>3, <1>4, LineIsSame
<1> HIDE DEF v
<1>6. TradeFits(v) BY <1>2, <1>3, <1>5, SameTradeFits, Zenon
<1>7. RunsGetThrough' BY <1>1 DEF RunsGetThrough
<1>8. v = trade' /\ unread' \subseteq unread /\ UNCHANGED <<saleStates, lineSku, reading, meddled>>
  BY <1>1
<1> QED BY <1>5, <1>6, <1>7, <1>8, ImportedNext

LEMMA HeardOfSaleNext ==
  ASSUME StoreOrdersInv, HearOfSale
  PROVE  StoreOrdersInv'
<1>0. PICK s \in StoreSales : \E news \in ToldStatuses(saleStates[s]) :
        saleStates[s] # "unplaced" /\ Webhook(ImportSale(trade, s, news))
  BY Zenon DEF HearOfSale
<1>1. PICK news \in ToldStatuses(saleStates[s]) :
        saleStates[s] # "unplaced" /\ Webhook(ImportSale(trade, s, news))
  BY <1>0
<1>2. /\ TradeFits(trade) /\ trade.said = "fine" /\ lineSku \in {"own", "product", "none"}
      /\ reading \in {-1, 0, 1}
  BY Zenon DEF StoreOrdersInv
<1>3. saleStates[s] \in StoreStatuses \ {"unplaced"} BY <1>1 DEF StoreOrdersInv
<1>4. PICK t : t = trade OBVIOUS
<1>5. SaleImport(t, ImportSale(t, s, news), s, news) BY <1>2, <1>3, <1>4, SaleImported
<1>6. PICK w : w = ImportSale(trade, s, news) OBVIOUS
<1>7. TradeFits(w) BY <1>4, <1>5, <1>6, Zenon DEF SaleImport, KeptOn
<1>8. Webhook(w) BY <1>1, <1>6, Zenon DEF Webhook
<1> QED BY <1>7, <1>8, WebhookNext

LEMMA HeardOfWareNext ==
  ASSUME StoreOrdersInv, HearOfWare
  PROVE  StoreOrdersInv'
<1>1. PICK ware \in Wares : Webhook(ImportWare(trade, ware)) BY Zenon DEF HearOfWare
<1>2. TradeFits(trade) /\ trade.said = "fine" BY Zenon DEF StoreOrdersInv
<1>3. PICK t : t = trade OBVIOUS
<1>4. WareImport(t, ImportWare(t, ware), ware) BY <1>2, <1>3, WareImported
<1>5. PICK w : w = ImportWare(trade, ware) OBVIOUS
<1>6. TradeFits(w) BY <1>3, <1>4, <1>5, Zenon DEF WareImport
<1>7. Webhook(w) BY <1>1, <1>5, Zenon DEF Webhook
<1> QED BY <1>6, <1>7, WebhookNext

LEMMA StoreSaysNext ==
  ASSUME StoreOrdersInv, StoreSays, NEW x, unread' = unread \cup {x}, x \in Wares \cup StoreSales,
         x \in StoreSales => saleStates'[x] # "unplaced",
         saleStates' \in [StoreSales -> StoreStatuses],
         \A s \in StoreSales : /\ saleStates[s] # "unplaced" => saleStates'[s] # "unplaced"
                               /\ SeenAs(saleStates[s]) \subseteq SeenAs(saleStates'[s])
  PROVE  StoreOrdersInv'
<1>1. /\ UNCHANGED <<trade, lineSku, reading, samePhone, meddled>> /\ refusedAt' = "nowhere"
  BY DEF StoreSays
<1>2. PICK v : v = trade' OBVIOUS
<1>3. TradeFits(v) BY <1>1, <1>2, Zenon DEF StoreOrdersInv
<1>4. /\ (trade \in TradeShape)' /\ PlainFits(trade)' /\ SizedFits(trade)' /\ SlugsDiffer(trade)'
  BY <1>1, <1>2, <1>3, PartsNext DEF TradeFits
<1>5. NothingArchived(trade)'
  BY <1>1, <1>2, <1>3 DEF TradeFits, NothingArchived, Patrons, StoreSales
<1>6. SalesFit(trade)'
  <2>1. \A s \in StoreSales :
            /\ IF v.sales[s].status = "none" THEN v.sales[s] = NoSale
               ELSE /\ PaidAsDue(v.sales[s]) /\ StockedAsSold(v.sales[s])
                    /\ meddled' = {} => v.sales[s].status \in SeenAs(saleStates'[s])
            /\ CreditFits(v, s)
    <3> SUFFICES ASSUME NEW s \in StoreSales
                 PROVE  /\ IF v.sales[s].status = "none" THEN v.sales[s] = NoSale
                           ELSE /\ PaidAsDue(v.sales[s]) /\ StockedAsSold(v.sales[s])
                                /\ meddled' = {} => v.sales[s].status \in SeenAs(saleStates'[s])
                        /\ CreditFits(v, s)
      OBVIOUS
    <3>1. SaleFits(v.sales[s], saleStates[s]) /\ CreditFits(v, s)
      BY <1>3, Zenon DEF TradeFits, SalesFit
    <3>2. meddled' = meddled BY <1>1
    <3>3. SeenAs(saleStates[s]) \subseteq SeenAs(saleStates'[s]) OBVIOUS
    <3> QED BY <3>1, <3>2, <3>3, Zenon DEF SaleFits
  <2> QED BY <1>1, <1>2, <2>1, SalesNext
<1>7. unread' \subseteq Wares \cup StoreSales /\ IsFiniteSet(unread')
  <2>1. unread \subseteq Wares \cup StoreSales /\ IsFiniteSet(unread) BY DEF StoreOrdersInv
  <2>2. IsFiniteSet(unread') BY <2>1, FS_AddElement
  <2> QED BY <2>1, <2>2
<1>8. \A s \in unread' \cap StoreSales : saleStates'[s] # "unplaced" BY Zenon DEF StoreOrdersInv
<1>9. RunsGetThrough' BY <1>1 DEF RunsGetThrough
<1>10. /\ lineSku' \in {"own", "product", "none"} /\ reading' \in {-1, 0, 1}
       /\ trade'.line = 0 /\ trade'.said = "fine"
  BY <1>1 DEF StoreOrdersInv
<1> QED
  BY <1>4, <1>5, <1>6, <1>7, <1>8, <1>9, <1>10, Zenon
  DEF StoreOrdersInv, TradeFits, StoreSales, StoreStatuses, Wares

LEMMA StoreMovesOn ==
  ASSUME NEW status \in StoreStatuses, NEW to \in NextInStore(status)
  PROVE  /\ to \in StoreStatuses /\ to # "unplaced" /\ SeenAs(status) \subseteq SeenAs(to)
BY DEF StoreStatuses, NextInStore, SeenAs

LEMMA MovedInStoreNext ==
  ASSUME StoreOrdersInv, MoveInStore
  PROVE  StoreOrdersInv'
<1>0. PICK s \in StoreSales : \E status \in NextInStore(saleStates[s]) :
        /\ saleStates' = [saleStates EXCEPT ![s] = status] /\ unread' = unread \cup {s} /\ StoreSays
  BY Zenon DEF MoveInStore
<1>1. PICK status \in NextInStore(saleStates[s]) :
        /\ saleStates' = [saleStates EXCEPT ![s] = status] /\ unread' = unread \cup {s} /\ StoreSays
  BY <1>0
<1>2. saleStates \in [StoreSales -> StoreStatuses] BY DEF StoreOrdersInv
<1>3. /\ status \in StoreStatuses /\ status # "unplaced"
      /\ SeenAs(saleStates[s]) \subseteq SeenAs(status)
  BY <1>2, StoreMovesOn
<1>4. saleStates'[s] = status /\ \A x \in StoreSales : x # s => saleStates'[x] = saleStates[x]
  BY <1>1, <1>2
<1>5. saleStates' \in [StoreSales -> StoreStatuses] BY <1>1, <1>2, <1>3
<1>6. \A x \in StoreSales : SeenAs(saleStates[x]) \subseteq SeenAs(saleStates'[x]) BY <1>3, <1>4
<1>7. \A x \in StoreSales : saleStates[x] # "unplaced" => saleStates'[x] # "unplaced" BY <1>3, <1>4
<1> QED BY <1>1, <1>3, <1>4, <1>5, <1>6, <1>7, StoreSaysNext

LEMMA TouchedInStoreNext ==
  ASSUME StoreOrdersInv, TouchInStore
  PROVE  StoreOrdersInv'
<1>1. PICK x \in Wares \cup {s \in StoreSales : saleStates[s] # "unplaced"} :
        unread' = unread \cup {x} /\ StoreSays /\ UNCHANGED saleStates
  BY Zenon DEF TouchInStore
<1>2. saleStates' \in [StoreSales -> StoreStatuses] BY <1>1 DEF StoreOrdersInv
<1>3. x \in Wares \cup StoreSales /\ (x \in StoreSales => saleStates[x] # "unplaced")
  <2>1. Wares \cap StoreSales = {} BY StoreOrdersAssumption DEF Wares
  <2> QED BY <2>1
<1> QED BY <1>1, <1>2, <1>3, StoreSaysNext

\* What users do at the desk.
LEMMA DeskNext ==
  ASSUME StoreOrdersInv, NEW did, Desk(did), NEW v, v = trade', v \in TradeShape, v.line = 0,
         v.said = "fine", PlainFits(v), SizedFits(v), SlugsDiffer(v),
         "archived" \notin meddled \cup did =>
           /\ \A r \in GoodsRows : v.goods[r].slug # "" => v.goods[r].live
           /\ \A b \in Patrons : v.people[b] # "archived"
           /\ v.strays = 0,
         \A s \in StoreSales :
            /\ IF v.sales[s].status = "none" THEN v.sales[s] = NoSale
               ELSE /\ PaidAsDue(v.sales[s]) /\ StockedAsSold(v.sales[s])
                    /\ meddled \cup did = {} => v.sales[s].status \in SeenAs(saleStates[s])
            /\ CreditFits(v, s)
  PROVE  StoreOrdersInv'
<1>1. /\ UNCHANGED <<saleStates, lineSku, reading, samePhone, unread>> /\ refusedAt' = "nowhere"
      /\ meddled' = meddled \cup did
  BY DEF Desk
<1>2. /\ (trade \in TradeShape)' /\ PlainFits(trade)' /\ SizedFits(trade)' /\ SlugsDiffer(trade)'
  BY <1>1, PartsNext
<1>3. NothingArchived(trade)'
  <2>1. "archived" \notin meddled' =>
          /\ \A r \in GoodsRows : v.goods[r].slug # "" => v.goods[r].live
          /\ \A b \in Patrons : v.people[b] # "archived"
          /\ v.strays = 0
    BY <1>1, Zenon
  <2>2. v.goods = trade'.goods /\ v.people = trade'.people /\ v.strays = trade'.strays BY Zenon
  <2>3. "archived" \notin meddled' =>
          /\ \A r \in GoodsRows : trade'.goods[r].slug # "" => trade'.goods[r].live
          /\ \A b \in Patrons : trade'.people[b] # "archived"
          /\ trade'.strays = 0
    BY <2>1, <2>2, Zenon
  <2> QED BY <2>3 DEF NothingArchived, Patrons, StoreSales
<1>4. SalesFit(trade)'
  <2>1. \A s \in StoreSales :
            /\ IF v.sales[s].status = "none" THEN v.sales[s] = NoSale
               ELSE /\ PaidAsDue(v.sales[s]) /\ StockedAsSold(v.sales[s])
                    /\ meddled' = {} => v.sales[s].status \in SeenAs(saleStates'[s])
            /\ CreditFits(v, s)
    BY <1>1, Zenon
  <2> QED BY <1>1, <2>1, SalesNext
<1>5. RunsGetThrough' BY <1>1 DEF RunsGetThrough
<1>6. /\ lineSku' \in {"own", "product", "none"} /\ reading' \in {-1, 0, 1}
      /\ unread' \subseteq Wares \cup StoreSales /\ IsFiniteSet(unread')
      /\ saleStates' \in [StoreSales -> StoreStatuses]
      /\ \A s \in unread' \cap StoreSales : saleStates'[s] # "unplaced"
  BY <1>1 DEF StoreOrdersInv
<1>7. trade'.line = 0 /\ trade'.said = "fine" BY Zenon
<1> QED
  BY <1>2, <1>3, <1>4, <1>5, <1>6, <1>7, Zenon
  DEF StoreOrdersInv, TradeFits, StoreSales, StoreStatuses, Wares

\* A row's vendor, or whether it is live, is changed: it stands for what it stood for.
LEMMA RowTouched ==
  ASSUME NEW w, TradeFits(w), NEW r \in GoodsRows, NEW entry, NEW v, v = [w EXCEPT !.goods[r] = entry],
         \/ w.goods[r] \in PlainRow /\ entry \in PlainRow
         \/ w.goods[r] \in SizedRow /\ entry \in SizedRow,
         entry.slug = w.goods[r].slug, entry.item = w.goods[r].item
  PROVE  /\ v \in TradeShape /\ PlainFits(v) /\ SizedFits(v) /\ SlugsDiffer(v)
         /\ v.people = w.people /\ v.strays = w.strays /\ v.sales = w.sales
         /\ v.line = w.line /\ v.said = w.said /\ (Moved(v) <=> Moved(w)) /\ v.goods[r] = entry
         /\ \A q \in GoodsRows : q # r => v.goods[q] = w.goods[q]
<1>1. w \in TradeShape BY DEF TradeFits
<1>2. entry \in PlainRow \cup SizedRow BY Zenon
<1>3. /\ v \in TradeShape /\ v.goods = [w.goods EXCEPT ![r] = entry] /\ v.listed = w.listed
      /\ v.first = w.first /\ v.variation = w.variation /\ v.people = w.people
      /\ v.sales = w.sales /\ v.strays = w.strays /\ v.line = w.line /\ v.said = w.said
  <2> HIDE DEF PlainRow, SizedRow
  <2> QED BY <1>1, <1>2 DEF TradeShape
<1>4. v.goods[r] = entry /\ \A q \in GoodsRows : q # r => v.goods[q] = w.goods[q]
  BY <1>1, <1>3 DEF TradeShape
<1>5. \A q \in GoodsRows : v.goods[q].slug = w.goods[q].slug /\ v.goods[q].item = w.goods[q].item
  BY <1>4, Zenon
<1>6. \A q \in GoodsRows : IsSized(v, q) <=> IsSized(w, q) BY <1>5, Zenon DEF IsSized
<1>7. Moved(v) <=> Moved(w) BY <1>3, Zenon DEF Moved
<1>8. SlugsDiffer(v) BY <1>5, Zenon DEF TradeFits, SlugsDiffer
<1>9. PlainFits(v)
  <2>1. PlainFits(w) BY DEF TradeFits
  <2>2. v.listed["plain"] = w.listed["plain"] /\ v.first["plain"] = w.first["plain"] BY <1>3
  <2> QED
    <3>1. /\ \A q \in GoodsRows : v.goods[q].slug = "plain" <=> w.goods[q].slug = "plain"
          /\ \A q \in GoodsRows : w.goods[q].slug = "plain" => v.goods[q].item = w.goods[q].item
      BY <1>5, Zenon
    <3>2. w.listed["plain"] # 0 => w.listed["plain"] \in GoodsRows
      BY <1>1 DEF TradeShape, MaybeRow, Wares
    <3> QED BY <1>1, <2>1, <2>2, <3>1, <3>2 DEF PlainFits
<1>10. SizedFits(v)
  <2>1. SizedFits(w) BY DEF TradeFits
  <2>2. w.listed["sized"] # 0 => w.listed["sized"] \in GoodsRows
    BY <1>1 DEF TradeShape, MaybeRow, Wares
  <2>3. v.listed["sized"] # 0 => IsSized(v, v.listed["sized"])
    BY <1>3, <1>6, <2>1, <2>2, Zenon DEF SizedFits
  <2>4. /\ \A q \in GoodsRows :
             IsSized(v, q) => v.listed["sized"] # 0 /\ (q = v.listed["sized"] \/ Moved(v))
        /\ v.first["sized"] = 0 => v.listed["sized"] = 0
        /\ Moved(v) => v.variation # 0 /\ lineSku # "product"
        /\ v.variation # 0 => v.variation = v.listed["sized"]
    BY <1>3, <1>6, <1>7, <2>1, Zenon DEF SizedFits
  <2>5. v.variation = 0 => \A q \in GoodsRows : v.goods[q].slug # "sized, large"
    BY <1>3, <1>5, <2>1, Zenon DEF SizedFits
  <2>6. lineSku = "product" => \A q \in GoodsRows : IsSized(v, q) => v.goods[q].item = "s"
    BY <1>5, <1>6, <2>1, Zenon DEF SizedFits
  <2> QED BY <2>3, <2>4, <2>5, <2>6, Zenon DEF SizedFits
<1> QED BY <1>3, <1>4, <1>7, <1>8, <1>9, <1>10, Zenon

LEMMA RowIsOneOf ==
  ASSUME NEW w, TradeFits(w), NEW r \in GoodsRows, IsRow(w, r)
  PROVE  w.goods[r] \in PlainRow \/ w.goods[r] \in SizedRow
BY RowsAre DEF TradeFits

LEMMA SalesAsBefore ==
  ASSUME NEW w, TradeFits(w), NEW v, v.sales = w.sales, Moved(v) <=> Moved(w), NEW did
  PROVE  \A s \in StoreSales :
            /\ IF v.sales[s].status = "none" THEN v.sales[s] = NoSale
               ELSE /\ PaidAsDue(v.sales[s]) /\ StockedAsSold(v.sales[s])
                    /\ meddled \cup did = {} => v.sales[s].status \in SeenAs(saleStates[s])
            /\ CreditFits(v, s)
<1>1. \A s \in StoreSales : SaleFits(w.sales[s], saleStates[s]) /\ CreditFits(w, s)
  BY Zenon DEF TradeFits, SalesFit
<1>2. meddled \cup did = {} => meddled = {} OBVIOUS
<1> QED BY <1>1, <1>2, Zenon DEF SaleFits, CreditFits

LEMMA GoodsAssignedNext ==
  ASSUME StoreOrdersInv, AssignGoods
  PROVE  StoreOrdersInv'
<1>1. PICK r \in GoodsRows : /\ IsRow(trade, r) /\ Desk({})
                           /\ trade' = [trade EXCEPT !.goods[r].vendor = TRUE]
  BY Zenon DEF AssignGoods
<1>2. PICK w : w = trade OBVIOUS
<1>3. TradeFits(w) /\ w.line = 0 /\ w.said = "fine" /\ w \in TradeShape
  BY <1>2, Zenon DEF StoreOrdersInv, TradeFits
<1> DEFINE entry == [w.goods[r] EXCEPT !.vendor = TRUE]  v == [w EXCEPT !.goods[r] = entry]
<1>4. v = trade' BY <1>1, <1>2, <1>3 DEF TradeShape
<1>5. w.goods[r] \in PlainRow \/ w.goods[r] \in SizedRow BY <1>1, <1>2, <1>3, RowIsOneOf
<1>6. /\ \/ w.goods[r] \in PlainRow /\ entry \in PlainRow
         \/ w.goods[r] \in SizedRow /\ entry \in SizedRow
      /\ entry.slug = w.goods[r].slug /\ entry.item = w.goods[r].item /\ entry.live = w.goods[r].live
  BY <1>5 DEF PlainRow, SizedRow
<1> HIDE DEF entry
<1>7. v = [w EXCEPT !.goods[r] = entry] OBVIOUS
<1> HIDE DEF v
<1>8. /\ v \in TradeShape /\ PlainFits(v) /\ SizedFits(v) /\ SlugsDiffer(v)
      /\ v.people = w.people /\ v.strays = w.strays /\ v.sales = w.sales
      /\ v.line = w.line /\ v.said = w.said /\ (Moved(v) <=> Moved(w)) /\ v.goods[r] = entry
      /\ \A q \in GoodsRows : q # r => v.goods[q] = w.goods[q]
  BY <1>3, <1>6, <1>7, RowTouched
<1>9. "archived" \notin meddled \cup {} =>
        /\ \A q \in GoodsRows : v.goods[q].slug # "" => v.goods[q].live
        /\ \A b \in Patrons : v.people[b] # "archived"
        /\ v.strays = 0
  <2>1. "archived" \notin meddled \cup {} => "archived" \notin meddled OBVIOUS
  <2> QED BY <1>3, <1>6, <1>8, <2>1, Zenon DEF TradeFits, NothingArchived
<1>10. \A s \in StoreSales :
            /\ IF v.sales[s].status = "none" THEN v.sales[s] = NoSale
               ELSE /\ PaidAsDue(v.sales[s]) /\ StockedAsSold(v.sales[s])
                    /\ meddled \cup {} = {} => v.sales[s].status \in SeenAs(saleStates[s])
            /\ CreditFits(v, s)
  BY <1>3, <1>8, SalesAsBefore
<1> QED BY <1>1, <1>3, <1>4, <1>8, <1>9, <1>10, DeskNext

LEMMA GoodsArchivedNext ==
  ASSUME StoreOrdersInv, ArchiveGoods
  PROVE  StoreOrdersInv'
<1>1. PICK r \in GoodsRows : /\ IsRow(trade, r) /\ Desk({"archived"})
                           /\ trade' = [trade EXCEPT !.goods[r].live = FALSE]
  BY Zenon DEF ArchiveGoods
<1>2. PICK w : w = trade OBVIOUS
<1>3. TradeFits(w) /\ w.line = 0 /\ w.said = "fine" /\ w \in TradeShape
  BY <1>2, Zenon DEF StoreOrdersInv, TradeFits
<1> DEFINE entry == [w.goods[r] EXCEPT !.live = FALSE]  v == [w EXCEPT !.goods[r] = entry]
<1>4. v = trade' BY <1>1, <1>2, <1>3 DEF TradeShape
<1>5. w.goods[r] \in PlainRow \/ w.goods[r] \in SizedRow BY <1>1, <1>2, <1>3, RowIsOneOf
<1>6. /\ \/ w.goods[r] \in PlainRow /\ entry \in PlainRow
         \/ w.goods[r] \in SizedRow /\ entry \in SizedRow
      /\ entry.slug = w.goods[r].slug /\ entry.item = w.goods[r].item
  BY <1>5 DEF PlainRow, SizedRow
<1> HIDE DEF entry
<1>7. v = [w EXCEPT !.goods[r] = entry] OBVIOUS
<1> HIDE DEF v
<1>8. /\ v \in TradeShape /\ PlainFits(v) /\ SizedFits(v) /\ SlugsDiffer(v)
      /\ v.sales = w.sales /\ v.line = w.line /\ v.said = w.said /\ (Moved(v) <=> Moved(w))
  BY <1>3, <1>6, <1>7, RowTouched
<1>9. ~("archived" \notin meddled \cup {"archived"}) OBVIOUS
<1>10. \A s \in StoreSales :
            /\ IF v.sales[s].status = "none" THEN v.sales[s] = NoSale
               ELSE /\ PaidAsDue(v.sales[s]) /\ StockedAsSold(v.sales[s])
                    /\ meddled \cup {"archived"} = {} => v.sales[s].status \in SeenAs(saleStates[s])
            /\ CreditFits(v, s)
  BY <1>3, <1>8, SalesAsBefore
<1> QED BY <1>1, <1>3, <1>4, <1>8, <1>9, <1>10, DeskNext

LEMMA BuyerArchivedNext ==
  ASSUME StoreOrdersInv, ArchiveBuyer
  PROVE  StoreOrdersInv'
<1>1. PICK b \in Patrons : /\ Desk({"archived"})
                         /\ trade' = [trade EXCEPT !.people[b] = "archived"]
  BY Zenon DEF ArchiveBuyer
<1>2. PICK w : w = trade OBVIOUS
<1>3. TradeFits(w) /\ w.line = 0 /\ w.said = "fine" /\ w \in TradeShape
  BY <1>2, Zenon DEF StoreOrdersInv, TradeFits
<1> DEFINE v == [w EXCEPT !.people[b] = "archived"]
<1>4. v = trade' BY <1>1, <1>2, Zenon
<1>5. /\ v \in TradeShape /\ v.goods = w.goods /\ v.listed = w.listed /\ v.first = w.first
      /\ v.variation = w.variation /\ v.sales = w.sales /\ v.line = w.line /\ v.said = w.said
  BY <1>3 DEF TradeShape
<1> HIDE DEF v
<1>6. (Moved(v) <=> Moved(w)) /\ PlainFits(v) /\ SlugsDiffer(v)
  <2>1. PlainFits(w) /\ SlugsDiffer(w) BY <1>3 DEF TradeFits
  <2>2. Moved(v) <=> Moved(w) BY <1>5, ZenonT(60) DEF Moved
  <2>3. PlainFits(v) BY <1>5, <2>1, ZenonT(60) DEF PlainFits
  <2>4. SlugsDiffer(v) BY <1>5, <2>1, ZenonT(60) DEF SlugsDiffer
  <2> QED BY <2>2, <2>3, <2>4
<1>7. SizedFits(v)
  <2>1. SizedFits(w) BY <1>3 DEF TradeFits
  <2>2. \A r : IsSized(v, r) <=> IsSized(w, r) BY <1>5, Zenon DEF IsSized
  <2> QED BY <1>5, <1>6, <2>1, <2>2, Zenon DEF SizedFits
<1>8. ~("archived" \notin meddled \cup {"archived"}) OBVIOUS
<1>9. \A s \in StoreSales :
            /\ IF v.sales[s].status = "none" THEN v.sales[s] = NoSale
               ELSE /\ PaidAsDue(v.sales[s]) /\ StockedAsSold(v.sales[s])
                    /\ meddled \cup {"archived"} = {} => v.sales[s].status \in SeenAs(saleStates[s])
            /\ CreditFits(v, s)
  BY <1>3, <1>5, <1>6, SalesAsBefore
<1> QED BY <1>1, <1>3, <1>4, <1>5, <1>6, <1>7, <1>8, <1>9, DeskNext

LEMMA SaleMovedNext ==
  ASSUME StoreOrdersInv, MoveSale
  PROVE  StoreOrdersInv'
<1>1. PICK s \in StoreSales, to \in ToSet(Progress) \cup {"returned", "cancelled", "refunded"} :
        /\ Known(s) /\ MayTurn(trade.sales[s].status, to) /\ Desk({"moved"})
        /\ trade' = [trade EXCEPT !.sales[s] = Turn(@, to)]
  BY Zenon DEF MoveSale
<1>2. PICK w : w = trade OBVIOUS
<1>3. TradeFits(w) /\ w.line = 0 /\ w.said = "fine" /\ w \in TradeShape
  BY <1>2, Zenon DEF StoreOrdersInv, TradeFits
<1> DEFINE x == w.sales[s]  y == Turn(x, to)  v == [w EXCEPT !.sales[s] = y]
<1>4. v = trade' BY <1>1, <1>2, Zenon
<1>5. x \in SaleShape /\ x.status # "none" /\ MayTurn(x.status, to)
  BY <1>1, <1>2, <1>3 DEF TradeShape, Known
<1>6. /\ PaidAsDue(x) /\ StockedAsSold(x) /\ (x.vendor # x.due => WareOf[s] = "sized" /\ Moved(w))
  BY <1>3, <1>5, Zenon DEF TradeFits, SalesFit, SaleFits, CreditFits
<1>7. to \in SaleStatuses /\ to # "none" BY ProgressIs DEF SaleStatuses
<1>8. MayFollow(x.status, to) BY <1>5, Zenon DEF MayFollow
<1>9. /\ y \in SaleShape /\ PaidAsDue(y) /\ StockedAsSold(y)
      /\ y.vendor = x.vendor /\ y.due = x.due /\ y.status = to
  <2>1. x.status \notin {"cancelled", "refunded"} BY <1>5, ProgressIs DEF MayTurn
  <2> QED BY <1>5, <1>6, <1>7, <2>1, TurnKeeps, Zenon
<1> HIDE DEF y
<1>10. /\ v \in TradeShape /\ v.goods = w.goods /\ v.listed = w.listed /\ v.first = w.first
       /\ v.variation = w.variation /\ v.people = w.people /\ v.strays = w.strays
       /\ v.sales = [w.sales EXCEPT ![s] = y] /\ v.line = w.line /\ v.said = w.said
  BY <1>3, <1>9 DEF TradeShape
<1> HIDE DEF v
<1>11. (Moved(v) <=> Moved(w)) /\ PlainFits(v) /\ SlugsDiffer(v)
  <2>1. PlainFits(w) /\ SlugsDiffer(w) BY <1>3 DEF TradeFits
  <2>2. Moved(v) <=> Moved(w) BY <1>10, Zenon DEF Moved
  <2>3. PlainFits(v) BY <1>10, <2>1 DEF PlainFits
  <2>4. SlugsDiffer(v) BY <1>10, <2>1, Zenon DEF SlugsDiffer
  <2> QED BY <2>2, <2>3, <2>4
<1>12. SizedFits(v)
  <2>1. SizedFits(w) BY <1>3 DEF TradeFits
  <2>2. \A r : IsSized(v, r) <=> IsSized(w, r) BY <1>10, Zenon DEF IsSized
  <2> QED BY <1>10, <1>11, <2>1, <2>2, Zenon DEF SizedFits
<1>13. "archived" \notin meddled \cup {"moved"} =>
         /\ \A r \in GoodsRows : v.goods[r].slug # "" => v.goods[r].live
         /\ \A b \in Patrons : v.people[b] # "archived"
         /\ v.strays = 0
  <2>1. "archived" \notin meddled \cup {"moved"} => "archived" \notin meddled OBVIOUS
  <2> QED BY <1>3, <1>10, <2>1, Zenon DEF TradeFits, NothingArchived
<1>14. \A o \in StoreSales :
            /\ IF v.sales[o].status = "none" THEN v.sales[o] = NoSale
               ELSE /\ PaidAsDue(v.sales[o]) /\ StockedAsSold(v.sales[o])
                    /\ meddled \cup {"moved"} = {} => v.sales[o].status \in SeenAs(saleStates[o])
            /\ CreditFits(v, o)
  <2> SUFFICES ASSUME NEW o \in StoreSales
               PROVE  /\ IF v.sales[o].status = "none" THEN v.sales[o] = NoSale
                         ELSE /\ PaidAsDue(v.sales[o]) /\ StockedAsSold(v.sales[o])
                              /\ meddled \cup {"moved"} = {} => v.sales[o].status \in SeenAs(saleStates[o])
                      /\ CreditFits(v, o)
    OBVIOUS
  <2>1. v.sales[s] = y /\ (o # s => v.sales[o] = w.sales[o]) BY <1>3, <1>10 DEF TradeShape
  <2>2. meddled \cup {"moved"} # {} OBVIOUS
  <2>3. CASE o = s BY <1>6, <1>7, <1>9, <1>11, <2>1, <2>2, <2>3, Zenon DEF CreditFits
  <2>4. CASE o # s
    BY <1>3, <1>11, <2>1, <2>2, <2>4, Zenon DEF TradeFits, SalesFit, SaleFits, CreditFits
  <2> QED BY <2>3, <2>4
<1> QED
  <2>1. Desk({"moved"}) /\ v.line = 0 /\ v.said = "fine" /\ v \in TradeShape
    BY <1>1, <1>3, <1>10, Zenon
  <2> QED BY <1>4, <1>11, <1>12, <1>13, <1>14, <2>1, DeskNext

LEMMA StoreOrdersSteps ==
  StoreOrdersInv /\ [StoreOrderNext]_storeOrderVars => StoreOrdersInv'
<1> SUFFICES ASSUME StoreOrdersInv, [StoreOrderNext]_storeOrderVars PROVE StoreOrdersInv' OBVIOUS
<1>1. CASE UNCHANGED storeOrderVars
  <2>1. UNCHANGED <<trade, saleStates, lineSku, reading, samePhone, unread, refusedAt, meddled>>
    BY <1>1, Zenon DEF storeOrderVars
  <2>2. PICK v : v = trade' OBVIOUS
  <2>3. TradeFits(v) /\ v.line = 0 /\ v.said = "fine" BY <2>1, <2>2, Zenon DEF StoreOrdersInv
  <2>4. TradeFits(trade)' BY <2>1, <2>2, <2>3, TradeNext
  <2>5. RunsGetThrough BY Zenon DEF StoreOrdersInv
  <2>6. RunsGetThrough' BY <2>1, <2>5, Zenon DEF RunsGetThrough, Repointed, Wares
  <2>7. /\ lineSku' \in {"own", "product", "none"} /\ reading' \in {-1, 0, 1}
        /\ unread' \subseteq Wares \cup StoreSales /\ IsFiniteSet(unread')
        /\ saleStates' \in [StoreSales -> StoreStatuses]
        /\ \A s \in unread' \cap StoreSales : saleStates'[s] # "unplaced"
    BY <2>1 DEF StoreOrdersInv
  <2>8. trade'.line = 0 /\ trade'.said = "fine" BY <2>2, <2>3, Zenon
  <2> QED BY <2>4, <2>6, <2>7, <2>8, Zenon DEF StoreOrdersInv, StoreSales, StoreStatuses, Wares
<1>2. CASE MoveInStore \/ TouchInStore BY <1>2, MovedInStoreNext, TouchedInStoreNext, Zenon
<1>3. CASE PullSales \/ HearOfSale \/ HearOfWare
  BY <1>3, PulledNext, HeardOfSaleNext, HeardOfWareNext, Zenon
<1>4. CASE AssignGoods \/ ArchiveGoods BY <1>4, GoodsAssignedNext, GoodsArchivedNext, Zenon
<1>5. CASE ArchiveBuyer \/ MoveSale BY <1>5, BuyerArchivedNext, SaleMovedNext, Zenon
<1> QED BY <1>1, <1>2, <1>3, <1>4, <1>5, Zenon DEF StoreOrderNext

LEMMA StoreOrdersTyped == StoreOrdersInv => StoreOrderTypeOK
<1> SUFFICES ASSUME StoreOrdersInv PROVE StoreOrderTypeOK OBVIOUS
<1>1. PICK w : w = trade OBVIOUS
<1>2. w \in TradeShape /\ w.line = 0 /\ w.said = "fine" BY <1>1, Zenon DEF StoreOrdersInv, TradeFits
<1>3. w.goods \in [GoodsRows -> [slug : {"", "plain", "sized", "sized, large"},
                                 sku : {"", "p", "s"}, item : {"", "x", "p", "s", "v", "auto"},
                                 vendor : BOOLEAN, live : BOOLEAN]]
  <2> DEFINE GoodsShape == [slug : {"", "plain", "sized", "sized, large"}, sku : {"", "p", "s"},
                      item : {"", "x", "p", "s", "v", "auto"}, vendor : BOOLEAN, live : BOOLEAN]
  <2>1. \A x \in PlainRow \cup SizedRow \cup {NoGoods} : x \in GoodsShape
    <3>1. \A x \in PlainRow : x \in GoodsShape BY DEF PlainRow
    <3>2. \A x \in SizedRow : x \in GoodsShape BY DEF SizedRow
    <3>3. NoGoods \in GoodsShape BY DEF NoGoods
    <3> HIDE DEF GoodsShape
    <3> QED BY <3>1, <3>2, <3>3
  <2>2. w.goods \in [GoodsRows -> PlainRow \cup SizedRow \cup {NoGoods}]
    BY <1>2, Zenon DEF TradeShape
  <2> QED BY <2>1, <2>2
<1>4. \A ware \in Wares : {w.listed[ware], w.first[ware], w.variation} \subseteq GoodsRows \cup {0}
  BY <1>2 DEF TradeShape, MaybeRow
<1>5. w.strays \in Nat BY <1>2 DEF TradeShape
<1>6. \A s \in StoreSales : /\ w.sales[s].paid \in Nat
                            /\ w.sales[s].stock \in {"none", "deducted", "restored"}
  <2>1. \A s \in StoreSales : w.sales[s] \in SaleShape BY <1>2 DEF TradeShape
  <2> QED BY <2>1 DEF SaleShape
<1> QED BY <1>1, <1>2, <1>3, <1>4, <1>5, <1>6, Zenon DEF StoreOrderTypeOK

\* One order, as it is read off the invariant.
LEMMA OneSaleSound ==
  ASSUME NEW x \in SaleShape, NEW status, SaleFits(x, status), reading \in {-1, 0, 1}
  PROVE  /\ x.paid <= x.sum
         /\ x.status # "none" /\ x.status # "refunded" /\ ~x.unpaid /\ reading = 0 => x.paid = x.sum
         /\ x.vendor => CASE x.status = "cancelled" -> x.stock # "deducted"
                          [] x.status = "refunded" -> TRUE
                          [] OTHER -> x.stock = "deducted" \/ reading < 0
<1>1. CASE x.status = "none"
  <2>1. x = NoSale BY <1>1, Zenon DEF SaleFits
  <2>2. x.paid = 0 /\ x.sum = 0 /\ ~x.vendor BY <2>1 DEF NoSale
  <2> QED BY <1>1, <2>2
<1>2. CASE x.status # "none"
  <2>1. PaidAsDue(x) /\ StockedAsSold(x) BY <1>2, Zenon DEF SaleFits
  <2>2. /\ x.sum = SaleTotal + reading /\ x.paid \in {0, SaleTotal} /\ (x.paid # 0 => reading >= 0)
    BY <2>1, Zenon DEF PaidAsDue
  <2>3. x.paid <= x.sum BY <2>2, StoreOrdersAssumption
  <2>4. x.status # "refunded" /\ ~x.unpaid /\ reading = 0 => x.paid = SaleTotal
    BY <2>1, Zenon DEF PaidAsDue
  <2>5. reading = 0 => x.sum = SaleTotal BY <2>2, StoreOrdersAssumption
  <2>6. x.status # "refunded" /\ ~x.unpaid /\ reading = 0 => x.paid = x.sum BY <2>4, <2>5, Zenon
  <2>7. x.vendor => /\ x.status = "cancelled" => x.stock # "deducted"
                    /\ x.status \notin {"cancelled", "refunded"} => x.stock = "deducted" \/ reading < 0
    BY <2>1, Zenon DEF StockedAsSold
  <2>8. x.vendor => CASE x.status = "cancelled" -> x.stock # "deducted"
                      [] x.status = "refunded" -> TRUE
                      [] OTHER -> x.stock = "deducted" \/ reading < 0
    <3>1. CASE x.status = "cancelled" BY <2>7, <3>1, Zenon
    <3>2. CASE x.status = "refunded" BY <2>7, <3>2
    <3>3. CASE x.status \notin {"cancelled", "refunded"} BY <2>7, <3>3
    <3> QED BY <3>1, <3>2, <3>3
  <2> QED BY <2>3, <2>6, <2>8, Zenon
<1> QED BY <1>1, <1>2, Zenon

LEMMA StoreOrdersTrueOf == StoreOrdersInv => StoreOrdersSound
<1> SUFFICES ASSUME StoreOrdersInv PROVE StoreOrdersSound OBVIOUS
<1>1. PICK w : w = trade OBVIOUS
<1>2. TradeFits(w) /\ w \in TradeShape BY <1>1, Zenon DEF StoreOrdersInv, TradeFits
<1>3. reading \in {-1, 0, 1} /\ RunsGetThrough BY Zenon DEF StoreOrdersInv
<1>4. Repointed("sized") <=> Moved(w) BY <1>1, Zenon DEF Repointed, Moved
<1>5. VendorsCredited
  <2>1. \A s \in StoreSales : CreditFits(w, s) BY <1>2, Zenon DEF TradeFits, SalesFit
  <2> QED BY <1>1, <1>4, <2>1, Zenon DEF CreditFits, VendorsCredited
<1>6. \A s \in StoreSales : w.sales[s] \in SaleShape /\ SaleFits(w.sales[s], saleStates[s])
  <2>1. \A s \in StoreSales : w.sales[s] \in SaleShape BY <1>2 DEF TradeShape
  <2> QED BY <1>2, <2>1, Zenon DEF TradeFits, SalesFit
<1>7. SalesPaid BY <1>1, <1>3, <1>6, OneSaleSound, Zenon DEF SalesPaid, Known
<1>8. SalesStocked BY <1>1, <1>3, <1>6, OneSaleSound, Zenon DEF SalesStocked
<1>9. NoStrays
  <2>1. "archived" \notin meddled => w.strays = 0 BY <1>2, Zenon DEF TradeFits, NothingArchived
  <2> QED BY <1>1, <2>1 DEF NoStrays
<1>10. KeepsItsRow
  <2>1. w.first["plain"] = w.listed["plain"] /\ (Moved(w) => lineSku # "product")
    BY <1>2, Zenon DEF TradeFits, PlainFits, SizedFits
  <2> QED BY <1>1, <1>4, <2>1 DEF KeepsItsRow, Repointed, Wares
<1> QED BY <1>3, <1>5, <1>7, <1>8, <1>9, <1>10, Zenon DEF StoreOrdersSound

(* What becomes of the store's products and orders: a vendor is credited, an order is paid *)
(* for and its stock taken as it should, every product keeps its row, no order is a stray and *)
(* runs get through, but for what is named there; for any orders, buyers and number of rows *)
(* (sync_single_product, sync_single_order). *)
THEOREM StoreOrdersTrue == StoreOrderSpec => [](StoreOrderTypeOK /\ StoreOrdersSound)
<1> QED
  BY StoreOrdersStart, StoreOrdersSteps, StoreOrdersTyped, StoreOrdersTrueOf, PTL
  DEF StoreOrderSpec
=============================================================================
