------------------------------- MODULE StoreTerms -------------------------------
(***************************************************************************)
(* The categories of the ERP and of the WooCommerce store, or the brands,  *)
(* which have no parents: the terms, what maps one to the other, and the   *)
(* runs that publish the ERP's terms and import the store's.               *)
(*                                                                         *)
(* A run works on what it read when its phase began, so a phase is a step: *)
(* the import commits once, at its end; what the publishing did in the     *)
(* store stays when the worker dies before it commits.  Operators and the  *)
(* store's staff act between the phases.                                   *)
(***************************************************************************)
EXTENDS Integers, FiniteSets, SequencesExt

CONSTANTS Slugs,
          KnownSlugs,         \* the slugs of terms that were synchronised before
          MaxTerms,      \* bound: terms of a side, the store's deleted ones included
          MaxTermEdits,  \* bound: what operators and staff do
          MaxTermRuns    \* bound: runs

ASSUME StoreTermsAssumption == MaxTerms \in Nat /\ MaxTermEdits \in Nat /\ MaxTermRuns \in Nat

VARIABLES kind,      \* "category" or "brand"
          book,      \* local, remote: the terms of either side; map: external_resource_map, the
                     \*   row of each of the store's terms, 0 for none
          mode,      \* of the run: "incremental" imports first, "products" publishes first,
                     \*   "outbox", or a run for a vendor, imports nothing
          published, \* the rows the run has published
          phase,     \* what the run does next
          outcome,   \* of the last phase, until somebody changes a term
          fresh,     \* history: rows and their fields an operator set, not published since
          undone,    \* history: what an import set back: the field, the mode, and FALSE if the run
                     \*   had published it, nobody changed a term meanwhile, and no two terms were
                     \*   ever mapped to one row
          quirks,    \* history: "crash", "merged" (an import mapped two terms to one row),
                     \*   "renamed" (somebody changed a slug), "turned" (the staff a parent)
          termEdits, termRuns

termVars == <<kind, book, mode, phase, outcome, published, fresh, undone, quirks, termEdits,
              termRuns>>

-----------------------------------------------------------------------------
TermsOf(side) == 1..Len(side)
With(side, slug) == {x \in TermsOf(side) : side[x].slug = slug}
\* The store's terms that are not deleted; they keep their number and lose their slug.
Living(b) == {t \in TermsOf(b.remote) : b.remote[t].slug # ""}
MappedTo(b, r) == {t \in TermsOf(b.map) : b.map[t] = r}

\* A term and the ones above it, from the top; longer than the side when there is no top.
ParentLine(side, x) ==
  LET line[n \in 0..Len(side)] ==
        IF n = 0 THEN <<x>>
        ELSE LET below == line[n - 1]
                 p == side[Head(below)].parent
             IN IF p = 0 THEN below ELSE <<p>> \o below
  IN line[Len(side)]
Loops(side, x) == Len(ParentLine(side, x)) > Len(side)
Circular(side) == \E x \in TermsOf(side) : Loops(side, x)

-----------------------------------------------------------------------------
\* sync_single_category, sync_single_brand: the mapped row, one with the term's slug, or a
\* new one.  The unique key refuses two rows with one slug, and the import with them.
RowFor(b, t) == IF b.map[t] # 0 THEN b.map[t]
                ELSE IF With(b.local, b.remote[t].slug) # {}
                THEN CHOOSE r \in With(b.local, b.remote[t].slug) : TRUE
                ELSE Len(b.local) + 1
ImportTerm(b, t) ==
  LET r == RowFor(b, t)
      slug == b.remote[t].slug
      new == [slug |-> slug, parent |-> 0, live |-> TRUE]
  IN IF ~b.fine \/ With(b.local, slug) \ {r} # {} THEN [b EXCEPT !.fine = FALSE]
     ELSE [b EXCEPT !.map[t] = r,
                    !.local = IF r > Len(@) THEN Append(@, new)
                              ELSE [@ EXCEPT ![r].slug = slug, ![r].live = TRUE]]

\* Faulty: the import leaves the parents as they are.
KeepParent(b, t) == b

\* pull_categories: the parents, once all the terms are known; a term without one is left.
ImportParent(b, t) ==
  LET p == b.remote[t].parent
  IN IF p = 0 \/ ~b.fine THEN b ELSE [b EXCEPT !.local[b.map[t]].parent = b.map[p]]

\* The store's terms come in the order of their names, which may be any.
AfterImport(b) == {FoldLeft(ImportParent, FoldLeft(ImportTerm, b, order), order) :
                     order \in SetToSeqs(Living(b))}

-----------------------------------------------------------------------------
\* The store refuses another term's slug, and to put a term below itself.
StoreChange(b, t, slug, parent) ==
  IF With(b.remote, slug) \ {t} # {} THEN [b EXCEPT !.going = FALSE]
  ELSE LET below == parent # 0 /\ t \in ToSet(ParentLine(b.remote, parent))
       IN [b EXCEPT !.remote[t] = [slug |-> slug, parent |-> IF below THEN 0 ELSE parent]]

StoreCreate(b, slug) == [b EXCEPT !.remote = Append(@, [slug |-> slug, parent |-> 0]),
                                  !.map = Append(@, 0)]

\* _find_remote_taxonomy.
Found(b, slug) == With(b.remote, slug)

\* _taxonomy_mapping: one of the mappings of a row.
MappingOf(b, r) == IF b.oldest THEN CHOOSE t \in MappedTo(b, r) : \A u \in MappedTo(b, r) : t <= u
                   ELSE CHOOSE t \in MappedTo(b, r) : \A u \in MappedTo(b, r) : t >= u

\* _sync_remote_taxonomy_term: the mapped term, else the one with the slug, else a new one;
\* a parent is sent when there is one.
SendTerm(b, r) ==
  LET row == b.local[r]
      gone == MappedTo(b, r) # {} /\ MappingOf(b, r) \notin Living(b)
      kept == IF gone THEN [b EXCEPT !.map[MappingOf(b, r)] = 0] ELSE b
      old == IF MappedTo(b, r) # {} /\ ~gone THEN {MappingOf(b, r)} ELSE Found(b, row.slug)
      made == IF old = {} THEN StoreCreate(kept, row.slug) ELSE kept
      t == IF old = {} THEN Len(made.remote) ELSE CHOOSE t \in old : TRUE
      parent == IF row.parent = 0 THEN made.remote[t].parent ELSE MappingOf(b, row.parent)
  IN IF b.going THEN StoreChange([made EXCEPT !.map[t] = r], t, row.slug, parent) ELSE b

\* ensure_remote_category: its parents first.  A loop of parents ends in an error before
\* anything is sent.
Ensure(b, r) ==
  LET line == ParentLine(b.local, r)
      sent == FoldLeft(SendTerm, [b EXCEPT !.going = TRUE], line)
  IN IF Len(line) > Len(b.local) THEN [b EXCEPT !.fine = FALSE]
     ELSE [sent EXCEPT !.fine = b.fine /\ sent.going]

\* Rows are published in the order of their names, which may be any.
AfterPublishing(b, rows) ==
  {after \in {FoldLeft(Ensure, b, order) : order \in SetToSeqs(rows)} :
     Len(after.remote) <= MaxTerms}

-----------------------------------------------------------------------------
\* Terms both sides know, the second one perhaps below the first.
StoreTermsInit ==
  /\ kind \in {"category", "brand"}
  /\ \E parent \in IF kind = "category" THEN {0, 1} ELSE {0} :
       book = [local |-> [r \in 1..Len(KnownSlugs) |-> [slug |-> KnownSlugs[r], live |-> TRUE,
                                                   parent |-> IF r = 2 THEN parent ELSE 0]],
               remote |-> [t \in 1..Len(KnownSlugs) |-> [slug |-> KnownSlugs[t],
                                                    parent |-> IF t = 2 THEN parent ELSE 0]],
               map |-> [t \in 1..Len(KnownSlugs) |-> t],
               fine |-> TRUE, going |-> TRUE, oldest |-> TRUE]
  /\ mode = "none" /\ phase = "idle" /\ outcome = "edited" /\ published = {}
  /\ fresh = {} /\ undone = {} /\ quirks = {} /\ termEdits = 0 /\ termRuns = 0

Parents(side) == IF kind = "category" THEN 0..Len(side) ELSE {0}

Edited == /\ termEdits < MaxTermEdits /\ termEdits' = termEdits + 1 /\ outcome' = "edited"
          /\ published' = IF phase = "idle" THEN {} ELSE published
          /\ UNCHANGED <<kind, mode, phase, undone, termRuns>>
\* What an operator sets in row r.
Set(r, row) ==
  LET changed == {f \in {"slug", "parent", "live"} : row[f] # book.local[r][f]}
  IN /\ book' = [book EXCEPT !.local[r] = row]
     /\ fresh' = {f \in fresh : f[1] # r \/ f[2] \notin changed}
                   \cup {<<r, field>> : field \in changed}

Rename(r, slug) == /\ With(book.local, slug) = {} /\ quirks' = quirks \cup {"renamed"}
                   /\ Set(r, [book.local[r] EXCEPT !.slug = slug])

NewRow(slug, parent) ==
  /\ Len(book.local) < MaxTerms /\ With(book.local, slug) = {} /\ Edited
  /\ book' = [book EXCEPT !.local = Append(@, [slug |-> slug, parent |-> parent, live |-> TRUE])]
  /\ UNCHANGED <<fresh, quirks>>

\* create_category: below any category there is, or at the top.
CreateCategory == \E slug \in Slugs, parent \in Parents(book.local) :
  kind = "category" /\ NewRow(slug, parent)

\* create_brand.
CreateBrand == \E slug \in Slugs : kind = "brand" /\ NewRow(slug, 0)

\* update_category: any parent but itself.
UpdateCategory == \E r \in TermsOf(book.local) :
  /\ kind = "category" /\ Edited
  /\ \/ \E slug \in Slugs : Rename(r, slug)
     \/ /\ \E parent \in Parents(book.local) \ {r, book.local[r].parent} :
             Set(r, [book.local[r] EXCEPT !.parent = parent])
        /\ UNCHANGED quirks

\* update_brand.
UpdateBrand == \E r \in TermsOf(book.local), slug \in Slugs :
  /\ kind = "brand" /\ Edited /\ Rename(r, slug)

Archive(r) == /\ book.local[r].live /\ Edited
              /\ Set(r, [book.local[r] EXCEPT !.live = FALSE]) /\ UNCHANGED quirks
\* archive_category, archive_brand.
ArchiveCategory == \E r \in TermsOf(book.local) : kind = "category" /\ Archive(r)
ArchiveBrand == \E r \in TermsOf(book.local) : kind = "brand" /\ Archive(r)

\* The staff of the store: a new term, another slug or parent, a deletion, which leaves the
\* terms below to the parent.
StaffCreatesTerm == \E slug \in Slugs :
  /\ Len(book.remote) < MaxTerms /\ With(book.remote, slug) = {} /\ Edited
  /\ book' = StoreCreate(book, slug) /\ UNCHANGED <<fresh, quirks>>
StaffRenamesTerm == \E t \in Living(book), slug \in Slugs :
  /\ With(book.remote, slug) = {} /\ Edited
  /\ book' = StoreChange(book, t, slug, book.remote[t].parent)
  /\ quirks' = quirks \cup {"renamed"} /\ UNCHANGED fresh
StaffMovesTerm == \E t \in Living(book), parent \in Living(book) \cup {0} :
  /\ kind = "category" /\ parent # t /\ parent # book.remote[t].parent /\ Edited
  /\ book' = StoreChange(book, t, book.remote[t].slug, parent) /\ book' # book
  /\ quirks' = quirks \cup {"turned"} /\ UNCHANGED fresh
StaffDeletesTerm == \E t \in Living(book) :
  /\ Edited /\ UNCHANGED <<fresh, quirks>>
  /\ book' = [book EXCEPT !.remote = [u \in TermsOf(@) |->
                IF u = t THEN [slug |-> "", parent |-> 0]
                ELSE [@[u] EXCEPT !.parent = IF @ = t THEN book.remote[t].parent ELSE @]]]

-----------------------------------------------------------------------------
\* run_woocommerce_sync, as far as terms go.
FirstPhase(m) == IF m = "incremental" THEN "import" ELSE "publish"
StartTermRun == \E m \in {"incremental", "products", "outbox"} :
  /\ phase = "idle" /\ termRuns < MaxTermRuns /\ termEdits > 0 /\ termRuns' = termRuns + 1
  /\ mode' = m /\ phase' = FirstPhase(m) /\ outcome' = "running" /\ published' = {}
  /\ UNCHANGED <<kind, book, fresh, undone, quirks, termEdits>>

\* The phase ends well or badly, and the run with it when it was the last.
PhaseEnds(fine) ==
  /\ phase' = IF fine /\ phase = FirstPhase(mode) /\ mode # "outbox"
              THEN (CHOOSE p \in {"import", "publish"} : p # phase) ELSE "idle"
  /\ outcome' = IF ~fine THEN "failed" ELSE IF phase' # "idle" THEN outcome
                ELSE IF outcome # "running" THEN "edited"
                ELSE IF mode = "outbox" THEN "sent" ELSE "done"
  /\ mode' = IF phase' = "idle" THEN "none" ELSE mode
  /\ UNCHANGED <<kind, termEdits, termRuns>>

Tidy(b) == [b EXCEPT !.fine = TRUE, !.going = TRUE, !.oldest = TRUE]

\* What an operator set: a term at the top, which is not published, is not just any parent.
Chosen(f) == IF f[2] = "parent" /\ book.local[f[1]].parent = 0 THEN "top" ELSE f[2]

\* Neither that a term is archived is sent nor that it has no parent.
Among(f, rows) == f[1] \in rows /\ Chosen(f) \in {"slug", "parent"}
TermTold(f) == Among(f, published) /\ outcome = "running"

\* Two of the store's terms are mapped to row r.
Twice(b, r) == Cardinality(MappedTo(b, r) \cap Living(b)) > 1
Merging(b) == IF \E r \in TermsOf(b.local) : Twice(b, r) THEN quirks \cup {"merged"} ELSE quirks

\* pull_categories, pull_brands.
ImportTerms == phase = "import" /\ \E now \in AfterImport(book) :
  LET lost == {f \in fresh : now.local[f[1]][f[2]] # book.local[f[1]][f[2]]}
  IN /\ Len(now.local) <= MaxTerms
     /\ book' = IF now.fine THEN now ELSE book
     /\ fresh' = IF now.fine THEN {f \in fresh \ lost : ~TermTold(f)} ELSE fresh
     /\ undone' = IF ~now.fine THEN undone
                  ELSE undone \cup {<<Chosen(f), mode,
                                      ~TermTold(f) \/ "merged" \in Merging(now)>> : f \in lost}
     /\ quirks' = IF now.fine THEN Merging(now) ELSE quirks
     /\ PhaseEnds(now.fine) /\ UNCHANGED published

\* apply_product_taxonomies_from_woocommerce: a product that is imported, by a run or a
\* webhook, brings a term nothing maps yet, without its parent.
ImportWithProduct == \E t \in Living(book) :
  LET now == ImportTerm(book, t)
      lost == {f \in fresh : now.local[f[1]][f[2]] # book.local[f[1]][f[2]]}
  IN /\ book.map[t] = 0 /\ Len(now.local) <= MaxTerms
     /\ book' = now /\ fresh' = fresh \ lost /\ quirks' = Merging(now)
     /\ UNCHANGED <<kind, mode, phase, outcome, published, undone, termEdits, termRuns>>

\* Which of several mappings of a row is found is up to the database.
Findable == IF \E r \in TermsOf(book.local) : Cardinality(MappedTo(book, r)) > 1 THEN BOOLEAN
           ELSE {TRUE}

\* The rows that are published with others: those, and the ones above them.
WithParents(rows) == UNION {ToSet(ParentLine(book.local, r)) : r \in rows}

\* sync_local_taxonomies_for_sync: the terms one by one, by name, that products refer to: of
\* the company, of the vendor or of the outbox; what is wrong with one does not keep the
\* others.  Products come and go, so these may be any.
PublishTerms == \E used \in SUBSET TermsOf(book.local), oldest \in Findable :
  /\ phase = "publish"
  /\ \E now \in AfterPublishing([book EXCEPT !.oldest = oldest], used) :
       /\ book' = Tidy(now) /\ published' = IF now.fine THEN WithParents(used) ELSE {}
       /\ PhaseEnds(now.fine)
  /\ fresh' = IF mode = "products" THEN fresh ELSE {f \in fresh : ~Among(f, published')}
  /\ UNCHANGED <<undone, quirks>>

\* The worker dies while it publishes: the store keeps what it was sent.
PublishingDies == \E used \in SUBSET TermsOf(book.local) :
  /\ phase = "publish" /\ "crash" \notin quirks
  /\ \E now \in AfterPublishing(book, used) :
       /\ now.remote # book.remote
       /\ book' = [book EXCEPT !.remote = now.remote,
                               !.map = [t \in TermsOf(now.map) |->
                                          IF t > Len(@) THEN 0 ELSE @[t]]]
  /\ phase' = "idle" /\ mode' = "none" /\ outcome' = "edited"
  /\ quirks' = quirks \cup {"crash"}
  /\ UNCHANGED <<kind, published, fresh, undone, termEdits, termRuns>>

StoreTermsNext ==
  \/ CreateCategory \/ CreateBrand \/ UpdateCategory \/ UpdateBrand
  \/ ArchiveCategory \/ ArchiveBrand
  \/ StaffCreatesTerm \/ StaffRenamesTerm \/ StaffMovesTerm \/ StaffDeletesTerm
  \/ StartTermRun \/ ImportTerms \/ ImportWithProduct \/ PublishTerms \/ PublishingDies

StoreTermsSpec == StoreTermsInit /\ [][StoreTermsNext]_termVars

-----------------------------------------------------------------------------
(* The terms are of their types. *)
StoreTermsTypeOK ==
  /\ Len(book.map) = Len(book.remote) /\ book.fine /\ book.going
  /\ \A r \in TermsOf(book.local) : book.local[r].slug \in Slugs
                                    /\ book.local[r].parent \in 0..Len(book.local)
  /\ \A t \in TermsOf(book.remote) : book.map[t] \in 0..Len(book.local)
  /\ phase \in {"idle", "import", "publish"}

(* After a run that got through, what it published is in the store once, and the store has *)
(* it as the ERP does, but for a parent the store has below it; after one that imported as *)
(* well, both sides agree on every term of the store, but that the ERP may have one below *)
(* another that the store has at the top and no product refers to.  Not so if an import mapped *)
(* two terms to one row, or a line of parents has no end. *)
SameSlug(t) == book.map[t] # 0 /\ book.local[book.map[t]].slug = book.remote[t].slug
SameParent(t) == LET p == book.remote[t].parent
                 IN book.local[book.map[t]].parent = IF p = 0 THEN 0 ELSE book.map[p]
IsBelow(t, u) == t \in ToSet(ParentLine(book.remote, u))
TermsOfRow(r) == MappedTo(book, r) \cap Living(book)
StoreHas(r) == \A t \in TermsOfRow(r) :
  LET above == book.local[r].parent
  IN SameSlug(t) /\ (above # 0 => SameParent(t) \/ \E u \in TermsOfRow(above) : IsBelow(t, u))
RunAgrees == outcome \in {"sent", "done"} /\ "merged" \notin quirks =>
  /\ \A r \in published : Cardinality(TermsOfRow(r)) = 1
  /\ Circular(book.local) \/ \A r \in published : StoreHas(r)
  /\ outcome = "done" /\ ~Circular(book.local) => \A t \in Living(book) :
       /\ SameSlug(t)
       /\ book.remote[t].parent # 0 \/ book.map[t] \in published => SameParent(t)

(* Terms that are made, moved or deleted on either side, or a worker that dies, never stop a *)
(* run or map two terms to one row: only renaming one does (sync_single_category, *)
(* _sync_remote_taxonomy_term), and a line of parents without an end (ensure_remote_category) *)
GetsThrough == /\ outcome = "failed" => Circular(book.local) \/ "renamed" \in quirks
               /\ "merged" \in quirks => "renamed" \in quirks

(* ... which only comes of what an operator set and has not been published, of staff who moved *)
(* terms, of an import that put back a parent an operator had taken away, or of a renamed term: *)
(* it is taken for another, and the store refuses to put a term below itself without a word. *)
LoopsMade == Circular(book.local) => \/ \E f \in fresh : f[2] = "parent"
                                     \/ {"turned", "renamed"} \cap quirks # {}
                                     \/ \E u \in undone : u[1] = "top"

(* A run that publishes first sets back no slug and no parent an operator had set before it *)
(* of a term that products refer to (run_woocommerce_sync), unless two terms are one row's. *)
OperatorsKept == \A u \in undone : u[1] \in {"slug", "parent"} => u[2] = "incremental" \/ u[3]

StoreTermsSound == RunAgrees /\ GetsThrough /\ LoopsMade /\ OperatorsKept
=============================================================================
