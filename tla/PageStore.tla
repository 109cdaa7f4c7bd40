------------------------------ MODULE PageStore ------------------------------
(***************************************************************************)
(* The page level of tablestore: the allocator of pager.rs and the chains, *)
(* the catalog and the row index that store.rs builds from pages.          *)
(*                                                                         *)
(* Data pages are numbered from 1 (FIRST_DATA_PAGE is page 1 here) and 0   *)
(* means "none", as on disk.  A page image is its first word (`next`, the  *)
(* same word for chain pages, index pages and free pages) and what follows *)
(* it: the slots of an index page, or chunk number i of a blob.  A zeroed  *)
(* page is an empty index page, an empty chain page and a free page with   *)
(* no successor.  A blob is its kind and its contents; PagesOf says how    *)
(* many pages it takes.                                                    *)
(*                                                                         *)
(* A public operation of the store is one transaction: it is computed on a *)
(* transaction record (the in-memory superblock and the dirty pages), then *)
(* committed (atomically: that is what Journal is about) or rolled back.   *)
(***************************************************************************)
EXTENDS Integers, FiniteSets, SequencesExt

CONSTANTS
    TableName,
    Schema,         \* schema blobs, by the pages they take
    Row,            \* row blobs, by the pages they take
    CAT_CAP,        \* catalog entries that fit a page
    IDX_CAP,        \* slots of an index page
    JCAP,           \* pages of the largest write-set, superblock included
    TotalPages,     \* data pages of the volume
    MaxSlots,       \* bound: slots of a table
    RollbackFails   \* may the read of page 0 in Pager::rollback fail?

ASSUME PageStoreAssumption ==
    /\ Schema \subseteq Nat \ {0} /\ Row \subseteq Nat \ {0} /\ 1 \in Schema
    /\ {CAT_CAP, IDX_CAP, JCAP, TotalPages} \subseteq Nat \ {0} /\ MaxSlots \in Nat
    /\ RollbackFails \in BOOLEAN

VARIABLES
    disk,      \* the committed data pages
    sbDisk,    \* the committed superblock (page 0)
    sb         \* Pager.sb, the superblock in memory

vars == <<disk, sbDisk, sb>>

Page == 1..TotalPages

Zero == [next |-> 0, slots |-> <<>>, chunk |-> <<>>]

CatalogBlob(cat) == <<"catalog", cat>>
SchemaBlob(s) == <<"schema", s>>
RowBlob(r) == <<"row", r>>

\* An empty blob still takes one page.
PagesOf(blob) ==
    IF blob[1] # "catalog" THEN blob[2]
    ELSE IF blob[2] = <<>> THEN 1 ELSE (Len(blob[2]) + CAT_CAP - 1) \div CAT_CAP
-----------------------------------------------------------------------------
(* Pager: a transaction in progress.  `stops` collects the superblocks at    *)
(* the moments when the device is read, i.e. when the operation may fail;    *)
(* `cached` is the pages it has read, which are not read from the device     *)
(* again.                                                                    *)

Begin == [sb |-> sb, dirty |-> <<>>, cached |-> {}, got |-> <<>>, heads |-> {}, ok |-> TRUE,
          stops |-> {sb}]

ReadPage(tx, p) == IF p \in DOMAIN tx.dirty THEN tx.dirty[p] ELSE disk[p]

WritePages(tx, images) ==
    [tx EXCEPT !.dirty = [p \in DOMAIN @ \cup DOMAIN images |->
                             IF p \in DOMAIN images THEN images[p] ELSE @[p]]]

WritePage(tx, p, img) == WritePages(tx, [q \in {p} |-> img])

\* The operation reads pages from the device, which may fail with the
\* superblock as it is now.
Fetch(tx, pages) ==
    IF pages \subseteq DOMAIN tx.dirty \cup tx.cached THEN tx
    ELSE [tx EXCEPT !.stops = @ \cup {tx.sb}, !.cached = @ \cup pages]

\* F(v), with v evaluated once.
With(v, F(_)) == CHOOSE r \in {F(x) : x \in {v}} : TRUE

\* The `?` operator: the next call of an operation, unless the last one failed.
Then(tx, Call(_)) == With(tx, LAMBDA x : IF x.ok THEN Call(x) ELSE x)

\* A loop of calls, one for each element of a sequence.
ForEach(tx, seq, Call(_, _)) ==
    FoldLeft(LAMBDA t, e : Then(t, LAMBDA x : Call(x, e)), tx, seq)

\* alloc_page; the page goes to the end of tx.got.
Alloc(tx) ==
    LET p == tx.sb.free_head IN
    CASE p # 0 ->
           [WritePage(Fetch(tx, {p}), p, Zero) EXCEPT !.sb.free_head = ReadPage(tx, p).next,
                                                   !.got = Append(@, p)]
      [] p = 0 /\ tx.sb.hwm <= TotalPages ->
           [WritePage(tx, tx.sb.hwm, Zero) EXCEPT !.sb.hwm = @ + 1,
                                                  !.got = Append(@, tx.sb.hwm)]
      [] OTHER -> [tx EXCEPT !.ok = FALSE]

AllocPages(tx, n) ==
    ForEach([tx EXCEPT !.got = <<>>], [i \in 1..n |-> i], LAMBDA t, i : Alloc(t))

\* free_page
FreePage(tx, p) ==
    [WritePage(tx, p, [Zero EXCEPT !.next = tx.sb.free_head]) EXCEPT !.sb.free_head = p]

\* The pages of a chain, in order.  Bounded: the code would follow a cycle for
\* ever, and PagesPartitioned says that there is none.
RECURSIVE Walk(_, _, _)
Walk(tx, p, n) ==
    IF p = 0 \/ n = 0 THEN <<>>
    ELSE With(ReadPage(tx, p).next, LAMBDA q : <<p>> \o Walk(tx, q, n - 1))

Chain(tx, head) == With(head, LAMBDA p : Walk(tx, p, TotalPages + 1))

\* The images of the chain that holds the blob in the given pages.
ChainImages(blob, pages) ==
    [p \in ToSet(pages) |->
        LET i == CHOOSE i \in DOMAIN pages : pages[i] = p IN
        [Zero EXCEPT !.next = IF i < Len(pages) THEN pages[i + 1] ELSE 0, !.chunk = <<blob, i>>]]

\* write_chain: all pages are allocated before the first one is written; the
\* head is the first of tx.got.
WriteChain(tx, blob) ==
    Then(AllocPages(tx, PagesOf(blob)), LAMBDA a : WritePages(a, ChainImages(blob, a.got)))

\* Mutant of FreeChain: only the head of the chain is freed.
FreeChainHead(tx, head) ==
    IF head = 0 THEN tx ELSE FreePage(Fetch(tx, {head}), head)

\* free_chain: each page is read for its successor, then freed.
FreeChain(tx, head) ==
    ForEach(tx, Chain(tx, head), LAMBDA t, p : FreePage(Fetch(t, {p}), p))

\* read_chain and decoding: the blob, or <<"corrupt">>.
Chunks(tx, head) ==
    With(Chain(tx, head), LAMBDA pages : [i \in DOMAIN pages |-> ReadPage(tx, pages[i]).chunk])

Blob(tx, head) ==
    With(Chunks(tx, head), LAMBDA chunks :
        IF /\ chunks # <<>>
           /\ chunks[1] # <<>>
           /\ Len(chunks) = PagesOf(chunks[1][1])
           /\ \A i \in DOMAIN chunks : chunks[i] = <<chunks[1][1], i>>
        THEN chunks[1][1] ELSE <<"corrupt">>)
-----------------------------------------------------------------------------
(* Store: catalog and row index *)

CatalogOk(tx) == tx.sb.catalog_head = 0 \/ Blob(tx, tx.sb.catalog_head)[1] = "catalog"

LoadCatalog(tx) == IF tx.sb.catalog_head = 0 THEN <<>> ELSE Blob(tx, tx.sb.catalog_head)[2]

\* store_catalog: the new chain is written before the old one is freed.
StoreCatalog(tx, cat) ==
    Then(WriteChain(tx, CatalogBlob(cat)), LAMBDA w :
        FreeChain([w EXCEPT !.sb.catalog_head = w.got[1]], tx.sb.catalog_head))

\* index_collect: every slot of the index chain, as [page, slot, head].
Index(tx, data_head) ==
    With(Chain(tx, data_head), LAMBDA pages :
        FlattenSeq([k \in DOMAIN pages |->
            [s \in DOMAIN ReadPage(tx, pages[k]).slots |->
                [page |-> pages[k], slot |-> s, head |-> ReadPage(tx, pages[k]).slots[s]]]]))

Live(tx, data_head) == SelectSeq(Index(tx, data_head), LAMBDA e : e.head # 0)

\* Mutant of IndexAppend: one slot too many in a page.
IndexAppendPast(tx, data_head, head) ==
    LET last == Last(Chain(tx, data_head)) IN
    WritePage(tx, last, [ReadPage(tx, last) EXCEPT !.slots = Append(@, head)])

\* index_append: into the last index page, or into a new one chained on it.
IndexAppend(tx, data_head, head) ==
    LET last == Last(Chain(tx, data_head))
        page == ReadPage(tx, last)
        read == Fetch(tx, ToSet(Chain(tx, data_head)))
    IN  IF Len(page.slots) < IDX_CAP
        THEN WritePage(read, last, [page EXCEPT !.slots = Append(@, head)])
        ELSE Then(AllocPages(read, 1), LAMBDA a :
                WritePages(a, [p \in {last, a.got[1]} |->
                    IF p = last THEN [page EXCEPT !.next = a.got[1]]
                    ELSE [Zero EXCEPT !.slots = <<head>>]]))

\* index_set
IndexSet(tx, e, head) ==
    WritePage(Fetch(tx, {e.page}), e.page, [ReadPage(tx, e.page) EXCEPT !.slots[e.slot] = head])
-----------------------------------------------------------------------------
(* Store::tx *)

\* Pager::commit: the write-set is the dirty pages and the superblock.
Fits(tx) == Cardinality(DOMAIN tx.dirty) + 1 <= JCAP

Commit(tx) ==
    /\ disk' = [p \in Page |-> IF p \in DOMAIN tx.dirty THEN tx.dirty[p] ELSE disk[p]]
    /\ sbDisk' = tx.sb
    /\ sb' = tx.sb

\* Pager::rollback: the dirty pages are dropped and page 0 is read again.  When
\* that read fails, the in-memory superblock stays as the operation left it:
\* Store::tx ignores the error.
Rollback(left) ==
    /\ sb' = sbDisk \/ (RollbackFails /\ sb' \in left)
    /\ UNCHANGED <<disk, sbDisk>>

\* Commit on success; roll back when the operation ran out of pages or its
\* write-set is too large for the journal, and when a page could not be read.
Run(f) ==
    \E tx \in {f} :
        \/ tx.ok /\ Fits(tx) /\ Commit(tx)
        \/ Rollback(IF tx.ok /\ Fits(tx) THEN tx.stops ELSE tx.stops \cup {tx.sb})

\* The pages of the chains with the given heads.
PagesAt(heads) == UNION {ToSet(Chain(Begin, h)) : h \in heads}

\* Every operation starts by reading: the catalog, and the chains it needs for
\* its checks.
After(heads) == Fetch(Begin, PagesAt(heads \cup {sb.catalog_head}))
-----------------------------------------------------------------------------
(* The operations.  `cat` is the catalog the operation loads and i the       *)
(* cat_index of the table it is called for.                                  *)

create_table(cat, t) ==
    /\ \A i \in DOMAIN cat : cat[i].name # t
    /\ Run(Then(WriteChain(After({}), SchemaBlob(1)), LAMBDA s :
              Then(AllocPages(s, 1), LAMBDA d :
                StoreCatalog(d, Append(cat,
                    [name |-> t, schema_head |-> s.got[1], data_head |-> d.got[1],
                     row_count |-> 0])))))

\* The schemas of the other tables are read for foreign keys to this one.
drop_table(cat, i) ==
    LET rows == Live(Begin, cat[i].data_head)
        others == {cat[j].schema_head : j \in DOMAIN cat \ {i}}
    IN  Run(Then(ForEach(After(others \cup {cat[i].data_head}),
                         [k \in DOMAIN rows |-> rows[k].head] \o
                            <<cat[i].data_head, cat[i].schema_head>>,
                         FreeChain),
              LAMBDA d : StoreCatalog(d, RemoveAt(cat, i))))

\* The schema of one table: the new chain is written before the old one, which
\* was read, is freed; tx.heads remembers the new head.
ReplaceSchema(tx, cat, i, s) ==
    LET old == cat[i].schema_head IN
    Then(WriteChain(Fetch(tx, PagesAt({old})), SchemaBlob(s)), LAMBDA w :
        [FreeChain(w, old) EXCEPT !.heads = @ \cup {<<i, w.got[1]>>}])

\* The catalog with the new schema heads.
Reheaded(cat, heads) ==
    [i \in DOMAIN cat |->
        [cat[i] EXCEPT !.schema_head = IF \E h \in heads : h[1] = i
                                       THEN (CHOOSE h \in heads : h[1] = i)[2] ELSE @]]

\* The schemas of the tables in `is` are replaced, in catalog order.
ReplaceSchemas(tx, cat, is, s) ==
    Then(ForEach(tx, SelectSeq([i \in DOMAIN cat |-> i], LAMBDA i : i \in is),
                 LAMBDA t, i : ReplaceSchema(t, cat, i, s)),
         LAMBDA r : StoreCatalog(r, Reheaded(cat, r.heads)))

\* rename_column, and put_schema without `rewrite` (one table).
retouch_schemas(cat, is, s) == Run(ReplaceSchemas(After({}), cat, is, s))

\* Mutant of RewriteRow: the slot keeps the old head.
RewriteRowUnlinked(tx, e, map) ==
    Then(FreeChain(Fetch(tx, PagesAt({e.head})), e.head), LAMBDA f :
        WriteChain(f, RowBlob(map[Blob(tx, e.head)[2]])))

\* One row of put_schema's rewrite: its old chain is freed before the new one
\* is written.
RewriteRow(tx, e, map) ==
    Then(FreeChain(Fetch(tx, PagesAt({e.head})), e.head), LAMBDA f :
        Then(WriteChain(f, RowBlob(map[Blob(tx, e.head)[2]])), LAMBDA w :
            IndexSet(w, e, w.got[1])))

\* put_schema with `rewrite`: add_column, drop_column, move_column.
rewrite_table(cat, i, s, map) ==
    Run(Then(ForEach(After({cat[i].schema_head, cat[i].data_head}), Live(Begin, cat[i].data_head),
                     LAMBDA tx, r : RewriteRow(tx, r, map)),
             LAMBDA rows : ReplaceSchemas(rows, cat, {i}, s)))

insert(cat, i, r) ==
    /\ Len(Index(Begin, cat[i].data_head)) < MaxSlots
    /\ Run(Then(WriteChain(After({cat[i].schema_head}), RowBlob(r)), LAMBDA w :
              Then(IndexAppend(w, cat[i].data_head, w.got[1]), LAMBDA a :
                StoreCatalog(a, [cat EXCEPT ![i].row_count = @ + 1]))))

\* The schema, the index page and the old row are read before anything changes.
update(cat, i, e, r) ==
    Run(Then(WriteChain(After({cat[i].schema_head, e.page, e.head}), RowBlob(r)), LAMBDA w :
          FreeChain(IndexSet(w, e, w.got[1]), e.head)))

\* Mutant of delete: the catalog entry keeps its row count.
deleteUncounted(cat, i, e) ==
    Run(Then(IndexSet(FreeChain(After({cat[i].schema_head, e.page, e.head}), e.head), e, 0),
             LAMBDA d : StoreCatalog(d, cat)))

\* saturating_sub on the row count.
delete(cat, i, e) ==
    Run(Then(IndexSet(FreeChain(After({cat[i].schema_head, e.page, e.head}), e.head), e, 0),
             LAMBDA d : StoreCatalog(d, [cat EXCEPT ![i].row_count = IF @ = 0 THEN 0 ELSE @ - 1])))

\* Pager::mount: power was cut between two transactions, or the user rebooted.
mount ==
    /\ sb' = sbDisk
    /\ UNCHANGED <<disk, sbDisk>>

\* Pager::format
Init ==
    /\ disk = [p \in Page |-> Zero]
    /\ sbDisk = [hwm |-> 1, free_head |-> 0, catalog_head |-> 0]
    /\ sb = sbDisk

Operation(cat) ==
    \/ \E t \in TableName : create_table(cat, t)
    \/ \E is \in SUBSET DOMAIN cat \ {{}}, s \in Schema : retouch_schemas(cat, is, s)
    \/ \E i \in DOMAIN cat :
         \/ drop_table(cat, i)
         \/ \E s \in Schema, map \in [Row -> Row] : rewrite_table(cat, i, s, map)
         \/ \E r \in Row : insert(cat, i, r)
         \/ \E e \in ToSet(Live(Begin, cat[i].data_head)) :
              delete(cat, i, e) \/ \E r \in Row : update(cat, i, e, r)

Next ==
    \/ mount
    \/ CatalogOk(Begin) /\ \E cat \in {LoadCatalog(Begin)} : Operation(cat)

Spec == Init /\ [][Next]_vars
-----------------------------------------------------------------------------
(* Properties *)

\* Images and superblocks are well formed.
TypeOK ==
    /\ \A p \in Page : disk[p].next \in Page \cup {0} /\ Len(disk[p].slots) <= IDX_CAP
    /\ \A s \in {sb, sbDisk} :
         s.hwm \in 1..(TotalPages + 1) /\ s.free_head \in Page \cup {0}
                                       /\ s.catalog_head \in Page \cup {0}

\* The committed volume, as a mount would see it.
Mounted == [Begin EXCEPT !.sb = sbDisk, !.dirty = disk]

Catalog == LoadCatalog(Mounted)

\* Every page of every structure of the volume, one after the other.
AllPages ==
    Chain(Mounted, sbDisk.catalog_head) \o Chain(Mounted, sbDisk.free_head) \o
    FlattenSeq([i \in DOMAIN Catalog |->
        Chain(Mounted, Catalog[i].schema_head) \o Chain(Mounted, Catalog[i].data_head) \o
        FlattenSeq([k \in DOMAIN Live(Mounted, Catalog[i].data_head) |->
            Chain(Mounted, Live(Mounted, Catalog[i].data_head)[k].head)])])

\* pager.rs "Return a page to the free list", store.rs write-new-then-free-old:
\* every page below the high-water mark belongs to exactly one of the catalog,
\* a schema, an index, a live row and the free list; none is lost, none is used
\* twice, no chain is cyclic.
PagesPartitioned ==
    /\ CatalogOk(Mounted)
    /\ IsInjective(AllPages)
    /\ ToSet(AllPages) = 1..(sbDisk.hwm - 1)

\* store.rs:284 "roll back (restoring the allocator) on any error so the store
\* is never left half-mutated", of what is durable: no page is part of two
\* structures, so nothing that is stored overwrites anything else.
NeverHalfMutated == CatalogOk(Mounted) /\ IsInjective(AllPages)

\* The row count that store_catalog writes next to the chains is the number of
\* live rows.
RowCountExact ==
    \A i \in DOMAIN Catalog : Catalog[i].row_count = Len(Live(Mounted, Catalog[i].data_head))

(* The tables that the committed pages decode to: the refinement mapping to  *)
(* TableHeap.                                                                *)
Contents(blob) == IF blob = <<"corrupt">> THEN -1 ELSE blob[2]

AbsTable(m, e) ==
    [schema |-> Contents(Blob(m, e.schema_head)),
     rows |-> With(Index(m, e.data_head), LAMBDA index :
                [i \in DOMAIN index |->
                    IF index[i].head = 0 THEN 0 ELSE Contents(Blob(m, index[i].head))])]

AbsTables ==
    With(Mounted, LAMBDA m : With(LoadCatalog(m), LAMBDA cat :
        [t \in {cat[i].name : i \in DOMAIN cat} |->
            With(CHOOSE e \in ToSet(cat) : e.name = t, LAMBDA e : AbsTable(m, e))]))
=============================================================================
