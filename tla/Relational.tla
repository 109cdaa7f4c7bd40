----------------------------- MODULE Relational -----------------------------
(***************************************************************************)
(* The relational level of tablestore/src/store.rs: schemas, rows, foreign *)
(* keys and the checks every mutating operation makes before it commits.   *)
(*                                                                         *)
(* Each operation is one Store::tx and so one step; an operation that the  *)
(* code rejects changes nothing and is a step that is not enabled.  Pages, *)
(* chains and the catalog encoding are PageStore's subject; what a crash   *)
(* or a device error does to a transaction is Journal's and JournalIo's.   *)
(*                                                                         *)
(* Rows are positional, as in the code: a row is the sequence of its cells *)
(* and a column is found by looking its name up in the schema.  A row id   *)
(* is the position of the row's slot in the table's index; slots are only  *)
(* appended, and a deleted row's slot stays empty.                         *)
(***************************************************************************)
EXTENDS Integers, Sequences, FiniteSets, SequencesExt

CONSTANTS
    TableName,   \* table names
    ColName,     \* column names
    Type,        \* column types
    Num,         \* what distinguishes values of one type
    Null,        \* a NULL cell
    Width,       \* display widths of a column
    MaxCols,     \* bound: columns of all tables together
    MaxFks,      \* bound: foreign keys of a table
    MaxSlots     \* bound: rows ever inserted into the tables that exist

ASSUME RelationalAssumption ==
    /\ Null \notin Type \X Num
    /\ MaxCols \in Nat /\ MaxFks \in Nat /\ MaxSlots \in Nat
    /\ Width # {}

VARIABLE db   \* the tables of the catalog, by name

\* Value::type_of is the first component.
Value == Type \X Num
Cell == Value \cup {Null}

Column == [name : ColName, ty : Type, nullable : BOOLEAN, unique : BOOLEAN, width : Width]

\* add_fk names a key after its source column: "<from>_fk", "<from>_fk2", ...
FkName == ColName \X Nat

ForeignKey == [name : FkName, from_col : ColName, to_table : TableName, to_col : ColName]

\* A decoded schema, its live rows by slot, the slots appended so far and the
\* row count of the catalog entry.
IsTable(T) ==
    /\ T = [columns |-> T.columns, fks |-> T.fks, ref_cols |-> T.ref_cols, rows |-> T.rows,
            slots |-> T.slots, row_count |-> T.row_count]
    /\ T.columns \in Seq(Column)
    /\ T.fks \in Seq(ForeignKey)
    /\ T.ref_cols \in Seq(ColName)
    /\ T.slots \in 0..MaxSlots
    /\ T.row_count \in 0..MaxSlots
    /\ T.rows \in [DOMAIN T.rows -> Seq(Cell)]
    /\ DOMAIN T.rows \subseteq 1..T.slots

\* Table::new and an empty index page.
NewTable == [columns |-> <<>>, fks |-> <<>>, ref_cols |-> <<>>, rows |-> <<>>,
             slots |-> 0, row_count |-> 0]
-----------------------------------------------------------------------------
(* Reading.  T is a table: its schema and its rows. *)

Names(T) == {T.columns[i].name : i \in DOMAIN T.columns}

\* Table::column_index: the first column of that name.
column_index(T, c) ==
    CHOOSE i \in DOMAIN T.columns :
        T.columns[i].name = c /\ \A j \in 1..(i - 1) : T.columns[j].name # c

column(T, c) == T.columns[column_index(T, c)]

\* The cell of a live row in the column named c.
CellOf(T, id, c) == T.rows[id][column_index(T, c)]

\* all_values_in: the values of a column over the live rows.
all_values_in(T, c) == {CellOf(T, id, c) : id \in DOMAIN T.rows} \ {Null}

\* The foreign keys of every table that point at column c of table t.
FksInto(t, c) ==
    {f \in UNION {ToSet(db[o].fks) : o \in DOMAIN db} : f.to_table = t /\ f.to_col = c}

\* follow_fk: the rows of the target table that hold the key of row id.
follow_fk(t, id, f) ==
    IF CellOf(db[t], id, f.from_col) = Null THEN {}
    ELSE {r \in DOMAIN db[f.to_table].rows :
            CellOf(db[f.to_table], r, f.to_col) = CellOf(db[t], id, f.from_col)}

\* The live rows <<o, f, r>> of any table that reference row id of t.
referencing_rows(t, id) ==
    UNION {UNION {{<<o, f, r>> : r \in {r \in DOMAIN db[o].rows :
                      /\ CellOf(db[t], id, f.to_col) # Null
                      /\ CellOf(db[o], r, f.from_col) = CellOf(db[t], id, f.to_col)}} :
                  f \in {f \in ToSet(db[o].fks) : f.to_table = t}} : o \in DOMAIN db}
-----------------------------------------------------------------------------
(* Checks *)

\* Type and NOT NULL.
CellFits(c, v) == IF v = Null THEN c.nullable ELSE v[1] = c.ty

CellsFit(T, cells) == \A i \in DOMAIN cells : CellFits(T.columns[i], cells[i])

\* UNIQUE, among non-NULL values; the row being updated is left out.
KeepsUnique(T, cells, exclude) ==
    \A i \in DOMAIN cells : T.columns[i].unique /\ cells[i] # Null =>
        \A id \in DOMAIN T.rows \ exclude : T.rows[id][i] # cells[i]

\* Foreign keys: the value exists in the target column, where the pending
\* cells stand in for the row being updated.
ReferencesExist(t, cells, exclude) ==
    \A f \in ToSet(db[t].fks) :
        LET v == cells[column_index(db[t], f.from_col)]
            tc == column_index(db[f.to_table], f.to_col)
        IN  v = Null \/ \E id \in DOMAIN db[f.to_table].rows :
                v = IF f.to_table = t /\ id \in exclude THEN cells[tc]
                    ELSE db[f.to_table].rows[id][tc]

validate(t, cells, exclude) ==
    /\ CellsFit(db[t], cells)
    /\ KeepsUnique(db[t], cells, exclude)
    /\ ReferencesExist(t, cells, exclude)

\* Mutant of Orphans: only references from the same table count.
OrphansHere(t, id, cells) ==
    \E ref \in referencing_rows(t, id) :
        /\ ref[1] = t /\ ref[3] # id
        /\ LET tc == column_index(db[t], ref[2].to_col) IN
           tc \notin DOMAIN cells \/ cells[tc] # db[t].rows[id][tc]

\* Restrict: some other live row references row id of t by a key that the row
\* loses when its cells become `cells` (all of them when it is deleted).
Orphans(t, id, cells) ==
    \E ref \in referencing_rows(t, id) :
        /\ <<ref[1], ref[3]>> # <<t, id>>
        /\ LET tc == column_index(db[t], ref[2].to_col) IN
           tc \notin DOMAIN cells \/ cells[tc] # db[t].rows[id][tc]

\* The first of <from>_fk, <from>_fk2, ... that no key of the table has.
FreshFkName(t, c) ==
    <<c, CHOOSE n \in 1..(Len(db[t].fks) + 1) :
            /\ \A f \in ToSet(db[t].fks) : f.name # <<c, n>>
            /\ \A m \in 1..(n - 1) : \E f \in ToSet(db[t].fks) : f.name = <<c, m>>>>
-----------------------------------------------------------------------------
(* Schema operations *)

Init == db = <<>>

create_table(t) ==
    /\ t \notin DOMAIN db
    /\ db' = [u \in DOMAIN db \cup {t} |-> IF u = t THEN NewTable ELSE db[u]]

drop_table(t) ==
    /\ \A o \in DOMAIN db \ {t} : \A f \in ToSet(db[o].fks) : f.to_table # t
    /\ db' = [u \in DOMAIN db \ {t} |-> db[u]]

\* put_schema with `rewrite`: the schema and every live row change together.
PutSchema(t, columns, rows) == db' = [db EXCEPT ![t].columns = columns, ![t].rows = rows]

\* Every live row with a NULL cell added at the end.
Widened(t) == [id \in DOMAIN db[t].rows |-> Append(db[t].rows[id], Null)]

\* Columns of the whole database, which MaxCols bounds.
ColumnCount == Cardinality(UNION {{t} \X DOMAIN db[t].columns : t \in DOMAIN db})

\* Slots of the whole database, which MaxSlots bounds.
SlotCount == Cardinality(UNION {{t} \X (1..db[t].slots) : t \in DOMAIN db})

\* Mutant of add_column: existing rows are not considered.
add_columnAny(t, c) ==
    /\ ColumnCount < MaxCols
    /\ c.name \notin Names(db[t])
    /\ PutSchema(t, Append(db[t].columns, c), Widened(t))

add_column(t, c) ==
    /\ ColumnCount < MaxCols
    /\ c.nullable \/ db[t].row_count = 0
    /\ c.name \notin Names(db[t])
    /\ PutSchema(t, Append(db[t].columns, c), Widened(t))

\* Vec::retain: the elements at the positions that are kept, in their order.
Retained(s, kept) ==
    [n \in 1..Cardinality(kept) |->
        s[CHOOSE i \in kept : Cardinality({j \in kept : j < i}) = n - 1]]

drop_column(t, c) ==
    /\ c \in Names(db[t])
    /\ \A f \in ToSet(db[t].fks) : f.from_col # c
    /\ FksInto(t, c) = {}
    /\ LET i == column_index(db[t], c) IN
       db' = [db EXCEPT ![t].columns = RemoveAt(@, i),
                        ![t].ref_cols = Retained(@, {k \in DOMAIN @ : @[k] # c}),
                        ![t].rows = [id \in DOMAIN @ |-> RemoveAt(@[id], i)]]

\* Vec::remove(from) and Vec::insert(to).
Moved(s, from, to) == InsertAt(RemoveAt(s, from), to, s[from])

\* Mutant of move_column: the cells stay where they are.
move_columnSchemaOnly(t, c, to) ==
    /\ c \in Names(db[t])
    /\ to \in DOMAIN db[t].columns
    /\ to # column_index(db[t], c)
    /\ PutSchema(t, Moved(db[t].columns, column_index(db[t], c), to), db[t].rows)

move_column(t, c, to) ==
    /\ c \in Names(db[t])
    /\ to \in DOMAIN db[t].columns
    /\ to # column_index(db[t], c)
    /\ LET from == column_index(db[t], c) IN
       PutSchema(t, Moved(db[t].columns, from, to),
                 [id \in DOMAIN db[t].rows |-> Moved(db[t].rows[id], from, to)])

\* Mutant of RenamedFk: references from other tables keep the old name.
RenamedFkOwn(o, f, t, old, new) ==
    [f EXCEPT !.from_col = IF o = t /\ @ = old THEN new ELSE @,
              !.to_col = IF o = t /\ f.to_table = t /\ @ = old THEN new ELSE @]

\* A key of table o after column old of table t was renamed.
RenamedFk(o, f, t, old, new) ==
    [f EXCEPT !.from_col = IF o = t /\ @ = old THEN new ELSE @,
              !.to_col = IF f.to_table = t /\ @ = old THEN new ELSE @]

rename_column(t, old, new) ==
    /\ old \in Names(db[t])
    /\ new \notin Names(db[t])
    /\ db' = [o \in DOMAIN db |->
          [db[o] EXCEPT
            !.columns = IF o = t THEN [@ EXCEPT ![column_index(db[t], old)].name = new] ELSE @,
            !.ref_cols = IF o = t THEN [i \in DOMAIN @ |-> IF @[i] = old THEN new ELSE @[i]]
                         ELSE @,
            !.fks = [i \in DOMAIN @ |-> RenamedFk(o, @[i], t, old, new)]]]

\* Mutant of set_unique: existing duplicates are accepted.
set_uniqueUnchecked(t, c, unique) ==
    /\ c \in Names(db[t])
    /\ unique \/ FksInto(t, c) = {}
    /\ db' = [db EXCEPT ![t].columns[column_index(db[t], c)].unique = unique]

\* Mutant of set_unique: UNIQUE can be dropped from a foreign-key target.
set_uniqueAnyTarget(t, c, unique) ==
    /\ c \in Names(db[t])
    /\ unique => \A r, q \in DOMAIN db[t].rows :
            CellOf(db[t], r, c) = CellOf(db[t], q, c) => r = q \/ CellOf(db[t], r, c) = Null
    /\ db' = [db EXCEPT ![t].columns[column_index(db[t], c)].unique = unique]

\* set_unique(true) refuses a column with duplicates, set_unique(false) one
\* that a foreign key relies on.
set_unique(t, c, unique) ==
    /\ c \in Names(db[t])
    /\ IF unique
       THEN \A r, q \in DOMAIN db[t].rows :
                CellOf(db[t], r, c) = CellOf(db[t], q, c) => r = q \/ CellOf(db[t], r, c) = Null
       ELSE FksInto(t, c) = {}
    /\ db' = [db EXCEPT ![t].columns[column_index(db[t], c)].unique = unique]

add_fk(t, from_col, to_table, to_col) ==
    /\ Len(db[t].fks) < MaxFks
    /\ from_col \in Names(db[t])
    /\ to_table \in DOMAIN db
    /\ to_col \in Names(db[to_table])
    /\ column(db[to_table], to_col).unique
    /\ column(db[t], from_col).ty = column(db[to_table], to_col).ty
    /\ all_values_in(db[t], from_col) \subseteq all_values_in(db[to_table], to_col)
    /\ db' = [db EXCEPT ![t].fks =
                Append(@, [name |-> FreshFkName(t, from_col), from_col |-> from_col,
                           to_table |-> to_table, to_col |-> to_col])]

drop_fk(t, name) ==
    /\ \E f \in ToSet(db[t].fks) : f.name = name
    /\ db' = [db EXCEPT ![t].fks = Retained(@, {k \in DOMAIN @ : @[k].name # name})]

set_reference_columns(t, cols) ==
    /\ ToSet(cols) \subseteq Names(db[t])
    /\ IsInjective(cols)
    /\ db' = [db EXCEPT ![t].ref_cols = cols]

set_display_width(t, c, width) ==
    /\ c \in Names(db[t])
    /\ db' = [db EXCEPT ![t].columns[column_index(db[t], c)].width = width]
-----------------------------------------------------------------------------
(* Data operations *)

\* Mutant of insert: the slot is not counted.
insertUncounted(t, cells) ==
    /\ SlotCount < MaxSlots
    /\ validate(t, cells, {})
    /\ db' = [db EXCEPT ![t].rows = [r \in DOMAIN @ \cup {db[t].slots + 1} |->
                                        IF r = db[t].slots + 1 THEN cells ELSE @[r]],
                        ![t].row_count = @ + 1]

insert(t, cells) ==
    /\ SlotCount < MaxSlots
    /\ validate(t, cells, {})
    /\ LET id == db[t].slots + 1 IN
       db' = [db EXCEPT ![t].rows = [r \in DOMAIN @ \cup {id} |->
                                        IF r = id THEN cells ELSE @[r]],
                        ![t].slots = id,
                        ![t].row_count = @ + 1]

update(t, id, cells) ==
    /\ validate(t, cells, {id})
    /\ ~Orphans(t, id, cells)
    /\ db' = [db EXCEPT ![t].rows[id] = cells]

\* saturating_sub on the row count.
delete(t, id) ==
    /\ ~Orphans(t, id, <<>>)
    /\ db' = [db EXCEPT ![t].rows = [r \in DOMAIN @ \ {id} |-> @[r]],
                        ![t].row_count = IF @ = 0 THEN 0 ELSE @ - 1]

Rows(t) == [DOMAIN db[t].columns -> Cell]

\* Sequences of column names that could be asked for as a reference label.
Labels == UNION {[1..n -> ColName] : n \in 0..MaxCols}

SchemaStep ==
    \/ \E t \in TableName : create_table(t)
    \/ \E t \in DOMAIN db :
         \/ drop_table(t)
         \/ \E c \in Column : add_column(t, c)
         \/ \E c \in ColName : drop_column(t, c)
         \/ \E c \in ColName, to \in 1..MaxCols : move_column(t, c, to)
         \/ \E old, new \in ColName : rename_column(t, old, new)
         \/ \E c \in ColName, u \in BOOLEAN : set_unique(t, c, u)
         \/ \E f, c \in ColName, o \in TableName : add_fk(t, f, o, c)
         \/ \E name \in ColName \X (1..(MaxFks + 1)) : drop_fk(t, name)
         \/ \E cols \in Labels : set_reference_columns(t, cols)
         \/ \E c \in ColName, w \in Width : set_display_width(t, c, w)

DataStep ==
    \E t \in DOMAIN db :
        \/ \E cells \in Rows(t) : insert(t, cells)
        \/ \E id \in DOMAIN db[t].rows, cells \in Rows(t) : update(t, id, cells)
        \/ \E id \in DOMAIN db[t].rows : delete(t, id)

Next == SchemaStep \/ DataStep

Spec == Init /\ [][Next]_db
-----------------------------------------------------------------------------
(* Properties *)

\* The catalog holds well-typed tables.
TypeOK ==
    /\ db = [t \in DOMAIN db |-> db[t]]
    /\ DOMAIN db \subseteq TableName /\ IsFiniteSet(DOMAIN db)
    /\ \A t \in DOMAIN db : IsTable(db[t])

\* Referential integrity, which validate, add_fk, update, delete, drop_table
\* and drop_column each defend in part: after any sequence of operations every
\* non-NULL foreign-key cell of a live row occurs in the target column of a
\* live row.
RefIntegrity ==
    \A t \in DOMAIN db : \A f \in ToSet(db[t].fks) :
        all_values_in(db[t], f.from_col) \subseteq all_values_in(db[f.to_table], f.to_col)

\* UNIQUE, which validate and set_unique defend: two live rows never share a
\* non-NULL value in a column that is UNIQUE now, whatever it was when they
\* were written.
UniqueHolds ==
    \A t \in DOMAIN db : \A i \in DOMAIN db[t].columns : db[t].columns[i].unique =>
        \A r, q \in DOMAIN db[t].rows :
            db[t].rows[r][i] = db[t].rows[q][i] => r = q \/ db[t].rows[r][i] = Null

\* decode_row_fitted calls its resize "defensive - schema edits also rewrite
\* rows": every live row has one cell per column, of the column's type, and
\* NULL only where the column is nullable; and row_count, by which add_column
\* judges whether there are rows to fit, is their number.
RowsFit ==
    \A t \in DOMAIN db :
        /\ db[t].row_count = Cardinality(DOMAIN db[t].rows)
        /\ \A id \in DOMAIN db[t].rows :
             /\ Len(db[t].rows[id]) = Len(db[t].columns)
             /\ CellsFit(db[t], db[t].rows[id])

\* The unwrap() calls of update, delete, follow_fk and referencing_rows never
\* panic and an FK target identifies a row: every foreign key names columns
\* that exist, of one type, its target UNIQUE; names are unambiguous; and the
\* reference label names existing columns, each once, so that ref_col_indices
\* (schema.rs) never comes to "skipping any name that no longer maps to a column".
SchemaSound ==
    \A t \in DOMAIN db :
        /\ Cardinality(Names(db[t])) = Len(db[t].columns)
        /\ ToSet(db[t].ref_cols) \subseteq Names(db[t]) /\ IsInjective(db[t].ref_cols)
        /\ \A i, j \in DOMAIN db[t].fks : db[t].fks[i].name = db[t].fks[j].name => i = j
        /\ \A f \in ToSet(db[t].fks) :
             /\ f.from_col \in Names(db[t])
             /\ f.to_table \in DOMAIN db
             /\ f.to_col \in Names(db[f.to_table])
             /\ column(db[f.to_table], f.to_col).unique
             /\ column(db[f.to_table], f.to_col).ty = column(db[t], f.from_col).ty

\* Navigation: a non-NULL foreign key leads to exactly one row, and that row's
\* "Referenced by" list leads back.
Navigable ==
    \A t \in DOMAIN db : \A id \in DOMAIN db[t].rows : \A f \in ToSet(db[t].fks) :
        CellOf(db[t], id, f.from_col) # Null =>
            \E r \in DOMAIN db[f.to_table].rows :
                /\ follow_fk(t, id, f) = {r}
                /\ <<t, f, id>> \in referencing_rows(f.to_table, r)

\* The cell of a live row of table t of database d, found by column name.
NamedCells(d, t, id) ==
    {<<d[t].columns[i].name, d[t].rows[id][i]>> : i \in DOMAIN d[t].columns}

\* Schema edits move cells about by position; what a row holds under a column
\* name never changes by an edit of the schema that keeps the name, no row
\* appears or vanishes, and an id is never given to another row.
EditsKeepCells ==
    [][\A t \in DOMAIN db \cap DOMAIN db' :
        /\ \A id \in DOMAIN db'[t].rows \ DOMAIN db[t].rows : id > db[t].slots
        /\ db'[t].columns # db[t].columns =>
             /\ DOMAIN db'[t].rows = DOMAIN db[t].rows
             /\ \A id \in DOMAIN db[t].rows :
                  \A x \in NamedCells(db, t, id), y \in NamedCells(db', t, id) :
                      x[1] = y[1] => x[2] = y[2]]_db
=============================================================================
