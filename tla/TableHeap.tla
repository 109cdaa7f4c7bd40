------------------------------ MODULE TableHeap ------------------------------
(***************************************************************************)
(* What the page layer of store.rs promises the relational layer: tables   *)
(* that each hold a schema blob and a list of row blobs, where an operation *)
(* changes exactly the table and the row it names.  A row keeps its place  *)
(* in the list for its lifetime; a deleted row leaves a gap.               *)
(***************************************************************************)
EXTENDS Naturals, Sequences

CONSTANTS TableName, Schema, Row

VARIABLE tables   \* [schema, rows] by table name

Gap == 0          \* the slot of a deleted row

Create(t) ==
    /\ t \notin DOMAIN tables
    /\ \E s \in Schema :
         tables' = [u \in DOMAIN tables \cup {t} |->
                       IF u = t THEN [schema |-> s, rows |-> <<>>] ELSE tables[u]]

Drop(t) == tables' = [u \in DOMAIN tables \ {t} |-> tables[u]]

\* A schema edit that renames a column touches several tables at once.
Retouch(ts, s) ==
    tables' = [u \in DOMAIN tables |->
                  IF u \in ts THEN [tables[u] EXCEPT !.schema = s] ELSE tables[u]]

\* A schema edit that maps every row of the table.
Rewrite(t, s, map) ==
    tables' = [tables EXCEPT ![t].schema = s,
                             ![t].rows = [i \in DOMAIN @ |-> IF @[i] = Gap THEN Gap ELSE map[@[i]]]]

Insert(t, r) == tables' = [tables EXCEPT ![t].rows = Append(@, r)]

Update(t, i, r) ==
    /\ tables[t].rows[i] # Gap
    /\ tables' = [tables EXCEPT ![t].rows[i] = r]

Delete(t, i) ==
    /\ tables[t].rows[i] # Gap
    /\ tables' = [tables EXCEPT ![t].rows[i] = Gap]

Init == tables = <<>>

Next ==
    \/ \E t \in TableName : Create(t)
    \/ \E ts \in SUBSET DOMAIN tables, s \in Schema : Retouch(ts, s)
    \/ \E t \in DOMAIN tables :
         \/ Drop(t)
         \/ \E s \in Schema, map \in [Row -> Row] : Rewrite(t, s, map)
         \/ \E r \in Row : Insert(t, r)
         \/ \E i \in DOMAIN tables[t].rows, r \in Row : Update(t, i, r)
         \/ \E i \in DOMAIN tables[t].rows : Delete(t, i)

Spec == Init /\ [][Next]_tables
=============================================================================
