----------------------------- MODULE MCPageStore -----------------------------
(***************************************************************************)
(* Small instances of PageStore, and the check that it implements          *)
(* TableHeap.  The auxiliary variable `view` always equals AbsTables, so   *)
(* that TLC decodes the pages once per step and not once per use.          *)
(***************************************************************************)
EXTENDS PageStore, TLC

CONSTANTS t, u

Symmetry == Permutations(TableName)

VARIABLE view

ViewInit == Init /\ view = AbsTables

ViewNext ==
    /\ Next
    /\ view' = IF UNCHANGED <<disk, sbDisk>> THEN view ELSE AbsTables'

ViewSpec == ViewInit /\ [][ViewNext]_<<vars, view>>

Heap == INSTANCE TableHeap WITH tables <- view

\* store.rs: every transaction changes, of all that can be decoded from the
\* committed pages, exactly the table and the row it was called for, whatever
\* pages it allocated, freed and reused on the way, and a failed one changes
\* nothing.
ImplementsTableHeap == Heap!Spec
=============================================================================
