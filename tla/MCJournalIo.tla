----------------------------- MODULE MCJournalIo -----------------------------
(***************************************************************************)
(* Small instance of JournalIo: the superblock and one data page of two    *)
(* sectors, two device errors.                                             *)
(***************************************************************************)
EXTENDS JournalIo

Solid(d) == [s \in Sec |-> d]

MCBatch == {<<[page |-> 0, img |-> Solid(d)], [page |-> 1, img |-> Solid(d)]>> : d \in Datum}
             \cup {<<[page |-> 0, img |-> Solid(1)]>>}
=============================================================================
