------------------------------ MODULE MCJournal ------------------------------
(***************************************************************************)
(* Small instance of Journal.  Pages 0 (the superblock) and the two data   *)
(* pages, two sectors per page; the write-sets name page 0 first, as       *)
(* Pager::commit does, and one of them is larger than the journal.         *)
(***************************************************************************)
EXTENDS Journal

Solid(d) == [s \in Sec |-> d]

Pages(ps, d) == [i \in DOMAIN ps |-> [page |-> ps[i], img |-> Solid(d)]]

MCBatch ==
    {Pages(<<0, 1>>, d) : d \in Datum} \cup {Pages(<<0, 2>>, d) : d \in Datum}
      \cup {Pages(<<0, 1, 2>>, 0)}
=============================================================================
