------------------------------ MODULE WriteSet ------------------------------
(***************************************************************************)
(* Page images and the write-set of one transaction, shared by the journal *)
(* (tablestore/src/journal.rs) and by the abstract store it implements.    *)
(*                                                                         *)
(* A page is written to the device one sector at a time, so an image is a  *)
(* function from the sectors of a page to their contents: a torn page is a *)
(* function that takes some sectors from one image and some from another.  *)
(* A write-set is the argument of journal::commit, `dirty: &[(u64, Vec)]`: *)
(* a sequence of page numbers with their new images.                       *)
(***************************************************************************)
EXTENDS Naturals, Sequences

CONSTANTS
    Page,    \* page numbers of the volume outside the journal region
    Sec,     \* the sectors of one page (PAGE_SECTORS of them)
    Datum    \* what one sector may hold

Image == [Sec -> Datum]

WriteSets == Seq([page : Page, img : Image])

\* Pager::commit builds the write-set from page 0 and the keys of a BTreeMap,
\* which never holds page 0: no page occurs twice.
Distinct(ws) ==
    \A i, j \in DOMAIN ws : ws[i].page = ws[j].page => i = j

PagesOf(ws) == {ws[i].page : i \in DOMAIN ws}

SlotOf(ws, p) == CHOOSE i \in DOMAIN ws : ws[i].page = p

\* The home pages after every image of the write-set has been copied to its
\* target page.
Overlay(home, ws) ==
    [p \in Page |-> IF p \in PagesOf(ws) THEN ws[SlotOf(ws, p)].img ELSE home[p]]
=============================================================================
