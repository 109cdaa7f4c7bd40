-------------------------------- MODULE MCUi --------------------------------
(***************************************************************************)
(* Small instances of Ui.  The volume mounted at boot is empty or holds a  *)
(* table: one with a column and two rows, one with a key column whose row  *)
(* refers to itself, or one with two columns and no rows.                  *)
(***************************************************************************)
EXTENDS Ui

CONSTANTS t1, cA, cB, u

IntCol(name, unique) ==
    [name |-> name, ty |-> "INT", nullable |-> ~unique, unique |-> unique, width |-> "auto"]

Staff ==
    [columns |-> <<IntCol(cA, TRUE)>>,
     fks |-> <<[name |-> <<cA, 1>>, from_col |-> cA, to_table |-> t1, to_col |-> cA]>>,
     ref_cols |-> <<cA>>, rows |-> <<<<<<"INT", 1>>>>>>, slots |-> 1, row_count |-> 1]

Solo == [columns |-> <<IntCol(cB, FALSE)>>, fks |-> <<>>, ref_cols |-> <<>>,
         rows |-> <<<<Null>>, <<<<"INT", 1>>>>>>, slots |-> 2, row_count |-> 2]

Blank == [columns |-> <<IntCol(cA, TRUE), IntCol(cB, FALSE)>>, fks |-> <<>>, ref_cols |-> <<>>,
          rows |-> <<>>, slots |-> 0, row_count |-> 0]

Volumes == {<<>>, t1 :> Solo, t1 :> Staff, t1 :> Blank}

OnePart == [t \in Type |-> 1]
=============================================================================
