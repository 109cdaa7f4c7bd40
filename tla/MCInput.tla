------------------------------ MODULE MCInput ------------------------------
(* Input on a two by two screen with a ring of three slots. *)
EXTENDS Input

\* 'a', Up, and Shift down and up.
MCKeyStroke == {<<30>>, <<224, 72>>, <<42>>, <<170>>}

\* One to the right; left button; a long way to the left and down, with
\* a displacement that looks like a first byte; left button and overflow.
MCPacket == {<<8, 1, 0>>, <<9, 0, 0>>, <<56, 9, 247>>, <<73, 5, 0>>}

MCUsbReport == {[dx |-> 0, dy |-> 1, left |-> TRUE, right |-> FALSE],
                [dx |-> -1, dy |-> 0, left |-> FALSE, right |-> TRUE]}
=============================================================================
