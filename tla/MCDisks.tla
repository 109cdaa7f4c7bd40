------------------------------ MODULE MCDisks ------------------------------
(* Disks with an IDE disk, two sticks and two root ports. *)
EXTENDS Disks, TLC

CONSTANTS s1, s2, new, old

MCSize == s1 :> 5 @@ s2 :> 4
MCBase == new :> 2 @@ old :> 1

\* A disk with an image, its GUID and a volume.
System(i, g) ==
    [mbr |-> [img |-> i, guid |-> g],
     pre |-> [k \in Lba |-> IF k < Base[i] THEN <<i, k>> ELSE Other],
     vol |-> Base[i]]

Empty == [mbr |-> Blank, pre |-> [k \in Lba |-> Other], vol |-> 0]

\* Booted from the IDE disk, with another system's stick and an empty one;
\* booted from a stick, with another system's disk in the IDE slot; booted
\* from a stick in a machine without IDE.
MCStart ==
    {Master :> System(new, 1) @@ s1 :> Empty @@ s2 :> System(old, 2),
     Master :> System(old, 2) @@ s1 :> System(new, 1) @@ s2 :> Empty,
     s1 :> System(new, 1) @@ s2 :> Empty}

\* One stick is plugged in; the other may follow.
MCPlace == {<<s1, NoDisk>>}
=============================================================================
