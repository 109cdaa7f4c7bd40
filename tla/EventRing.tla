------------------------------ MODULE EventRing ------------------------------
(***************************************************************************)
(* The fixed-capacity event ring of kernel/src/ps2.rs, as operators on its *)
(* three fields, and the queue that the ring stands for.                   *)
(***************************************************************************)
EXTENDS Naturals, Sequences

CONSTANTS
    QUEUE_CAP,   \* slots of the ring
    Event        \* what is queued

ASSUME RingAssumption == QUEUE_CAP \in Nat \ {0} /\ Event # {}

Ring == [buf : [0..(QUEUE_CAP - 1) -> Event], head : 0..(QUEUE_CAP - 1), len : 0..QUEUE_CAP]

\* EventRing::new
EmptyRing == [buf |-> [i \in 0..(QUEUE_CAP - 1) |-> CHOOSE e \in Event : TRUE],
              head |-> 0, len |-> 0]

\* Mutant of push: one slot short of the tail.
pushShort(r, e) ==
    IF r.len = QUEUE_CAP THEN r
    ELSE [r EXCEPT !.buf[(r.head + r.len + QUEUE_CAP - 1) % QUEUE_CAP] = e, !.len = @ + 1]

\* EventRing::push: dropped when the ring is full.
push(r, e) ==
    IF r.len = QUEUE_CAP THEN r
    ELSE [r EXCEPT !.buf[(r.head + r.len) % QUEUE_CAP] = e, !.len = @ + 1]

\* EventRing::pop of a ring that is not empty: what it returns and leaves.
Oldest(r) == r.buf[r.head]

pop(r) == [r EXCEPT !.head = (@ + 1) % QUEUE_CAP, !.len = @ - 1]

\* The queue a ring stands for.
Queued(r) == [i \in 1..r.len |-> r.buf[(r.head + i - 1) % QUEUE_CAP]]
=============================================================================
