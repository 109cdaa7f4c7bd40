----------------------------- MODULE AtomicStore -----------------------------
(***************************************************************************)
(* What the journal promises its caller: a volume whose pages change only  *)
(* by whole transactions.  A power cut loses at most the transaction that  *)
(* was in flight, and a transaction whose commit has returned Ok is never  *)
(* lost (journal.rs, "costs at most the last uncommitted transaction").    *)
(***************************************************************************)
EXTENDS WriteSet

VARIABLES
    content,   \* the pages a mount would find
    phase,     \* "idle", "open" (commit called), "applied", "down"
    pending    \* the write-set of the commit in progress

vars == <<content, phase, pending>>

Init ==
    /\ content \in [Page -> Image]
    /\ phase = "idle"
    /\ pending = <<>>

Begin ==
    /\ phase = "idle"
    /\ phase' = "open"
    /\ pending' \in {ws \in WriteSets : Distinct(ws)}
    /\ UNCHANGED content

\* The commit point: every page of the transaction changes at once.
Apply ==
    /\ phase = "open"
    /\ phase' = "applied"
    /\ content' = Overlay(content, pending)
    /\ UNCHANGED pending

\* Ok is returned only for a transaction that has been applied.
Acknowledge ==
    /\ phase = "applied"
    /\ phase' = "idle"
    /\ pending' = <<>>
    /\ UNCHANGED content

\* Power goes, before or after the commit point; the content stays.
Crash ==
    /\ phase' = "down"
    /\ pending' = <<>>
    /\ UNCHANGED content

Mount ==
    /\ phase = "down"
    /\ phase' = "idle"
    /\ UNCHANGED <<content, pending>>

Next == Begin \/ Apply \/ Acknowledge \/ Crash \/ Mount

Spec == Init /\ [][Next]_vars
=============================================================================
