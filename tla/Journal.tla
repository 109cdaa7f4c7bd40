------------------------------- MODULE Journal -------------------------------
(***************************************************************************)
(* The physical write-ahead log of tablestore/src/journal.rs on a block    *)
(* device with a volatile write cache (the contract of block.rs).          *)
(*                                                                         *)
(* Device.  `vol` is what a read returns; `dur` is what survives a power   *)
(* cut.  A write changes vol only; the device may write any sector back at *)
(* any time and in any order (Destage); flush is a barrier after which dur *)
(* equals vol; a power cut leaves dur.  Both are records with the regions  *)
(* of the on-disk layout: `head`, the first control sector (state and CRC),*)
(* `body`, the other control sectors (the entry array), `jd`, the journal  *)
(* data pages, and `home`, the pages of the volume itself.                 *)
(*                                                                         *)
(* Abstractions.  The CRC is the entry list it was computed from: equality *)
(* of CRCs is equality of lists, i.e. no collisions.  txid is left out: it *)
(* shares the head sector with the CRC that covers it.  A run of sector    *)
(* writes between two flushes is one step: whatever prefix of it a power   *)
(* cut lets through is also a subset that Destage can write back.          *)
(***************************************************************************)
EXTENDS WriteSet

CONSTANTS
    JCAP,    \* journal data pages: the largest write-set
    Batch    \* the write-sets Pager::commit may pass to journal::commit

ASSUME JournalAssumption ==
    /\ JCAP \in Nat \ {0}
    /\ Batch \subseteq {ws \in WriteSets : Distinct(ws)}

VARIABLES
    dur,     \* the medium
    vol,     \* the medium as the device cache shows it
    pc,      \* where journal::commit / journal::recover stands
    batch,   \* the write-set being committed or redone
    result   \* what the last commit returned: "none", "ok", "OutOfSpace"

vars == <<dur, vol, pc, batch, result>>

Slot == 1..JCAP

State == {"EMPTY", "COMMITTED"}

Entries == Seq(Page)

Medium == [head : [state : State, crc : Entries],
           body : [Sec -> Entries],
           jd   : [Slot -> Image],
           home : [Page -> Image]]

EntriesOf(ws) == [i \in DOMAIN ws |-> ws[i].page]
-----------------------------------------------------------------------------
(* Pieces of the protocol, as functions of the medium *)

\* write_ctrl(render_ctrl(entries, _, state)).
WriteCtrl(d, e, st) ==
    [d EXCEPT !.head = [state |-> st, crc |-> e], !.body = [s \in Sec |-> e]]

\* The images of the write-set copied to the journal data pages.
StageImages(d, ws) ==
    [d EXCEPT !.jd = [i \in Slot |-> IF i \in DOMAIN ws THEN ws[i].img ELSE d.jd[i]]]

\* The images of the write-set copied to their home pages.
InstallHome(d, ws) == [d EXCEPT !.home = Overlay(d.home, ws)]

\* read_ctrl accepts the control area: the CRC matches a list that fits.
ReadCtrlOk(d) ==
    /\ Len(d.head.crc) <= JCAP
    /\ \A s \in Sec : d.body[s] = d.head.crc

\* recover finds a transaction to redo.
Committed(d) == ReadCtrlOk(d) /\ d.head.state = "COMMITTED"

\* The write-set recover reads back from the journal.
Journalled(d) ==
    [i \in DOMAIN d.head.crc |-> [page |-> d.head.crc[i], img |-> d.jd[i]]]

\* The pages that a mount of the medium d would serve.
Recovered(d) == IF Committed(d) THEN Overlay(d.home, Journalled(d)) ELSE d.home
-----------------------------------------------------------------------------
(* A formatted, empty volume: journal::init has run. *)
Init ==
    /\ dur \in {[head |-> [state |-> "EMPTY", crc |-> <<>>],
                 body |-> [s \in Sec |-> <<>>],
                 jd   |-> [i \in Slot |-> img],
                 home |-> [p \in Page |-> img]] : img \in Image}
    /\ vol = dur
    /\ pc = "idle"
    /\ batch = <<>>
    /\ result = "none"

(* journal::commit *)

CommitTooLarge ==
    /\ pc = "idle"
    /\ \E b \in Batch : Len(b) > JCAP
    /\ result' = "OutOfSpace"
    /\ UNCHANGED <<dur, vol, pc, batch>>

\* 1. Stage the images, then the EMPTY control body.
Stage ==
    /\ pc = "idle"
    /\ \E b \in Batch :
         /\ Len(b) <= JCAP
         /\ batch' = b
         /\ vol' = WriteCtrl(StageImages(vol, b), EntriesOf(b), "EMPTY")
    /\ pc' = "staged"
    /\ result' = "none"
    /\ UNCHANGED dur

\* dev.flush() at the end of a step of commit or recover.
FlushFrom(from, to) ==
    /\ pc = from
    /\ dur' = vol
    /\ pc' = to
    /\ UNCHANGED <<vol, batch, result>>

\* Mutant of FlushStaged: no barrier between the journal and the commit point.
FlushStagedSkipped ==
    /\ pc = "staged"
    /\ pc' = "journalled"
    /\ UNCHANGED <<dur, vol, batch, result>>

FlushStaged == FlushFrom("staged", "journalled")

\* 2. The commit point: only the state changes.
FlipCommitted ==
    /\ pc = "journalled"
    /\ vol' = WriteCtrl(vol, EntriesOf(batch), "COMMITTED")
    /\ pc' = "flipping"
    /\ UNCHANGED <<dur, batch, result>>

FlushCommitted == FlushFrom("flipping", "committed")

\* 3. Install at home.
Install ==
    /\ pc = "committed"
    /\ vol' = InstallHome(vol, batch)
    /\ pc' = "installing"
    /\ UNCHANGED <<dur, batch, result>>

\* Mutant of FlushInstalled: the journal is released over unflushed home pages.
FlushInstalledSkipped ==
    /\ pc = "installing"
    /\ pc' = "installed"
    /\ UNCHANGED <<dur, vol, batch, result>>

FlushInstalled == FlushFrom("installing", "installed")

\* 4. Release the journal.
Release ==
    /\ pc = "installed"
    /\ vol' = WriteCtrl(vol, EntriesOf(batch), "EMPTY")
    /\ pc' = "releasing"
    /\ UNCHANGED <<dur, batch, result>>

FlushReleased ==
    /\ pc = "releasing"
    /\ dur' = vol
    /\ pc' = "idle"
    /\ batch' = <<>>
    /\ result' = "ok"
    /\ UNCHANGED vol
-----------------------------------------------------------------------------
(* journal::recover, called by Pager::mount *)

\* Mutant of RecoverNothing: a mount that does not look at the journal.
RecoverNothingBlind ==
    /\ pc = "down"
    /\ pc' = "idle"
    /\ UNCHANGED <<dur, vol, batch, result>>

RecoverNothing ==
    /\ pc = "down"
    /\ ~Committed(vol)
    /\ pc' = "idle"
    /\ UNCHANGED <<dur, vol, batch, result>>

\* Mutant of Redo: the last entry is not redone.
RedoShort ==
    /\ pc = "down"
    /\ Committed(vol)
    /\ batch' = Journalled(vol)
    /\ vol' = InstallHome(vol, SubSeq(Journalled(vol), 1, Len(Journalled(vol)) - 1))
    /\ pc' = "redoing"
    /\ UNCHANGED <<dur, result>>

Redo ==
    /\ pc = "down"
    /\ Committed(vol)
    /\ batch' = Journalled(vol)
    /\ vol' = InstallHome(vol, Journalled(vol))
    /\ pc' = "redoing"
    /\ UNCHANGED <<dur, result>>

\* Mutant of FlushRedo: the redo starts over.
FlushRedoAgain == FlushFrom("redoing", "down")

FlushRedo == FlushFrom("redoing", "redone")

RecoverRelease ==
    /\ pc = "redone"
    /\ vol' = WriteCtrl(vol, EntriesOf(batch), "EMPTY")
    /\ pc' = "clearing"
    /\ UNCHANGED <<dur, batch, result>>

FlushCleared ==
    /\ pc = "clearing"
    /\ dur' = vol
    /\ pc' = "idle"
    /\ batch' = <<>>
    /\ UNCHANGED <<vol, result>>
-----------------------------------------------------------------------------
(* The device *)

\* One cached sector reaches the medium.
Destage ==
    /\ \/ dur' = [dur EXCEPT !.head = vol.head]
       \/ \E s \in Sec : dur' = [dur EXCEPT !.body[s] = vol.body[s]]
       \/ \E i \in Slot, s \in Sec : dur' = [dur EXCEPT !.jd[i][s] = vol.jd[i][s]]
       \/ \E p \in Page, s \in Sec : dur' = [dur EXCEPT !.home[p][s] = vol.home[p][s]]
    /\ dur' # dur
    /\ UNCHANGED <<vol, pc, batch, result>>

\* Power is cut (or the pendrive yanked) and comes back: the cache is gone
\* and so is the program; the next thing that runs is Pager::mount.
PowerCut ==
    /\ vol' = dur
    /\ pc' = "down"
    /\ batch' = <<>>
    /\ result' = "none"
    /\ UNCHANGED dur

Commit ==
    \/ CommitTooLarge
    \/ Stage
    \/ FlushStaged
    \/ FlipCommitted
    \/ FlushCommitted
    \/ Install
    \/ FlushInstalled
    \/ Release
    \/ FlushReleased

Recover ==
    \/ RecoverNothing
    \/ Redo
    \/ FlushRedo
    \/ RecoverRelease
    \/ FlushCleared

Next == Commit \/ Recover \/ Destage \/ PowerCut

Spec == Init /\ [][Next]_vars

\* The machine keeps running: every step of a mount or a commit that has begun
\* is eventually taken (the kernel runs one thread to completion, and
\* BlockDevice calls return), unless power is cut.  Starting a commit is the
\* user's choice.
Fairness == WF_vars(Recover) /\ WF_vars(pc # "idle" /\ Commit)

FairSpec == Spec /\ Fairness
-----------------------------------------------------------------------------
(* Properties *)

CommitSteps == {"staged", "journalled", "flipping", "committed", "installing",
                "installed", "releasing"}

PC == {"idle", "down", "redoing", "redone", "clearing"} \cup CommitSteps

\* Types of the device, of the program counter and of the write-set in memory.
TypeOK ==
    /\ dur \in Medium
    /\ vol \in Medium
    /\ pc \in PC
    /\ batch \in WriteSets
    /\ result \in {"none", "ok", "OutOfSpace"}

\* journal.rs:94 "so the commit flip rewrites only one well-defined sector":
\* whatever reached the medium, a control header that says COMMITTED has a
\* matching entry array, so recover never skips a transaction whose commit
\* point was reached as "torn body write".
NoTornCommit == dur.head.state = "COMMITTED" => ReadCtrlOk(dur)

\* pager.rs reads the home pages directly after mount and after a commit that
\* returned: between transactions they are exactly the pages that a mount
\* after a power cut at this very moment would serve.
ServesRecovered == pc = "idle" => vol.home = Recovered(dur)

\* What each stretch of the protocol may rely on (the inductive invariant).
Agree(d, ws) ==
    /\ d.head.crc = EntriesOf(ws)
    /\ \A s \in Sec : d.body[s] = EntriesOf(ws)
    /\ \A i \in DOMAIN ws : d.jd[i] = ws[i].img

InstalledIn(d, ws) == \A i \in DOMAIN ws : d.home[ws[i].page] = ws[i].img

SameOutside(ws) == \A p \in Page \ PagesOf(ws) : dur.home[p] = vol.home[p]

\* The write-set in memory: it fits the journal and no page occurs twice.
BatchInv == Len(batch) <= JCAP /\ Distinct(batch)

\* Synchronised points: everything written has reached the medium.
SyncInv == pc \in {"idle", "journalled", "committed", "installed", "down", "redone"} => dur = vol

\* Before the commit point the home pages and the EMPTY state are untouched.
QuietInv ==
    /\ pc = "idle" => dur.head.state = "EMPTY"
    /\ pc \in {"staged", "journalled"} =>
         /\ dur.head.state = "EMPTY" /\ vol.head.state = "EMPTY"
         /\ dur.home = vol.home
         /\ Agree(vol, batch)

\* While the flip is in the cache, the medium has the whole journal.
FlipInv ==
    pc = "flipping" =>
        /\ vol.head.state = "COMMITTED"
        /\ dur.home = vol.home
        /\ Agree(vol, batch) /\ Agree(dur, batch)

\* While home pages are being written, the medium is COMMITTED to the batch.
InstallInv ==
    pc \in {"committed", "installing", "redoing", "installed", "redone"} =>
        /\ dur.head.state = "COMMITTED" /\ vol.head.state = "COMMITTED"
        /\ Agree(vol, batch) /\ Agree(dur, batch)
        /\ SameOutside(batch)
        /\ pc # "committed" => InstalledIn(vol, batch)

\* While the journal is being released, the home pages are all in place.
ReleaseInv ==
    pc \in {"releasing", "clearing"} =>
        /\ vol.head.state = "EMPTY"
        /\ dur.home = vol.home
        /\ Agree(vol, batch) /\ Agree(dur, batch)
        /\ InstalledIn(vol, batch)

\* After a power cut, a COMMITTED medium holds a whole, well-formed write-set.
DownInv ==
    pc = "down" /\ dur.head.state = "COMMITTED" =>
        ReadCtrlOk(dur) /\ Distinct(Journalled(dur))

\* The inductive invariant of the commit and recovery protocol.
JournalInv ==
    TypeOK /\ BatchInv /\ SyncInv /\ QuietInv /\ FlipInv /\ InstallInv /\ ReleaseInv /\ DownInv

(* The abstract store.  Its content is what a mount would find, so a step of *)
(* the device that lets the COMMITTED header reach the medium is the commit  *)
(* point.                                                                    *)
AbsPhase ==
    CASE pc = "idle" -> "idle"
      [] pc \in CommitSteps -> IF pc \in {"staged", "journalled", "flipping"} /\ ~Committed(dur)
                               THEN "open" ELSE "applied"
      [] OTHER -> "down"

AbsPending == IF pc \in CommitSteps THEN batch ELSE <<>>

Abstract == INSTANCE AtomicStore
            WITH content <- Recovered(dur), phase <- AbsPhase, pending <- AbsPending

\* journal.rs:6 "a power loss costs at most the last uncommitted transaction":
\* in every interleaving of writes, write-backs, power cuts and repeated
\* recoveries the recoverable pages change by whole write-sets only, and Ok is
\* returned only once the write-set is part of them.
ImplementsAtomicStore == Abstract!Spec

\* journal::commit and journal::recover always return, whatever the device
\* writes back in between and however often recovery is restarted: the volume
\* is idle again and again, unless power keeps failing for ever.
ReturnsToIdle == []<>(pc = "idle") \/ []<><<PowerCut>>_vars
=============================================================================
