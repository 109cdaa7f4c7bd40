------------------------------ MODULE JournalIo ------------------------------
(***************************************************************************)
(* The journal on a device whose calls may fail, with the part of the      *)
(* pager and of Store::tx that reacts to the failure.                      *)
(*                                                                         *)
(* Every device call in journal::commit and journal::recover is followed   *)
(* by `?`: the first error ends the function where it stands.  An error in *)
(* commit makes Store::tx call Pager::rollback, which drops the staged     *)
(* pages, reads page 0 again and keeps the clean-page cache; the system    *)
(* goes on.  An error in recover makes the mount fail: the kernel halts    *)
(* and the user reboots, the device staying powered.                       *)
(***************************************************************************)
EXTENDS Journal, FiniteSets

CONSTANT MaxErrors   \* bound on the number of device errors in a behaviour

ASSUME IoAssumption == MaxErrors \in Nat /\ 0 \in Page /\ Sec \subseteq Nat

VARIABLES
    cache,      \* Pager.cache: clean pages by number (never page 0)
    errors,     \* device errors so far
    failedAt,   \* "none", or where the last commit was when it failed
    tainted,    \* history: a commit began before a failure was recovered from
    before,     \* history: the pages when the last commit began ...
    after       \* ... and with its write-set applied

history == <<tainted, before, after>>
ioVars == <<vars, cache, errors, failedAt, history>>

\* Pager::read_page outside a transaction: the cache, then the device; page 0
\* is read by rollback and mount straight from the device.
View == [p \in Page |-> IF p \in DOMAIN cache THEN cache[p] ELSE vol.home[p]]

\* Places of journal::commit before the COMMITTED header is written; "none" is
\* the value of failedAt when nothing failed.
Early == {"none", "idle", "staged"}

\* Sector r of the i-th page of a run of page writes went out before the call
\* for sector s of the n-th page failed.
WentOut(i, r, n, s) == i < n \/ (i = n /\ r < s)

PartlyStaged(d, ws, n, s) ==
    [d EXCEPT !.jd = [i \in Slot |-> [r \in Sec |->
        IF i \in DOMAIN ws /\ WentOut(i, r, n, s) THEN ws[i].img[r] ELSE d.jd[i][r]]]]

PartlyInstalled(d, ws, n, s) ==
    [d EXCEPT !.home = [p \in Page |-> [r \in Sec |->
        IF p \in PagesOf(ws) /\ WentOut(SlotOf(ws, p), r, n, s)
        THEN ws[SlotOf(ws, p)].img[r] ELSE d.home[p][r]]]]

\* The control head goes out first, then the rest of the control area.
PartlyCtrl(d, e, st, s) ==
    [d EXCEPT !.head = [state |-> st, crc |-> e],
              !.body = [r \in Sec |-> IF r < s THEN e ELSE d.body[r]]]
-----------------------------------------------------------------------------
IoInit ==
    /\ Init
    /\ cache = <<>>
    /\ errors = 0
    /\ failedAt = "none"
    /\ tainted = FALSE
    /\ before = vol.home
    /\ after = vol.home

\* Pager::read_page misses and fills the cache.
ReadPage(p) ==
    /\ pc = "idle"
    /\ p \notin DOMAIN cache
    /\ cache' = [q \in DOMAIN cache \cup {p} |-> IF q = p THEN vol.home[p] ELSE cache[q]]
    /\ UNCHANGED <<vars, errors, failedAt, history>>

\* A commit begins: the history records what it should do, and whether it
\* begins after a failure past the flip or over a medium still COMMITTED.
Remember(ws) ==
    /\ before' = vol.home
    /\ after' = Overlay(vol.home, ws)
    /\ tainted' = (tainted \/ failedAt \notin Early \/ dur.head.state = "COMMITTED")

IoStage ==
    /\ Stage
    /\ Remember(batch')
    /\ failedAt' = "none"
    /\ UNCHANGED <<cache, errors>>

\* Pager::commit after journal::commit returned Ok: the write-set, all but
\* page 0, is folded into the cache.
IoCommitted ==
    /\ FlushReleased
    /\ cache' = [p \in DOMAIN cache \cup (PagesOf(batch) \ {0}) |->
                    IF p \in PagesOf(batch) THEN batch[SlotOf(batch, p)].img ELSE cache[p]]
    /\ before' = after
    /\ UNCHANGED <<errors, failedAt, tainted, after>>

\* Mutant of TxFails: the images are folded into the cache before the commit
\* has succeeded.
TxFailsFolded(at) ==
    /\ errors < MaxErrors
    /\ errors' = errors + 1
    /\ failedAt' = at
    /\ pc' = "idle"
    /\ batch' = <<>>
    /\ result' = "none"
    /\ cache' = [p \in DOMAIN cache \cup (PagesOf(batch) \ {0}) |->
                    IF p \in PagesOf(batch) THEN batch[SlotOf(batch, p)].img ELSE cache[p]]
    /\ UNCHANGED dur

\* journal::commit returns Err: Store::tx rolls back and reports the error.
TxFails(at) ==
    /\ errors < MaxErrors
    /\ errors' = errors + 1
    /\ failedAt' = at
    /\ pc' = "idle"
    /\ batch' = <<>>
    /\ result' = "none"
    /\ UNCHANGED <<dur, cache>>

StageFails ==
    /\ pc = "idle"
    /\ \E b \in Batch : \E n \in 1..JCAP, s \in Sec :
         /\ Len(b) <= JCAP
         /\ n <= Len(b)
         /\ vol' = PartlyStaged(vol, b, n, s)
         /\ Remember(b)
    /\ TxFails("idle")

StageCtrlFails ==
    /\ pc = "idle"
    /\ \E b \in Batch : \E s \in Sec :
         /\ Len(b) <= JCAP
         /\ vol' = PartlyCtrl(StageImages(vol, b), EntriesOf(b), "EMPTY", s)
         /\ Remember(b)
    /\ TxFails("idle")

FlipFails ==
    /\ pc = "journalled"
    /\ \E s \in Sec : vol' \in {vol, PartlyCtrl(vol, EntriesOf(batch), "COMMITTED", s)}
    /\ TxFails(pc)
    /\ UNCHANGED history

InstallFails ==
    /\ pc = "committed"
    /\ \E n \in DOMAIN batch, s \in Sec : vol' = PartlyInstalled(vol, batch, n, s)
    /\ TxFails(pc)
    /\ UNCHANGED history

ReleaseFails ==
    /\ pc = "installed"
    /\ \E s \in Sec : vol' \in {vol, PartlyCtrl(vol, EntriesOf(batch), "EMPTY", s)}
    /\ TxFails(pc)
    /\ UNCHANGED history

FlushFails ==
    /\ pc \in {"staged", "flipping", "installing", "releasing"}
    /\ TxFails(pc)
    /\ UNCHANGED <<vol, history>>

\* journal::recover fails: the mount fails, the machine is rebooted.
RecoverFails ==
    /\ errors < MaxErrors
    /\ errors' = errors + 1
    /\ \/ /\ pc = "down" /\ Committed(vol)
          /\ \E n \in DOMAIN vol.head.crc, s \in Sec :
               vol' = PartlyInstalled(vol, Journalled(vol), n, s)
       \/ /\ pc = "redone"
          /\ \E s \in Sec : vol' = PartlyCtrl(vol, EntriesOf(batch), "EMPTY", s)
       \/ /\ pc \in {"redoing", "clearing"}
          /\ UNCHANGED vol
    /\ pc' = "down"
    /\ batch' = <<>>
    /\ UNCHANGED <<dur, result, cache, failedAt, history>>

\* A mount that completes starts with an empty cache.
IoMounted ==
    /\ RecoverNothing \/ FlushCleared
    /\ failedAt' = "none"
    /\ cache' = <<>>
    /\ before' = vol.home
    /\ after' = vol.home
    /\ UNCHANGED <<errors, tainted>>

Quiet ==
    \/ CommitTooLarge \/ FlushStaged \/ FlipCommitted \/ FlushCommitted \/ Install
    \/ FlushInstalled \/ Release \/ Redo \/ FlushRedo \/ RecoverRelease \/ Destage \/ PowerCut

IoNext ==
    \/ \E p \in Page \ {0} : ReadPage(p)
    \/ IoStage \/ IoCommitted \/ IoMounted
    \/ Quiet /\ UNCHANGED <<cache, errors, failedAt, history>>
    \/ StageFails \/ StageCtrlFails \/ FlipFails \/ InstallFails \/ ReleaseFails
    \/ FlushFails \/ RecoverFails

IoSpec == IoInit /\ [][IoNext]_ioVars
-----------------------------------------------------------------------------
(* Properties *)

\* journal.rs "idempotent: safe to crash during the redo and re-run", and the
\* `?` after every device call: as long as no commit is started after one that
\* failed past the flip (or over a medium left COMMITTED), the medium always
\* recovers to the pages before the last transaction or to the pages after it,
\* whatever device calls fail, wherever power is cut and however often recovery
\* is interrupted.
FailureRecoverable == ~tainted => Recovered(dur) \in {before, after}

\* Store::tx: a commit that fails before the flip is rolled back completely:
\* what the running system reads is what it read before.
EarlyFailureRollsBack ==
    pc = "idle" /\ ~tainted /\ failedAt \in {"idle", "staged"} =>
        View = before /\ Recovered(dur) = before

\* The images that transactions write.
Images == UNION {{b[i].img : i \in DOMAIN b} : b \in Batch}

\* journal.rs:6 "a power loss costs at most the last uncommitted transaction":
\* whatever else is lost, no page that a mount would serve is torn, i.e. made
\* of sectors of two different images.
RecoversUntorn == \A p \in Page : Recovered(dur)[p] \in {before[p], after[p]} \cup Images
=============================================================================
