--------------------------- MODULE JournalIoProofs ---------------------------
(***************************************************************************)
(* Proofs about the journal on a device whose calls fail, for every volume,*)
(* journal capacity, family of write-sets and number of errors: the medium *)
(* always recovers to the pages before the last transaction or to those    *)
(* after it, and a commit that failed before the flip leaves no trace.     *)
(*                                                                         *)
(* A failed call leaves the program idle (or down) with the cache ahead of *)
(* the medium, so the program counter no longer tells what is on the disk. *)
(* The invariant therefore speaks of the pair of medium and cache: nothing *)
(* committed; a flip on its way out; a record being redone; a record being *)
(* released.  Which write-set it is about is not in memory any more.       *)
(***************************************************************************)
EXTENDS JournalIo, JournalProofs

(* The pair of medium d and cache v *)

\* No transaction is committed, and no home page waits in the cache.
Clean(d, v) ==
    d.head.state = "EMPTY" /\ v.head.state = "EMPTY" /\ d.home = v.home

Fits(ws) == ws \in WriteSets /\ Len(ws) <= JCAP /\ Distinct(ws)

\* The whole journal of ws is on the medium.
Carries(d, v, ws) == Fits(ws) /\ Agree(d, ws) /\ Agree(v, ws)

\* The COMMITTED header may or may not have reached the medium.
FlipOut(d, v, ws, b, a) ==
    /\ Carries(d, v, ws)
    /\ v.head.state = "COMMITTED"
    /\ d.home = b /\ v.home = b /\ Overlay(b, ws) = a

\* Home pages of ws may be written, in part and in any order.
Redoable(d, v, ws, a) ==
    /\ Carries(d, v, ws)
    /\ d.head.state = "COMMITTED" /\ v.head.state = "COMMITTED"
    /\ Overlay(d.home, ws) = a /\ Overlay(v.home, ws) = a

\* All home pages are in place; the EMPTY header may not have reached the
\* medium.
ReleaseOut(d, v, ws, a) ==
    /\ Carries(d, v, ws)
    /\ v.head.state = "EMPTY"
    /\ d.home = a /\ v.home = a /\ Overlay(a, ws) = a

Resting(d, v, b, a) == Clean(d, v) /\ v.home \in {b, a}

\* What a failed commit leaves behind.
Left(d, v, b, a) ==
    \/ Resting(d, v, b, a)
    \/ \E ws \in WriteSets : FlipOut(d, v, ws, b, a) \/ Redoable(d, v, ws, a)
                             \/ ReleaseOut(d, v, ws, a)

\* What a power cut or a failed recovery leaves behind.
Interrupted(d, v, b, a) ==
    \/ Resting(d, v, b, a)
    \/ \E ws \in WriteSets : Redoable(d, v, ws, a) \/ ReleaseOut(d, v, ws, a)
-----------------------------------------------------------------------------
(* The invariant *)

IoTypes ==
    /\ dur \in Medium /\ vol \in Medium
    /\ pc \in PC
    /\ batch \in WriteSets
    /\ before \in [Page -> Image] /\ after \in [Page -> Image]
    /\ DOMAIN cache \subseteq Page

\* A running commit knows its write-set.
CommitInv == pc \in CommitSteps => Fits(batch) /\ after = Overlay(before, batch)

StagedInv ==
    /\ pc \in {"staged", "journalled"} =>
         Clean(dur, vol) /\ vol.home = before /\ Agree(vol, batch)
    /\ pc \in {"journalled", "committed", "installed", "redone"} => dur = vol

MediumInv ==
    /\ pc = "flipping" => FlipOut(dur, vol, batch, before, after)
    /\ pc \in {"committed", "installing", "installed", "redoing", "redone"} =>
         Redoable(dur, vol, batch, after)
    /\ pc \in {"installing", "installed", "redoing", "redone"} => vol.home = after
    /\ pc \in {"releasing", "clearing"} => ReleaseOut(dur, vol, batch, after)
    /\ pc = "idle" => Left(dur, vol, before, after)
    /\ pc = "down" => Interrupted(dur, vol, before, after)

\* The system goes on after a failure before the flip, or after a mount.
EarlyInv ==
    pc = "idle" /\ failedAt \in Early =>
        /\ vol.head.state = "EMPTY" /\ dur.home = before /\ vol.home = before
        /\ failedAt # "none" => dur.head.state = "EMPTY"

\* The clean-page cache never runs ahead of the commit.
CacheInv ==
    pc \in CommitSteps \/ (pc = "idle" /\ failedAt \in Early) =>
        \A p \in DOMAIN cache : cache[p] = before[p]

Sound == IoTypes /\ CommitInv /\ StagedInv /\ MediumInv /\ EarlyInv /\ CacheInv

IoInv == tainted \in BOOLEAN /\ (~tainted => Sound)

-----------------------------------------------------------------------------
(* Partial writes, write-backs and power cuts *)

\* A control write that stops early: the head is new, and a body that already
\* holds the entries still does.
LEMMA PartlyCtrlFields ==
    ASSUME NEW d \in Medium, NEW e \in Entries, NEW st \in State, NEW s \in Sec
    PROVE  /\ PartlyCtrl(d, e, st, s) \in Medium
           /\ PartlyCtrl(d, e, st, s).head = [state |-> st, crc |-> e]
           /\ PartlyCtrl(d, e, st, s).jd = d.jd
           /\ PartlyCtrl(d, e, st, s).home = d.home
           /\ (\A r \in Sec : d.body[r] = e) => \A r \in Sec : PartlyCtrl(d, e, st, s).body[r] = e
  <1> DEFINE b == [r \in Sec |-> IF r < s THEN e ELSE d.body[r]]
  <1>1. b \in [Sec -> Entries] /\ ((\A r \in Sec : d.body[r] = e) => \A r \in Sec : b[r] = e)
    BY DEF Medium
  <1> DEFINE h == [state |-> st, crc |-> e]
             m == PartlyCtrl(d, e, st, s)
  <1>2. m = [d EXCEPT !.head = h, !.body = b]
    BY DEF PartlyCtrl
  <1>3. h \in [state : State, crc : Entries]
    OBVIOUS
  <1> HIDE DEF b, h, m
  <1>4. m \in Medium /\ m.head = h /\ m.body = b /\ m.jd = d.jd /\ m.home = d.home
    BY <1>1, <1>2, <1>3 DEF Medium
  <1> QED
    BY <1>1, <1>4 DEF m, h

LEMMA PartlyCtrlAgrees ==
    ASSUME NEW d \in Medium, NEW ws \in WriteSets, Agree(d, ws), NEW st \in State, NEW s \in Sec
    PROVE  Agree(PartlyCtrl(d, EntriesOf(ws), st, s), ws)
  <1>1. EntriesOf(ws) \in Entries
    BY EntriesOfType
  <1> DEFINE m == PartlyCtrl(d, EntriesOf(ws), st, s)
  <1>2. /\ m.head = [state |-> st, crc |-> EntriesOf(ws)]
        /\ m.jd = d.jd
        /\ \A r \in Sec : m.body[r] = EntriesOf(ws)
    BY <1>1, PartlyCtrlFields DEF Agree
  <1> HIDE DEF m
  <1> QED
    BY <1>2 DEF Agree, m

\* Staging that stops early touches the journal data pages only.
LEMMA PartlyStagedFields ==
    ASSUME NEW d \in Medium, NEW ws \in WriteSets, Len(ws) <= JCAP, NEW n, NEW s
    PROVE  /\ PartlyStaged(d, ws, n, s) \in Medium
           /\ PartlyStaged(d, ws, n, s).head = d.head
           /\ PartlyStaged(d, ws, n, s).home = d.home
  <1> DEFINE j == [i \in Slot |-> [r \in Sec |->
                     IF i \in DOMAIN ws /\ WentOut(i, r, n, s) THEN ws[i].img[r] ELSE d.jd[i][r]]]
  <1>1. \A i \in DOMAIN ws : ws[i].img \in Image
    BY EntriesOfType
  <1>2. d.jd \in [Slot -> Image]
    BY DEF Medium
  <1>3. j \in [Slot -> Image]
    BY <1>1, <1>2 DEF Image
  <1>4. PartlyStaged(d, ws, n, s) = [d EXCEPT !.jd = j]
    BY DEF PartlyStaged
  <1> HIDE DEF j
  <1> QED
    BY <1>3, <1>4 DEF Medium

\* Installing that stops early touches home pages of the write-set only, so
\* redoing it later gives the same pages.
LEMMA PartlyInstalledFields ==
    ASSUME NEW d \in Medium, NEW ws \in WriteSets, Distinct(ws), NEW n, NEW s
    PROVE  /\ PartlyInstalled(d, ws, n, s) \in Medium
           /\ PartlyInstalled(d, ws, n, s).head = d.head
           /\ PartlyInstalled(d, ws, n, s).body = d.body
           /\ PartlyInstalled(d, ws, n, s).jd = d.jd
           /\ Overlay(PartlyInstalled(d, ws, n, s).home, ws) = Overlay(d.home, ws)
  <1> DEFINE h == [p \in Page |-> [r \in Sec |->
                     IF p \in PagesOf(ws) /\ WentOut(SlotOf(ws, p), r, n, s)
                     THEN ws[SlotOf(ws, p)].img[r] ELSE d.home[p][r]]]
  <1>1. \A p \in PagesOf(ws) : SlotOf(ws, p) \in DOMAIN ws
    BY DEF PagesOf, SlotOf
  <1>2. \A p \in PagesOf(ws) : ws[SlotOf(ws, p)].img \in Image
    BY <1>1, EntriesOfType
  <1>3. d.home \in [Page -> Image]
    BY DEF Medium
  <1>4. h \in [Page -> Image]
    BY <1>2, <1>3 DEF Image
  <1>5. \A p \in Page \ PagesOf(ws) : h[p] = d.home[p]
    <2> SUFFICES ASSUME NEW p \in Page, p \notin PagesOf(ws) PROVE h[p] = d.home[p]
      OBVIOUS
    <2>1. h[p] \in Image /\ d.home[p] \in Image
      BY <1>3, <1>4
    <2>2. \A r \in Sec : h[p][r] = d.home[p][r]
      OBVIOUS
    <2> QED
      BY <2>1, <2>2, ImageEqual
  <1>6. PartlyInstalled(d, ws, n, s) = [d EXCEPT !.home = h]
    BY DEF PartlyInstalled
  <1> HIDE DEF h
  <1>7. Overlay(h, ws) = Overlay(d.home, ws)
    BY <1>3, <1>4, <1>5, OverlayAbsorbs
  <1> QED
    BY <1>4, <1>6, <1>7 DEF Medium

LEMMA AgreeFields ==
    ASSUME NEW d, NEW m, NEW ws, Agree(d, ws), m.head.crc = d.head.crc, m.body = d.body, m.jd = d.jd
    PROVE  Agree(m, ws)
  BY DEF Agree

\* A write-back leaves medium and cache in the same relation.
LEMMA DestagePair ==
    ASSUME dur \in Medium, vol \in Medium, Destage, NEW ws, NEW b, NEW a
    PROVE  /\ Clean(dur, vol) => Clean(dur', vol)
           /\ FlipOut(dur, vol, ws, b, a) => FlipOut(dur', vol, ws, b, a)
           /\ Redoable(dur, vol, ws, a) => Redoable(dur', vol, ws, a)
           /\ ReleaseOut(dur, vol, ws, a) => ReleaseOut(dur', vol, ws, a)
  <1>1. dur' \in Medium /\ dur'.head \in {dur.head, vol.head}
    BY DestageFields
  <1>2. /\ dur.home \in [Page -> Image] /\ vol.home \in [Page -> Image]
        /\ dur'.home \in [Page -> Image]
    BY <1>1 DEF Medium
  <1>3. dur.home = vol.home => dur'.home = vol.home
    BY <1>2, DestageSame
  <1>4. Carries(dur, vol, ws) => Carries(dur', vol, ws)
    BY DestageAgree DEF Carries, Fits
  <1>5. ASSUME Redoable(dur, vol, ws, a) PROVE Redoable(dur', vol, ws, a)
    <2>1. Fits(ws)
      BY <1>5 DEF Redoable, Carries
    <2>2. \A p \in Page \ PagesOf(ws) : dur.home[p] = vol.home[p]
      BY <1>2, <1>5, <2>1, OverlayPages DEF Redoable, Fits
    <2>3. \A p \in Page \ PagesOf(ws) : dur'.home[p] = vol.home[p]
      BY <2>2, DestageSame
    <2>4. Overlay(dur'.home, ws) = Overlay(vol.home, ws)
      BY <1>2, <2>1, <2>3, OverlayAbsorbs DEF Fits
    <2> QED
      BY <1>1, <1>4, <1>5, <2>4 DEF Redoable
  <1> QED
    BY <1>1, <1>3, <1>4, <1>5 DEF Clean, FlipOut, ReleaseOut

\* What a power cut makes of a pair: the medium decides.
LEMMA PowerCutPair ==
    ASSUME NEW d \in Medium, NEW v, NEW ws, NEW b, NEW a
    PROVE  /\ Resting(d, v, b, a) => Resting(d, d, b, a)
           /\ FlipOut(d, v, ws, b, a) => Resting(d, d, b, a) \/ Redoable(d, d, ws, a)
           /\ Redoable(d, v, ws, a) => Redoable(d, d, ws, a)
           /\ ReleaseOut(d, v, ws, a) => Resting(d, d, b, a) \/ Redoable(d, d, ws, a)
  <1>1. d.head.state \in {"EMPTY", "COMMITTED"}
    BY DEF Medium, State
  <1> QED
    BY <1>1 DEF Resting, Clean, FlipOut, Redoable, ReleaseOut, Carries

\* What recovery would find in a pair.
LEMMA RecoveredPair ==
    ASSUME NEW d \in Medium, NEW v, NEW ws, NEW b, NEW a
    PROVE  /\ Clean(d, v) => Recovered(d) = v.home
           /\ FlipOut(d, v, ws, b, a) => Recovered(d) \in {b, a}
           /\ Redoable(d, v, ws, a) => Recovered(d) = a /\ Committed(v) /\ Journalled(v) = ws
           /\ ReleaseOut(d, v, ws, a) => Recovered(d) = a
  <1>1. Clean(d, v) => Recovered(d) = v.home
    BY DEF Clean, Recovered, Committed
  <1>2. Carries(d, v, ws) => /\ Journalled(d) = ws /\ ReadCtrlOk(d)
                             /\ Journalled(v) = ws /\ ReadCtrlOk(v)
    BY JournalledAgrees DEF Carries, Fits
  <1>3. FlipOut(d, v, ws, b, a) => Recovered(d) \in {b, a}
    BY <1>2 DEF FlipOut, Recovered, Committed
  <1>4. Redoable(d, v, ws, a) => Recovered(d) = a /\ Committed(v) /\ Journalled(v) = ws
    BY <1>2 DEF Redoable, Recovered, Committed
  <1>5. ReleaseOut(d, v, ws, a) => Recovered(d) = a
    BY <1>2 DEF ReleaseOut, Recovered, Committed
  <1> QED
    BY <1>1, <1>3, <1>4, <1>5

-----------------------------------------------------------------------------
(* Commit *)

LEMMA EmptyBatch == <<>> \in WriteSets
  BY EmptySeq DEF WriteSets

\* A commit that begins untainted finds a clean pair.
LEMMA BeginsClean ==
    ASSUME Sound, pc = "idle", NEW ws \in Batch, Remember(ws), Len(ws) <= JCAP, ~tainted'
    PROVE  /\ Fits(ws)
           /\ Clean(dur, vol) /\ vol.home = before
           /\ before' = before /\ after' = Overlay(before, ws)
           /\ before' \in [Page -> Image] /\ after' \in [Page -> Image]
           /\ \A p \in DOMAIN cache : cache[p] = before[p]
  <1>1. Fits(ws)
    BY JournalAssumption DEF Fits
  <1>2. failedAt \in Early /\ dur.head.state # "COMMITTED"
    BY DEF Remember
  <1>3. dur.head.state = "EMPTY"
    BY <1>2 DEF Sound, IoTypes, Medium, State
  <1>4. Clean(dur, vol) /\ vol.home = before /\ \A p \in DOMAIN cache : cache[p] = before[p]
    BY <1>2, <1>3 DEF Sound, EarlyInv, CacheInv, Clean
  <1>5. before' = before /\ after' = Overlay(before, ws)
    BY <1>4 DEF Remember
  <1>6. before \in [Page -> Image]
    BY DEF Sound, IoTypes
  <1> QED
    BY <1>1, <1>4, <1>5, <1>6, OverlayPages DEF Fits

LEMMA IoStageKeeps ==
    ASSUME Sound, IoStage, ~tainted'
    PROVE  Sound'
  <1>1. PICK b \in Batch :
          /\ pc = "idle" /\ Len(b) <= JCAP /\ batch' = b
          /\ vol' = WriteCtrl(StageImages(vol, b), EntriesOf(b), "EMPTY")
          /\ pc' = "staged" /\ dur' = dur
    BY DEF IoStage, Stage
  <1>2. Remember(b) /\ cache' = cache /\ failedAt' = "none"
    BY <1>1 DEF IoStage
  <1>3. /\ Fits(b)
        /\ Clean(dur, vol) /\ vol.home = before
        /\ before' = before /\ after' = Overlay(before, b)
        /\ before' \in [Page -> Image] /\ after' \in [Page -> Image]
        /\ \A p \in DOMAIN cache : cache[p] = before[p]
    BY <1>1, <1>2, BeginsClean
  <1>4. vol \in Medium /\ dur \in Medium /\ b \in WriteSets /\ DOMAIN cache \subseteq Page
    BY <1>3 DEF Sound, IoTypes, Fits
  <1> DEFINE m == StageImages(vol, b)
  <1>5. /\ m \in Medium /\ m.home = vol.home /\ \A i \in DOMAIN b : m.jd[i] = b[i].img
    BY <1>1, <1>4, StageImagesFields
  <1>6. EntriesOf(b) \in Entries /\ "EMPTY" \in State
    BY <1>4, EntriesOfType DEF State
  <1> HIDE DEF m
  <1>7. /\ vol' \in Medium /\ vol'.head = [state |-> "EMPTY", crc |-> EntriesOf(b)]
        /\ \A s \in Sec : vol'.body[s] = EntriesOf(b)
        /\ vol'.jd = m.jd /\ vol'.home = m.home
    BY <1>1, <1>5, <1>6, WriteCtrlFields DEF m
  <1>8. Agree(vol', b)
    BY <1>5, <1>7 DEF Agree
  <1>9. Clean(dur, vol') /\ vol'.home = before
    BY <1>3, <1>5, <1>7 DEF Clean
  <1>10. IoTypes'
    BY <1>1, <1>2, <1>3, <1>4, <1>7 DEF IoTypes, PC, CommitSteps
  <1>11. CommitInv' /\ StagedInv'
    BY <1>1, <1>3, <1>8, <1>9 DEF CommitInv, StagedInv, Clean, Fits, Agree
  <1>12. MediumInv' /\ EarlyInv' /\ CacheInv'
    BY <1>1, <1>2, <1>3 DEF MediumInv, EarlyInv, CacheInv
  <1> QED
    BY <1>10, <1>11, <1>12 DEF Sound

\* What most steps leave alone.
Kept == batch' = batch /\ UNCHANGED <<cache, errors, failedAt, history>>

\* A flush that returns.
LEMMA FlushKeeps ==
    ASSUME Sound, FlushStaged \/ FlushCommitted \/ FlushInstalled \/ FlushRedo, Kept
    PROVE  Sound'
  <1>1. /\ dur' = vol /\ vol' = vol /\ batch' = batch
        /\ \/ pc = "staged" /\ pc' = "journalled"
           \/ pc = "flipping" /\ pc' = "committed"
           \/ pc = "installing" /\ pc' = "installed"
           \/ pc = "redoing" /\ pc' = "redone"
    BY DEF FlushStaged, FlushCommitted, FlushInstalled, FlushRedo, FlushFrom, Kept
  <1>2. /\ cache' = cache /\ before' = before /\ after' = after /\ failedAt' = failedAt
    BY DEF Kept, history
  <1>3. IoTypes'
    BY <1>1, <1>2 DEF Sound, IoTypes, PC, CommitSteps
  <1>4. CommitInv' /\ EarlyInv' /\ CacheInv'
    BY <1>1, <1>2 DEF Sound, CommitInv, EarlyInv, CacheInv, CommitSteps, Fits
  <1>5. StagedInv'
    BY <1>1, <1>2 DEF Sound, StagedInv, Clean, Agree
  <1>6. \A ws : /\ FlipOut(dur, vol, ws, before, after) => Redoable(vol, vol, ws, after)
                /\ Redoable(dur, vol, ws, after) => Redoable(vol, vol, ws, after)
    BY DEF FlipOut, Redoable, Carries
  <1>7. pc' \in {"committed", "installed", "redone"} => Redoable(vol, vol, batch, after)
    BY <1>1, <1>6 DEF Sound, MediumInv
  <1>8. pc' \in {"installed", "redone"} => vol.home = after
    BY <1>1 DEF Sound, MediumInv
  <1>9. MediumInv'
    BY <1>1, <1>2, <1>7, <1>8 DEF MediumInv
  <1> QED
    BY <1>3, <1>4, <1>5, <1>9 DEF Sound

LEMMA FlipKeeps ==
    ASSUME Sound, FlipCommitted, Kept
    PROVE  Sound'
  <1>1. /\ pc = "journalled" /\ pc' = "flipping" /\ dur' = dur /\ batch' = batch
        /\ vol' = WriteCtrl(vol, EntriesOf(batch), "COMMITTED")
        /\ cache' = cache /\ before' = before /\ after' = after /\ failedAt' = failedAt
    BY DEF FlipCommitted, Kept, history
  <1>2. /\ dur = vol /\ Fits(batch) /\ Agree(vol, batch) /\ vol.home = before
        /\ after = Overlay(before, batch)
    BY <1>1 DEF Sound, StagedInv, CommitInv, CommitSteps
  <1>3. vol \in Medium /\ batch \in WriteSets /\ EntriesOf(batch) \in Entries /\ "COMMITTED" \in State
    BY <1>2, EntriesOfType DEF Sound, IoTypes, State
  <1>4. /\ vol' \in Medium /\ vol'.head = [state |-> "COMMITTED", crc |-> EntriesOf(batch)]
        /\ \A s \in Sec : vol'.body[s] = EntriesOf(batch)
        /\ vol'.jd = vol.jd /\ vol'.home = vol.home
    BY <1>1, <1>3, WriteCtrlFields
  <1>5. Agree(vol', batch)
    BY <1>2, <1>4 DEF Agree
  <1>6. FlipOut(dur, vol', batch, before, after)
    BY <1>2, <1>4, <1>5 DEF FlipOut, Carries
  <1>7. IoTypes'
    BY <1>1, <1>4 DEF Sound, IoTypes, PC, CommitSteps
  <1>8. CommitInv' /\ StagedInv' /\ EarlyInv' /\ CacheInv'
    BY <1>1, <1>2 DEF Sound, CommitInv, StagedInv, EarlyInv, CacheInv, CommitSteps, Fits
  <1>9. MediumInv'
    BY <1>1, <1>6 DEF MediumInv
  <1> QED
    BY <1>7, <1>8, <1>9 DEF Sound

\* Copying the journalled images home, in commit or in recover.
LEMMA InstallHomePair ==
    ASSUME NEW d \in Medium, NEW v \in Medium, NEW ws, NEW a, Redoable(d, v, ws, a)
    PROVE  /\ InstallHome(v, ws) \in Medium
           /\ InstallHome(v, ws).home = a
           /\ Redoable(d, InstallHome(v, ws), ws, a)
  <1>1. Fits(ws) /\ Agree(v, ws) /\ v.home \in [Page -> Image] /\ Overlay(v.home, ws) = a
    BY DEF Redoable, Carries, Medium
  <1> DEFINE m == InstallHome(v, ws)
  <1>2. m \in Medium /\ m.home = a /\ m.head = v.head /\ m.body = v.body /\ m.jd = v.jd
    BY <1>1, InstallHomeFields DEF Fits
  <1> HIDE DEF m
  <1>3. Agree(m, ws)
    BY <1>1, <1>2 DEF Agree
  <1>4. /\ \A i \in DOMAIN ws : a[ws[i].page] = ws[i].img
        /\ a \in [Page -> Image]
    BY <1>1, OverlayPages DEF Fits
  <1>5. Overlay(a, ws) = a
    BY <1>1, <1>4, OverlayInstalled DEF Fits
  <1>6. Redoable(d, m, ws, a)
    BY <1>2, <1>3, <1>5 DEF Redoable, Carries
  <1> QED
    BY <1>2, <1>6 DEF m

LEMMA InstallKeeps ==
    ASSUME Sound, Install, Kept
    PROVE  Sound'
  <1>1. /\ pc = "committed" /\ pc' = "installing" /\ dur' = dur /\ batch' = batch
        /\ vol' = InstallHome(vol, batch)
        /\ cache' = cache /\ before' = before /\ after' = after /\ failedAt' = failedAt
    BY DEF Install, Kept, history
  <1>2. Redoable(dur, vol, batch, after) /\ dur \in Medium /\ vol \in Medium
    BY <1>1 DEF Sound, MediumInv, IoTypes
  <1>3. vol' \in Medium /\ vol'.home = after /\ Redoable(dur, vol', batch, after)
    BY <1>1, <1>2, InstallHomePair
  <1>4. IoTypes'
    BY <1>1, <1>3 DEF Sound, IoTypes, PC, CommitSteps
  <1>5. CommitInv' /\ StagedInv' /\ EarlyInv' /\ CacheInv'
    BY <1>1 DEF Sound, CommitInv, StagedInv, EarlyInv, CacheInv, CommitSteps, Fits
  <1>6. MediumInv'
    BY <1>1, <1>3 DEF MediumInv
  <1> QED
    BY <1>4, <1>5, <1>6 DEF Sound

\* The EMPTY control area goes out, in whole or in part.
LEMMA ReleasedPair ==
    ASSUME NEW d, NEW v \in Medium, NEW m, NEW ws, NEW a,
           Redoable(d, v, ws, a), v.home = a, d.home = a,
           m.head.state = "EMPTY", Agree(m, ws), m.home = v.home
    PROVE  ReleaseOut(d, m, ws, a)
  BY DEF Redoable, ReleaseOut, Carries

LEMMA ReleaseKeeps ==
    ASSUME Sound, Release \/ RecoverRelease, Kept
    PROVE  Sound'
  <1>1. /\ \/ pc = "installed" /\ pc' = "releasing"
           \/ pc = "redone" /\ pc' = "clearing"
        /\ dur' = dur /\ batch' = batch
        /\ vol' = WriteCtrl(vol, EntriesOf(batch), "EMPTY")
        /\ cache' = cache /\ before' = before /\ after' = after /\ failedAt' = failedAt
    BY DEF Release, RecoverRelease, Kept, history
  <1>2. Redoable(dur, vol, batch, after) /\ vol.home = after /\ dur = vol
    BY <1>1 DEF Sound, MediumInv, StagedInv
  <1>3. /\ vol \in Medium /\ batch \in WriteSets /\ Agree(vol, batch)
        /\ EntriesOf(batch) \in Entries /\ "EMPTY" \in State
    BY <1>2, EntriesOfType DEF Sound, IoTypes, State, Redoable, Carries
  <1>4. /\ vol' \in Medium /\ vol'.head = [state |-> "EMPTY", crc |-> EntriesOf(batch)]
        /\ \A s \in Sec : vol'.body[s] = EntriesOf(batch)
        /\ vol'.jd = vol.jd /\ vol'.home = vol.home
    BY <1>1, <1>3, WriteCtrlFields
  <1>5. Agree(vol', batch) /\ vol'.head.state = "EMPTY"
    BY <1>3, <1>4 DEF Agree
  <1>6. ReleaseOut(dur, vol', batch, after)
    BY <1>2, <1>3, <1>4, <1>5, ReleasedPair
  <1>7. IoTypes'
    BY <1>1, <1>4 DEF Sound, IoTypes, PC, CommitSteps
  <1>8. CommitInv' /\ StagedInv' /\ EarlyInv' /\ CacheInv'
    BY <1>1 DEF Sound, CommitInv, StagedInv, EarlyInv, CacheInv, CommitSteps, Fits
  <1>9. MediumInv'
    BY <1>1, <1>6 DEF MediumInv
  <1> QED
    BY <1>7, <1>8, <1>9 DEF Sound

LEMMA IoCommittedKeeps ==
    ASSUME Sound, IoCommitted
    PROVE  Sound'
  <1>1. /\ pc = "releasing" /\ pc' = "idle" /\ dur' = vol /\ vol' = vol /\ batch' = <<>>
        /\ cache' = [p \in DOMAIN cache \cup (PagesOf(batch) \ {0}) |->
                       IF p \in PagesOf(batch) THEN batch[SlotOf(batch, p)].img ELSE cache[p]]
        /\ before' = after /\ after' = after /\ failedAt' = failedAt
    BY DEF IoCommitted, FlushReleased
  <1>2. ReleaseOut(dur, vol, batch, after) /\ Fits(batch) /\ after = Overlay(before, batch)
    BY <1>1 DEF Sound, MediumInv, CommitInv, CommitSteps
  <1>3. vol.head.state = "EMPTY" /\ vol.home = after
    BY <1>2 DEF ReleaseOut
  <1>4. PagesOf(batch) \subseteq Page
    BY <1>2, EntriesOfType DEF Fits, PagesOf
  <1>5. DOMAIN cache \subseteq Page /\ \A p \in DOMAIN cache : cache[p] = before[p]
    BY <1>1 DEF Sound, IoTypes, CacheInv, CommitSteps
  <1>6. DOMAIN cache' \subseteq Page
    BY <1>1, <1>4, <1>5
  <1>7. \A p \in DOMAIN cache' : cache'[p] = after[p]
    BY <1>1, <1>2, <1>4, <1>5 DEF Overlay
  <1>8. IoTypes'
    BY <1>1, <1>6, EmptyBatch DEF Sound, IoTypes, PC
  <1>9. CommitInv' /\ StagedInv' /\ EarlyInv' /\ CacheInv'
    BY <1>1, <1>3, <1>7 DEF CommitInv, StagedInv, EarlyInv, CacheInv, CommitSteps
  <1>10. Left(vol, vol, after, after)
    BY <1>3 DEF Left, Resting, Clean
  <1>11. MediumInv'
    BY <1>1, <1>10 DEF MediumInv
  <1> QED
    BY <1>8, <1>9, <1>11 DEF Sound

\* Nothing that Sound speaks of changes.
LEMMA UnchangedKeeps ==
    ASSUME Sound, UNCHANGED <<dur, vol, pc, batch, cache, failedAt, before, after>>
    PROVE  Sound'
  <1>1. IoTypes' /\ CommitInv' /\ StagedInv' /\ EarlyInv' /\ CacheInv'
    BY DEF Sound, IoTypes, CommitInv, StagedInv, EarlyInv, CacheInv
  <1>2. MediumInv'
    BY DEF Sound, MediumInv
  <1> QED
    BY <1>1, <1>2 DEF Sound

LEMMA ReadPageKeeps ==
    ASSUME Sound, NEW p \in Page \ {0}, ReadPage(p)
    PROVE  Sound'
  <1>1. /\ UNCHANGED <<dur, vol, pc, batch, failedAt, before, after>>
        /\ pc = "idle"
        /\ cache' = [q \in DOMAIN cache \cup {p} |-> IF q = p THEN vol.home[p] ELSE cache[q]]
    BY DEF ReadPage, vars, history
  <1>2. CacheInv'
    BY <1>1 DEF Sound, CacheInv, EarlyInv, CommitSteps
  <1>3. IoTypes' /\ CommitInv' /\ StagedInv' /\ EarlyInv'
    BY <1>1 DEF Sound, IoTypes, CommitInv, StagedInv, EarlyInv
  <1>4. MediumInv'
    BY <1>1 DEF Sound, MediumInv
  <1> QED
    BY <1>2, <1>3, <1>4 DEF Sound

-----------------------------------------------------------------------------
(* The device and recovery *)

LEMMA DestageKeeps ==
    ASSUME Sound, Destage, UNCHANGED <<cache, errors, failedAt, history>>
    PROVE  Sound'
  <1>1. /\ vol' = vol /\ pc' = pc /\ batch' = batch
        /\ cache' = cache /\ before' = before /\ after' = after /\ failedAt' = failedAt
    BY DEF Destage, history
  <1>2. dur \in Medium /\ vol \in Medium
    BY DEF Sound, IoTypes
  <1>3. dur' \in Medium /\ dur'.head \in {dur.head, vol.head}
    BY <1>2, DestageFields
  <1>4. dur.home = vol.home => dur'.home = vol.home
    <2>1. dur'.home \in [Page -> Image] /\ vol.home \in [Page -> Image]
      BY <1>2, <1>3 DEF Medium
    <2> QED
      BY <1>2, <2>1, DestageSame
  <1>5. pc \notin {"journalled", "committed", "installed", "redone"}
    <2> SUFFICES ASSUME dur = vol PROVE FALSE
      BY DEF Sound, StagedInv
    <2> QED
      BY <1>2, NothingToDestage
  <1>6. IoTypes'
    BY <1>1, <1>3 DEF Sound, IoTypes
  <1>7. CommitInv' /\ CacheInv'
    BY <1>1 DEF Sound, CommitInv, CacheInv
  <1>8. StagedInv'
    BY <1>1, <1>2, <1>5, DestagePair DEF Sound, StagedInv
  <1>9. EarlyInv'
    BY <1>1, <1>3, <1>4 DEF Sound, EarlyInv
  <1>10. Left(dur, vol, before, after) => Left(dur', vol, before, after)
    BY <1>2, DestagePair DEF Left, Resting
  <1>11. Interrupted(dur, vol, before, after) => Interrupted(dur', vol, before, after)
    BY <1>2, DestagePair DEF Interrupted, Resting
  <1>12. MediumInv'
    BY <1>1, <1>2, <1>10, <1>11, DestagePair DEF Sound, MediumInv
  <1> QED
    BY <1>6, <1>7, <1>8, <1>9, <1>12 DEF Sound

\* Wherever power is cut, the medium alone is an interrupted pair.
LEMMA CutInterrupted ==
    ASSUME Sound
    PROVE  Interrupted(dur, dur, before, after)
  <1>1. dur \in Medium /\ batch \in WriteSets /\ pc \in PC
    BY DEF Sound, IoTypes
  <1>2. Resting(dur, vol, before, after) => Interrupted(dur, dur, before, after)
    BY <1>1, PowerCutPair DEF Interrupted
  <1>3. ASSUME NEW ws \in WriteSets, \/ FlipOut(dur, vol, ws, before, after)
                                     \/ Redoable(dur, vol, ws, after)
                                     \/ ReleaseOut(dur, vol, ws, after)
        PROVE  Interrupted(dur, dur, before, after)
    <2>1. Resting(dur, dur, before, after) \/ Redoable(dur, dur, ws, after)
      BY <1>1, <1>3, PowerCutPair
    <2> QED
      BY <2>1 DEF Interrupted
  <1>4. CASE pc \in {"staged", "journalled"}
    BY <1>2, <1>4 DEF Sound, StagedInv, Resting
  <1>5. CASE pc \in {"idle", "down"}
    BY <1>2, <1>3, <1>5 DEF Sound, MediumInv, Left, Interrupted
  <1>6. CASE pc \notin {"idle", "down", "staged", "journalled"}
    BY <1>1, <1>3, <1>6 DEF Sound, MediumInv, PC, CommitSteps
  <1> QED
    BY <1>4, <1>5, <1>6

LEMMA PowerCutKeeps ==
    ASSUME Sound, PowerCut, UNCHANGED <<cache, errors, failedAt, history>>
    PROVE  Sound'
  <1>1. /\ dur' = dur /\ vol' = dur /\ pc' = "down" /\ batch' = <<>>
        /\ cache' = cache /\ before' = before /\ after' = after
    BY DEF PowerCut, history
  <1>2. IoTypes'
    BY <1>1, EmptyBatch DEF Sound, IoTypes, PC
  <1>3. MediumInv'
    BY <1>1, CutInterrupted DEF MediumInv
  <1>4. CommitInv' /\ StagedInv' /\ EarlyInv' /\ CacheInv'
    BY <1>1 DEF CommitInv, StagedInv, EarlyInv, CacheInv, CommitSteps
  <1> QED
    BY <1>2, <1>3, <1>4 DEF Sound

\* A record that recover finds is the one the invariant speaks of.
LEMMA FoundRecord ==
    ASSUME Sound, pc = "down"
    PROVE  IF Committed(vol) THEN Redoable(dur, vol, Journalled(vol), after)
           ELSE \/ Resting(dur, vol, before, after)
                \/ \E ws \in WriteSets : ReleaseOut(dur, vol, ws, after)
  <1>1. dur \in Medium /\ Interrupted(dur, vol, before, after)
    BY DEF Sound, IoTypes, MediumInv
  <1>2. \A ws : Redoable(dur, vol, ws, after) => Committed(vol) /\ Journalled(vol) = ws
    BY <1>1, RecoveredPair
  <1>3. Resting(dur, vol, before, after) => ~Committed(vol)
    BY DEF Resting, Clean, Committed
  <1>4. \A ws : ReleaseOut(dur, vol, ws, after) => ~Committed(vol)
    BY DEF ReleaseOut, Committed
  <1> QED
    BY <1>1, <1>2, <1>3, <1>4 DEF Interrupted

LEMMA RedoKeeps ==
    ASSUME Sound, Redo, UNCHANGED <<cache, errors, failedAt, history>>
    PROVE  Sound'
  <1> DEFINE ws == Journalled(vol)
  <1>1. /\ pc = "down" /\ pc' = "redoing" /\ dur' = dur /\ Committed(vol)
        /\ batch' = ws /\ vol' = InstallHome(vol, ws)
        /\ cache' = cache /\ before' = before /\ after' = after
    BY DEF Redo, history
  <1>2. Redoable(dur, vol, ws, after) /\ dur \in Medium /\ vol \in Medium
    BY <1>1, FoundRecord DEF Sound, IoTypes
  <1> HIDE DEF ws
  <1>3. ws \in WriteSets
    BY <1>2 DEF Redoable, Carries, Fits
  <1>4. vol' \in Medium /\ vol'.home = after /\ Redoable(dur, vol', ws, after)
    BY <1>1, <1>2, InstallHomePair
  <1>5. IoTypes'
    BY <1>1, <1>3, <1>4 DEF Sound, IoTypes, PC
  <1>6. MediumInv'
    BY <1>1, <1>4 DEF MediumInv
  <1>7. CommitInv' /\ StagedInv' /\ EarlyInv' /\ CacheInv'
    BY <1>1 DEF CommitInv, StagedInv, EarlyInv, CacheInv, CommitSteps
  <1> QED
    BY <1>5, <1>6, <1>7 DEF Sound

LEMMA IoMountedKeeps ==
    ASSUME Sound, IoMounted
    PROVE  Sound'
  <1>1. /\ vol' = vol /\ pc' = "idle" /\ batch' \in {batch, <<>>}
        /\ cache' = <<>> /\ before' = vol.home /\ after' = vol.home /\ failedAt' = "none"
        /\ \/ pc = "down" /\ ~Committed(vol) /\ dur' = dur
           \/ pc = "clearing" /\ dur' = vol
    BY DEF IoMounted, RecoverNothing, FlushCleared
  <1>2. dur \in Medium /\ vol \in Medium /\ dur' \in Medium /\ vol.home \in [Page -> Image]
    BY <1>1 DEF Sound, IoTypes, Medium
  <1>3. \/ Clean(dur', vol)
        \/ \E ws \in WriteSets : ReleaseOut(dur', vol, ws, vol.home)
    <2>1. CASE pc = "down" /\ ~Committed(vol) /\ dur' = dur
      <3>1. \A ws : ReleaseOut(dur, vol, ws, after) => ReleaseOut(dur, vol, ws, vol.home)
        BY DEF ReleaseOut
      <3> QED
        BY <2>1, <3>1, FoundRecord DEF Resting
    <2>2. CASE pc = "clearing" /\ dur' = vol
      BY <2>2 DEF Sound, MediumInv, ReleaseOut, Clean
    <2> QED
      BY <1>1, <2>1, <2>2
  <1>4. Left(dur', vol, vol.home, vol.home)
    BY <1>3 DEF Left, Resting
  <1>5. vol.head.state = "EMPTY" /\ dur'.home = vol.home
    BY <1>3 DEF Clean, ReleaseOut
  <1>6. IoTypes'
    BY <1>1, <1>2, EmptyBatch DEF Sound, IoTypes, PC
  <1>7. MediumInv'
    BY <1>1, <1>4 DEF MediumInv
  <1>8. CommitInv' /\ StagedInv' /\ EarlyInv' /\ CacheInv'
    BY <1>1, <1>5 DEF CommitInv, StagedInv, EarlyInv, CacheInv, CommitSteps
  <1> QED
    BY <1>6, <1>7, <1>8 DEF Sound

-----------------------------------------------------------------------------
(* Failures *)

\* Store::tx after a failed commit: what has to be shown of where it failed.
LEMMA FailedKeeps ==
    ASSUME Sound,
           pc' = "idle", batch' = <<>>, dur' = dur, cache' = cache, vol' \in Medium,
           before' \in [Page -> Image], after' \in [Page -> Image],
           Left(dur, vol', before', after'),
           failedAt' \in Early =>
             /\ Clean(dur, vol') /\ vol'.home = before'
             /\ \A p \in DOMAIN cache : cache[p] = before'[p]
    PROVE  Sound'
  <1>1. IoTypes'
    BY EmptyBatch DEF Sound, IoTypes, PC
  <1>2. MediumInv'
    BY DEF MediumInv
  <1>3. EarlyInv' /\ CacheInv'
    BY DEF EarlyInv, CacheInv, Clean, CommitSteps
  <1>4. CommitInv' /\ StagedInv'
    BY DEF CommitInv, StagedInv, CommitSteps
  <1> QED
    BY <1>1, <1>2, <1>3, <1>4 DEF Sound

LEMMA StagingFailsKeeps ==
    ASSUME Sound, StageFails \/ StageCtrlFails, ~tainted'
    PROVE  Sound'
  <1>1. /\ pc = "idle" /\ pc' = "idle" /\ batch' = <<>> /\ dur' = dur /\ cache' = cache
        /\ failedAt' = "idle"
    BY DEF StageFails, StageCtrlFails, TxFails
  <1>2. PICK b \in Batch :
          /\ Len(b) <= JCAP /\ Remember(b)
          /\ \/ \E n, s : vol' = PartlyStaged(vol, b, n, s)
             \/ \E s \in Sec : vol' = PartlyCtrl(StageImages(vol, b), EntriesOf(b), "EMPTY", s)
    BY DEF StageFails, StageCtrlFails
  <1>3. /\ Fits(b)
        /\ Clean(dur, vol) /\ vol.home = before
        /\ before' = before /\ before' \in [Page -> Image] /\ after' \in [Page -> Image]
        /\ \A p \in DOMAIN cache : cache[p] = before[p]
    BY <1>1, <1>2, BeginsClean
  <1>4. vol \in Medium /\ b \in WriteSets
    BY <1>3 DEF Sound, IoTypes, Fits
  <1>5. vol' \in Medium /\ vol'.head.state = "EMPTY" /\ vol'.home = vol.home
    <2>1. CASE \E n, s : vol' = PartlyStaged(vol, b, n, s)
      BY <1>2, <1>3, <1>4, <2>1, PartlyStagedFields DEF Clean
    <2>2. CASE \E s \in Sec : vol' = PartlyCtrl(StageImages(vol, b), EntriesOf(b), "EMPTY", s)
      <3>1. StageImages(vol, b) \in Medium /\ StageImages(vol, b).home = vol.home
        BY <1>2, <1>4, StageImagesFields
      <3>2. EntriesOf(b) \in Entries /\ "EMPTY" \in State
        BY <1>4, EntriesOfType DEF State
      <3>3. PICK s \in Sec : vol' = PartlyCtrl(StageImages(vol, b), EntriesOf(b), "EMPTY", s)
        BY <2>2
      <3>4. /\ vol' \in Medium /\ vol'.head = [state |-> "EMPTY", crc |-> EntriesOf(b)]
            /\ vol'.home = vol.home
        BY <3>1, <3>2, <3>3, PartlyCtrlFields
      <3> QED
        BY <3>4
    <2> QED
      BY <1>2, <2>1, <2>2
  <1>6. Clean(dur, vol') /\ vol'.home = before'
    BY <1>3, <1>5 DEF Clean
  <1>7. Left(dur, vol', before', after')
    BY <1>6 DEF Left, Resting
  <1> QED
    BY <1>1, <1>3, <1>5, <1>6, <1>7, FailedKeeps

\* A write of the control area over a journal that already has its entries.
LEMMA CtrlOverSame ==
    ASSUME NEW v \in Medium, NEW ws \in WriteSets, Agree(v, ws), NEW st \in State, NEW s \in Sec,
           NEW m, m = PartlyCtrl(v, EntriesOf(ws), st, s)
    PROVE  /\ m \in Medium /\ m.head.state = st /\ m.home = v.home
           /\ Agree(m, ws)
  <1>1. EntriesOf(ws) \in Entries
    BY EntriesOfType
  <1>2. m \in Medium /\ m.head = [state |-> st, crc |-> EntriesOf(ws)] /\ m.home = v.home
    BY <1>1, PartlyCtrlFields
  <1> QED
    BY <1>2, PartlyCtrlAgrees

LEMMA FlipFailsKeeps ==
    ASSUME Sound, FlipFails
    PROVE  Sound'
  <1>1. /\ pc = "journalled" /\ pc' = "idle" /\ batch' = <<>> /\ dur' = dur /\ cache' = cache
        /\ failedAt' \notin Early /\ before' = before /\ after' = after
        /\ \/ vol' = vol
           \/ \E s \in Sec : vol' = PartlyCtrl(vol, EntriesOf(batch), "COMMITTED", s)
    BY DEF FlipFails, TxFails, history, Early
  <1>2. /\ dur = vol /\ Fits(batch) /\ Agree(vol, batch) /\ vol.home = before
        /\ after = Overlay(before, batch) /\ Clean(dur, vol)
    BY <1>1 DEF Sound, StagedInv, CommitInv, CommitSteps
  <1>3. vol \in Medium /\ batch \in WriteSets /\ "COMMITTED" \in State
    BY DEF Sound, IoTypes, State
  <1>4. vol' \in Medium /\ Left(dur, vol', before, after)
    <2>1. CASE vol' = vol
      BY <1>2, <1>3, <2>1 DEF Left, Resting
    <2>2. CASE \E s \in Sec : vol' = PartlyCtrl(vol, EntriesOf(batch), "COMMITTED", s)
      <3>1. /\ vol' \in Medium /\ vol'.head.state = "COMMITTED" /\ vol'.home = vol.home
            /\ Agree(vol', batch)
        BY <1>2, <1>3, <2>2, CtrlOverSame
      <3>2. FlipOut(dur, vol', batch, before, after)
        BY <1>2, <3>1 DEF FlipOut, Carries
      <3> QED
        BY <1>3, <3>1, <3>2 DEF Left
    <2> QED
      BY <1>1, <2>1, <2>2
  <1>5. before \in [Page -> Image] /\ after \in [Page -> Image]
    BY DEF Sound, IoTypes
  <1> QED
    BY <1>1, <1>4, <1>5, FailedKeeps

\* Home pages written in part leave the record redoable.
LEMMA PartlyInstalledPair ==
    ASSUME NEW d, NEW v \in Medium, NEW ws, NEW a, Redoable(d, v, ws, a), NEW n, NEW s,
           NEW m, m = PartlyInstalled(v, ws, n, s)
    PROVE  m \in Medium /\ Redoable(d, m, ws, a)
  <1>1. Fits(ws) /\ Agree(v, ws)
    BY DEF Redoable, Carries
  <1>2. /\ m \in Medium /\ m.head = v.head /\ m.body = v.body /\ m.jd = v.jd
        /\ Overlay(m.home, ws) = Overlay(v.home, ws)
    BY <1>1, PartlyInstalledFields DEF Fits
  <1>3. Agree(m, ws)
    BY <1>1, <1>2 DEF Agree
  <1> QED
    BY <1>2, <1>3 DEF Redoable, Carries

LEMMA LateFailsKeeps ==
    ASSUME Sound, InstallFails \/ ReleaseFails
    PROVE  Sound'
  <1>1. /\ pc \in {"committed", "installed"}
        /\ pc' = "idle" /\ batch' = <<>> /\ dur' = dur /\ cache' = cache
        /\ failedAt' \notin Early /\ before' = before /\ after' = after
        /\ \/ vol' = vol
           \/ \E n, s : vol' = PartlyInstalled(vol, batch, n, s)
           \/ pc = "installed" /\ \E s \in Sec : vol' = PartlyCtrl(vol, EntriesOf(batch), "EMPTY", s)
    BY DEF InstallFails, ReleaseFails, TxFails, history, Early
  <1>2. Redoable(dur, vol, batch, after) /\ Agree(vol, batch)
    BY <1>1 DEF Sound, MediumInv, Redoable, Carries
  <1>3. vol \in Medium /\ batch \in WriteSets /\ "EMPTY" \in State
    BY DEF Sound, IoTypes, State
  <1>4. vol' \in Medium /\ (Redoable(dur, vol', batch, after) \/ ReleaseOut(dur, vol', batch, after))
    <2>1. CASE vol' = vol
      BY <1>2, <1>3, <2>1
    <2>2. CASE \E n, s : vol' = PartlyInstalled(vol, batch, n, s)
      BY <1>2, <1>3, <2>2, PartlyInstalledPair
    <2>3. CASE pc = "installed" /\ \E s \in Sec : vol' = PartlyCtrl(vol, EntriesOf(batch), "EMPTY", s)
      <3>1. vol.home = after /\ dur = vol
        BY <2>3 DEF Sound, MediumInv, StagedInv
      <3>2. /\ vol' \in Medium /\ vol'.head.state = "EMPTY" /\ vol'.home = vol.home
            /\ Agree(vol', batch)
        BY <1>2, <1>3, <2>3, CtrlOverSame
      <3> QED
        BY <1>2, <1>3, <3>1, <3>2, ReleasedPair
    <2> QED
      BY <1>1, <2>1, <2>2, <2>3
  <1>5. Left(dur, vol', before, after)
    BY <1>3, <1>4 DEF Left
  <1>6. before \in [Page -> Image] /\ after \in [Page -> Image]
    BY DEF Sound, IoTypes
  <1> QED
    BY <1>1, <1>4, <1>5, <1>6, FailedKeeps

LEMMA FlushFailsKeeps ==
    ASSUME Sound, FlushFails
    PROVE  Sound'
  <1>1. /\ pc \in {"staged", "flipping", "installing", "releasing"}
        /\ pc' = "idle" /\ batch' = <<>> /\ dur' = dur /\ vol' = vol /\ cache' = cache
        /\ failedAt' = pc /\ before' = before /\ after' = after
    BY DEF FlushFails, TxFails, history
  <1>2. /\ vol \in Medium /\ batch \in WriteSets
        /\ before \in [Page -> Image] /\ after \in [Page -> Image]
    BY DEF Sound, IoTypes
  <1>3. CASE pc = "staged"
    <2>1. Clean(dur, vol) /\ vol.home = before /\ \A p \in DOMAIN cache : cache[p] = before[p]
      BY <1>3 DEF Sound, StagedInv, CacheInv, CommitSteps
    <2>2. Left(dur, vol, before, after)
      BY <2>1 DEF Left, Resting
    <2> QED
      BY <1>1, <1>2, <2>1, <2>2, FailedKeeps
  <1>4. CASE pc # "staged"
    <2>1. Left(dur, vol, before, after)
      BY <1>1, <1>2, <1>4 DEF Sound, MediumInv, Left
    <2>2. failedAt' \notin Early
      BY <1>1, <1>4 DEF Early
    <2> QED
      BY <1>1, <1>2, <2>1, <2>2, FailedKeeps
  <1> QED
    BY <1>3, <1>4

LEMMA RecoverFailsKeeps ==
    ASSUME Sound, RecoverFails
    PROVE  Sound'
  <1>1. /\ pc' = "down" /\ batch' = <<>> /\ dur' = dur /\ cache' = cache
        /\ before' = before /\ after' = after
        /\ \/ /\ pc = "down" /\ Committed(vol)
              /\ \E n, s : vol' = PartlyInstalled(vol, Journalled(vol), n, s)
           \/ /\ pc = "redone"
              /\ \E s \in Sec : vol' = PartlyCtrl(vol, EntriesOf(batch), "EMPTY", s)
           \/ pc \in {"redoing", "clearing"} /\ vol' = vol
    BY DEF RecoverFails, history
  <1>2. vol \in Medium /\ batch \in WriteSets /\ "EMPTY" \in State
    BY DEF Sound, IoTypes, State
  <1>3. /\ vol' \in Medium
        /\ \E ws \in WriteSets : Redoable(dur, vol', ws, after) \/ ReleaseOut(dur, vol', ws, after)
    <2>1. CASE /\ pc = "down" /\ Committed(vol)
               /\ \E n, s : vol' = PartlyInstalled(vol, Journalled(vol), n, s)
      <3> DEFINE ws == Journalled(vol)
      <3>1. Redoable(dur, vol, ws, after)
        BY <2>1, FoundRecord
      <3> HIDE DEF ws
      <3>2. vol' \in Medium /\ Redoable(dur, vol', ws, after)
        BY <1>2, <2>1, <3>1, PartlyInstalledPair DEF ws
      <3>3. ws \in WriteSets
        BY <3>1 DEF Redoable, Carries, Fits
      <3> QED
        BY <3>2, <3>3
    <2>2. CASE /\ pc = "redone"
               /\ \E s \in Sec : vol' = PartlyCtrl(vol, EntriesOf(batch), "EMPTY", s)
      <3>1. Redoable(dur, vol, batch, after) /\ vol.home = after /\ dur = vol /\ Agree(vol, batch)
        BY <2>2 DEF Sound, MediumInv, StagedInv, Redoable, Carries
      <3>2. /\ vol' \in Medium /\ vol'.head.state = "EMPTY" /\ vol'.home = vol.home
            /\ Agree(vol', batch)
        BY <1>2, <2>2, <3>1, CtrlOverSame
      <3>3. ReleaseOut(dur, vol', batch, after)
        BY <1>2, <3>1, <3>2, ReleasedPair
      <3> QED
        BY <1>2, <3>2, <3>3
    <2>3. CASE pc \in {"redoing", "clearing"} /\ vol' = vol
      BY <1>2, <2>3 DEF Sound, MediumInv
    <2> QED
      BY <1>1, <2>1, <2>2, <2>3
  <1>4. Interrupted(dur, vol', before, after)
    BY <1>3 DEF Interrupted
  <1>5. IoTypes'
    BY <1>1, <1>3, EmptyBatch DEF Sound, IoTypes, PC
  <1>6. MediumInv'
    BY <1>1, <1>4 DEF MediumInv
  <1>7. CommitInv' /\ StagedInv' /\ EarlyInv' /\ CacheInv'
    BY <1>1 DEF CommitInv, StagedInv, EarlyInv, CacheInv, CommitSteps
  <1> QED
    BY <1>5, <1>6, <1>7 DEF Sound
-----------------------------------------------------------------------------
(* The theorems *)

LEMMA IoInitSound == IoInit => Sound
  <1> SUFFICES ASSUME IoInit PROVE Sound
    OBVIOUS
  <1>1. JournalInv
    BY InitInv DEF IoInit
  <1>2. /\ dur \in Medium /\ vol = dur /\ pc = "idle" /\ batch = <<>> /\ cache = <<>>
        /\ before = vol.home /\ after = vol.home /\ dur.head.state = "EMPTY"
    BY <1>1 DEF IoInit, Init, JournalInv, TypeOK, QuietInv
  <1>3. Left(dur, vol, before, after)
    BY <1>2 DEF Left, Resting, Clean
  <1>4. IoTypes
    BY <1>2, EmptyBatch DEF IoTypes, PC, Medium
  <1>5. MediumInv
    BY <1>2, <1>3 DEF MediumInv
  <1>6. CommitInv /\ StagedInv /\ EarlyInv /\ CacheInv
    BY <1>2 DEF CommitInv, StagedInv, EarlyInv, CacheInv, CommitSteps, IoInit
  <1> QED
    BY <1>4, <1>5, <1>6 DEF Sound

LEMMA QuietKeeps ==
    ASSUME Sound, Quiet, UNCHANGED <<cache, errors, failedAt, history>>
    PROVE  Sound'
  <1>1. FlushStaged \/ FlushCommitted \/ FlushInstalled \/ FlushRedo => Kept
    BY DEF Kept, FlushStaged, FlushCommitted, FlushInstalled, FlushRedo, FlushFrom
  <1>2. FlipCommitted \/ Install \/ Release \/ RecoverRelease => Kept
    BY DEF Kept, FlipCommitted, Install, Release, RecoverRelease
  <1>3. CommitTooLarge => Sound'
    BY UnchangedKeeps DEF CommitTooLarge, history
  <1> QED
    BY <1>1, <1>2, <1>3, FlushKeeps, FlipKeeps, InstallKeeps, ReleaseKeeps, RedoKeeps,
       DestageKeeps, PowerCutKeeps DEF Quiet

\* As long as no commit is started over what a failure left behind, the pair
\* of medium and cache is one of the four that recovery can deal with, in
\* every interleaving of failures, write-backs, power cuts and retries.
THEOREM IoInvariant == IoSpec => []IoInv
  <1>1. IoInit => IoInv
    BY IoInitSound DEF IoInv, IoInit
  <1>2. IoInv /\ [IoNext]_ioVars => IoInv'
    <2> SUFFICES ASSUME IoInv, [IoNext]_ioVars PROVE IoInv'
      OBVIOUS
    <2>1. tainted' \in BOOLEAN /\ (tainted => tainted')
      BY DEF IoInv, IoNext, ioVars, history, ReadPage, IoStage, IoCommitted, IoMounted, Remember,
         StageFails, StageCtrlFails, FlipFails, InstallFails, ReleaseFails, FlushFails, RecoverFails
    <2> SUFFICES ASSUME ~tainted' PROVE Sound'
      BY <2>1 DEF IoInv
    <2>2. Sound
      BY <2>1 DEF IoInv
    <2>3. CASE UNCHANGED ioVars
      BY <2>2, <2>3, UnchangedKeeps DEF ioVars, vars, history
    <2>4. CASE IoNext
      BY <2>2, <2>4, ReadPageKeeps, IoStageKeeps, IoCommittedKeeps, IoMountedKeeps, QuietKeeps,
         StagingFailsKeeps, FlipFailsKeeps, LateFailsKeeps, FlushFailsKeeps, RecoverFailsKeeps
         DEF IoNext
    <2> QED
      BY <2>3, <2>4
  <1> QED
    BY <1>1, <1>2, PTL DEF IoSpec

\* The medium recovers to the pages before the last transaction or to those
\* after it, whichever device calls failed (the `?` after every device call
\* in journal::commit and journal::recover).
THEOREM FailuresRecoverable == IoSpec => []FailureRecoverable
  <1>1. IoInv => FailureRecoverable
    <2> SUFFICES ASSUME Sound PROVE Recovered(dur) \in {before, after}
      BY DEF IoInv, FailureRecoverable
    <2>1. dur \in Medium /\ Interrupted(dur, dur, before, after)
      BY CutInterrupted DEF Sound, IoTypes
    <2> QED
      BY <2>1, RecoveredPair DEF Interrupted, Resting
  <1> QED
    BY <1>1, IoInvariant, PTL

\* A commit that failed before the flip has no effect on what the running
\* system reads or on what a mount would find (Store::tx, Pager::rollback).
THEOREM EarlyFailuresRollBack == IoSpec => []EarlyFailureRollsBack
  <1>1. IoInv => EarlyFailureRollsBack
    <2> SUFFICES ASSUME Sound, pc = "idle", failedAt \in {"idle", "staged"}
                 PROVE  View = before /\ Recovered(dur) = before
      BY DEF IoInv, EarlyFailureRollsBack
    <2>1. /\ dur.head.state = "EMPTY" /\ dur.home = before /\ vol.home = before
          /\ \A p \in DOMAIN cache : cache[p] = before[p]
      BY DEF Sound, EarlyInv, CacheInv, Early
    <2>2. before \in [Page -> Image]
      BY DEF Sound, IoTypes
    <2>3. View = before
      BY <2>1, <2>2 DEF View
    <2>4. Recovered(dur) = before
      BY <2>1 DEF Recovered, Committed
    <2> QED
      BY <2>3, <2>4
  <1> QED
    BY <1>1, IoInvariant, PTL
=============================================================================
