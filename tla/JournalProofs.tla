---------------------------- MODULE JournalProofs ----------------------------
(***************************************************************************)
(* Proofs about the write-ahead log: JournalInv is an invariant of Spec,   *)
(* and Spec implements AtomicStore, for every set of pages and sectors,    *)
(* every journal capacity and every family of write-sets.                  *)
(***************************************************************************)
EXTENDS Journal, SequenceTheorems, TLAPS

(* Write-sets *)

\* A function on 1..n is a sequence.
LEMMA FunctionIsSeq ==
    ASSUME NEW S, NEW n \in Nat, NEW f \in [1..n -> S]
    PROVE  f \in Seq(S)
  <1>1. f \in UNION {[1..k -> S] : k \in Nat}
    BY Zenon
  <1>2. Seq(S) = UNION {[1..k -> S] : k \in Nat}
    BY SeqDef, Zenon
  <1>3. QED
    BY <1>1, <1>2, Zenon

\* The entry array of a write-set is a sequence of pages as long as it.
LEMMA EntriesOfType ==
    ASSUME NEW ws \in WriteSets
    PROVE  /\ EntriesOf(ws) \in Entries
           /\ Len(EntriesOf(ws)) = Len(ws)
           /\ DOMAIN EntriesOf(ws) = DOMAIN ws
           /\ DOMAIN ws = 1..Len(ws)
           /\ \A i \in DOMAIN ws : ws[i].page \in Page /\ ws[i].img \in Image
           /\ \A i \in DOMAIN ws : ws[i] = [page |-> ws[i].page, img |-> ws[i].img]
  <1>1. DOMAIN ws = 1..Len(ws) /\ Len(ws) \in Nat
    BY DEF WriteSets
  <1>2. \A i \in DOMAIN ws : ws[i] \in [page : Page, img : Image]
    BY <1>1, ElementOfSeq DEF WriteSets
  <1>3. EntriesOf(ws) \in [1..Len(ws) -> Page]
    BY <1>1, <1>2 DEF EntriesOf
  <1>4. EntriesOf(ws) \in Seq(Page)
    BY <1>1, <1>3, FunctionIsSeq
  <1>5. QED
    BY <1>1, <1>2, <1>3, <1>4 DEF Entries

\* Copying a write-set to its home pages: the pages it names get their image,
\* the others keep theirs.
LEMMA OverlayPages ==
    ASSUME NEW ws \in WriteSets, Distinct(ws), NEW home \in [Page -> Image]
    PROVE  /\ Overlay(home, ws) \in [Page -> Image]
           /\ \A i \in DOMAIN ws : Overlay(home, ws)[ws[i].page] = ws[i].img
           /\ \A p \in Page \ PagesOf(ws) : Overlay(home, ws)[p] = home[p]
  <1>1. \A i \in DOMAIN ws : SlotOf(ws, ws[i].page) = i
    BY DEF SlotOf, Distinct
  <1>2. \A p \in PagesOf(ws) : \E i \in DOMAIN ws : p = ws[i].page
    BY DEF PagesOf
  <1>3. \A i \in DOMAIN ws : ws[i].page \in Page /\ ws[i].img \in Image
    BY EntriesOfType
  <1>4. \A i \in DOMAIN ws : ws[i].page \in PagesOf(ws)
    BY DEF PagesOf
  <1>5. \A i \in DOMAIN ws : Overlay(home, ws)[ws[i].page] = ws[i].img
    BY <1>1, <1>3, <1>4 DEF Overlay
  <1>6. \A p \in Page \ PagesOf(ws) : Overlay(home, ws)[p] = home[p]
    BY DEF Overlay
  <1>7. ASSUME NEW p \in Page PROVE Overlay(home, ws)[p] \in Image
    <2>1. CASE p \in PagesOf(ws)
      <3>1. PICK i \in DOMAIN ws : p = ws[i].page
        BY <2>1, <1>2
      <3>2. QED
        BY <3>1, <1>3, <1>5, Zenon
    <2>2. CASE p \notin PagesOf(ws)
      <3>1. Overlay(home, ws)[p] = home[p]
        BY <2>2, <1>6
      <3>2. QED
        BY <3>1
    <2>3. QED
      BY <2>1, <2>2
  <1>8. Overlay(home, ws) = [p \in Page |-> Overlay(home, ws)[p]]
    BY DEF Overlay
  <1>9. QED
    BY <1>5, <1>6, <1>7, <1>8

\* Copying is insensitive to what the pages named by the write-set held: a
\* partial installation followed by a redo is an installation.
LEMMA OverlayAbsorbs ==
    ASSUME NEW ws \in WriteSets, Distinct(ws),
           NEW h1 \in [Page -> Image], NEW h2 \in [Page -> Image],
           \A p \in Page \ PagesOf(ws) : h1[p] = h2[p]
    PROVE  Overlay(h1, ws) = Overlay(h2, ws)
  BY DEF Overlay

\* Redoing a write-set that is already installed changes nothing.
LEMMA OverlayInstalled ==
    ASSUME NEW ws \in WriteSets, Distinct(ws), NEW h \in [Page -> Image],
           \A i \in DOMAIN ws : h[ws[i].page] = ws[i].img
    PROVE  Overlay(h, ws) = h
  <1>1. \A i \in DOMAIN ws : SlotOf(ws, ws[i].page) = i
    BY DEF SlotOf, Distinct
  <1>2. \A p \in PagesOf(ws) : \E i \in DOMAIN ws : p = ws[i].page
    BY DEF PagesOf
  <1>3. \A p \in Page : Overlay(h, ws)[p] = h[p]
    BY <1>1, <1>2 DEF Overlay
  <1>4. Overlay(h, ws) = [p \in Page |-> Overlay(h, ws)[p]]
    BY DEF Overlay
  <1>5. h = [p \in Page |-> h[p]]
    OBVIOUS
  <1>6. QED
    BY <1>3, <1>4, <1>5

\* A medium whose journal agrees with a write-set gives exactly it back.
LEMMA JournalledAgrees ==
    ASSUME NEW ws \in WriteSets, NEW d, Agree(d, ws), Len(ws) <= JCAP
    PROVE  Journalled(d) = ws /\ ReadCtrlOk(d)
  <1>1. ReadCtrlOk(d)
    BY EntriesOfType DEF Agree, ReadCtrlOk
  <1>2. DOMAIN d.head.crc = DOMAIN ws
    BY EntriesOfType DEF Agree
  <1>3. \A i \in DOMAIN ws : [page |-> d.head.crc[i], img |-> d.jd[i]] = ws[i]
    BY EntriesOfType DEF Agree, EntriesOf
  <1>4. ws = [i \in DOMAIN ws |-> ws[i]]
    BY DEF WriteSets
  <1>5. QED
    BY <1>1, <1>2, <1>3, <1>4 DEF Journalled

-----------------------------------------------------------------------------
(* The protocol keeps its invariant: one lemma per step *)

\* What the control-area writes leave on the device.
LEMMA WriteCtrlFields ==
    ASSUME NEW d \in Medium, NEW e \in Entries, NEW st \in State
    PROVE  /\ WriteCtrl(d, e, st) \in Medium
           /\ WriteCtrl(d, e, st).head = [state |-> st, crc |-> e]
           /\ \A s \in Sec : WriteCtrl(d, e, st).body[s] = e
           /\ WriteCtrl(d, e, st).jd = d.jd
           /\ WriteCtrl(d, e, st).home = d.home
  BY DEF WriteCtrl, Medium

\* Staging touches the journal data pages only, and leaves the images there.
LEMMA StageImagesFields ==
    ASSUME NEW d \in Medium, NEW ws \in WriteSets, Len(ws) <= JCAP
    PROVE  /\ StageImages(d, ws) \in Medium
           /\ StageImages(d, ws).home = d.home
           /\ StageImages(d, ws).head = d.head
           /\ \A i \in DOMAIN ws : StageImages(d, ws).jd[i] = ws[i].img
  <1>1. DOMAIN ws \subseteq Slot
    BY EntriesOfType, JournalAssumption DEF Slot, WriteSets
  <1>2. \A i \in DOMAIN ws : ws[i].img \in Image
    BY EntriesOfType
  <1>3. [i \in Slot |-> IF i \in DOMAIN ws THEN ws[i].img ELSE d.jd[i]] \in [Slot -> Image]
    BY <1>2 DEF Medium
  <1>4. QED
    BY <1>1, <1>3 DEF StageImages, Medium

\* Installing touches the home pages only.
LEMMA InstallHomeFields ==
    ASSUME NEW d \in Medium, NEW ws \in WriteSets, Distinct(ws)
    PROVE  /\ InstallHome(d, ws) \in Medium
           /\ InstallHome(d, ws).home = Overlay(d.home, ws)
           /\ InstallHome(d, ws).head = d.head
           /\ InstallHome(d, ws).body = d.body
           /\ InstallHome(d, ws).jd = d.jd
  <1>1. d.home \in [Page -> Image]
    BY DEF Medium
  <1>2. Overlay(d.home, ws) \in [Page -> Image]
    BY <1>1, OverlayPages
  <1>3. QED
    BY <1>2 DEF InstallHome, Medium

\* init formats an empty control page: the invariant holds of a fresh store.
LEMMA InitInv == Init => JournalInv
  <1> SUFFICES ASSUME Init PROVE JournalInv
    OBVIOUS
  <1>1. PICK img \in Image : dur = [head |-> [state |-> "EMPTY", crc |-> <<>>],
                                    body |-> [s \in Sec |-> <<>>],
                                    jd   |-> [i \in Slot |-> img],
                                    home |-> [p \in Page |-> img]]
    BY DEF Init
  <1>2. <<>> \in Entries
    BY EmptySeq DEF Entries
  <1>3. dur \in Medium
    BY <1>1, <1>2 DEF Medium, State
  <1>4. batch \in WriteSets /\ BatchInv
    BY JournalAssumption, EmptySeq DEF Init, WriteSets, BatchInv, Distinct
  <1>5. TypeOK
    BY <1>3, <1>4 DEF TypeOK, Init, PC
  <1>6. QED
    BY <1>1, <1>4, <1>5 DEF JournalInv, Init, SyncInv, QuietInv, FlipInv, InstallInv,
       ReleaseInv, DownInv

\* Staging the images leaves the medium's homes and its released record alone.
LEMMA StageInv == JournalInv /\ Stage => JournalInv'
  <1> SUFFICES ASSUME JournalInv, Stage PROVE JournalInv'
    OBVIOUS
  <1>1. PICK b \in Batch : /\ Len(b) <= JCAP
                           /\ batch' = b
                           /\ vol' = WriteCtrl(StageImages(vol, b), EntriesOf(b), "EMPTY")
    BY DEF Stage
  <1>2. b \in WriteSets /\ Distinct(b)
    BY JournalAssumption
  <1>3. vol \in Medium /\ dur \in Medium /\ dur = vol /\ dur.head.state = "EMPTY"
    BY DEF JournalInv, TypeOK, SyncInv, QuietInv, Stage
  <1> DEFINE m == StageImages(vol, b)
  <1>4. /\ m \in Medium /\ m.home = vol.home
        /\ \A i \in DOMAIN b : m.jd[i] = b[i].img
    BY <1>1, <1>2, <1>3, StageImagesFields
  <1>5. EntriesOf(b) \in Entries /\ "EMPTY" \in State
    BY <1>2, EntriesOfType DEF State
  <1> HIDE DEF m
  <1>6. /\ vol' \in Medium
        /\ vol'.head = [state |-> "EMPTY", crc |-> EntriesOf(b)]
        /\ \A s \in Sec : vol'.body[s] = EntriesOf(b)
        /\ vol'.jd = m.jd
        /\ vol'.home = m.home
    BY <1>1, <1>4, <1>5, WriteCtrlFields DEF m
  <1>7. TypeOK'
    BY <1>1, <1>2, <1>3, <1>6 DEF TypeOK, Stage, PC, CommitSteps
  <1>8. QuietInv'
    BY <1>1, <1>3, <1>4, <1>6 DEF QuietInv, Stage, Agree
  <1>9. QED
    BY <1>1, <1>2, <1>7, <1>8 DEF JournalInv, BatchInv, Stage, SyncInv, FlipInv, InstallInv,
       ReleaseInv, DownInv

\* The four flushes that only make the cache durable.
LEMMA FlushInv ==
    JournalInv /\ (FlushStaged \/ FlushCommitted \/ FlushInstalled \/ FlushRedo) => JournalInv'
  <1> SUFFICES ASSUME JournalInv,
                      FlushStaged \/ FlushCommitted \/ FlushInstalled \/ FlushRedo
               PROVE  JournalInv'
    OBVIOUS
  <1> USE DEF FlushFrom
  <1>1. dur' = vol /\ vol' = vol /\ batch' = batch /\ result' = result
    BY DEF FlushStaged, FlushCommitted, FlushInstalled, FlushRedo
  <1>2. /\ pc = "staged" => pc' = "journalled"
        /\ pc = "flipping" => pc' = "committed"
        /\ pc = "installing" => pc' = "installed"
        /\ pc = "redoing" => pc' = "redone"
        /\ pc \in {"staged", "flipping", "installing", "redoing"}
    BY DEF FlushStaged, FlushCommitted, FlushInstalled, FlushRedo
  <1>3. TypeOK'
    BY <1>1, <1>2 DEF JournalInv, TypeOK, PC, CommitSteps
  <1>4. BatchInv' /\ SyncInv'
    BY <1>1, <1>2 DEF JournalInv, BatchInv, SyncInv
  <1>5. QuietInv'
    BY <1>1, <1>2 DEF JournalInv, QuietInv, Agree
  <1>6. InstallInv'
    BY <1>1, <1>2 DEF JournalInv, FlipInv, InstallInv, Agree, SameOutside, InstalledIn
  <1>7. FlipInv' /\ ReleaseInv' /\ DownInv'
    BY <1>1, <1>2 DEF JournalInv, FlipInv, ReleaseInv, DownInv
  <1>8. QED
    BY <1>3, <1>4, <1>5, <1>6, <1>7 DEF JournalInv

\* The record is flipped to committed only over staged, durable images.
LEMMA FlipInvStep == JournalInv /\ FlipCommitted => JournalInv'
  <1> SUFFICES ASSUME JournalInv, FlipCommitted PROVE JournalInv'
    OBVIOUS
  <1>1. /\ vol \in Medium /\ dur \in Medium /\ dur = vol /\ batch \in WriteSets
        /\ Agree(vol, batch)
    BY DEF JournalInv, TypeOK, SyncInv, QuietInv, FlipCommitted
  <1>2. EntriesOf(batch) \in Entries /\ "COMMITTED" \in State
    BY <1>1, EntriesOfType DEF State
  <1>3. /\ vol' \in Medium
        /\ vol'.head = [state |-> "COMMITTED", crc |-> EntriesOf(batch)]
        /\ \A s \in Sec : vol'.body[s] = EntriesOf(batch)
        /\ vol'.jd = vol.jd
        /\ vol'.home = vol.home
    BY <1>1, <1>2, WriteCtrlFields DEF FlipCommitted
  <1>4. TypeOK'
    BY <1>3 DEF JournalInv, TypeOK, FlipCommitted, PC, CommitSteps
  <1>5. FlipInv'
    BY <1>1, <1>3 DEF FlipInv, FlipCommitted, Agree
  <1>6. QED
    BY <1>4, <1>5 DEF JournalInv, FlipCommitted, BatchInv, SyncInv, QuietInv, InstallInv,
       ReleaseInv, DownInv

\* Installing writes home only what the durable record can replay.
LEMMA InstallInvStep == JournalInv /\ Install => JournalInv'
  <1> SUFFICES ASSUME JournalInv, Install PROVE JournalInv'
    OBVIOUS
  <1>1. /\ vol \in Medium /\ dur \in Medium /\ dur = vol /\ batch \in WriteSets
        /\ Distinct(batch) /\ Agree(vol, batch) /\ dur.head.state = "COMMITTED"
        /\ vol.home \in [Page -> Image]
    BY DEF JournalInv, TypeOK, SyncInv, InstallInv, Install, BatchInv, Medium
  <1>2. /\ vol' \in Medium
        /\ vol'.home = Overlay(vol.home, batch)
        /\ vol'.head = vol.head
        /\ vol'.body = vol.body
        /\ vol'.jd = vol.jd
    BY <1>1, InstallHomeFields DEF Install
  <1>3. /\ \A i \in DOMAIN batch : vol'.home[batch[i].page] = batch[i].img
        /\ \A p \in Page \ PagesOf(batch) : vol'.home[p] = vol.home[p]
    BY <1>1, <1>2, OverlayPages
  <1>4. TypeOK'
    BY <1>2 DEF JournalInv, TypeOK, Install, PC, CommitSteps
  <1>5. InstallInv'
    BY <1>1, <1>2, <1>3 DEF InstallInv, Install, Agree, SameOutside, InstalledIn
  <1>6. QED
    BY <1>4, <1>5 DEF JournalInv, Install, BatchInv, SyncInv, QuietInv, FlipInv,
       ReleaseInv, DownInv

\* Both releases, of a commit and of a recovery.
LEMMA ReleaseInvStep == JournalInv /\ (Release \/ RecoverRelease) => JournalInv'
  <1> SUFFICES ASSUME JournalInv, Release \/ RecoverRelease PROVE JournalInv'
    OBVIOUS
  <1>0. /\ pc = "installed" => pc' = "releasing"
        /\ pc = "redone" => pc' = "clearing"
        /\ pc \in {"installed", "redone"}
        /\ vol' = WriteCtrl(vol, EntriesOf(batch), "EMPTY")
        /\ dur' = dur /\ batch' = batch /\ result' = result
    BY DEF Release, RecoverRelease
  <1>1. /\ vol \in Medium /\ dur \in Medium /\ dur = vol /\ batch \in WriteSets
        /\ Agree(vol, batch) /\ InstalledIn(vol, batch)
    BY <1>0 DEF JournalInv, TypeOK, SyncInv, InstallInv
  <1>2. EntriesOf(batch) \in Entries /\ "EMPTY" \in State
    BY <1>1, EntriesOfType DEF State
  <1>3. /\ vol' \in Medium
        /\ vol'.head = [state |-> "EMPTY", crc |-> EntriesOf(batch)]
        /\ \A s \in Sec : vol'.body[s] = EntriesOf(batch)
        /\ vol'.jd = vol.jd
        /\ vol'.home = vol.home
    BY <1>0, <1>1, <1>2, WriteCtrlFields
  <1>4. TypeOK'
    BY <1>0, <1>3 DEF JournalInv, TypeOK, PC, CommitSteps
  <1>5. ReleaseInv'
    BY <1>0, <1>1, <1>3 DEF ReleaseInv, Agree, InstalledIn
  <1>6. QED
    BY <1>0, <1>4, <1>5 DEF JournalInv, BatchInv, SyncInv, QuietInv, FlipInv,
       InstallInv, DownInv

\* The last flush of a commit and of a recovery.
LEMMA FlushReleasedInv == JournalInv /\ (FlushReleased \/ FlushCleared) => JournalInv'
  <1> SUFFICES ASSUME JournalInv, FlushReleased \/ FlushCleared PROVE JournalInv'
    OBVIOUS
  <1>1. /\ pc \in {"releasing", "clearing"} /\ pc' = "idle"
        /\ dur' = vol /\ vol' = vol /\ batch' = <<>>
        /\ result' \in {"ok", result}
    BY DEF FlushReleased, FlushCleared
  <1>2. vol \in Medium /\ vol.head.state = "EMPTY"
    BY <1>1 DEF JournalInv, TypeOK, ReleaseInv
  <1>3. batch' \in WriteSets /\ BatchInv'
    BY <1>1, JournalAssumption, EmptySeq DEF WriteSets, BatchInv, Distinct
  <1>4. TypeOK'
    BY <1>1, <1>2, <1>3 DEF JournalInv, TypeOK, PC, CommitSteps
  <1>5. QED
    BY <1>1, <1>2, <1>3, <1>4 DEF JournalInv, SyncInv, QuietInv, FlipInv, InstallInv,
       ReleaseInv, DownInv

\* A write-set over JCAP is refused with no write issued.
LEMMA CommitTooLargeInv == JournalInv /\ CommitTooLarge => JournalInv'
  BY DEF JournalInv, CommitTooLarge, TypeOK, PC, CommitSteps, BatchInv, SyncInv, QuietInv,
     FlipInv, InstallInv, ReleaseInv, DownInv, Agree, SameOutside, InstalledIn, ReadCtrlOk

\* A mount that finds no committed record serves the homes as they are.
LEMMA RecoverNothingInv == JournalInv /\ RecoverNothing => JournalInv'
  <1> SUFFICES ASSUME JournalInv, RecoverNothing PROVE JournalInv'
    OBVIOUS
  <1>1. dur = vol /\ dur \in Medium
    BY DEF JournalInv, SyncInv, RecoverNothing, TypeOK
  <1>2. dur.head.state \in State
    BY <1>1 DEF Medium
  <1>3. dur.head.state = "EMPTY"
    BY <1>1, <1>2 DEF JournalInv, DownInv, RecoverNothing, Committed, State
  <1>4. TypeOK'
    BY DEF JournalInv, TypeOK, RecoverNothing, PC, CommitSteps
  <1>5. QED
    BY <1>1, <1>3, <1>4 DEF JournalInv, RecoverNothing, BatchInv, SyncInv, QuietInv,
       FlipInv, InstallInv, ReleaseInv, DownInv

\* What recover reads back is a write-set that the journal agrees with.
LEMMA JournalledType ==
    ASSUME NEW d \in Medium, ReadCtrlOk(d)
    PROVE  /\ Journalled(d) \in WriteSets
           /\ Len(Journalled(d)) <= JCAP
           /\ Agree(d, Journalled(d))
  <1>1. d.head.crc \in Seq(Page) /\ d.jd \in [Slot -> Image]
    BY DEF Medium, Entries
  <1> DEFINE n == Len(d.head.crc)
  <1>2. n \in Nat /\ DOMAIN d.head.crc = 1..n /\ n <= JCAP
    BY <1>1 DEF ReadCtrlOk
  <1>3. \A i \in 1..n : d.head.crc[i] \in Page /\ d.jd[i] \in Image
    BY <1>1, <1>2, ElementOfSeq, JournalAssumption DEF Slot
  <1>4. Journalled(d) \in [1..n -> [page : Page, img : Image]]
    BY <1>2, <1>3 DEF Journalled
  <1>5. Journalled(d) \in WriteSets
    <2>1. n \in Nat
      BY <1>2
    <2>2. Journalled(d) \in Seq([page : Page, img : Image])
      BY <2>1, <1>4, FunctionIsSeq
    <2>3. QED
      BY <2>2 DEF WriteSets
  <1>6. Len(Journalled(d)) = n
    BY <1>2, <1>4, <1>5, LenProperties DEF WriteSets
  <1>7. EntriesOf(Journalled(d)) = d.head.crc
    <2>1. d.head.crc = [i \in 1..n |-> d.head.crc[i]]
      BY <1>1, <1>2
    <2>2. QED
      BY <1>2, <2>1 DEF EntriesOf, Journalled
  <1>8. \A i \in DOMAIN Journalled(d) : d.jd[i] = Journalled(d)[i].img
    BY <1>2 DEF Journalled
  <1>9. QED
    BY <1>2, <1>5, <1>6, <1>7, <1>8 DEF Agree, ReadCtrlOk

\* recover copies the journalled images home: what they hold is what was committed.
LEMMA RedoInv == JournalInv /\ Redo => JournalInv'
  <1> SUFFICES ASSUME JournalInv, Redo PROVE JournalInv'
    OBVIOUS
  <1> DEFINE b == Journalled(vol)
  <1>1. /\ dur = vol /\ vol \in Medium /\ ReadCtrlOk(vol) /\ vol.head.state = "COMMITTED"
        /\ Distinct(b) /\ vol.home \in [Page -> Image]
    BY DEF JournalInv, TypeOK, SyncInv, DownInv, Redo, Committed, Medium
  <1>2. b \in WriteSets /\ Len(b) <= JCAP /\ Agree(vol, b)
    BY <1>1, JournalledType
  <1>3. /\ batch' = b /\ vol' = InstallHome(vol, b) /\ dur' = dur /\ pc' = "redoing"
        /\ result' = result
    BY DEF Redo
  <1> HIDE DEF b
  <1>4. /\ vol' \in Medium
        /\ vol'.home = Overlay(vol.home, b)
        /\ vol'.head = vol.head
        /\ vol'.body = vol.body
        /\ vol'.jd = vol.jd
    BY <1>1, <1>2, <1>3, InstallHomeFields
  <1>5. /\ \A i \in DOMAIN b : vol'.home[b[i].page] = b[i].img
        /\ \A p \in Page \ PagesOf(b) : vol'.home[p] = vol.home[p]
    BY <1>1, <1>2, <1>4, OverlayPages
  <1>6. TypeOK'
    BY <1>2, <1>3, <1>4 DEF JournalInv, TypeOK, PC
  <1>7. InstallInv'
    BY <1>1, <1>2, <1>3, <1>4, <1>5 DEF InstallInv, Agree, SameOutside, InstalledIn
  <1>8. QED
    BY <1>1, <1>2, <1>3, <1>6, <1>7 DEF JournalInv, BatchInv, SyncInv, QuietInv, FlipInv,
       ReleaseInv, DownInv

\* Whatever moment the power is cut, a COMMITTED medium is whole.
LEMMA CommittedIsWhole ==
    JournalInv => (dur.head.state = "COMMITTED" => ReadCtrlOk(dur) /\ Distinct(Journalled(dur)))
  <1> SUFFICES ASSUME JournalInv, dur.head.state = "COMMITTED"
               PROVE  ReadCtrlOk(dur) /\ Distinct(Journalled(dur))
    OBVIOUS
  <1>1. pc \in PC /\ batch \in WriteSets /\ Len(batch) <= JCAP /\ Distinct(batch)
    BY DEF JournalInv, TypeOK, BatchInv
  <1>2. CASE pc = "down"
    BY <1>2 DEF JournalInv, DownInv
  <1>3. CASE pc \in {"flipping", "committed", "installing", "redoing", "installed", "redone",
                     "releasing", "clearing"}
    <2>1. Agree(dur, batch)
      BY <1>3 DEF JournalInv, FlipInv, InstallInv, ReleaseInv
    <2>2. QED
      BY <1>1, <2>1, JournalledAgrees
  <1>4. CASE pc \in {"idle", "staged", "journalled"}
    BY <1>4 DEF JournalInv, QuietInv
  <1>5. QED
    BY <1>1, <1>2, <1>3, <1>4 DEF PC, CommitSteps

\* A power cut keeps the medium: what it held was enough for recovery.
LEMMA PowerCutInv == JournalInv /\ PowerCut => JournalInv'
  <1> SUFFICES ASSUME JournalInv, PowerCut PROVE JournalInv'
    OBVIOUS
  <1>1. batch' \in WriteSets /\ BatchInv'
    BY JournalAssumption, EmptySeq DEF PowerCut, WriteSets, BatchInv, Distinct
  <1>2. TypeOK'
    BY <1>1 DEF JournalInv, TypeOK, PowerCut, PC
  <1>3. DownInv'
    BY CommittedIsWhole DEF PowerCut, DownInv, ReadCtrlOk, Journalled, Distinct
  <1>4. QED
    BY <1>1, <1>2, <1>3 DEF JournalInv, PowerCut, SyncInv, QuietInv, FlipInv, InstallInv, ReleaseInv

\* Replacing one sector of one page of a family of pages.
LEMMA SectorWrite ==
    ASSUME NEW A, NEW f \in [A -> Image], NEW g \in [A -> Image], NEW a \in A, NEW s \in Sec
    PROVE  /\ [f EXCEPT ![a][s] = g[a][s]] \in [A -> Image]
           /\ \A b \in A, r \in Sec : [f EXCEPT ![a][s] = g[a][s]][b][r] \in {f[b][r], g[b][r]}
  <1>1. f[a] \in Image /\ g[a] \in Image
    OBVIOUS
  <1>2. /\ [f[a] EXCEPT ![s] = g[a][s]] \in Image
        /\ \A r \in Sec : [f[a] EXCEPT ![s] = g[a][s]][r] \in {f[a][r], g[a][r]}
    BY <1>1 DEF Image
  <1>3. QED
    BY <1>2

\* One sector reaching the medium: every field is the old or the cached one.
LEMMA DestageFields ==
    ASSUME dur \in Medium, vol \in Medium, Destage
    PROVE  /\ dur' \in Medium
           /\ dur'.head \in {dur.head, vol.head}
           /\ \A s \in Sec : dur'.body[s] \in {dur.body[s], vol.body[s]}
           /\ \A i \in Slot, s \in Sec : dur'.jd[i][s] \in {dur.jd[i][s], vol.jd[i][s]}
           /\ \A p \in Page, s \in Sec : dur'.home[p][s] \in {dur.home[p][s], vol.home[p][s]}
  <1>1. dur \in Medium /\ vol \in Medium
    OBVIOUS
  <1>2. CASE dur' = [dur EXCEPT !.head = vol.head]
    BY <1>1, <1>2 DEF Medium
  <1>3. CASE \E s \in Sec : dur' = [dur EXCEPT !.body[s] = vol.body[s]]
    BY <1>1, <1>3 DEF Medium
  <1>4. CASE \E i \in Slot, s \in Sec : dur' = [dur EXCEPT !.jd[i][s] = vol.jd[i][s]]
    <2>1. PICK i \in Slot, s \in Sec : dur' = [dur EXCEPT !.jd = [dur.jd EXCEPT ![i][s] = vol.jd[i][s]]]
      BY <1>4
    <2>2. dur.jd \in [Slot -> Image] /\ vol.jd \in [Slot -> Image]
      BY <1>1 DEF Medium
    <2> DEFINE f == [dur.jd EXCEPT ![i][s] = vol.jd[i][s]]
    <2>3. /\ f \in [Slot -> Image]
          /\ \A b \in Slot, r \in Sec : f[b][r] \in {dur.jd[b][r], vol.jd[b][r]}
      BY <2>2, SectorWrite
    <2> HIDE DEF f
    <2>4. dur' = [dur EXCEPT !.jd = f]
      BY <2>1 DEF f
    <2>5. QED
      BY <1>1, <2>3, <2>4 DEF Medium
  <1>5. CASE \E p \in Page, s \in Sec : dur' = [dur EXCEPT !.home[p][s] = vol.home[p][s]]
    <2>1. PICK p \in Page, s \in Sec : dur' = [dur EXCEPT !.home = [dur.home EXCEPT ![p][s] = vol.home[p][s]]]
      BY <1>5
    <2>2. dur.home \in [Page -> Image] /\ vol.home \in [Page -> Image]
      BY <1>1 DEF Medium
    <2> DEFINE f == [dur.home EXCEPT ![p][s] = vol.home[p][s]]
    <2>3. /\ f \in [Page -> Image]
          /\ \A b \in Page, r \in Sec : f[b][r] \in {dur.home[b][r], vol.home[b][r]}
      BY <2>2, SectorWrite
    <2> HIDE DEF f
    <2>4. dur' = [dur EXCEPT !.home = f]
      BY <2>1 DEF f
    <2>5. QED
      BY <1>1, <2>3, <2>4 DEF Medium
  <1>6. QED
    BY <1>2, <1>3, <1>4, <1>5 DEF Destage

\* Two images that agree on every sector are the same image.
LEMMA ImageEqual ==
    ASSUME NEW x \in Image, NEW y \in Image, \A s \in Sec : x[s] = y[s]
    PROVE  x = y
  BY DEF Image

\* A page that the medium and the cache agree on survives a write-back.
LEMMA DestageSame ==
    ASSUME dur \in Medium, vol \in Medium, Destage
    PROVE  /\ \A i \in Slot : dur.jd[i] = vol.jd[i] => dur'.jd[i] = vol.jd[i]
           /\ \A p \in Page : dur.home[p] = vol.home[p] => dur'.home[p] = vol.home[p]
  <1>1. dur \in Medium /\ vol \in Medium /\ dur' \in Medium
    BY DestageFields
  <1>2. ASSUME NEW i \in Slot, dur.jd[i] = vol.jd[i] PROVE dur'.jd[i] = vol.jd[i]
    <2>1. dur'.jd[i] \in Image /\ vol.jd[i] \in Image
      BY <1>1 DEF Medium
    <2>2. \A s \in Sec : dur'.jd[i][s] = vol.jd[i][s]
      BY <1>2, DestageFields
    <2>3. QED
      BY <2>1, <2>2, ImageEqual
  <1>3. ASSUME NEW p \in Page, dur.home[p] = vol.home[p] PROVE dur'.home[p] = vol.home[p]
    <2>1. dur'.home[p] \in Image /\ vol.home[p] \in Image
      BY <1>1 DEF Medium
    <2>2. \A s \in Sec : dur'.home[p][s] = vol.home[p][s]
      BY <1>3, DestageFields
    <2>3. QED
      BY <2>1, <2>2, ImageEqual
  <1>4. QED
    BY <1>2, <1>3

\* A medium that holds everything written has nothing to write back.
LEMMA NothingToDestage ==
    ASSUME dur \in Medium, dur = vol
    PROVE  ~Destage
  <1> SUFFICES ASSUME Destage PROVE FALSE
    OBVIOUS
  <1>0. dur' # dur
    BY DEF Destage
  <1>1. \A s \in Sec : [dur EXCEPT !.body[s] = dur.body[s]] = dur
    BY DEF Medium
  <1>2. [dur EXCEPT !.head = dur.head] = dur
    BY DEF Medium
  <1>3. \A i \in Slot, s \in Sec : [dur EXCEPT !.jd[i][s] = dur.jd[i][s]] = dur
    <2> TAKE i \in Slot, s \in Sec
    <2>1. dur.jd \in [Slot -> Image] /\ dur.jd[i] \in [Sec -> Datum]
      BY DEF Medium, Image
    <2>2. [dur.jd[i] EXCEPT ![s] = dur.jd[i][s]] = dur.jd[i]
      BY <2>1
    <2>3. [dur.jd EXCEPT ![i] = dur.jd[i]] = dur.jd
      BY <2>1
    <2>4. [dur EXCEPT !.jd = dur.jd] = dur
      BY DEF Medium
    <2>5. QED
      BY <2>2, <2>3, <2>4
  <1>4. \A p \in Page, s \in Sec : [dur EXCEPT !.home[p][s] = dur.home[p][s]] = dur
    <2> TAKE p \in Page, s \in Sec
    <2>1. dur.home \in [Page -> Image] /\ dur.home[p] \in [Sec -> Datum]
      BY DEF Medium, Image
    <2>2. [dur.home[p] EXCEPT ![s] = dur.home[p][s]] = dur.home[p]
      BY <2>1
    <2>3. [dur.home EXCEPT ![p] = dur.home[p]] = dur.home
      BY <2>1
    <2>4. [dur EXCEPT !.home = dur.home] = dur
      BY DEF Medium
    <2>5. QED
      BY <2>2, <2>3, <2>4
  <1>5. QED
    BY <1>0, <1>1, <1>2, <1>3, <1>4 DEF Destage

\* The synchronised points have nothing to write back.
LEMMA DestageNotSynced ==
    ASSUME JournalInv, Destage
    PROVE  pc \in {"staged", "flipping", "installing", "redoing", "releasing", "clearing"}
  <1>1. dur \in Medium /\ pc \in PC /\ dur # vol
    BY NothingToDestage DEF JournalInv, TypeOK
  <1>2. QED
    BY <1>1 DEF JournalInv, SyncInv, PC, CommitSteps

\* A journal that both sides agree on is still agreed on after a write-back.
LEMMA DestageAgree ==
    ASSUME dur \in Medium, vol \in Medium, Destage,
           NEW ws \in WriteSets, Len(ws) <= JCAP, Agree(vol, ws), Agree(dur, ws)
    PROVE  Agree(dur', ws)
  <1>2. DOMAIN ws \subseteq Slot
    BY EntriesOfType, JournalAssumption DEF Slot, WriteSets
  <1>3. \A i \in DOMAIN ws : dur'.jd[i] = ws[i].img
    BY <1>2, DestageSame DEF Agree
  <1>4. dur'.head.crc = EntriesOf(ws)
    BY DestageFields DEF Agree
  <1>5. \A s \in Sec : dur'.body[s] = EntriesOf(ws)
    BY DestageFields DEF Agree
  <1>6. QED
    BY <1>3, <1>4, <1>5 DEF Agree

\* A device that writes one sector out early breaks none of the ordering.
LEMMA DestageInv == JournalInv /\ Destage => JournalInv'
  <1> SUFFICES ASSUME JournalInv, Destage PROVE JournalInv'
    OBVIOUS
  <1>1. vol' = vol /\ pc' = pc /\ batch' = batch /\ result' = result
    BY DEF Destage
  <1>2. pc \in {"staged", "flipping", "installing", "redoing", "releasing", "clearing"}
    BY DestageNotSynced
  <1>0. dur \in Medium /\ vol \in Medium /\ batch \in WriteSets /\ Len(batch) <= JCAP
    BY DEF JournalInv, TypeOK, BatchInv
  <1>3. dur' \in Medium /\ dur'.head \in {dur.head, vol.head}
    BY <1>0, DestageFields
  <1>4. dur.home = vol.home => dur'.home = vol.home
    <2>1. dur'.home \in [Page -> Image] /\ vol.home \in [Page -> Image]
      BY <1>3 DEF JournalInv, TypeOK, Medium
    <2>2. QED
      BY <1>0, <2>1, DestageSame
  <1>5. TypeOK'
    BY <1>1, <1>3 DEF JournalInv, TypeOK
  <1>6. BatchInv' /\ SyncInv' /\ DownInv'
    BY <1>1, <1>2 DEF JournalInv, BatchInv, SyncInv, DownInv
  <1>7. QuietInv'
    BY <1>1, <1>2, <1>3, <1>4 DEF JournalInv, QuietInv, Agree
  <1>8. FlipInv'
    <2> SUFFICES ASSUME pc = "flipping" PROVE FlipInv'
      BY <1>1 DEF FlipInv
    <2>1. vol.head.state = "COMMITTED" /\ dur.home = vol.home /\ Agree(vol, batch) /\ Agree(dur, batch)
      BY DEF JournalInv, FlipInv
    <2>2. Agree(dur', batch)
      BY <1>0, <2>1, DestageAgree
    <2>3. QED
      BY <1>1, <1>4, <2>1, <2>2 DEF FlipInv, Agree
  <1>9. InstallInv'
    <2> SUFFICES ASSUME pc \in {"installing", "redoing"} PROVE InstallInv'
      BY <1>1, <1>2 DEF InstallInv
    <2>1. /\ dur.head.state = "COMMITTED" /\ vol.head.state = "COMMITTED" /\ InstalledIn(vol, batch)
          /\ SameOutside(batch) /\ Agree(vol, batch) /\ Agree(dur, batch)
      BY DEF JournalInv, InstallInv
    <2>2. Agree(dur', batch)
      BY <1>0, <2>1, DestageAgree
    <2>3. \A p \in Page \ PagesOf(batch) : dur'.home[p] = vol.home[p]
      BY <1>0, <2>1, DestageSame DEF SameOutside
    <2>4. QED
      BY <1>1, <1>3, <2>1, <2>2, <2>3 DEF InstallInv, Agree, InstalledIn, SameOutside
  <1>10. ReleaseInv'
    <2> SUFFICES ASSUME pc \in {"releasing", "clearing"} PROVE ReleaseInv'
      BY <1>1, <1>2 DEF ReleaseInv
    <2>1. /\ vol.head.state = "EMPTY" /\ dur.home = vol.home /\ InstalledIn(vol, batch)
          /\ Agree(vol, batch) /\ Agree(dur, batch)
      BY DEF JournalInv, ReleaseInv
    <2>2. Agree(dur', batch)
      BY <1>0, <2>1, DestageAgree
    <2>3. QED
      BY <1>1, <1>4, <2>1, <2>2 DEF ReleaseInv, Agree, InstalledIn
  <1>11. QED
    BY <1>5, <1>6, <1>7, <1>8, <1>9, <1>10 DEF JournalInv

\* A stuttering step keeps the invariant.
LEMMA StutterInv == JournalInv /\ UNCHANGED vars => JournalInv'
  BY DEF JournalInv, vars, TypeOK, BatchInv, SyncInv, QuietInv, FlipInv, InstallInv, ReleaseInv,
     DownInv, Agree, SameOutside, InstalledIn, ReadCtrlOk, Journalled

\* Every step of commit, of recover, of the device and every power cut keeps
\* the invariant of the protocol.
THEOREM JournalInvariant == Spec => []JournalInv
  <1>1. Init => JournalInv
    BY InitInv
  <1>2. JournalInv /\ [Next]_vars => JournalInv'
    BY StageInv, FlushInv, FlipInvStep, InstallInvStep, ReleaseInvStep, FlushReleasedInv,
       CommitTooLargeInv, RecoverNothingInv, RedoInv, PowerCutInv, DestageInv, StutterInv
       DEF Next, Commit, Recover
  <1>3. QED
    BY <1>1, <1>2, PTL DEF Spec

\* TypeOK holds in every reachable state.
THEOREM TypeCorrect == Spec => []TypeOK
  <1>1. JournalInv => TypeOK
    BY DEF JournalInv
  <1>2. QED
    BY <1>1, JournalInvariant, PTL

\* A medium that says COMMITTED is never mistaken for a torn one (journal.rs:94).
THEOREM NoTornCommitHolds == Spec => []NoTornCommit
  <1>1. JournalInv => NoTornCommit
    BY CommittedIsWhole DEF NoTornCommit
  <1>2. QED
    BY <1>1, JournalInvariant, PTL

\* Between transactions the running system reads the recoverable pages.
THEOREM ServesRecoveredHolds == Spec => []ServesRecovered
  <1>1. JournalInv => ServesRecovered
    BY DEF JournalInv, SyncInv, QuietInv, ServesRecovered, Recovered, Committed
  <1>2. QED
    BY <1>1, JournalInvariant, PTL

-----------------------------------------------------------------------------
(* The refinement *)

\* What a mount would find, at each stretch of the protocol.
RecoverableAt ==
    /\ pc \in {"idle", "staged", "journalled"} => ~Committed(dur) /\ Recovered(dur) = dur.home
    /\ pc = "flipping" =>
         /\ Recovered(dur) = IF Committed(dur) THEN Overlay(vol.home, batch) ELSE vol.home
         /\ dur.home = vol.home
    /\ pc \in {"committed", "installing", "installed", "redoing", "redone"} =>
         Committed(dur) /\ Recovered(dur) = Overlay(vol.home, batch)
    /\ pc \in {"releasing", "clearing"} => Recovered(dur) = vol.home

\* In every invariant state a mount would read before or after, per RecoverableAt.
LEMMA RecoverableLemma == JournalInv => RecoverableAt
  <1> SUFFICES ASSUME JournalInv PROVE RecoverableAt
    OBVIOUS
  <1>1. /\ batch \in WriteSets /\ Len(batch) <= JCAP /\ Distinct(batch)
        /\ dur.home \in [Page -> Image] /\ vol.home \in [Page -> Image]
    BY DEF JournalInv, TypeOK, BatchInv, Medium
  <1>2. pc \in {"idle", "staged", "journalled"} => ~Committed(dur) /\ Recovered(dur) = dur.home
    BY DEF JournalInv, QuietInv, Committed, Recovered
  <1>3. Agree(dur, batch) =>
           /\ Journalled(dur) = batch
           /\ Committed(dur) <=> dur.head.state = "COMMITTED"
    BY <1>1, JournalledAgrees DEF Committed
  <1>4. ASSUME pc = "flipping"
        PROVE  /\ Recovered(dur) = IF Committed(dur) THEN Overlay(vol.home, batch) ELSE vol.home
               /\ dur.home = vol.home
    <2>1. Agree(dur, batch) /\ dur.home = vol.home
      BY <1>4 DEF JournalInv, FlipInv
    <2>2. CASE Committed(dur)
      <3>1. Recovered(dur) = Overlay(dur.home, Journalled(dur))
        BY <2>2 DEF Recovered
      <3>2. Journalled(dur) = batch
        BY <1>3, <2>1
      <3>3. QED
        BY <2>1, <2>2, <3>1, <3>2
    <2>3. CASE ~Committed(dur)
      BY <2>1, <2>3 DEF Recovered
    <2>4. QED
      BY <2>1, <2>2, <2>3
  <1>5. ASSUME pc \in {"committed", "installing", "installed", "redoing", "redone"}
        PROVE  Committed(dur) /\ Recovered(dur) = Overlay(vol.home, batch)
    <2>1. Agree(dur, batch) /\ dur.head.state = "COMMITTED" /\ SameOutside(batch)
      BY <1>5 DEF JournalInv, InstallInv
    <2>2. Overlay(dur.home, batch) = Overlay(vol.home, batch)
      BY <1>1, <2>1, OverlayAbsorbs DEF SameOutside
    <2>3. QED
      BY <1>3, <2>1, <2>2 DEF Recovered
  <1>6. ASSUME pc \in {"releasing", "clearing"} PROVE Recovered(dur) = vol.home
    <2>1. Agree(dur, batch) /\ dur.home = vol.home /\ InstalledIn(vol, batch)
      BY <1>6 DEF JournalInv, ReleaseInv
    <2>2. Overlay(vol.home, batch) = vol.home
      BY <1>1, <2>1, OverlayInstalled DEF InstalledIn
    <2>3. CASE Committed(dur)
      <3>1. Recovered(dur) = Overlay(dur.home, Journalled(dur))
        BY <2>3 DEF Recovered
      <3>2. Journalled(dur) = batch
        BY <1>3, <2>1
      <3>3. QED
        BY <2>1, <2>2, <3>1, <3>2
    <2>4. CASE ~Committed(dur)
      BY <2>1, <2>4 DEF Recovered
    <2>5. QED
      BY <2>3, <2>4
  <1>7. QED
    BY <1>2, <1>4, <1>5, <1>6 DEF RecoverableAt

\* A formatted journal is an atomic store at rest.
LEMMA RefinesInit == Init => Abstract!Init
  <1> SUFFICES ASSUME Init PROVE Abstract!Init
    OBVIOUS
  <1>1. JournalInv
    BY InitInv
  <1>2. Recovered(dur) = dur.home /\ dur.home \in [Page -> Image]
    BY <1>1, RecoverableLemma DEF RecoverableAt, Init, JournalInv, TypeOK, Medium
  <1>3. AbsPhase = "idle" /\ AbsPending = <<>>
    BY DEF Init, AbsPhase, AbsPending, CommitSteps
  <1>4. QED
    BY <1>2, <1>3 DEF Abstract!Init, Image, Abstract!Image

\* Steps that leave the medium and the abstract phase alone.
LEMMA RefinesQuiet ==
    ASSUME JournalInv, JournalInv',
           CommitTooLarge \/ FlipCommitted \/ Install \/ Release \/ Redo \/ RecoverRelease
    PROVE  UNCHANGED Abstract!vars
  <1>1. dur' = dur
    BY DEF CommitTooLarge, FlipCommitted, Install, Release, Redo, RecoverRelease
  <1>2. Recovered(dur') = Recovered(dur)
    BY <1>1
  <1>3. Committed(dur') = Committed(dur)
    BY <1>1
  <1>4. AbsPhase' = AbsPhase /\ AbsPending' = AbsPending
    BY <1>3 DEF CommitTooLarge, FlipCommitted, Install, Release, Redo, RecoverRelease, AbsPhase,
       AbsPending, CommitSteps
  <1>5. QED
    BY <1>2, <1>4 DEF Abstract!vars

\* Flushes and write-backs before the commit point and after it: stutters.
\* While the flip is in flight: either a stutter or the commit point.
LEMMA RefinesDevice ==
    ASSUME JournalInv, JournalInv',
           FlushStaged \/ FlushCommitted \/ FlushInstalled \/ FlushRedo \/ Destage
    PROVE  Abstract!Apply \/ UNCHANGED Abstract!vars
  <1>0. RecoverableAt /\ RecoverableAt'
    BY RecoverableLemma, PTL
  <1>1. /\ vol' = vol /\ batch' = batch
        /\ \/ pc = "staged" /\ pc' \in {"staged", "journalled"}
           \/ pc = "flipping" /\ pc' \in {"flipping", "committed"}
           \/ pc = "installing" /\ pc' \in {"installing", "installed"}
           \/ pc = "redoing" /\ pc' \in {"redoing", "redone"}
           \/ pc \in {"releasing", "clearing"} /\ pc' = pc
    BY DestageNotSynced DEF FlushFrom, FlushStaged, FlushCommitted, FlushInstalled, FlushRedo, Destage
  <1>2. AbsPending' = AbsPending
    BY <1>1 DEF AbsPending, CommitSteps
  <1>3. CASE pc = "staged"
    <2>1. dur.home = vol.home /\ dur'.home = vol'.home
      BY <1>1, <1>3 DEF JournalInv, QuietInv
    <2>2. Recovered(dur') = Recovered(dur)
      BY <1>0, <1>1, <1>3, <2>1 DEF RecoverableAt
    <2>3. ~Committed(dur) /\ ~Committed(dur')
      BY <1>0, <1>1, <1>3 DEF RecoverableAt
    <2>4. AbsPhase = "open" /\ AbsPhase' = "open"
      BY <1>1, <1>3, <2>3 DEF AbsPhase, CommitSteps
    <2>5. QED
      BY <1>2, <2>2, <2>4 DEF Abstract!vars
  <1>4. CASE pc = "flipping"
    <2>1. pc' \in {"flipping", "committed"}
      BY <1>1, <1>4
    <2>2. CASE Committed(dur')
      <3>1. Recovered(dur') = Overlay(vol.home, batch)
        BY <1>0, <1>1, <2>1, <2>2 DEF RecoverableAt
      <3>2. AbsPhase' = "applied"
        BY <2>1, <2>2 DEF AbsPhase, CommitSteps
      <3>3. CASE Committed(dur)
        <4>1. Recovered(dur) = Overlay(vol.home, batch)
          BY <1>0, <1>4, <3>3 DEF RecoverableAt
        <4>2. AbsPhase = "applied"
          BY <1>4, <3>3 DEF AbsPhase, CommitSteps
        <4>3. QED
          BY <1>2, <3>1, <3>2, <4>1, <4>2 DEF Abstract!vars
      <3>4. CASE ~Committed(dur)
        <4>1. Recovered(dur) = vol.home
          BY <1>0, <1>4, <3>4 DEF RecoverableAt
        <4>2. AbsPhase = "open"
          BY <1>4, <3>4 DEF AbsPhase, CommitSteps
        <4>3. AbsPending = batch
          BY <1>4 DEF AbsPending, CommitSteps
        <4>4. Recovered(dur') = Abstract!Overlay(Recovered(dur), AbsPending)
          BY <3>1, <4>1, <4>3 DEF Overlay, Abstract!Overlay, PagesOf, Abstract!PagesOf, SlotOf,
             Abstract!SlotOf
        <4>5. QED
          BY <1>2, <3>2, <4>2, <4>4 DEF Abstract!Apply
      <3>5. QED
        BY <3>3, <3>4
    <2>3. CASE ~Committed(dur')
      <3>1. pc' = "flipping"
        BY <1>0, <2>1, <2>3 DEF RecoverableAt
      <3>2. ~Committed(dur)
        <4>1. /\ Agree(dur, batch) /\ Agree(dur', batch) /\ vol.head.state = "COMMITTED"
              /\ batch \in WriteSets /\ Len(batch) <= JCAP /\ dur \in Medium /\ vol \in Medium
          BY <1>1, <1>4, <3>1 DEF JournalInv, FlipInv, TypeOK, BatchInv, Agree
        <4>2. dur'.head.state # "COMMITTED"
          BY <2>3, <4>1, JournalledAgrees DEF Committed
        <4>3. Destage
          BY <1>4, <3>1 DEF FlushFrom, FlushStaged, FlushCommitted, FlushInstalled, FlushRedo
        <4>4. dur.head.state # "COMMITTED"
          BY <4>1, <4>2, <4>3, DestageFields
        <4>5. QED
          BY <4>4 DEF Committed
      <3>3. Recovered(dur') = vol.home /\ Recovered(dur) = vol.home
        BY <1>0, <1>1, <1>4, <2>3, <3>1, <3>2 DEF RecoverableAt
      <3>4. AbsPhase = "open" /\ AbsPhase' = "open"
        BY <1>4, <2>3, <3>1, <3>2 DEF AbsPhase, CommitSteps
      <3>5. QED
        BY <1>2, <3>3, <3>4 DEF Abstract!vars
    <2>4. QED
      BY <2>2, <2>3
  <1>5. CASE pc \in {"installing", "redoing", "releasing", "clearing"}
    <2>1. Recovered(dur') = Recovered(dur)
      BY <1>0, <1>1, <1>5 DEF RecoverableAt
    <2>2. AbsPhase' = AbsPhase
      BY <1>1, <1>5 DEF AbsPhase, CommitSteps
    <2>3. QED
      BY <1>2, <2>1, <2>2 DEF Abstract!vars
  <1>6. QED
    BY <1>1, <1>3, <1>4, <1>5

\* The ends of a commit and of a mount.
LEMMA RefinesEnd ==
    ASSUME JournalInv, JournalInv', FlushReleased \/ FlushCleared \/ RecoverNothing
    PROVE  Abstract!Acknowledge \/ Abstract!Mount
  <1>0. RecoverableAt /\ RecoverableAt'
    BY RecoverableLemma, PTL
  <1>1. pc' = "idle" /\ AbsPhase' = "idle" /\ AbsPending' = <<>>
    BY DEF FlushReleased, FlushCleared, RecoverNothing, AbsPhase, AbsPending, CommitSteps
  <1>2. Recovered(dur') = dur'.home
    BY <1>0, <1>1 DEF RecoverableAt
  <1>3. CASE FlushReleased
    <2>1. Recovered(dur') = Recovered(dur)
      BY <1>0, <1>2, <1>3 DEF RecoverableAt, FlushReleased
    <2>2. AbsPhase = "applied"
      BY <1>3 DEF FlushReleased, AbsPhase, CommitSteps
    <2>3. QED
      BY <1>1, <2>1, <2>2 DEF Abstract!Acknowledge
  <1>4. CASE FlushCleared
    <2>1. Recovered(dur') = Recovered(dur)
      BY <1>0, <1>2, <1>4 DEF RecoverableAt, FlushCleared
    <2>2. AbsPhase = "down" /\ AbsPending = <<>>
      BY <1>4 DEF FlushCleared, AbsPhase, AbsPending, CommitSteps
    <2>3. QED
      BY <1>1, <2>1, <2>2 DEF Abstract!Mount
  <1>5. CASE RecoverNothing
    <2>1. Recovered(dur') = Recovered(dur)
      BY <1>5 DEF RecoverNothing
    <2>2. AbsPhase = "down" /\ AbsPending = <<>>
      BY <1>5 DEF RecoverNothing, AbsPhase, AbsPending, CommitSteps
    <2>3. QED
      BY <1>1, <2>1, <2>2 DEF Abstract!Mount
  <1>6. QED
    BY <1>3, <1>4, <1>5

\* Starting a commit begins an atomic write-set.
LEMMA RefinesStage ==
    ASSUME JournalInv, JournalInv', Stage
    PROVE  Abstract!Begin
  <1>0. RecoverableAt /\ RecoverableAt'
    BY RecoverableLemma, PTL
  <1>1. pc = "idle" /\ pc' = "staged" /\ dur' = dur
    BY DEF Stage
  <1>2. ~Committed(dur')
    BY <1>0, <1>1 DEF RecoverableAt
  <1>3. AbsPhase = "idle" /\ AbsPhase' = "open" /\ AbsPending' = batch'
    BY <1>1, <1>2 DEF AbsPhase, AbsPending, CommitSteps
  <1>4. batch' \in WriteSets /\ Distinct(batch')
    BY DEF JournalInv, TypeOK, BatchInv
  <1>5. batch' \in {ws \in Abstract!WriteSets : Abstract!Distinct(ws)}
    BY <1>4 DEF Abstract!WriteSets, WriteSets, Abstract!Image, Image, Abstract!Distinct, Distinct
  <1>6. Recovered(dur') = Recovered(dur)
    BY <1>1
  <1>7. QED
    BY <1>3, <1>5, <1>6 DEF Abstract!Begin

\* A power cut is a crash of the atomic store.
LEMMA RefinesPowerCut ==
    ASSUME PowerCut
    PROVE  Abstract!Crash
  <1>1. dur' = dur /\ pc' = "down"
    BY DEF PowerCut
  <1>2. AbsPhase' = "down" /\ AbsPending' = <<>>
    BY <1>1 DEF AbsPhase, AbsPending, CommitSteps
  <1>3. Recovered(dur') = Recovered(dur)
    BY <1>1
  <1>4. QED
    BY <1>2, <1>3 DEF Abstract!Crash

\* Under any interleaving of commit steps, write-backs, power cuts and
\* repeated recoveries, journal::commit and journal::recover implement the
\* atomic store: all-or-nothing commits, acknowledged ones durable.
THEOREM JournalImplementsAtomicStore == Spec => ImplementsAtomicStore
  <1>1. Init => Abstract!Init
    BY RefinesInit
  <1>2. JournalInv /\ JournalInv' /\ [Next]_vars => [Abstract!Next]_(Abstract!vars)
    <2> SUFFICES ASSUME JournalInv, JournalInv', [Next]_vars
                 PROVE  Abstract!Next \/ UNCHANGED Abstract!vars
      OBVIOUS
    <2>1. CASE UNCHANGED vars
      <3>1. dur' = dur /\ pc' = pc /\ batch' = batch
        BY <2>1 DEF vars
      <3>2. Recovered(dur') = Recovered(dur) /\ AbsPhase' = AbsPhase /\ AbsPending' = AbsPending
        BY <3>1 DEF AbsPhase, AbsPending
      <3>3. QED
        BY <3>2 DEF Abstract!vars
    <2>2. CASE Next
      BY <2>2, RefinesStage, RefinesQuiet, RefinesDevice, RefinesEnd, RefinesPowerCut
         DEF Next, Commit, Recover, Abstract!Next
    <2>3. QED
      BY <2>1, <2>2
  <1>3. QED
    BY <1>1, <1>2, JournalInvariant, PTL DEF Spec, ImplementsAtomicStore, Abstract!Spec
=============================================================================
