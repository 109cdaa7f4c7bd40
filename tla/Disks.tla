------------------------------- MODULE Disks -------------------------------
(***************************************************************************)
(* Which disk the kernel uses: the search for the boot disk and the        *)
(* identity gate of main.rs, the IDE reads of ata.rs with their bounded    *)
(* wait, and the installer of install.rs, over the USB pipeline of UsbEnum. *)
(* Everything runs on the main thread, `pc`; sticks come and go meanwhile, *)
(* an IDE drive that was given up on may still answer, power may be cut.   *)
(*                                                                         *)
(* A disk starts with a boot prefix of `base` chunks, sector 0 (the MBR,   *)
(* with the system GUID) in front, and a volume behind it.                 *)
(***************************************************************************)
EXTENDS UsbEnum, FiniteSetsExt

CONSTANTS Image,      \* builds of boot loader and kernel
          Base,       \* where an image's volume begins (data_lba), in chunks
          Guid,       \* system GUIDs
          Start,      \* what the disks hold at first
          Place,      \* the sticks on the ports at first
          MinVolume,  \* (FIRST_DATA_PAGE + 1) pages, in chunks
          MaxHands    \* bound: sticks put in or pulled out, power switched off and on

VARIABLES pc,         \* where the main thread is
          after,      \* what the pipeline runs for, or "key" for a single step or none
          boot,       \* BootInfo: [disk (the one the firmware loaded), guid, base]
          mount,      \* BootDisk: [bus, slot]
          late,       \* the IDE command given up on that the drive still works on
          inst,       \* the installer: [slot, lba, guid, ok]
          hands,      \* how often the user has intervened
          clean       \* the running pass met no fault and no plugging

usbVars == <<disk, port, used, hc, faults>>
vars == <<disk, port, used, hc, faults, pc, after, boot, mount, late, inst, hands, clean>>

Lba == UNION {0..Base[i] : i \in Image}
Mbr == [img : Image, guid : Guid]
Chunk == (Image \X Lba) \cup {Other}
Content == [mbr : Mbr \cup {Blank}, pre : [Lba -> Chunk], vol : Lba]  \* vol = 0: no volume
Command == [op : {"none", "identify", "read"}, lba : Lba]             \* of an IDE drive

ASSUME DisksAssumption ==
    /\ SuperSpeed \subseteq Stick /\ Master \notin Stick /\ NoDisk \notin Stick \cup {Master}
    /\ Size \in [Stick -> Nat \ {0}]
    /\ Base \in [Image -> Nat \ {0}]
    /\ Guid \subseteq Nat \ {0}
    /\ NPorts \in Nat \ {0} /\ MaxSlots \in Nat \ {0}
    /\ MinVolume \in Nat /\ MaxFaults \in Nat /\ MaxHands \in Nat

\* No two disks start with the same system GUID, and a stick is in one port only.
ASSUME StartAssumption ==
    \A s \in Start :
        /\ DOMAIN s \subseteq Stick \cup {Master}
        /\ \A d \in DOMAIN s : s[d] \in Content
        /\ \A d, e \in DOMAIN s : s[d].mbr # Blank /\ s[d].mbr.guid = s[e].mbr.guid => d = e
        /\ \A a \in Place :
             /\ a \in [Port -> (Stick \cap DOMAIN s) \cup {NoDisk}]
             /\ \A p, q \in Port : a[p] = a[q] /\ a[p] # NoDisk => p = q

NoCommand == [op |-> "none", lba |-> 0]
Identify == [op |-> "identify", lba |-> 0]
Read(k) == [op |-> "read", lba |-> k]
NoMount == [bus |-> "none", slot |-> 0]
NoInstall == [slot |-> 0, lba |-> 0, guid |-> CHOOSE g \in Guid : TRUE, ok |-> FALSE]

Attached == {d \in DOMAIN disk : d = Master \/ \E p \in Port : port[p].stick = d}

\* External: the firmware and the boot loader start a disk that carries all of
\* the image its MBR belongs to.
Bootable(d) ==
    LET c == disk[d]
    IN  c.mbr # Blank /\ \A k \in 0..Base[c.mbr.img] - 1 : c.pre[k] = <<c.mbr.img, k>>

PowerOn(d) ==
    /\ boot' = [disk |-> d, guid |-> disk[d].mbr.guid, base |-> Base[disk[d].mbr.img]]
    /\ pc' = "ata"
    /\ after' = "select"
    /\ mount' = NoMount
    /\ late' = NoCommand
    /\ inst' = NoInstall
    /\ clean' = FALSE

Init ==
    /\ disk \in Start
    /\ port \in {[p \in Port |-> Fresh(a[p])] : a \in Place}
    /\ \E d \in {e \in Attached : Bootable(e)} :
         /\ boot = [disk |-> d, guid |-> disk[d].mbr.guid, base |-> Base[disk[d].mbr.img]]
    /\ hc = NoController
    /\ used = 0 /\ faults = 0 /\ hands = 0
    /\ pc = "ata" /\ after = "select"
    /\ mount = NoMount /\ late = NoCommand /\ inst = NoInstall /\ clean = FALSE
-----------------------------------------------------------------------------
(* IDE: Ata and read_sector_at.  A command is given up on after a bounded   *)
(* wait; while the drive is busy with it, a new command is not taken, and   *)
(* the answer that then comes is the old one's.                             *)

\* `of` is the command whose data the host reads.
AtaAnswers(c) ==
    IF Master \notin DOMAIN disk THEN {[ok |-> FALSE, of |-> c, late |-> NoCommand, n |-> 0]}
    ELSE IF late = NoCommand
    THEN {[ok |-> TRUE, of |-> c, late |-> NoCommand, n |-> 0],
          [ok |-> FALSE, of |-> c, late |-> NoCommand, n |-> 1],   \* the drive reports an error
          [ok |-> FALSE, of |-> c, late |-> c, n |-> 1]}           \* the wait is over
    ELSE {[ok |-> TRUE, of |-> late, late |-> NoCommand, n |-> 0],
          [ok |-> FALSE, of |-> c, late |-> late, n |-> 0]}

\* An answer taken for sector 0.
AtaMbr(r) == IF r.ok /\ r.of = Read(0) THEN disk[Master].mbr ELSE Blank

\* External: the drive finishes while nobody waits.
DriveReady ==
    /\ late # NoCommand
    /\ late' = NoCommand
    /\ UNCHANGED <<usbVars, pc, after, boot, mount, inst, hands, clean>>

-----------------------------------------------------------------------------
(* discover_boot_disk and the identity gate of kmain *)

\* Does a first sector carry the captured GUID?
SameGuid(mbr, guid) == mbr \in Mbr /\ mbr.guid = guid

ToUsb == pc' = "bring_up" /\ after' = "select" /\ clean' = TRUE /\ UNCHANGED mount

\* Ata::probe
ProbeAta ==
    /\ pc = "ata"
    /\ \E r \in AtaAnswers(Identify) :
         /\ Failing(r.n)
         /\ late' = r.late
         /\ IF ~r.ok THEN ToUsb
            ELSE pc' = "ata_mbr" /\ UNCHANGED <<after, mount, clean>>
    /\ UNCHANGED <<disk, port, used, hc, boot, inst, hands>>

\* Ata::read_boot_sector
ProbeAtaMbr ==
    /\ pc = "ata_mbr"
    /\ \E r \in AtaAnswers(Read(0)) :
         /\ Failing(r.n)
         /\ late' = r.late
         /\ IF SameGuid(AtaMbr(r), boot.guid)
            THEN /\ mount' = [bus |-> "ata", slot |-> 0]
                 /\ pc' = "gate"
                 /\ UNCHANGED <<after, clean>>
            ELSE ToUsb
    /\ UNCHANGED <<disk, port, used, hc, boot, inst, hands>>

\* The first drive whose MBR carries the GUID and that has room for a volume.
SelectUsb ==
    /\ pc = "select"
    /\ LET own == {m \in Drives : SameGuid(m.first, boot.guid) /\ m.size > boot.base}
       IN  IF own = {} THEN pc' = "fatal" /\ UNCHANGED mount
           ELSE /\ mount' = [bus |-> "usb", slot |-> Min({m.slot : m \in own})]
                /\ pc' = "gate"
    /\ UNCHANGED <<usbVars, after, boot, late, inst, hands, clean>>

\* What a read of sector 0 through a slot gives; a failed data stage gives zeroes.
UsbAnswers(slot) ==
    IF Device(slot) = NoDisk THEN {[data |-> Unreadable, n |-> 0]}
    ELSE {[data |-> disk[Device(slot)].mbr, n |-> 0], [data |-> Unreadable, n |-> 1], [data |-> Blank, n |-> 1]}

GateAnswers ==
    IF mount.bus = "usb" THEN {[data |-> r.data, late |-> late, n |-> r.n] : r \in UsbAnswers(mount.slot)}
    ELSE {[data |-> AtaMbr(r), late |-> r.late, n |-> r.n] : r \in AtaAnswers(Read(0))}

Disk(m) == IF m.bus = "ata" THEN Master ELSE Device(m.slot)

\* read_boot_sector, the comparison, Store::open.
Gate ==
    /\ pc = "gate"
    /\ \E r \in GateAnswers :
         /\ Failing(r.n)
         /\ late' = r.late
         /\ pc' = IF SameGuid(r.data, boot.guid) THEN "open_store" ELSE "fatal"
    /\ UNCHANGED <<disk, port, used, hc, after, boot, mount, inst, hands, clean>>

\* setup_mouse runs the pipeline, without the probes, if nothing has yet.
OpenStore ==
    /\ pc = "open_store"
    /\ \E n \in {0, 1} :
         /\ Failing(n)
         /\ IF n = 1 \/ Disk(mount) = NoDisk \/ disk[Disk(mount)].vol # boot.base
            THEN pc' = "fatal" /\ UNCHANGED <<after, clean>>
            ELSE IF hc.addressed = {}
            THEN pc' = "bring_up" /\ after' = "mouse" /\ clean' = TRUE
            ELSE pc' = "idle" /\ after' = "key" /\ clean' = FALSE
    /\ UNCHANGED <<disk, port, used, hc, boot, mount, late, inst, hands>>
-----------------------------------------------------------------------------
(* The pipeline on the main thread *)

\* Where the main thread goes after a step.
Follow(step) ==
    IF after = "key" THEN "idle"
    ELSE IF step = "configure" /\ after = "mouse" THEN "idle"
    ELSE IF step = "probe" THEN (IF after = "drives" THEN "idle" ELSE after)
    ELSE Steps[1 + CHOOSE i \in 1..5 : Steps[i] = step]

Step(step) ==
    /\ pc = step
    /\ pc' = Follow(step)
    /\ after' = IF pc' = "idle" THEN "key" ELSE after
    /\ clean' = (pc' # "idle" /\ clean /\ faults' = faults)
    /\ UNCHANGED <<boot, mount, late, inst, hands>>

Pipeline ==
    \/ BringUp /\ Step("bring_up")
    \/ ScanPorts /\ Step("ports")
    \/ Address /\ Step("address")
    \/ Fetch /\ Step("fetch")
    \/ Configure /\ Step("configure")
    \/ ProbeDrives /\ Step("probe")

Begin(step, why) ==
    /\ pc = "idle"
    /\ pc' = step
    /\ after' = why
    /\ clean' = TRUE
    /\ UNCHANGED <<boot, mount, inst, hands>>

\* The xHCI screen: one step of the pipeline.
XhciKey ==
    /\ \E i \in DOMAIN Steps : Begin(Steps[i], "key")
    /\ UNCHANGED <<usbVars, late>>

\* Key n of the Table List.
CreateOsKey ==
    /\ Begin("bring_up", "offer")
    /\ UNCHANGED <<usbVars, late>>

\* Key d of the Table List: enumerate_drives identifies the IDE drive and reads
\* its sector 0, then the pipeline runs.
DrivesKey ==
    /\ Begin("bring_up", "drives")
    /\ \E r \in AtaAnswers(Identify) \cup AtaAnswers(Read(0)) : Failing(r.n) /\ late' = r.late
    /\ UNCHANGED <<disk, port, used, hc>>

\* Key w of the xHCI screen: run_write_test on sector 1 of the first drive.
\* The sector is put back, unless reading it back or that write fails.
WriteTestKey ==
    /\ pc = "idle"
    /\ \E m \in hc.msc :
         /\ m.size # 0
         /\ m.slot = Min({q.slot : q \in {r \in hc.msc : r.size # 0}})
         /\ \/ Failing(0) /\ UNCHANGED disk
            \/ Failing(1) /\ UNCHANGED disk
            \/ /\ Device(m.slot) # NoDisk
               /\ Failing(1)
               /\ disk' = [disk EXCEPT ![Device(m.slot)].pre[0] = Other]
    /\ UNCHANGED <<port, used, hc, pc, after, boot, mount, late, inst, hands, clean>>
-----------------------------------------------------------------------------
(* install_to_usb *)

\* The drives of the picker.
Candidates == {m \in Drives : ~SameGuid(m.first, boot.guid)}

\* Pick a target and confirm, or cancel; make_random_sys_guid gives a new GUID.
Taken == {disk[d].mbr.guid : d \in {e \in DOMAIN disk : disk[e].mbr # Blank}} \cup {boot.guid}

Offer ==
    /\ pc = "offer"
    /\ \/ pc' = "idle" /\ UNCHANGED inst
       \/ \E m \in Candidates : \E g \in Guid \ Taken :
            /\ \A h \in Guid \ Taken : g <= h
            /\ inst' = [slot |-> m.slot, lba |-> 0, guid |-> g, ok |-> FALSE]
            /\ pc' = "size"
    /\ after' = "key"
    /\ clean' = FALSE
    /\ UNCHANGED <<usbVars, boot, mount, late, hands>>

\* UsbMscDevice::open and the size of the target as it was probed.
CheckSize ==
    /\ pc = "size"
    /\ pc' = IF \E m \in hc.msc : m.slot = inst.slot /\ m.size >= boot.base + MinVolume
             THEN "refuse" ELSE "result"
    /\ UNCHANGED <<usbVars, after, boot, mount, late, inst, hands, clean>>

\* Mutant: the candidates were filtered already.
refuse_never(mbr) == FALSE

\* refuse_if_same_disk: a target that cannot be read is not refused.
refuse_if_same_disk(mbr) == SameGuid(mbr, boot.guid)

Refuse ==
    /\ pc = "refuse"
    /\ \E r \in UsbAnswers(inst.slot) :
         /\ Failing(r.n)
         /\ pc' = IF refuse_if_same_disk(r.data) THEN "result" ELSE "copy"
    /\ UNCHANGED <<disk, port, used, hc, after, boot, mount, late, inst, hands, clean>>

\* What the target holds once chunk k is written; r is the IDE drive's answer
\* to the read of the chunk's first sector.
Copied(c, k, r) ==
    [c EXCEPT !.mbr = IF k > 0 THEN @
                      ELSE IF AtaMbr(r) = Blank THEN Blank
                      ELSE [AtaMbr(r) EXCEPT !.guid = inst.guid],
              !.pre[k] = IF k = 0 \/ r.of = Read(k) THEN disk[Master].pre[k] ELSE Other,
              !.vol = IF @ <= k THEN 0 ELSE @]

\* Mutant: one chunk too many, over the start of the volume.
PrefixDoneLate == inst.lba > boot.base

\* `while lba < data_lba` is through.
PrefixDone == inst.lba >= boot.base

\* One chunk of the prefix: read from the primary IDE master, written to the target.
CopyChunk ==
    /\ pc = "copy"
    /\ ~PrefixDone
    /\ \E r \in AtaAnswers(Read(inst.lba)) :
         /\ late' = r.late
         /\ IF ~r.ok
            THEN Failing(r.n) /\ pc' = "result" /\ UNCHANGED <<disk, inst>>
            ELSE LET d == Device(inst.slot)
                     put == [disk EXCEPT ![d] = Copied(@, inst.lba, r)]
                 IN  IF d = NoDisk
                     THEN Failing(r.n) /\ pc' = "result" /\ UNCHANGED <<disk, inst>>
                     ELSE \/ Failing(r.n) /\ disk' = put /\ inst' = [inst EXCEPT !.lba = @ + 1] /\ UNCHANGED pc
                          \/ /\ Failing(r.n + 1)
                             /\ disk' \in {disk, put, [put EXCEPT ![d].pre[inst.lba] = Other]}
                             /\ pc' = "result" /\ UNCHANGED inst
    /\ UNCHANGED <<port, used, hc, after, boot, mount, hands, clean>>

\* Store::format behind the prefix; Pager::format wants one page more than the
\* size check does, and looks before it writes.
Format ==
    /\ pc = "copy"
    /\ PrefixDone
    /\ LET d == Device(inst.slot)
           put(v) == disk' = [disk EXCEPT ![d].vol = v]
       IN  IF d = NoDisk \/ Size[d] <= boot.base + MinVolume
           THEN Failing(0) /\ pc' = "result" /\ UNCHANGED disk
           ELSE \/ Failing(0) /\ put(boot.base) /\ pc' = "verify"
                \/ Failing(1) /\ (UNCHANGED disk \/ put(0)) /\ pc' = "result"
    /\ UNCHANGED <<port, used, hc, after, boot, mount, late, inst, hands, clean>>

\* Mutant: what was written is trusted.
verify_mbr_trusted(mbr) == mbr # Unreadable

\* The MBR as it is read back: TBLSBOOT and the new GUID.
verify_mbr_ok(mbr) == mbr \in Mbr /\ mbr.guid = inst.guid

\* Sector 0 read back, the volume mounted.
Verify ==
    /\ pc = "verify"
    /\ pc' = "result"
    /\ \E r \in UsbAnswers(inst.slot) :
         \/ /\ Failing(r.n)
            /\ inst' = [inst EXCEPT !.ok = /\ verify_mbr_ok(r.data)
                                           /\ disk[Device(inst.slot)].vol = boot.base]
         \/ Failing(r.n + 1) /\ UNCHANGED inst     \* Store::open fails
    /\ UNCHANGED <<disk, port, used, hc, after, boot, mount, late, hands, clean>>

Dismiss ==
    /\ pc = "result"
    /\ pc' = "idle"
    /\ inst' = NoInstall
    /\ UNCHANGED <<usbVars, after, boot, mount, late, hands, clean>>
-----------------------------------------------------------------------------
\* A stick is pulled out or put in, at any time.
Hands ==
    /\ hands < MaxHands
    /\ hands' = hands + 1
    /\ clean' = FALSE
    /\ \E p \in Port : Unplug(p) \/ \E s \in Stick \cap DOMAIN disk : Plug(p, s)
    /\ UNCHANGED <<disk, used, hc, faults, pc, after, boot, mount, late, inst>>

\* Power is cut and the machine is switched on again, from any disk that boots.
Reboot ==
    /\ hands < MaxHands
    /\ hands' = hands + 1
    /\ \E d \in {e \in Attached : Bootable(e)} : PowerOn(d)
    /\ port' = [p \in Port |-> Fresh(port[p].stick)]
    /\ hc' = NoController
    /\ used' = 0
    /\ UNCHANGED <<disk, faults>>

Discover == ProbeAta \/ ProbeAtaMbr \/ SelectUsb \/ Gate \/ OpenStore

Keys == XhciKey \/ CreateOsKey \/ DrivesKey \/ WriteTestKey

install_to_usb == Offer \/ CheckSize \/ Refuse \/ CopyChunk \/ Format \/ Verify \/ Dismiss

Next == Discover \/ Pipeline \/ Keys \/ install_to_usb \/ DriveReady \/ Hands \/ Reboot

Spec == Init /\ [][Next]_vars
-----------------------------------------------------------------------------
(* Properties *)

TypeOK ==
    /\ DOMAIN disk \subseteq Stick \cup {Master}
    /\ \A d \in DOMAIN disk : disk[d] \in Content
    /\ port \in [Port -> [stick : Stick \cup {NoDisk}, ped : BOOLEAN, owner : 0..MaxSlots]]
    /\ used \in 0..MaxSlots
    /\ faults \in 0..MaxFaults
    /\ hc.up \in BOOLEAN
    /\ hc.reports \subseteq [slot : Slot, port : Port]
    /\ hc.addressed \subseteq [slot : Slot, port : Port, stage : Stage]
    /\ \A m \in hc.msc : /\ m.slot \in Slot /\ m.inquiry \in BOOLEAN /\ m.size \in Nat
                         /\ m.first \in Mbr \cup {Blank, Unreadable}
    /\ pc \in {"ata", "ata_mbr", "select", "gate", "open_store", "fatal", "idle", "offer", "size",
               "refuse", "copy", "verify", "result"} \cup {Steps[i] : i \in DOMAIN Steps}
    /\ after \in {"select", "mouse", "offer", "drives", "key"}
    /\ boot \in [disk : DOMAIN disk, guid : Guid, base : Lba]
    /\ mount \in [bus : {"none", "ata", "usb"}, slot : 0..MaxSlots]
    /\ late \in Command
    /\ inst \in [slot : 0..MaxSlots, lba : Lba, guid : Guid, ok : BOOLEAN]
    /\ clean \in BOOLEAN

\* README.md:25 "it can only ever touch the disk it booted from": once the gate
\* is passed, whatever answers the mounted store is the disk the firmware
\* booted, through hot-plugging, repeated enumeration, installations and
\* reboots, and no installation writes over its identity, as long as at most one
\* call fails.
Mounted == mount.bus # "none" /\ pc \notin {"gate", "fatal"}

StoreOnBootedDisk ==
    Mounted /\ Disk(mount) # NoDisk =>
        /\ Disk(mount) = boot.disk
        /\ SameGuid(disk[boot.disk].mbr, boot.guid)

\* install.rs verifies only sector 0 and the volume: yet a report "OK", on a
\* system that runs from the IDE disk, means that the stick boots: all of the
\* prefix is the running system's, under a GUID no other disk has, also when
\* the drive answered late or a copy was interrupted before.
InstalledBoots ==
    pc = "result" /\ inst.ok /\ mount.bus = "ata" /\ Device(inst.slot) # NoDisk =>
        LET d == Device(inst.slot)
        IN  /\ Bootable(d)
            /\ disk[d].mbr = [img |-> disk[boot.disk].mbr.img, guid |-> inst.guid]
            /\ disk[d].vol = boot.base
            /\ \A e \in DOMAIN disk \ {d} : ~SameGuid(disk[e].mbr, inst.guid)

\* xhci.rs:2923 "calling this repeatedly is safe and only does new work as
\* devices appear": a pass that no fault and no hand disturbs shows every stick
\* that is plugged in, with its first sector, unless the controller's slots are
\* used up (every pass takes one per stick) or an earlier pass addressed the
\* stick and lost its device descriptor or the second part of its configuration.
PassFindsSticks ==
    clean /\ pc \in {"select", "offer"} =>
        \A p \in Port : port[p].stick # NoDisk =>
            \/ \E m \in Drives : m.slot = port[p].owner /\ m.first = disk[port[p].stick].mbr
            \/ used = MaxSlots /\ port[p].owner = 0 /\ \A r \in hc.reports : r.port # p
            \/ \E a \in hc.addressed :
                  a.slot = port[p].owner /\ a.stage \in {"addressed", "hollow"}
=============================================================================
