# TablesOS in TLA+

TablesOS is a small x86-64 operating system whose only application is a table
store: `tablestore/` is the storage engine (`no_std` library), `kernel/` boots,
drives disks, keyboard and mouse, and shows the user interface, `boot/` is the
loader, `src/` and the root crate build the disk image. This project models the parts of it
that keep state across steps, checks them with TLC on small instances and
proves, with TLAPS and for every size, the commit protocol (also with failing
device calls), the relational engine, the input path, USB storage and the mouse
beside it, the user interface, and disk discovery with the installer.

`PROJECT.json` maps every definition to the source lines it stands for and
lists runs, mutants, theorems, findings and hazards. Line numbers below are
those of that file's commit.

## Inventory

| Component (source) | State | Operations | Talks to | What is hard | Correct when |
|---|---|---|---|---|---|
| Journal (`tablestore/src/journal.rs`, `block.rs`) | control area (state, CRC, entries) and data pages on disk | `init`, `commit`, `recover` | `BlockDevice`: read, write, flush | write cache, power cuts, errors between any two sectors | the recoverable pages change by whole transactions, and an acknowledged one stays |
| Pager (`pager.rs`) | superblock copy, dirty pages, clean cache, free list on disk | `format`, `mount`, `alloc_page`, `free_page`, `read_page`, `write_page`, `commit`, `rollback` | journal, device | a transaction that fails half-way; a full journal or volume | every page is free, reserved or in exactly one structure |
| Store (`store.rs`, `schema.rs`) | catalog, schema and row blobs in page chains, row index pages | create/drop/rename table, column edits, foreign keys, reference label, insert/update/delete | pager; called by UI, seeder | long sequences of schema edits over existing rows; rules across tables | references resolve, UNIQUE holds, rows fit their schema, edits keep cells |
| Values, codec, bignum (`value.rs`, `codec.rs`, `bignum.rs`, `types.rs`) | none | parse, format, encode, compare, arithmetic | store, UI | pure functions on digit strings | agree with a reference |
| Input (`kernel/src/ps2.rs`, `interrupts.rs`, loop of `ui.rs`) | event ring, keyboard and mouse decoder state, spinlocks | IRQ 0, 1, 12; `poll`, `pump_mouse` | interrupts against the main thread | preemption inside a lock, lost bytes, full ring, sleep against wake-up | no handler spins, keys and clicks are the user's, nothing queued is forgotten |
| xHCI, USB storage and mouse (`kernel/src/usb/xhci.rs`) | command, transfer and event rings, slots, mouse accumulator, identity gate | bring-up, enumeration, control/bulk transfer, `msc_command`, sector calls, mouse poll | controller by DMA; the store's `BlockDevice`; UI loop | one event ring for all, time-outs with TRBs still queued, stalls, retries | an Ok is true, a failed call has no late effect, the boot disk only is written |
| ATA (`kernel/src/ata.rs`) | none beyond registers | identify, read, write, flush (PIO), drive list | the store's `BlockDevice`, discovery, installer | bounded polling: the drive may answer after it was given up on | contract of `BlockDevice` |
| Boot disk, entry (`kernel/src/main.rs`) | captured GUID, chosen disk | probe ATA, run the USB pipeline, identity gate, mount | all drivers | disks that look alike, come and go, or fail to answer | the booted disk is the one opened |
| Installer (`kernel/src/install.rs`) | progress | check, copy, format, verify | USB, store | target = source, failure, pull-out or power cut half-way | never overwrites the running system; an OK boots |
| UI (`kernel/src/ui.rs`) | screen stack, selection, edit buffers, row cache, hit map | key, click, repaint | store, input | ids and caches that outlive the rows they name, reads that fail, events handled before a repaint | acts on what it was asked about |
| Graphics, fonts, PNG, platform (ACPI, PCI, RTC, GDT, serial, heap) | – | straight-line register access and pure functions | – | – | not protocol state |
| Boot loader, image builder, seed | – | run once, sequentially | BIOS / host files | – | not modelled |

Everything runs on one core with one thread plus interrupts. So the concurrency
of this system is: interrupts against the main loop, the device (write cache,
DMA, bus) against the driver, and power.

## Modules

| Module | Stands for | State and actions |
|---|---|---|
| `WriteSet` | page images as sectors, the argument of `journal::commit` | operators |
| `AtomicStore` | abstract: what the journal promises | `Begin`, `Apply`, `Acknowledge`, `Crash`, `Mount` |
| `Journal` | `journal.rs` on a device with a volatile cache | `dur` (medium) and `vol` (as read); `commit` and `recover` cut at every flush; `Destage` writes back any sector; `PowerCut` |
| `JournalProofs` | theorems about `Journal` | – |
| `JournalIo` | `Journal` with device calls that fail at any sector, the pager's cache, `Store::tx` with its rollback, failing mounts | adds `cache`, `errors`, `failedAt` |
| `JournalIoProofs` | theorems about `JournalIo`, from the lemmas of `JournalProofs` | – |
| `TableHeap` | abstract: what the page layer promises | tables with schema and row blobs |
| `PageStore` | `pager.rs` allocator; chains, catalog, row index of `store.rs` | `disk`, `sbDisk`, `sb`; one action per public operation, each computed page by page on a transaction record and then committed or rolled back |
| `Relational` | `store.rs` as a relational engine | `db`; one action per public operation with every check the code makes |
| `RelationalProofs` | theorems about `Relational` | – |
| `EventRing`, `Input` | `ps2.rs`, `interrupts.rs`, loop of `ui::run` | decoder bytes are numbers; every lock and unlock of the main thread is a step |
| `InputProofs` | theorems about `Input` and `EventRing` | – |
| `UsbStorage` | `msc_command`, `UsbMscDevice`, `drain_event`, `poll_mouse_delta` | host call, DMA buffers, bulk endpoints, event ring, device, medium, mouse |
| `UsbProofs` | theorems about `UsbStorage` | – |
| `UsbEnum` | the enumeration pipeline of `xhci.rs`, from `bring_up` to `probe_mass_storage` | `port`, `used` (the controller), `hc` (`XhciState`); one operator per step, with the calls that fail; plugging |
| `Disks` | `discover_boot_disk`, the identity gate, IDE reads, `install_to_usb`, the keys that run the pipeline | extends `UsbEnum` by the main thread (`pc`), what the disks hold, the mounted disk, the IDE command given up on; reboot |
| `DisksProofs` | theorems about `Disks` and `UsbEnum` | – |
| `Ui` | `ui.rs`: screens, key handlers, modals, clicks, row cache | extends `Relational` by `stack`, `hitmap`, `cache`, `gen`; one step per event, one per repaint |
| `UiProofs` | theorems about `Ui`, from the lemmas of `RelationalProofs` | – |
| `OrderLemmas` | least numbers and ranks in a finite order, used by `RelationalProofs` and `UiProofs` | – |

How they compose: `JournalIo` extends `Journal`, which refines `AtomicStore`;
the commit step of `PageStore` is atomic because of that refinement; `PageStore`
refines `TableHeap`, and the operations of `Relational` (one `Store::tx` each)
are atomic because of both. `UsbStorage` is one implementation of the
`BlockDevice` that `Journal` assumes (writes that are Ok are readable; a late
effect would break the journal's ordering). `Input` uses `EventRing`. `Ui` is
the consumer of `Input`'s events and calls the operations of `Relational`: every
handler that commits takes the corresponding action of it and advances the
generation. `Disks` runs `UsbEnum`'s pipeline on the main thread; the calls of
the mounted store behind its gate are those of `UsbStorage` and `Journal`.

Abstractions that matter to a reader:

* *Journal.* The CRC is the list it covers (no collisions). `txid` is left out,
  it shares the head sector with the CRC that covers it. A run of writes between two flushes is one step,
  because any prefix that a power cut lets through is also a subset `Destage` can
  write back; with device *errors* this no longer holds, and `JournalIo`
  cuts the runs at every sector.
* *PageStore.* A blob is a kind, a content and the number of pages it takes.
  The superblock in memory and on disk are separate, as they differ after a
  failed operation. `MCPageStore` adds the variable `view`, always equal to the
  decoded tables, only so that TLC decodes the pages once per step.
* *Relational.* A value is its type and a token. Rejected calls change nothing
  and are not enabled. Rows are positional as in the code.
* *Input.* Keyboard strokes include the 0xE0 prefix but not the "fake shift"
  sequences some keyboards add (E0 2A: `on_keyboard_byte` sets shift whatever the
  prefix, `ps2.rs:161`), and a packet's first byte has bit 3 set, as the
  protocol says; both are part of `InputAssumption`. `init_mouse` (one handshake at boot) is not
  modelled.
* *UsbStorage.* Rings are queues; indices, cycle bits and link TRBs are left out.
  A buffer freed while a TRB names it is read or written by the controller as
  either its old or the next command's memory. `reset_bulk_endpoint` resets
  the controller's side only (no CLEAR_FEATURE is ever sent), so after it one
  packet may be taken for a repetition and dropped, and a device
  that stalled stays stalled.
* *UsbEnum.* Each step of the pipeline holds the global lock and is one
  step here; sticks come and go between steps. A device is a mass-storage stick, a
  port its root port. A stick answers Address Device only in its default state,
  which it leaves until its port is reset or it is plugged in again; a slot
  whose stick is gone answers nothing.
* *Disks.* A disk is an MBR (image and GUID), the chunks of its boot prefix and
  a volume. The firmware boots any attached disk whose prefix is whole. An IDE
  command given up on stays with the drive; while it does, a new command is
  not taken, and the data that comes is the old command's. New GUIDs are new
  (128 bits from the time stamp counter). Two disks written from one image share their GUID and
  nothing in the code can tell them apart; such pairs are not among the starting states.
* *Ui.* Text is what the user may have typed by the time a prompt or editor is
  answered; layout and scrolling are left out. A store operation may always fail
  instead and then changes nothing; a read of the volume may fail whenever one is made
  (`Read`), and the handler then goes on with the code's default: an empty list of
  tables, rows, columns or targets, a missing filter, no editor, a builder in
  place of a picker, an empty label order. The hit map lists the click
  targets of the screen painted last; any number of events, clicks included, may be handled
  before the next repaint. A commit that fails behind its commit point (finding 1)
  is left out: it changes pages while the generation, which only a commit that returns Ok
  advances, stays, so a cached list outlives it. The mounted volume is one the store has
  written (`VolumeSound`, the invariants of `Relational`).
* *Fields that are not in the code.* `ok` of a row-cache entry (were the reads behind it
  successful?), `confirm` of the hit map (was a confirmation painted?): only properties
  look at them.

## Runs

| Run | Checks | Shows |
|---|---|---|
| `journal` | `ServesRecovered`, `JournalInv` (with `TypeOK`), refinement of `AtomicStore`, `ReturnsToIdle` | atomic and durable under every write-back order and any number of power cuts, also during recovery; recovery terminates |
| `journal_io` | `FailureRecoverable`, `EarlyFailureRollsBack` | what survives two device errors |
| `journal_io_torn` *(violation)* | `RecoversUntorn` | a commit after a failed one overwrites a journal that is still COMMITTED |
| `relational` | `TypeOK`, `RefIntegrity`, `UniqueHolds`, `SchemaSound`, `Navigable`, `RowsFit`, `EditsKeepCells` | all operations in any order, over two tables or over two columns of two types |
| `page_store` | `TypeOK`, `PagesPartitioned`, `RowCountExact`, refinement of `TableHeap` | pages are neither lost nor shared on a volume and a journal that run full |
| `page_store_rollback` *(violation)* | `NeverHalfMutated` | the error that `rollback` drops corrupts the free list |
| `input` | `TypeOK`, `NoSpinDeadlock`, `KeysAsTyped`, `NoPhantomClick`, `RingIsQueue`, `EventsHandled` | interrupts, lost bytes, USB mouse and the sleeping loop |
| `usb` | `TypeOK`, `WriteIsOnMedium`, `SucceedsWithoutFault`, `OneMouseTransfer`, `NoLateEffect`, `OnlyBootDiskWritten`, `CallsReturn`, `MouseRecovers` | sector calls and mouse on one event ring, with one fault anywhere |
| `usb_read` *(violation)* | `ReadReturnsSector` | a failed data stage is forgotten |
| `ui` | `StackOK`, `CacheFresh`, `ScreensLive`, `DestroysOnlyConfirmed` | every order of keys, clicks and repaints, with failing reads and operations: no modal or editor outlives what it acts on, a reusable row list is the table's or what a failed read falls back to, what is lost is what was confirmed |
| `ui_click` *(violation)* | `OverwriteWarned` | events handled before a repaint overwrite a drive unasked |
| `disks` | `TypeOK`, `StoreOnBootedDisk`, `InstalledBoots`, `PassFindsSticks` | discovery, enumeration and installation with hot-plugging, one failing call, late IDE answers and a power cut |

Every property of a passing run has a mutant in `PROJECT.json`: a plausible bug
in a mapped definition under which TLC finds the property violated.

### Bounds

* `journal`: pages 0, 1, 2 of two sectors, two contents, journal of two pages.
  Two sectors are what a torn page needs; three pages give a transaction that
  fits, one that overlaps it in page 0 only, and one too large. Power cuts
  are unbounded.
* `journal_io`: two pages and at most two device errors: one to leave the
  protocol, one to hit what runs afterwards.
* `relational`: two table names, two columns in all, two types, one foreign key
  per table, two row slots in all: one table with two columns of different or
  equal type, or two tables with one each; self references, mutual references,
  renames across tables and moved cells all occur. Table names, column names and
  tokens are symmetric (nothing orders them, no CHOOSE over them). Column
  widths have one value here: nothing else depends on them.
* `page_store`: seven data pages, six journal pages, blobs of one or two pages:
  both limits are hit in the middle of operations.
* `input`: ring of three slots, three inputs, one lost byte, 2x2 screen: the
  ring fills while the main thread is preempted; the packets include a
  displacement that looks like a first byte and an overflow.
* `usb`: two sectors, two contents, tags up to 4 (two gated writes or four other
  calls), one fault among bus error, failed or stalled command, exchanged disk and
  halted mouse. The device keeps its deadlines (`SlowDevice = FALSE`). After a fault calls
  do leave TRBs behind on the IN ring even so, and the completions of later calls run
  one behind. Without
  these two restrictions `NoLateEffect` and `WriteIsOnMedium` fail: with two bus errors in one write the driver
  gives up without resetting the device, which may take the data of the
  next write for the one it waits for; a device slower than two seconds
  takes a queued TRB whose buffer has been freed. The code makes no
  claim about either, so they are recorded here and not as findings.
* `ui`: an empty volume, or one table: a column with two rows, a key column whose row
  refers to itself, or two columns and no rows; one drive; four screens (the list, a
  table, and a record, schema, editor or table reached from it, with one dialogue or
  builder over it; every chain of dialogues from a table fits); one
  transaction after boot, which is what separates a screen from the state it was
  opened on. Deeper stacks, such as a deletion below a Row View of the same row, are
  left to the theorems, which bound nothing.
* `disks`: an IDE disk, two sticks (one enables its port itself), two ports, three
  device slots, prefixes of one and two chunks; booted from the IDE disk, from a
  stick beside another system's IDE disk, or from a stick without IDE. One
  failing call and two interventions of the user: an exchange of sticks, or a
  power cut and a move. Three slots let
  two sticks be addressed and the slots run out. `fatal` halts, so deadlock is not
  checked. With two failing calls `StoreOnBootedDisk` no longer holds (see
  Findings, *Installer*). A command of the enumeration that timed out has failed for
  good: that its completion may come later, where `drain_for_command_completion`
  (`xhci.rs:1168`) takes it for the next command's, is not modelled.

### Fairness

* `Journal!FairSpec`: a commit or mount that has begun is carried on (one
  thread, `BlockDevice` calls return). Beginning a commit is the user's choice;
  `ReturnsToIdle` excepts behaviours in which power fails for ever.
* `Input`: weak fairness of the main thread, of the timer (a free-running PIT)
  and of a pending keyboard or mouse interrupt; devices send what they like.
* `UsbStorage`: weak fairness of the running call (every wait is a polling
  loop with a deadline), of the device for what it is able to do, and of the
  mouse poll (`ui::run` calls it on every turn).
* `Ui` and `Disks` state safety only.

## Findings

1. `journal.rs:213`: after a device error past the commit point the next commit
   overwrites a journal that the medium still calls COMMITTED; a power cut then
   recovers pages mixed from two transactions (`journal_io_torn`). Already before
   the power cut the running system serves a mixture: `tx` (`store.rs:293`)
   drops the staged pages although some home pages are new, and the clean-page
   cache, documented as equal to the home pages (`pager.rs:82`), differs from them.
2. `store.rs:298`: `let _ = self.pager.rollback()` ignores a failed read of
   page 0; the allocator keeps the failed operation's free list and hands out a
   live page (`page_store_rollback`).
3. `xhci.rs:2608`: `msc_command` forgets a failed data stage and ignores the
   residue, so `read_sector` can return zeroes with Ok (`usb_read`).
4. `ui.rs:2450`: a click is resolved in the frame painted last and applied to the
  screen on top now, and keys go to screens not painted yet. Key `n` scans the USB bus for
  seconds while events queue; two clicks or two Enters pick a drive and confirm its
  overwriting before the picker or the warning was painted (`ui_click`).

Met while modelling, without a run of their own:

* *UI, clicks before a repaint.* For the reason of finding 4 a click on a line of an
  older, longer list can select past the end of a `Pick`, whose handler indexes its options
  without clamping (`ui.rs:1621`): the kernel panics. The model takes that step
  (`power = "panic"`), and no property says that it does not.
* *UI, failed reads.* `scan(..).unwrap_or_default()` (`ui.rs:2318`) turns a failed
  read into an empty list, without a message, and `cached_rows` keeps it until a commit or
  another list, also when the volume can be read again, although `UI.md:184` says "The
  user is never blocked from reading the data behind an error." The reference-column
  screen starts from an empty order when the table could not be read (`ui.rs:1127`), and a
  Row Editor whose row could not be read opens blank over it (`ui.rs:1840`).
* *UI, others.* Dropping a foreign key asks for no confirmation (`ui.rs:1782`) although
  `UI.md:181` lists it; the confirmation says "default: cancel" (`ui.rs:3351`) but Enter
  confirms; a Browser keeps a filter on a column that was renamed or dropped and then
  shows all rows; the reference-column screen keeps an order the store refused.
* *Installer.* The prefix is always read from the primary IDE master
  (`install.rs:181`), whatever disk was booted, so an installation from a booted
  stick copies another disk's prefix or fails (`InstalledBoots` is therefore
  stated for systems that run from the IDE disk). Only sector 0 and the volume are
  verified. The size check admits a volume of `FIRST_DATA_PAGE + 1` pages, which
  `Pager::format` refuses (`<=`) after the prefix was copied. The
  booted stick is kept out of the targets by the GUID in its sector 0, read once for
  the list (`xhci.rs:2891`) and once before writing (`install.rs:105`), and a failed read counts as another
  disk: when both fail it is offered and overwritten, although `UI.md:209` says "The
  booted disk is never touched".
* *Write test.* `run_write_test` does not restore the sector when reading it back
  fails (`xhci.rs:3586`), although its comment says it does.
* *Enumeration.* "Each step is idempotent" (`xhci.rs:2923`) does not hold for the
  port scan: every pass takes a device slot per connected stick and none is
  given back. A stick whose device descriptor did not come is not asked again
  until it is plugged in anew. When only the second transfer of a configuration fails
  (`xhci.rs:1811`), its 9-byte header is kept as a configuration without interfaces, which no
  later pass fetches again (`xhci.rs:1755`) or configures (`xhci.rs:2040`): the stick is not
  offered until it is plugged in anew, although `UI.md:200` says "every **non-booted**
  USB mass-storage drive is offered as a target". These are the exceptions in
  `PassFindsSticks`.
* *PS/2.* `init_mouse` reads the controller's configuration from the data port; a
  key pressed just then puts its scan code there (`ps2.rs:258`).

## Proofs

### Journal

`JournalProofs` proves, for every set of pages, sectors per page, contents,
journal size and set of write-sets (`JournalAssumption`: the journal has a page,
and no write-set names a page twice, which `Pager::commit` guarantees by
construction):

* `JournalInvariant`: `Spec => []JournalInv`;
* `TypeCorrect`, `NoTornCommitHolds` (a COMMITTED medium carries a matching entry
  array), `ServesRecoveredHolds` from it;
* `JournalImplementsAtomicStore`: `Spec => Abstract!Spec`.

*The invariant.* `NoTornCommit` is not inductive: that a COMMITTED medium has a
matching entry array depends on what the flush before the flip guaranteed, and
that recovery is idempotent depends on the home pages outside the write-set.
`JournalInv` therefore says for each stretch between two flushes what the medium
and the cache agree on: `SyncInv` (equal right after a flush), `QuietInv` (only
the journal region may differ while images are staged), `FlipInv` (only the
control area differs while COMMITTED is on its way), `InstallInv` (control area and
images are on the medium, home pages differ inside the write-set only),
`ReleaseInv` (all home pages are in place), `DownInv` (a COMMITTED medium holds a
whole, distinct write-set). There is one lemma per action; `Destage` is
reduced to lemmas about one sector. TLC checks `JournalInv` in `journal` first.

*The refinement.* The abstract content is `Recovered(dur)`, what a mount would
find. The commit point is thus not a step of the program but the device's write-back of the
head sector, or the flush if it comes first; `RecoverableLemma` shows that all
other write-backs leave `Recovered(dur)` unchanged, and `RefinesDevice` that this one
is `Apply`.

### Journal with failing device calls

`JournalIoProofs` proves, under the same assumption and for any number of device
errors, `IoInvariant` (`IoSpec => []IoInv`), `FailuresRecoverable` and
`EarlyFailuresRollBack`.

After a failed call the program counter no longer tells what is on the disk:
the system may be idle with a half-written control area, a COMMITTED journal or
half-installed home pages. So `IoInv` speaks of the *pair* of medium and write
cache: `Clean` (no COMMITTED head on either), `FlipOut` (the COMMITTED head is
on its way over a staged journal), `Redoable` (the journal on the medium gives
the new pages whatever the home pages of the write-set hold), `ReleaseOut` (the
journal is being emptied over pages that are in place). A running step pins
one of them; a failed one leaves the disjunction `Left`, a power cut
`Interrupted`. What makes partial installs harmless is an equation about
`Overlay`: laying the write-set over pages that are partly installed gives what
laying it over the old pages gives. `EarlyInv` and `CacheInv` add that after a
failure before the flip the home pages and the pager's cache are the old ones. All
of it holds until a commit is begun over an unrecovered failure (`tainted`),
from where finding 1 takes over.

### Relational engine

`RelationalProofs` proves, for all sets of names, types and values and all
bounds (`RelationalAssumption`: NULL is no value, some width exists):
`RelationalInvariant`, `TypeCorrect`, `SchemasSound`, `RowsAlwaysFit`,
`UniqueAlways`, `ReferentialIntegrity`, `NavigationAlways` and the action
property `EditsAlwaysKeepCells`.

`RelationalInv` is the conjunction of the invariants the run checks. None of them is
inductive alone: `RefIntegrity` after an `update` needs that the referenced
column is UNIQUE (`SchemaSound`), that cells have their column's type needs that
positions and columns move together (`RowsFit`), `Navigable` follows from
`SchemaSound`. The invariant is restated table by table (`Sound`) and key by key
(`KeyOk`), so that an action on one table leaves the others to congruence, and
there is one lemma per action. `LeastNumber` (the key name picked by `add_fk`) is
shown to exist by a smallest counterexample.

### Input

`InputProofs` proves, for every ring size, screen size, set of keystrokes, packets
and reports and any number of lost bytes (`InputAssumption`): `InputInvariant`,
`TypeCorrect`, `NeverSpins`, `KeysDecoded`, `NoClickFromNothing` and
`RingAlwaysQueue` (every step of the ring with its two indices is a step of a
bounded queue).

`InputInv == TypeOK /\ LockDiscipline /\ KeyInv /\ PacketInv /\ ClickInv`.
`LockDiscipline` ties the locks held to the program counter and to the interrupt flag,
which is why no handler finds a lock taken. `KeyInv` says how
far the decoder is within the bytes still on the wire. `PacketInv` says what part
of a packet the wire still holds: without a lost byte the decoder is in step with
it, and after one it only starts at a byte with bit 3. `ClickInv` counts the
presses still *owed* (between the report last applied, the packet being put together
and the last one sent): clicks seen plus presses owed never exceed the presses made.

### USB storage and mouse

`UsbProofs` proves about `UsbStorage`, for every partition, all contents and any number
of calls (`UsbAssumption`: sector 0 is not in the partition, contents are told apart
from the GUIDs):

* `MouseInvariant`, `NeverTwoMouseTransfers`, `UsbTypeOK`: for any number of faults
  and any device speed;
* `WriteLands`: `[](faults <= 1 => WriteIsOnMedium)`, for any `MaxFaults`, while the
  device keeps the deadline (`~SlowDevice`);
* `OnlyRunningWriteLands` (`NoLateEffect`) and `GateHolds` (`OnlyBootDiskWritten`)
  under `~SlowDevice` and `MaxFaults <= 1`. The leftovers these allow are TRBs on the
  IN ring of a call that gave up after a fault (`Late` below); that a slow device uses a TRB
  of the OUT ring late is excluded, and `WriteIsOnMedium` and `NoLateEffect` are
  false then, as they are after two faults (see Bounds);
* `CallsSucceed` (`SucceedsWithoutFault`) under `~SlowDevice`: until the first fault
  no call fails and every read returns its sector, so the wrong sector of
  `usb_read` takes a bus error.

*The mouse.* Seen from the mouse, every step of `UsbStorage`
is one of five kinds: a storage event arrives, is consumed, all events are
drained, the mouse acts, or nothing happens to it. `MouseInv` adds to
`OneMouseTransfer` that a queued transfer and its event exclude each other and that
`needs_reset` implies that the endpoint is halted: without the latter the driver could
reset a running endpoint and arm it twice.

*Types and the gate.* `UsbTypes /\ RunInv` holds without restrictions: one lemma per
building block of the driver (`Launch`, `Return`, `Succeed`, `Fail`, `Proceed`, `Reset`,
`Execute`) and per device step says what it does, and the steps follow from these.
`RunInv` says that a running call has a command, that the data phase of the device is
that of its command, and that behind the gate the GUID in a running call's buffer is the attached
disk's: this is what `verify_identity` relies on.

*Writes.* That a status belongs to the write it is taken for cannot be seen from one
piece of state: it depends on what earlier calls left on the two rings and in the device.
`Where` lists the positions of call, device, both rings, the event ring and the data
toggles: `InSync` (the eight of a command without trouble), `Halted` (the host
does not know of the error yet), `OutReset` (a command may have been dropped as a
repetition), `DataLost` (the device waits for data while the driver repeats the command),
`InReset`, `Late` (a call that timed out left its TRB on the IN ring, so that
every later completion is one ahead of the call that waits for it), `Stuck` and
stalled. `Current` adds that the device works for the running call; `Unhurt` and
`OnTrack` that before the first fault the status lands in the running command's
buffer, so that `CswGood` can not be false and no retry begins without a fault.
`Landed` is the claim made inductive: a write that the device, or the status wrapper in the
buffer, calls passed is on the medium. One lemma per action takes each position to
another; `faults <= 1` is needed because a second fault in one of the positions
after the first leads to positions in which the device takes the next call's data for
this one's.

*Calls without a fault.* Before the first fault the only position is `InSync`, and there
none of the failing steps is possible (`NothingFails`): no stage is answered with an
error, the device does not stall, and no deadline passes while it still has work.
`Quiet` makes the claim inductive: the stick still carries the booted GUID, a call let
through by the gate has the partition's sector (`Gated`), and a read past its data phase
has its sector in the buffer (`Fetched`).

### User interface

`UiProofs` proves, for every volume that satisfies the invariants of `Relational`,
every set of names, types, values and drives, any part counts of the builders and
any bounds on transactions and stack (`UiAssumption`):

* `UiInvariant`: `UiSpec => []UiInv`;
* `StackAlwaysOK`, `CacheAlwaysFresh`, `ScreensAlwaysLive` and the action property
  `DestructionConfirmed`, whatever reads fail and whatever is handled before a
  repaint, clicks included.

`CacheAlwaysFresh` says of an entry whose reads failed only that it is what the code
falls back to (Findings, *UI*). `ScreensAlwaysLive` does not say that the row of a Row View or
the column of a Browser's filter exists: both may be gone, and the handlers look them
up again. `DestructionConfirmed` leaves foreign keys aside (Findings, *UI*).

*The invariant.* `ScreensLive` is not inductive: what a modal names survives only
because nothing that lies above it can change the store in between, so the
invariant has to say which screen may lie on which. `StackInv` does: the list at the
bottom, above it base screens (Browser, Row View, Schema, label editor) that name a
table, and on top at most one modal, or one of three pairs (a builder or picker on the
editor it writes into, the warning on the list of drives, the xHCI panel on the
PCI one). A store operation is called from a modal or a base screen on top, after
which only base screens are left; dropping a table pops to the list. This needs nothing
of the frame a click was resolved in: the cursor it sets may lie past the end of any list,
and every handler but `key_pick`'s clamps or checks it (that one's panic ends the run). A confirmation to delete a row carries the row
under the cursor of the Browser below it in the row cache, whose key is still that
Browser's: so `StackInv` depends on the database, the cache and the generation.
`RestOk` adds that the database is `Good` (`RelationalProofs`), and that an entry of the
row cache is no newer than the store and, if it has the store's generation, is
what `rows` gives now or what it falls back to.

*The argument.* One lemma per key handler from `Handles` (the invariant, power
on) to `After` (the invariant in the next state) and, for all but the confirmation's,
`Harmless`: nothing is lost, so `Destroys` cannot hold. `KeyConfirm` alone has to
show that what is lost is what the confirmation names; `DropColumnCall` needs for
this that column names differ. `RowsListed` shows that `rows`, defined by ranks, lists
every row the filter admits exactly once for any order that `Before` can be. A click is
`CursorSet` followed by the key's lemma; it never turns another screen into a
confirmation.

### Boot disk, enumeration and installer

`DisksProofs` proves, for any sets of disks and images, any numbers of ports, slots
and chunks, any number of plugs, pulls and power cuts and any number of failing calls
(`DisksAssumption`; `StartAssumption`: a stick is in one port, and no two disks
start with the same GUID, which nothing in the code could tell apart):

* `DisksInvariant`: `Spec => []IInv`, and from it `DisksTypeOK`;
* `UndisturbedPassFindsSticks`: a pass of the pipeline that no fault and no hand
  disturbs shows every stick, but for three exceptions (Findings,
  *Enumeration*): no slot is left, or an earlier pass lost the stick's device
  descriptor or the second part of its configuration;
* `ReportedInstallBoots`: an installation reported as OK, on a system that runs from
  the IDE disk, left a stick that boots under a GUID of its own, whatever failed before;
* `MountIsBootedDisk`: what answers the mounted store is the disk the firmware
  booted, however many calls fail;
* `StoreStaysOnBootedDisk`: until a second call fails (`faults <= 1`, for any
  `MaxFaults`), that disk also still carries the captured GUID. With
  two failed calls this is false (Findings, *Installer*).

*The invariant* has layers, each of which needs only the ones before it:

1. `Usb == UsbType /\ OwnerInv /\ CountInv`: a slot addresses the device of one port,
   a port has one slot, and a slot number is reported and addressed once. Hence a slot keeps its
   device or loses it and never gets another (`Steady`), which is
   what lets a slot chosen from a list still mean the same stick when it is written.
2. `Thread == DiskType /\ ThreadType /\ FlowInv`: where the main thread is, why the
   pipeline runs, how far a copy has got.
3. `Identity`: no two disks carry one GUID (`UniqueGuids`), and therefore whoever
   shows the captured GUID is the boot disk (`BootInv`); the GUID of a running
   installation is new until sector 0 is written (`NewGuidInv`), without
   which `UniqueGuids` is not inductive; slots that are remembered were addressed (`SlotInv`); the chunks
   copied so far are the IDE disk's (`CopyInv`, `InstallInv`). `CopyInv` has to
   allow for the late answer of an IDE command given up on: it can be taken for sector 0
   only, which is then blank, and the final check of sector 0 refuses it.
4. `PassInv`: what a pass that nothing disturbs has reached, step by step.

One lemma per action shows `Keeps`, all four layers of the next state. `Reboot` alone
is not `Steady`: it starts the layers afresh from the disks as they are.
`StoreStaysOnBootedDisk` adds `KeepInv`: whoever takes the boot disk for a target has
already met a failing call, because the list leaves out a stick whose sector
0 shows the captured GUID; so `refuse_if_same_disk` does read its sector 0, and refuses.

### Only model-checked

* Liveness (`ReturnsToIdle`, `EventsHandled`, `CallsReturn`, `MouseRecovers`): TLAPS
  does not treat fairness.
* `PageStore`: an operation is a fold of page steps over chains that RECURSIVE operators
  walk, and what these return for a chain of any length is an induction over data.
* The properties of `UsbStorage` beyond one fault or with a slow device: `NoLateEffect` and
  `WriteIsOnMedium` are false there, and for `OnlyBootDiskWritten` nothing is claimed.
* That `Works`, the guard of `Timeout`, is `ENABLED Device`: TLAPS does not treat
  ENABLED. It says for each endpoint in which states the device acts on a queued TRB.

## Not modelled

Pixels, fonts, PNG decoding and the boot loader hold no protocol state. Value
parsing, formatting and big numbers are recursive functions on digit strings.
ACPI, PCI, RTC, serial and GDT are straight-line register accesses. The image
builder and the seed are sequences of `Relational` operations and file writes.
The one-time PS/2 handshake is left out: the code never reads back what the
controller made of it. Of the xHCI driver, ring indices, cycle bits and link TRBs
and a second controller (which would share the first one's global state) are
left out; of ATA, the single register accesses of a command. Exhaustion of
the kernel heap panics and is not modelled.

## Plan

1. TRB rings with index, cycle bit and link TRB against the queue that
   `UsbStorage` uses (refinement).
2. Values: codec round trip and ordering on bounded inputs.
