----------------------------- MODULE UsbStorage -----------------------------
(***************************************************************************)
(* The polled USB mass-storage path of kernel/src/usb/xhci.rs: msc_command *)
(* (Bulk-Only Transport: command wrapper, data, status wrapper), the bulk  *)
(* transfers under it, the one event ring it shares with the HID mouse,    *)
(* endpoint recovery, and the sector calls of UsbMscDevice on top, with    *)
(* the identity gate that precedes every write.                            *)
(*                                                                         *)
(* Host, controller and device are three actors.  A transfer ring is the   *)
(* sequence of TRBs the controller has not executed yet; the event ring is *)
(* the sequence of events the host has not consumed yet (TRB indices and   *)
(* cycle bits are abstracted to these queues).  Controller and device      *)
(* steps are external: a bulk endpoint executes its TRBs in order, a       *)
(* transaction error or a stall halts it, a device that is not ready for a *)
(* direction makes the controller wait.                                    *)
(*                                                                         *)
(* A DMA buffer is freed when its command returns, also while a TRB that   *)
(* names it is still queued.  The controller then reads or writes memory   *)
(* that may belong to the next command by then: a free choice.             *)
(***************************************************************************)
EXTENDS Integers, Sequences, FiniteSets

CONSTANTS
    Lba,           \* the sectors of the store's partition
    Datum,         \* what a sector holds
    MaxTag,        \* bound: no call starts once this tag is used
    MaxFaults,     \* bound: bus errors, failed commands, exchanged disks
    SlowDevice     \* the device may answer after the host's deadline

ASSUME UsbAssumption ==
    /\ Lba \subseteq Nat \ {0}
    /\ Datum \subseteq 1 .. 99
    /\ MaxTag \in Nat
    /\ MaxFaults \in Nat
    /\ SlowDevice \in BOOLEAN

VARIABLES
    host,      \* msc_command and the call above it
    buf,       \* the DMA buffers of the running msc_command
    ep,        \* bulk endpoints: queued TRBs, halted, reset on one side only
    events,    \* the event ring
    dev,       \* the storage device
    medium,    \* its sectors
    mouse,     \* MouseDevice
    faults     \* faults so far

vars == <<host, buf, ep, events, dev, medium, mouse, faults>>

\* What a buffer may hold besides sectors: the zeroes it is allocated with, a
\* status wrapper, and the sector 0 of either disk with its system GUID.
Zeroed      == 0
StatusBytes == -1
BootGuid    == 100
OtherGuid   == 101

NoWrite == [lba |-> 0, val |-> 0]

\* The endpoint of the data stage.
DataEp(op) == IF op = "read" THEN "in" ELSE "out"

\* The TRB for a stage of the running msc_command, queued on its endpoint.
Posted(eps, e, stage, h) ==
    [eps EXCEPT ![e].q = Append(@, [stage |-> stage, call |-> h.call, run |-> h.run])]

\* Mutant: completions of the mouse are not told from those of the disk.
IsStorageAny(v) == v.slot \in {"msc", "mouse"}

\* is_mouse_slot is false.
IsStorage(v) == v.slot = "msc"

\* service_mouse for every mouse completion among the given events: a report
\* is accumulated, a halted endpoint is left to the next poll.
service_mouse(evs) ==
    LET codes == {evs[i].cc : i \in {j \in DOMAIN evs : ~IsStorage(evs[j])}} IN
    [mouse EXCEPT !.armed       = @ /\ codes = {},
                  !.dirty       = @ \/ "ok" \in codes,
                  !.needs_reset = @ \/ "error" \in codes]
-----------------------------------------------------------------------------
(* The event ring, seen by drain_event *)

\* is_mouse_slot: mouse completions are serviced inline and skipped.
SkipMouse ==
    /\ host.pc # "idle"
    /\ events # <<>>
    /\ ~IsStorage(Head(events))
    /\ events' = Tail(events)
    /\ mouse' = service_mouse(<<Head(events)>>)
    /\ UNCHANGED <<host, buf, ep, dev, medium, faults>>

\* drain_event returns the next transfer event: it looks at neither the TRB
\* nor the endpoint that the event is about.
Completed(stage, ccs) ==
    /\ host.pc = stage
    /\ events # <<>>
    /\ IsStorage(Head(events))
    /\ Head(events).cc \in ccs
    /\ UNCHANGED <<dev, medium, faults>>

Consumed == events' = Tail(events) /\ UNCHANGED mouse

\* Waiting for a command completion, as reset_endpoint does, drops the
\* transfer events that come first.
Drained ==
    /\ events' = <<>>
    /\ mouse' = service_mouse(events)

\* Mutant: the ring is not repointed past the TRBs of the failed transfer.
ResetInPlace(e) == [ep EXCEPT ![e].halted = FALSE, ![e].skewed = TRUE]

\* reset_bulk_endpoint: the TRBs of a halted endpoint are dropped; when it is
\* not halted both commands fail and nothing changes.  The reset restarts the
\* controller's data toggle, and nobody tells the device.
Reset(e) == IF ep[e].halted THEN [ep EXCEPT ![e] = [q |-> <<>>, halted |-> FALSE, skewed |-> TRUE]]
            ELSE ep
-----------------------------------------------------------------------------
(* Sector calls *)

\* msc_command starts: zeroed buffers, then the command wrapper.
Launch(h, eps) ==
    LET run == [h EXCEPT !.pc = "cbw", !.run = @ + 1, !.csw_tries = 0] IN
    /\ host' = run
    /\ buf' = [data |-> Zeroed, csw |-> <<>>]
    /\ ep' = Posted(eps, "out", "cbw", run)

\* read_sector and flush.
Call(op, lba) ==
    /\ host.pc = "idle"
    /\ host.call.tag < MaxTag
    /\ ~host.poisoned
    /\ Launch([host EXCEPT !.attempt = 1, !.result = "none",
                           !.call = [op |-> op, lba |-> lba, val |-> 0, tag |-> @.tag + 1]],
              ep)
    /\ UNCHANGED <<events, dev, medium, mouse, faults>>

\* The WRITE(10) command for w.
WriteCommand(h, w) ==
    [h EXCEPT !.attempt = 1, !.result = "none", !.write = NoWrite,
              !.call = [op |-> "write", lba |-> w.lba, val |-> w.val, tag |-> @.tag + 1]]

\* write_sector: behind the gate, sector 0 is read first.
write_sector(lba, val) ==
    /\ host.pc = "idle"
    /\ host.call.tag < MaxTag
    /\ ~host.poisoned
    /\ LET w == [lba |-> lba, val |-> val] IN
       IF host.identity_gate
       THEN Launch([host EXCEPT !.attempt = 1, !.result = "none", !.write = w,
                                !.call = [op |-> "read", lba |-> 0, val |-> 0, tag |-> @.tag + 1]],
                   ep)
       ELSE Launch(WriteCommand(host, w), ep)
    /\ UNCHANGED <<events, dev, medium, mouse, faults>>

\* The call returns; its buffers are freed.
Return(h, result, eps) ==
    /\ host' = [h EXCEPT !.pc = "idle", !.result = result, !.write = NoWrite]
    /\ ep' = eps
    /\ UNCHANGED buf

\* Mutant: an unreadable GUID is not told from the right one.
verify_identityLoose == buf.data # OtherGuid \/ buf.data # BootGuid

\* Sector 0 was read: does it still carry the GUID captured at boot?
verify_identity == buf.data = BootGuid

\* msc_command succeeded.  The gate's read is followed by the write, or
\* poisons the device.
Succeed(eps) ==
    IF host.write = NoWrite THEN Return(host, "ok", eps)
    ELSE IF verify_identity THEN Launch(WriteCommand(host, host.write), eps)
    ELSE Return([host EXCEPT !.poisoned = TRUE], "error", eps)

\* msc_command failed: msc_write_sector tries once more with the same tag,
\* flush reports success all the same, the gate's read poisons the device.
Fail(eps) ==
    IF host.call.op = "write" /\ host.attempt = 1
    THEN Launch([host EXCEPT !.attempt = 2], eps)
    ELSE Return([host EXCEPT !.poisoned = @ \/ host.write # NoWrite],
                IF host.call.op = "sync" THEN "ok" ELSE "error", eps)

\* bulk_transfer for the next stage.
Proceed(stage, e, eps) ==
    /\ host' = [host EXCEPT !.pc = stage]
    /\ ep' = Posted(eps, e, stage, host)
    /\ UNCHANGED buf

CbwSent ==
    /\ Completed("cbw", {"ok"})
    /\ Consumed
    /\ IF host.call.op = "sync" THEN Proceed("csw", "in", ep)
       ELSE Proceed("data", DataEp(host.call.op), ep)

CbwFailed ==
    /\ Completed("cbw", {"short", "error"})
    /\ Drained
    /\ Fail(Reset("out"))

DataMoved ==
    /\ Completed("data", {"ok", "short"})
    /\ Consumed
    /\ Proceed("csw", "in", ep)

DataFailed ==
    /\ Completed("data", {"error"})
    /\ Drained
    /\ Proceed("csw", "in", Reset(DataEp(host.call.op)))

\* Mutant: the status byte is not looked at.
CswGoodAny == buf.csw # <<>> /\ buf.csw[1] = host.call.tag

\* The status wrapper: signature, tag and status; residue is not looked at.
CswGood == buf.csw # <<>> /\ buf.csw = <<host.call.tag, "passed">>

CswRead ==
    /\ Completed("csw", {"ok", "short"})
    /\ Consumed
    /\ IF CswGood THEN Succeed(ep) ELSE Fail(ep)

\* Mutant: the retries are not counted.
CswFailedForever ==
    /\ Completed("csw", {"error"})
    /\ Drained
    /\ ep' = Posted(Reset("in"), "in", "csw", host)
    /\ UNCHANGED <<host, buf>>

\* Mutant: one retry more.
CswFailedTwice ==
    /\ Completed("csw", {"error"})
    /\ Drained
    /\ IF host.csw_tries < 2
       THEN /\ host' = [host EXCEPT !.csw_tries = @ + 1]
            /\ ep' = Posted(Reset("in"), "in", "csw", host)
            /\ UNCHANGED buf
       ELSE Fail(Reset("in"))

CswFailed ==
    /\ Completed("csw", {"error"})
    /\ Drained
    /\ IF host.csw_tries = 0
       THEN /\ host' = [host EXCEPT !.csw_tries = 1]
            /\ ep' = Posted(Reset("in"), "in", "csw", host)
            /\ UNCHANGED buf
       ELSE Fail(Reset("in"))
-----------------------------------------------------------------------------
(* The controller and the device (external) *)

\* The memory a TRB names: its own buffer, or, when that has been freed, what
\* the next command put there.
Memory(t) == IF t.run = host.run THEN {t.call} ELSE {t.call, host.call}

\* What the buffer of the given stage holds once the TRB has written v to it.
Written(t, stage, v) ==
    {[buf EXCEPT ![stage] = v]} \cup (IF t.run = host.run THEN {} ELSE {buf})

\* The first TRB of endpoint e is executed.
Execute(e, cc) ==
    /\ events' = Append(events, [slot |-> "msc", cc |-> cc])
    /\ ep' = [ep EXCEPT ![e] = [q |-> IF cc = "error" THEN @.q ELSE Tail(@.q),
                                halted |-> cc = "error", skewed |-> FALSE]]
    /\ UNCHANGED <<host, mouse>>

Ready(e) == ~ep[e].halted /\ ep[e].q # <<>>

\* A command wrapper starts a command, with the outcome the device will
\* report.
TakesCommand ==
    /\ Ready("out")
    /\ dev.state = "ready"
    /\ Head(ep["out"].q).stage = "cbw"
    /\ \E c \in Memory(Head(ep["out"].q)) :
         dev' = [state |-> CASE c.op = "read" -> "in" [] c.op = "write" -> "out"
                             [] OTHER -> "status",
                 call |-> c, status |-> "passed", guid |-> dev.guid]
    /\ Execute("out", "ok")
    /\ UNCHANGED <<buf, medium, faults>>

\* A data packet where a command wrapper is due: the device stalls until it is
\* reset, which the driver never does.
RejectsCommand ==
    /\ Ready("out")
    /\ dev.state = "ready"
    /\ Head(ep["out"].q).stage = "data"
    /\ dev' = [dev EXCEPT !.state = "stalled"]
    /\ Execute("out", "error")
    /\ UNCHANGED <<buf, medium, faults>>

\* The data of a write; a command wrapper in its place is short data.
TakesData ==
    /\ Ready("out")
    /\ dev.state = "out"
    /\ IF Head(ep["out"].q).stage = "data"
       THEN /\ \E c \in Memory(Head(ep["out"].q)) :
                 medium' = IF dev.status = "failed" THEN medium
                           ELSE [medium EXCEPT ![dev.call.lba] = c.val]
            /\ dev' = [dev EXCEPT !.state = "status"]
       ELSE /\ dev' = [dev EXCEPT !.state = "status", !.status = "failed"]
            /\ UNCHANGED medium
    /\ Execute("out", "ok")
    /\ UNCHANGED <<buf, faults>>

Sector(lba) == IF lba = 0 THEN dev.guid ELSE medium[lba]

\* The data of a read, cut short when the command fails; more than a status
\* TRB can take is a babble error, and the device keeps what it has to send.
SendsData ==
    /\ Ready("in")
    /\ dev.state = "in"
    /\ LET t == Head(ep["in"].q) IN
       \/ /\ dev.status = "failed"
          /\ Execute("in", "short")
          /\ dev' = [dev EXCEPT !.state = "status"]
          /\ UNCHANGED buf
       \/ /\ dev.status = "passed" /\ t.stage = "data"
          /\ Execute("in", "ok")
          /\ dev' = [dev EXCEPT !.state = "status"]
          /\ buf' \in Written(t, "data", Sector(dev.call.lba))
       \/ /\ dev.status = "passed" /\ t.stage = "csw"
          /\ Execute("in", "error")
          /\ UNCHANGED <<dev, buf>>
    /\ UNCHANGED <<medium, faults>>

\* The status wrapper; in a data TRB it is a short packet.
SendsStatus ==
    /\ Ready("in")
    /\ dev.state = "status"
    /\ dev' = [dev EXCEPT !.state = "ready"]
    /\ LET t == Head(ep["in"].q) IN
       IF t.stage = "csw"
       THEN buf' \in Written(t, "csw", <<dev.call.tag, dev.status>>) /\ Execute("in", "ok")
       ELSE buf' \in Written(t, "data", StatusBytes) /\ Execute("in", "short")
    /\ UNCHANGED <<medium, faults>>

\* After a reset the two sides may disagree on the data toggle: one packet
\* is acknowledged and dropped as a repetition of the one before.
TakenForRepetition ==
    \/ /\ Ready("in") /\ ep["in"].skewed
       /\ dev.state \in {"in", "status"}
       /\ dev' = [dev EXCEPT !.state = IF @ = "in" THEN "status" ELSE "ready"]
       /\ ep' = [ep EXCEPT !["in"].skewed = FALSE]
       /\ UNCHANGED <<host, buf, events, medium, mouse, faults>>
    \/ /\ Ready("out") /\ ep["out"].skewed
       /\ dev.state \in {"ready", "out"}
       /\ Execute("out", "ok")
       /\ UNCHANGED <<buf, dev, medium, faults>>

Stalls ==
    /\ dev.state = "stalled"
    /\ \E e \in {"in", "out"} : Ready(e) /\ Execute(e, "error")
    /\ UNCHANGED <<buf, dev, medium, faults>>

\* A transaction error on the bus: nothing is exchanged.
BusError ==
    /\ faults < MaxFaults
    /\ \E e \in {"in", "out"} : Ready(e) /\ Execute(e, "error")
    /\ faults' = faults + 1
    /\ UNCHANGED <<buf, dev, medium>>

\* The command fails in the device: no data is used or sent, and the status
\* says so, or the endpoints stall until they are cleared, which the driver
\* never does on the device.
CommandFails ==
    /\ faults < MaxFaults
    /\ dev.state \in {"in", "out", "status"}
    /\ dev.status = "passed"
    /\ dev.call.op = "write" => dev.state = "out"
    /\ \E st \in {dev.state, "stalled"} :
         dev' = [dev EXCEPT !.status = "failed", !.state = st]
    /\ faults' = faults + 1
    /\ UNCHANGED <<host, buf, ep, events, medium, mouse>>

\* Another disk answers at the slot.  Exchanging it takes far longer than a
\* sector call.
DiskExchanged ==
    /\ faults < MaxFaults
    /\ host.pc = "idle"
    /\ dev' = [dev EXCEPT !.state = "ready", !.guid = OtherGuid]
    /\ faults' = faults + 1
    /\ UNCHANGED <<host, buf, ep, events, medium, mouse>>

Device ==
    \/ TakesCommand \/ RejectsCommand \/ TakesData \/ SendsData \/ SendsStatus
    \/ TakenForRepetition \/ Stalls
-----------------------------------------------------------------------------
(* Time-outs and the mouse *)

\* The device has a TRB to work on: when a Device step is enabled.
Works ==
    \/ Ready("in") /\ dev.state \in {"in", "status", "stalled"}
    \/ Ready("out") /\ dev.state \in {"ready", "out", "stalled"}

\* drain_event gives up when the ring stays empty until the deadline: the TRB
\* stays queued, its buffer is freed.
Timeout ==
    /\ host.pc # "idle"
    /\ events = <<>>
    /\ SlowDevice \/ ~Works
    /\ Fail(ep)
    /\ UNCHANGED <<events, dev, medium, mouse, faults>>

\* The controller completes the mouse's transfer, or halts its endpoint.
MouseReports ==
    /\ mouse.trbs > 0
    /\ ~mouse.halted
    /\ \E cc \in {"ok"} \cup (IF faults < MaxFaults THEN {"error"} ELSE {}) :
         /\ events' = Append(events, [slot |-> "mouse", cc |-> cc])
         /\ mouse' = [mouse EXCEPT !.trbs = @ - 1, !.halted = cc = "error"]
         /\ faults' = IF cc = "error" THEN faults + 1 ELSE faults
    /\ UNCHANGED <<host, buf, ep, dev, medium>>

\* Mutant: the guard is dropped.
arm_mouseAlways(m) == [m EXCEPT !.armed = TRUE, !.trbs = @ + 1]

\* arm_mouse
arm_mouse(m) == IF m.armed THEN m ELSE [m EXCEPT !.armed = TRUE, !.trbs = @ + 1]

\* Mutant: armed survives the reset that drops the transfer.
RecoveredArmed(m) == [m EXCEPT !.needs_reset = FALSE, !.halted = FALSE,
                               !.trbs = IF m.halted THEN 0 ELSE @]

\* The mouse's part of reset_bulk_endpoint in poll_mouse_delta.
Recovered(m) == [m EXCEPT !.needs_reset = FALSE, !.armed = FALSE, !.halted = FALSE,
                          !.trbs = IF m.halted THEN 0 ELSE @]

\* poll_mouse_delta: an endpoint that was found halted before this poll is
\* reset, every event is consumed, a transfer is armed, and what has been
\* accumulated is taken.
poll_mouse_delta ==
    /\ host.pc = "idle"
    /\ events' = <<>>
    /\ LET m == service_mouse(events) IN
       mouse' = [arm_mouse(IF mouse.needs_reset THEN Recovered(m) ELSE m) EXCEPT !.dirty = FALSE]
    /\ UNCHANGED <<host, buf, ep, dev, medium, faults>>

Init ==
    /\ \E gate \in BOOLEAN :      \* open_with_identity_gate, or open
       host = [pc |-> "idle", run |-> 0, attempt |-> 0, csw_tries |-> 0, result |-> "none",
               write |-> NoWrite, identity_gate |-> gate, poisoned |-> FALSE,
               call |-> [op |-> "none", lba |-> 0, val |-> 0, tag |-> 0]]
    /\ buf = [data |-> Zeroed, csw |-> <<>>]
    /\ ep = [e \in {"in", "out"} |-> [q |-> <<>>, halted |-> FALSE, skewed |-> FALSE]]
    /\ events = <<>>
    /\ dev = [state |-> "ready", call |-> host.call, status |-> "passed", guid |-> BootGuid]
    /\ medium \in [Lba -> Datum]
    /\ mouse = [armed |-> FALSE, trbs |-> 0, halted |-> FALSE, needs_reset |-> FALSE,
                dirty |-> FALSE]
    /\ faults = 0

Host ==
    \/ CbwSent \/ CbwFailed \/ DataMoved \/ DataFailed \/ CswRead \/ CswFailed
    \/ SkipMouse \/ Timeout

Calls ==
    \E lba \in Lba :
        \/ Call("read", lba)
        \/ \E v \in Datum : write_sector(lba, v)
        \/ Call("sync", lba)

Next ==
    \/ Calls \/ Host \/ poll_mouse_delta
    \/ Device \/ BusError \/ CommandFails \/ DiskExchanged \/ MouseReports

\* A call that has begun runs on (polling loops with a deadline), the device
\* works on what it can, and ui::run polls the mouse whenever no call runs.
Spec ==
    /\ Init /\ [][Next]_vars
    /\ WF_vars(Host) /\ WF_vars(Device) /\ WF_vars(poll_mouse_delta)
-----------------------------------------------------------------------------
(* Properties *)

\* Types: a running call has a command on the way, a bulk ring holds at most
\* the TRBs of the stages, and the mouse's ring one.
TypeOK ==
    /\ host.pc \in {"idle", "cbw", "data", "csw"}
    /\ host.call.lba \in Lba \cup {0} /\ host.call.val \in Datum \cup {0}
    /\ host.attempt \in 0 .. 2 /\ host.csw_tries \in 0 .. 1
    /\ host.result \in {"none", "ok", "error"} /\ host.poisoned \in BOOLEAN
    /\ buf.data \in Datum \cup {Zeroed, StatusBytes, BootGuid, OtherGuid}
    /\ \A e \in DOMAIN ep : ep[e].halted \in BOOLEAN
    /\ dev.state \in {"ready", "in", "out", "status", "stalled"}
    /\ medium \in [Lba -> Datum \cup {Zeroed}]
    /\ mouse.trbs \in 0 .. 1
    /\ faults \in 0 .. MaxFaults

\* read_sector that returns Ok returns the content of its sector, whatever
\* happened on the bus in between (msc_read_sector).
ReadReturnsSector ==
    host.pc = "idle" /\ host.result = "ok" /\ host.call.op = "read" =>
        buf.data = medium[host.call.lba]

\* write_sector that returns Ok has put its data on the medium: a retry, a
\* late status or a mouse report never passes for the answer to the write
\* (msc_write_sector, msc_command, drain_event).
WriteIsOnMedium ==
    host.pc = "idle" /\ host.result = "ok" /\ host.call.op = "write" =>
        medium[host.call.lba] = host.call.val

\* Without a fault every call succeeds, whatever the mouse reports on the same
\* ring meanwhile: reads return their sector, the gate lets every write pass
\* (drain_event, is_mouse_slot, verify_identity).
SucceedsWithoutFault ==
    faults = 0 => host.result # "error" /\ ~host.poisoned /\ ReadReturnsSector

\* Only the write that is running changes a sector, and only its own: a TRB
\* left behind on the IN ring by a call that gave up, which completes under a
\* later call, does not get a sector written (bulk_transfer returns with its
\* TRB queued and msc_command frees the buffers).  A device that is slower
\* than the host's deadline breaks this.
NoLateEffect ==
    [][host.pc # "idle" /\ host.call.op = "write"
       /\ medium' = [medium EXCEPT ![host.call.lba] = host.call.val]]_medium

\* Behind the identity gate nothing is written to a disk other than the one
\* that was booted, and nothing at all once the device is poisoned
\* (verify_identity).
OnlyBootDiskWritten ==
    [][host.identity_gate => dev.guid = BootGuid /\ ~host.poisoned]_medium

\* Every sector call returns, with the endpoints stalled and under mouse
\* traffic (drain_event has a deadline, both retries are bounded).
CallsReturn == (host.pc # "idle") ~> (host.pc = "idle")

\* One mouse transfer at most is queued or completed and not yet serviced
\* (arm_mouse: "we never queue two at once").
OneMouseTransfer ==
    mouse.trbs + Cardinality({i \in DOMAIN events : ~IsStorage(events[i])})
        <= (IF mouse.armed THEN 1 ELSE 0)

\* A mouse whose endpoint halted, even while a storage command was draining
\* the ring, gets a transfer armed on a running endpoint again
\* (service_mouse, poll_mouse_delta).
MouseRecovers == mouse.halted ~> (~mouse.halted /\ mouse.trbs > 0)
=============================================================================
