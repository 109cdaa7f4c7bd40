----------------------------- MODULE UsbProofs -----------------------------
(***************************************************************************)
(* Proofs about UsbStorage for every partition and any number of calls.    *)
(*                                                                         *)
(* The mouse: the event ring that storage commands and the mouse share     *)
(* never makes the driver queue a second mouse transfer, whatever fails.   *)
(* Five kinds of step reach the mouse's state: a storage event is added, a *)
(* storage event is consumed, the ring is drained, one mouse event is      *)
(* skipped, and the mouse's own two steps.  One lemma shows which kind     *)
(* each action of the storage path is.                                     *)
(*                                                                         *)
(* Types and the identity gate: whatever fails, and however late the       *)
(* device answers.  Lemmas say what the building blocks of the driver's    *)
(* steps and what the device's steps do; the later parts use only these.   *)
(*                                                                         *)
(* Writes: while the device answers within the deadline and until a second *)
(* fault, Where lists the positions that call, device, rings and data      *)
(* toggles can be in.  Each action takes a position to another; a write    *)
(* that a status calls passed is on the medium in all of them.             *)
(***************************************************************************)
EXTENDS UsbStorage, FiniteSetTheorems, TLAPS

MouseState == [armed : BOOLEAN, trbs : 0 .. 1, halted : BOOLEAN, needs_reset : BOOLEAN,
               dirty : BOOLEAN]

RingEvent == [slot : {"msc", "mouse"}, cc : {"ok", "short", "error"}]

MouseTypes == mouse \in MouseState /\ events \in Seq(RingEvent)

\* The indices of the mouse's events.
MouseEvents == {i \in DOMAIN events : ~IsStorage(events[i])}

\* A transfer is queued, or completed and not serviced, never both, and only
\* while armed says so.
OneOutstanding ==
    /\ \A i, j \in MouseEvents : i = j
    /\ mouse.trbs = 1 => mouse.armed /\ MouseEvents = {}
    /\ MouseEvents # {} => mouse.armed

\* An endpoint is reported halted before it is reset: the driver resets no
\* running endpoint, and so drops no transfer that could still complete.
HaltsReported ==
    /\ mouse.needs_reset => mouse.halted
    /\ \A i \in MouseEvents : events[i].cc = "error" => mouse.halted

MouseInv == MouseTypes /\ OneOutstanding /\ HaltsReported
-----------------------------------------------------------------------------
(* The kinds of step *)

StorageEvent == \E cc \in {"ok", "short", "error"} :
    events' = Append(events, [slot |-> "msc", cc |-> cc]) /\ mouse' = mouse

StorageConsumed ==
    /\ events # <<>> /\ IsStorage(Head(events))
    /\ events' = Tail(events) /\ mouse' = mouse

MouseUntouched == events' = events /\ mouse' = mouse

StorageStep == StorageEvent \/ StorageConsumed \/ MouseUntouched \/ Drained

\* What service_mouse makes of a well-typed mouse.
LEMMA Serviced ==
    ASSUME mouse \in MouseState, NEW evs \in Seq(RingEvent)
    PROVE  /\ service_mouse(evs) \in MouseState
           /\ service_mouse(evs).trbs = mouse.trbs
           /\ service_mouse(evs).halted = mouse.halted
           /\ service_mouse(evs).armed =
                (mouse.armed /\ \A i \in DOMAIN evs : IsStorage(evs[i]))
           /\ service_mouse(evs).needs_reset =>
                mouse.needs_reset \/ \E i \in DOMAIN evs : ~IsStorage(evs[i]) /\ evs[i].cc = "error"
  <1> DEFINE codes == {evs[i].cc : i \in {j \in DOMAIN evs : ~IsStorage(evs[j])}}
  <1>1. (codes = {}) = (\A i \in DOMAIN evs : IsStorage(evs[i]))
    OBVIOUS
  <1>2. "error" \in codes => \E i \in DOMAIN evs : ~IsStorage(evs[i]) /\ evs[i].cc = "error"
    OBVIOUS
  <1>3. service_mouse(evs) = [mouse EXCEPT !.armed       = @ /\ codes = {},
                                           !.dirty       = @ \/ "ok" \in codes,
                                           !.needs_reset = @ \/ "error" \in codes]
    BY DEF service_mouse
  <1> HIDE DEF codes
  <1> QED
    BY <1>1, <1>2, <1>3 DEF MouseState

\* A field may be set to any value of its type.
LEMMA FieldsSet ==
    ASSUME NEW m \in MouseState, NEW a \in BOOLEAN, NEW n \in 0 .. 1, NEW h \in BOOLEAN,
           NEW r \in BOOLEAN
    PROVE  /\ [m EXCEPT !.trbs = n, !.halted = h] \in MouseState
           /\ [m EXCEPT !.armed = a, !.trbs = n] \in MouseState
           /\ [m EXCEPT !.needs_reset = r, !.armed = a, !.halted = h, !.trbs = n] \in MouseState
  BY DEF MouseState

LEMMA StorageStepKeeps ==
    ASSUME MouseInv, StorageStep
    PROVE  MouseInv'
  <1> USE DEF MouseInv, MouseTypes
  <1>1. CASE StorageEvent
    <2>1. PICK cc \in {"ok", "short", "error"} :
            events' = Append(events, [slot |-> "msc", cc |-> cc]) /\ mouse' = mouse
      BY <1>1 DEF StorageEvent
    <2>2. MouseTypes'
      BY <2>1 DEF RingEvent
    <2>3. MouseEvents' = MouseEvents /\ \A i \in MouseEvents : events'[i] = events[i]
      BY <2>1, <2>2 DEF MouseEvents, IsStorage, RingEvent
    <2> QED
      BY <2>1, <2>2, <2>3 DEF OneOutstanding, HaltsReported
  <1>2. CASE StorageConsumed
    <2>1. MouseTypes'
      BY <1>2 DEF StorageConsumed
    <2>2. /\ \A i \in MouseEvents' : i + 1 \in MouseEvents /\ i \in Int
          /\ \A i \in MouseEvents' : events'[i] = events[i + 1]
      BY <1>2 DEF StorageConsumed, MouseEvents
    <2>3. mouse' = mouse
      BY <1>2 DEF StorageConsumed
    <2> QED
      BY <2>1, <2>2, <2>3 DEF OneOutstanding, HaltsReported
  <1>3. CASE MouseUntouched
    BY <1>3 DEF MouseUntouched, OneOutstanding, HaltsReported, MouseEvents
  <1>4. CASE Drained
    <2>1. MouseTypes' /\ MouseEvents' = {}
      BY <1>4, Serviced DEF Drained, MouseEvents
    <2>2. OneOutstanding'
      BY <1>4, <2>1, Serviced DEF Drained, OneOutstanding, MouseEvents, MouseState
    <2>3. HaltsReported'
      BY <1>4, <2>1, Serviced DEF Drained, HaltsReported, MouseEvents, MouseState
    <2> QED
      BY <2>1, <2>2, <2>3
  <1> QED
    BY <1>1, <1>2, <1>3, <1>4 DEF StorageStep

\* The whole storage path takes storage steps only.
LEMMA StorageSteps ==
    ASSUME Next
    PROVE  StorageStep \/ SkipMouse \/ MouseReports \/ poll_mouse_delta
  <1>1. Calls => MouseUntouched
    BY DEF Calls, Call, write_sector, MouseUntouched
  <1>2. CbwSent \/ DataMoved \/ CswRead => StorageConsumed
    BY DEF CbwSent, DataMoved, CswRead, Completed, Consumed, StorageConsumed
  <1>3. CbwFailed \/ DataFailed \/ CswFailed => Drained
    BY DEF CbwFailed, DataFailed, CswFailed
  <1>4. Timeout => MouseUntouched
    BY DEF Timeout, MouseUntouched
  <1>5. ASSUME NEW e \in {"in", "out"}, NEW cc \in {"ok", "short", "error"}, Execute(e, cc)
        PROVE  StorageEvent
    BY <1>5 DEF Execute, StorageEvent
  <1>6. Device => StorageStep
    <2>1. TakesCommand \/ RejectsCommand \/ TakesData \/ SendsStatus \/ Stalls => StorageEvent
      BY <1>5 DEF TakesCommand, RejectsCommand, TakesData, SendsStatus, Stalls
    <2>2. SendsData => StorageEvent
      BY <1>5 DEF SendsData
    <2>3. TakenForRepetition => StorageEvent \/ MouseUntouched
      BY <1>5 DEF TakenForRepetition, MouseUntouched
    <2> QED
      BY <2>1, <2>2, <2>3 DEF Device, StorageStep
  <1>7. BusError => StorageEvent
    BY <1>5 DEF BusError
  <1>8. CommandFails \/ DiskExchanged => MouseUntouched
    BY DEF CommandFails, DiskExchanged, MouseUntouched
  <1> QED
    BY <1>1, <1>2, <1>3, <1>4, <1>6, <1>7, <1>8 DEF Next, Host, StorageStep
-----------------------------------------------------------------------------
(* The mouse's own steps *)

LEMMA SkipMouseKeeps ==
    ASSUME MouseInv, SkipMouse
    PROVE  MouseInv'
  <1> USE DEF MouseInv, MouseTypes
  <1>1. /\ 1 \in MouseEvents
        /\ Len(events) \in Nat \ {0}
        /\ events' = Tail(events)
        /\ Head(events) = events[1] /\ Head(events) \in RingEvent
    BY DEF SkipMouse, MouseEvents
  <1>2. MouseEvents' = {}
    <2>1. \A i \in MouseEvents' : i + 1 \in MouseEvents /\ i \in 1 .. Len(events)
      BY <1>1 DEF MouseEvents
    <2> QED
      BY <1>1, <2>1 DEF OneOutstanding
  <1> DEFINE s == <<Head(events)>>
  <1>3. s \in Seq(RingEvent) /\ DOMAIN s = {1} /\ s[1] = events[1]
    BY <1>1
  <1>4. mouse' = service_mouse(s) /\ ~IsStorage(events[1])
    BY <1>1 DEF SkipMouse
  <1>5. events' \in Seq(RingEvent)
    BY <1>1
  <1> HIDE DEF s
  <1>6. /\ mouse' \in MouseState
        /\ mouse'.trbs = mouse.trbs /\ mouse'.halted = mouse.halted
        /\ mouse'.needs_reset => mouse.needs_reset \/ events[1].cc = "error"
    BY <1>3, <1>4, Serviced
  <1>7. OneOutstanding'
    BY <1>1, <1>2, <1>6 DEF OneOutstanding, MouseState
  <1>8. HaltsReported'
    BY <1>1, <1>2, <1>6 DEF HaltsReported
  <1> QED
    BY <1>5, <1>6, <1>7, <1>8

LEMMA MouseReportsKeeps ==
    ASSUME MouseInv, MouseReports
    PROVE  MouseInv'
  <1> USE DEF MouseInv, MouseTypes
  <1>1. PICK cc \in {"ok", "error"} :
          /\ events' = Append(events, [slot |-> "mouse", cc |-> cc])
          /\ mouse' = [mouse EXCEPT !.trbs = @ - 1, !.halted = cc = "error"]
    BY DEF MouseReports
  <1>2. mouse.trbs = 1 /\ ~mouse.halted /\ mouse.armed /\ MouseEvents = {}
    BY DEF MouseReports, MouseState, OneOutstanding
  <1>3. /\ mouse' \in MouseState /\ mouse'.trbs = 0 /\ mouse'.armed
        /\ cc = "error" => mouse'.halted
        /\ ~mouse'.needs_reset
    <2> DEFINE h == cc = "error"
    <2>1. h \in BOOLEAN /\ (cc = "error" => h)
      OBVIOUS
    <2>2. mouse' = [mouse EXCEPT !.trbs = 0, !.halted = h] /\ ~mouse.needs_reset
      BY <1>1, <1>2 DEF HaltsReported
    <2> DEFINE none == 0
    <2>5. none \in 0 .. 1 /\ mouse' = [mouse EXCEPT !.trbs = none, !.halted = h]
      BY <2>2
    <2> HIDE DEF h, none
    <2>3. mouse'.trbs = 0 /\ mouse'.halted = h /\ mouse'.armed = mouse.armed
          /\ mouse'.needs_reset = mouse.needs_reset
      BY <2>2 DEF MouseState
    <2>4. mouse' \in MouseState
      BY <2>1, <2>5, FieldsSet
    <2> QED
      BY <1>2, <2>1, <2>2, <2>3, <2>4
  <1>4. events' \in Seq(RingEvent)
    BY <1>1 DEF RingEvent
  <1>5. /\ MouseEvents' \subseteq {Len(events) + 1}
        /\ \A i \in MouseEvents' : events'[i].cc = cc
    BY <1>1, <1>2, <1>4 DEF MouseEvents, IsStorage
  <1>6. OneOutstanding'
    BY <1>3, <1>5 DEF OneOutstanding
  <1>7. HaltsReported'
    BY <1>3, <1>5 DEF HaltsReported
  <1> QED
    BY <1>3, <1>4, <1>6, <1>7

LEMMA PollKeeps ==
    ASSUME MouseInv, poll_mouse_delta
    PROVE  MouseInv'
  <1> USE DEF MouseInv, MouseTypes
  <1> DEFINE m == service_mouse(events)
             r == IF mouse.needs_reset THEN Recovered(m) ELSE m
  <1>1. events' = <<>> /\ mouse' = [arm_mouse(r) EXCEPT !.dirty = FALSE]
    BY DEF poll_mouse_delta
  <1>2. /\ m \in MouseState /\ m.trbs = mouse.trbs /\ m.halted = mouse.halted
        /\ m.needs_reset => m.halted
        /\ m.trbs = 1 => m.armed
    BY Serviced DEF OneOutstanding, HaltsReported, MouseEvents, MouseState
  <1>3. mouse.needs_reset => m.halted
    BY <1>2 DEF HaltsReported
  <1> HIDE DEF m
  <1>4. /\ r \in MouseState
        /\ r.needs_reset => r.halted
        /\ r.trbs = 1 => r.armed
    <2>1. CASE mouse.needs_reset
      <3>1. r = [m EXCEPT !.needs_reset = FALSE, !.armed = FALSE, !.halted = FALSE, !.trbs = 0]
        BY <1>2, <1>3, <2>1 DEF Recovered, MouseState
      <3>2. r \in MouseState
        <4> DEFINE none == 0
                   no == FALSE
        <4>1. /\ none \in 0 .. 1 /\ no \in BOOLEAN
              /\ r = [m EXCEPT !.needs_reset = no, !.armed = no, !.halted = no, !.trbs = none]
          BY <3>1
        <4> HIDE DEF none, no, r
        <4> QED
          BY <1>2, <4>1, FieldsSet
      <3>3. r.needs_reset = FALSE /\ r.trbs = 0
        BY <1>2, <3>1 DEF MouseState
      <3> QED
        BY <3>2, <3>3
    <2> QED
      BY <1>2, <2>1
  <1> HIDE DEF r
  <1>5. /\ arm_mouse(r) \in MouseState
        /\ arm_mouse(r).needs_reset => arm_mouse(r).halted
        /\ arm_mouse(r).armed
    <2>1. CASE r.armed
      BY <1>4, <2>1 DEF arm_mouse
    <2>2. CASE ~r.armed
      <3>1. arm_mouse(r) = [r EXCEPT !.armed = TRUE, !.trbs = 1]
        <4>1. r.trbs = 0
          BY <1>4, <2>2 DEF MouseState
        <4> QED
          BY <2>2, <4>1 DEF arm_mouse
      <3>2. arm_mouse(r) \in MouseState
        <4> DEFINE one == 1
                   yes == TRUE
        <4>1. /\ one \in 0 .. 1 /\ yes \in BOOLEAN
              /\ arm_mouse(r) = [r EXCEPT !.armed = yes, !.trbs = one]
          BY <3>1
        <4> HIDE DEF one, yes
        <4>2. [r EXCEPT !.armed = yes, !.trbs = one] \in MouseState
          BY <1>4, <4>1, FieldsSet
        <4> QED
          BY <4>1, <4>2
      <3>3. /\ arm_mouse(r).armed = TRUE
            /\ arm_mouse(r).needs_reset = r.needs_reset
            /\ arm_mouse(r).halted = r.halted
        BY <1>4, <3>1 DEF MouseState
      <3> QED
        BY <1>4, <3>2, <3>3
    <2> QED
      BY <2>1, <2>2
  <1>6. /\ mouse' \in MouseState /\ mouse'.armed
        /\ mouse'.needs_reset => mouse'.halted
    BY <1>1, <1>5 DEF MouseState
  <1>7. MouseEvents' = {}
    BY <1>1 DEF MouseEvents
  <1> QED
    BY <1>1, <1>6, <1>7 DEF OneOutstanding, HaltsReported
-----------------------------------------------------------------------------
(* The theorems *)

\* The mouse's transfers and halts stay in step with the events on the ring,
\* through every interleaving of storage commands, time-outs, endpoint
\* recovery and polls (arm_mouse, service_mouse, drain_event).
THEOREM MouseInvariant == Spec => []MouseInv
  <1>1. Init => MouseInv
    BY DEF Init, MouseInv, MouseTypes, MouseState, OneOutstanding, HaltsReported, MouseEvents
  <1>2. MouseInv /\ [Next]_vars => MouseInv'
    <2>1. ASSUME MouseInv, Next PROVE MouseInv'
      BY <2>1, StorageSteps, StorageStepKeeps, SkipMouseKeeps, MouseReportsKeeps, PollKeeps
    <2>2. ASSUME MouseInv, UNCHANGED vars PROVE MouseInv'
      BY <2>2, StorageStepKeeps DEF vars, StorageStep, MouseUntouched
    <2> QED
      BY <2>1, <2>2
  <1> QED
    BY <1>1, <1>2, PTL DEF Spec

\* At most one mouse transfer is queued or waiting to be serviced, whatever
\* the storage path does with the ring (arm_mouse).
THEOREM NeverTwoMouseTransfers == Spec => []OneMouseTransfer
  <1>1. MouseInv => OneMouseTransfer
    <2> SUFFICES ASSUME MouseInv PROVE OneMouseTransfer
      OBVIOUS
    <2> DEFINE n == Cardinality(MouseEvents)
    <2>1. mouse.trbs \in 0 .. 1
      BY DEF MouseInv, MouseTypes, MouseState
    <2>2. CASE MouseEvents = {}
      <3>1. n = 0
        BY <2>2, FS_EmptySet
      <3> HIDE DEF n
      <3>2. mouse.trbs + n <= (IF mouse.armed THEN 1 ELSE 0)
        BY <2>1, <3>1 DEF MouseInv, OneOutstanding
      <3> QED
        BY <3>2 DEF OneMouseTransfer, MouseEvents, n
    <2>3. CASE MouseEvents # {}
      <3>1. PICK i \in MouseEvents : MouseEvents = {i}
        BY <2>3 DEF MouseInv, OneOutstanding
      <3>2. n = 1
        BY <3>1, FS_Singleton
      <3> HIDE DEF n
      <3>3. mouse.trbs + n <= (IF mouse.armed THEN 1 ELSE 0)
        BY <2>1, <2>3, <3>2 DEF MouseInv, OneOutstanding
      <3> QED
        BY <3>3 DEF OneMouseTransfer, MouseEvents, n
    <2> QED
      BY <2>2, <2>3
  <1> QED
    BY <1>1, MouseInvariant, PTL
-----------------------------------------------------------------------------
(* Types of the storage path *)

CallType == {c \in [op : {"none", "read", "write", "sync"}, lba : Lba \cup {0},
                    val : Datum \cup {Zeroed}, tag : Nat] : c.op = "write" => c.lba \in Lba}

WriteType == [lba : Lba, val : Datum] \cup {NoWrite}

HostType == [pc : {"idle", "cbw", "data", "csw"}, run : Nat, attempt : 0 .. 2, csw_tries : 0 .. 1,
             result : {"none", "ok", "error"}, write : WriteType, identity_gate : BOOLEAN,
             poisoned : BOOLEAN, call : CallType]

Trb == [stage : {"cbw", "data", "csw"}, call : CallType, run : Nat]

EpType == [q : Seq(Trb), halted : BOOLEAN, skewed : BOOLEAN]

Eps == [{"in", "out"} -> EpType]

Bytes == Datum \cup {Zeroed, StatusBytes, BootGuid, OtherGuid}

BufType == [data : Bytes, csw : {<<>>} \cup (Nat \X {"passed", "failed"})]

DevType == [state : {"ready", "in", "out", "status", "stalled"}, call : CallType,
            status : {"passed", "failed"}, guid : {BootGuid, OtherGuid}]

UsbTypes ==
    /\ host \in HostType /\ buf \in BufType /\ ep \in Eps /\ dev \in DevType
    /\ medium \in [Lba -> Datum \cup {Zeroed}]
    /\ faults \in 0 .. MaxFaults

-----------------------------------------------------------------------------
(* What the building blocks of the driver's steps do *)

\* The fields of host besides pc and csw_tries, run and result.
SameCall(h) ==
    /\ host'.call = h.call /\ host'.attempt = h.attempt /\ host'.write = h.write
    /\ host'.identity_gate = h.identity_gate /\ host'.poisoned = h.poisoned

\* The read behind the gate, and no other, is of sector 0 and has a write that
\* waits for it.
Gated ==
    /\ host.pc = "idle" \/ host.call.op # "read" => host.write = NoWrite
    /\ host.pc # "idle" /\ host.call.op = "read" => (host.write = NoWrite <=> host.call.lba # 0)

\* Every TRB in q was queued by the command that runs as number r.
RunOf(q, r) == \A i \in DOMAIN q : q[i].run = r

LEMMA RunAppended ==
    ASSUME NEW q \in Seq(Trb), NEW t \in Trb, NEW r, RunOf(q, r), t.run = r
    PROVE  RunOf(Append(q, t), r)
  <1>1. \A i \in DOMAIN Append(q, t) : (i \in DOMAIN q /\ Append(q, t)[i] = q[i]) \/ Append(q, t)[i] = t
    OBVIOUS
  <1> QED
    BY <1>1 DEF RunOf

LEMMA RunTaken ==
    ASSUME NEW q \in Seq(Trb), NEW r, RunOf(q, r), q # <<>>
    PROVE  RunOf(Tail(q), r) /\ Head(q).run = r
  <1>1. \A i \in DOMAIN Tail(q) : i + 1 \in DOMAIN q /\ Tail(q)[i] = q[i + 1]
    OBVIOUS
  <1>2. 1 \in DOMAIN q /\ Head(q) = q[1]
    OBVIOUS
  <1> QED
    BY <1>1, <1>2 DEF RunOf

\* The TRB for a stage is queued on e of eps, and nothing else changes there.
Queued(eps, e, stage, c) ==
    /\ ep' \in Eps
    /\ \A o \in {"in", "out"} : o # e => ep'[o] = eps[o]
    /\ ep'[e].halted = eps[e].halted /\ ep'[e].skewed = eps[e].skewed
    /\ \E t \in Trb : t.stage = stage /\ t.call = c /\ ep'[e].q = Append(eps[e].q, t)

LEMMA PostedQueues ==
    ASSUME NEW eps \in Eps, NEW e \in {"in", "out"}, NEW stage \in {"cbw", "data", "csw"},
           NEW h, h.call \in CallType, h.run \in Nat, ep' = Posted(eps, e, stage, h)
    PROVE  Queued(eps, e, stage, h.call)
  <1> DEFINE t == [stage |-> stage, call |-> h.call, run |-> h.run]
  <1>1. t \in Trb /\ t.stage = stage /\ t.call = h.call
    BY DEF Trb
  <1>2. ep' = [eps EXCEPT ![e].q = Append(@, t)]
    BY DEF Posted
  <1> HIDE DEF t
  <1>3. eps[e] \in EpType /\ eps[e].q \in Seq(Trb) /\ Append(eps[e].q, t) \in Seq(Trb)
    BY <1>1 DEF Eps, EpType
  <1>4. /\ \A o \in {"in", "out"} : o # e => ep'[o] = eps[o]
        /\ ep'[e] = [eps[e] EXCEPT !.q = Append(eps[e].q, t)]
        /\ DOMAIN ep' = {"in", "out"} /\ ep' = [o \in {"in", "out"} |-> ep'[o]]
    BY <1>2 DEF Eps
  <1>5. /\ ep'[e] \in EpType /\ ep'[e].q = Append(eps[e].q, t)
        /\ ep'[e].halted = eps[e].halted /\ ep'[e].skewed = eps[e].skewed
    BY <1>3, <1>4 DEF EpType
  <1>6. ep' \in Eps
    BY <1>4, <1>5 DEF Eps
  <1> QED
    BY <1>1, <1>4, <1>5, <1>6 DEF Queued

\* msc_command has begun for the call of h.
Begun(h, eps) ==
    /\ host' \in HostType /\ host'.pc = "cbw" /\ host'.csw_tries = 0 /\ host'.result = h.result
    /\ SameCall(h)
    /\ buf' = [data |-> Zeroed, csw |-> <<>>]
    /\ Queued(eps, "out", "cbw", h.call)

LEMMA LaunchBegins ==
    ASSUME NEW h \in HostType, NEW eps \in Eps, Launch(h, eps)
    PROVE  Begun(h, eps)
  <1> DEFINE run == [h EXCEPT !.pc = "cbw", !.run = @ + 1, !.csw_tries = 0]
  <1>1. host' = run /\ buf' = [data |-> Zeroed, csw |-> <<>>] /\ ep' = Posted(eps, "out", "cbw", run)
    BY DEF Launch
  <1>2. /\ run.pc = "cbw" /\ run.csw_tries = 0 /\ run.result = h.result
        /\ run.call = h.call /\ run.attempt = h.attempt /\ run.write = h.write
        /\ run.identity_gate = h.identity_gate /\ run.poisoned = h.poisoned
        /\ run.run \in Nat /\ run.call \in CallType
    BY DEF HostType
  <1>4. run \in HostType
    <2> DEFINE r1 == [h EXCEPT !.pc = "cbw"]
               r2 == [r1 EXCEPT !.run = r1.run + 1]
               r3 == [r2 EXCEPT !.csw_tries = 0]
    <2>1. r1 \in HostType /\ r1.run = h.run
      BY DEF HostType
    <2>2. r2 = [r1 EXCEPT !.run = h.run + 1]
      BY <2>1
    <2> HIDE DEF r1
    <2>3. r2 \in HostType
      BY <2>1 DEF HostType
    <2>4. r3 \in HostType
      <3> HIDE DEF r2
      <3> QED BY <2>3 DEF HostType
    <2>5. run = r3
      BY <2>1, <2>2 DEF r1
    <2> QED
      BY <2>4, <2>5
  <1> HIDE DEF run
  <1>3. Queued(eps, "out", "cbw", run.call)
    BY <1>1, <1>2, PostedQueues
  <1> QED
    BY <1>1, <1>2, <1>3, <1>4 DEF Begun, SameCall

\* The call has returned.
Returned(h, result, eps) ==
    /\ host' \in HostType /\ host'.pc = "idle" /\ host'.result = result
    /\ host'.call = h.call /\ host'.identity_gate = h.identity_gate /\ host'.poisoned = h.poisoned
    /\ host'.attempt = h.attempt /\ host'.csw_tries = h.csw_tries /\ host'.write = NoWrite
    /\ buf' = buf /\ ep' = eps

LEMMA ReturnReturns ==
    ASSUME NEW h \in HostType, NEW eps, NEW result \in {"none", "ok", "error"}, Return(h, result, eps)
    PROVE  Returned(h, result, eps)
  <1> DEFINE r == [h EXCEPT !.pc = "idle", !.result = result, !.write = NoWrite]
  <1>1. host' = r /\ ep' = eps /\ buf' = buf
    BY DEF Return
  <1>2. NoWrite \in WriteType
    BY DEF WriteType
  <1>3. /\ r \in HostType /\ r.pc = "idle" /\ r.result = result
        /\ r.call = h.call /\ r.identity_gate = h.identity_gate /\ r.poisoned = h.poisoned
        /\ r.attempt = h.attempt /\ r.csw_tries = h.csw_tries /\ r.write = NoWrite
    BY <1>2 DEF HostType
  <1> HIDE DEF r
  <1> QED
    BY <1>1, <1>3 DEF Returned

\* msc_command has begun for a call of its own.
NewCall(eps) ==
    /\ host' \in HostType /\ host'.pc = "cbw" /\ host'.csw_tries = 0
    /\ host'.attempt = 1 /\ host'.result = "none" /\ host'.call.op # "none"
    /\ host'.identity_gate = host.identity_gate /\ host'.poisoned = host.poisoned
    /\ buf' = [data |-> Zeroed, csw |-> <<>>]
    /\ Queued(eps, "out", "cbw", host'.call)

\* msc_write_sector tries again.
Retried(eps) ==
    /\ host.call.op = "write" /\ host.attempt = 1
    /\ host' \in HostType /\ host'.pc = "cbw" /\ host'.csw_tries = 0 /\ host'.attempt = 2
    /\ host'.call = host.call /\ host'.result = host.result
    /\ host'.identity_gate = host.identity_gate /\ host'.poisoned = host.poisoned
    /\ buf' = [data |-> Zeroed, csw |-> <<>>]
    /\ Queued(eps, "out", "cbw", host.call)

\* The call is over.
Over(eps, results) ==
    /\ host' \in HostType /\ host'.pc = "idle" /\ host'.result \in results
    /\ host'.call = host.call /\ host'.identity_gate = host.identity_gate
    /\ host'.attempt = host.attempt /\ host'.csw_tries = host.csw_tries
    /\ buf' = buf /\ ep' = eps

\* host before Launch.
Prepared(h, w, c) == [h EXCEPT !.attempt = 1, !.result = "none", !.write = w, !.call = c]

LEMMA CommandTyped ==
    ASSUME NEW h \in HostType, NEW c \in CallType, NEW w \in WriteType
    PROVE  /\ Prepared(h, w, c) \in HostType
           /\ Prepared(h, w, c).attempt = 1 /\ Prepared(h, w, c).result = "none"
           /\ Prepared(h, w, c).call = c /\ Prepared(h, w, c).write = w
           /\ Prepared(h, w, c).identity_gate = h.identity_gate
           /\ Prepared(h, w, c).poisoned = h.poisoned
  <1> DEFINE r1 == [h EXCEPT !.attempt = 1]
             r2 == [r1 EXCEPT !.result = "none"]
             r3 == [r2 EXCEPT !.write = w]
             r4 == [r3 EXCEPT !.call = c]
  <1>1. r1 \in HostType /\ r1.attempt = 1 /\ r1.identity_gate = h.identity_gate /\ r1.poisoned = h.poisoned
    BY DEF HostType
  <1>2. r4 = Prepared(h, w, c)
    BY DEF Prepared
  <1> HIDE DEF r1
  <1>3. /\ r2 \in HostType /\ r2.attempt = 1 /\ r2.result = "none"
        /\ r2.identity_gate = h.identity_gate /\ r2.poisoned = h.poisoned
    BY <1>1 DEF HostType
  <1> HIDE DEF r2
  <1>4. /\ r3 \in HostType /\ r3.attempt = 1 /\ r3.result = "none" /\ r3.write = w
        /\ r3.identity_gate = h.identity_gate /\ r3.poisoned = h.poisoned
    BY <1>3 DEF HostType
  <1> HIDE DEF r3
  <1>5. /\ r4 \in HostType /\ r4.attempt = 1 /\ r4.result = "none" /\ r4.call = c /\ r4.write = w
        /\ r4.identity_gate = h.identity_gate /\ r4.poisoned = h.poisoned
    BY <1>4 DEF HostType
  <1> HIDE DEF r4
  <1> QED
    BY <1>2, <1>5

LEMMA BegunCall ==
    ASSUME NEW h \in HostType, NEW eps \in Eps, Begun(h, eps),
           h.attempt = 1, h.result = "none", h.call.op # "none",
           h.identity_gate = host.identity_gate, h.poisoned = host.poisoned
    PROVE  NewCall(eps) /\ host'.call = h.call /\ host'.write = h.write
  BY DEF Begun, SameCall, NewCall

LEMMA NewTag ==
    ASSUME host \in HostType, NEW op \in {"read", "write", "sync"}, NEW lba \in Lba \cup {0}, NEW val \in Datum \cup {0},
           op = "write" => lba \in Lba
    PROVE  /\ [op |-> op, lba |-> lba, val |-> val, tag |-> host.call.tag + 1] \in CallType
           /\ [op |-> op, lba |-> lba, val |-> val, tag |-> host.call.tag + 1].op = op
           /\ [op |-> op, lba |-> lba, val |-> val, tag |-> host.call.tag + 1].lba = lba
  BY DEF HostType, CallType, Zeroed

LEMMA CallBegins ==
    ASSUME UsbTypes, NEW op \in {"read", "sync"}, NEW lba \in Lba \cup {0}, Call(op, lba)
    PROVE  NewCall(ep) /\ host'.call.op = op /\ host'.call.lba = lba /\ host'.write = host.write
  <1> DEFINE c == [op |-> op, lba |-> lba, val |-> 0, tag |-> host.call.tag + 1]
             h == [host EXCEPT !.attempt = 1, !.result = "none",
                               !.call = [op |-> op, lba |-> lba, val |-> 0, tag |-> @.tag + 1]]
             w == host.write
             g == Prepared(host, w, c)
  <1>1. c \in CallType /\ c.op = op /\ c.lba = lba
    BY NewTag DEF UsbTypes
  <1>2. h = g
    BY DEF Prepared, UsbTypes, HostType
  <1>3. Launch(h, ep)
    BY DEF Call
  <1>4. w \in WriteType
    BY DEF UsbTypes, HostType
  <1> HIDE DEF c, w
  <1>5. /\ g \in HostType /\ g.attempt = 1 /\ g.result = "none" /\ g.call = c /\ g.write = w
        /\ g.identity_gate = host.identity_gate /\ g.poisoned = host.poisoned
    BY <1>1, <1>4, CommandTyped DEF UsbTypes
  <1> HIDE DEF h, g
  <1>6. Begun(g, ep)
    BY <1>2, <1>3, <1>5, LaunchBegins DEF UsbTypes
  <1> QED
    BY <1>1, <1>5, <1>6, BegunCall DEF UsbTypes, w

LEMMA WriteTyped ==
    ASSUME UsbTypes, NEW w \in [lba : Lba, val : Datum]
    PROVE  /\ WriteCommand(host, w) \in HostType
           /\ WriteCommand(host, w).attempt = 1 /\ WriteCommand(host, w).result = "none"
           /\ WriteCommand(host, w).call.op = "write" /\ WriteCommand(host, w).write = NoWrite
           /\ WriteCommand(host, w).identity_gate = host.identity_gate
           /\ WriteCommand(host, w).poisoned = host.poisoned
  <1> DEFINE op == "write"
             lba == w.lba
             val == w.val
             c == [op |-> op, lba |-> lba, val |-> val, tag |-> host.call.tag + 1]
             g == Prepared(host, NoWrite, c)
  <1>1. g = WriteCommand(host, w)
    BY DEF WriteCommand, Prepared, UsbTypes, HostType
  <1>2. op \in {"read", "write", "sync"} /\ lba \in Lba /\ val \in Datum
    OBVIOUS
  <1> HIDE DEF op, lba, val
  <1>3. c \in CallType /\ c.op = op
    BY <1>2, NewTag DEF UsbTypes
  <1> HIDE DEF c
  <1>4. NoWrite \in WriteType
    BY DEF WriteType
  <1>5. /\ g \in HostType /\ g.attempt = 1 /\ g.result = "none" /\ g.call = c /\ g.write = NoWrite
        /\ g.identity_gate = host.identity_gate /\ g.poisoned = host.poisoned
    BY <1>3, <1>4, CommandTyped DEF UsbTypes
  <1> HIDE DEF g
  <1> QED
    BY <1>1, <1>3, <1>5 DEF op

LEMMA WriteBegins ==
    ASSUME UsbTypes, NEW lba \in Lba, NEW val \in Datum, write_sector(lba, val)
    PROVE  /\ NewCall(ep) /\ (host'.call.op = "write" => ~host.identity_gate)
           /\ \/ host'.call.op = "read" /\ host'.call.lba = 0 /\ host'.write # NoWrite
              \/ host'.call.op = "write" /\ host'.write = NoWrite
  <1> DEFINE w == [lba |-> lba, val |-> val]
             c == [op |-> "read", lba |-> 0, val |-> 0, tag |-> host.call.tag + 1]
             h == [host EXCEPT !.attempt = 1, !.result = "none", !.write = w,
                               !.call = [op |-> "read", lba |-> 0, val |-> 0, tag |-> @.tag + 1]]
             g == Prepared(host, w, c)
  <1>1. w \in [lba : Lba, val : Datum] /\ w \in WriteType /\ w # NoWrite
    BY UsbAssumption DEF WriteType, NoWrite
  <1>2. CASE host.identity_gate
    <2>1. Launch(h, ep)
      BY <1>2 DEF write_sector
    <2>2. c \in CallType /\ c.op = "read" /\ c.lba = 0
      BY NewTag DEF UsbTypes
    <2>3. h = g
      BY DEF Prepared, UsbTypes, HostType
    <2> HIDE DEF c, w
    <2>4. /\ g \in HostType /\ g.attempt = 1 /\ g.result = "none" /\ g.call = c /\ g.write = w
          /\ g.identity_gate = host.identity_gate /\ g.poisoned = host.poisoned
      BY <1>1, <2>2, CommandTyped DEF UsbTypes
    <2> HIDE DEF h, g
    <2>5. Begun(g, ep)
      BY <2>1, <2>3, <2>4, LaunchBegins DEF UsbTypes
    <2> QED
      BY <1>1, <2>2, <2>4, <2>5, BegunCall DEF UsbTypes
  <1>3. CASE ~host.identity_gate
    <2>1. Launch(WriteCommand(host, w), ep)
      BY <1>3 DEF write_sector
    <2> HIDE DEF w
    <2>2. Begun(WriteCommand(host, w), ep)
      BY <1>1, <2>1, WriteTyped, LaunchBegins DEF UsbTypes
    <2> QED
      BY <1>1, <1>3, <2>2, WriteTyped, BegunCall DEF UsbTypes
  <1> QED
    BY <1>2, <1>3

\* msc_command failed.
LEMMA FailTyped ==
    ASSUME UsbTypes, NEW eps \in Eps, Fail(eps)
    PROVE  \/ Retried(eps)
           \/ ~(host.call.op = "write" /\ host.attempt = 1)
              /\ Over(eps, IF host.call.op = "sync" THEN {"ok"} ELSE {"error"})
  <1>1. CASE host.call.op = "write" /\ host.attempt = 1
    <2> DEFINE h == [host EXCEPT !.attempt = 2]
    <2>1. /\ h \in HostType /\ h.attempt = 2 /\ h.call = host.call /\ h.result = host.result
          /\ h.identity_gate = host.identity_gate /\ h.poisoned = host.poisoned
      BY DEF UsbTypes, HostType
    <2>2. Launch(h, eps)
      BY <1>1 DEF Fail
    <2> HIDE DEF h
    <2>3. Begun(h, eps)
      BY <2>1, <2>2, LaunchBegins
    <2> QED
      BY <1>1, <2>1, <2>3 DEF Begun, SameCall, Retried
  <1>2. CASE ~(host.call.op = "write" /\ host.attempt = 1)
    <2> DEFINE p == host.poisoned \/ host.write # NoWrite
               h == [host EXCEPT !.poisoned = p]
               r == IF host.call.op = "sync" THEN "ok" ELSE "error"
    <2>1. Return(h, r, eps)
      BY <1>2 DEF Fail
    <2>2. p \in BOOLEAN /\ r \in {"none", "ok", "error"}
      OBVIOUS
    <2>4. Over(eps, {r}) => Over(eps, IF host.call.op = "sync" THEN {"ok"} ELSE {"error"})
      BY DEF Over
    <2> HIDE DEF p, r
    <2>3. /\ h \in HostType /\ h.call = host.call /\ h.identity_gate = host.identity_gate
          /\ h.attempt = host.attempt /\ h.csw_tries = host.csw_tries
      BY <2>2 DEF UsbTypes, HostType
    <2> HIDE DEF h
    <2>5. Returned(h, r, eps)
      BY <2>1, <2>2, <2>3, ReturnReturns
    <2> QED
      BY <1>2, <2>3, <2>4, <2>5 DEF Returned, Over
  <1> QED
    BY <1>1, <1>2

\* msc_command succeeded.
LEMMA SucceedTyped ==
    ASSUME UsbTypes, NEW eps \in Eps, Succeed(eps)
    PROVE  \/ /\ Over(eps, {"ok", "error"}) /\ host'.write = NoWrite
              /\ \/ host.write = NoWrite /\ host'.result = "ok" /\ host'.poisoned = host.poisoned
                 \/ host.write # NoWrite /\ buf.data # BootGuid
           \/ /\ NewCall(eps) /\ host'.call.op = "write" /\ host'.write = NoWrite
              /\ buf.data = BootGuid
  <1>1. CASE host.write = NoWrite
    <2>1. Return(host, "ok", eps)
      BY <1>1 DEF Succeed
    <2>2. Returned(host, "ok", eps)
      BY <2>1, ReturnReturns DEF UsbTypes
    <2> QED
      BY <1>1, <2>2 DEF Returned, Over
  <1>2. CASE host.write # NoWrite /\ verify_identity
    <2> DEFINE w == host.write
    <2>1. w \in [lba : Lba, val : Datum]
      BY <1>2 DEF UsbTypes, HostType, WriteType
    <2>2. Launch(WriteCommand(host, w), eps)
      BY <1>2 DEF Succeed
    <2> HIDE DEF w
    <2>3. Begun(WriteCommand(host, w), eps)
      BY <2>1, <2>2, WriteTyped, LaunchBegins DEF UsbTypes
    <2> QED
      BY <1>2, <2>1, <2>3, WriteTyped, BegunCall DEF UsbTypes, verify_identity
  <1>3. CASE host.write # NoWrite /\ ~verify_identity
    <2> DEFINE yes == TRUE
               h == [host EXCEPT !.poisoned = yes]
    <2>1. Return(h, "error", eps)
      BY <1>3 DEF Succeed
    <2>2. /\ h \in HostType /\ h.call = host.call /\ h.identity_gate = host.identity_gate
          /\ h.attempt = host.attempt /\ h.csw_tries = host.csw_tries
      BY DEF UsbTypes, HostType
    <2> HIDE DEF h
    <2>3. Returned(h, "error", eps)
      BY <2>1, <2>2, ReturnReturns
    <2> QED
      BY <1>3, <2>2, <2>3 DEF Returned, Over, verify_identity
  <1> QED
    BY <1>1, <1>2, <1>3

\* Endpoint e is set to r.
EpSet(eps, e, r) == [eps EXCEPT ![e] = r]

LEMMA EpSetTyped ==
    ASSUME NEW eps \in Eps, NEW e \in {"in", "out"}, NEW r \in EpType
    PROVE  /\ EpSet(eps, e, r) \in Eps
           /\ EpSet(eps, e, r)[e] = r
           /\ \A o \in {"in", "out"} : o # e => EpSet(eps, e, r)[o] = eps[o]
  BY DEF EpSet, Eps

LEMMA ResetTyped ==
    ASSUME ep \in Eps, NEW e \in {"in", "out"}
    PROVE  /\ Reset(e) \in Eps
           /\ \A o \in {"in", "out"} : o # e => Reset(e)[o] = ep[o]
           /\ ~ep[e].halted => Reset(e) = ep
           /\ ep[e].halted => /\ Reset(e)[e].q = <<>> /\ ~Reset(e)[e].halted
                              /\ Reset(e)[e].skewed
  <1> DEFINE r == [q |-> <<>>, halted |-> FALSE, skewed |-> TRUE]
  <1>1. r \in EpType /\ r.q = <<>> /\ ~r.halted /\ r.skewed
    BY DEF EpType
  <1>2. Reset(e) = IF ep[e].halted THEN EpSet(ep, e, r) ELSE ep
    BY DEF Reset, EpSet
  <1> HIDE DEF r
  <1>3. CASE ep[e].halted
    BY <1>1, <1>2, <1>3, EpSetTyped
  <1>4. CASE ~ep[e].halted
    BY <1>2, <1>4
  <1> QED
    BY <1>3, <1>4

\* The first TRB of e was executed with completion code cc.
Executed(e, cc) ==
    /\ ep' \in Eps
    /\ \A o \in {"in", "out"} : o # e => ep'[o] = ep[o]
    /\ ep'[e].halted = (cc = "error") /\ ~ep'[e].skewed
    /\ ep'[e].q = IF cc = "error" THEN ep[e].q ELSE Tail(ep[e].q)
    /\ events' = Append(events, [slot |-> "msc", cc |-> cc])
    /\ host' = host

LEMMA ExecuteTyped ==
    ASSUME ep \in Eps, NEW e \in {"in", "out"}, NEW cc \in {"ok", "short", "error"},
           Ready(e), Execute(e, cc)
    PROVE  Executed(e, cc) /\ Head(ep[e].q) \in Trb /\ ep[e].q # <<>> /\ ~ep[e].halted
  <1> DEFINE rest == IF cc = "error" THEN ep[e].q ELSE Tail(ep[e].q)
             h == cc = "error"
             no == FALSE
             r == [q |-> rest, halted |-> h, skewed |-> no]
  <1>1. ep[e] \in EpType /\ ep[e].q \in Seq(Trb) /\ ep[e].q # <<>> /\ ~ep[e].halted
    BY DEF Ready, Eps, EpType
  <1>2. rest \in Seq(Trb) /\ h \in BOOLEAN /\ Head(ep[e].q) \in Trb /\ no \in BOOLEAN
    BY <1>1
  <1>3. ep' = EpSet(ep, e, r)
    BY DEF Execute, EpSet
  <1> HIDE DEF rest, h, no
  <1>4. r \in EpType /\ r.q = rest /\ r.halted = h /\ r.skewed = no
    BY <1>2 DEF EpType
  <1> HIDE DEF r
  <1>5. ep' \in Eps /\ ep'[e] = r /\ \A o \in {"in", "out"} : o # e => ep'[o] = ep[o]
    BY <1>3, <1>4, EpSetTyped
  <1> QED
    BY <1>1, <1>2, <1>4, <1>5 DEF Execute, Executed, rest, h, no

\* bulk_transfer was called for the next stage.
Proceeded(stage, e, eps) ==
    /\ host' \in HostType /\ host'.pc = stage
    /\ host'.csw_tries = host.csw_tries /\ host'.result = host.result /\ SameCall(host)
    /\ buf' = buf
    /\ Queued(eps, e, stage, host.call)
    /\ host'.run = host.run
    /\ RunOf(eps["in"].q, host.run) => RunOf(ep'["in"].q, host.run)

LEMMA ProceedTyped ==
    ASSUME UsbTypes, NEW eps \in Eps, NEW e \in {"in", "out"}, NEW stage \in {"data", "csw"},
           Proceed(stage, e, eps)
    PROVE  Proceeded(stage, e, eps)
  <1>1. /\ host' \in HostType /\ host'.pc = stage
        /\ host'.csw_tries = host.csw_tries /\ host'.result = host.result
        /\ host'.call = host.call /\ host'.attempt = host.attempt /\ host'.write = host.write
        /\ host'.identity_gate = host.identity_gate /\ host'.poisoned = host.poisoned
        /\ host'.run = host.run
    BY DEF Proceed, UsbTypes, HostType
  <1>2. host.call \in CallType /\ host.run \in Nat /\ ep' = Posted(eps, e, stage, host)
    BY DEF Proceed, UsbTypes, HostType
  <1>3. Queued(eps, e, stage, host.call)
    BY <1>2, PostedQueues
  <1> DEFINE t == [stage |-> stage, call |-> host.call, run |-> host.run]
  <1>4. t \in Trb /\ t.run = host.run
    BY <1>2 DEF Trb
  <1>5. ep'[e].q = Append(eps[e].q, t)
    BY <1>2 DEF Posted, Eps, EpType
  <1>6. eps["in"].q \in Seq(Trb)
    BY DEF Eps, EpType
  <1> HIDE DEF t
  <1>7. ASSUME RunOf(eps["in"].q, host.run) PROVE RunOf(ep'["in"].q, host.run)
    <2>1. CASE e = "in"
      BY <1>4, <1>5, <1>6, <1>7, <2>1, RunAppended
    <2>2. CASE e = "out"
      BY <1>3, <1>7, <2>2 DEF Queued
    <2> QED
      BY <2>1, <2>2
  <1> QED
    BY <1>1, <1>3, <1>7 DEF Proceeded, SameCall, Proceed

\* csw_tries is counted up and the status is asked for again.
LEMMA AskedAgain ==
    ASSUME UsbTypes, CswFailed
    PROVE  \/ /\ host.csw_tries = 0 /\ host' \in HostType /\ host'.pc = host.pc /\ host'.csw_tries = 1
              /\ host'.result = host.result /\ SameCall(host)
              /\ buf' = buf /\ Queued(Reset("in"), "in", "csw", host.call)
           \/ host.csw_tries = 1 /\ Fail(Reset("in"))
  <1>1. CASE host.csw_tries = 0
    <2>1. host' = [host EXCEPT !.csw_tries = 1] /\ buf' = buf /\ ep' = Posted(Reset("in"), "in", "csw", host)
      BY <1>1 DEF CswFailed
    <2>2. /\ host' \in HostType /\ host'.pc = host.pc /\ host'.csw_tries = 1
          /\ host'.result = host.result /\ host'.call = host.call /\ host'.attempt = host.attempt
          /\ host'.write = host.write
          /\ host'.identity_gate = host.identity_gate /\ host'.poisoned = host.poisoned
      BY <2>1 DEF UsbTypes, HostType
    <2>3. host.call \in CallType /\ host.run \in Nat /\ Reset("in") \in Eps
      BY ResetTyped DEF UsbTypes, HostType
    <2>4. Queued(Reset("in"), "in", "csw", host.call)
      BY <2>1, <2>3, PostedQueues
    <2> QED
      BY <1>1, <2>1, <2>2, <2>4 DEF SameCall
  <1>2. CASE host.csw_tries # 0
    BY <1>2 DEF CswFailed, UsbTypes, HostType
  <1> QED
    BY <1>1, <1>2
-----------------------------------------------------------------------------
(* What the device's steps do *)

\* dev is as before but for its state and status.
DevMoves(state, status) ==
    /\ dev' \in DevType /\ dev'.state = state /\ dev'.status = status
    /\ dev'.call = dev.call /\ dev'.guid = dev.guid

LEMMA DevSet ==
    ASSUME dev \in DevType, NEW state \in {"ready", "in", "out", "status", "stalled"},
           NEW status \in {"passed", "failed"},
           dev' = [dev EXCEPT !.state = state, !.status = status]
    PROVE  DevMoves(state, status)
  <1> DEFINE d == [dev EXCEPT !.state = state]
  <1>1. d \in DevType /\ d.state = state /\ d.call = dev.call /\ d.guid = dev.guid
    BY DEF DevType
  <1>2. dev' = [d EXCEPT !.status = status]
    OBVIOUS
  <1> HIDE DEF d
  <1> QED
    BY <1>1, <1>2 DEF DevType, DevMoves

LEMMA DevStateSet ==
    ASSUME dev \in DevType, NEW state \in {"ready", "in", "out", "status", "stalled"},
           dev' = [dev EXCEPT !.state = state]
    PROVE  DevMoves(state, dev.status)
  BY DEF DevType, DevMoves

StateFor(c) == IF c.op = "read" THEN "in" ELSE IF c.op = "write" THEN "out" ELSE "status"

LEMMA TakesCommandTyped ==
    ASSUME UsbTypes, TakesCommand
    PROVE  /\ Executed("out", "ok") /\ Ready("out") /\ dev.state = "ready"
           /\ dev' \in DevType /\ dev'.guid = dev.guid /\ dev'.status = "passed"
           /\ dev'.call \in {Head(ep["out"].q).call, host.call}
           /\ dev'.state = StateFor(dev'.call)
           /\ Head(ep["out"].q).stage = "cbw"
           /\ buf' = buf /\ medium' = medium /\ faults' = faults
  <1>1. Executed("out", "ok") /\ Ready("out") /\ Head(ep["out"].q) \in Trb /\ dev.state = "ready"
    BY ExecuteTyped DEF TakesCommand, UsbTypes
  <1>2. PICK c \in Memory(Head(ep["out"].q)) :
          dev' = [state |-> CASE c.op = "read" -> "in" [] c.op = "write" -> "out" [] OTHER -> "status",
                  call |-> c, status |-> "passed", guid |-> dev.guid]
    BY DEF TakesCommand
  <1>3. c \in {Head(ep["out"].q).call, host.call} /\ c \in CallType
    BY <1>1 DEF Memory, UsbTypes, HostType, Trb
  <1>4. dev' = [state |-> StateFor(c), call |-> c, status |-> "passed", guid |-> dev.guid]
    BY <1>2 DEF StateFor
  <1>5. StateFor(c) \in {"in", "out", "status"} /\ dev.guid \in {BootGuid, OtherGuid}
    BY DEF StateFor, UsbTypes, DevType
  <1>6. dev' \in DevType
    BY <1>3, <1>4, <1>5 DEF DevType
  <1> QED
    BY <1>1, <1>3, <1>4, <1>6 DEF TakesCommand

LEMMA RejectsCommandTyped ==
    ASSUME UsbTypes, RejectsCommand
    PROVE  /\ Executed("out", "error") /\ Ready("out") /\ dev.state = "ready"
           /\ DevMoves("stalled", dev.status)
           /\ Head(ep["out"].q).stage = "data"
           /\ buf' = buf /\ medium' = medium /\ faults' = faults
  <1>1. Executed("out", "error") /\ Ready("out")
    BY ExecuteTyped DEF RejectsCommand, UsbTypes
  <1>2. DevMoves("stalled", dev.status)
    BY DevStateSet DEF RejectsCommand, UsbTypes
  <1> QED
    BY <1>1, <1>2 DEF RejectsCommand

LEMMA TakesDataTyped ==
    ASSUME UsbTypes, TakesData
    PROVE  /\ Executed("out", "ok") /\ Ready("out") /\ dev.state = "out"
           /\ buf' = buf /\ faults' = faults /\ medium' \in [Lba -> Datum \cup {Zeroed}]
           /\ \/ /\ Head(ep["out"].q).stage = "data" /\ DevMoves("status", dev.status)
                 /\ \/ dev.status = "failed" /\ medium' = medium
                    \/ \E c \in {Head(ep["out"].q).call, host.call} :
                         medium' = [medium EXCEPT ![dev.call.lba] = c.val]
              \/ /\ Head(ep["out"].q).stage # "data" /\ DevMoves("status", "failed")
                 /\ medium' = medium
  <1>1. Executed("out", "ok") /\ Ready("out") /\ Head(ep["out"].q) \in Trb
    BY ExecuteTyped DEF TakesData, UsbTypes
  <1>2. CASE Head(ep["out"].q).stage = "data"
    <2>1. DevMoves("status", dev.status)
      BY <1>2, DevStateSet DEF TakesData, UsbTypes
    <2>2. PICK c \in Memory(Head(ep["out"].q)) :
            medium' = IF dev.status = "failed" THEN medium
                      ELSE [medium EXCEPT ![dev.call.lba] = c.val]
      BY <1>2 DEF TakesData
    <2>3. c \in {Head(ep["out"].q).call, host.call} /\ c.val \in Datum \cup {Zeroed}
      BY <1>1, <2>2 DEF Memory, UsbTypes, HostType, Trb, CallType
    <2>4. medium' \in [Lba -> Datum \cup {Zeroed}]
      BY <2>2, <2>3 DEF UsbTypes
    <2> QED
      BY <1>1, <1>2, <2>1, <2>2, <2>3, <2>4 DEF TakesData
  <1>3. CASE Head(ep["out"].q).stage # "data"
    <2>1. DevMoves("status", "failed")
      BY <1>3, DevSet DEF TakesData, UsbTypes
    <2> QED
      BY <1>1, <1>3, <2>1 DEF TakesData, UsbTypes
  <1> QED
    BY <1>2, <1>3

\* buf' is buf with a stage written, or, for a freed TRB, buf as it was.
LEMMA WrittenTyped ==
    ASSUME UsbTypes, NEW t, NEW v \in Bytes, buf' \in Written(t, "data", v)
    PROVE  /\ buf' \in BufType /\ buf'.csw = buf.csw /\ buf'.data \in {v, buf.data}
           /\ t.run = host.run => buf'.data = v
  <1>1. (buf' = buf /\ t.run # host.run) \/ buf' = [buf EXCEPT !.data = v]
    BY DEF Written
  <1>2. [buf EXCEPT !.data = v] \in BufType /\ [buf EXCEPT !.data = v].csw = buf.csw
        /\ [buf EXCEPT !.data = v].data = v
    BY DEF UsbTypes, BufType
  <1> QED
    BY <1>1, <1>2 DEF UsbTypes

LEMMA SectorTyped ==
    ASSUME UsbTypes, NEW lba \in Lba \cup {0}
    PROVE  Sector(lba) \in Bytes /\ (Sector(lba) = BootGuid => dev.guid = BootGuid)
  BY UsbAssumption DEF Sector, UsbTypes, DevType, Bytes, BootGuid, Zeroed

LEMMA SendsDataTyped ==
    ASSUME UsbTypes, SendsData
    PROVE  /\ Ready("in") /\ dev.state = "in" /\ medium' = medium /\ faults' = faults
           /\ buf' \in BufType /\ buf'.csw = buf.csw
           /\ buf'.data = BootGuid => buf.data = BootGuid \/ dev.guid = BootGuid
           /\ dev.status = "passed" /\ Head(ep["in"].q).stage = "data" /\ Head(ep["in"].q).run = host.run
                => buf'.data = Sector(dev.call.lba)
           /\ \/ dev.status = "failed" /\ Executed("in", "short") /\ DevMoves("status", "failed")
              \/ /\ dev.status = "passed" /\ Head(ep["in"].q).stage = "data"
                 /\ Executed("in", "ok") /\ DevMoves("status", "passed")
              \/ /\ dev.status = "passed" /\ Head(ep["in"].q).stage = "csw"
                 /\ Executed("in", "error") /\ dev' = dev
  <1> DEFINE t == Head(ep["in"].q)
  <1>1. Ready("in") /\ dev.state = "in" /\ medium' = medium /\ faults' = faults
    BY DEF SendsData
  <1>2. CASE dev.status = "failed" /\ Execute("in", "short") /\ dev' = [dev EXCEPT !.state = "status"]
             /\ UNCHANGED buf
    <2>1. Executed("in", "short") /\ DevMoves("status", "failed")
      BY <1>1, <1>2, ExecuteTyped, DevStateSet DEF UsbTypes
    <2> QED
      BY <1>1, <1>2, <2>1 DEF UsbTypes
  <1>3. CASE /\ dev.status = "passed" /\ t.stage = "data"
             /\ Execute("in", "ok")
             /\ dev' = [dev EXCEPT !.state = "status"]
             /\ buf' \in Written(t, "data", Sector(dev.call.lba))
    <2>1. Executed("in", "ok") /\ DevMoves("status", "passed")
      BY <1>1, <1>3, ExecuteTyped, DevStateSet DEF UsbTypes
    <2>2. dev.call.lba \in Lba \cup {0}
      BY DEF UsbTypes, DevType, CallType
    <2>3. /\ buf' \in BufType /\ buf'.csw = buf.csw
          /\ buf'.data \in {Sector(dev.call.lba), buf.data}
          /\ t.run = host.run => buf'.data = Sector(dev.call.lba)
      BY <1>3, <2>2, SectorTyped, WrittenTyped
    <2> QED
      BY <1>1, <1>3, <2>1, <2>2, <2>3, SectorTyped
  <1>4. CASE dev.status = "passed" /\ t.stage = "csw" /\ Execute("in", "error") /\ UNCHANGED <<dev, buf>>
    <2>1. Executed("in", "error")
      BY <1>1, <1>4, ExecuteTyped DEF UsbTypes
    <2> QED
      BY <1>1, <1>4, <2>1 DEF UsbTypes
  <1> QED
    BY <1>2, <1>3, <1>4 DEF SendsData

LEMMA SendsStatusTyped ==
    ASSUME UsbTypes, SendsStatus
    PROVE  /\ Ready("in") /\ dev.state = "status" /\ medium' = medium /\ faults' = faults
           /\ DevMoves("ready", dev.status)
           /\ buf' \in BufType
           /\ buf'.data = BootGuid => buf.data = BootGuid
           /\ \/ /\ Head(ep["in"].q).stage = "csw" /\ Executed("in", "ok") /\ buf'.data = buf.data
                 /\ buf'.csw \in {buf.csw, <<dev.call.tag, dev.status>>}
                 /\ Head(ep["in"].q).run = host.run => buf'.csw = <<dev.call.tag, dev.status>>
              \/ /\ Head(ep["in"].q).stage # "csw" /\ Executed("in", "short")
                 /\ buf'.csw = buf.csw
  <1> DEFINE t == Head(ep["in"].q)
             v == <<dev.call.tag, dev.status>>
  <1>1. /\ Ready("in") /\ dev.state = "status" /\ medium' = medium /\ faults' = faults
        /\ DevMoves("ready", dev.status)
    BY DevStateSet DEF SendsStatus, UsbTypes
  <1>2. CASE t.stage = "csw"
    <2>1. Executed("in", "ok")
      BY <1>1, <1>2, ExecuteTyped DEF SendsStatus, UsbTypes
    <2>2. v \in Nat \X {"passed", "failed"}
      BY DEF UsbTypes, DevType, CallType
    <2>3. buf' \in Written(t, "csw", v)
      BY <1>2 DEF SendsStatus
    <2> HIDE DEF v
    <2>4. (buf' = buf /\ t.run # host.run) \/ buf' = [buf EXCEPT !.csw = v]
      BY <2>3 DEF Written
    <2>5. /\ buf' \in BufType /\ buf'.data = buf.data /\ buf'.csw \in {buf.csw, v}
          /\ t.run = host.run => buf'.csw = v
      BY <2>2, <2>4 DEF UsbTypes, BufType
    <2> QED
      BY <1>1, <1>2, <2>1, <2>5 DEF v
  <1>3. CASE t.stage # "csw"
    <2>1. Executed("in", "short")
      BY <1>1, <1>3, ExecuteTyped DEF SendsStatus, UsbTypes
    <2>2. StatusBytes \in Bytes /\ StatusBytes # BootGuid
      BY DEF Bytes, StatusBytes, BootGuid
    <2>3. buf' \in Written(t, "data", StatusBytes)
      BY <1>3 DEF SendsStatus
    <2>4. buf' \in BufType /\ buf'.csw = buf.csw /\ buf'.data \in {StatusBytes, buf.data}
      BY <2>2, <2>3, WrittenTyped
    <2> QED
      BY <1>1, <1>3, <2>1, <2>2, <2>4
  <1> QED
    BY <1>2, <1>3

LEMMA TakenForRepetitionTyped ==
    ASSUME UsbTypes, TakenForRepetition
    PROVE  /\ buf' = buf /\ medium' = medium /\ faults' = faults
           /\ \/ /\ Ready("in") /\ ep["in"].skewed
                 /\ \/ dev.state = "in" /\ DevMoves("status", dev.status)
                    \/ dev.state = "status" /\ DevMoves("ready", dev.status)
                 /\ ep' \in Eps /\ ep'["out"] = ep["out"]
                 /\ ep'["in"].q = ep["in"].q /\ ~ep'["in"].halted /\ ~ep'["in"].skewed
                 /\ events' = events /\ host' = host
              \/ /\ Ready("out") /\ ep["out"].skewed /\ dev.state \in {"ready", "out"}
                 /\ Executed("out", "ok") /\ dev' = dev
  <1>1. CASE /\ Ready("in") /\ ep["in"].skewed
             /\ dev.state \in {"in", "status"}
             /\ dev' = [dev EXCEPT !.state = IF @ = "in" THEN "status" ELSE "ready"]
             /\ ep' = [ep EXCEPT !["in"].skewed = FALSE]
             /\ UNCHANGED <<host, buf, events, medium, mouse, faults>>
    <2> DEFINE s == IF dev.state = "in" THEN "status" ELSE "ready"
               r == [ep["in"] EXCEPT !.skewed = FALSE]
    <2>1. s \in {"status", "ready"} /\ dev' = [dev EXCEPT !.state = s]
      BY <1>1 DEF UsbTypes, DevType
    <2>2. r \in EpType /\ r.q = ep["in"].q /\ ~r.halted /\ ~r.skewed
      BY <1>1 DEF UsbTypes, Eps, EpType, Ready
    <2>3. ep' = EpSet(ep, "in", r)
      BY <1>1 DEF EpSet, UsbTypes, Eps
    <2> HIDE DEF r
    <2>4. ep' \in Eps /\ ep'["in"] = r /\ ep'["out"] = ep["out"]
      BY <2>2, <2>3, EpSetTyped DEF UsbTypes
    <2>5. (dev.state = "in" => s = "status") /\ (dev.state = "status" => s = "ready")
      OBVIOUS
    <2> HIDE DEF s
    <2>6. DevMoves(s, dev.status)
      BY <2>1, DevStateSet DEF UsbTypes
    <2> QED
      BY <1>1, <2>2, <2>4, <2>5, <2>6
  <1>2. CASE /\ Ready("out") /\ ep["out"].skewed
             /\ dev.state \in {"ready", "out"}
             /\ Execute("out", "ok")
             /\ UNCHANGED <<buf, dev, medium, faults>>
    BY <1>2, ExecuteTyped DEF UsbTypes
  <1> QED
    BY <1>1, <1>2 DEF TakenForRepetition

LEMMA ErrorTyped ==
    ASSUME UsbTypes, Stalls \/ BusError
    PROVE  /\ buf' = buf /\ medium' = medium /\ dev' = dev
           /\ \E e \in {"in", "out"} : Ready(e) /\ Executed(e, "error")
  <1>1. PICK e \in {"in", "out"} : Ready(e) /\ Execute(e, "error")
    BY DEF Stalls, BusError
  <1>2. Executed(e, "error")
    BY <1>1, ExecuteTyped DEF UsbTypes
  <1> QED
    BY <1>1, <1>2 DEF Stalls, BusError

LEMMA CommandFailsTyped ==
    ASSUME UsbTypes, CommandFails
    PROVE  /\ DevMoves(dev.state, "failed") \/ DevMoves("stalled", "failed")
           /\ dev.status = "passed" /\ faults' = faults + 1 /\ faults < MaxFaults
           /\ host' = host /\ buf' = buf /\ ep' = ep /\ events' = events /\ medium' = medium
  <1>1. PICK st \in {dev.state, "stalled"} : dev' = [dev EXCEPT !.status = "failed", !.state = st]
    BY DEF CommandFails
  <1>2. st \in {"ready", "in", "out", "status", "stalled"}
    BY DEF UsbTypes, DevType
  <1>3. dev' = [dev EXCEPT !.state = st, !.status = "failed"]
    BY <1>1 DEF UsbTypes, DevType
  <1>4. DevMoves(st, "failed")
    BY <1>2, <1>3, DevSet DEF UsbTypes
  <1> QED
    BY <1>4 DEF CommandFails

LEMMA DiskExchangedTyped ==
    ASSUME UsbTypes, DiskExchanged
    PROVE  /\ dev' \in DevType /\ dev'.state = "ready" /\ dev'.status = dev.status /\ dev'.call = dev.call
           /\ host.pc = "idle" /\ faults' = faults + 1 /\ faults < MaxFaults
           /\ host' = host /\ buf' = buf /\ ep' = ep /\ events' = events /\ medium' = medium
  BY DEF DiskExchanged, UsbTypes, DevType
-----------------------------------------------------------------------------
(* Types and the identity gate, for any number of faults and any deadlines *)

\* A running call is a command of a device that is not poisoned.  The data
\* phase that the device is in is its command's.  Behind the gate, the GUID
\* in the buffer is the attached disk's, and a write runs on the boot disk.
RunInv ==
    /\ host.pc # "idle" => host.call.op # "none" /\ host.attempt # 0 /\ ~host.poisoned
    /\ dev.state = "in" => dev.call.op = "read"
    /\ dev.state = "out" => dev.call.op = "write"
    /\ host.pc # "idle" /\ buf.data = BootGuid => dev.guid = BootGuid
    /\ host.pc # "idle" /\ host.call.op = "write" /\ host.identity_gate => dev.guid = BootGuid

\* What the stages of a running call come to.
Outcome(eps) ==
    \/ Retried(eps)
    \/ \E results : Over(eps, results)
    \/ \E stage \in {"data", "csw"}, e \in {"in", "out"} : Proceeded(stage, e, eps)
    \/ /\ host' \in HostType /\ host'.pc = host.pc /\ SameCall(host)
       /\ buf' = buf /\ Queued(eps, "in", "csw", host.call)
    \/ NewCall(eps) /\ host'.call.op = "write" /\ buf.data = BootGuid

LEMMA EmptyBuffer ==
    /\ [data |-> Zeroed, csw |-> <<>>] \in BufType
    /\ [data |-> Zeroed, csw |-> <<>>].data # BootGuid
    /\ [data |-> Zeroed, csw |-> <<>>].csw = <<>>
  BY DEF BufType, Bytes, Zeroed, BootGuid

LEMMA OutcomeKeepsTypes ==
    ASSUME UsbTypes, RunInv, host.pc # "idle", dev' = dev, medium' = medium, faults' = faults,
           NEW eps \in Eps, Outcome(eps)
    PROVE  UsbTypes' /\ RunInv'
  <1>1. host.call.op # "none" /\ host.attempt # 0 /\ ~host.poisoned
    BY DEF RunInv
  <1>2. CASE Retried(eps)
    <2>1. UsbTypes'
      BY <1>2, EmptyBuffer DEF Retried, Queued, UsbTypes
    <2> QED
      BY <1>1, <1>2, <2>1, EmptyBuffer DEF Retried, RunInv
  <1>3. CASE \E results : Over(eps, results)
    <2>1. UsbTypes' /\ host'.pc = "idle"
      BY <1>3 DEF Over, UsbTypes
    <2> QED
      BY <2>1 DEF RunInv
  <1>4. CASE \E stage \in {"data", "csw"}, e \in {"in", "out"} : Proceeded(stage, e, eps)
    <2>1. UsbTypes' /\ SameCall(host) /\ buf' = buf
      BY <1>4 DEF Proceeded, Queued, UsbTypes
    <2> QED
      BY <1>1, <2>1 DEF RunInv, SameCall
  <1>5. CASE /\ host' \in HostType /\ host'.pc = host.pc /\ SameCall(host)
             /\ buf' = buf /\ Queued(eps, "in", "csw", host.call)
    <2>1. UsbTypes'
      BY <1>5 DEF Queued, UsbTypes
    <2> QED
      BY <1>1, <1>5, <2>1 DEF RunInv, SameCall
  <1>6. CASE NewCall(eps) /\ host'.call.op = "write" /\ buf.data = BootGuid
    <2>1. UsbTypes'
      BY <1>6, EmptyBuffer DEF NewCall, Queued, UsbTypes
    <2> QED
      BY <1>1, <1>6, <2>1, EmptyBuffer DEF NewCall, RunInv
  <1> QED
    BY <1>2, <1>3, <1>4, <1>5, <1>6 DEF Outcome

\* Every stage of msc_command but the servicing of the mouse has an outcome.
LEMMA HostOutcome ==
    ASSUME UsbTypes, Host, ~SkipMouse
    PROVE  /\ host.pc # "idle" /\ dev' = dev /\ medium' = medium /\ faults' = faults
           /\ \E eps \in Eps : Outcome(eps)
  <1>1. ep \in Eps /\ \A e \in {"in", "out"} : Reset(e) \in Eps
    BY ResetTyped DEF UsbTypes
  <1>2. DataEp(host.call.op) \in {"in", "out"}
    BY DEF DataEp
  <1>3. ASSUME NEW eps \in Eps, Fail(eps) PROVE Outcome(eps)
    BY <1>3, FailTyped DEF Outcome
  <1>4. ASSUME NEW eps \in Eps, NEW e \in {"in", "out"}, NEW stage \in {"data", "csw"}, Proceed(stage, e, eps)
        PROVE  Outcome(eps)
    BY <1>4, ProceedTyped DEF Outcome
  <1>5. ASSUME NEW eps \in Eps, Succeed(eps) PROVE Outcome(eps)
    BY <1>5, SucceedTyped DEF Outcome
  <1>6. CASE CbwSent
    BY <1>1, <1>2, <1>4, <1>6 DEF CbwSent, Completed
  <1>7. CASE CbwFailed
    BY <1>1, <1>3, <1>7 DEF CbwFailed, Completed
  <1>8. CASE DataMoved
    BY <1>1, <1>4, <1>8 DEF DataMoved, Completed
  <1>9. CASE DataFailed
    BY <1>1, <1>2, <1>4, <1>9 DEF DataFailed, Completed
  <1>10. CASE CswRead
    BY <1>1, <1>3, <1>5, <1>10 DEF CswRead, Completed
  <1>11. CASE CswFailed
    <2>1. host.pc # "idle" /\ dev' = dev /\ medium' = medium /\ faults' = faults
      BY <1>11 DEF CswFailed, Completed
    <2>2. CASE Fail(Reset("in"))
      BY <1>1, <1>3, <2>1, <2>2
    <2>3. CASE /\ host' \in HostType /\ host'.pc = host.pc /\ SameCall(host)
               /\ buf' = buf /\ Queued(Reset("in"), "in", "csw", host.call)
      BY <1>1, <2>1, <2>3 DEF Outcome
    <2> QED
      BY <1>11, <2>2, <2>3, AskedAgain
  <1>12. CASE Timeout
    BY <1>1, <1>3, <1>12 DEF Timeout
  <1> QED
    BY <1>6, <1>7, <1>8, <1>9, <1>10, <1>11, <1>12 DEF Host

LEMMA CallsBegin ==
    ASSUME UsbTypes, Calls
    PROVE  /\ NewCall(ep) /\ host.pc = "idle" /\ ~host.poisoned
           /\ host'.call.op = "write" => ~host.identity_gate
           /\ host.write = NoWrite => Gated'
           /\ events' = events /\ dev' = dev /\ medium' = medium /\ faults' = faults
  <1>1. PICK lba \in Lba : \/ Call("read", lba)
                           \/ \E v \in Datum : write_sector(lba, v)
                           \/ Call("sync", lba)
    BY DEF Calls
  <1>2. CASE Call("read", lba) \/ Call("sync", lba)
    BY <1>2, CallBegins, UsbAssumption DEF Call, NewCall, Gated
  <1>3. CASE \E v \in Datum : write_sector(lba, v)
    BY <1>3, WriteBegins DEF write_sector, NewCall, Gated
  <1> QED
    BY <1>1, <1>2, <1>3

LEMMA DeviceKeepsTypes ==
    ASSUME UsbTypes, RunInv, Device
    PROVE  UsbTypes' /\ RunInv'
  <1>1. ASSUME NEW e \in {"in", "out"}, NEW cc, Executed(e, cc)
        PROVE  host' = host /\ host' \in HostType /\ ep' \in Eps
    BY <1>1 DEF Executed, UsbTypes
  <1>2. CASE TakesCommand
    <2>1. UsbTypes' /\ host' = host /\ dev'.guid = dev.guid /\ buf' = buf
      BY <1>1, <1>2, TakesCommandTyped DEF UsbTypes
    <2>2. dev'.state = StateFor(dev'.call)
      BY <1>2, TakesCommandTyped
    <2> QED
      BY <2>1, <2>2 DEF RunInv, StateFor
  <1>3. CASE RejectsCommand
    <2>1. UsbTypes' /\ host' = host /\ dev'.guid = dev.guid /\ buf' = buf /\ dev'.state = "stalled"
      BY <1>1, <1>3, RejectsCommandTyped DEF UsbTypes, DevMoves
    <2> QED
      BY <2>1 DEF RunInv
  <1>4. CASE TakesData
    <2>1. UsbTypes' /\ host' = host /\ dev'.guid = dev.guid /\ buf' = buf /\ dev'.state = "status"
      BY <1>1, <1>4, TakesDataTyped DEF UsbTypes, DevMoves
    <2> QED
      BY <2>1 DEF RunInv
  <1>5. CASE SendsData
    <2>1. /\ UsbTypes' /\ host' = host /\ dev'.guid = dev.guid /\ (dev' = dev \/ dev'.state = "status")
          /\ buf'.data = BootGuid => buf.data = BootGuid \/ dev.guid = BootGuid
      BY <1>1, <1>5, SendsDataTyped DEF UsbTypes, DevMoves
    <2> QED
      BY <2>1 DEF RunInv
  <1>6. CASE SendsStatus
    <2>1. /\ UsbTypes' /\ host' = host /\ dev'.guid = dev.guid /\ dev'.state = "ready"
          /\ buf'.data = BootGuid => buf.data = BootGuid
      BY <1>1, <1>6, SendsStatusTyped DEF UsbTypes, DevMoves
    <2> QED
      BY <2>1 DEF RunInv
  <1>7. CASE TakenForRepetition
    <2>1. /\ UsbTypes' /\ host' = host /\ dev'.guid = dev.guid /\ buf' = buf
          /\ dev' = dev \/ dev'.state \in {"status", "ready"}
      BY <1>1, <1>7, TakenForRepetitionTyped DEF UsbTypes, DevMoves
    <2> QED
      BY <2>1 DEF RunInv
  <1>8. CASE Stalls
    <2>1. UsbTypes' /\ host' = host /\ dev' = dev /\ buf' = buf
      BY <1>1, <1>8, ErrorTyped DEF UsbTypes, Stalls
    <2> QED
      BY <2>1 DEF RunInv
  <1> QED
    BY <1>2, <1>3, <1>4, <1>5, <1>6, <1>7, <1>8 DEF Device

LEMMA FaultKeepsTypes ==
    ASSUME UsbTypes, RunInv, BusError \/ CommandFails \/ DiskExchanged \/ MouseReports
    PROVE  UsbTypes' /\ RunInv'
  <1>1. faults < MaxFaults => faults + 1 \in 0 .. MaxFaults
    BY UsbAssumption DEF UsbTypes
  <1>2. CASE BusError
    <2>1. UsbTypes' /\ host' = host /\ dev' = dev /\ buf' = buf
      BY <1>1, <1>2, ErrorTyped DEF UsbTypes, BusError, Executed
    <2> QED
      BY <2>1 DEF RunInv
  <1>3. CASE CommandFails
    <2>1. /\ UsbTypes' /\ host' = host /\ buf' = buf /\ dev'.guid = dev.guid /\ dev'.call = dev.call
          /\ dev'.state \in {dev.state, "stalled"}
      BY <1>1, <1>3, CommandFailsTyped DEF UsbTypes, DevMoves
    <2> QED
      BY <2>1 DEF RunInv
  <1>4. CASE DiskExchanged
    <2>1. UsbTypes' /\ host' = host /\ host.pc = "idle" /\ dev'.state = "ready"
      BY <1>1, <1>4, DiskExchangedTyped DEF UsbTypes
    <2> QED
      BY <2>1 DEF RunInv
  <1>5. CASE MouseReports
    <2>1. UsbTypes' /\ host' = host /\ dev' = dev /\ buf' = buf
      BY <1>1, <1>5 DEF MouseReports, UsbTypes
    <2> QED
      BY <2>1 DEF RunInv
  <1> QED
    BY <1>2, <1>3, <1>4, <1>5

LEMMA StepKeepsTypes ==
    ASSUME UsbTypes, RunInv, [Next]_vars
    PROVE  UsbTypes' /\ RunInv'
  <1>1. CASE Calls
    <2>1. UsbTypes'
      BY <1>1, CallsBegin, EmptyBuffer DEF NewCall, Queued, UsbTypes
    <2>2. RunInv'
      <3>1. dev' = dev /\ ~host'.poisoned /\ host'.call.op # "none" /\ host'.attempt = 1
            /\ buf'.data # BootGuid /\ (host'.call.op = "write" => ~host'.identity_gate)
        BY <1>1, CallsBegin, EmptyBuffer DEF NewCall
      <3> QED
        BY <3>1 DEF RunInv
    <2> QED
      BY <2>1, <2>2
  <1>2. CASE Host /\ ~SkipMouse
    BY <1>2, HostOutcome, OutcomeKeepsTypes
  <1>3. CASE SkipMouse \/ poll_mouse_delta \/ UNCHANGED vars
    BY <1>3 DEF SkipMouse, poll_mouse_delta, vars, UsbTypes, RunInv
  <1>4. CASE Device
    BY <1>4, DeviceKeepsTypes
  <1>5. CASE BusError \/ CommandFails \/ DiskExchanged \/ MouseReports
    BY <1>5, FaultKeepsTypes
  <1> QED
    BY <1>1, <1>2, <1>3, <1>4, <1>5 DEF Next

LEMMA InitTyped ==
    ASSUME Init
    PROVE  UsbTypes /\ RunInv
  <1>1. PICK gate \in BOOLEAN :
          host = [pc |-> "idle", run |-> 0, attempt |-> 0, csw_tries |-> 0, result |-> "none",
                  write |-> NoWrite, identity_gate |-> gate, poisoned |-> FALSE,
                  call |-> [op |-> "none", lba |-> 0, val |-> 0, tag |-> 0]]
    BY DEF Init
  <1> DEFINE c == [op |-> "none", lba |-> 0, val |-> 0, tag |-> 0]
             w == NoWrite
  <1>2. c \in CallType /\ w \in WriteType
    BY DEF CallType, Zeroed, WriteType
  <1>3. host.call = c /\ host.pc = "idle"
    BY <1>1
  <1>4. host = [pc |-> "idle", run |-> 0, attempt |-> 0, csw_tries |-> 0, result |-> "none",
                write |-> w, identity_gate |-> gate, poisoned |-> FALSE, call |-> c]
    BY <1>1
  <1> HIDE DEF c, w
  <1>5. host \in HostType
    BY <1>2, <1>4 DEF HostType
  <1>6. dev = [state |-> "ready", call |-> c, status |-> "passed", guid |-> BootGuid]
    BY <1>3 DEF Init
  <1>7. dev \in DevType /\ dev.state = "ready"
    BY <1>2, <1>6 DEF DevType
  <1>8. ep \in Eps
    BY DEF Init, Eps, EpType
  <1>9. buf \in BufType /\ medium \in [Lba -> Datum \cup {Zeroed}] /\ faults \in 0 .. MaxFaults
    BY EmptyBuffer, UsbAssumption DEF Init
  <1> QED
    BY <1>3, <1>5, <1>7, <1>8, <1>9 DEF UsbTypes, RunInv

\* The storage path is well typed and its gate sound, whatever fails.
LEMMA StorageTypes == Spec => [](UsbTypes /\ RunInv)
  BY InitTyped, StepKeepsTypes, PTL DEF Spec

\* Every stage, counter and buffer keeps its type, also when a freed buffer
\* is written to the medium (msc_command, bulk_transfer).
THEOREM UsbTypeOK == Spec => []TypeOK
  <1>1. UsbTypes /\ MouseInv => TypeOK
    <2> SUFFICES ASSUME UsbTypes, MouseInv PROVE TypeOK
      OBVIOUS
    <2>1. /\ host.pc \in {"idle", "cbw", "data", "csw"}
          /\ host.call.lba \in Lba \cup {0} /\ host.call.val \in Datum \cup {0}
          /\ host.attempt \in 0 .. 2 /\ host.csw_tries \in 0 .. 1
          /\ host.result \in {"none", "ok", "error"} /\ host.poisoned \in BOOLEAN
      BY DEF UsbTypes, HostType, CallType, Zeroed
    <2>2. buf.data \in Datum \cup {Zeroed, StatusBytes, BootGuid, OtherGuid}
      BY DEF UsbTypes, BufType, Bytes
    <2>3. \A e \in DOMAIN ep : ep[e].halted \in BOOLEAN
      BY DEF UsbTypes, Eps, EpType
    <2>4. dev.state \in {"ready", "in", "out", "status", "stalled"}
      BY DEF UsbTypes, DevType
    <2>5. mouse.trbs \in 0 .. 1
      BY DEF MouseInv, MouseTypes, MouseState
    <2> QED
      BY <2>1, <2>2, <2>3, <2>4, <2>5 DEF TypeOK, UsbTypes
  <1> QED
    BY <1>1, StorageTypes, MouseInvariant, PTL
-----------------------------------------------------------------------------
(* Where a call, the device and the two rings stand, until a second fault *)

\* The storage events on the ring: none, one, two in this order.
None(evs) == \A i \in DOMAIN evs : ~IsStorage(evs[i])

One(evs, c) == \E i \in DOMAIN evs :
    /\ IsStorage(evs[i]) /\ evs[i].cc = c
    /\ \A j \in DOMAIN evs : j # i => ~IsStorage(evs[j])

Two(evs, c, d) == \E i, j \in DOMAIN evs :
    /\ i < j
    /\ IsStorage(evs[i]) /\ evs[i].cc = c
    /\ IsStorage(evs[j]) /\ evs[j].cc = d
    /\ \A k \in DOMAIN evs : k \notin {i, j} => ~IsStorage(evs[k])

OneMoved(evs) == One(evs, "ok") \/ One(evs, "short")
TwoMoved(evs) == Two(evs, "ok", "ok") \/ Two(evs, "ok", "short")

\* The stages of the TRBs in a queue.
Single(q, s) == Len(q) = 1 /\ q[1].stage = s
Double(q, s, t) == Len(q) = 2 /\ q[1].stage = s /\ q[2].stage = t

\* Every TRB in q belongs to call c.
Own(q, c) == \A i \in DOMAIN q : q[i].call = c

Empty(e) == ep[e].q = <<>> /\ ~ep[e].halted
Holds(e, s) == Single(ep[e].q, s) /\ ~ep[e].halted
HoldsTwo(s, t) == Double(ep["in"].q, s, t) /\ ~ep["in"].halted
Straight == ~ep["in"].skewed /\ ~ep["out"].skewed

\* Call, device and rings agree.
InSync ==
    /\ Straight
    /\ \/ host.pc = "idle" /\ None(events) /\ Empty("in") /\ Empty("out") /\ dev.state = "ready"
       \/ host.pc = "cbw" /\ None(events) /\ Empty("in") /\ Holds("out", "cbw") /\ dev.state = "ready"
       \/ host.pc = "cbw" /\ One(events, "ok") /\ Empty("in") /\ Empty("out")
          /\ dev.state = StateFor(host.call)
       \/ host.pc = "data" /\ None(events) /\ Holds("in", "data") /\ Empty("out") /\ dev.state = "in"
       \/ host.pc = "data" /\ None(events) /\ Empty("in") /\ Holds("out", "data") /\ dev.state = "out"
       \/ host.pc = "data" /\ OneMoved(events) /\ Empty("in") /\ Empty("out") /\ dev.state = "status"
       \/ host.pc = "csw" /\ None(events) /\ Holds("in", "csw") /\ Empty("out") /\ dev.state = "status"
       \/ host.pc = "csw" /\ One(events, "ok") /\ Empty("in") /\ Empty("out") /\ dev.state = "ready"

\* An endpoint has halted, and the host does not know yet.
Halted ==
    /\ One(events, "error") /\ Straight
    /\ \/ host.pc = "cbw" /\ ep["out"].halted /\ Empty("in") /\ dev.state = "ready"
       \/ host.pc = "data" /\ ep["out"].halted /\ Empty("in") /\ dev.state = "out" /\ host.attempt = 1
       \/ host.pc = "data" /\ ep["in"].halted /\ Empty("out") /\ dev.state = "in"
       \/ host.pc = "csw" /\ ep["in"].halted /\ Empty("out")
          /\ (dev.state = "in" \/ (dev.state = "status" /\ host.csw_tries = 0))

\* "out" was reset on the host's side: a command may be lost.
OutReset ==
    /\ ~ep["in"].skewed
    /\ \/ host.pc = "idle" /\ None(events) /\ Empty("in") /\ Empty("out") /\ dev.state = "ready"
       \/ host.pc = "cbw" /\ None(events) /\ Empty("in") /\ Holds("out", "cbw") /\ dev.state = "ready"
       \/ /\ ~ep["out"].skewed
          /\ \/ host.pc = "cbw" /\ One(events, "ok") /\ Empty("in") /\ Empty("out") /\ dev.state = "ready"
             \/ host.pc = "data" /\ host.call.op = "write" /\ None(events) /\ Empty("in")
                /\ Holds("out", "data") /\ dev.state = "ready"
             \/ host.pc = "data" /\ host.call.op = "read" /\ None(events) /\ Holds("in", "data")
                /\ Empty("out") /\ dev.state = "ready"

\* The data of a write were lost: the device takes the repeated command for
\* them, or drops it as a repetition.
DataLost ==
    /\ host.call.op = "write" /\ ~ep["in"].skewed
    /\ \/ host.pc = "csw" /\ None(events) /\ Holds("in", "csw") /\ Empty("out") /\ dev.state = "out"
          /\ host.attempt = 1
       \/ host.pc = "cbw" /\ None(events) /\ Holds("in", "csw") /\ Holds("out", "cbw") /\ dev.state = "out"
       \/ /\ ~ep["out"].skewed
          /\ \/ host.pc = "cbw" /\ One(events, "ok") /\ Holds("in", "csw") /\ Empty("out") /\ dev.state = "status"
             \/ host.pc = "cbw" /\ Two(events, "ok", "ok") /\ Empty("in") /\ Empty("out") /\ dev.state = "ready"
             \/ host.pc = "data" /\ None(events) /\ Holds("in", "csw") /\ Holds("out", "data") /\ dev.state = "status"
             \/ host.pc = "data" /\ One(events, "ok") /\ Empty("in") /\ Holds("out", "data") /\ dev.state = "ready"
             \/ host.pc = "csw" /\ None(events) /\ Holds("in", "csw") /\ Holds("out", "data") /\ dev.state = "ready"

\* "in" was reset on the host's side: data or status may be lost.
InReset ==
    /\ host.pc = "csw" /\ None(events) /\ Single(ep["in"].q, "csw") /\ ~ep["in"].halted
    /\ Empty("out") /\ ~ep["out"].skewed
    /\ dev.state \in {"in", "status"}

\* A call that timed out has left its TRB on "in", where it completes for the
\* next one.
Left == Holds("in", "data") \/ Holds("in", "csw")

LateCommand ==
    \/ host.pc = "idle" /\ None(events) /\ Left /\ Empty("out") /\ dev.state = "ready"
    \/ host.pc = "cbw" /\ None(events) /\ Left /\ Holds("out", "cbw") /\ dev.state = "ready"
    \/ host.pc = "cbw" /\ One(events, "ok") /\ Left /\ Empty("out") /\ dev.state = StateFor(host.call)
    \/ /\ host.pc = "cbw" /\ host.call.op = "read" /\ Empty("out")
       /\ \/ Two(events, "ok", "error") /\ ep["in"].halted /\ dev.state = "in"
          \/ Two(events, "ok", "ok") /\ Empty("in") /\ dev.state = "status"
    \/ host.pc = "cbw" /\ host.call.op = "sync" /\ TwoMoved(events) /\ Empty("in") /\ Empty("out")
       /\ dev.state = "ready"

LateData ==
    /\ host.pc = "data"
    /\ \/ host.call.op = "read" /\ None(events) /\ (HoldsTwo("data", "data") \/ HoldsTwo("csw", "data"))
          /\ Empty("out") /\ dev.state = "in"
       \/ host.call.op = "read" /\ One(events, "ok") /\ Holds("in", "data") /\ Empty("out")
          /\ dev.state = "status"
       \/ host.call.op = "write" /\ None(events) /\ Left /\ Holds("out", "data") /\ dev.state = "out"
       \/ host.call.op = "write" /\ One(events, "ok") /\ Left /\ Empty("out") /\ dev.state = "status"
       \/ TwoMoved(events) /\ Empty("in") /\ Empty("out") /\ dev.state = "ready"

LateStatus ==
    /\ host.pc = "csw"
    /\ \/ None(events) /\ (HoldsTwo("data", "csw") \/ HoldsTwo("csw", "csw")) /\ Empty("out")
          /\ dev.state = "status"
       \/ OneMoved(events) /\ Holds("in", "csw") /\ Empty("out") /\ dev.state = "ready"
       \/ None(events) /\ Holds("in", "csw") /\ Empty("out") /\ dev.state = "ready"

Late == Straight /\ (LateCommand \/ LateData \/ LateStatus)

\* The device waits to send what is never asked for again.
Stuck ==
    host.pc \in {"idle", "cbw"} /\ None(events) /\ ep["in"].q = <<>> /\ dev.state = "in"

\* The device works for the running call, and so does what is queued on "out".
Current ==
    /\ dev.state \in {"in", "out", "status"} => dev.call = host.call
    /\ Own(ep["out"].q, host.call)

Unhurt == host.attempt # 2 /\ host.csw_tries = 0 /\ dev.status = "passed"

\* Without a fault the TRBs on "in" are the running command's, so that the
\* status lands in its buffer.
OnTrack ==
    /\ RunOf(ep["in"].q, host.run)
    /\ host.pc = "csw" => None(events) \/ CswGood

Where ==
    \/ InSync /\ Current /\ (faults = 0 => Unhurt /\ OnTrack)
    \/ /\ faults = 1 /\ Current
       /\ dev.state = "in" => dev.status = "passed"
       /\ Halted \/ OutReset \/ DataLost \/ InReset \/ Late
    \/ faults = 1 /\ (Stuck \/ dev.state = "stalled")

\* A write that the device, or a status that the host has, calls passed is on
\* the medium.
OnMedium == medium[host.call.lba] = host.call.val

Landed ==
    /\ host.call.op = "write" /\ dev.state = "status" /\ dev.status = "passed" => OnMedium
    /\ host.call.op = "write" /\ buf.csw = <<host.call.tag, "passed">> => OnMedium
    /\ WriteIsOnMedium
-----------------------------------------------------------------------------
(* The two rings *)

\* A storage event is added.
LEMMA EventAdded ==
    ASSUME NEW evs \in Seq(RingEvent), NEW cc, NEW evs2,
           evs2 = Append(evs, [slot |-> "msc", cc |-> cc])
    PROVE  /\ None(evs) => One(evs2, cc)
           /\ \A c : One(evs, c) => Two(evs2, c, cc)
  <1> DEFINE n == Len(evs) + 1
  <1>1. /\ n \in Nat /\ DOMAIN evs2 = 1 .. n /\ DOMAIN evs = 1 .. (n - 1) /\ n \in DOMAIN evs2
        /\ \A i \in DOMAIN evs : evs2[i] = evs[i] /\ i < n /\ i \in DOMAIN evs2
        /\ evs2[n].slot = "msc" /\ evs2[n].cc = cc
        /\ \A i \in DOMAIN evs2 : i = n \/ i \in DOMAIN evs
    BY DEF RingEvent
  <1> HIDE DEF n
  <1>2. ASSUME None(evs) PROVE One(evs2, cc)
    <2>1. IsStorage(evs2[n])
      BY <1>1 DEF IsStorage
    <2>2. \A j \in DOMAIN evs2 : j # n => ~IsStorage(evs2[j])
      BY <1>1, <1>2 DEF None
    <2> QED
      BY <1>1, <2>1, <2>2 DEF One
  <1>3. ASSUME NEW c, One(evs, c) PROVE Two(evs2, c, cc)
    <2>1. PICK i \in DOMAIN evs : /\ IsStorage(evs[i]) /\ evs[i].cc = c
                                  /\ \A j \in DOMAIN evs : j # i => ~IsStorage(evs[j])
      BY <1>3 DEF One
    <2>2. i < n /\ i \in DOMAIN evs2 /\ IsStorage(evs2[i]) /\ evs2[i].cc = c
      BY <1>1, <2>1
    <2>3. IsStorage(evs2[n])
      BY <1>1 DEF IsStorage
    <2>4. \A k \in DOMAIN evs2 : k \notin {i, n} => ~IsStorage(evs2[k])
      BY <1>1, <2>1
    <2> QED
      BY <1>1, <2>2, <2>3, <2>4 DEF Two
  <1> QED
    BY <1>2, <1>3

\* The first event is consumed.
LEMMA EventConsumed ==
    ASSUME NEW evs \in Seq(RingEvent), evs # <<>>, IsStorage(Head(evs)), NEW evs2, evs2 = Tail(evs)
    PROVE  /\ ~None(evs)
           /\ \A c : One(evs, c) => Head(evs).cc = c /\ None(evs2)
           /\ \A c, d : Two(evs, c, d) => Head(evs).cc = c /\ One(evs2, d)
  <1>1. /\ Head(evs) = evs[1] /\ 1 \in DOMAIN evs /\ IsStorage(evs[1])
        /\ \A i \in DOMAIN evs : i \in Nat /\ i >= 1 /\ (i # 1 => i - 1 \in DOMAIN evs2 /\ evs2[i - 1] = evs[i])
        /\ \A i \in DOMAIN evs2 : i \in Nat /\ i >= 1 /\ i + 1 \in DOMAIN evs /\ evs2[i] = evs[i + 1]
    OBVIOUS
  <1>2. ASSUME NEW c, One(evs, c) PROVE Head(evs).cc = c /\ None(evs2)
    <2>1. evs[1].cc = c /\ \A j \in DOMAIN evs : j # 1 => ~IsStorage(evs[j])
      BY <1>1, <1>2 DEF One
    <2>2. ASSUME NEW i \in DOMAIN evs2 PROVE ~IsStorage(evs2[i])
      <3>1. i + 1 \in DOMAIN evs /\ i + 1 # 1 /\ evs2[i] = evs[i + 1]
        BY <1>1
      <3> QED
        BY <2>1, <3>1
    <2> QED
      BY <1>1, <2>1, <2>2 DEF None
  <1>3. ASSUME NEW c, NEW d, Two(evs, c, d) PROVE Head(evs).cc = c /\ One(evs2, d)
    <2>1. PICK i \in DOMAIN evs, j \in DOMAIN evs :
            /\ i < j
            /\ IsStorage(evs[i]) /\ evs[i].cc = c
            /\ IsStorage(evs[j]) /\ evs[j].cc = d
            /\ \A k \in DOMAIN evs : k \notin {i, j} => ~IsStorage(evs[k])
      BY <1>3 DEF Two
    <2>2. i = 1 /\ j # 1
      BY <1>1, <2>1
    <2>3. j - 1 \in DOMAIN evs2 /\ evs2[j - 1] = evs[j]
      BY <1>1, <2>2
    <2>4. ASSUME NEW k \in DOMAIN evs2, k # j - 1 PROVE ~IsStorage(evs2[k])
      <3>1. k + 1 \in DOMAIN evs /\ k + 1 # 1 /\ k + 1 # j /\ evs2[k] = evs[k + 1]
        BY <1>1, <2>4
      <3> QED
        BY <2>1, <2>2, <3>1
    <2> QED
      BY <1>1, <2>1, <2>2, <2>3, <2>4 DEF One
  <1> QED
    BY <1>1, <1>2, <1>3 DEF None

\* The storage events in evs2 are those in evs.
SameStorage(evs, evs2) ==
    /\ None(evs) => None(evs2)
    /\ \A c : One(evs, c) => One(evs2, c)
    /\ \A c, d : Two(evs, c, d) => Two(evs2, c, d)

LEMMA MouseEventAdded ==
    ASSUME NEW evs \in Seq(RingEvent), NEW cc, NEW evs2,
           evs2 = Append(evs, [slot |-> "mouse", cc |-> cc])
    PROVE  SameStorage(evs, evs2)
  <1>1. /\ \A i \in DOMAIN evs : evs2[i] = evs[i] /\ i \in DOMAIN evs2
        /\ \A i \in DOMAIN evs2 : i \in DOMAIN evs \/ ~IsStorage(evs2[i])
    BY DEF RingEvent, IsStorage
  <1>2. None(evs) => None(evs2)
    BY <1>1 DEF None
  <1>3. \A c : One(evs, c) => One(evs2, c)
    BY <1>1 DEF One
  <1>4. ASSUME NEW c, NEW d, Two(evs, c, d) PROVE Two(evs2, c, d)
    <2>1. PICK i \in DOMAIN evs, j \in DOMAIN evs :
            /\ i < j
            /\ IsStorage(evs[i]) /\ evs[i].cc = c
            /\ IsStorage(evs[j]) /\ evs[j].cc = d
            /\ \A k \in DOMAIN evs : k \notin {i, j} => ~IsStorage(evs[k])
      BY <1>4 DEF Two
    <2>2. i \in DOMAIN evs2 /\ j \in DOMAIN evs2 /\ evs2[i] = evs[i] /\ evs2[j] = evs[j]
      BY <1>1
    <2>3. \A k \in DOMAIN evs2 : k \notin {i, j} => ~IsStorage(evs2[k])
      BY <1>1, <2>1
    <2> QED
      BY <2>1, <2>2, <2>3 DEF Two
  <1> QED
    BY <1>2, <1>3, <1>4 DEF SameStorage

LEMMA MouseEventSkipped ==
    ASSUME NEW evs \in Seq(RingEvent), evs # <<>>, ~IsStorage(Head(evs)), NEW evs2, evs2 = Tail(evs)
    PROVE  SameStorage(evs, evs2)
  <1>1. /\ 1 \in DOMAIN evs /\ ~IsStorage(evs[1])
        /\ \A i \in DOMAIN evs : i \in Nat /\ (i # 1 => i - 1 \in DOMAIN evs2 /\ evs2[i - 1] = evs[i])
        /\ \A i \in DOMAIN evs2 : i \in Nat /\ i + 1 \in DOMAIN evs /\ evs2[i] = evs[i + 1]
    OBVIOUS
  <1>2. None(evs) => None(evs2)
    BY <1>1 DEF None
  <1>3. ASSUME NEW c, One(evs, c) PROVE One(evs2, c)
    <2>1. PICK i \in DOMAIN evs : /\ IsStorage(evs[i]) /\ evs[i].cc = c
                                  /\ \A j \in DOMAIN evs : j # i => ~IsStorage(evs[j])
      BY <1>3 DEF One
    <2>2. i - 1 \in DOMAIN evs2 /\ evs2[i - 1] = evs[i]
      BY <1>1, <2>1
    <2>3. ASSUME NEW k \in DOMAIN evs2, k # i - 1 PROVE ~IsStorage(evs2[k])
      <3>1. k + 1 \in DOMAIN evs /\ k + 1 # i /\ evs2[k] = evs[k + 1]
        BY <1>1, <2>3
      <3> QED
        BY <2>1, <3>1
    <2> QED
      BY <2>1, <2>2, <2>3 DEF One
  <1>4. ASSUME NEW c, NEW d, Two(evs, c, d) PROVE Two(evs2, c, d)
    <2>1. PICK i \in DOMAIN evs, j \in DOMAIN evs :
            /\ i < j
            /\ IsStorage(evs[i]) /\ evs[i].cc = c
            /\ IsStorage(evs[j]) /\ evs[j].cc = d
            /\ \A k \in DOMAIN evs : k \notin {i, j} => ~IsStorage(evs[k])
      BY <1>4 DEF Two
    <2>2. /\ i - 1 \in DOMAIN evs2 /\ evs2[i - 1] = evs[i]
          /\ j - 1 \in DOMAIN evs2 /\ evs2[j - 1] = evs[j]
          /\ i - 1 < j - 1
      BY <1>1, <2>1
    <2>3. ASSUME NEW k \in DOMAIN evs2, k \notin {i - 1, j - 1} PROVE ~IsStorage(evs2[k])
      <3>1. k + 1 \in DOMAIN evs /\ k + 1 \notin {i, j} /\ evs2[k] = evs[k + 1]
        BY <1>1, <2>3
      <3> QED
        BY <2>1, <3>1
    <2> QED
      BY <2>1, <2>2, <2>3 DEF Two
  <1> QED
    BY <1>2, <1>3, <1>4 DEF SameStorage

LEMMA NoEvents ==
    /\ None(<<>>)
    /\ \A evs : evs = <<>> => \A c, d : ~One(evs, c) /\ ~Two(evs, c, d)
  BY DEF None, One, Two

\* A TRB is appended to, or taken from, a queue.
Appended(q, q2, s) ==
    /\ q = <<>> => Single(q2, s)
    /\ Single(q, "data") => Double(q2, "data", s)
    /\ Single(q, "csw") => Double(q2, "csw", s)

LEMMA TrbAppended ==
    ASSUME NEW q \in Seq(Trb), NEW t \in Trb, NEW q2, q2 = Append(q, t)
    PROVE  /\ Appended(q, q2, t.stage)
           /\ \A c : (q = <<>> \/ Own(q, c)) /\ t.call = c => Own(q2, c)
  <1>1. Appended(q, q2, t.stage)
    BY DEF Appended, Single, Double
  <1>2. ASSUME NEW c, q = <<>> \/ Own(q, c), t.call = c PROVE Own(q2, c)
    <2>1. \A i \in DOMAIN q2 : (i \in DOMAIN q /\ q2[i] = q[i]) \/ q2[i] = t
      OBVIOUS
    <2> QED
      BY <1>2, <2>1 DEF Own
  <1> QED
    BY <1>1, <1>2

LEMMA TrbTaken ==
    ASSUME NEW q \in Seq(Trb), NEW q2, q2 = Tail(q)
    PROVE  /\ \A s : Single(q, s) => q2 = <<>> /\ Head(q).stage = s
           /\ \A s, t : Double(q, s, t) => Single(q2, t) /\ Head(q).stage = s
           /\ \A c : Own(q, c) /\ q # <<>> => Own(q2, c) /\ Head(q).call = c
  <1>1. ASSUME NEW s, Single(q, s) PROVE q2 = <<>> /\ Head(q).stage = s
    BY <1>1 DEF Single
  <1>2. ASSUME NEW s, NEW t, Double(q, s, t) PROVE Single(q2, t) /\ Head(q).stage = s
    <2>1. Len(q) = 2 /\ q[1].stage = s /\ q[2].stage = t
      BY <1>2 DEF Double
    <2>5. Len(q) = 2
      BY <2>1
    <2>6. q # <<>>
      BY <2>5
    <2>2. q # <<>> /\ Head(q) = q[1]
      BY <2>6
    <2>3. Len(q2) = 1 /\ \A i \in DOMAIN q2 : q2[i] = q[i + 1]
      BY <2>1, <2>2
    <2>4. q2[1] = q[2]
      BY <2>3
    <2> QED
      BY <2>1, <2>2, <2>3, <2>4 DEF Single
  <1>3. ASSUME NEW c, Own(q, c), q # <<>> PROVE Own(q2, c) /\ Head(q).call = c
    <2>1. \A i \in DOMAIN q2 : i + 1 \in DOMAIN q /\ q2[i] = q[i + 1]
      BY <1>3
    <2>2. 1 \in DOMAIN q /\ Head(q) = q[1]
      BY <1>3
    <2> QED
      BY <1>3, <2>1, <2>2 DEF Own
  <1> QED
    BY <1>1, <1>2, <1>3

LEMMA QueueEmpty ==
    /\ \A q, s : Single(q, s) => q # <<>>
    /\ \A q, s, t : Double(q, s, t) => q # <<>>
    /\ \A c : Own(<<>>, c)
  BY DEF Single, Double, Own
-----------------------------------------------------------------------------
(* The device's steps *)

StorageInv == UsbTypes /\ RunInv /\ events \in Seq(RingEvent) /\ Where /\ Landed

\* A queue after its first TRB was taken.
Popped(q, q2) ==
    /\ Single(q, "cbw") \/ Single(q, "data") \/ Single(q, "csw") => q2 = <<>>
    /\ Double(q, "data", "data") \/ Double(q, "csw", "data") => Single(q2, "data")
    /\ Double(q, "data", "csw") \/ Double(q, "csw", "csw") => Single(q2, "csw")

\* Its first TRB.
Heads(q) ==
    /\ Single(q, "cbw") => Head(q).stage = "cbw"
    /\ Single(q, "data") \/ Double(q, "data", "data") \/ Double(q, "data", "csw") => Head(q).stage = "data"
    /\ Single(q, "csw") \/ Double(q, "csw", "data") \/ Double(q, "csw", "csw") => Head(q).stage = "csw"

\* The rings after a completion on e; after an error e keeps its TRBs.
Completes(e, cc) ==
    /\ None(events) => One(events', cc)
    /\ One(events, "ok") => Two(events', "ok", cc)
    /\ IF cc = "error" THEN ep'[e].q = ep[e].q ELSE Popped(ep[e].q, ep'[e].q)
    /\ Heads(ep[e].q)
    /\ Own(ep["out"].q, host.call) => Own(ep'["out"].q, host.call)
    /\ RunOf(ep["in"].q, host.run) => RunOf(ep'["in"].q, host.run)
    /\ ep'[e].halted = (cc = "error") /\ ~ep'[e].skewed
    /\ ep[e].q # <<>> /\ ~ep[e].halted

\* The endpoint that completes nothing.
Other(e) == IF e = "in" THEN "out" ELSE "in"

LEMMA ExecutedCompletes ==
    ASSUME UsbTypes, events \in Seq(RingEvent), NEW e \in {"in", "out"}, NEW cc \in {"ok", "short", "error"},
           Executed(e, cc), Ready(e)
    PROVE  Completes(e, cc) /\ host' = host /\ ep'[Other(e)] = ep[Other(e)]
  <1>1. ep[e].q \in Seq(Trb) /\ ep[e].q # <<>> /\ ~ep[e].halted
    BY DEF UsbTypes, Eps, EpType, Ready
  <1>2. /\ ep'[e].q = IF cc = "error" THEN ep[e].q ELSE Tail(ep[e].q)
        /\ ep'[e].halted = (cc = "error") /\ ~ep'[e].skewed
        /\ events' = Append(events, [slot |-> "msc", cc |-> cc]) /\ host' = host
        /\ ep'[Other(e)] = ep[Other(e)]
    BY DEF Executed, Other
  <1>3. (None(events) => One(events', cc)) /\ (One(events, "ok") => Two(events', "ok", cc))
    BY <1>2, EventAdded
  <1>4. /\ \A s : Single(ep[e].q, s) => Tail(ep[e].q) = <<>> /\ Head(ep[e].q).stage = s
        /\ \A s, t : Double(ep[e].q, s, t) => Single(Tail(ep[e].q), t) /\ Head(ep[e].q).stage = s
        /\ \A c : Own(ep[e].q, c) => Own(Tail(ep[e].q), c)
    BY <1>1, TrbTaken
  <1>5. Heads(ep[e].q) /\ Popped(ep[e].q, Tail(ep[e].q))
    BY <1>4 DEF Heads, Popped
  <1>6. Own(ep["out"].q, host.call) => Own(ep'["out"].q, host.call)
    BY <1>2, <1>4 DEF Other
  <1>7. RunOf(ep["in"].q, host.run) => RunOf(ep'["in"].q, host.run)
    BY <1>1, <1>2, RunTaken DEF Other
  <1> QED
    BY <1>1, <1>2, <1>3, <1>5, <1>6, <1>7 DEF Completes

\* A TRB in use belongs to the running call.
LEMMA HeadIsOwn ==
    ASSUME UsbTypes, Current, ep["out"].q # <<>>
    PROVE  Head(ep["out"].q).call = host.call
  <1>1. ep["out"].q \in Seq(Trb)
    BY DEF UsbTypes, Eps, EpType
  <1> QED
    BY <1>1, TrbTaken DEF Current

LEMMA TakesCommandKeeps ==
    ASSUME StorageInv, TakesCommand, faults <= 1
    PROVE  Where' /\ Landed'
  <1> USE DEF InSync, Halted, OutReset, DataLost, InReset, Late, LateCommand, LateData, LateStatus, Stuck,
              Left, Holds, HoldsTwo, Empty, Straight, OneMoved, TwoMoved
  <1>1. /\ Completes("out", "ok") /\ host' = host /\ ep'["in"] = ep["in"]
        /\ dev.state = "ready" /\ dev'.call \in {Head(ep["out"].q).call, host.call}
        /\ dev'.state = StateFor(dev'.call) /\ dev'.status = "passed"
        /\ Head(ep["out"].q).stage = "cbw" /\ buf' = buf /\ medium' = medium /\ faults' = faults
    BY TakesCommandTyped, ExecutedCompletes DEF StorageInv, Other
  <1>2. Where /\ Current
    BY <1>1 DEF StorageInv, Where
  <1>3. dev'.call = host.call /\ dev'.state = StateFor(host.call) /\ Current'
    BY <1>1, <1>2, HeadIsOwn DEF Completes, Current, StorageInv
  <1>4. /\ ep["out"].q # <<>> /\ ~ep["out"].halted /\ ~Single(ep["out"].q, "data")
        /\ StateFor(host.call) # "ready"
    BY <1>1 DEF Completes, Heads, StateFor
  <1>5. /\ host.pc = "cbw" /\ None(events) /\ Single(ep["out"].q, "cbw") /\ ~ep["in"].skewed
        /\ Empty("in") \/ (Left /\ faults = 1)
    BY <1>1, <1>2, <1>4 DEF Where
  <1>6. One(events', "ok") /\ ep'["out"].q = <<>> /\ ~ep'["out"].halted /\ ~ep'["out"].skewed
    BY <1>1, <1>5 DEF Completes, Popped
  <1>9. faults = 0 => Unhurt' /\ OnTrack'
    BY <1>1, <1>2, <1>5 DEF Where, Unhurt, OnTrack, Completes
  <1>7. Where'
    BY <1>1, <1>2, <1>3, <1>5, <1>6, <1>9 DEF Where, StateFor
  <1>8. Landed'
    BY <1>1, <1>3 DEF StorageInv, Landed, OnMedium, WriteIsOnMedium, StateFor
  <1> QED
    BY <1>7, <1>8

LEMMA RejectsCommandKeeps ==
    ASSUME StorageInv, RejectsCommand, faults <= 1
    PROVE  Where' /\ Landed'
  <1> USE DEF InSync, Halted, OutReset, DataLost, InReset, Late, LateCommand, LateData, LateStatus, Stuck,
              Left, Holds, HoldsTwo, Empty, Straight, OneMoved, TwoMoved
  <1>1. /\ Single(ep["out"].q, "cbw") => Head(ep["out"].q).stage = "cbw"
        /\ ep["out"].q # <<>> /\ ~ep["out"].halted /\ host' = host
        /\ dev.state = "ready" /\ dev'.state = "stalled" /\ Head(ep["out"].q).stage = "data"
        /\ buf' = buf /\ medium' = medium /\ faults' = faults
    BY RejectsCommandTyped, ExecutedCompletes DEF StorageInv, DevMoves, Completes, Heads
  <1>2. Where /\ StateFor(host.call) # "ready"
    BY DEF StorageInv, StateFor
  <1>3. faults = 1
    BY <1>1, <1>2 DEF Where
  <1>4. Landed'
    BY <1>1 DEF StorageInv, Landed, OnMedium, WriteIsOnMedium
  <1> QED
    BY <1>1, <1>3, <1>4 DEF Where

\* What TakesData does to the medium is what the running write asks for.
LEMMA TakesDataKeeps ==
    ASSUME StorageInv, TakesData, faults <= 1
    PROVE  /\ Where' /\ Landed'
           /\ host.pc # "idle" /\ host.call.op = "write"
           /\ medium' = medium \/ medium' = [medium EXCEPT ![host.call.lba] = host.call.val]
  <1> USE DEF InSync, Halted, OutReset, DataLost, InReset, Late, LateCommand, LateData, LateStatus, Stuck,
              Left, Holds, HoldsTwo, Empty, Straight, OneMoved, TwoMoved
  <1>1. /\ Completes("out", "ok") /\ host' = host /\ ep'["in"] = ep["in"]
        /\ dev.state = "out" /\ dev'.state = "status" /\ dev'.call = dev.call
        /\ buf' = buf /\ faults' = faults
        /\ \/ /\ Head(ep["out"].q).stage = "data" /\ dev'.status = dev.status
              /\ \/ dev.status = "failed" /\ medium' = medium
                 \/ \E c \in {Head(ep["out"].q).call, host.call} :
                      medium' = [medium EXCEPT ![dev.call.lba] = c.val]
           \/ /\ Head(ep["out"].q).stage # "data" /\ dev'.status = "failed"
              /\ medium' = medium
    BY TakesDataTyped, ExecutedCompletes DEF StorageInv, Other, DevMoves
  <1>2. Where /\ Current
    BY <1>1 DEF StorageInv, Where
  <1>3. dev.call = host.call /\ host.call.op = "write" /\ StateFor(host.call) = "out"
    BY <1>1, <1>2 DEF Current, StorageInv, RunInv, StateFor
  <1>4. ep["out"].q # <<>> /\ ~ep["out"].halted
    BY <1>1 DEF Completes
  <1>5. /\ None(events)
        /\ \/ host.pc = "data" /\ Single(ep["out"].q, "data") /\ Empty("in") /\ Straight /\ InSync
           \/ host.pc = "data" /\ Single(ep["out"].q, "data") /\ Left /\ Straight /\ faults = 1
           \/ host.pc = "cbw" /\ Single(ep["out"].q, "cbw") /\ Holds("in", "csw") /\ ~ep["in"].skewed
              /\ faults = 1
    BY <1>1, <1>2, <1>3, <1>4 DEF Where
  <1>6. /\ One(events', "ok") /\ ep'["out"].q = <<>> /\ ~ep'["out"].halted /\ ~ep'["out"].skewed
        /\ Own(ep'["out"].q, host.call)
        /\ Single(ep["out"].q, "data") => dev'.status = dev.status
    BY <1>1, <1>2, <1>5 DEF Completes, Popped, Heads, Current
  <1>7. Current'
    BY <1>1, <1>3, <1>6 DEF Current
  <1>8. faults = 0 => Unhurt /\ InSync
    BY <1>1, <1>2 DEF Where
  <1>9. Where'
    <2>1. faults = 0 => Unhurt' /\ OnTrack'
      BY <1>1, <1>2, <1>5, <1>6 DEF Where, Unhurt, OnTrack, Completes
    <2> QED
      BY <1>1, <1>3, <1>5, <1>6, <1>7, <1>8, <2>1 DEF Where
  <1>10. /\ medium' = medium \/ medium' = [medium EXCEPT ![host.call.lba] = host.call.val]
         /\ dev'.status = "passed" => medium' = [medium EXCEPT ![host.call.lba] = host.call.val]
    BY <1>1, <1>2, <1>3, <1>4, HeadIsOwn DEF StorageInv, UsbTypes, DevType
  <1>11. host.pc # "idle" /\ host.call.lba \in Lba
    BY <1>3, <1>5 DEF StorageInv, UsbTypes, HostType, CallType
  <1>12. (OnMedium => OnMedium') /\ (dev'.status = "passed" => OnMedium')
    BY <1>1, <1>10, <1>11 DEF OnMedium, StorageInv, UsbTypes
  <1>13. Landed'
    BY <1>1, <1>11, <1>12 DEF StorageInv, Landed, WriteIsOnMedium
  <1> QED
    BY <1>3, <1>9, <1>10, <1>11, <1>13

LEMMA SendsDataKeeps ==
    ASSUME StorageInv, SendsData, faults <= 1
    PROVE  Where' /\ Landed'
  <1> USE DEF InSync, Halted, OutReset, DataLost, InReset, Late, LateCommand, LateData, LateStatus, Stuck,
              Left, Holds, HoldsTwo, Empty, Straight, OneMoved, TwoMoved
  <1>1. /\ dev.state = "in" /\ medium' = medium /\ faults' = faults /\ buf'.csw = buf.csw
        /\ host' = host /\ ep'["out"] = ep["out"] /\ dev'.call = dev.call /\ dev'.status = dev.status
        /\ \/ dev.status = "failed" /\ Completes("in", "short") /\ dev'.state = "status"
           \/ /\ dev.status = "passed" /\ Head(ep["in"].q).stage = "data"
              /\ Completes("in", "ok") /\ dev'.state = "status"
           \/ /\ dev.status = "passed" /\ Head(ep["in"].q).stage = "csw"
              /\ Completes("in", "error") /\ dev'.state = "in"
    BY SendsDataTyped, ExecutedCompletes DEF StorageInv, Other, DevMoves
  <1>2. Where /\ (Current \/ (Stuck /\ faults = 1))
    BY <1>1 DEF StorageInv, Where
  <1>4. ep["in"].q # <<>> /\ ~ep["in"].halted
    BY <1>1 DEF Completes
  <1>3. Current /\ dev.call = host.call /\ host.call.op = "read" /\ StateFor(host.call) = "in"
    BY <1>1, <1>2, <1>4 DEF Current, StorageInv, RunInv, StateFor
  <1>5. /\ Empty("out") /\ ~ep["out"].skewed
        /\ \/ host.pc = "data" /\ None(events) /\ Single(ep["in"].q, "data") /\ InSync
           \/ /\ faults = 1 /\ dev.status = "passed"
              /\ \/ host.pc = "csw" /\ None(events) /\ Single(ep["in"].q, "csw")
                 \/ host.pc = "cbw" /\ One(events, "ok") /\ Left
                 \/ host.pc = "data" /\ None(events)
                    /\ (HoldsTwo("data", "data") \/ HoldsTwo("csw", "data"))
    BY <1>1, <1>2, <1>3, <1>4 DEF Where
  <1>6. faults = 0 => Unhurt /\ InSync
    BY <1>1, <1>2 DEF Where
  <1>7. Current'
    BY <1>1, <1>3 DEF Current
  <1>8. CASE (dev'.state = "status" /\ Head(ep["in"].q).stage = "data") \/ dev.status = "failed"
    <2>1. PICK cc \in {"ok", "short"} : Completes("in", cc) /\ (dev.status = "passed" => cc = "ok")
      BY <1>1, <1>8
    <2>2. /\ None(events) => OneMoved(events')
          /\ dev.status = "passed" /\ None(events) => One(events', "ok")
          /\ dev.status = "passed" /\ One(events, "ok") => Two(events', "ok", "ok")
          /\ ~ep'["in"].halted /\ ~ep'["in"].skewed
          /\ Popped(ep["in"].q, ep'["in"].q) /\ Heads(ep["in"].q)
      BY <2>1 DEF Completes
    <2>3. dev'.state = "status" /\ (dev.status = "passed" => Head(ep["in"].q).stage = "data")
      BY <1>1, <1>8
    <2>4. /\ host.pc = "data" /\ OneMoved(events') /\ Empty("in")' /\ InSync
          \/ /\ faults = 1
             /\ \/ host.pc = "cbw" /\ Two(events', "ok", "ok") /\ Empty("in")'
                \/ host.pc = "data" /\ One(events', "ok") /\ Holds("in", "data")'
      BY <1>5, <2>2, <2>3 DEF Popped, Heads
    <2>5. Where'
      <3>1. faults = 0 => Unhurt' /\ OnTrack'
        BY <1>1, <1>2, <1>5, <2>1 DEF Where, Unhurt, OnTrack, Completes
      <3> QED
        BY <1>1, <1>3, <1>5, <1>6, <1>7, <2>2, <2>3, <2>4, <3>1 DEF Where
    <2> QED
      BY <1>1, <1>3, <2>3, <2>5 DEF Landed, StorageInv, OnMedium, WriteIsOnMedium
  <1>9. CASE dev'.state = "in"
    <2>1. /\ None(events) => One(events', "error")
          /\ One(events, "ok") => Two(events', "ok", "error")
          /\ ep'["in"].halted /\ ~ep'["in"].skewed
          /\ dev.status = "passed"
          /\ ~Single(ep["in"].q, "data")
      BY <1>1, <1>9 DEF Completes, Heads
    <2>2. Where'
      BY <1>1, <1>3, <1>5, <1>6, <1>7, <1>9, <2>1 DEF Where
    <2> QED
      BY <1>1, <1>9, <2>2 DEF Landed, StorageInv, OnMedium, WriteIsOnMedium
  <1> QED
    BY <1>1, <1>8, <1>9

LEMMA SendsStatusKeeps ==
    ASSUME StorageInv, SendsStatus, faults <= 1
    PROVE  Where' /\ Landed'
  <1> USE DEF InSync, Halted, OutReset, DataLost, InReset, Late, LateCommand, LateData, LateStatus, Stuck,
              Left, Holds, HoldsTwo, Empty, Straight, OneMoved, TwoMoved
  <1>1. /\ dev.state = "status" /\ medium' = medium /\ faults' = faults
        /\ host' = host /\ ep'["out"] = ep["out"]
        /\ dev'.state = "ready" /\ dev'.call = dev.call /\ dev'.status = dev.status
        /\ \/ /\ Head(ep["in"].q).stage = "csw" /\ Completes("in", "ok")
              /\ buf'.csw \in {buf.csw, <<dev.call.tag, dev.status>>}
              /\ Head(ep["in"].q).run = host.run => buf'.csw = <<dev.call.tag, dev.status>>
           \/ /\ Head(ep["in"].q).stage # "csw" /\ Completes("in", "short")
              /\ buf'.csw = buf.csw
    BY SendsStatusTyped, ExecutedCompletes DEF StorageInv, Other, DevMoves
  <1>2. Where /\ Current
    BY <1>1 DEF StorageInv, Where
  <1>3. dev.call = host.call /\ Current'
    BY <1>1, <1>2 DEF Current
  <1>4. /\ ep["in"].q # <<>> /\ ~ep["in"].halted /\ ~ep'["in"].halted /\ ~ep'["in"].skewed
        /\ Heads(ep["in"].q) /\ Popped(ep["in"].q, ep'["in"].q)
        /\ Head(ep["in"].q).stage = "csw" /\ None(events) => One(events', "ok")
        /\ None(events) => OneMoved(events')
        /\ Head(ep["in"].q).stage = "csw" /\ One(events, "ok") => Two(events', "ok", "ok")
        /\ One(events, "ok") => TwoMoved(events')
    BY <1>1 DEF Completes
  <1>5. /\ ~ep["out"].skewed
        /\ \/ host.pc = "csw" /\ None(events) /\ Single(ep["in"].q, "csw") /\ Empty("out")
           \/ /\ faults = 1 /\ host.call.op = "write"
              /\ \/ host.pc = "cbw" /\ One(events, "ok") /\ Single(ep["in"].q, "csw") /\ Empty("out")
                 \/ host.pc = "data" /\ None(events) /\ Single(ep["in"].q, "csw") /\ Holds("out", "data")
           \/ /\ faults = 1
              /\ \/ host.pc = "cbw" /\ host.call.op = "sync" /\ One(events, "ok") /\ Left /\ Empty("out")
                 \/ host.pc = "data" /\ One(events, "ok") /\ Left /\ Empty("out")
                 \/ host.pc = "csw" /\ None(events) /\ Empty("out")
                    /\ (HoldsTwo("data", "csw") \/ HoldsTwo("csw", "csw"))
    <2>1. host.pc # "idle" /\ StateFor(host.call) = "status" => host.call.op = "sync"
      BY DEF StateFor, StorageInv, UsbTypes, RunInv, HostType, CallType
    <2> QED
      BY <1>1, <1>2, <1>4, <2>1 DEF Where
  <1>6. faults = 0 => Unhurt /\ OnTrack /\ host.pc = "csw" /\ None(events)
                       /\ Single(ep["in"].q, "csw")
    BY <1>1, <1>2, <1>5 DEF Where
  <1>9. faults = 0 => Unhurt' /\ OnTrack'
    <2> SUFFICES ASSUME faults = 0 PROVE Unhurt' /\ OnTrack'
      OBVIOUS
    <2>1. ep["in"].q \in Seq(Trb) /\ RunOf(ep["in"].q, host.run)
      BY <1>6 DEF StorageInv, UsbTypes, Eps, EpType, OnTrack
    <2>2. Head(ep["in"].q).run = host.run /\ RunOf(ep'["in"].q, host.run)
      BY <1>1, <1>4, <2>1, RunTaken DEF Completes
    <2>3. buf'.csw = <<host.call.tag, "passed">>
      BY <1>1, <1>3, <1>4, <1>6, <2>2 DEF Heads, Unhurt
    <2>4. CswGood'
      BY <1>1, <2>3 DEF CswGood
    <2> QED
      BY <1>1, <1>6, <2>2, <2>4 DEF Unhurt, OnTrack
  <1>7. Where'
    <2>1. \/ host.pc = "csw" /\ One(events', "ok") /\ Empty("in")' /\ Empty("out")
          \/ /\ faults = 1 /\ host.call.op = "write"
             /\ \/ host.pc = "cbw" /\ Two(events', "ok", "ok") /\ Empty("in")' /\ Empty("out")
                \/ host.pc = "data" /\ One(events', "ok") /\ Empty("in")' /\ Holds("out", "data")
          \/ /\ faults = 1
             /\ \/ host.pc = "cbw" /\ host.call.op = "sync" /\ TwoMoved(events') /\ Empty("in")' /\ Empty("out")
                \/ host.pc = "data" /\ TwoMoved(events') /\ Empty("in")' /\ Empty("out")
                \/ host.pc = "csw" /\ OneMoved(events') /\ Holds("in", "csw")' /\ Empty("out")
      BY <1>4, <1>5 DEF Popped, Heads
    <2> QED
      BY <1>1, <1>3, <1>4, <1>5, <1>9, <2>1 DEF Where
  <1>8. Landed'
    <2>1. OnMedium' = OnMedium
      BY <1>1 DEF OnMedium
    <2>2. host.call.op = "write" /\ buf'.csw = <<host.call.tag, "passed">> => OnMedium
      <3>1. CASE buf'.csw = buf.csw
        BY <3>1 DEF StorageInv, Landed
      <3>2. CASE buf'.csw = <<dev.call.tag, dev.status>> /\ buf'.csw = <<host.call.tag, "passed">>
        <4>1. dev.status = "passed"
          BY <3>2
        <4> QED
          BY <1>1, <4>1 DEF StorageInv, Landed
      <3> QED
        BY <1>1, <3>1, <3>2
    <2> QED
      BY <1>1, <2>1, <2>2 DEF StorageInv, Landed, WriteIsOnMedium, OnMedium
  <1> QED
    BY <1>7, <1>8

LEMMA TakenForRepetitionKeeps ==
    ASSUME StorageInv, TakenForRepetition, faults <= 1
    PROVE  Where' /\ Landed'
  <1> USE DEF InSync, Halted, OutReset, DataLost, InReset, Late, LateCommand, LateData, LateStatus, Stuck,
              Left, Holds, HoldsTwo, Empty, Straight, OneMoved, TwoMoved
  <1>1. buf' = buf /\ medium' = medium /\ faults' = faults /\ Where
    BY TakenForRepetitionTyped DEF StorageInv
  <1>2. CASE /\ Ready("in") /\ ep["in"].skewed
             /\ \/ dev.state = "in" /\ DevMoves("status", dev.status)
                \/ dev.state = "status" /\ DevMoves("ready", dev.status)
             /\ ep' \in Eps /\ ep'["out"] = ep["out"]
             /\ ep'["in"].q = ep["in"].q /\ ~ep'["in"].halted /\ ~ep'["in"].skewed
             /\ events' = events /\ host' = host
    <2>1. /\ ep["in"].q # <<>> /\ dev'.call = dev.call /\ dev'.status = dev.status
          /\ (dev.state = "in" /\ dev'.state = "status") \/ (dev.state = "status" /\ dev'.state = "ready")
      BY <1>2 DEF Ready, DevMoves
    <2>2. faults = 1 /\ Current /\ host.pc = "csw" /\ None(events) /\ Single(ep["in"].q, "csw")
          /\ Empty("out") /\ ~ep["out"].skewed
      BY <1>1, <1>2, <2>1 DEF Where
    <2>3. Current' /\ dev.call = host.call
      BY <1>2, <2>1, <2>2 DEF Current
    <2>4. Where'
      BY <1>1, <1>2, <2>1, <2>2, <2>3 DEF Where
    <2>5. dev'.state = "status" => host.call.op = "read"
      BY <2>1, <2>3 DEF StorageInv, RunInv
    <2>6. Landed'
      BY <1>1, <1>2, <2>5 DEF StorageInv, Landed, OnMedium, WriteIsOnMedium
    <2> QED
      BY <2>4, <2>6
  <1>3. CASE Ready("out") /\ ep["out"].skewed /\ dev.state \in {"ready", "out"}
             /\ Executed("out", "ok") /\ dev' = dev
    <2>1. Completes("out", "ok") /\ host' = host /\ ep'["in"] = ep["in"]
      BY <1>3, ExecutedCompletes DEF StorageInv, Other
    <2>2. ep["out"].q # <<>> /\ StateFor(host.call) # "ready"
      BY <2>1 DEF Completes, StateFor
    <2>3. /\ faults = 1 /\ Current /\ host.pc = "cbw" /\ None(events) /\ Single(ep["out"].q, "cbw")
          /\ ~ep["in"].skewed /\ (dev.state = "in" => dev.status = "passed")
          /\ \/ Empty("in") /\ dev.state = "ready"
             \/ host.call.op = "write" /\ Holds("in", "csw") /\ dev.state = "out"
      BY <1>1, <1>3, <2>2 DEF Where
    <2>4. One(events', "ok") /\ ep'["out"].q = <<>> /\ ~ep'["out"].halted /\ ~ep'["out"].skewed
      BY <2>1, <2>3 DEF Completes, Popped
    <2>5. Current'
      BY <1>3, <2>1, <2>3 DEF Current, Completes
    <2>6. host.call.op = "write" => StateFor(host.call) = "out"
      BY DEF StateFor
    <2>7. Where'
      BY <1>1, <1>3, <2>1, <2>3, <2>4, <2>5, <2>6 DEF Where, StateFor
    <2>8. Landed'
      BY <1>1, <1>3, <2>1 DEF StorageInv, Landed, OnMedium, WriteIsOnMedium
    <2> QED
      BY <2>7, <2>8
  <1> QED
    BY <1>2, <1>3, TakenForRepetitionTyped DEF StorageInv

LEMMA StallsKeeps ==
    ASSUME StorageInv, Stalls, faults <= 1
    PROVE  Where' /\ Landed'
  <1> USE DEF InSync, Halted, OutReset, DataLost, InReset, Late, LateCommand, LateData, LateStatus, Stuck,
              Left, Holds, HoldsTwo, Empty, Straight, OneMoved, TwoMoved
  <1>1. buf' = buf /\ medium' = medium /\ dev' = dev /\ host' = host /\ faults' = faults
    BY ErrorTyped DEF StorageInv, Executed, Stalls
  <1>2. dev.state = "stalled" /\ StateFor(host.call) # "stalled"
    BY DEF Stalls, StateFor
  <1>3. faults = 1
    BY <1>2 DEF StorageInv, Where
  <1> QED
    BY <1>1, <1>2, <1>3 DEF StorageInv, Where, Landed, OnMedium, WriteIsOnMedium

LEMMA BusErrorKeeps ==
    ASSUME StorageInv, BusError, faults' <= 1
    PROVE  Where' /\ Landed'
  <1> USE DEF InSync, Halted, OutReset, DataLost, InReset, Late, LateCommand, LateData, LateStatus, Stuck,
              Left, Holds, HoldsTwo, Empty, Straight, OneMoved, TwoMoved
  <1>1. PICK e \in {"in", "out"} : Ready(e) /\ Executed(e, "error")
    BY ErrorTyped DEF StorageInv
  <1>2. /\ buf' = buf /\ medium' = medium /\ dev' = dev /\ host' = host
        /\ Completes(e, "error") /\ ep'[Other(e)] = ep[Other(e)]
    BY <1>1, ErrorTyped, ExecutedCompletes DEF StorageInv
  <1>3. faults = 0 /\ faults' = 1
    BY DEF BusError, StorageInv, UsbTypes
  <1>4. InSync /\ Current /\ Unhurt
    BY <1>3 DEF StorageInv, Where
  <1>5. ep[e].q # <<>> /\ ep'[e].halted /\ ~ep'[e].skewed /\ (None(events) => One(events', "error"))
    BY <1>2 DEF Completes
  <1>6. Current'
    BY <1>2, <1>4 DEF Current, Completes
  <1>7. Where'
    <2>1. CASE e = "in"
      <3>1. None(events) /\ Empty("out") /\ Straight /\ ep'["out"] = ep["out"]
            /\ \/ host.pc = "data" /\ dev.state = "in"
               \/ host.pc = "csw" /\ dev.state = "status"
        BY <1>2, <1>4, <1>5, <2>1 DEF Other
      <3> QED
        BY <1>2, <1>3, <1>4, <1>5, <1>6, <2>1, <3>1 DEF Where, Unhurt
    <2>2. CASE e = "out"
      <3>1. None(events) /\ Empty("in") /\ Straight /\ ep'["in"] = ep["in"]
            /\ \/ host.pc = "data" /\ dev.state = "out"
               \/ host.pc = "cbw" /\ dev.state = "ready"
        BY <1>2, <1>4, <1>5, <2>2 DEF Other
      <3>2. host.attempt = 1
        BY <1>4, <3>1 DEF Unhurt, StorageInv, RunInv, UsbTypes, HostType
      <3> QED
        BY <1>2, <1>3, <1>4, <1>5, <1>6, <2>2, <3>1, <3>2 DEF Where, Unhurt
    <2> QED
      BY <2>1, <2>2
  <1>8. Landed'
    BY <1>2 DEF StorageInv, Landed, OnMedium, WriteIsOnMedium
  <1> QED
    BY <1>7, <1>8
-----------------------------------------------------------------------------
(* The driver's steps *)

\* The storage event that comes first, and what is left when it is consumed.
Answered ==
    /\ ~None(events)
    /\ One(events, "ok") => Head(events).cc = "ok"
    /\ One(events, "short") => Head(events).cc = "short"
    /\ One(events, "error") => Head(events).cc = "error"
    /\ Two(events, "ok", "ok") \/ Two(events, "ok", "short") \/ Two(events, "ok", "error")
         => Head(events).cc = "ok"

Remains ==
    /\ One(events, "ok") \/ One(events, "short") \/ One(events, "error") => None(events')
    /\ Two(events, "ok", "ok") => One(events', "ok")
    /\ Two(events, "ok", "short") => One(events', "short")
    /\ Two(events, "ok", "error") => One(events', "error")

LEMMA StageAnswered ==
    ASSUME events \in Seq(RingEvent), NEW stage, NEW ccs, Completed(stage, ccs)
    PROVE  /\ Answered /\ Head(events).cc \in ccs /\ host.pc = stage
           /\ dev' = dev /\ medium' = medium /\ faults' = faults
           /\ Consumed => Remains
           /\ Drained => None(events')
  <1>1. events # <<>> /\ IsStorage(Head(events))
    BY DEF Completed
  <1>2. /\ ~None(events)
        /\ \A c : One(events, c) => Head(events).cc = c /\ None(Tail(events))
        /\ \A c, d : Two(events, c, d) => Head(events).cc = c /\ One(Tail(events), d)
    BY <1>1, EventConsumed
  <1>3. Answered
    BY <1>2 DEF Answered
  <1>4. Consumed => Remains
    BY <1>2 DEF Consumed, Remains
  <1>5. Drained => None(events')
    BY NoEvents DEF Drained
  <1> QED
    BY <1>3, <1>4, <1>5 DEF Completed

\* A TRB of call c for the given stage was queued on e of eps.
Queues(eps, e, stage, c) ==
    /\ Appended(eps[e].q, ep'[e].q, stage)
    /\ ep'[e].halted = eps[e].halted /\ ep'[e].skewed = eps[e].skewed
    /\ ep'[Other(e)] = eps[Other(e)]
    /\ eps[e].q = <<>> \/ Own(eps[e].q, c) => Own(ep'[e].q, c)

LEMMA QueuedQueues ==
    ASSUME NEW eps \in Eps, NEW e \in {"in", "out"}, NEW stage, NEW c, Queued(eps, e, stage, c)
    PROVE  Queues(eps, e, stage, c)
  <1>1. PICK t \in Trb : t.stage = stage /\ t.call = c /\ ep'[e].q = Append(eps[e].q, t)
    BY DEF Queued
  <1>2. eps[e].q \in Seq(Trb)
    BY DEF Eps, EpType
  <1>3. /\ Appended(eps[e].q, ep'[e].q, stage)
        /\ eps[e].q = <<>> \/ Own(eps[e].q, c) => Own(ep'[e].q, c)
    BY <1>1, <1>2, TrbAppended
  <1> QED
    BY <1>3 DEF Queued, Queues, Other

\* The write that is running, or that has just been confirmed, stays landed.
LEMMA LandedKept ==
    ASSUME Landed, medium' = medium, host'.call = host.call, dev' = dev,
           buf'.csw = buf.csw \/ buf'.csw = <<>>,
           \/ host'.pc # "idle" \/ host'.result # "ok" \/ host.call.op = "sync"
           \/ buf.csw = <<host.call.tag, "passed">>
    PROVE  Landed'
  <1>1. OnMedium' = OnMedium
    BY DEF OnMedium
  <1>2. <<host.call.tag, "passed">> # <<>>
    OBVIOUS
  <1> QED
    BY <1>1, <1>2 DEF Landed, WriteIsOnMedium, OnMedium

LEMMA CallsKeep ==
    ASSUME StorageInv, Calls, faults <= 1
    PROVE  Where' /\ Landed'
  <1> USE DEF InSync, Halted, OutReset, DataLost, InReset, Late, LateCommand, LateData, LateStatus, Stuck,
              Left, Holds, HoldsTwo, Empty, Straight, OneMoved, TwoMoved
  <1>1. /\ NewCall(ep) /\ host.pc = "idle" /\ events' = events /\ dev' = dev /\ medium' = medium
        /\ faults' = faults
    BY CallsBegin DEF StorageInv
  <1>2. /\ host'.pc = "cbw" /\ host'.attempt = 1 /\ host'.csw_tries = 0 /\ buf'.csw = <<>>
        /\ Queues(ep, "out", "cbw", host'.call)
    BY <1>1, QueuedQueues DEF NewCall, StorageInv, UsbTypes
  <1>3. Where
    BY DEF StorageInv
  <1>4. \/ /\ None(events) /\ Empty("out") /\ ~ep["in"].skewed /\ dev.state = "ready"
           /\ \/ InSync /\ Empty("in") /\ Straight
              \/ faults = 1 /\ Empty("in")
              \/ faults = 1 /\ Left /\ Straight
        \/ faults = 1 /\ (Stuck \/ dev.state = "stalled")
    BY <1>1, <1>3 DEF Where
  <1>5. dev.state \in {"ready", "in", "stalled"}
    BY <1>4
  <1>6. Landed'
    <2>1. <<host'.call.tag, "passed">> # <<>>
      OBVIOUS
    <2> QED
      BY <1>1, <1>2, <1>5, <2>1 DEF Landed, WriteIsOnMedium
  <1>7. CASE faults = 1 /\ (Stuck \/ dev.state = "stalled")
    <2>1. (Stuck \/ dev.state = "stalled")'
      BY <1>1, <1>2, <1>7 DEF Queues, Other
    <2> QED
      BY <1>1, <1>6, <1>7, <2>1 DEF Where
  <1>8. CASE /\ None(events) /\ Empty("out") /\ ~ep["in"].skewed /\ dev.state = "ready"
             /\ \/ InSync /\ Empty("in") /\ Straight
                \/ faults = 1 /\ Empty("in")
                \/ faults = 1 /\ Left /\ Straight
    <2>1. /\ Single(ep'["out"].q, "cbw") /\ ~ep'["out"].halted /\ ep'["out"].skewed = ep["out"].skewed
          /\ ep'["in"] = ep["in"] /\ Own(ep'["out"].q, host'.call)
      BY <1>2, <1>8 DEF Queues, Appended, Other
    <2>2. Current'
      BY <1>1, <1>8, <2>1 DEF Current
    <2>3. faults = 0 => Unhurt' /\ OnTrack'
      <3>1. faults = 0 => Unhurt /\ ep'["in"].q = <<>>
        BY <1>3, <1>8, <2>1 DEF Where
      <3>2. RunOf(<<>>, host'.run)
        BY DEF RunOf
      <3> QED
        BY <1>1, <1>2, <3>1, <3>2 DEF Unhurt, OnTrack
    <2>4. Where'
      BY <1>1, <1>2, <1>8, <2>1, <2>2, <2>3 DEF Where
    <2> QED
      BY <1>6, <2>4
  <1> QED
    BY <1>4, <1>7, <1>8

LEMMA CbwSentKeeps ==
    ASSUME StorageInv, CbwSent, faults <= 1
    PROVE  Where' /\ Landed'
  <1> USE DEF InSync, Halted, OutReset, DataLost, InReset, Late, LateCommand, LateData, LateStatus, Stuck,
              Left, Holds, HoldsTwo, Empty, Straight, OneMoved, TwoMoved
  <1>1. /\ Answered /\ Remains /\ Head(events).cc = "ok" /\ host.pc = "cbw"
        /\ dev' = dev /\ medium' = medium /\ faults' = faults
    BY StageAnswered DEF StorageInv, CbwSent
  <1>2. Where /\ host.call.op \in {"read", "write", "sync"}
    BY <1>1 DEF StorageInv, RunInv, UsbTypes, HostType, CallType
  <1>3. PICK stage \in {"data", "csw"}, e \in {"in", "out"} :
          /\ Proceeded(stage, e, ep) /\ Queues(ep, e, stage, host.call)
          /\ \/ host.call.op = "sync" /\ stage = "csw" /\ e = "in"
             \/ host.call.op = "read" /\ stage = "data" /\ e = "in"
             \/ host.call.op = "write" /\ stage = "data" /\ e = "out"
    <2>1. CASE host.call.op = "sync"
      <3>1. Proceeded("csw", "in", ep)
        BY <2>1, ProceedTyped DEF CbwSent, StorageInv, UsbTypes
      <3>2. Queues(ep, "in", "csw", host.call)
        BY <3>1, QueuedQueues DEF Proceeded, StorageInv, UsbTypes
      <3> QED
        BY <2>1, <3>1, <3>2
    <2>2. CASE host.call.op = "read"
      <3>1. Proceeded("data", "in", ep)
        BY <2>2, ProceedTyped DEF CbwSent, StorageInv, UsbTypes, DataEp
      <3>2. Queues(ep, "in", "data", host.call)
        BY <3>1, QueuedQueues DEF Proceeded, StorageInv, UsbTypes
      <3> QED
        BY <2>2, <3>1, <3>2
    <2>3. CASE host.call.op = "write"
      <3>1. Proceeded("data", "out", ep)
        BY <2>3, ProceedTyped DEF CbwSent, StorageInv, UsbTypes, DataEp
      <3>2. Queues(ep, "out", "data", host.call)
        BY <3>1, QueuedQueues DEF Proceeded, StorageInv, UsbTypes
      <3> QED
        BY <2>3, <3>1, <3>2
    <2> QED
      BY <1>2, <2>1, <2>2, <2>3
  <1>4. /\ host'.pc = stage /\ host'.call = host.call /\ host'.csw_tries = host.csw_tries
        /\ host'.attempt = host.attempt /\ host'.run = host.run /\ buf' = buf
        /\ RunOf(ep["in"].q, host.run) => RunOf(ep'["in"].q, host.run)
    BY <1>3 DEF Proceeded, SameCall
  <1>5. Landed'
    BY <1>1, <1>3, <1>4, LandedKept DEF StorageInv
  <1>6. CASE dev.state = "stalled"
    BY <1>1, <1>2, <1>5, <1>6 DEF Where, StateFor
  <1>7. CASE dev.state # "stalled"
    <2>1. /\ Current /\ ~ep["in"].skewed /\ ~ep["out"].skewed /\ Empty("out")
          /\ dev.state = "in" => (dev.status = "passed" \/ InSync)
          /\ \/ InSync /\ One(events, "ok") /\ Empty("in") /\ dev.state = StateFor(host.call)
             \/ faults = 1 /\ One(events, "ok") /\ Empty("in") /\ dev.state = "ready"
             \/ faults = 1 /\ host.call.op = "write" /\ One(events, "ok") /\ Holds("in", "csw")
                /\ dev.state = "status"
             \/ faults = 1 /\ host.call.op = "write" /\ Two(events, "ok", "ok") /\ Empty("in")
                /\ dev.state = "ready"
             \/ faults = 1 /\ One(events, "ok") /\ Left /\ dev.state = StateFor(host.call)
             \/ faults = 1 /\ host.call.op = "read" /\ Two(events, "ok", "error") /\ ep["in"].halted
                /\ dev.state = "in" /\ dev.status = "passed"
             \/ faults = 1 /\ host.call.op = "read" /\ Two(events, "ok", "ok") /\ Empty("in")
                /\ dev.state = "status"
             \/ faults = 1 /\ host.call.op = "sync" /\ TwoMoved(events) /\ Empty("in") /\ dev.state = "ready"
      BY <1>1, <1>2, <1>7 DEF Where, Answered
    <2>2. /\ Own(ep'["out"].q, host.call) /\ ep'["in"].skewed = ep["in"].skewed
          /\ ep'["out"].skewed = ep["out"].skewed
          /\ ep'["in"].halted = ep["in"].halted /\ ~ep'["out"].halted
      BY <1>3, <2>1 DEF Queues, Current, Other
    <2>3. Current'
      BY <1>1, <1>4, <2>1, <2>2 DEF Current
    <2>4. faults = 0 => Unhurt' /\ OnTrack'
      BY <1>1, <1>2, <1>4, <2>1 DEF Where, Unhurt, OnTrack, Remains
    <2>5. CASE host.call.op = "sync"
      <3>1. stage = "csw" /\ e = "in" /\ StateFor(host.call) = "status"
        BY <1>3, <2>5 DEF StateFor
      <3>2. Where'
        BY <1>1, <1>3, <1>4, <2>1, <2>2, <2>3, <2>4, <2>5, <3>1
           DEF Where, Queues, Appended, Remains, Other
      <3> QED
        BY <1>5, <3>2
    <2>6. CASE host.call.op = "read"
      <3>1. stage = "data" /\ e = "in" /\ StateFor(host.call) = "in"
        BY <1>3, <2>6 DEF StateFor
      <3>2. Where'
        BY <1>1, <1>3, <1>4, <2>1, <2>2, <2>3, <2>4, <2>6, <3>1
           DEF Where, Queues, Appended, Remains, Other
      <3> QED
        BY <1>5, <3>2
    <2>7. CASE host.call.op = "write"
      <3>1. stage = "data" /\ e = "out" /\ StateFor(host.call) = "out"
        BY <1>3, <2>7 DEF StateFor
      <3>2. Where'
        BY <1>1, <1>3, <1>4, <2>1, <2>2, <2>3, <2>4, <2>7, <3>1
           DEF Where, Queues, Appended, Remains, Other
      <3> QED
        BY <1>5, <3>2
    <2> QED
      BY <1>2, <2>5, <2>6, <2>7
  <1> QED
    BY <1>6, <1>7

LEMMA CbwFailedKeeps ==
    ASSUME StorageInv, CbwFailed, faults <= 1
    PROVE  Where' /\ Landed'
  <1> USE DEF InSync, Halted, OutReset, DataLost, InReset, Late, LateCommand, LateData, LateStatus, Stuck,
              Left, Holds, HoldsTwo, Empty, Straight, OneMoved, TwoMoved
  <1>1. /\ Answered /\ None(events') /\ Head(events).cc # "ok" /\ host.pc = "cbw"
        /\ dev' = dev /\ medium' = medium /\ faults' = faults
    BY StageAnswered DEF StorageInv, CbwFailed
  <1>2. Where /\ StateFor(host.call) # "stalled"
    BY DEF StorageInv, StateFor
  <1>3. /\ Reset("out") \in Eps /\ Reset("out")["in"] = ep["in"]
        /\ ep["out"].halted => Reset("out")["out"].q = <<>> /\ ~Reset("out")["out"].halted
    BY ResetTyped DEF StorageInv, UsbTypes
  <1>4. /\ host'.call = host.call /\ (buf' = buf \/ buf'.csw = <<>>)
        /\ \/ host'.pc = "cbw" /\ Queues(Reset("out"), "out", "cbw", host.call)
           \/ /\ host'.pc = "idle" /\ ep' = Reset("out")
              /\ host.call.op = "sync" \/ host'.result # "ok"
    <2>1. Fail(Reset("out"))
      BY DEF CbwFailed
    <2> QED
      BY <1>3, <2>1, FailTyped, QueuedQueues DEF Retried, Over, StorageInv
  <1>5. Landed'
    BY <1>1, <1>4, LandedKept DEF StorageInv
  <1>6. CASE dev.state = "stalled"
    BY <1>1, <1>2, <1>5, <1>6 DEF Where
  <1>7. CASE dev.state # "stalled"
    <2>1. faults = 1 /\ ep["out"].halted /\ Empty("in") /\ ~ep["in"].skewed /\ dev.state = "ready"
      BY <1>1, <1>2, <1>7 DEF Where, Answered
    <2>2. /\ Empty("in")' /\ ~ep'["in"].skewed
          /\ \/ host'.pc = "idle" /\ Empty("out")'
             \/ host'.pc = "cbw" /\ Holds("out", "cbw")'
          /\ Own(ep'["out"].q, host.call)
      BY <1>3, <1>4, <2>1, QueueEmpty DEF Queues, Appended, Other
    <2>3. Current'
      BY <1>1, <1>4, <2>1, <2>2 DEF Current
    <2>4. Where'
      BY <1>1, <2>1, <2>2, <2>3 DEF Where
    <2> QED
      BY <1>5, <2>4
  <1> QED
    BY <1>6, <1>7

LEMMA DataMovedKeeps ==
    ASSUME StorageInv, DataMoved, faults <= 1
    PROVE  Where' /\ Landed'
  <1> USE DEF InSync, Halted, OutReset, DataLost, InReset, Late, LateCommand, LateData, LateStatus, Stuck,
              Left, Holds, HoldsTwo, Empty, Straight, OneMoved, TwoMoved
  <1>1. /\ Answered /\ Remains /\ Head(events).cc # "error" /\ host.pc = "data"
        /\ dev' = dev /\ medium' = medium /\ faults' = faults
    BY StageAnswered DEF StorageInv, DataMoved
  <1>2. Where /\ StateFor(host.call) # "stalled"
    BY DEF StorageInv, StateFor
  <1>3. Proceeded("csw", "in", ep)
    BY ProceedTyped DEF DataMoved, StorageInv, UsbTypes
  <1>4. /\ host'.pc = "csw" /\ host'.call = host.call /\ host'.csw_tries = host.csw_tries
        /\ host'.attempt = host.attempt /\ host'.run = host.run /\ buf' = buf
        /\ RunOf(ep["in"].q, host.run) => RunOf(ep'["in"].q, host.run)
        /\ Queues(ep, "in", "csw", host.call)
    BY <1>3, QueuedQueues DEF Proceeded, SameCall, StorageInv, UsbTypes
  <1>5. Landed'
    BY <1>1, <1>4, LandedKept DEF StorageInv
  <1>6. CASE dev.state = "stalled"
    BY <1>1, <1>2, <1>5, <1>6 DEF Where
  <1>7. CASE dev.state # "stalled"
    <2>1. /\ Current /\ ~ep["in"].skewed /\ ~ep["out"].skewed
          /\ \/ InSync /\ OneMoved(events) /\ Empty("in") /\ Empty("out") /\ dev.state = "status"
             \/ faults = 1 /\ host.call.op = "write" /\ One(events, "ok") /\ Empty("in")
                /\ Holds("out", "data") /\ dev.state = "ready"
             \/ faults = 1 /\ One(events, "ok") /\ Left /\ Empty("out") /\ dev.state = "status"
             \/ faults = 1 /\ TwoMoved(events) /\ Empty("in") /\ Empty("out") /\ dev.state = "ready"
      BY <1>1, <1>2, <1>7 DEF Where, Answered
    <2>2. /\ ep'["in"].skewed = ep["in"].skewed /\ ep'["out"] = ep["out"]
          /\ ep'["in"].halted = ep["in"].halted
          /\ Appended(ep["in"].q, ep'["in"].q, "csw")
      BY <1>4 DEF Queues, Other
    <2>3. Current'
      BY <1>1, <1>4, <2>1, <2>2 DEF Current
    <2>4. faults = 0 => Unhurt' /\ OnTrack'
      BY <1>1, <1>2, <1>4, <2>1 DEF Where, Unhurt, OnTrack, Remains
    <2>5. Where'
      BY <1>1, <1>4, <2>1, <2>2, <2>3, <2>4 DEF Where, Appended, Remains
    <2> QED
      BY <1>5, <2>5
  <1> QED
    BY <1>6, <1>7

LEMMA DataFailedKeeps ==
    ASSUME StorageInv, DataFailed, faults <= 1
    PROVE  Where' /\ Landed'
  <1> USE DEF InSync, Halted, OutReset, DataLost, InReset, Late, LateCommand, LateData, LateStatus, Stuck,
              Left, Holds, HoldsTwo, Empty, Straight, OneMoved, TwoMoved
  <1>1. /\ Answered /\ None(events') /\ Head(events).cc = "error" /\ host.pc = "data"
        /\ dev' = dev /\ medium' = medium /\ faults' = faults
    BY StageAnswered DEF StorageInv, DataFailed
  <1>2. Where /\ StateFor(host.call) # "stalled" /\ DataEp(host.call.op) \in {"in", "out"}
    BY DEF StorageInv, StateFor, DataEp
  <1> DEFINE eps == Reset(DataEp(host.call.op))
  <1>3. eps \in Eps
    BY <1>2, ResetTyped DEF StorageInv, UsbTypes
  <1>4. /\ host'.pc = "csw" /\ host'.call = host.call /\ host'.attempt = host.attempt /\ buf' = buf
        /\ Queues(eps, "in", "csw", host.call)
    <2>1. Proceed("csw", "in", eps)
      BY DEF DataFailed
    <2> HIDE DEF eps
    <2>2. Proceeded("csw", "in", eps)
      BY <1>3, <2>1, ProceedTyped DEF StorageInv
    <2> QED
      BY <1>3, <2>2, QueuedQueues DEF Proceeded, SameCall
  <1>5. Landed'
    BY <1>1, <1>4, LandedKept DEF StorageInv
  <1>6. CASE dev.state = "stalled"
    BY <1>1, <1>2, <1>5, <1>6 DEF Where
  <1>7. CASE dev.state # "stalled"
    <2>1. /\ faults = 1 /\ Current /\ ~ep["in"].skewed /\ ~ep["out"].skewed
          /\ dev.state = "in" => dev.status = "passed"
          /\ \/ ep["out"].halted /\ Empty("in") /\ dev.state = "out" /\ host.attempt = 1
             \/ ep["in"].halted /\ Empty("out") /\ dev.state = "in"
      BY <1>1, <1>2, <1>7 DEF Where, Answered
    <2>2. dev.call = host.call
      BY <2>1 DEF Current
    <2>3. CASE dev.state = "out"
      <3>1. host.call.op = "write" /\ eps = Reset("out")
        BY <2>2, <2>3 DEF StorageInv, RunInv, DataEp
      <3>2. ep["out"].halted /\ Empty("in")
        BY <2>1, <2>3
      <3>3. eps["in"] = ep["in"] /\ eps["out"].q = <<>> /\ ~eps["out"].halted
        BY <3>1, <3>2, ResetTyped DEF StorageInv, UsbTypes
      <3>4. Holds("in", "csw")' /\ Empty("out")' /\ ~ep'["in"].skewed /\ Own(ep'["out"].q, host.call)
        BY <1>4, <2>1, <3>2, <3>3, QueueEmpty DEF Queues, Appended, Other
      <3>5. Current'
        BY <1>1, <1>4, <2>2, <3>4 DEF Current
      <3>6. Where'
        BY <1>1, <1>4, <2>1, <2>3, <3>1, <3>4, <3>5 DEF Where
      <3> QED
        BY <1>5, <3>6
    <2>4. CASE dev.state = "in"
      <3>1. host.call.op = "read" /\ eps = Reset("in")
        BY <2>2, <2>4 DEF StorageInv, RunInv, DataEp
      <3>2. ep["in"].halted /\ Empty("out")
        BY <2>1, <2>4
      <3>3. eps["out"] = ep["out"] /\ eps["in"].q = <<>> /\ ~eps["in"].halted
        BY <3>1, <3>2, ResetTyped DEF StorageInv, UsbTypes
      <3>4. Single(ep'["in"].q, "csw") /\ ~ep'["in"].halted /\ Empty("out")' /\ ~ep'["out"].skewed
            /\ Own(ep'["out"].q, host.call)
        BY <1>4, <2>1, <3>2, <3>3, QueueEmpty DEF Queues, Appended, Other
      <3>5. Current'
        BY <1>1, <1>4, <2>2, <3>4 DEF Current
      <3>6. Where'
        BY <1>1, <1>4, <2>1, <2>4, <3>1, <3>4, <3>5 DEF Where
      <3> QED
        BY <1>5, <3>6
    <2> QED
      BY <2>1, <2>3, <2>4
  <1> QED
    BY <1>6, <1>7

LEMMA CswReadKeeps ==
    ASSUME StorageInv, CswRead, faults <= 1
    PROVE  Where' /\ Landed'
  <1> USE DEF InSync, Halted, OutReset, DataLost, InReset, Late, LateCommand, LateData, LateStatus, Stuck,
              Left, Holds, HoldsTwo, Empty, Straight, OneMoved, TwoMoved
  <1>1. /\ Answered /\ Remains /\ Head(events).cc # "error" /\ host.pc = "csw"
        /\ dev' = dev /\ medium' = medium /\ faults' = faults
    BY StageAnswered DEF StorageInv, CswRead
  <1>2. Where
    BY DEF StorageInv
  <1>3. \/ dev.state = "stalled" /\ faults = 1
        \/ /\ Straight /\ Empty("out") /\ dev.state = "ready" /\ Current
           /\ OneMoved(events)
           /\ \/ InSync /\ Empty("in")
              \/ faults = 1 /\ Holds("in", "csw")
    BY <1>1, <1>2 DEF Where, Answered, StateFor
  <1>4. faults = 0 => CswGood /\ Unhurt /\ Empty("in")
    BY <1>1, <1>2, <1>3 DEF Where, OnTrack, Answered
  <1>5. \/ NewCall(ep) /\ host'.call.op = "write"
        \/ Retried(ep) /\ faults = 1
        \/ Over(ep, {"ok", "error"}) /\ (host'.result # "ok" \/ host.call.op = "sync" \/ CswGood)
    <2>1. CASE CswGood
      <3>1. Succeed(ep)
        BY <2>1 DEF CswRead
      <3> QED
        BY <2>1, <3>1, SucceedTyped DEF StorageInv, UsbTypes
    <2>2. CASE ~CswGood
      <3>1. Fail(ep)
        BY <2>2 DEF CswRead
      <3>2. faults = 1
        BY <1>4, <2>2 DEF StorageInv, UsbTypes
      <3> QED
        BY <3>1, <3>2, FailTyped DEF StorageInv, UsbTypes, Over
    <2> QED
      BY <2>1, <2>2
  <1>6. CASE Over(ep, {"ok", "error"}) /\ (host'.result # "ok" \/ host.call.op = "sync" \/ CswGood)
    <2>1. /\ host'.pc = "idle" /\ host'.call = host.call /\ ep' = ep /\ buf' = buf
          /\ host'.attempt = host.attempt /\ host'.csw_tries = host.csw_tries
      BY <1>6 DEF Over
    <2>2. Landed'
      BY <1>1, <1>6, <2>1, LandedKept DEF StorageInv, CswGood
    <2>3. faults = 0 => Unhurt' /\ OnTrack'
      <3>1. RunOf(<<>>, host'.run)
        BY DEF RunOf
      <3> QED
        BY <1>1, <1>4, <2>1, <3>1 DEF Unhurt, OnTrack
    <2>4. dev.state = "ready" => Current'
      BY <1>1, <1>3, <2>1 DEF Current
    <2>5. Where'
      BY <1>1, <1>3, <2>1, <2>3, <2>4 DEF Where, Remains
    <2> QED
      BY <2>2, <2>5
  <1>7. CASE (NewCall(ep) /\ host'.call.op = "write") \/ (Retried(ep) /\ faults = 1)
    <2>1. /\ host'.pc = "cbw" /\ buf'.csw = <<>> /\ Queues(ep, "out", "cbw", host'.call)
          /\ host'.csw_tries = 0 /\ (faults = 0 => host'.attempt = 1)
      <3>1. CASE NewCall(ep)
        BY <3>1, QueuedQueues DEF NewCall, StorageInv, UsbTypes
      <3>2. CASE Retried(ep) /\ faults = 1
        BY <3>2, QueuedQueues DEF Retried, StorageInv, UsbTypes
      <3> QED
        BY <1>7, <3>1, <3>2
    <2>2. Landed'
      <3>1. <<host'.call.tag, "passed">> # <<>> /\ dev'.state # "status"
        BY <1>1, <1>3
      <3> QED
        BY <2>1, <3>1 DEF Landed, WriteIsOnMedium
    <2>3. CASE dev.state = "stalled" /\ faults = 1
      BY <1>1, <2>2, <2>3 DEF Where
    <2>4. CASE dev.state = "ready"
      <3>1. /\ Holds("out", "cbw")' /\ ep'["out"].skewed = ep["out"].skewed
            /\ ep'["in"] = ep["in"] /\ Own(ep'["out"].q, host'.call)
        BY <1>3, <2>1, <2>4 DEF Queues, Appended, Other
      <3>2. Current'
        BY <1>1, <2>4, <3>1 DEF Current
      <3>3. faults = 0 => Unhurt' /\ OnTrack'
        <4>1. RunOf(<<>>, host'.run)
          BY DEF RunOf
        <4> QED
          BY <1>1, <1>4, <2>1, <3>1, <4>1 DEF Unhurt, OnTrack
      <3>4. Where'
        BY <1>1, <1>3, <2>1, <2>4, <3>1, <3>2, <3>3 DEF Where, Remains
      <3> QED
        BY <2>2, <3>4
    <2> QED
      BY <1>3, <2>3, <2>4
  <1> QED
    BY <1>5, <1>6, <1>7

LEMMA CswFailedKeeps ==
    ASSUME StorageInv, CswFailed, faults <= 1
    PROVE  Where' /\ Landed'
  <1> USE DEF InSync, Halted, OutReset, DataLost, InReset, Late, LateCommand, LateData, LateStatus, Stuck,
              Left, Holds, HoldsTwo, Empty, Straight, OneMoved, TwoMoved
  <1>1. /\ Answered /\ None(events') /\ Head(events).cc = "error" /\ host.pc = "csw"
        /\ dev' = dev /\ medium' = medium /\ faults' = faults
    BY StageAnswered DEF StorageInv, CswFailed
  <1>2. Where
    BY DEF StorageInv
  <1>3. /\ Reset("in") \in Eps /\ Reset("in")["out"] = ep["out"]
        /\ ep["in"].halted => Reset("in")["in"].q = <<>> /\ ~Reset("in")["in"].halted
    BY ResetTyped DEF StorageInv, UsbTypes
  <1>4. /\ host'.call = host.call /\ (buf' = buf \/ buf'.csw = <<>>)
        /\ \/ host.csw_tries = 0 /\ host'.pc = "csw" /\ Queues(Reset("in"), "in", "csw", host.call)
           \/ host.csw_tries = 1 /\ Retried(Reset("in"))
           \/ /\ host.csw_tries = 1 /\ host'.pc = "idle" /\ ep' = Reset("in")
              /\ host.call.op = "sync" \/ host'.result # "ok"
    BY <1>1, <1>3, AskedAgain, FailTyped, QueuedQueues DEF Retried, Over, SameCall, StorageInv
  <1>5. Landed'
    <2>1. host'.pc = "cbw" \/ host'.pc = "csw" \/ host.call.op = "sync" \/ host'.result # "ok"
      BY <1>4 DEF Retried
    <2> QED
      BY <1>1, <1>4, <2>1, LandedKept DEF StorageInv
  <1>6. \/ faults = 1 /\ dev.state = "stalled"
        \/ /\ faults = 1 /\ ep["in"].halted /\ Empty("out") /\ ~ep["out"].skewed /\ Current
           /\ dev.state = "in" => dev.status = "passed"
           /\ dev.state = "in" \/ (dev.state = "status" /\ host.csw_tries = 0)
    BY <1>1, <1>2 DEF Where, Answered, StateFor
  <1>7. CASE dev.state = "stalled"
    BY <1>1, <1>5, <1>6, <1>7 DEF Where
  <1>8. CASE dev.state # "stalled"
    <2>1. ep["in"].halted /\ Empty("out") /\ ~ep["out"].skewed /\ Current /\ faults = 1
          /\ dev.state \in {"in", "status"}
      BY <1>6, <1>8
    <2>2. dev.call = host.call
      BY <2>1 DEF Current
    <2>3. CASE host.csw_tries = 0
      <3>1. /\ Single(ep'["in"].q, "csw") /\ ~ep'["in"].halted /\ ep'["out"] = ep["out"]
            /\ host'.pc = "csw"
        BY <1>3, <1>4, <2>1, <2>3 DEF Queues, Appended, Other
      <3>2. Current'
        BY <1>1, <1>4, <2>1, <3>1 DEF Current
      <3>3. Where'
        BY <1>1, <1>6, <1>8, <2>1, <3>1, <3>2 DEF Where
      <3> QED
        BY <1>5, <3>3
    <2>4. CASE host.csw_tries # 0
      <3>1. dev.state = "in" /\ host.call.op = "read"
        BY <1>6, <1>8, <2>2, <2>4 DEF StorageInv, RunInv
      <3>2. host'.pc = "idle" /\ ep' = Reset("in")
        BY <1>4, <2>4, <3>1 DEF Retried
      <3>3. Where'
        BY <1>1, <1>3, <2>1, <3>1, <3>2 DEF Where
      <3> QED
        BY <1>5, <3>3
    <2> QED
      BY <2>3, <2>4
  <1> QED
    BY <1>7, <1>8

LEMMA TimeoutKeeps ==
    ASSUME StorageInv, Timeout, ~SlowDevice, faults <= 1
    PROVE  Where' /\ Landed'
  <1> USE DEF InSync, Halted, OutReset, DataLost, InReset, Late, LateCommand, LateData, LateStatus, Stuck,
              Left, Holds, HoldsTwo, Empty, Straight, OneMoved, TwoMoved
  <1>1. /\ host.pc # "idle" /\ ~Works /\ dev' = dev /\ medium' = medium /\ faults' = faults
        /\ events' = events /\ None(events) /\ Fail(ep)
        /\ ~One(events, "ok") /\ ~One(events, "short") /\ ~One(events, "error")
        /\ ~Two(events, "ok", "ok") /\ ~Two(events, "ok", "short") /\ ~Two(events, "ok", "error")
    BY NoEvents DEF Timeout
  <1>2. Where
    BY DEF StorageInv
  <1>3. /\ host'.call = host.call /\ (buf' = buf \/ buf'.csw = <<>>)
        /\ \/ /\ host.call.op = "write" /\ host.attempt = 1
              /\ host'.pc = "cbw" /\ Queues(ep, "out", "cbw", host.call)
           \/ /\ ~(host.call.op = "write" /\ host.attempt = 1)
              /\ host'.pc = "idle" /\ ep' = ep
              /\ host.call.op = "sync" \/ host'.result # "ok"
    BY <1>1, FailTyped, QueuedQueues DEF Retried, Over, StorageInv, UsbTypes
  <1>4. Landed'
    BY <1>1, <1>3, LandedKept DEF StorageInv
  <1>5. /\ ~ep["in"].halted /\ dev.state \in {"in", "status", "stalled"} => ep["in"].q = <<>>
        /\ ~ep["out"].halted /\ dev.state \in {"ready", "out", "stalled"} => ep["out"].q = <<>>
    BY <1>1 DEF Works, Ready
  <1>6. /\ faults = 1
        /\ \/ dev.state = "stalled" \/ Stuck
           \/ /\ Current /\ Straight /\ Left /\ Empty("out") /\ dev.state = "ready"
           \/ /\ Current /\ host.call.op = "write" /\ ~ep["in"].skewed /\ host.attempt = 1
              /\ Holds("in", "csw") /\ Empty("out") /\ dev.state = "out"
    BY <1>1, <1>2, <1>5, QueueEmpty DEF Where
  <1>7. CASE dev.state = "stalled" \/ Stuck
    <2>1. (dev.state = "stalled" \/ Stuck)'
      BY <1>1, <1>3, <1>7 DEF Queues, Other
    <2> QED
      BY <1>1, <1>4, <1>6, <2>1 DEF Where
  <1>8. CASE Current /\ Straight /\ Left /\ Empty("out") /\ dev.state = "ready"
    <2>1. \/ host'.pc = "idle" /\ ep' = ep
          \/ /\ host'.pc = "cbw" /\ ep'["in"] = ep["in"] /\ ep'["out"].skewed = ep["out"].skewed
             /\ Single(ep'["out"].q, "cbw") /\ ~ep'["out"].halted /\ Own(ep'["out"].q, host.call)
      BY <1>3, <1>8 DEF Queues, Appended, Other
    <2>2. Current'
      BY <1>1, <1>3, <1>8, <2>1 DEF Current
    <2>3. Where'
      BY <1>1, <1>6, <1>8, <2>1, <2>2 DEF Where
    <2> QED
      BY <1>4, <2>3
  <1>9. CASE /\ Current /\ host.call.op = "write" /\ ~ep["in"].skewed /\ host.attempt = 1
             /\ Holds("in", "csw") /\ Empty("out") /\ dev.state = "out"
    <2>1. /\ host'.pc = "cbw" /\ ep'["in"] = ep["in"] /\ Holds("out", "cbw")'
          /\ Own(ep'["out"].q, host.call)
      BY <1>3, <1>9 DEF Queues, Appended, Other
    <2>2. Current'
      BY <1>1, <1>3, <1>9, <2>1 DEF Current
    <2>3. Where'
      BY <1>1, <1>3, <1>6, <1>9, <2>1, <2>2 DEF Where
    <2> QED
      BY <1>4, <2>3
  <1> QED
    BY <1>6, <1>7, <1>8, <1>9

LEMMA CommandFailsKeeps ==
    ASSUME StorageInv, CommandFails, faults' <= 1
    PROVE  Where' /\ Landed'
  <1>1. /\ DevMoves(dev.state, "failed") \/ DevMoves("stalled", "failed")
        /\ faults' = faults + 1 /\ faults \in Nat
        /\ host' = host /\ buf' = buf /\ ep' = ep /\ events' = events /\ medium' = medium
    BY CommandFailsTyped DEF StorageInv, UsbTypes
  <1>2. faults = 0 /\ faults' = 1
    BY <1>1
  <1>3. InSync /\ Current
    BY <1>2 DEF StorageInv, Where
  <1>4. Landed'
    BY <1>1 DEF StorageInv, Landed, OnMedium, WriteIsOnMedium, DevMoves
  <1>5. CASE DevMoves(dev.state, "failed")
    <2>1. InSync'
      BY <1>1, <1>3, <1>5 DEF DevMoves, InSync, Straight, Empty, Holds
    <2>2. Current'
      BY <1>1, <1>3, <1>5 DEF DevMoves, Current
    <2> QED
      BY <1>2, <1>4, <2>1, <2>2 DEF Where
  <1>6. CASE DevMoves("stalled", "failed")
    BY <1>2, <1>4, <1>6 DEF Where, DevMoves
  <1> QED
    BY <1>1, <1>5, <1>6

LEMMA DiskExchangedKeeps ==
    ASSUME StorageInv, DiskExchanged, faults' <= 1
    PROVE  Where' /\ Landed'
  <1>1. /\ dev'.state = "ready" /\ host.pc = "idle" /\ faults' = faults + 1 /\ faults \in Nat
        /\ host' = host /\ buf' = buf /\ ep' = ep /\ events' = events /\ medium' = medium
    BY DiskExchangedTyped DEF StorageInv, UsbTypes
  <1>2. faults = 0 /\ faults' = 1
    BY <1>1
  <1>3. InSync /\ Current
    BY <1>2 DEF StorageInv, Where
  <1>4. InSync' /\ Current'
    BY <1>1, <1>3 DEF InSync, Straight, Empty, Holds, Current
  <1>5. Landed'
    BY <1>1 DEF StorageInv, Landed, OnMedium, WriteIsOnMedium
  <1> QED
    BY <1>2, <1>4, <1>5 DEF Where

\* A step that changes none of the storage path, nor the storage events.
LEMMA StorageUntouched ==
    ASSUME StorageInv, UNCHANGED <<host, buf, ep, dev, medium>>, SameStorage(events, events'),
           faults' \in {faults, faults + 1}, faults' <= 1
    PROVE  Where' /\ Landed'
  <1> USE DEF InSync, Halted, OutReset, DataLost, InReset, Late, LateCommand, LateData, LateStatus, Stuck,
              Left, Holds, HoldsTwo, Empty, Straight, OneMoved, TwoMoved
  <1>1. /\ None(events) => None(events')
        /\ One(events, "ok") => One(events', "ok")
        /\ One(events, "short") => One(events', "short")
        /\ One(events, "error") => One(events', "error")
        /\ Two(events, "ok", "ok") => Two(events', "ok", "ok")
        /\ Two(events, "ok", "short") => Two(events', "ok", "short")
        /\ Two(events, "ok", "error") => Two(events', "ok", "error")
    BY DEF SameStorage
  <1>2. Where /\ faults \in Nat
    BY DEF StorageInv, UsbTypes
  <1>3. Current' = Current /\ Unhurt' = Unhurt /\ (OnTrack => OnTrack')
    BY <1>1 DEF Current, Unhurt, OnTrack, CswGood
  <1>4. /\ Straight' = Straight /\ Stuck => Stuck'
        /\ InSync => InSync'
        /\ Halted => Halted'
        /\ OutReset => OutReset'
        /\ DataLost => DataLost'
        /\ InReset => InReset'
        /\ LateCommand => LateCommand'
        /\ LateData => LateData'
        /\ LateStatus => LateStatus'
    BY <1>1
  <1>5. Where'
    BY <1>2, <1>3, <1>4 DEF Where
  <1>6. Landed'
    BY DEF StorageInv, Landed, OnMedium, WriteIsOnMedium
  <1> QED
    BY <1>5, <1>6

LEMMA MouseStepKeeps ==
    ASSUME StorageInv, MouseReports \/ SkipMouse \/ poll_mouse_delta \/ UNCHANGED vars, faults' <= 1
    PROVE  Where' /\ Landed'
  <1>1. faults \in Nat /\ events \in Seq(RingEvent)
    BY DEF StorageInv, UsbTypes
  <1>2. CASE MouseReports
    <2>1. /\ UNCHANGED <<host, buf, ep, dev, medium>> /\ faults' \in {faults, faults + 1}
          /\ \E cc : events' = Append(events, [slot |-> "mouse", cc |-> cc])
      BY <1>2 DEF MouseReports
    <2>2. SameStorage(events, events')
      BY <1>1, <2>1, MouseEventAdded
    <2> QED
      BY <2>1, <2>2, StorageUntouched
  <1>3. CASE SkipMouse
    <2>1. /\ UNCHANGED <<host, buf, ep, dev, medium>> /\ faults' = faults
          /\ events # <<>> /\ ~IsStorage(Head(events)) /\ events' = Tail(events)
      BY <1>3 DEF SkipMouse
    <2>2. SameStorage(events, events')
      BY <1>1, <2>1, MouseEventSkipped
    <2> QED
      BY <2>1, <2>2, StorageUntouched
  <1>4. CASE poll_mouse_delta
    <2>1. /\ UNCHANGED <<host, buf, ep, dev, medium>> /\ faults' = faults /\ host.pc = "idle"
          /\ events' = <<>>
      BY <1>4 DEF poll_mouse_delta
    <2>2. None(events') /\ Where
      BY <2>1, NoEvents DEF StorageInv
    <2>3. Current' = Current /\ Unhurt' = Unhurt /\ (OnTrack => OnTrack')
      BY <2>1 DEF Current, Unhurt, OnTrack
    <2>4. /\ InSync => InSync'
          /\ ~Halted /\ ~DataLost /\ ~InReset
          /\ OutReset => OutReset'
          /\ Late => Late'
          /\ Stuck => Stuck'
      BY <2>1, <2>2 DEF InSync, Halted, OutReset, DataLost, InReset, Late, LateCommand, LateData,
         LateStatus, Stuck, Left, Holds, Empty, Straight
    <2>5. Where'
      BY <2>1, <2>2, <2>3, <2>4 DEF Where
    <2>6. Landed'
      BY <2>1 DEF StorageInv, Landed, OnMedium, WriteIsOnMedium
    <2> QED
      BY <2>5, <2>6
  <1>5. CASE UNCHANGED vars
    <2>1. UNCHANGED <<host, buf, ep, dev, medium>> /\ faults' = faults /\ events' = events
      BY <1>5 DEF vars
    <2>2. SameStorage(events, events')
      BY <2>1 DEF SameStorage
    <2> QED
      BY <2>1, <2>2, StorageUntouched
  <1> QED
    BY <1>2, <1>3, <1>4, <1>5
-----------------------------------------------------------------------------
(* Every step, and what follows *)

\* At most one fault has happened, and then call, device and rings are where
\* Where says.
OneFault == faults <= 1 => Where /\ Landed

LEMMA FaultsCounted ==
    ASSUME UsbTypes, Next \/ UNCHANGED vars
    PROVE  faults' \in {faults, faults + 1} /\ faults \in Nat
  <1>1. faults \in Nat
    BY DEF UsbTypes
  <1>2. CASE Calls
    BY <1>1, <1>2, CallsBegin
  <1>3. CASE Host
    BY <1>1, <1>3, HostOutcome DEF SkipMouse
  <1>4. CASE Device
    BY <1>1, <1>4 DEF Device, TakesCommand, RejectsCommand, TakesData, SendsData, SendsStatus,
       TakenForRepetition, Stalls
  <1>5. CASE poll_mouse_delta \/ BusError \/ CommandFails \/ DiskExchanged \/ MouseReports \/ UNCHANGED vars
    BY <1>1, <1>5 DEF poll_mouse_delta, BusError, CommandFails, DiskExchanged, MouseReports, vars
  <1> QED
    BY <1>2, <1>3, <1>4, <1>5 DEF Next

LEMMA StepKeepsOneFault ==
    ASSUME UsbTypes, RunInv, events \in Seq(RingEvent), OneFault, ~SlowDevice, Next \/ UNCHANGED vars
    PROVE  OneFault'
  <1> SUFFICES ASSUME faults' <= 1 PROVE Where' /\ Landed'
    BY DEF OneFault
  <1>1. faults' \in {faults, faults + 1} /\ faults \in Nat
    BY FaultsCounted
  <1>2. faults <= 1 /\ StorageInv
    BY <1>1 DEF OneFault, StorageInv
  <1>3. CASE Calls
    BY <1>2, <1>3, CallsKeep
  <1>4. CASE Host /\ ~SkipMouse
    BY <1>2, <1>4, CbwSentKeeps, CbwFailedKeeps, DataMovedKeeps, DataFailedKeeps, CswReadKeeps,
       CswFailedKeeps, TimeoutKeeps DEF Host
  <1>5. CASE Device
    BY <1>2, <1>5, TakesCommandKeeps, RejectsCommandKeeps, TakesDataKeeps, SendsDataKeeps,
       SendsStatusKeeps, TakenForRepetitionKeeps, StallsKeeps DEF Device
  <1>6. CASE BusError \/ CommandFails \/ DiskExchanged
    BY <1>2, <1>6, BusErrorKeeps, CommandFailsKeeps, DiskExchangedKeeps
  <1>7. CASE MouseReports \/ SkipMouse \/ poll_mouse_delta \/ UNCHANGED vars
    BY <1>2, <1>7, MouseStepKeeps
  <1> QED
    BY <1>3, <1>4, <1>5, <1>6, <1>7 DEF Next

LEMMA InitOneFault ==
    ASSUME Init
    PROVE  OneFault
  <1>1. /\ host.pc = "idle" /\ host.attempt = 0 /\ host.csw_tries = 0 /\ host.result = "none"
        /\ host.call.op = "none"
    BY DEF Init
  <1>2. events = <<>> /\ dev.state = "ready" /\ dev.status = "passed" /\ dev.call = host.call
    BY DEF Init
  <1>3. /\ ep["in"].q = <<>> /\ ~ep["in"].halted /\ ~ep["in"].skewed
        /\ ep["out"].q = <<>> /\ ~ep["out"].halted /\ ~ep["out"].skewed
    BY DEF Init
  <1>4. InSync
    BY <1>1, <1>2, <1>3, NoEvents DEF InSync, Straight, Empty
  <1>5. Current
    BY <1>2, <1>3, QueueEmpty DEF Current
  <1>6. Unhurt /\ OnTrack
    BY <1>1, <1>2, <1>3 DEF Unhurt, OnTrack, RunOf
  <1>7. Landed
    BY <1>1 DEF Landed, WriteIsOnMedium
  <1> QED
    BY <1>4, <1>5, <1>6, <1>7 DEF OneFault, Where

\* While the device answers within the deadline, one fault at most leaves
\* call, device and rings in one of the listed positions.
LEMMA StorageInvariant ==
    ASSUME ~SlowDevice
    PROVE  Spec => [](UsbTypes /\ RunInv /\ events \in Seq(RingEvent) /\ OneFault)
  <1> DEFINE P == UsbTypes /\ RunInv /\ MouseInv
  <1>1. Init => OneFault
    BY InitOneFault
  <1>2. P /\ OneFault /\ [Next]_vars => OneFault'
    BY StepKeepsOneFault DEF MouseInv, MouseTypes
  <1>3. Spec => []P
    BY StorageTypes, MouseInvariant, PTL
  <1>4. P /\ OneFault => UsbTypes /\ RunInv /\ events \in Seq(RingEvent) /\ OneFault
    BY DEF MouseInv, MouseTypes
  <1> HIDE DEF P
  <1> QED
    BY <1>1, <1>2, <1>3, <1>4, PTL DEF Spec

\* write_sector that returns Ok has put its data on the medium, through one
\* bus error, failed command or exchanged disk wherever it strikes: neither
\* the retry of msc_write_sector nor a status left by an earlier call passes
\* for the answer to the write.  The device answers within the deadline of
\* drain_event.
THEOREM WriteLands ==
    ASSUME ~SlowDevice
    PROVE  Spec => [](faults <= 1 => WriteIsOnMedium)
  <1>1. OneFault => (faults <= 1 => WriteIsOnMedium)
    BY DEF OneFault, Landed
  <1> QED
    BY <1>1, StorageInvariant, PTL

\* Who changes the medium, and when.
LEMMA MediumStep ==
    ASSUME UsbTypes, RunInv, events \in Seq(RingEvent), OneFault, faults <= 1, [Next]_vars,
           medium' # medium
    PROVE  /\ host.pc # "idle" /\ host.call.op = "write"
           /\ medium' = [medium EXCEPT ![host.call.lba] = host.call.val]
           /\ host.identity_gate => dev.guid = BootGuid /\ ~host.poisoned
  <1>1. TakesData
    <2>1. ~Calls
      BY CallsBegin
    <2>2. ~Host
      BY HostOutcome DEF SkipMouse
    <2>3. ~(BusError \/ Stalls)
      BY ErrorTyped
    <2> QED
      BY <2>1, <2>2, <2>3 DEF Next, Device, TakesCommand, RejectsCommand, SendsData, SendsStatus,
         TakenForRepetition, poll_mouse_delta, CommandFails, DiskExchanged, MouseReports, vars
  <1>2. StorageInv
    BY DEF OneFault, StorageInv
  <1> QED
    BY <1>1, <1>2, TakesDataKeeps DEF RunInv

\* While the device answers within the deadline of drain_event, and with at
\* most one fault, only the write that is running changes a sector, and only
\* its own.  Calls do leave something behind then: bulk_transfer that gives
\* up after a fault leaves a TRB of a freed buffer on the IN ring, and the
\* status or the data of later calls goes to it (Late).  On the OUT ring
\* nothing is left: a device slower than the deadline, which this theorem
\* excludes, takes a TRB of a freed buffer there, and the claim is false.
THEOREM OnlyRunningWriteLands ==
    ASSUME ~SlowDevice, MaxFaults <= 1
    PROVE  Spec => NoLateEffect
  <1> DEFINE P == UsbTypes /\ RunInv /\ events \in Seq(RingEvent) /\ OneFault
             A == host.pc # "idle" /\ host.call.op = "write"
                  /\ medium' = [medium EXCEPT ![host.call.lba] = host.call.val]
  <1>1. P /\ [Next]_vars => [A]_medium
    <2>1. P => faults <= 1
      BY UsbAssumption DEF UsbTypes
    <2> QED
      BY <2>1, MediumStep
  <1>2. Spec => []P
    BY StorageInvariant
  <1> HIDE DEF P
  <1>3. Spec => [][A]_medium
    BY <1>1, <1>2, PTL DEF Spec
  <1> QED
    BY <1>3 DEF NoLateEffect

\* Behind the identity gate, with at most one fault and on a device that keeps
\* the deadline, nothing is written to another disk than the booted one, nor
\* by a poisoned device (verify_identity).
THEOREM GateHolds ==
    ASSUME ~SlowDevice, MaxFaults <= 1
    PROVE  Spec => OnlyBootDiskWritten
  <1> DEFINE P == UsbTypes /\ RunInv /\ events \in Seq(RingEvent) /\ OneFault
             A == host.identity_gate => dev.guid = BootGuid /\ ~host.poisoned
  <1>1. P /\ [Next]_vars => [A]_medium
    <2>1. P => faults <= 1
      BY UsbAssumption DEF UsbTypes
    <2> QED
      BY <2>1, MediumStep
  <1>2. Spec => []P
    BY StorageInvariant
  <1> HIDE DEF P
  <1>3. Spec => [][A]_medium
    BY <1>1, <1>2, PTL DEF Spec
  <1> QED
    BY <1>3 DEF OnlyBootDiskWritten
-----------------------------------------------------------------------------
(* Calls without a fault *)

\* A read that is past its data phase has its sector in the buffer.
Fetched ==
    host.call.op = "read" /\ host.pc \in {"data", "csw"} /\ dev.state # "in"
        => buf.data = Sector(host.call.lba)

Quiet ==
    /\ dev.guid = BootGuid /\ ~host.poisoned /\ host.result # "error"
    /\ Gated /\ Fetched /\ ReadReturnsSector

FaultFree == faults = 0 => Quiet

\* The stages that fail, and the steps that follow a reset or a stall, do not
\* happen without a fault.
LEMMA NothingFails ==
    ASSUME StorageInv, ~SlowDevice, faults = 0
    PROVE  /\ InSync /\ OnTrack /\ dev.status = "passed"
           /\ dev.state \in {"in", "out", "status"} => dev.call = host.call
           /\ ~CbwFailed /\ ~DataFailed /\ ~CswFailed /\ ~Timeout
           /\ ~RejectsCommand /\ ~TakenForRepetition /\ ~Stalls
  <1> USE DEF InSync, Straight, Empty, Holds, OneMoved
  <1>1. InSync /\ OnTrack /\ Unhurt /\ Current
    BY DEF StorageInv, Where
  <1>2. StateFor(host.call) # "stalled"
    BY DEF StateFor
  <1>3. ~CbwFailed
    <2> SUFFICES ASSUME CbwFailed PROVE FALSE
      OBVIOUS
    <2>1. Answered /\ Head(events).cc # "ok" /\ host.pc = "cbw"
      BY StageAnswered DEF StorageInv, CbwFailed
    <2> QED
      BY <1>1, <2>1 DEF Answered
  <1>4. ~DataFailed
    <2> SUFFICES ASSUME DataFailed PROVE FALSE
      OBVIOUS
    <2>1. Answered /\ Head(events).cc = "error" /\ host.pc = "data"
      BY StageAnswered DEF StorageInv, DataFailed
    <2> QED
      BY <1>1, <2>1 DEF Answered
  <1>5. ~CswFailed
    <2> SUFFICES ASSUME CswFailed PROVE FALSE
      OBVIOUS
    <2>1. Answered /\ Head(events).cc = "error" /\ host.pc = "csw"
      BY StageAnswered DEF StorageInv, CswFailed
    <2> QED
      BY <1>1, <2>1 DEF Answered
  <1>6. ~Timeout
    <2> SUFFICES ASSUME Timeout PROVE FALSE
      OBVIOUS
    <2>1. /\ host.pc # "idle" /\ ~Works
          /\ ~One(events, "ok") /\ ~One(events, "short")
      BY NoEvents DEF Timeout
    <2>2. /\ ~ep["in"].halted /\ dev.state \in {"in", "status"} => ep["in"].q = <<>>
          /\ ~ep["out"].halted /\ dev.state \in {"ready", "out"} => ep["out"].q = <<>>
      BY <2>1 DEF Works, Ready
    <2> QED
      BY <1>1, <2>1, <2>2, QueueEmpty
  <1>7. ~RejectsCommand
    <2> SUFFICES ASSUME RejectsCommand PROVE FALSE
      OBVIOUS
    <2>1. /\ ep["out"].q # <<>> /\ dev.state = "ready" /\ Head(ep["out"].q).stage = "data"
          /\ Single(ep["out"].q, "cbw") => Head(ep["out"].q).stage = "cbw"
      BY RejectsCommandTyped, ExecutedCompletes DEF StorageInv, Completes, Heads
    <2> QED
      BY <1>1, <2>1
  <1>8. ~TakenForRepetition
    BY <1>1 DEF TakenForRepetition
  <1>9. ~Stalls
    BY <1>1, <1>2 DEF Stalls
  <1> QED
    BY <1>1, <1>3, <1>4, <1>5, <1>6, <1>7, <1>8, <1>9 DEF Unhurt, Current

LEMMA DeviceStaysQuiet ==
    ASSUME StorageInv, ~SlowDevice, faults = 0, Quiet, Device
    PROVE  Quiet'
  <1>1. InSync /\ OnTrack /\ dev.status = "passed"
        /\ (dev.state \in {"in", "out", "status"} => dev.call = host.call)
    BY NothingFails
  <1>2. CASE TakesCommand
    <2>1. /\ host' = host /\ dev'.guid = dev.guid /\ buf' = buf /\ medium' = medium
          /\ dev.state = "ready" /\ ep["out"].q # <<>>
      BY <1>2, TakesCommandTyped, ExecutedCompletes DEF StorageInv, Completes, Heads
    <2>2. host.pc = "cbw"
      BY <1>1, <2>1 DEF InSync, Empty, Holds, StateFor
    <2> QED
      BY <2>1, <2>2 DEF Quiet, Gated, Fetched, ReadReturnsSector
  <1>3. CASE TakesData
    <2>1. /\ host' = host /\ dev'.guid = dev.guid /\ buf' = buf /\ host.call.op = "write"
          /\ host.pc # "idle"
      BY <1>3, TakesDataTyped, TakesDataKeeps DEF Executed, DevMoves, StorageInv
    <2> QED
      BY <2>1 DEF Quiet, Gated, Fetched, ReadReturnsSector
  <1>4. CASE SendsData
    <2>1. /\ host' = host /\ dev'.guid = dev.guid /\ medium' = medium /\ dev.state = "in"
          /\ Head(ep["in"].q).stage = "data" /\ Head(ep["in"].q).run = host.run
               => buf'.data = Sector(dev.call.lba)
          /\ ep["in"].q # <<>> /\ Heads(ep["in"].q)
      BY <1>1, <1>4, SendsDataTyped, ExecutedCompletes DEF DevMoves, StorageInv, Completes
    <2>2. host.pc = "data" /\ Single(ep["in"].q, "data") /\ host.call.op = "read"
      <3>1. host.call.op = "read" /\ StateFor(host.call) = "in"
        BY <1>1, <2>1 DEF StorageInv, RunInv, StateFor
      <3> QED
        BY <1>1, <2>1, <3>1 DEF InSync, Empty, Holds
    <2>3. Head(ep["in"].q).run = host.run
      <3>1. ep["in"].q \in Seq(Trb)
        BY DEF StorageInv, UsbTypes, Eps, EpType
      <3> QED
        BY <1>1, <2>1, <3>1, RunTaken DEF OnTrack
    <2>4. buf'.data = Sector(host.call.lba)
      BY <1>1, <2>1, <2>2, <2>3 DEF Heads
    <2> QED
      BY <2>1, <2>2, <2>4 DEF Quiet, Gated, Fetched, Sector, ReadReturnsSector
  <1>5. CASE SendsStatus
    <2>1. /\ host' = host /\ dev'.guid = dev.guid /\ medium' = medium /\ dev.state = "status"
          /\ Head(ep["in"].q).stage = "csw" => buf'.data = buf.data
          /\ ep["in"].q # <<>> /\ Heads(ep["in"].q)
      BY <1>5, SendsStatusTyped, ExecutedCompletes DEF DevMoves, StorageInv, Completes
    <2>2. Single(ep["in"].q, "csw")
      BY <1>1, <2>1 DEF InSync, Empty, Holds
    <2>3. buf'.data = buf.data
      BY <2>1, <2>2 DEF Heads
    <2> QED
      BY <2>1, <2>3 DEF Quiet, Gated, Fetched, Sector, ReadReturnsSector
  <1> QED
    BY <1>2, <1>3, <1>4, <1>5, NothingFails DEF Device

LEMMA HostStaysQuiet ==
    ASSUME StorageInv, ~SlowDevice, faults = 0, Quiet, Host
    PROVE  Quiet'
  <1>1. InSync /\ OnTrack
    BY NothingFails
  <1>2. CASE SkipMouse
    BY <1>2 DEF SkipMouse, Quiet, Gated, Fetched, Sector, ReadReturnsSector
  <1>3. CASE CbwSent
    <2>1. Answered /\ host.pc = "cbw" /\ dev' = dev /\ medium' = medium
      BY <1>3, StageAnswered DEF StorageInv, CbwSent
    <2>2. \E stage \in {"data", "csw"}, e \in {"in", "out"} : Proceeded(stage, e, ep)
      BY <1>3, ProceedTyped DEF CbwSent, StorageInv, UsbTypes, DataEp
    <2>3. /\ buf' = buf /\ SameCall(host) /\ host'.result = host.result
          /\ host'.pc \in {"data", "csw"}
      BY <2>2 DEF Proceeded
    <2>4. host.call.op = "read" => dev.state = "in"
      BY <1>1, <2>1 DEF InSync, Answered, StateFor
    <2> QED
      BY <2>1, <2>3, <2>4 DEF Quiet, SameCall, Gated, Fetched, ReadReturnsSector
  <1>4. CASE DataMoved
    <2>1. Answered /\ host.pc = "data" /\ dev' = dev /\ medium' = medium
      BY <1>4, StageAnswered DEF StorageInv, DataMoved
    <2>2. Proceeded("csw", "in", ep)
      BY <1>4, ProceedTyped DEF DataMoved, StorageInv, UsbTypes
    <2>3. /\ buf' = buf /\ SameCall(host) /\ host'.result = host.result /\ host'.pc = "csw"
      BY <2>2 DEF Proceeded
    <2>4. dev.state = "status"
      BY <1>1, <2>1 DEF InSync, Answered
    <2> QED
      BY <2>1, <2>3, <2>4 DEF Quiet, SameCall, Gated, Fetched, Sector, ReadReturnsSector
  <1>5. CASE CswRead
    <2>1. Answered /\ host.pc = "csw" /\ dev' = dev /\ medium' = medium
      BY <1>5, StageAnswered DEF StorageInv, CswRead
    <2>2. CswGood /\ dev.state = "ready"
      BY <1>1, <2>1 DEF InSync, OnTrack, Answered
    <2>3. Succeed(ep)
      BY <1>5, <2>2 DEF CswRead
    <2>4. host.call.op = "read" => buf.data = Sector(host.call.lba)
      BY <2>1, <2>2 DEF Quiet, Fetched
    <2>5. host.write # NoWrite => buf.data = BootGuid
      BY <2>1, <2>4 DEF Quiet, Gated, Sector
    <2>6. CASE /\ Over(ep, {"ok", "error"}) /\ host'.write = NoWrite
               /\ host.write = NoWrite /\ host'.result = "ok" /\ host'.poisoned = host.poisoned
      <3>1. host'.pc = "idle" /\ host'.call = host.call /\ buf' = buf
        BY <2>6 DEF Over
      <3>2. host.call.op = "read" => buf.data = medium[host.call.lba]
        BY <2>1, <2>4, <2>6 DEF Quiet, Gated, Sector
      <3> QED
        BY <2>1, <2>6, <3>1, <3>2 DEF Quiet, Gated, Fetched, ReadReturnsSector
    <2>7. CASE NewCall(ep) /\ host'.call.op = "write" /\ host'.write = NoWrite
      <3>1. host'.pc = "cbw" /\ host'.result = "none" /\ host'.poisoned = host.poisoned
        BY <2>7 DEF NewCall
      <3> QED
        BY <2>1, <2>7, <3>1 DEF Quiet, Gated, Fetched, ReadReturnsSector
    <2> QED
      BY <2>3, <2>5, <2>6, <2>7, SucceedTyped DEF StorageInv, UsbTypes
  <1> QED
    BY <1>2, <1>3, <1>4, <1>5, NothingFails DEF Host

LEMMA StepKeepsFaultFree ==
    ASSUME UsbTypes, RunInv, events \in Seq(RingEvent), OneFault, FaultFree, ~SlowDevice,
           Next \/ UNCHANGED vars
    PROVE  FaultFree'
  <1> SUFFICES ASSUME faults' = 0 PROVE Quiet'
    BY DEF FaultFree
  <1>1. faults = 0 /\ Quiet /\ StorageInv
    BY FaultsCounted DEF FaultFree, OneFault, StorageInv
  <1>2. CASE Calls
    <2>1. /\ NewCall(ep) /\ host.pc = "idle" /\ (host.write = NoWrite => Gated')
          /\ dev' = dev /\ medium' = medium
      BY <1>2, CallsBegin
    <2>2. /\ host'.pc = "cbw" /\ host'.result = "none" /\ host'.poisoned = host.poisoned /\ Gated'
      BY <1>1, <2>1 DEF NewCall, Quiet, Gated
    <2> QED
      BY <1>1, <2>1, <2>2 DEF Quiet, Fetched, ReadReturnsSector
  <1>3. CASE Host
    BY <1>1, <1>3, HostStaysQuiet
  <1>4. CASE Device
    BY <1>1, <1>4, DeviceStaysQuiet
  <1>5. CASE MouseReports \/ poll_mouse_delta \/ UNCHANGED vars
    BY <1>1, <1>5 DEF MouseReports, poll_mouse_delta, vars, Quiet, Gated, Fetched, Sector,
       ReadReturnsSector
  <1>6. ~(BusError \/ CommandFails \/ DiskExchanged)
    BY <1>1 DEF BusError, CommandFails, DiskExchanged
  <1> QED
    BY <1>2, <1>3, <1>4, <1>5, <1>6 DEF Next

\* Until the first fault every sector call succeeds and every read returns
\* its sector, for any number of calls and any traffic of the mouse on the
\* event ring they share (drain_event, is_mouse_slot), and the gate never
\* poisons the disk that was booted (verify_identity).  One bus error is
\* enough for a read to return something else.
THEOREM CallsSucceed ==
    ASSUME ~SlowDevice
    PROVE  Spec => []SucceedsWithoutFault
  <1> DEFINE P == UsbTypes /\ RunInv /\ events \in Seq(RingEvent) /\ OneFault
  <1>1. Init => FaultFree
    <2> SUFFICES ASSUME Init PROVE Quiet
      BY DEF FaultFree
    <2> QED
      BY DEF Init, Quiet, Gated, Fetched, ReadReturnsSector
  <1>2. P /\ FaultFree /\ [Next]_vars => FaultFree'
    BY StepKeepsFaultFree
  <1>3. Spec => []P
    BY StorageInvariant
  <1>4. FaultFree => SucceedsWithoutFault
    BY DEF FaultFree, Quiet, SucceedsWithoutFault
  <1> HIDE DEF P
  <1> QED
    BY <1>1, <1>2, <1>3, <1>4, PTL DEF Spec
=============================================================================
