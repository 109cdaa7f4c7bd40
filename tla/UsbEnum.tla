------------------------------ MODULE UsbEnum ------------------------------
(***************************************************************************)
(* How usb/xhci.rs finds USB drives: the pipeline of bring_up,             *)
(* reset_and_enable_slots, address_enabled_slots, fetch_configurations,    *)
(* configure_endpoints and probe_mass_storage, run again and again (at     *)
(* boot, for a mouse, by the keys d and n of the Table List) or step by    *)
(* step (the xHCI screen), while sticks are plugged in and pulled out.     *)
(* Each step is one operator: it visits all its devices under one lock.    *)
(* There is one controller; every device is a mass-storage stick.          *)
(***************************************************************************)
EXTENDS Naturals, FiniteSets, Sequences

CONSTANTS Stick,      \* USB sticks
          SuperSpeed, \* those on a USB 3 link, whose port enables itself
          Size,       \* a stick's size, in the units in which the boot prefix is copied
          Master,     \* the disk in the primary IDE master's place
          NoDisk,
          NPorts,     \* root ports (max_ports)
          MaxSlots,   \* device slots of the controller (max_slots)
          MaxFaults   \* bound: device calls that fail for no reason of the program

VARIABLES disk,       \* external: what each disk holds (see Disks)
          port,       \* external: each root port: its stick, enabled?, the slot that addresses it
          used,       \* external: device slots the controller has handed out
          hc,         \* XhciState: [up, reports, addressed, msc]
          faults      \* calls that failed so far

Port == 1..NPorts
Slot == 1..MaxSlots

\* How far a slot's device has got; "hollow" is a configuration without
\* interfaces.
Stage == {"addressed", "described", "hollow", "parsed", "set"}

\* First sectors without an MBR of TablesOS, and one that could not be read.
Blank == [img |-> "blank", guid |-> 0]
Unreadable == [img |-> "unreadable", guid |-> 0]
Other == <<"other", 0>>      \* a chunk of no image

NoController == [up |-> FALSE, reports |-> {}, addressed |-> {}, msc |-> {}]

\* A root port just after its stick was put in (or after power on).
Fresh(s) == [stick |-> s, ped |-> s \in SuperSpeed, owner |-> 0]

\* The disk that answers transfers on a slot: the device context of a slot
\* whose device is gone addresses nothing.
Device(slot) ==
    LET at == {p \in Port : port[p].owner = slot /\ port[p].stick # NoDisk}
    IN  IF slot = 0 \/ at = {} THEN NoDisk ELSE port[CHOOSE p \in at : TRUE].stick

\* What goes wrong in a step: n calls fail.
Failing(n) ==
    /\ faults + n <= MaxFaults
    /\ faults' = faults + n
-----------------------------------------------------------------------------
(* The steps.  F is the set of ports, slots or devices whose call fails.  A  *)
(* call that timed out is taken as failed for good: its completion does not *)
(* come later, where the next command would take it for its own.            *)

bring_up(F) ==
    /\ hc' = [hc EXCEPT !.up = @ \/ F = {}]
    /\ UNCHANGED <<disk, port, used>>

\* Ports that end up enabled when the resets of R fail: an enabled port is not
\* reset again.
Enabled(R) == {p \in Port : port[p].stick # NoDisk /\ (port[p].ped \/ p \notin R)}

\* issue_enable_slot, which fails for N: every call takes the controller's next
\* slot, also for a port whose stick has one already.
SlotFor(R, N, p) == used + Cardinality({q \in Enabled(R) \ N : q <= p})

reset_and_enable_slots(R, N) ==
    LET got == {p \in Enabled(R) \ N : SlotFor(R, N, p) <= MaxSlots}
    IN  /\ port' = [p \in Port |->
                      IF p \in Enabled(R) /\ ~port[p].ped
                      THEN [port[p] EXCEPT !.ped = TRUE, !.owner = 0]
                      ELSE port[p]]
        /\ hc' = [hc EXCEPT !.reports = {[slot |-> SlotFor(R, N, p), port |-> p] : p \in got}]
        /\ used' = used + Cardinality(got)
        /\ UNCHANGED disk

\* Mutant: one entry per port instead of one per slot.
UnaddressedPort == {r \in hc.reports : \A a \in hc.addressed : a.port # r.port}

\* Slots of the last scan that were never addressed: a slot in `addressed` is
\* skipped, whether addressing it worked or not.
Unaddressed == {r \in hc.reports : \A a \in hc.addressed : a.slot # r.slot}

\* Address Device reaches a stick only in its default state; the descriptor is
\* fetched right after it (D: the sticks whose descriptor does not come).
address_enabled_slots(F, D) ==
    LET answers == {r \in Unaddressed \ F :
                      /\ port[r.port].stick # NoDisk
                      /\ port[r.port].ped
                      /\ port[r.port].owner = 0}
    IN  /\ port' = [p \in Port |->
                      IF \E r \in answers : r.port = p
                      THEN [port[p] EXCEPT !.owner = (CHOOSE r \in answers : r.port = p).slot]
                      ELSE port[p]]
        /\ hc' = [hc EXCEPT !.addressed = @ \cup
                    {[slot |-> r.slot, port |-> r.port,
                      stage |-> IF r \in answers \ D THEN "described" ELSE "addressed"] :
                        r \in Unaddressed}]
        /\ UNCHANGED <<disk, used>>

\* Each device that is attached goes on to the stage that `to` gives it.
Advance(to) ==
    /\ hc' = [hc EXCEPT !.addressed =
                {IF Device(a.slot) # NoDisk THEN [a EXCEPT !.stage = to[a]] ELSE a : a \in @}]
    /\ UNCHANGED <<disk, port, used>>

\* Two transfers: the 9-byte header, then the whole descriptor.  Without the
\* header (H) the device is asked again in the next pass; without the rest (B)
\* the header is parsed as a configuration and never fetched again.
fetch_configurations(H, B) ==
    Advance([a \in hc.addressed |->
                IF a.stage # "described" \/ a \in H THEN a.stage
                ELSE IF a \in B THEN "hollow" ELSE "parsed"])

\* A configuration without interfaces is passed over.
configure_endpoints(F) ==
    Advance([a \in hc.addressed |-> IF a.stage = "parsed" /\ a \notin F THEN "set" ELSE a.stage])

\* INQUIRY, READ CAPACITY and READ(10) of sector 0 of one device; `miss` names
\* the one that fails.  A read whose data stage fails comes back as zeroes.
Probe(a, miss) ==
    LET d == Device(a.slot)
    IN  [slot    |-> a.slot,
         inquiry |-> d # NoDisk /\ miss # "inquiry",
         size    |-> IF d = NoDisk \/ miss = "capacity" THEN 0 ELSE Size[d],
         first   |-> IF d = NoDisk \/ miss \in {"capacity", "read"} THEN Unreadable
                     ELSE IF miss = "zeroes" THEN Blank
                     ELSE disk[d].mbr]

\* The probes of the last pass are all replaced.
probe_mass_storage(F, miss) ==
    /\ hc' = [hc EXCEPT !.msc =
                {Probe(a, IF a \in F THEN miss ELSE "none") : a \in {b \in hc.addressed : b.stage = "set"}}]
    /\ UNCHANGED <<disk, port, used>>

\* A probe that makes a DriveInfo.
IsDrive(m) == m.inquiry /\ m.size # 0

Drives == {m \in hc.msc : IsDrive(m)}
-----------------------------------------------------------------------------
(* The pipeline: what each step does with at most one failing call.  Without *)
(* a controller every step but the first returns at once, and so do the      *)
(* steps that need devices when there are none.                              *)

Steps == <<"bring_up", "ports", "address", "fetch", "configure", "probe">>

Skip == Failing(0) /\ UNCHANGED <<disk, port, used, hc>>

BringUp ==
    IF hc.up THEN Skip
    ELSE \E n \in {0, 1} : Failing(n) /\ bring_up(IF n = 0 THEN {} ELSE {"controller"})

ScanPorts ==
    IF ~hc.up THEN Skip
    ELSE \E R \in SUBSET Port : \E N \in SUBSET Enabled(R) :
            Failing(Cardinality(R) + Cardinality(N)) /\ reset_and_enable_slots(R, N)

Address ==
    IF ~hc.up THEN Skip
    ELSE \E F \in SUBSET Unaddressed : \E D \in SUBSET (Unaddressed \ F) :
            Failing(Cardinality(F) + Cardinality(D)) /\ address_enabled_slots(F, D)

Fetch ==
    IF hc.addressed = {} THEN Skip
    ELSE \E H \in SUBSET hc.addressed : \E B \in SUBSET (hc.addressed \ H) :
            Failing(Cardinality(H) + Cardinality(B)) /\ fetch_configurations(H, B)

Configure ==
    IF hc.addressed = {} THEN Skip
    ELSE \E F \in SUBSET hc.addressed : Failing(Cardinality(F)) /\ configure_endpoints(F)

ProbeDrives ==
    IF hc.addressed = {} THEN Skip
    ELSE \E F \in SUBSET hc.addressed, miss \in {"inquiry", "capacity", "read", "zeroes"} :
            Failing(Cardinality(F)) /\ probe_mass_storage(F, miss)
-----------------------------------------------------------------------------
(* The user's hands *)

Unplug(p) ==
    /\ port[p].stick # NoDisk
    /\ port' = [port EXCEPT ![p] = Fresh(NoDisk)]

Plug(p, s) ==
    /\ port[p].stick = NoDisk
    /\ \A q \in Port : port[q].stick # s
    /\ port' = [port EXCEPT ![p] = Fresh(s)]
=============================================================================
