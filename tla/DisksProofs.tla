---------------------------- MODULE DisksProofs ----------------------------
(***************************************************************************)
(* Theorems about Disks, for any number of disks, ports, slots, images,    *)
(* GUIDs and faults.  The inductive invariant is in three layers:          *)
(*   Usb      a slot addresses the device of at most one port, for good;    *)
(*   Thread   where the main thread is, and what it may rely on there;      *)
(*   Disk...  which disk carries which GUID, and how far a copy has come.   *)
(* Every step but Reboot keeps what a slot addresses or loses it (Steady), *)
(* which is what the layers above need to know of the pipeline.            *)
(***************************************************************************)
EXTENDS Disks, OrderLemmas

-----------------------------------------------------------------------------
(* Counting slots *)

\* How many elements of E come up to x: the order in which slots are given.
Rank(E, x) == Cardinality({y \in E : y <= x})

\* Those of E that are among the first n.
First(E, n) == {x \in E : Rank(E, x) <= n}

\* Ranks are positive and different.
LEMMA RankOrder ==
    ASSUME NEW E \in SUBSET Nat, IsFiniteSet(E)
    PROVE  /\ \A x \in E : Rank(E, x) \in Nat /\ Rank(E, x) >= 1
           /\ \A x, y \in E : x < y => Rank(E, x) < Rank(E, y)
           /\ \A x, y \in E : Rank(E, x) = Rank(E, y) => x = y
  <1> DEFINE upto(x) == {y \in E : y <= x}
  <1>1. \A x \in E : IsFiniteSet(upto(x)) /\ Cardinality(upto(x)) \in Nat
    <2>1. \A x \in E : upto(x) \in SUBSET E
      OBVIOUS
    <2>2. QED
      BY <2>1, FS_Subset, FS_CardinalityType
  <1>2. ASSUME NEW x \in E PROVE Cardinality(upto(x)) >= 1
    <2>1. x \in upto(x)
      OBVIOUS
    <2>2. Cardinality(upto(x)) # 0
      BY <1>1, <2>1, FS_EmptySet
    <2>3. QED
      BY <1>1, <2>2
  <1>3. ASSUME NEW x \in E, NEW y \in E, x < y
        PROVE  Cardinality(upto(x)) < Cardinality(upto(y))
    <2>1. x \in Nat /\ y \in Nat
      OBVIOUS
    <2>2. ~(y <= x) /\ y <= y /\ \A z \in E : z <= x => z <= y
      BY <1>3, <2>1
    <2>3. y \notin upto(x) /\ upto(x) \cup {y} \subseteq upto(y)
      BY <2>2, Zenon
    <2>4. Cardinality(upto(x) \cup {y}) = Cardinality(upto(x)) + 1
      BY <1>1, <2>3, FS_AddElement
    <2>5. Cardinality(upto(x) \cup {y}) <= Cardinality(upto(y))
      BY <1>1, <2>3, FS_Subset
    <2>6. QED
      BY <1>1, <2>4, <2>5
  <1>4. QED
    BY <1>1, <1>2, <1>3 DEF Rank

\* The first n: there are at most n, each ranked among them, and n if any is left.
LEMMA FirstCount ==
    ASSUME NEW E \in SUBSET Nat, IsFiniteSet(E), NEW n \in Nat
    PROVE  /\ IsFiniteSet(First(E, n))
           /\ Cardinality(First(E, n)) \in 0..n
           /\ \A x \in First(E, n) : Rank(E, x) <= Cardinality(First(E, n))
           /\ \A x \in E \ First(E, n) : Cardinality(First(E, n)) = n
  <1> DEFINE got == First(E, n)
             upto(x) == {y \in E : y <= x}
  <1>1. got \in SUBSET E /\ \A x \in E : upto(x) \in SUBSET E
    BY DEF First
  <1>2. IsFiniteSet(got) /\ Cardinality(got) \in Nat
    BY <1>1, FS_Subset, FS_CardinalityType
  <1>3. \A x \in E : IsFiniteSet(upto(x)) /\ Rank(E, x) = Cardinality(upto(x))
    BY <1>1, FS_Subset DEF Rank
  <1>4. Cardinality(got) <= n
    <2> DEFINE rank == [x \in got |-> Rank(E, x)]
    <2>1. rank \in Injection(got, 1..n)
      <3>1. \A x \in got : x \in E /\ Rank(E, x) <= n /\ Rank(E, x) \in Nat /\ Rank(E, x) >= 1
        BY RankOrder DEF First
      <3>2. rank \in [got -> 1..n]
        BY <3>1
      <3>3. \A x, y \in got : rank[x] = rank[y] => x = y
        BY <3>1, RankOrder
      <3>4. QED
        BY <3>2, <3>3 DEF Injection, IsInjective
    <2>2. IsFiniteSet(1..n) /\ Cardinality(1..n) = n
      BY FS_Interval
    <2>3. QED
      BY <2>1, <2>2, FS_Injection
  <1>5. ASSUME NEW x \in got PROVE Rank(E, x) <= Cardinality(got)
    <2> x \in E
      BY <1>1
    <2>1. \A y \in upto(x) : y \in E /\ (y = x \/ Rank(E, y) < Rank(E, x))
      <3>1. \A y \in E : y <= x => y = x \/ y < x
        OBVIOUS
      <3>2. QED
        BY <3>1, RankOrder
    <2>2. \A y \in upto(x) : y \in got
      BY <2>1, <1>1, RankOrder DEF First
    <2>3. Cardinality(upto(x)) <= Cardinality(got)
      BY <1>2, <2>2, FS_Subset
    <2>4. QED
      BY <1>1, <1>3, <2>3
  <1>6. ASSUME NEW z \in E \ got PROVE Cardinality(got) = n
    <2>1. E \ got \in SUBSET Nat /\ E \ got # {}
      OBVIOUS
    <2>2. PICK x \in E \ got : \A y \in E \ got : x <= y
      BY <2>1, LeastNumber
    <2>3. \A y \in E : y < x => y \in got
      BY <2>2
    <2>4. upto(x) \subseteq got \cup {x} /\ x \notin got
      <3>1. \A y \in E : y <= x => y = x \/ y < x
        OBVIOUS
      <3>2. QED
        BY <2>3, <3>1
    <2>5. IsFiniteSet(got \cup {x}) /\ Cardinality(got \cup {x}) = Cardinality(got) + 1
      BY <1>2, <2>4, FS_AddElement
    <2>6. Cardinality(upto(x)) <= Cardinality(got \cup {x})
      BY <2>4, <2>5, FS_Subset
    <2>7. Rank(E, x) > n /\ Rank(E, x) \in Nat
      BY <2>2, RankOrder DEF First
    <2>8. QED
      BY <1>2, <1>3, <1>4, <2>5, <2>6, <2>7
  <1>7. QED
    BY <1>2, <1>4, <1>5, <1>6

-----------------------------------------------------------------------------
(* Ports, slots and the devices they address *)

\* What a probe leaves behind.
Probed == [slot : Slot, inquiry : BOOLEAN, size : Nat, first : Mbr \cup {Blank, Unreadable}]

UsbType ==
    /\ port \in [Port -> [stick : Stick \cup {NoDisk}, ped : BOOLEAN, owner : 0..MaxSlots]]
    /\ used \in 0..MaxSlots
    /\ faults \in 0..MaxFaults
    /\ hc \in [up : BOOLEAN, reports : SUBSET [slot : Slot, port : Port],
               addressed : SUBSET [slot : Slot, port : Port, stage : Stage], msc : SUBSET Probed]

\* The slots on which a device was ever addressed, since power on.
Slots == {a.slot : a \in hc.addressed}

\* A stick is in one port, and a slot addresses the device of one port.
OwnerInv ==
    /\ \A p \in Port : port[p].owner # 0 =>
         port[p].stick # NoDisk /\ port[p].ped /\ port[p].owner \in Slots
    /\ \A p, q \in Port : port[p].owner = port[q].owner /\ port[p].owner # 0 => p = q
    /\ \A p, q \in Port : port[p].stick = port[q].stick /\ port[p].stick # NoDisk => p = q
    /\ \A p \in Port : port[p].stick # NoDisk => port[p].stick \in DOMAIN disk

\* The slots handed out were counted, and each was reported and addressed once.
CountInv ==
    /\ \A r \in hc.reports : r.slot <= used
    /\ \A r, s \in hc.reports : r.slot = s.slot \/ r.port = s.port => r = s
    /\ \A a \in hc.addressed : a.slot <= used
    /\ \A a, b \in hc.addressed : a.slot = b.slot => a = b

Usb == UsbType /\ OwnerInv /\ CountInv

\* Blank and unreadable sectors are nobody's MBR.
LEMMA NoMbr == Blank \notin Mbr /\ Unreadable \notin Mbr
  BY DisksAssumption DEF Mbr, Blank, Unreadable

\* A device is the stick in the port that its slot owns, if any.
Located(slot) ==
    \/ Device(slot) = NoDisk
    \/ \E p \in Port : slot # 0 /\ port[p].owner = slot /\ port[p].stick = Device(slot)

LEMMA DeviceLocated ==
    ASSUME OwnerInv, NEW slot
    PROVE  Located(slot)
  <1> DEFINE at == {p \in Port : port[p].owner = slot /\ port[p].stick # NoDisk}
  <1>1. CASE slot = 0 \/ at = {}
    BY <1>1 DEF Device, Located
  <1>2. CASE slot # 0 /\ at # {}
    <2>1. (CHOOSE p \in at : TRUE) \in at
      BY <1>2, Zenon
    <2>2. Device(slot) = port[CHOOSE p \in at : TRUE].stick
      BY <1>2, Zenon DEF Device
    <2> HIDE DEF at
    <2> DEFINE p == CHOOSE p \in at : TRUE
    <2> HIDE DEF p
    <2>3. p \in at /\ Device(slot) = port[p].stick
      BY <2>1, <2>2 DEF p
    <2>4. p \in Port /\ port[p].owner = slot
      BY <2>3 DEF at
    <2>5. QED
      BY <1>2, <2>3, <2>4 DEF Located
  <1>3. QED
    BY <1>1, <1>2

LEMMA DeviceOfPort ==
    ASSUME OwnerInv, NEW p \in Port, port[p].owner # 0
    PROVE  Device(port[p].owner) = port[p].stick
  <1> DEFINE slot == port[p].owner
             at == {q \in Port : port[q].owner = slot /\ port[q].stick # NoDisk}
  <1>1. at = {p}
    BY DEF OwnerInv
  <1>2. (CHOOSE q \in at : TRUE) = p
    BY <1>1
  <1>3. Device(slot) = port[CHOOSE q \in at : TRUE].stick
    BY <1>1, Zenon DEF Device
  <1>4. QED
    BY <1>2, <1>3

\* The same of the next state.
LEMMA DeviceLocatedNext ==
    ASSUME NEW slot
    PROVE  OwnerInv' => Located(slot)'
  <1>1. OwnerInv => Located(slot)
    BY DeviceLocated
  <1>2. QED
    BY <1>1, PTL

LEMMA DeviceOfPortNext ==
    ASSUME NEW p \in Port
    PROVE  (OwnerInv /\ port[p].owner # 0 => Device(port[p].owner) = port[p].stick)'
  <1>1. OwnerInv /\ port[p].owner # 0 => Device(port[p].owner) = port[p].stick
    BY DeviceOfPort
  <1>2. QED
    BY <1>1, PTL

\* Every device is a stick with a content.
LEMMA DeviceIsStick ==
    ASSUME Usb, NEW slot, Device(slot) # NoDisk
    PROVE  Device(slot) \in Stick \cap DOMAIN disk /\ Device(slot) # Master /\ slot \in Slots
  <1>1. PICK p \in Port : slot # 0 /\ port[p].owner = slot /\ port[p].stick = Device(slot)
    BY DeviceLocated DEF Located, Usb
  <1>2. port[p].stick \in Stick \cup {NoDisk}
    BY DEF Usb, UsbType
  <1>3. QED
    BY <1>1, <1>2, DisksAssumption DEF Usb, OwnerInv

-----------------------------------------------------------------------------
(* What every step but Reboot keeps *)

\* A slot goes on addressing its device, or loses it.
Steady ==
    /\ Slots \subseteq Slots'
    /\ \A s \in Slots : Device(s)' \in {Device(s), NoDisk}

\* No slot with a device changes hands.
LEMMA SteadyWhen ==
    ASSUME OwnerInv, OwnerInv', Slots \subseteq Slots',
           \A p \in Port : port'[p].owner \in Slots =>
               port'[p].owner = port[p].owner /\ port'[p].stick = port[p].stick
    PROVE  Steady
  <1> SUFFICES ASSUME NEW s \in Slots, Device(s)' # NoDisk
               PROVE  Device(s)' = Device(s)
    BY DEF Steady
  <1>1. Located(s)'
    BY DeviceLocatedNext
  <1>2. PICK p \in Port : s # 0 /\ port'[p].owner = s /\ port'[p].stick = Device(s)'
    BY <1>1 DEF Located
  <1>3. port[p].owner = s /\ port[p].stick = Device(s)'
    BY <1>2
  <1>4. QED
    BY <1>2, <1>3, DeviceOfPort

LEMMA SameDevices ==
    ASSUME UNCHANGED port, NEW s
    PROVE  Device(s)' = Device(s)
  BY DEF Device

LEMMA FailingCount ==
    ASSUME UsbType, NEW n \in Nat, Failing(n)
    PROVE  /\ faults' \in 0..MaxFaults
           /\ faults <= faults'
           /\ n # 0 => faults < faults'
  BY DisksAssumption DEF UsbType, Failing

LEMMA ReportsFinite ==
    ASSUME Usb
    PROVE  IsFiniteSet(hc.reports) /\ IsFiniteSet(hc.addressed) /\ IsFiniteSet(Port)
  <1>1. IsFiniteSet(Slot) /\ IsFiniteSet(Port)
    BY FS_Interval, DisksAssumption DEF Slot, Port
  <1>2. \A r \in hc.reports : r.slot \in Slot
    BY DEF Usb, UsbType
  <1>3. \A a \in hc.addressed : a.slot \in Slot
    BY DEF Usb, UsbType
  <1>4. [r \in hc.reports |-> r.slot] \in Injection(hc.reports, Slot)
    BY <1>2 DEF Usb, CountInv, Injection, IsInjective
  <1>5. [a \in hc.addressed |-> a.slot] \in Injection(hc.addressed, Slot)
    BY <1>3 DEF Usb, CountInv, Injection, IsInjective
  <1>6. QED
    BY <1>1, <1>4, <1>5, FS_Injection

\* The failing calls of a step are counted.
LEMMA FailingSet ==
    ASSUME UsbType, NEW S, IsFiniteSet(S), NEW F \in SUBSET S, Failing(Cardinality(F))
    PROVE  /\ faults' \in 0..MaxFaults
           /\ faults <= faults'
           /\ F # {} => faults < faults'
  <1>1. Cardinality(F) \in Nat /\ (Cardinality(F) = 0 <=> F = {})
    BY FS_Subset, FS_CardinalityType, FS_EmptySet
  <1>2. QED
    BY <1>1, FailingCount

\* So are those of a step that makes two kinds of calls.
LEMMA FailingTwo ==
    ASSUME UsbType, NEW S, IsFiniteSet(S), NEW F \in SUBSET S, NEW D \in SUBSET S,
           Failing(Cardinality(F) + Cardinality(D))
    PROVE  /\ faults' \in 0..MaxFaults
           /\ faults <= faults'
           /\ faults' = faults => F = {} /\ D = {}
  <1>1. /\ Cardinality(F) \in Nat /\ (Cardinality(F) = 0 <=> F = {})
        /\ Cardinality(D) \in Nat /\ (Cardinality(D) = 0 <=> D = {})
    BY FS_Subset, FS_CardinalityType, FS_EmptySet
  <1> DEFINE f == Cardinality(F)
             d == Cardinality(D)
  <1>2. f \in Nat /\ d \in Nat /\ Failing(f + d)
    BY <1>1
  <1> HIDE DEF f, d
  <1>3. f + d \in Nat /\ (f + d = 0 => f = 0 /\ d = 0)
    BY <1>2
  <1>4. /\ faults' \in 0..MaxFaults /\ faults <= faults'
        /\ f + d # 0 => faults < faults'
    BY <1>2, <1>3, FailingCount
  <1>5. faults' = faults => f = 0 /\ d = 0
    BY <1>3, <1>4, DisksAssumption DEF UsbType
  <1>6. QED
    BY <1>1, <1>4, <1>5 DEF f, d
-----------------------------------------------------------------------------
(* The steps of the pipeline *)

Plugged == {p \in Port : port[p].stick # NoDisk}

\* A stick that has a slot, or that the controller had none left for.
Owned(p) == port[p].owner # 0 \/ (used = MaxSlots /\ \A r \in hc.reports : r.port # p)

\* A stick that has a slot or is about to be addressed.
Waiting(p) == port[p].ped /\ (Owned(p) \/ \E r \in Unaddressed : r.port = p)

\* The stage that the device of a port has reached.
StageIn(p, S) == \A a \in hc.addressed : a.slot = port[p].owner => a.stage \in S

\* A stick that a pass shows, or has a reason not to show.
Found(p) ==
    \/ \E m \in Drives : m.slot = port[p].owner /\ m.first = disk[port[p].stick].mbr
    \/ used = MaxSlots /\ port[p].owner = 0 /\ \A r \in hc.reports : r.port # p
    \/ \E a \in hc.addressed : a.slot = port[p].owner /\ a.stage \in {"addressed", "hollow"}

\* A step that reads no sector.
Enumerates ==
    /\ Usb' /\ Steady /\ Plugged' = Plugged
    /\ hc'.msc = hc.msc
    /\ faults' \in Nat /\ faults <= faults'

LEMMA SkipStep ==
    ASSUME Usb, Skip
    PROVE  Enumerates /\ faults' = faults /\ UNCHANGED <<disk, port, used, hc>>
  <1>1. UNCHANGED <<disk, port, used, hc>> /\ faults' = faults
    BY DisksAssumption DEF Skip, Failing, Usb, UsbType
  <1>2. Usb'
    BY <1>1 DEF Usb, UsbType, OwnerInv, CountInv, Slots, Port, Slot, Probed, Mbr
  <1>3. Steady
    BY <1>1, SameDevices DEF Steady, Slots
  <1>4. QED
    BY <1>1, <1>2, <1>3 DEF Enumerates, Plugged, Usb, UsbType

LEMMA BringUpStep ==
    ASSUME Usb, BringUp
    PROVE  Enumerates /\ (faults' = faults => hc'.up)
  <1>1. CASE hc.up
    BY <1>1, SkipStep DEF BringUp
  <1>2. CASE ~hc.up
    <2>1. PICK n \in {0, 1} : Failing(n) /\ bring_up(IF n = 0 THEN {} ELSE {"controller"})
      BY <1>2 DEF BringUp
    <2>2. faults' \in 0..MaxFaults /\ faults <= faults' /\ (faults' = faults => n = 0)
      BY <2>1, FailingCount DEF Usb, UsbType
    <2>3. UNCHANGED <<disk, port, used>>
      BY <2>1 DEF bring_up
    <2>4. hc' = [hc EXCEPT !.up = (n = 0)]
      <3>1. n = 1 => {"controller"} # {}
        OBVIOUS
      <3>2. QED
        BY <1>2, <2>1, <3>1 DEF bring_up, Usb, UsbType
    <2>5. hc'.reports = hc.reports /\ hc'.addressed = hc.addressed /\ hc'.msc = hc.msc /\ hc'.up = (n = 0)
      BY <2>4 DEF Usb, UsbType
    <2>6. UsbType'
      BY <2>2, <2>3, <2>4 DEF Usb, UsbType, Port, Slot, Probed, Mbr
    <2>7. Slots' = Slots
      BY <2>5 DEF Slots
    <2>8. OwnerInv' /\ CountInv'
      BY <2>3, <2>5, <2>7 DEF Usb, OwnerInv, CountInv, Port
    <2>9. Steady
      BY <2>3, <2>7, SameDevices DEF Steady
    <2>10. faults' \in Nat /\ Plugged' = Plugged
      BY <2>2, <2>3, DisksAssumption DEF Plugged, Port
    <2>11. Enumerates
      BY <2>2, <2>5, <2>6, <2>8, <2>9, <2>10 DEF Enumerates, Usb
    <2>12. QED
      BY <2>2, <2>5, <2>11
  <1>3. QED
    BY <1>1, <1>2

\* The slots that a scan hands out.
LEMMA SlotsHandedOut ==
    ASSUME Usb, NEW R \in SUBSET Port, NEW N, NEW got,
           got = {p \in Enabled(R) \ N : SlotFor(R, N, p) <= MaxSlots}
    PROVE  /\ used + Cardinality(got) \in 0..MaxSlots
           /\ \A p \in got : /\ p \in Port /\ SlotFor(R, N, p) \in Slot
                             /\ SlotFor(R, N, p) > used
                             /\ SlotFor(R, N, p) <= used + Cardinality(got)
           /\ \A p, q \in got : SlotFor(R, N, p) = SlotFor(R, N, q) => p = q
           /\ \A p \in (Enabled(R) \ N) \ got : used + Cardinality(got) = MaxSlots
  <1> DEFINE E == Enabled(R) \ N
             K == MaxSlots - used
  <1>1. E \in SUBSET Nat /\ IsFiniteSet(E) /\ E \subseteq Port
    <2>1. E \subseteq Port /\ Port \subseteq Nat
      BY DisksAssumption DEF Enabled, Port
    <2>2. QED
      BY <2>1, ReportsFinite, FS_Subset
  <1>2. K \in Nat /\ used \in Nat /\ MaxSlots \in Nat /\ used + K = MaxSlots
    BY DisksAssumption DEF Usb, UsbType
  <1>3. \A p \in E : Rank(E, p) \in Nat /\ Rank(E, p) >= 1 /\ SlotFor(R, N, p) = used + Rank(E, p)
    BY <1>1, RankOrder DEF SlotFor, Rank
  <1>4. \A p, q \in E : Rank(E, p) = Rank(E, q) => p = q
    BY <1>1, RankOrder
  <1> HIDE DEF K
  <1>5. got = First(E, K)
    <2>1. \A p \in E : SlotFor(R, N, p) <= MaxSlots <=> Rank(E, p) <= K
      BY <1>2, <1>3
    <2>2. QED
      BY <2>1, Zenon DEF First
  <1>6. /\ Cardinality(got) \in 0..K
        /\ \A p \in got : Rank(E, p) <= Cardinality(got)
        /\ \A p \in E \ got : Cardinality(got) = K
    BY <1>1, <1>2, <1>5, FirstCount
  <1>7. got \subseteq E
    OBVIOUS
  <1> HIDE DEF E
  <1>8. used + Cardinality(got) \in 0..MaxSlots
    BY <1>2, <1>6
  <1>9. ASSUME NEW p \in got
        PROVE  /\ p \in Port /\ SlotFor(R, N, p) \in Slot
               /\ SlotFor(R, N, p) > used
               /\ SlotFor(R, N, p) <= used + Cardinality(got)
    <2> p \in E
      BY <1>7
    <2>1. Rank(E, p) \in Nat /\ Rank(E, p) >= 1 /\ Rank(E, p) <= Cardinality(got)
      BY <1>3, <1>6
    <2>2. SlotFor(R, N, p) = used + Rank(E, p)
      BY <1>3
    <2>3. QED
      BY <1>1, <1>2, <1>6, <2>1, <2>2 DEF Slot
  <1>10. \A p, q \in got : SlotFor(R, N, p) = SlotFor(R, N, q) => p = q
    BY <1>2, <1>3, <1>4, <1>7
  <1>11. \A p \in E \ got : used + Cardinality(got) = MaxSlots
    BY <1>2, <1>6
  <1>12. QED
    BY <1>8, <1>9, <1>10, <1>11 DEF E

LEMMA ScanStep ==
    ASSUME Usb, ScanPorts
    PROVE  /\ Enumerates
           /\ hc'.up = hc.up
           /\ faults' = faults /\ hc.up => \A p \in Plugged : Waiting(p)'
  <1>1. CASE ~hc.up
    BY <1>1, SkipStep DEF ScanPorts
  <1>2. CASE hc.up
    <2>0. PICK R \in SUBSET Port : \E N \in SUBSET Enabled(R) :
            Failing(Cardinality(R) + Cardinality(N)) /\ reset_and_enable_slots(R, N)
      BY <1>2 DEF ScanPorts
    <2>1. PICK N \in SUBSET Enabled(R) :
            Failing(Cardinality(R) + Cardinality(N)) /\ reset_and_enable_slots(R, N)
      BY <2>0
    <2>2. faults' \in 0..MaxFaults /\ faults <= faults' /\ (faults' = faults => R = {} /\ N = {})
      <3>1. N \in SUBSET Port
        BY DEF Enabled
      <3>2. QED
        BY <2>1, <3>1, FailingTwo, ReportsFinite DEF Usb
    <2> DEFINE got == {p \in Enabled(R) \ N : SlotFor(R, N, p) <= MaxSlots}
               n == Cardinality(got)
               new == {[slot |-> SlotFor(R, N, p), port |-> p] : p \in got}
    <2>3. /\ port' = [p \in Port |->
                       IF p \in Enabled(R) /\ ~port[p].ped
                       THEN [port[p] EXCEPT !.ped = TRUE, !.owner = 0]
                       ELSE port[p]]
          /\ hc' = [hc EXCEPT !.reports = new]
          /\ used' = used + n
          /\ disk' = disk
      BY <2>1 DEF reset_and_enable_slots
    <2>4. /\ used + n \in 0..MaxSlots
          /\ \A p \in got : /\ p \in Port /\ SlotFor(R, N, p) \in Slot
                            /\ SlotFor(R, N, p) > used
                            /\ SlotFor(R, N, p) <= used + n
          /\ \A p, q \in got : SlotFor(R, N, p) = SlotFor(R, N, q) => p = q
          /\ \A p \in (Enabled(R) \ N) \ got : used + n = MaxSlots
      BY SlotsHandedOut
    <2>5. got \subseteq Enabled(R) \ N
      OBVIOUS
    <2> HIDE DEF got, n
    <2>6. \A p \in Port : /\ port'[p].owner = port[p].owner
                          /\ port'[p].stick = port[p].stick
                          /\ port[p].ped => port'[p].ped
                          /\ p \in Enabled(R) => port'[p].ped
                          /\ port'[p] \in [stick : Stick \cup {NoDisk}, ped : BOOLEAN, owner : 0..MaxSlots]
      <3> SUFFICES ASSUME NEW p \in Port
                   PROVE  /\ port'[p].owner = port[p].owner
                          /\ port'[p].stick = port[p].stick
                          /\ port[p].ped => port'[p].ped
                          /\ p \in Enabled(R) => port'[p].ped
                          /\ port'[p] \in [stick : Stick \cup {NoDisk}, ped : BOOLEAN, owner : 0..MaxSlots]
        OBVIOUS
      <3> DEFINE c == port[p]
      <3>1. c \in [stick : Stick \cup {NoDisk}, ped : BOOLEAN, owner : 0..MaxSlots]
        BY DEF Usb, UsbType
      <3>2. ~c.ped => c.owner = 0
        BY DEF Usb, OwnerInv
      <3>3. port'[p] = IF p \in Enabled(R) /\ ~c.ped THEN [c EXCEPT !.ped = TRUE, !.owner = 0] ELSE c
        BY <2>3
      <3> HIDE DEF c
      <3>4. /\ port'[p].owner = c.owner /\ port'[p].stick = c.stick
            /\ c.ped => port'[p].ped
            /\ p \in Enabled(R) => port'[p].ped
            /\ port'[p] \in [stick : Stick \cup {NoDisk}, ped : BOOLEAN, owner : 0..MaxSlots]
        BY <3>1, <3>2, <3>3, DisksAssumption
      <3>5. QED
        BY <3>4 DEF c
    <2>7. /\ hc'.reports = new /\ hc'.addressed = hc.addressed /\ hc'.msc = hc.msc /\ hc'.up = hc.up
          /\ Slots' = Slots
      BY <2>3 DEF Usb, UsbType, Slots
    <2>8. new \subseteq [slot : Slot, port : Port]
      BY <2>4
    <2>9. UsbType'
      <3>1. port' \in [Port -> [stick : Stick \cup {NoDisk}, ped : BOOLEAN, owner : 0..MaxSlots]]
        BY <2>3, <2>6
      <3>2. hc' \in [up : BOOLEAN, reports : SUBSET [slot : Slot, port : Port],
                     addressed : SUBSET [slot : Slot, port : Port, stage : Stage], msc : SUBSET Probed]
        <4> HIDE DEF new
        <4>1. QED
          BY <2>3, <2>8 DEF Usb, UsbType
      <3>3. used' \in 0..MaxSlots /\ faults' \in 0..MaxFaults
        BY <2>2, <2>3, <2>4
      <3>4. QED
        BY <3>1, <3>2, <3>3 DEF UsbType, Port, Slot, Probed, Mbr
    <2>10. OwnerInv'
      <3>1. Port' = Port /\ DOMAIN disk' = DOMAIN disk
        BY <2>3 DEF Port
      <3>2. QED
        BY <2>6, <2>7, <3>1 DEF Usb, OwnerInv
    <2>11. CountInv'
      <3>1. \A r \in new : r.slot <= used'
        <4>1. \A p \in got : SlotFor(R, N, p) <= used'
          BY <2>3, <2>4
        <4>2. QED
          BY <4>1
      <3>2. \A r, s \in new : r.slot = s.slot \/ r.port = s.port => r = s
        BY <2>4
      <3>3. \A a \in hc.addressed : a.slot <= used'
        <4>1. \A a \in hc.addressed : a.slot \in Slot /\ a.slot <= used
          BY DEF Usb, UsbType, CountInv
        <4>2. n \in Nat
          <5>1. IsFiniteSet(got)
            BY <2>4, ReportsFinite, FS_Subset, Zenon
          <5>2. QED
            BY <5>1, FS_CardinalityType DEF n
        <4>3. used \in Nat /\ used' = used + n
          <5>1. used \in Nat
            BY DisksAssumption DEF Usb, UsbType
          <5>2. used' = used + n
            BY <2>3, Zenon
          <5>3. QED
            BY <5>1, <5>2
        <4>4. \A a \in hc.addressed : a.slot \in Nat
          BY <4>1, DisksAssumption DEF Slot
        <4>5. QED
          BY <4>1, <4>2, <4>3, <4>4
      <3>4. QED
        BY <2>7, <3>1, <3>2, <3>3 DEF Usb, CountInv
    <2>12. Steady
      <3>1. \A p \in Port : port'[p].owner \in Slots =>
               port'[p].owner = port[p].owner /\ port'[p].stick = port[p].stick
        BY <2>6
      <3>2. QED
        BY <2>7, <2>10, <3>1, SteadyWhen DEF Usb
    <2>13. Plugged' = Plugged
      BY <2>6 DEF Plugged, Port
    <2>14. ASSUME faults' = faults, NEW p \in Plugged PROVE Waiting(p)'
      <3>1. p \in Port /\ p \in Enabled(R) \ N
        BY <2>2, <2>14 DEF Plugged, Enabled
      <3>2. port'[p].ped
        BY <2>6, <3>1
      <3>3. CASE p \in got
        <4> DEFINE r == [slot |-> SlotFor(R, N, p), port |-> p]
        <4>1. r \in hc'.reports /\ r.port = p /\ r.slot > used
          BY <2>4, <2>7, <3>3
        <4>2. \A a \in hc'.addressed : a.slot # r.slot
          <5>1. \A a \in hc.addressed : a.slot \in Slot /\ a.slot <= used
            BY DEF Usb, UsbType, CountInv
          <5>2. QED
            BY <2>4, <2>7, <3>3, <4>1, <5>1, DisksAssumption DEF Usb, UsbType, Slot
        <4>3. r \in Unaddressed'
          BY <4>1, <4>2 DEF Unaddressed
        <4>4. QED
          BY <3>2, <4>1, <4>3 DEF Waiting
      <3>4. CASE p \notin got
        <4>1. used' = MaxSlots
          BY <2>3, <2>4, <3>1, <3>4
        <4>2. \A r \in hc'.reports : r.port # p
          BY <2>7, <3>4
        <4>3. QED
          BY <3>2, <4>1, <4>2 DEF Waiting, Owned
      <3>5. QED
        BY <3>3, <3>4
    <2>15. faults' \in Nat
      BY <2>2, DisksAssumption
    <2>16. QED
      BY <2>2, <2>7, <2>9, <2>10, <2>11, <2>12, <2>13, <2>14, <2>15 DEF Enumerates, Usb
  <1>3. QED
    BY <1>1, <1>2

LEMMA AddressStep ==
    ASSUME Usb, Address
    PROVE  /\ Enumerates
           /\ hc.up /\ faults' = faults => \A p \in Plugged : Waiting(p) => Owned(p)'
  <1>1. CASE ~hc.up
    BY <1>1, SkipStep DEF Address
  <1>2. CASE hc.up
    <2>1. PICK F \in SUBSET Unaddressed : \E D \in SUBSET (Unaddressed \ F) :
            Failing(Cardinality(F) + Cardinality(D)) /\ address_enabled_slots(F, D)
      BY <1>2 DEF Address
    <2>2. PICK D \in SUBSET (Unaddressed \ F) :
            Failing(Cardinality(F) + Cardinality(D)) /\ address_enabled_slots(F, D)
      BY <2>1
    <2>3. faults' \in 0..MaxFaults /\ faults <= faults' /\ (faults' = faults => F = {})
      <3>1. Unaddressed \subseteq hc.reports /\ F \subseteq hc.reports /\ D \subseteq hc.reports
        BY DEF Unaddressed
      <3>2. /\ Cardinality(F) \in Nat /\ (Cardinality(F) = 0 <=> F = {})
            /\ Cardinality(D) \in Nat
        BY <3>1, ReportsFinite, FS_Subset, FS_CardinalityType, FS_EmptySet
      <3>3. Cardinality(F) + Cardinality(D) \in Nat
        BY <3>2
      <3>4. /\ faults' \in 0..MaxFaults /\ faults <= faults'
            /\ Cardinality(F) + Cardinality(D) # 0 => faults < faults'
        BY <2>2, <3>3, FailingCount DEF Usb
      <3>5. QED
        BY <3>2, <3>4, DisksAssumption DEF Usb, UsbType
    <2> DEFINE answers == {r \in Unaddressed \ F : /\ port[r.port].stick # NoDisk
                                                   /\ port[r.port].ped
                                                   /\ port[r.port].owner = 0}
               stage(r) == IF r \in answers \ D THEN "described" ELSE "addressed"
               new == {[slot |-> r.slot, port |-> r.port, stage |-> stage(r)] : r \in Unaddressed}
    <2>4. /\ port' = [p \in Port |->
                        IF \E r \in answers : r.port = p
                        THEN [port[p] EXCEPT !.owner = (CHOOSE r \in answers : r.port = p).slot]
                        ELSE port[p]]
          /\ hc' = [hc EXCEPT !.addressed = @ \cup new]
          /\ disk' = disk /\ used' = used
      BY <2>2 DEF address_enabled_slots
    <2>5. /\ \A r \in Unaddressed : r.slot \in Slot /\ r.port \in Port /\ r.slot <= used
          /\ \A r \in Unaddressed : r.slot \notin Slots
          /\ \A r, s \in Unaddressed : r.slot = s.slot \/ r.port = s.port => r = s
      BY DEF Usb, UsbType, CountInv, Unaddressed, Slots
    <2>6. /\ hc'.addressed = hc.addressed \cup new
          /\ hc'.reports = hc.reports /\ hc'.msc = hc.msc /\ hc'.up = hc.up
      <3> HIDE DEF new
      <3>1. QED
        BY <2>4 DEF Usb, UsbType
    <2>7. new \subseteq [slot : Slot, port : Port, stage : Stage]
      BY <2>5 DEF Stage
    <2>8. Slots' = Slots \cup {r.slot : r \in Unaddressed}
      <3> HIDE DEF stage
      <3>1. \A a \in new : \E r \in Unaddressed : a.slot = r.slot
        OBVIOUS
      <3>2. \A r \in Unaddressed : \E a \in new : a.slot = r.slot
        <4> SUFFICES ASSUME NEW r \in Unaddressed PROVE \E a \in new : a.slot = r.slot
          OBVIOUS
        <4> WITNESS [slot |-> r.slot, port |-> r.port, stage |-> stage(r)] \in new
        <4> QED
          OBVIOUS
      <3> HIDE DEF new
      <3>3. Slots' = Slots \cup {a.slot : a \in new}
        BY <2>6 DEF Slots
      <3>4. QED
        BY <3>1, <3>2, <3>3
    <2>9. \A r \in answers : r \in Unaddressed /\ r \notin F /\ port[r.port].stick # NoDisk
                             /\ port[r.port].ped /\ port[r.port].owner = 0
      OBVIOUS
    <2> HIDE DEF answers
    <2>10. ASSUME NEW r \in answers
           PROVE  /\ r.port \in Port /\ r.slot \in Slot
                  /\ port'[r.port] = [port[r.port] EXCEPT !.owner = r.slot]
      <3>1. r.port \in Port /\ r.slot \in Slot
        BY <2>5, <2>9
      <3>2. (CHOOSE s \in answers : s.port = r.port) = r
        <4>1. \A s \in answers : s.port = r.port => s = r
          BY <2>5, <2>9
        <4>2. QED
          BY <4>1
      <3>3. QED
        BY <2>4, <3>1, <3>2
    <2>11. \A p \in Port : (\A r \in answers : r.port # p) => port'[p] = port[p]
      BY <2>4
    <2>12. \A p \in Port : port[p] \in [stick : Stick \cup {NoDisk}, ped : BOOLEAN, owner : 0..MaxSlots]
      BY DEF Usb, UsbType
    <2>13. ASSUME NEW r \in answers
           PROVE  /\ port'[r.port].owner = r.slot /\ r.slot # 0 /\ r.slot \notin Slots
                  /\ port'[r.port].stick = port[r.port].stick /\ port'[r.port].ped = port[r.port].ped
                  /\ port'[r.port] \in [stick : Stick \cup {NoDisk}, ped : BOOLEAN, owner : 0..MaxSlots]
      <3> DEFINE c == port[r.port]
      <3>1. c \in [stick : Stick \cup {NoDisk}, ped : BOOLEAN, owner : 0..MaxSlots]
        BY <2>10, <2>12
      <3>2. port'[r.port] = [c EXCEPT !.owner = r.slot]
        BY <2>10
      <3>3. r.slot \in 0..MaxSlots /\ r.slot # 0 /\ r.slot \notin Slots
        BY <2>5, <2>9, <2>10, DisksAssumption DEF Slot
      <3> HIDE DEF c
      <3>4. /\ port'[r.port].owner = r.slot
            /\ port'[r.port].stick = c.stick /\ port'[r.port].ped = c.ped
            /\ port'[r.port] \in [stick : Stick \cup {NoDisk}, ped : BOOLEAN, owner : 0..MaxSlots]
        BY <3>1, <3>2, <3>3
      <3>5. QED
        BY <3>3, <3>4 DEF c
    <2>14. \A p \in Port : /\ port'[p].stick = port[p].stick /\ port'[p].ped = port[p].ped
                           /\ \/ \E r \in answers : r.port = p /\ port'[p].owner = r.slot
                              \/ port'[p].owner = port[p].owner
      BY <2>11, <2>13
    <2>15. UsbType'
      <3>1. port' \in [Port -> [stick : Stick \cup {NoDisk}, ped : BOOLEAN, owner : 0..MaxSlots]]
        <4>1. \A p \in Port : port'[p] \in [stick : Stick \cup {NoDisk}, ped : BOOLEAN, owner : 0..MaxSlots]
          BY <2>11, <2>12, <2>13
        <4>2. QED
          BY <2>4, <4>1
      <3>2. hc' \in [up : BOOLEAN, reports : SUBSET [slot : Slot, port : Port],
                     addressed : SUBSET [slot : Slot, port : Port, stage : Stage], msc : SUBSET Probed]
        <4> HIDE DEF new
        <4>1. QED
          BY <2>4, <2>7 DEF Usb, UsbType
      <3>3. used' \in 0..MaxSlots /\ faults' \in 0..MaxFaults
        BY <2>3, <2>4 DEF Usb, UsbType
      <3>4. QED
        BY <3>1, <3>2, <3>3 DEF UsbType, Port, Slot, Probed, Mbr
    <2>16. OwnerInv'
      <3>1. ASSUME NEW p \in Port, port'[p].owner # 0
            PROVE  port'[p].stick # NoDisk /\ port'[p].ped /\ port'[p].owner \in Slots'
        BY <2>8, <2>9, <2>14, <3>1 DEF Usb, OwnerInv
      <3>2. ASSUME NEW p \in Port, NEW q \in Port, port'[p].owner = port'[q].owner, port'[p].owner # 0
            PROVE  p = q
        <4>1. CASE \E r \in answers : r.port = p
          <5>1. PICK r \in answers : r.port = p
            BY <4>1
          <5>2. port'[q].owner = r.slot /\ r.slot # 0 /\ r.slot \notin Slots
            BY <2>13, <3>2, <5>1
          <5>3. port[q].owner # r.slot
            BY <5>2 DEF Usb, OwnerInv
          <5>4. PICK s \in answers : s.port = q /\ s.slot = r.slot
            BY <2>14, <5>2, <5>3
          <5>5. QED
            BY <2>5, <2>9, <5>1, <5>4
        <4>2. CASE \E r \in answers : r.port = q
          <5>1. PICK r \in answers : r.port = q
            BY <4>2
          <5>2. port'[p].owner = r.slot /\ r.slot # 0 /\ r.slot \notin Slots
            BY <2>13, <3>2, <5>1
          <5>3. port[p].owner # r.slot
            BY <5>2 DEF Usb, OwnerInv
          <5>4. PICK s \in answers : s.port = p /\ s.slot = r.slot
            BY <2>14, <5>2, <5>3
          <5>5. QED
            BY <2>5, <2>9, <5>1, <5>4
        <4>3. CASE /\ \A r \in answers : r.port # p
                   /\ \A r \in answers : r.port # q
          BY <2>11, <3>2, <4>3 DEF Usb, OwnerInv
        <4>4. QED
          BY <4>1, <4>2, <4>3
      <3>3. Port' = Port /\ DOMAIN disk' = DOMAIN disk
        BY <2>4 DEF Port
      <3>4. /\ \A p, q \in Port : port'[p].stick = port'[q].stick /\ port'[p].stick # NoDisk => p = q
            /\ \A p \in Port : port'[p].stick # NoDisk => port'[p].stick \in DOMAIN disk'
        BY <2>14, <3>3 DEF Usb, OwnerInv
      <3>5. QED
        BY <3>1, <3>2, <3>3, <3>4 DEF OwnerInv
    <2>17. CountInv'
      <3>1. \A a \in new : a.slot <= used /\ a.slot \notin Slots
        BY <2>5
      <3>2. \A a, b \in new : a.slot = b.slot => a = b
        BY <2>5
      <3>3. \A a \in hc.addressed : a.slot \in Slots /\ a.slot <= used
        BY DEF Slots, Usb, CountInv
      <3>4. \A a, b \in hc'.addressed : a.slot = b.slot => a = b
        <4> HIDE DEF new
        <4>1. QED
          BY <2>6, <3>1, <3>2, <3>3 DEF Usb, CountInv
      <3>5. \A a \in hc'.addressed : a.slot <= used'
        <4> HIDE DEF new
        <4>1. QED
          BY <2>4, <2>6, <3>1, <3>3
      <3>6. /\ \A r \in hc'.reports : r.slot <= used'
            /\ \A r, s \in hc'.reports : r.slot = s.slot \/ r.port = s.port => r = s
        <4>1. used' = used /\ hc'.reports = hc.reports
          BY <2>4, <2>6, Zenon
        <4>2. QED
          BY <4>1 DEF Usb, CountInv
      <3>7. QED
        BY <3>4, <3>5, <3>6 DEF CountInv
    <2>18. Steady
      <3>1. \A p \in Port : port'[p].owner \in Slots =>
               port'[p].owner = port[p].owner /\ port'[p].stick = port[p].stick
        BY <2>13, <2>14
      <3>2. QED
        BY <2>8, <2>16, <3>1, SteadyWhen DEF Usb
    <2>19. Plugged' = Plugged
      BY <2>14 DEF Plugged, Port
    <2>20. ASSUME faults' = faults, NEW p \in Plugged, Waiting(p) PROVE Owned(p)'
      <3>1. p \in Port /\ port[p].stick # NoDisk /\ port[p].ped
        BY <2>20 DEF Plugged, Waiting
      <3>2. CASE port[p].owner # 0
        <4>1. \A r \in answers : r.port # p
          BY <2>9, <3>2
        <4>2. QED
          BY <2>11, <3>1, <3>2, <4>1 DEF Owned
      <3>3. CASE used = MaxSlots /\ \A r \in hc.reports : r.port # p
        BY <2>4, <2>6, <3>3 DEF Owned
      <3>4. CASE port[p].owner = 0 /\ \E r \in Unaddressed : r.port = p
        <4>1. PICK r \in Unaddressed : r.port = p
          BY <3>4
        <4>2. r \in answers
          BY <2>3, <2>20, <3>1, <3>4, <4>1 DEF answers
        <4>3. QED
          BY <2>13, <4>1, <4>2 DEF Owned
      <3>5. QED
        BY <2>20, <3>2, <3>3, <3>4 DEF Waiting, Owned
    <2>21. faults' \in Nat
      BY <2>3, DisksAssumption
    <2>22. QED
      BY <2>3, <2>6, <2>15, <2>16, <2>17, <2>18, <2>19, <2>20, <2>21 DEF Enumerates, Usb
  <1>3. QED
    BY <1>1, <1>2

LEMMA AdvanceStep ==
    ASSUME Usb, NEW to \in [hc.addressed -> Stage], Advance(to),
           faults' \in 0..MaxFaults, faults <= faults'
    PROVE  /\ Enumerates
           /\ hc'.reports = hc.reports /\ used' = used /\ port' = port
           /\ \A b \in hc'.addressed : \E a \in hc.addressed :
                /\ b.slot = a.slot
                /\ b.stage = IF Device(a.slot) # NoDisk THEN to[a] ELSE a.stage
  <1> DEFINE next(a) == IF Device(a.slot) # NoDisk THEN [a EXCEPT !.stage = to[a]] ELSE a
             new == {next(a) : a \in hc.addressed}
  <1>1. hc' = [hc EXCEPT !.addressed = new] /\ UNCHANGED <<disk, port, used>>
    BY DEF Advance
  <1>3. \A a \in hc.addressed : a \in [slot : Slot, port : Port, stage : Stage]
    BY DEF Usb, UsbType
  <1>4. \A a \in hc.addressed :
          /\ next(a) \in [slot : Slot, port : Port, stage : Stage]
          /\ next(a).slot = a.slot
          /\ next(a).stage = IF Device(a.slot) # NoDisk THEN to[a] ELSE a.stage
    BY <1>3
  <1> HIDE DEF next
  <1>5. /\ hc'.addressed = new /\ hc'.reports = hc.reports /\ hc'.msc = hc.msc /\ hc'.up = hc.up
    <2> HIDE DEF new
    <2>1. QED
      BY <1>1 DEF Usb, UsbType
  <1>6. Slots' = Slots
    <2>1. \A b \in new : \E a \in hc.addressed : b.slot = a.slot
      BY <1>4
    <2>2. \A a \in hc.addressed : \E b \in new : b.slot = a.slot
      BY <1>4
    <2> HIDE DEF new
    <2>3. QED
      BY <1>5, <2>1, <2>2 DEF Slots
  <1>7. UsbType'
    <2>1. new \subseteq [slot : Slot, port : Port, stage : Stage]
      BY <1>4
    <2> HIDE DEF new
    <2>2. hc' \in [up : BOOLEAN, reports : SUBSET [slot : Slot, port : Port],
                   addressed : SUBSET [slot : Slot, port : Port, stage : Stage], msc : SUBSET Probed]
      BY <1>1, <2>1 DEF Usb, UsbType
    <2>3. QED
      BY <1>1, <2>2 DEF Usb, UsbType, Port, Slot, Probed, Mbr
  <1>8. OwnerInv'
    BY <1>1, <1>6 DEF Usb, OwnerInv, Port
  <1>9. CountInv'
    <2>1. \A b \in new : b.slot <= used
      BY <1>4 DEF Usb, CountInv
    <2>2. \A b, c \in new : b.slot = c.slot => b = c
      BY <1>4 DEF Usb, CountInv
    <2> HIDE DEF new
    <2>3. used' = used /\ hc'.addressed = new /\ hc'.reports = hc.reports
      BY <1>1, <1>5
    <2>4. QED
      BY <2>1, <2>2, <2>3 DEF Usb, CountInv
  <1>10. Steady
    BY <1>1, <1>6, SameDevices DEF Steady
  <1>11. Plugged' = Plugged /\ faults' \in Nat
    BY <1>1, DisksAssumption DEF Plugged, Port
  <1>12. \A b \in hc'.addressed : \E a \in hc.addressed :
                /\ b.slot = a.slot
                /\ b.stage = IF Device(a.slot) # NoDisk THEN to[a] ELSE a.stage
    BY <1>4, <1>5
  <1>13. Enumerates
    BY <1>5, <1>7, <1>8, <1>9, <1>10, <1>11 DEF Enumerates, Usb
  <1>14. QED
    BY <1>1, <1>5, <1>12, <1>13

\* Advancing moves on every device that answers.
LEMMA AdvanceStages ==
    ASSUME Usb, NEW to \in [hc.addressed -> Stage], Advance(to),
           faults' \in 0..MaxFaults, faults <= faults',
           NEW T, NEW p \in Plugged,
           \A a \in hc.addressed : a.slot = port[p].owner => to[a] \in T
    PROVE  StageIn(p, T)'
  <1>1. /\ port' = port
        /\ \A b \in hc'.addressed : \E a \in hc.addressed :
             /\ b.slot = a.slot
             /\ b.stage = IF Device(a.slot) # NoDisk THEN to[a] ELSE a.stage
    BY AdvanceStep
  <1> SUFFICES ASSUME NEW b \in hc'.addressed, b.slot = port[p].owner
               PROVE  b.stage \in T
    BY <1>1 DEF StageIn
  <1>2. PICK a \in hc.addressed : /\ b.slot = a.slot
                                  /\ b.stage = IF Device(a.slot) # NoDisk THEN to[a] ELSE a.stage
    BY <1>1
  <1>3. a.slot = port[p].owner /\ a.slot # 0 /\ p \in Port /\ port[p].stick # NoDisk
    BY <1>2, DisksAssumption DEF Usb, UsbType, Slot, Plugged
  <1>4. Device(a.slot) # NoDisk
    BY <1>3, DeviceOfPort DEF Usb
  <1>5. QED
    BY <1>2, <1>3, <1>4

LEMMA FetchStep ==
    ASSUME Usb, Fetch
    PROVE  /\ Enumerates
           /\ \A p \in Plugged : Owned(p) => Owned(p)'
           /\ faults' = faults => \A p \in Plugged : StageIn(p, {"addressed", "hollow", "parsed", "set"})'
  <1>1. CASE hc.addressed = {}
    <2>1. Enumerates /\ UNCHANGED <<disk, port, used, hc>>
      BY <1>1, SkipStep DEF Fetch
    <2>2. QED
      BY <1>1, <2>1 DEF Owned, StageIn
  <1>2. CASE hc.addressed # {}
    <2>1. PICK H \in SUBSET hc.addressed : \E B \in SUBSET (hc.addressed \ H) :
            Failing(Cardinality(H) + Cardinality(B)) /\ fetch_configurations(H, B)
      BY <1>2 DEF Fetch
    <2>2. PICK B \in SUBSET (hc.addressed \ H) :
            Failing(Cardinality(H) + Cardinality(B)) /\ fetch_configurations(H, B)
      BY <2>1
    <2> DEFINE to == [a \in hc.addressed |->
                        IF a.stage # "described" \/ a \in H THEN a.stage
                        ELSE IF a \in B THEN "hollow" ELSE "parsed"]
    <2>3. \A a \in hc.addressed : a.stage \in Stage
      BY DEF Usb, UsbType
    <2>4. to \in [hc.addressed -> Stage] /\ Advance(to)
      BY <2>2, <2>3 DEF fetch_configurations, Stage
    <2>5. faults' \in 0..MaxFaults /\ faults <= faults' /\ (faults' = faults => H = {} /\ B = {})
      BY <2>2, FailingTwo, ReportsFinite DEF Usb
    <2>6. faults' = faults =>
            \A a \in hc.addressed : to[a] \in {"addressed", "hollow", "parsed", "set"}
      BY <2>3, <2>5 DEF Stage
    <2> HIDE DEF to
    <2>7. /\ Enumerates
          /\ hc'.reports = hc.reports /\ used' = used /\ port' = port
      BY <2>4, <2>5, AdvanceStep
    <2>8. faults' = faults => \A p \in Plugged : StageIn(p, {"addressed", "hollow", "parsed", "set"})'
      BY <2>4, <2>5, <2>6, AdvanceStages
    <2>9. \A p \in Plugged : Owned(p) => Owned(p)'
      BY <2>7 DEF Owned
    <2>10. QED
      BY <2>7, <2>8, <2>9
  <1>3. QED
    BY <1>1, <1>2

LEMMA ConfigureStep ==
    ASSUME Usb, Configure
    PROVE  /\ Enumerates
           /\ \A p \in Plugged : Owned(p) => Owned(p)'
           /\ faults' = faults =>
                \A p \in Plugged : StageIn(p, {"addressed", "hollow", "parsed", "set"}) =>
                                   StageIn(p, {"addressed", "hollow", "set"})'
  <1>1. CASE hc.addressed = {}
    <2>1. Enumerates /\ UNCHANGED <<disk, port, used, hc>>
      BY <1>1, SkipStep DEF Configure
    <2>2. QED
      BY <1>1, <2>1 DEF Owned, StageIn
  <1>2. CASE hc.addressed # {}
    <2>1. PICK F \in SUBSET hc.addressed : Failing(Cardinality(F)) /\ configure_endpoints(F)
      BY <1>2 DEF Configure
    <2> DEFINE to == [a \in hc.addressed |-> IF a.stage = "parsed" /\ a \notin F THEN "set" ELSE a.stage]
    <2>2. \A a \in hc.addressed : a.stage \in Stage
      BY DEF Usb, UsbType
    <2>3. to \in [hc.addressed -> Stage] /\ Advance(to)
      BY <2>1, <2>2 DEF configure_endpoints, Stage
    <2>4. faults' \in 0..MaxFaults /\ faults <= faults' /\ (faults' = faults => F = {})
      BY <2>1, FailingSet, ReportsFinite, DisksAssumption DEF Usb, UsbType
    <2>5. faults' = faults =>
            \A a \in hc.addressed : a.stage \in {"addressed", "hollow", "parsed", "set"} =>
                                    to[a] \in {"addressed", "hollow", "set"}
      BY <2>4
    <2> HIDE DEF to
    <2>6. /\ Enumerates
          /\ hc'.reports = hc.reports /\ used' = used /\ port' = port
      BY <2>3, <2>4, AdvanceStep
    <2>7. ASSUME faults' = faults, NEW p \in Plugged, StageIn(p, {"addressed", "hollow", "parsed", "set"})
          PROVE  StageIn(p, {"addressed", "hollow", "set"})'
      <3>1. \A a \in hc.addressed : a.slot = port[p].owner => to[a] \in {"addressed", "hollow", "set"}
        BY <2>5, <2>7 DEF StageIn
      <3>2. QED
        BY <2>3, <2>4, <3>1, AdvanceStages
    <2>8. \A p \in Plugged : Owned(p) => Owned(p)'
      BY <2>6 DEF Owned
    <2>9. QED
      BY <2>6, <2>7, <2>8
  <1>3. QED
    BY <1>1, <1>2

DiskType ==
    /\ DOMAIN disk \subseteq Stick \cup {Master}
    /\ \A d \in DOMAIN disk : disk[d] \in Content

\* A new probe: the first sector of its device, unless a read failed.
ProbedNow(m) ==
    /\ m.slot \in Slots
    /\ \/ m.first \in {Blank, Unreadable}
       \/ Device(m.slot) # NoDisk /\ m.first = disk[Device(m.slot)].mbr
    /\ IsDrive(m) => /\ Device(m.slot) # NoDisk
                     /\ m.first = disk[Device(m.slot)].mbr \/ faults < faults'

\* What one probe records.
LEMMA ProbeValue ==
    ASSUME Usb, DiskType, NEW a \in hc.addressed, NEW miss \in {"none", "inquiry", "capacity", "read", "zeroes"},
           miss # "none" => faults < faults'
    PROVE  Probe(a, miss) \in Probed /\ ProbedNow(Probe(a, miss))
  <1> DEFINE d == Device(a.slot)
             m == Probe(a, miss)
  <1>1. d # NoDisk => d \in Stick /\ d \in DOMAIN disk
    BY DeviceIsStick
  <1>2. d # NoDisk => Size[d] \in Nat /\ disk[d].mbr \in Mbr \cup {Blank}
    BY <1>1, DisksAssumption DEF DiskType, Content
  <1>3. a.slot \in Slot /\ a.slot \in Slots
    BY DEF Usb, UsbType, Slots
  <1>4. m = [slot    |-> a.slot,
             inquiry |-> d # NoDisk /\ miss # "inquiry",
             size    |-> IF d = NoDisk \/ miss = "capacity" THEN 0 ELSE Size[d],
             first   |-> IF d = NoDisk \/ miss \in {"capacity", "read"} THEN Unreadable
                         ELSE IF miss = "zeroes" THEN Blank
                         ELSE disk[d].mbr]
    BY DEF Probe
  <1>5. /\ m.slot = a.slot
        /\ m.inquiry = (d # NoDisk /\ miss # "inquiry")
        /\ m.size = IF d = NoDisk \/ miss = "capacity" THEN 0 ELSE Size[d]
        /\ m.first = IF d = NoDisk \/ miss \in {"capacity", "read"} THEN Unreadable
                     ELSE IF miss = "zeroes" THEN Blank
                     ELSE disk[d].mbr
    BY <1>4
  <1> HIDE DEF d
  <1>6. m \in Probed
    BY <1>2, <1>3, <1>4 DEF Probed
  <1>7. m.first \in {Blank, Unreadable} \/ (d # NoDisk /\ m.first = disk[d].mbr)
    BY <1>5
  <1>8. IsDrive(m) => d # NoDisk /\ (m.first = disk[d].mbr \/ faults < faults')
    BY <1>5 DEF IsDrive
  <1>9. Device(m.slot) = d
    BY <1>5 DEF d
  <1> HIDE DEF m
  <1>10. ProbedNow(m)
    BY <1>3, <1>5, <1>7, <1>8, <1>9 DEF ProbedNow
  <1>11. QED
    BY <1>6, <1>10 DEF m

LEMMA ProbeStep ==
    ASSUME Usb, DiskType, ProbeDrives
    PROVE  /\ Usb' /\ Steady /\ Plugged' = Plugged
           /\ UNCHANGED <<disk, port, used>>
           /\ faults' \in Nat /\ faults <= faults'
           /\ \A m \in hc'.msc : m \in hc.msc \/ ProbedNow(m)
           /\ faults' = faults /\ (\A p \in Plugged : Owned(p) /\ StageIn(p, {"addressed", "hollow", "set"}))
                => \A p \in Plugged : Found(p)'
  <1>1. CASE hc.addressed = {}
    <2>1. Enumerates /\ UNCHANGED <<disk, port, used, hc>>
      BY <1>1, SkipStep DEF ProbeDrives
    <2>2. Slots = {}
      BY <1>1 DEF Slots
    <2>3. \A p \in Plugged : p \in Port /\ port[p].owner = 0
      BY <2>2 DEF Usb, OwnerInv, Plugged
    <2>4. \A p \in Plugged : Owned(p) => Found(p)'
      BY <2>1, <2>3 DEF Owned, Found
    <2>5. QED
      BY <2>1, <2>4 DEF Enumerates
  <1>2. CASE hc.addressed # {}
    <2>1. PICK F \in SUBSET hc.addressed, miss \in {"inquiry", "capacity", "read", "zeroes"} :
            Failing(Cardinality(F)) /\ probe_mass_storage(F, miss)
      BY <1>2 DEF ProbeDrives
    <2>2. faults' \in 0..MaxFaults /\ faults <= faults' /\ (F # {} => faults < faults')
      BY <2>1, FailingSet, ReportsFinite DEF Usb
    <2> DEFINE ready == {b \in hc.addressed : b.stage = "set"}
               why(a) == IF a \in F THEN miss ELSE "none"
               new == {Probe(a, why(a)) : a \in ready}
    <2>3. hc' = [hc EXCEPT !.msc = new] /\ UNCHANGED <<disk, port, used>>
      BY <2>1 DEF probe_mass_storage
    <2>4. \A a \in ready : Probe(a, why(a)) \in Probed /\ ProbedNow(Probe(a, why(a)))
      <3> SUFFICES ASSUME NEW a \in ready
                   PROVE  Probe(a, why(a)) \in Probed /\ ProbedNow(Probe(a, why(a)))
        OBVIOUS
      <3>1. why(a) \in {"none", "inquiry", "capacity", "read", "zeroes"} /\ a \in hc.addressed
        OBVIOUS
      <3>2. why(a) # "none" => faults < faults'
        BY <2>2
      <3> HIDE DEF why
      <3>3. QED
        BY <3>1, <3>2, ProbeValue
    <2>5. \A m \in new : m \in Probed /\ ProbedNow(m)
      BY <2>4
    <2>6. /\ hc'.addressed = hc.addressed /\ hc'.reports = hc.reports
          /\ hc'.msc = new /\ hc'.up = hc.up
      <3> HIDE DEF new
      <3>1. QED
        BY <2>3 DEF Usb, UsbType
    <2>7. hc' \in [up : BOOLEAN, reports : SUBSET [slot : Slot, port : Port],
                   addressed : SUBSET [slot : Slot, port : Port, stage : Stage], msc : SUBSET Probed]
      <3> HIDE DEF new
      <3>1. QED
        BY <2>3, <2>5 DEF Usb, UsbType
    <2>8. UsbType'
      BY <2>2, <2>3, <2>7 DEF Usb, UsbType, Port, Slot, Probed, Mbr
    <2>9. Slots' = Slots
      BY <2>6 DEF Slots
    <2>10. OwnerInv' /\ CountInv'
      <3>1. /\ hc'.addressed = hc.addressed /\ hc'.reports = hc.reports
            /\ port' = port /\ used' = used /\ disk' = disk
        BY <2>3, <2>6
      <3>2. QED
        BY <2>9, <3>1 DEF Usb, OwnerInv, CountInv, Port
    <2>11. Steady
      BY <2>3, <2>9, SameDevices DEF Steady
    <2>12. Plugged' = Plugged /\ faults' \in Nat
      BY <2>2, <2>3, DisksAssumption DEF Plugged, Port
    <2>13. ASSUME faults' = faults, NEW p \in Plugged, Owned(p), StageIn(p, {"addressed", "hollow", "set"})
           PROVE  Found(p)'
      <3>1. F = {}
        BY <2>2, <2>13
      <3>2. p \in Port /\ port[p].stick # NoDisk
        BY DEF Plugged
      <3>3. port' = port /\ used' = used /\ disk' = disk /\ hc'.reports = hc.reports /\ hc'.addressed = hc.addressed
        BY <2>3, <2>6
      <3>4. CASE port[p].owner = 0
        BY <2>13, <3>3, <3>4 DEF Owned, Found
      <3>5. CASE port[p].owner # 0
        <4>1. port[p].owner \in Slots
          BY <3>2, <3>5 DEF Usb, OwnerInv
        <4>2. PICK a \in hc.addressed : a.slot = port[p].owner
          BY <4>1 DEF Slots
        <4>3. a.stage \in {"addressed", "hollow", "set"}
          BY <2>13, <4>2 DEF StageIn
        <4>4. CASE a.stage \in {"addressed", "hollow"}
          BY <3>3, <4>2, <4>4 DEF Found
        <4>5. CASE a.stage = "set"
          <5> DEFINE m == Probe(a, "none")
                     d == Device(a.slot)
          <5>1. m \in hc'.msc
            BY <2>6, <3>1, <4>5
          <5>2. d = port[p].stick
            BY <3>2, <3>5, <4>2, DeviceOfPort DEF Usb
          <5>3. /\ m.slot = a.slot
                /\ m.inquiry = (d # NoDisk)
                /\ m.size = IF d = NoDisk THEN 0 ELSE Size[d]
                /\ m.first = IF d = NoDisk THEN Unreadable ELSE disk[d].mbr
            BY DEF Probe
          <5>4. d \in Stick /\ Size[d] # 0
            BY <3>2, <5>2, DisksAssumption DEF Usb, UsbType
          <5> HIDE DEF m, d
          <5>5. IsDrive(m)
            BY <3>2, <5>2, <5>3, <5>4 DEF IsDrive
          <5>6. m \in Drives'
            BY <5>1, <5>5 DEF Drives
          <5>7. m.slot = port'[p].owner /\ m.first = disk'[port'[p].stick].mbr
            BY <3>2, <3>3, <4>2, <5>2, <5>3
          <5>8. QED
            BY <5>6, <5>7 DEF Found
        <4>6. QED
          BY <4>3, <4>4, <4>5
      <3>6. QED
        BY <3>4, <3>5
    <2>14. \A m \in hc'.msc : ProbedNow(m)
      <3> HIDE DEF new
      <3>1. QED
        BY <2>5, <2>6
    <2>15. Usb'
      BY <2>8, <2>10 DEF Usb
    <2> HIDE DEF new
    <2>16. QED
      BY <2>2, <2>3, <2>11, <2>12, <2>13, <2>14, <2>15
  <1>3. QED
    BY <1>1, <1>2

-----------------------------------------------------------------------------
(* All steps, as the ports and slots see them *)

\* A step of any action but Reboot.
UsbStep ==
    /\ Usb' /\ Steady
    /\ faults' \in Nat /\ faults <= faults'
    /\ \A m \in hc'.msc : m \in hc.msc \/ ProbedNow(m)

LEMMA EnumeratesUsb ==
    ASSUME Enumerates
    PROVE  UsbStep
  BY DEF Enumerates, UsbStep

\* The main thread goes on without the pipeline.
LEMMA CalmUsb ==
    ASSUME Usb, UNCHANGED <<port, used, hc>>, DOMAIN disk' = DOMAIN disk,
           faults' \in 0..MaxFaults, faults <= faults'
    PROVE  UsbStep /\ Plugged' = Plugged
  <1>1. UsbType'
    BY DEF Usb, UsbType, Port, Slot, Probed, Mbr
  <1>2. Slots' = Slots
    BY DEF Slots
  <1>3. OwnerInv' /\ CountInv'
    BY <1>2 DEF Usb, OwnerInv, CountInv, Port
  <1>4. Steady
    BY <1>2, SameDevices DEF Steady
  <1>5. faults' \in Nat /\ Plugged' = Plugged
    BY DisksAssumption DEF Plugged, Port
  <1>6. QED
    BY <1>1, <1>3, <1>4, <1>5 DEF UsbStep, Usb

\* A stick comes or goes.
LEMMA HandsUsb ==
    ASSUME Usb, Hands
    PROVE  UsbStep
  <1>1. UNCHANGED <<disk, used, hc, faults>>
    BY DEF Hands
  <1>2. PICK p \in Port : Unplug(p) \/ \E s \in Stick \cap DOMAIN disk : Plug(p, s)
    BY DEF Hands
  <1>3. PICK s \in Stick \cup {NoDisk} :
          /\ port' = [port EXCEPT ![p] = Fresh(s)]
          /\ s # NoDisk => s \in DOMAIN disk /\ \A q \in Port : port[q].stick # s
    BY <1>2 DEF Unplug, Plug
  <1>4. /\ \A q \in Port \ {p} : port'[q] = port[q]
        /\ port'[p].stick = s /\ port'[p].owner = 0
        /\ port'[p] \in [stick : Stick \cup {NoDisk}, ped : BOOLEAN, owner : 0..MaxSlots]
    BY <1>3, DisksAssumption DEF Usb, UsbType, Fresh
  <1>5. UsbType'
    <2>1. port' \in [Port -> [stick : Stick \cup {NoDisk}, ped : BOOLEAN, owner : 0..MaxSlots]]
      <3>1. DOMAIN port' = Port /\ port' = [q \in Port |-> port'[q]]
        BY <1>3 DEF Usb, UsbType
      <3>2. \A q \in Port : port'[q] \in [stick : Stick \cup {NoDisk}, ped : BOOLEAN, owner : 0..MaxSlots]
        BY <1>4 DEF Usb, UsbType
      <3>3. QED
        BY <3>1, <3>2
    <2>2. QED
      BY <1>1, <2>1 DEF Usb, UsbType, Port, Slot, Probed, Mbr
  <1>6. Slots' = Slots /\ Port' = Port /\ 0 \notin Slots
    BY <1>1, DisksAssumption DEF Slots, Port, Slot, Usb, UsbType
  <1>7. OwnerInv'
    <2>1. \A q \in Port : port'[q].owner # 0 =>
            port'[q].stick # NoDisk /\ port'[q].ped /\ port'[q].owner \in Slots
      BY <1>4 DEF Usb, OwnerInv
    <2>2. \A q, t \in Port : port'[q].owner = port'[t].owner /\ port'[q].owner # 0 => q = t
      BY <1>4 DEF Usb, OwnerInv
    <2>3. \A q, t \in Port : port'[q].stick = port'[t].stick /\ port'[q].stick # NoDisk => q = t
      BY <1>3, <1>4 DEF Usb, OwnerInv
    <2>4. \A q \in Port : port'[q].stick # NoDisk => port'[q].stick \in DOMAIN disk
      BY <1>3, <1>4 DEF Usb, OwnerInv
    <2>5. QED
      BY <1>1, <1>6, <2>1, <2>2, <2>3, <2>4 DEF OwnerInv
  <1>8. CountInv'
    BY <1>1 DEF Usb, CountInv
  <1>9. Steady
    <2>1. \A q \in Port : port'[q].owner \in Slots =>
            port'[q].owner = port[q].owner /\ port'[q].stick = port[q].stick
      BY <1>4, <1>6
    <2>2. QED
      BY <1>6, <1>7, <2>1, SteadyWhen DEF Usb
  <1>10. faults' \in Nat /\ faults <= faults'
    BY <1>1, DisksAssumption DEF Usb, UsbType
  <1>11. QED
    BY <1>1, <1>5, <1>7, <1>8, <1>9, <1>10 DEF UsbStep, Usb

\* Ports without slots: after power on.
FreshPorts ==
    /\ DOMAIN port = Port /\ port = [p \in Port |-> Fresh(port[p].stick)]
    /\ hc = NoController /\ used = 0 /\ faults \in 0..MaxFaults
    /\ \A p \in Port : port[p].stick # NoDisk => port[p].stick \in Stick \cap DOMAIN disk
    /\ \A p, q \in Port : port[p].stick = port[q].stick /\ port[p].stick # NoDisk => p = q

LEMMA FreshUsb ==
    ASSUME FreshPorts
    PROVE  Usb /\ Slots = {} /\ hc.msc = {}
  <1>1. \A p \in Port : /\ port[p].owner = 0
                        /\ port[p] \in [stick : Stick \cup {NoDisk}, ped : BOOLEAN, owner : 0..MaxSlots]
    <2> SUFFICES ASSUME NEW p \in Port
                 PROVE  /\ port[p].owner = 0
                        /\ port[p] \in [stick : Stick \cup {NoDisk}, ped : BOOLEAN, owner : 0..MaxSlots]
      OBVIOUS
    <2> DEFINE s == port[p].stick
    <2>1. port[p] = Fresh(s) /\ s \in Stick \cup {NoDisk}
      BY DEF FreshPorts
    <2> HIDE DEF s
    <2>2. QED
      BY <2>1, DisksAssumption DEF Fresh
  <1>2. port \in [Port -> [stick : Stick \cup {NoDisk}, ped : BOOLEAN, owner : 0..MaxSlots]]
    <2>1. port = [p \in Port |-> port[p]]
      BY DEF FreshPorts
    <2>2. QED
      BY <1>1, <2>1
  <1>3. /\ hc \in [up : BOOLEAN, reports : SUBSET [slot : Slot, port : Port],
                   addressed : SUBSET [slot : Slot, port : Port, stage : Stage], msc : SUBSET Probed]
        /\ hc.reports = {} /\ hc.addressed = {} /\ hc.msc = {}
    BY DEF FreshPorts, NoController
  <1>4. UsbType
    BY <1>2, <1>3, DisksAssumption DEF FreshPorts, UsbType
  <1>5. OwnerInv
    BY <1>1 DEF FreshPorts, OwnerInv
  <1>6. CountInv /\ Slots = {}
    BY <1>3 DEF CountInv, Slots
  <1>7. QED
    BY <1>3, <1>4, <1>5, <1>6 DEF Usb

LEMMA FreshUsbNext == FreshPorts' => (Usb /\ Slots = {} /\ hc.msc = {})'
  <1>1. FreshPorts => Usb /\ Slots = {} /\ hc.msc = {}
    BY FreshUsb
  <1>2. QED
    BY <1>1, PTL

LEMMA RebootUsb ==
    ASSUME Usb, Reboot
    PROVE  Usb' /\ hc'.msc = {}
  <1>1. /\ port' = [p \in Port |-> Fresh(port[p].stick)]
        /\ hc' = NoController /\ used' = 0 /\ UNCHANGED <<disk, faults>>
    BY DEF Reboot
  <1>2. \A p \in Port : port'[p].stick = port[p].stick
    BY <1>1 DEF Fresh
  <1>3. port' = [p \in Port |-> Fresh(port'[p].stick)]
    BY <1>1, <1>2
  <1>4. \A p \in Port : port[p].stick # NoDisk => port[p].stick \in Stick \cap DOMAIN disk
    BY DEF Usb, UsbType, OwnerInv
  <1>5. \A p, q \in Port : port[p].stick = port[q].stick /\ port[p].stick # NoDisk => p = q
    BY DEF Usb, OwnerInv
  <1>6. faults' \in 0..MaxFaults /\ DOMAIN disk' = DOMAIN disk /\ Port' = Port
    BY <1>1 DEF Usb, UsbType, Port
  <1>7. FreshPorts'
    BY <1>1, <1>2, <1>3, <1>4, <1>5, <1>6 DEF FreshPorts
  <1>8. QED
    BY <1>7, FreshUsbNext

-----------------------------------------------------------------------------
(* The main thread *)

StepName == {"bring_up", "ports", "address", "fetch", "configure", "probe"}
Install == {"size", "refuse", "copy", "verify", "result"}

ThreadType ==
    /\ pc \in {"ata", "ata_mbr", "select", "gate", "open_store", "fatal", "idle", "offer"} \cup Install \cup StepName
    /\ after \in {"select", "mouse", "offer", "drives", "key"}
    /\ boot \in [disk : DOMAIN disk, guid : Guid, base : Lba]
    /\ mount \in [bus : {"none", "ata", "usb"}, slot : 0..MaxSlots]
    /\ late \in Command
    /\ inst \in [slot : 0..MaxSlots, lba : Lba, guid : Guid, ok : BOOLEAN]
    /\ clean \in BOOLEAN

\* The kernel looks for its boot disk; it has not yet mounted it.
Booting == pc \in {"ata", "ata_mbr", "select"} \/ (pc \in StepName /\ after = "select")
Early == Booting \/ pc \in {"gate", "open_store"}

\* Where the main thread is, and why the pipeline runs.
FlowInv ==
    /\ pc \in {"ata", "ata_mbr", "select", "gate", "open_store"} => after = "select"
    /\ pc \in Install \cup {"idle"} => after = "key"
    /\ pc = "offer" => after = "offer"
    /\ pc = "probe" => after # "mouse"
    /\ Booting => mount = NoMount
    /\ \E i \in Image : boot.base = Base[i]
    /\ inst.lba <= boot.base
    /\ pc \in {"size", "refuse"} => inst.lba = 0
    /\ pc = "verify" => inst.lba = boot.base
    /\ inst.ok => pc = "result"

\* The slots that the program remembers were addressed.
SlotInv ==
    /\ \A m \in hc.msc : m.slot \in Slots
    /\ mount.bus = "usb" => mount.slot \in Slots
    /\ pc \in Install => inst.slot \in Slots

\* A GUID is on one disk only.
UniqueGuids ==
    \A d, e \in DOMAIN disk : disk[d].mbr # Blank /\ disk[d].mbr.guid = disk[e].mbr.guid => d = e

\* The captured GUID is the boot disk's until the store is open, and what is
\* mounted, or could be, is the boot disk or gone.
BootInv ==
    /\ Early => SameGuid(disk[boot.disk].mbr, boot.guid)
    /\ boot.disk = Master => /\ Bootable(Master)
                             /\ disk[Master].mbr.guid = boot.guid
                             /\ boot.base = Base[disk[Master].mbr.img]
    /\ mount.bus = "ata" => boot.disk = Master
    /\ mount.bus = "usb" => Device(mount.slot) \in {boot.disk, NoDisk}
    /\ Booting => \A m \in hc.msc : SameGuid(m.first, boot.guid) => Device(m.slot) \in {boot.disk, NoDisk}

\* No disk has the new GUID until it is written.
NewGuidInv ==
    pc \in {"size", "refuse"} \/ (pc = "copy" /\ inst.lba = 0) =>
        \A d \in DOMAIN disk : ~SameGuid(disk[d].mbr, inst.guid)

\* The first k chunks of the IDE disk are on d, under the new GUID.
CopiedTo(d, k) ==
    /\ disk[d].mbr = [img |-> disk[Master].mbr.img, guid |-> inst.guid]
    /\ \A j \in Lba : j < k => disk[d].pre[j] = disk[Master].pre[j]

\* A late answer is taken for sector 0 at most, which then is blank.
CopyInv ==
    /\ pc = "copy" /\ inst.lba # 0 => late = NoCommand
    /\ (pc = "verify" \/ (pc = "copy" /\ inst.lba # 0)) /\ mount.bus = "ata" /\ Device(inst.slot) # NoDisk
         => disk[Device(inst.slot)].mbr = Blank \/ CopiedTo(Device(inst.slot), inst.lba)

InstallInv ==
    pc = "result" /\ inst.ok /\ mount.bus = "ata" /\ Device(inst.slot) # NoDisk =>
        /\ CopiedTo(Device(inst.slot), boot.base)
        /\ disk[Device(inst.slot)].vol = boot.base

\* What a pass that nothing disturbs has reached so far.
PassInv ==
    clean /\ after # "key" =>
        /\ pc \in {"ports", "address"} => hc.up
        /\ pc = "address" => \A p \in Plugged : Waiting(p)
        /\ pc \in {"fetch", "configure", "probe"} => \A p \in Plugged : Owned(p)
        /\ pc = "configure" => \A p \in Plugged : StageIn(p, {"addressed", "hollow", "parsed", "set"})
        /\ pc = "probe" => \A p \in Plugged : StageIn(p, {"addressed", "hollow", "set"})
        /\ pc \in {"select", "offer"} => \A p \in Plugged : Found(p)

Thread == DiskType /\ ThreadType /\ FlowInv

Identity == SlotInv /\ UniqueGuids /\ BootInv /\ NewGuidInv /\ CopyInv /\ InstallInv

\* A step outside the installer: at most a prefix is damaged (the write test).
Quiet ==
    /\ UNCHANGED <<boot, inst>>
    /\ DOMAIN disk' = DOMAIN disk
    /\ \A d \in DOMAIN disk : disk'[d].mbr = disk[d].mbr
    /\ Master \in DOMAIN disk => disk'[Master] = disk[Master]
    /\ pc \in Install => UNCHANGED <<disk, pc, mount>> /\ late' \in {late, NoCommand}
    /\ pc \notin Install => pc' \notin Install
    /\ Early' => Early
    /\ Booting' => Booting

\* What is mounted is the boot disk or gone.
MountInv ==
    /\ mount.bus = "ata" => boot.disk = Master
    /\ mount.bus = "usb" => mount.slot \in Slots /\ Device(mount.slot) \in {boot.disk, NoDisk}

LEMMA MountStays ==
    ASSUME SlotInv, BootInv, Steady, UNCHANGED <<boot, mount>>
    PROVE  MountInv'
  <1>1. PICK s : s = mount.slot
    OBVIOUS
  <1>2. Device(mount.slot) = Device(s) /\ Device(mount.slot)' = Device(s)'
    BY <1>1 DEF Device
  <1>3. mount.bus = "usb" => s \in Slots /\ Device(s) \in {boot.disk, NoDisk}
    BY <1>1, <1>2 DEF SlotInv, BootInv
  <1>4. s \in Slots => s \in Slots' /\ Device(s)' \in {Device(s), NoDisk}
    BY DEF Steady
  <1>5. mount'.bus = "usb" => mount'.slot \in Slots' /\ Device(mount.slot)' \in {boot'.disk, NoDisk}
    BY <1>1, <1>2, <1>3, <1>4
  <1>6. mount'.bus = "ata" => boot'.disk = Master
    BY DEF BootInv
  <1>7. QED
    BY <1>5, <1>6 DEF MountInv

LEMMA InstDevice ==
    ASSUME Steady, inst.slot \in Slots, inst'.slot = inst.slot
    PROVE  inst'.slot \in Slots' /\ Device(inst.slot)' \in {Device(inst.slot), NoDisk}
  <1>1. PICK s : s = inst.slot
    OBVIOUS
  <1>2. Device(inst.slot) = Device(s) /\ Device(inst.slot)' = Device(s)'
    BY <1>1 DEF Device
  <1>3. s \in Slots' /\ Device(s)' \in {Device(s), NoDisk}
    BY <1>1 DEF Steady
  <1>4. QED
    BY <1>1, <1>2, <1>3

LEMMA BootableSame ==
    ASSUME NEW d, disk'[d] = disk[d], Bootable(d)
    PROVE  Bootable(d)'
  BY DEF Bootable, Blank

LEMMA SameGuidSame ==
    ASSUME NEW m, NEW g
    PROVE  SameGuid(m, g) <=> m \in Mbr /\ m.guid = g
  BY DEF SameGuid

\* A probe that shows the captured GUID is the boot disk's.
LEMMA ProbeFindsBootDisk ==
    ASSUME Usb, DiskType, ThreadType, UniqueGuids, SameGuid(disk[boot.disk].mbr, boot.guid),
           NEW m, ProbedNow(m), SameGuid(m.first, boot.guid)
    PROVE  Device(m.slot) = boot.disk
  <1> DEFINE d == Device(m.slot)
  <1>1. m.first \in Mbr /\ m.first.guid = boot.guid
    BY SameGuidSame
  <1>2. d # NoDisk /\ m.first = disk[d].mbr
    BY <1>1, NoMbr DEF ProbedNow
  <1>3. d \in DOMAIN disk
    BY <1>2, DeviceIsStick
  <1>4. boot.disk \in DOMAIN disk
    BY DEF ThreadType
  <1>5. disk[boot.disk].mbr.guid = boot.guid
    BY SameGuidSame
  <1>6. disk[d].mbr # Blank /\ disk[d].mbr.guid = disk[boot.disk].mbr.guid
    BY <1>1, <1>2, <1>5, NoMbr
  <1> HIDE DEF d
  <1>7. d = boot.disk
    BY <1>3, <1>4, <1>6 DEF UniqueGuids
  <1>8. QED
    BY <1>7 DEF d

\* The disks keep their MBRs, and the IDE disk all it holds.
SameDisks ==
    /\ DOMAIN disk' = DOMAIN disk
    /\ \A d \in DOMAIN disk : disk'[d].mbr = disk[d].mbr
    /\ Master \in DOMAIN disk => disk'[Master] = disk[Master]

\* The conjunct of BootInv about the disks, for any step that keeps their MBRs.
LEMMA BootKeeps ==
    ASSUME Usb, DiskType, ThreadType, UniqueGuids, BootInv, SlotInv, UsbStep, SameDisks, UNCHANGED boot,
           Early' => Early, Booting' => Booting, MountInv'
    PROVE  BootInv' /\ UniqueGuids'
  <1>0. boot.disk \in DOMAIN disk
    BY DEF ThreadType
  <1>1. UniqueGuids'
    BY DEF SameDisks, UniqueGuids, Blank
  <1>2. ASSUME Early' PROVE SameGuid(disk[boot.disk].mbr, boot.guid)'
    <2>1. SameGuid(disk[boot.disk].mbr, boot.guid)
      BY <1>2 DEF BootInv
    <2>2. disk'[boot'.disk].mbr = disk[boot.disk].mbr
      BY <1>0 DEF SameDisks
    <2>3. QED
      BY <2>1, <2>2 DEF SameGuid, Mbr
  <1>3. ASSUME boot'.disk = Master
        PROVE  /\ Bootable(Master)'
               /\ disk'[Master].mbr.guid = boot'.guid
               /\ boot'.base = Base[disk'[Master].mbr.img]
    <2>1. /\ Bootable(Master)
          /\ disk[Master].mbr.guid = boot.guid
          /\ boot.base = Base[disk[Master].mbr.img]
      BY <1>3 DEF BootInv
    <2>2. disk'[Master] = disk[Master]
      BY <1>0, <1>3 DEF SameDisks
    <2>3. QED
      BY <2>1, <2>2, BootableSame
  <1>4. ASSUME Booting', NEW m \in hc'.msc, SameGuid(m.first, boot.guid)
        PROVE  Device(m.slot)' \in {boot.disk, NoDisk}
    <2>1. m.slot \in Slots /\ Device(m.slot) \in {boot.disk, NoDisk}
      <3>1. CASE m \in hc.msc
        BY <1>4, <3>1 DEF BootInv, SlotInv
      <3>2. CASE ProbedNow(m)
        <4>1. SameGuid(disk[boot.disk].mbr, boot.guid)
          BY <1>4 DEF BootInv, Early
        <4>2. Device(m.slot) = boot.disk
          BY <1>4, <3>2, <4>1, ProbeFindsBootDisk
        <4>3. QED
          BY <3>2, <4>2 DEF ProbedNow
      <3>3. QED
        BY <3>1, <3>2 DEF UsbStep
    <2>2. PICK s : s = m.slot
      OBVIOUS
    <2>3. Device(s)' \in {Device(s), NoDisk}
      BY <2>1, <2>2 DEF UsbStep, Steady
    <2>4. QED
      BY <2>1, <2>2, <2>3
  <1>5. ASSUME Booting'
        PROVE  (\A m \in hc.msc : SameGuid(m.first, boot.guid) => Device(m.slot) \in {boot.disk, NoDisk})'
    <2>1. \A m \in hc'.msc : SameGuid(m.first, boot.guid) => Device(m.slot)' \in {boot.disk, NoDisk}
      BY <1>4, <1>5
    <2>2. QED
      BY <2>1 DEF SameGuid, Mbr
  <1>6. QED
    BY <1>1, <1>2, <1>3, <1>5 DEF BootInv, MountInv

\* Slots of probes stay addressed.
LEMMA ProbesKeep ==
    ASSUME UsbStep, SlotInv, NEW m \in hc'.msc
    PROVE  m.slot \in Slots'
  BY DEF UsbStep, SlotInv, ProbedNow, Steady

LEMMA QuietKeeps ==
    ASSUME Usb, Thread, Identity, UsbStep, Quiet, MountInv'
    PROVE  Identity'
  <1>1. SameDisks /\ UNCHANGED <<boot, inst>> /\ (Early' => Early) /\ (Booting' => Booting)
    BY DEF Quiet, SameDisks
  <1>2. BootInv' /\ UniqueGuids'
    BY <1>1, BootKeeps DEF Thread, Identity
  <1>3. CASE pc' \notin Install
    <2>1. SlotInv'
      BY <1>3, ProbesKeep DEF Identity, SlotInv, MountInv, Install
    <2>2. NewGuidInv' /\ CopyInv' /\ InstallInv'
      BY <1>3 DEF NewGuidInv, CopyInv, InstallInv, Install
    <2>3. QED
      BY <1>2, <2>1, <2>2 DEF Identity
  <1>4. CASE pc' \in Install
    <2>1. pc \in Install /\ UNCHANGED <<disk, pc, mount, inst, boot>> /\ late' \in {late, NoCommand}
      BY <1>4 DEF Quiet
    <2>2. inst'.slot \in Slots' /\ Device(inst.slot)' \in {Device(inst.slot), NoDisk}
      BY <2>1, InstDevice DEF Identity, SlotInv, UsbStep
    <2>3. SlotInv'
      BY <2>1, <2>2, ProbesKeep DEF Identity, SlotInv, MountInv
    <2>4. NewGuidInv'
      BY <2>1 DEF Identity, NewGuidInv, SameGuid, Mbr
    <2>5. CASE Device(inst.slot)' = NoDisk
      <3>1. CopyInv' /\ InstallInv'
        BY <2>1, <2>5 DEF Identity, CopyInv, InstallInv, NoCommand
      <3>2. QED
        BY <1>2, <2>3, <2>4, <3>1 DEF Identity
    <2>6. CASE Device(inst.slot)' = Device(inst.slot)
      <3>1. CopyInv'
        BY <2>1, <2>6 DEF Identity, CopyInv, NoCommand, CopiedTo, Blank, Lba
      <3>2. InstallInv'
        BY <2>1, <2>6 DEF Identity, InstallInv, CopiedTo, Lba
      <3>3. QED
        BY <1>2, <2>3, <2>4, <3>1, <3>2 DEF Identity
    <2>7. QED
      BY <2>2, <2>5, <2>6
  <1>5. QED
    BY <1>3, <1>4

-----------------------------------------------------------------------------
(* The steps outside the installer and the pipeline *)

IInv == Usb /\ Thread /\ Identity /\ PassInv

\* What a step must establish.
Keeps == UsbStep /\ Thread' /\ Identity' /\ PassInv'

LEMMA Lbas ==
    ASSUME NEW k \in Lba
    PROVE  /\ 0 \in Lba /\ k \in Nat
           /\ \A j \in Nat : j <= k => j \in Lba
  <1>1. PICK i \in Image : k \in 0..Base[i]
    BY DEF Lba
  <1>2. Base[i] \in Nat
    BY DisksAssumption
  <1>3. \A j \in Nat : j <= k => j \in 0..Base[i]
    BY <1>1, <1>2
  <1>4. \A j \in 0..Base[i] : j \in Lba
    BY DEF Lba
  <1>5. k \in Nat /\ 0 <= k
    BY <1>1, <1>2
  <1>6. QED
    BY <1>3, <1>4, <1>5

LEMMA Commands ==
    ASSUME ThreadType
    PROVE  Identify \in Command /\ NoCommand \in Command /\ \A k \in Lba : Read(k) \in Command
  <1>1. 0 \in Lba
    BY Lbas DEF ThreadType
  <1>2. QED
    BY <1>1 DEF Identify, NoCommand, Read, Command

\* The IDE drive's answers: data only of the command it was given, unless an
\* older one was late.
LEMMA AtaAnswer ==
    ASSUME ThreadType, NEW c \in Command, NEW r \in AtaAnswers(c)
    PROVE  /\ r.ok \in BOOLEAN /\ r.n \in {0, 1} /\ r.late \in Command
           /\ r.ok => Master \in DOMAIN disk /\ r.late = NoCommand /\ r.n = 0
           /\ r.ok /\ late = NoCommand => r.of = c
           /\ r.ok /\ late # NoCommand => r.of = late
           /\ late = NoCommand => r.late \in {NoCommand, c}
  <1>1. NoCommand \in Command /\ late \in Command
    BY Commands DEF ThreadType
  <1>2. CASE Master \notin DOMAIN disk
    <2>1. r = [ok |-> FALSE, of |-> c, late |-> NoCommand, n |-> 0]
      BY <1>2, Zenon DEF AtaAnswers
    <2>2. r.ok = FALSE /\ r.late = NoCommand /\ r.n = 0
      BY <2>1
    <2>3. QED
      BY <1>1, <2>2
  <1>3. CASE Master \in DOMAIN disk /\ late = NoCommand
    <2>1. \/ r = [ok |-> TRUE, of |-> c, late |-> NoCommand, n |-> 0]
          \/ r = [ok |-> FALSE, of |-> c, late |-> NoCommand, n |-> 1]
          \/ r = [ok |-> FALSE, of |-> c, late |-> c, n |-> 1]
      BY <1>3, Zenon DEF AtaAnswers
    <2>2. \/ r.ok = TRUE /\ r.of = c /\ r.late = NoCommand /\ r.n = 0
          \/ r.ok = FALSE /\ r.of = c /\ r.late \in {NoCommand, c} /\ r.n = 1
      BY <2>1
    <2>3. QED
      BY <1>1, <1>3, <2>2
  <1>4. CASE Master \in DOMAIN disk /\ late # NoCommand
    <2>1. \/ r = [ok |-> TRUE, of |-> late, late |-> NoCommand, n |-> 0]
          \/ r = [ok |-> FALSE, of |-> c, late |-> late, n |-> 0]
      BY <1>4, Zenon DEF AtaAnswers
    <2>2. \/ r.ok = TRUE /\ r.of = late /\ r.late = NoCommand /\ r.n = 0
          \/ r.ok = FALSE /\ r.late = late /\ r.n = 0
      BY <2>1
    <2>3. QED
      BY <1>1, <1>4, <2>2
  <1>5. QED
    BY <1>2, <1>3, <1>4

LEMMA FewFailing ==
    ASSUME Usb, NEW n \in {0, 1}, Failing(n)
    PROVE  faults' \in 0..MaxFaults /\ faults <= faults'
  <1>1. n \in Nat
    OBVIOUS
  <1>2. QED
    BY <1>1, FailingCount DEF Usb

LEMMA NoneFailing ==
    ASSUME Usb, UNCHANGED faults
    PROVE  faults' \in 0..MaxFaults /\ faults <= faults'
  BY DisksAssumption DEF Usb, UsbType

\* A step that only moves the main thread: what is left to show of it.
Moves ==
    /\ UNCHANGED <<disk, port, used, hc, boot, inst>>
    /\ faults' \in 0..MaxFaults /\ faults <= faults'
    /\ pc \notin Install /\ pc' \notin Install
    /\ Early' => Early
    /\ Booting' => Booting
    /\ UNCHANGED mount \/ MountInv'

LEMMA MovesKeep ==
    ASSUME IInv, Moves, ThreadType', FlowInv', PassInv'
    PROVE  Keeps
  <1>1. UNCHANGED <<disk, port, used, hc, boot, inst>>
    BY DEF Moves
  <1>2. UsbStep
    BY <1>1, CalmUsb DEF Moves, IInv
  <1>3. MountInv'
    BY <1>1, <1>2, MountStays DEF Moves, IInv, Identity, UsbStep
  <1>4. Quiet
    BY <1>1 DEF Moves, Quiet
  <1>5. Identity'
    BY <1>2, <1>3, <1>4, QuietKeeps DEF IInv
  <1>6. DiskType'
    BY <1>1 DEF IInv, Thread, DiskType, Content, Mbr, Chunk, Lba, Blank, Other
  <1>7. QED
    BY <1>2, <1>5, <1>6 DEF Keeps, Thread

\* With the same disks, boot and inst keep their types.
LEMMA ThreadTypeSame ==
    ASSUME ThreadType, DOMAIN disk' = DOMAIN disk, UNCHANGED <<boot, inst>>,
           pc' \in {"ata", "ata_mbr", "select", "gate", "open_store", "fatal", "idle", "offer"} \cup Install \cup StepName,
           after' \in {"select", "mouse", "offer", "drives", "key"},
           mount' \in [bus : {"none", "ata", "usb"}, slot : 0..MaxSlots],
           late' \in Command, clean' \in BOOLEAN
    PROVE  ThreadType'
  BY DEF ThreadType, Install, StepName, Lba, Command

LEMMA ProbeAtaKeeps ==
    ASSUME IInv, ProbeAta
    PROVE  Keeps
  <1>1. /\ pc = "ata" /\ UNCHANGED <<disk, port, used, hc, boot, inst>>
        /\ ThreadType /\ FlowInv
    BY DEF ProbeAta, IInv, Thread
  <1>2. PICK r \in AtaAnswers(Identify) :
          /\ Failing(r.n) /\ late' = r.late
          /\ IF ~r.ok THEN ToUsb ELSE pc' = "ata_mbr" /\ UNCHANGED <<after, mount, clean>>
    BY DEF ProbeAta
  <1>3. r.n \in {0, 1} /\ r.late \in Command
    BY <1>1, AtaAnswer, Commands
  <1>4. faults' \in 0..MaxFaults /\ faults <= faults'
    BY <1>2, <1>3, FewFailing DEF IInv
  <1>5. /\ pc' \in {"bring_up", "ata_mbr"} /\ after' = "select" /\ UNCHANGED mount
        /\ clean' \in BOOLEAN
    BY <1>1, <1>2 DEF ToUsb, FlowInv, ThreadType
  <1>6. Moves
    BY <1>1, <1>4, <1>5 DEF Moves, Install, Early, Booting, StepName
  <1>7. ThreadType'
    BY <1>1, <1>2, <1>3, <1>5, ThreadTypeSame DEF StepName, ThreadType
  <1>8. FlowInv'
    BY <1>1, <1>5 DEF FlowInv, Install, Booting, StepName, NoMount
  <1>9. PassInv'
    BY <1>5 DEF PassInv
  <1>10. QED
    BY <1>6, <1>7, <1>8, <1>9, MovesKeep

LEMMA ProbeAtaMbrKeeps ==
    ASSUME IInv, ProbeAtaMbr
    PROVE  Keeps
  <1>1. /\ pc = "ata_mbr" /\ UNCHANGED <<disk, port, used, hc, boot, inst>>
        /\ ThreadType /\ FlowInv /\ DiskType
    BY DEF ProbeAtaMbr, IInv, Thread
  <1>2. PICK r \in AtaAnswers(Read(0)) :
          /\ Failing(r.n) /\ late' = r.late
          /\ IF SameGuid(AtaMbr(r), boot.guid)
             THEN mount' = [bus |-> "ata", slot |-> 0] /\ pc' = "gate" /\ UNCHANGED <<after, clean>>
             ELSE ToUsb
    BY DEF ProbeAtaMbr
  <1>3. /\ r.n \in {0, 1} /\ r.late \in Command
        /\ r.ok => Master \in DOMAIN disk
    <2>1. Read(0) \in Command
      BY <1>1, Lbas, Commands DEF ThreadType
    <2>2. QED
      BY <1>1, <2>1, AtaAnswer
  <1>4. faults' \in 0..MaxFaults /\ faults <= faults'
    BY <1>2, <1>3, FewFailing DEF IInv
  <1>5. /\ pc' \in {"bring_up", "gate"} /\ after' = "select" /\ clean' \in BOOLEAN
        /\ pc' = "bring_up" => UNCHANGED mount
        /\ pc' = "gate" => mount' = [bus |-> "ata", slot |-> 0] /\ SameGuid(AtaMbr(r), boot.guid)
    BY <1>1, <1>2 DEF ToUsb, FlowInv, ThreadType
  <1>6. ASSUME pc' = "gate" PROVE boot.disk = Master
    <2>1. AtaMbr(r) \in Mbr /\ AtaMbr(r).guid = boot.guid
      BY <1>5, <1>6, SameGuidSame
    <2>2. r.ok /\ AtaMbr(r) = disk[Master].mbr
      BY <2>1, NoMbr DEF AtaMbr
    <2>3. disk[boot.disk].mbr.guid = boot.guid
      <3>1. SameGuid(disk[boot.disk].mbr, boot.guid)
        BY <1>1 DEF IInv, Identity, BootInv, Early, Booting
      <3>2. QED
        BY <3>1, SameGuidSame
    <2>4. disk[Master].mbr # Blank /\ disk[Master].mbr.guid = disk[boot.disk].mbr.guid
      BY <2>1, <2>2, <2>3, NoMbr
    <2>5. Master \in DOMAIN disk /\ boot.disk \in DOMAIN disk
      BY <1>1, <1>3, <2>2 DEF ThreadType
    <2>6. QED
      BY <2>4, <2>5 DEF IInv, Identity, UniqueGuids
  <1>7. UNCHANGED mount \/ MountInv'
    BY <1>1, <1>5, <1>6 DEF MountInv
  <1>8. Moves
    BY <1>1, <1>4, <1>5, <1>7 DEF Moves, Install, Early, Booting, StepName
  <1>9. mount' \in [bus : {"none", "ata", "usb"}, slot : 0..MaxSlots]
    BY <1>1, <1>5, DisksAssumption DEF ThreadType
  <1>10. ThreadType'
    BY <1>1, <1>2, <1>3, <1>5, <1>9, ThreadTypeSame DEF StepName
  <1>11. FlowInv'
    BY <1>1, <1>5 DEF FlowInv, Install, Booting, StepName, NoMount
  <1>12. PassInv'
    BY <1>5 DEF PassInv
  <1>13. QED
    BY <1>8, <1>10, <1>11, <1>12, MovesKeep

LEMMA MinIn ==
    ASSUME NEW S \in SUBSET Nat, S # {}
    PROVE  Min(S) \in S
  <1>1. \E x \in S : \A y \in S : x <= y
    BY LeastNumber
  <1>2. QED
    BY <1>1, Zenon DEF Min

LEMMA SelectUsbKeeps ==
    ASSUME IInv, SelectUsb
    PROVE  Keeps
  <1>1. /\ pc = "select" /\ UNCHANGED <<usbVars, after, boot, late, inst, clean>>
        /\ ThreadType /\ FlowInv
    BY DEF SelectUsb, IInv, Thread
  <1>2. UNCHANGED <<disk, port, used, hc, faults>>
    BY <1>1 DEF usbVars
  <1> DEFINE own == {m \in Drives : SameGuid(m.first, boot.guid) /\ m.size > boot.base}
  <1>3. IF own = {} THEN pc' = "fatal" /\ UNCHANGED mount
        ELSE mount' = [bus |-> "usb", slot |-> Min({m.slot : m \in own})] /\ pc' = "gate"
    BY DEF SelectUsb
  <1>4. \A m \in own : m \in hc.msc /\ m.slot \in Slot /\ m.slot \in Slots /\ Device(m.slot) \in {boot.disk, NoDisk}
    BY <1>1 DEF Drives, IInv, Usb, UsbType, Probed, Identity, SlotInv, BootInv, Booting
  <1> HIDE DEF own
  <1>5. /\ pc' \in {"fatal", "gate"} /\ after' = "select"
        /\ mount' \in [bus : {"none", "ata", "usb"}, slot : 0..MaxSlots]
        /\ UNCHANGED mount \/ MountInv'
    <2>1. CASE own = {}
      BY <1>1, <1>3, <2>1 DEF FlowInv, ThreadType
    <2>2. CASE own # {}
      <3>1. {m.slot : m \in own} \in SUBSET Nat /\ {m.slot : m \in own} # {}
        BY <1>4, <2>2, DisksAssumption DEF Slot
      <3>2. Min({m.slot : m \in own}) \in {m.slot : m \in own}
        BY <3>1, MinIn
      <3>3. PICK m \in own : m.slot = Min({n.slot : n \in own})
        BY <3>2
      <3>4. PICK s : s = m.slot
        OBVIOUS
      <3>5. mount' = [bus |-> "usb", slot |-> s] /\ pc' = "gate"
        BY <1>3, <2>2, <3>3, <3>4
      <3>6. s \in Slot /\ s \in Slots /\ Device(s) \in {boot.disk, NoDisk}
        BY <1>4, <3>4
      <3>7. s \in 0..MaxSlots
        BY <3>6, DisksAssumption DEF Slot
      <3>8. Slots' = Slots /\ Device(s)' = Device(s)
        BY <1>2, SameDevices DEF Slots
      <3>9. mount'.slot = s /\ mount'.bus = "usb"
        BY <3>5
      <3>10. Device(mount.slot)' = Device(s)'
        BY <3>9 DEF Device
      <3>11. MountInv'
        BY <1>1, <3>6, <3>8, <3>9, <3>10 DEF MountInv
      <3>12. QED
        BY <1>1, <3>5, <3>7, <3>11 DEF FlowInv
    <2>3. QED
      BY <2>1, <2>2
  <1>6. faults' \in 0..MaxFaults /\ faults <= faults'
    BY <1>2, NoneFailing DEF IInv
  <1>7. Moves
    BY <1>1, <1>2, <1>5, <1>6 DEF Moves, Install, Early, Booting, StepName
  <1>8. ThreadType'
    BY <1>1, <1>2, <1>5, ThreadTypeSame DEF ThreadType
  <1>9. FlowInv'
    BY <1>1, <1>5 DEF FlowInv, Install, Booting, StepName
  <1>10. PassInv'
    BY <1>5 DEF PassInv
  <1>11. QED
    BY <1>7, <1>8, <1>9, <1>10, MovesKeep

\* A sector 0 that is read through a slot.
LEMMA UsbAnswer ==
    ASSUME NEW slot, NEW r \in UsbAnswers(slot)
    PROVE  /\ r.n \in {0, 1}
           /\ \/ Device(slot) = NoDisk /\ r.data = Unreadable /\ r.n = 0
              \/ Device(slot) # NoDisk /\ r.data = disk[Device(slot)].mbr /\ r.n = 0
              \/ Device(slot) # NoDisk /\ r.data \in {Blank, Unreadable} /\ r.n = 1
  <1>1. CASE Device(slot) = NoDisk
    <2>1. r = [data |-> Unreadable, n |-> 0]
      BY <1>1, Zenon DEF UsbAnswers
    <2>2. QED
      BY <1>1, <2>1
  <1>2. CASE Device(slot) # NoDisk
    <2>1. \/ r = [data |-> disk[Device(slot)].mbr, n |-> 0]
          \/ r = [data |-> Unreadable, n |-> 1]
          \/ r = [data |-> Blank, n |-> 1]
      BY <1>2, Zenon DEF UsbAnswers
    <2>2. QED
      BY <1>2, <2>1
  <1>3. QED
    BY <1>1, <1>2

LEMMA GateKeeps ==
    ASSUME IInv, Gate
    PROVE  Keeps
  <1>1. /\ pc = "gate" /\ UNCHANGED <<disk, port, used, hc, after, boot, mount, inst, clean>>
        /\ ThreadType /\ FlowInv
    BY DEF Gate, IInv, Thread
  <1>2. PICK r \in GateAnswers :
          /\ Failing(r.n) /\ late' = r.late
          /\ pc' = IF SameGuid(r.data, boot.guid) THEN "open_store" ELSE "fatal"
    BY DEF Gate
  <1>3. r.n \in {0, 1} /\ r.late \in Command
    <2>1. CASE mount.bus = "usb"
      <3>1. PICK q \in UsbAnswers(mount.slot) : r = [data |-> q.data, late |-> late, n |-> q.n]
        BY <2>1, Zenon DEF GateAnswers
      <3>2. q.n \in {0, 1}
        BY UsbAnswer
      <3>3. r.n = q.n /\ r.late = late
        BY <3>1
      <3>4. QED
        BY <1>1, <3>2, <3>3 DEF ThreadType
    <2>2. CASE mount.bus # "usb"
      <3>1. PICK q \in AtaAnswers(Read(0)) : r = [data |-> AtaMbr(q), late |-> q.late, n |-> q.n]
        BY <2>2, Zenon DEF GateAnswers
      <3>2. Read(0) \in Command
        BY <1>1, Lbas, Commands DEF ThreadType
      <3>3. q.n \in {0, 1} /\ q.late \in Command
        BY <1>1, <3>2, AtaAnswer
      <3>4. r.n = q.n /\ r.late = q.late
        BY <3>1
      <3>5. QED
        BY <3>3, <3>4
    <2>3. QED
      BY <2>1, <2>2
  <1>4. faults' \in 0..MaxFaults /\ faults <= faults'
    BY <1>2, <1>3, FewFailing DEF IInv
  <1>5. pc' \in {"open_store", "fatal"} /\ after' = "select"
    BY <1>1, <1>2 DEF FlowInv
  <1>6. Moves
    BY <1>1, <1>4, <1>5 DEF Moves, Install, Early, Booting, StepName
  <1>7. ThreadType'
    BY <1>1, <1>2, <1>3, <1>5, ThreadTypeSame DEF ThreadType
  <1>8. FlowInv'
    BY <1>1, <1>5 DEF FlowInv, Install, Booting, StepName
  <1>9. PassInv'
    BY <1>5 DEF PassInv
  <1>10. QED
    BY <1>6, <1>7, <1>8, <1>9, MovesKeep

LEMMA OpenStoreKeeps ==
    ASSUME IInv, OpenStore
    PROVE  Keeps
  <1>1. /\ pc = "open_store" /\ UNCHANGED <<disk, port, used, hc, boot, mount, late, inst>>
        /\ ThreadType /\ FlowInv
    BY DEF OpenStore, IInv, Thread
  <1>2. PICK n \in {0, 1} :
          /\ Failing(n)
          /\ \/ pc' = "fatal" /\ UNCHANGED <<after, clean>>
             \/ pc' = "bring_up" /\ after' = "mouse" /\ clean' = TRUE
             \/ pc' = "idle" /\ after' = "key" /\ clean' = FALSE
    BY DEF OpenStore
  <1>3. faults' \in 0..MaxFaults /\ faults <= faults'
    BY <1>2, FewFailing DEF IInv
  <1>4. /\ pc' \in {"fatal", "bring_up", "idle"}
        /\ pc' = "bring_up" => after' = "mouse"
        /\ pc' = "idle" => after' = "key"
        /\ after' \in {"select", "mouse", "offer", "drives", "key"} /\ clean' \in BOOLEAN
    BY <1>1, <1>2 DEF ThreadType
  <1>5. Moves
    BY <1>1, <1>3, <1>4 DEF Moves, Install, Early, Booting, StepName
  <1>6. ThreadType'
    BY <1>1, <1>4, ThreadTypeSame DEF ThreadType, StepName
  <1>7. FlowInv'
    BY <1>1, <1>4 DEF FlowInv, Install, Booting, StepName
  <1>8. PassInv'
    BY <1>4 DEF PassInv
  <1>9. QED
    BY <1>5, <1>6, <1>7, <1>8, MovesKeep

LEMMA StepsAre ==
    /\ DOMAIN Steps = 1..6
    /\ \A i \in DOMAIN Steps : Steps[i] \in StepName
    /\ \A n \in StepName : \E i \in DOMAIN Steps : Steps[i] = n
  BY DEF Steps, StepName

\* The keys that start a step or a pass.
LEMMA BeginKeeps ==
    ASSUME IInv, NEW step \in StepName, NEW why \in {"offer", "drives", "key"},
           why # "key" => step = "bring_up",
           Begin(step, why), UNCHANGED <<disk, port, used, hc>>,
           faults' \in 0..MaxFaults, faults <= faults', late' \in Command
    PROVE  Keeps
  <1>1. /\ pc = "idle" /\ pc' = step /\ after' = why /\ clean' = TRUE /\ UNCHANGED <<boot, mount, inst>>
        /\ ThreadType /\ FlowInv
    BY DEF Begin, IInv, Thread
  <1>2. Moves
    BY <1>1 DEF Moves, Install, Early, Booting, StepName
  <1>3. ThreadType'
    BY <1>1, ThreadTypeSame DEF ThreadType
  <1>4. FlowInv'
    BY <1>1 DEF FlowInv, Install, Booting, StepName
  <1>5. PassInv'
    BY <1>1 DEF PassInv
  <1>6. QED
    BY <1>2, <1>3, <1>4, <1>5, MovesKeep

LEMMA KeysKeep ==
    ASSUME IInv, XhciKey \/ CreateOsKey \/ DrivesKey
    PROVE  Keeps
  <1>0. late \in Command /\ ThreadType
    BY DEF IInv, Thread, ThreadType
  <1>1. CASE XhciKey
    <2>1. PICK i \in DOMAIN Steps : Begin(Steps[i], "key")
      BY <1>1 DEF XhciKey
    <2>2. UNCHANGED <<disk, port, used, hc, faults, late>>
      BY <1>1 DEF XhciKey, usbVars
    <2>3. QED
      BY <1>0, <2>1, <2>2, StepsAre, NoneFailing, BeginKeeps DEF IInv
  <1>2. CASE CreateOsKey
    <2>1. Begin("bring_up", "offer") /\ UNCHANGED <<disk, port, used, hc, faults, late>>
      BY <1>2 DEF CreateOsKey, usbVars
    <2>2. "bring_up" \in StepName
      BY DEF StepName
    <2>3. QED
      BY <1>0, <2>1, <2>2, NoneFailing, BeginKeeps DEF IInv
  <1>3. CASE DrivesKey
    <2>1. Begin("bring_up", "drives") /\ UNCHANGED <<disk, port, used, hc>>
      BY <1>3 DEF DrivesKey
    <2>2. PICK r \in AtaAnswers(Identify) \cup AtaAnswers(Read(0)) : Failing(r.n) /\ late' = r.late
      BY <1>3 DEF DrivesKey
    <2>3. Read(0) \in Command /\ Identify \in Command
      BY <1>0, Lbas, Commands DEF ThreadType
    <2>4. r.n \in {0, 1} /\ r.late \in Command
      BY <1>0, <2>3, AtaAnswer
    <2>5. faults' \in 0..MaxFaults /\ faults <= faults'
      BY <2>2, <2>4, FewFailing DEF IInv
    <2>6. "bring_up" \in StepName
      BY DEF StepName
    <2>7. QED
      BY <2>1, <2>2, <2>4, <2>5, <2>6, BeginKeeps
  <1>4. QED
    BY <1>1, <1>2, <1>3

-----------------------------------------------------------------------------
(* The pipeline *)

\* Where the main thread goes after each step.
LEMMA FollowIs ==
    /\ Follow("bring_up") = IF after = "key" THEN "idle" ELSE "ports"
    /\ Follow("ports") = IF after = "key" THEN "idle" ELSE "address"
    /\ Follow("address") = IF after = "key" THEN "idle" ELSE "fetch"
    /\ Follow("fetch") = IF after = "key" THEN "idle" ELSE "configure"
    /\ Follow("configure") = IF after \in {"key", "mouse"} THEN "idle" ELSE "probe"
    /\ Follow("probe") = IF after \in {"key", "drives"} THEN "idle" ELSE after
  <1>1. /\ Steps[1] = "bring_up" /\ Steps[2] = "ports" /\ Steps[3] = "address"
        /\ Steps[4] = "fetch" /\ Steps[5] = "configure" /\ Steps[6] = "probe"
    BY DEF Steps
  <1>2. \A i \in 1..5 : i = 1 \/ i = 2 \/ i = 3 \/ i = 4 \/ i = 5
    OBVIOUS
  <1>3. (CHOOSE i \in 1..5 : Steps[i] = "bring_up") = 1
    BY <1>1, <1>2
  <1>4. (CHOOSE i \in 1..5 : Steps[i] = "ports") = 2
    BY <1>1, <1>2
  <1>5. (CHOOSE i \in 1..5 : Steps[i] = "address") = 3
    BY <1>1, <1>2
  <1>6. (CHOOSE i \in 1..5 : Steps[i] = "fetch") = 4
    BY <1>1, <1>2
  <1>7. (CHOOSE i \in 1..5 : Steps[i] = "configure") = 5
    BY <1>1, <1>2
  <1>8. QED
    BY <1>1, <1>3, <1>4, <1>5, <1>6, <1>7 DEF Follow

\* A step of the pipeline, given what it does to the controller.
LEMMA StepKeeps ==
    ASSUME IInv, NEW step \in StepName, Step(step), UsbStep, UNCHANGED disk, PassInv'
    PROVE  Keeps
  <1>1. /\ pc = step /\ pc' = Follow(step) /\ UNCHANGED <<boot, mount, late, inst>>
        /\ after' = IF pc' = "idle" THEN "key" ELSE after
        /\ ThreadType /\ FlowInv
    BY DEF Step, IInv, Thread
  <1>2. clean' \in BOOLEAN
    BY DEF Step
  <1>3. /\ pc' \in {"idle", "ports", "address", "fetch", "configure", "probe", "select", "offer"}
        /\ pc' = "probe" => after # "mouse"
        /\ pc' \in {"select", "offer"} => after = pc'
        /\ after \in {"select", "mouse", "offer", "drives", "key"}
    BY <1>1, FollowIs DEF StepName, FlowInv, ThreadType
  <1>4. ThreadType'
    <2>1. pc' \in {"ata", "ata_mbr", "select", "gate", "open_store", "fatal", "idle", "offer"} \cup Install \cup StepName
      BY <1>3 DEF StepName
    <2>2. after' \in {"select", "mouse", "offer", "drives", "key"}
      BY <1>1, <1>3
    <2>3. QED
      BY <1>1, <1>2, <2>1, <2>2, ThreadTypeSame DEF ThreadType
  <1>5. FlowInv'
    BY <1>1, <1>3 DEF FlowInv, Install, Booting, StepName
  <1>6. Quiet
    BY <1>1, <1>3 DEF Quiet, Install, Early, Booting, StepName
  <1>7. MountInv'
    BY <1>1, MountStays DEF IInv, Identity, UsbStep
  <1>8. Identity'
    BY <1>6, <1>7, QuietKeeps DEF IInv
  <1>9. DiskType'
    BY DEF IInv, Thread, DiskType, Content, Mbr, Chunk, Lba, Blank, Other
  <1>10. QED
    BY <1>4, <1>5, <1>8, <1>9 DEF Keeps, Thread

\* A clean pass goes on from one step to the next.
LEMMA CleanPass ==
    ASSUME NEW step, Step(step), clean', after' # "key"
    PROVE  clean /\ after # "key" /\ faults' = faults /\ pc = step /\ pc' = Follow(step) /\ after' = after
  BY DEF Step

LEMMA PipelineKeeps ==
    ASSUME IInv, Pipeline
    PROVE  Keeps
  <1> USE DEF StepName
  <1>0. Usb /\ DiskType /\ ThreadType
    BY DEF IInv, Thread
  <1>1. CASE BringUp /\ Step("bring_up")
    <2>1. Enumerates /\ (faults' = faults => hc'.up)
      BY <1>0, <1>1, BringUpStep
    <2>2. UNCHANGED disk
      BY <1>1 DEF BringUp, Skip, bring_up
    <2>3. PassInv'
      <3> SUFFICES ASSUME clean', after' # "key" PROVE PassInv'
        BY DEF PassInv
      <3>1. pc' = "ports" /\ faults' = faults
        BY <1>1, CleanPass, FollowIs
      <3>2. QED
        BY <2>1, <3>1 DEF PassInv
    <2>4. QED
      BY <1>1, <2>1, <2>2, <2>3, EnumeratesUsb, StepKeeps
  <1>2. CASE ScanPorts /\ Step("ports")
    <2>1. /\ Enumerates
          /\ hc'.up = hc.up
          /\ faults' = faults /\ hc.up => \A p \in Plugged : Waiting(p)'
      BY <1>0, <1>2, ScanStep
    <2>2. UNCHANGED disk
      BY <1>2 DEF ScanPorts, Skip, reset_and_enable_slots
    <2>3. PassInv'
      <3> SUFFICES ASSUME clean', after' # "key" PROVE PassInv'
        BY DEF PassInv
      <3>1. pc' = "address" /\ faults' = faults /\ clean /\ after # "key" /\ pc = "ports"
        BY <1>2, CleanPass, FollowIs
      <3>2. hc.up
        BY <3>1 DEF IInv, PassInv
      <3>3. (\A p \in Plugged : Waiting(p))'
        BY <2>1, <3>1, <3>2 DEF Enumerates
      <3>4. QED
        BY <2>1, <3>1, <3>2, <3>3 DEF PassInv
    <2>4. QED
      BY <1>2, <2>1, <2>2, <2>3, EnumeratesUsb, StepKeeps
  <1>3. CASE Address /\ Step("address")
    <2>1. /\ Enumerates
          /\ hc.up /\ faults' = faults => \A p \in Plugged : Waiting(p) => Owned(p)'
      BY <1>0, <1>3, AddressStep
    <2>2. UNCHANGED disk
      BY <1>3 DEF Address, Skip, address_enabled_slots
    <2>3. PassInv'
      <3> SUFFICES ASSUME clean', after' # "key" PROVE PassInv'
        BY DEF PassInv
      <3>1. pc' = "fetch" /\ faults' = faults /\ clean /\ after # "key" /\ pc = "address"
        BY <1>3, CleanPass, FollowIs
      <3>2. hc.up /\ \A p \in Plugged : Waiting(p)
        BY <3>1 DEF IInv, PassInv
      <3>3. (\A p \in Plugged : Owned(p))'
        BY <2>1, <3>1, <3>2 DEF Enumerates
      <3>4. QED
        BY <3>1, <3>3 DEF PassInv
    <2>4. QED
      BY <1>3, <2>1, <2>2, <2>3, EnumeratesUsb, StepKeeps
  <1>4. CASE Fetch /\ Step("fetch")
    <2>1. /\ Enumerates
          /\ \A p \in Plugged : Owned(p) => Owned(p)'
          /\ faults' = faults => \A p \in Plugged : StageIn(p, {"addressed", "hollow", "parsed", "set"})'
      BY <1>0, <1>4, FetchStep
    <2>2. UNCHANGED disk
      BY <1>4 DEF Fetch, Skip, fetch_configurations, Advance
    <2>3. PassInv'
      <3> SUFFICES ASSUME clean', after' # "key" PROVE PassInv'
        BY DEF PassInv
      <3>1. pc' = "configure" /\ faults' = faults /\ clean /\ after # "key" /\ pc = "fetch"
        BY <1>4, CleanPass, FollowIs
      <3>2. \A p \in Plugged : Owned(p)
        BY <3>1 DEF IInv, PassInv
      <3>3. (\A p \in Plugged : Owned(p) /\ StageIn(p, {"addressed", "hollow", "parsed", "set"}))'
        BY <2>1, <3>1, <3>2 DEF Enumerates
      <3>4. QED
        BY <3>1, <3>3 DEF PassInv
    <2>4. QED
      BY <1>4, <2>1, <2>2, <2>3, EnumeratesUsb, StepKeeps
  <1>5. CASE Configure /\ Step("configure")
    <2>1. /\ Enumerates
          /\ \A p \in Plugged : Owned(p) => Owned(p)'
          /\ faults' = faults =>
               \A p \in Plugged : StageIn(p, {"addressed", "hollow", "parsed", "set"}) => StageIn(p, {"addressed", "hollow", "set"})'
      BY <1>0, <1>5, ConfigureStep
    <2>2. UNCHANGED disk
      BY <1>5 DEF Configure, Skip, configure_endpoints, Advance
    <2>3. PassInv'
      <3> SUFFICES ASSUME clean', after' # "key" PROVE PassInv'
        BY DEF PassInv
      <3>1. /\ pc' \in {"idle", "probe"} /\ faults' = faults /\ clean /\ after # "key" /\ pc = "configure"
        BY <1>5, CleanPass, FollowIs
      <3>2. \A p \in Plugged : Owned(p) /\ StageIn(p, {"addressed", "hollow", "parsed", "set"})
        BY <3>1 DEF IInv, PassInv
      <3>3. (\A p \in Plugged : Owned(p) /\ StageIn(p, {"addressed", "hollow", "set"}))'
        BY <2>1, <3>1, <3>2 DEF Enumerates
      <3>4. QED
        BY <3>1, <3>3 DEF PassInv
    <2>4. QED
      BY <1>5, <2>1, <2>2, <2>3, EnumeratesUsb, StepKeeps
  <1>6. CASE ProbeDrives /\ Step("probe")
    <2>1. /\ Usb' /\ Steady /\ Plugged' = Plugged
          /\ UNCHANGED <<disk, port, used>>
          /\ faults' \in Nat /\ faults <= faults'
          /\ \A m \in hc'.msc : m \in hc.msc \/ ProbedNow(m)
          /\ faults' = faults /\ (\A p \in Plugged : Owned(p) /\ StageIn(p, {"addressed", "hollow", "set"}))
               => \A p \in Plugged : Found(p)'
      BY <1>0, <1>6, ProbeStep
    <2>2. UsbStep
      BY <2>1 DEF UsbStep
    <2>3. PassInv'
      <3> SUFFICES ASSUME clean', after' # "key" PROVE PassInv'
        BY DEF PassInv
      <3>1. faults' = faults /\ clean /\ after # "key" /\ pc = "probe" /\ pc' = Follow("probe")
        BY <1>6, CleanPass
      <3>2. pc' \in {"idle", "select", "offer"}
        BY <1>0, <3>1, FollowIs DEF ThreadType, IInv, Thread, FlowInv
      <3>3. \A p \in Plugged : Owned(p) /\ StageIn(p, {"addressed", "hollow", "set"})
        BY <3>1 DEF IInv, PassInv
      <3>4. (\A p \in Plugged : Found(p))'
        BY <2>1, <3>1, <3>3
      <3>5. QED
        BY <3>2, <3>4 DEF PassInv
    <2>4. QED
      BY <1>6, <2>1, <2>2, <2>3, StepKeeps
  <1>7. QED
    BY <1>1, <1>2, <1>3, <1>4, <1>5, <1>6 DEF Pipeline

-----------------------------------------------------------------------------
(* The write test, the drive, the user's hands, power *)

LEMMA DiskWrite ==
    ASSUME DiskType, NEW d \in DOMAIN disk, NEW c \in Content, disk' = [disk EXCEPT ![d] = c]
    PROVE  /\ DiskType' /\ DOMAIN disk' = DOMAIN disk
           /\ disk'[d] = c
           /\ \A e \in DOMAIN disk : e # d => disk'[e] = disk[e]
  <1>1. /\ DOMAIN disk' = DOMAIN disk
        /\ disk'[d] = c
        /\ \A e \in DOMAIN disk : e # d => disk'[e] = disk[e]
    OBVIOUS
  <1>2. \A e \in DOMAIN disk' : disk'[e] \in Content
    BY <1>1 DEF DiskType
  <1>3. Content' = Content
    BY DEF Content, Mbr, Chunk, Lba, Blank, Other
  <1>4. QED
    BY <1>1, <1>2, <1>3 DEF DiskType

LEMMA DiskTypeSame ==
    ASSUME DiskType, UNCHANGED disk
    PROVE  DiskType'
  BY DEF DiskType, Content, Mbr, Chunk, Lba, Blank, Other

\* A chunk of a prefix is overwritten.
LEMMA PrefixWrite ==
    ASSUME NEW c \in Content, NEW k \in Lba, NEW v \in Chunk
    PROVE  /\ [c EXCEPT !.pre[k] = v] \in Content
           /\ [c EXCEPT !.pre[k] = v].mbr = c.mbr
           /\ [c EXCEPT !.pre[k] = v].vol = c.vol
           /\ [c EXCEPT !.pre[k] = v].pre[k] = v
           /\ \A j \in Lba : j # k => [c EXCEPT !.pre[k] = v].pre[j] = c.pre[j]
  <1> DEFINE f == [c.pre EXCEPT ![k] = v]
             e == [c EXCEPT !.pre = f]
  <1>1. f \in [Lba -> Chunk] /\ f[k] = v /\ \A j \in Lba : j # k => f[j] = c.pre[j]
    BY DEF Content
  <1>2. [c EXCEPT !.pre[k] = v] = e
    OBVIOUS
  <1> HIDE DEF f
  <1>3. e \in Content /\ e.mbr = c.mbr /\ e.vol = c.vol /\ e.pre = f
    BY <1>1 DEF Content
  <1> HIDE DEF e
  <1>4. QED
    BY <1>1, <1>2, <1>3

LEMMA WriteTestKeeps ==
    ASSUME IInv, WriteTestKey
    PROVE  Keeps /\ SameDisks
  <1>1. /\ pc = "idle" /\ UNCHANGED <<port, used, hc, pc, after, boot, mount, late, inst, clean>>
        /\ Usb /\ ThreadType /\ FlowInv /\ DiskType /\ after = "key"
    BY DEF WriteTestKey, IInv, Thread, FlowInv
  <1>2. PICK m \in hc.msc :
          \/ Failing(0) /\ UNCHANGED disk
          \/ Failing(1) /\ UNCHANGED disk
          \/ /\ Device(m.slot) # NoDisk
             /\ Failing(1)
             /\ disk' = [disk EXCEPT ![Device(m.slot)].pre[0] = Other]
    BY DEF WriteTestKey
  <1>3. faults' \in 0..MaxFaults /\ faults <= faults'
    BY <1>1, <1>2, FewFailing
  <1>4. SameDisks /\ DiskType'
    <2>1. CASE UNCHANGED disk
      BY <1>1, <2>1, DiskTypeSame DEF SameDisks
    <2>2. CASE Device(m.slot) # NoDisk /\ disk' = [disk EXCEPT ![Device(m.slot)].pre[0] = Other]
      <3> DEFINE d == Device(m.slot)
                 c == [disk[d] EXCEPT !.pre[0] = Other]
      <3>1. d \in DOMAIN disk /\ d # Master
        BY <1>1, <2>2, DeviceIsStick
      <3>2. 0 \in Lba /\ Other \in Chunk /\ disk[d] \in Content
        BY <1>1, <3>1, Lbas DEF ThreadType, Chunk, DiskType
      <3>3. c \in Content /\ c.mbr = disk[d].mbr
        BY <3>2, PrefixWrite
      <3>4. disk' = [disk EXCEPT ![d] = c]
        BY <2>2
      <3> HIDE DEF d, c
      <3>5. /\ DiskType' /\ DOMAIN disk' = DOMAIN disk
            /\ disk'[d] = c
            /\ \A e \in DOMAIN disk : e # d => disk'[e] = disk[e]
        BY <1>1, <3>1, <3>3, <3>4, DiskWrite
      <3>6. QED
        BY <3>1, <3>3, <3>5 DEF SameDisks
    <2>3. QED
      BY <1>2, <2>1, <2>2
  <1>5. UsbStep
    BY <1>1, <1>3, <1>4, CalmUsb DEF SameDisks
  <1>6. MountInv'
    BY <1>1, <1>5, MountStays DEF IInv, Identity, UsbStep
  <1>7. Quiet
    BY <1>1, <1>4 DEF Quiet, SameDisks, Install, Early, Booting, StepName
  <1>8. Identity'
    BY <1>5, <1>6, <1>7, QuietKeeps DEF IInv
  <1>9. ThreadType'
    BY <1>1, <1>4, ThreadTypeSame DEF SameDisks, ThreadType
  <1>10. FlowInv'
    BY <1>1 DEF FlowInv, Booting
  <1>11. PassInv'
    BY <1>1 DEF PassInv
  <1>12. QED
    BY <1>4, <1>5, <1>8, <1>9, <1>10, <1>11 DEF Keeps, Thread

\* A step that leaves the main thread where it is.
LEMMA StandingKeeps ==
    ASSUME IInv, UsbStep, UNCHANGED <<disk, pc, after, boot, mount, inst>>, late' \in {late, NoCommand},
           clean' \in BOOLEAN, PassInv'
    PROVE  Keeps
  <1>1. ThreadType /\ FlowInv /\ DiskType
    BY DEF IInv, Thread
  <1>2. MountInv'
    BY MountStays DEF IInv, Identity, UsbStep
  <1>3. Quiet
    BY DEF Quiet, Early, Booting
  <1>4. Identity'
    BY <1>2, <1>3, QuietKeeps DEF IInv
  <1>5. late' \in Command
    BY <1>1, Commands DEF ThreadType
  <1>6. ThreadType'
    BY <1>1, <1>5, ThreadTypeSame DEF ThreadType
  <1>7. FlowInv'
    BY <1>1 DEF FlowInv, Booting, NoMount
  <1>8. DiskType'
    BY <1>1, DiskTypeSame
  <1>9. QED
    BY <1>4, <1>6, <1>7, <1>8 DEF Keeps, Thread

LEMMA DriveReadyKeeps ==
    ASSUME IInv, DriveReady \/ UNCHANGED vars
    PROVE  Keeps
  <1>1. /\ UNCHANGED <<disk, port, used, hc, faults, pc, after, boot, mount, inst, clean>>
        /\ late' \in {late, NoCommand}
    BY DEF DriveReady, usbVars, vars
  <1>2. UsbStep /\ Plugged' = Plugged
    BY <1>1, CalmUsb, NoneFailing DEF IInv
  <1>3. Unaddressed' = Unaddressed /\ Drives' = Drives
    BY <1>1 DEF Unaddressed, Drives
  <1>4. PassInv'
    BY <1>1, <1>2, <1>3 DEF IInv, PassInv, Waiting, Owned, StageIn, Found
  <1>5. QED
    BY <1>1, <1>2, <1>4, StandingKeeps DEF IInv, Thread, ThreadType

LEMMA HandsKeeps ==
    ASSUME IInv, Hands
    PROVE  Keeps
  <1>1. UNCHANGED <<disk, pc, after, boot, mount, inst, late>> /\ clean' = FALSE
    BY DEF Hands
  <1>2. PassInv'
    BY <1>1 DEF PassInv
  <1>3. QED
    BY <1>1, <1>2, HandsUsb, StandingKeeps DEF IInv

\* The machine has just been switched on.
PoweredOn ==
    /\ Usb /\ DiskType /\ UniqueGuids /\ hc.msc = {}
    /\ \E d \in DOMAIN disk :
         /\ Bootable(d)
         /\ boot = [disk |-> d, guid |-> disk[d].mbr.guid, base |-> Base[disk[d].mbr.img]]
    /\ pc = "ata" /\ after = "select" /\ clean = FALSE
    /\ mount = NoMount /\ late = NoCommand /\ inst = NoInstall

LEMMA PowerOnState == PoweredOn => IInv
  <1> SUFFICES ASSUME PoweredOn PROVE IInv
    OBVIOUS
  <1>1. PICK d \in DOMAIN disk :
          /\ Bootable(d)
          /\ boot = [disk |-> d, guid |-> disk[d].mbr.guid, base |-> Base[disk[d].mbr.img]]
    BY DEF PoweredOn
  <1>2. disk[d].mbr \in Mbr
    BY <1>1 DEF PoweredOn, DiskType, Content, Bootable
  <1>3. /\ disk[d].mbr.guid \in Guid /\ disk[d].mbr.img \in Image
    BY <1>2 DEF Mbr
  <1>4. boot.disk = d /\ boot.guid = disk[d].mbr.guid /\ boot.base = Base[disk[d].mbr.img]
    BY <1>1
  <1>5. boot.base \in Lba /\ 0 \in Lba /\ boot.base \in Nat
    <2>1. PICK i \in Image : boot.base = Base[i]
      BY <1>3, <1>4
    <2>2. Base[i] \in 0..Base[i]
      BY DisksAssumption
    <2>3. boot.base \in Lba
      BY <2>1, <2>2 DEF Lba
    <2>4. QED
      BY <2>3, Lbas
  <1>6. /\ pc = "ata" /\ after = "select" /\ clean = FALSE
        /\ mount = NoMount /\ late = NoCommand /\ inst = NoInstall
        /\ hc.msc = {} /\ Usb /\ DiskType /\ UniqueGuids
    BY DEF PoweredOn
  <1>7. NoInstall \in [slot : 0..MaxSlots, lba : Lba, guid : Guid, ok : BOOLEAN] /\ NoInstall.lba = 0 /\ NoInstall.ok = FALSE
    <2>1. (CHOOSE g \in Guid : TRUE) \in Guid
      BY <1>3, Zenon
    <2>2. QED
      BY <1>5, <2>1, DisksAssumption DEF NoInstall
  <1>8. ThreadType
    <2>1. boot \in [disk : DOMAIN disk, guid : Guid, base : Lba]
      BY <1>1, <1>3, <1>4, <1>5
    <2>2. mount \in [bus : {"none", "ata", "usb"}, slot : 0..MaxSlots]
      BY <1>6, DisksAssumption DEF NoMount
    <2>3. late \in Command
      BY <1>5, <1>6 DEF NoCommand, Command
    <2>4. QED
      BY <1>6, <1>7, <2>1, <2>2, <2>3 DEF ThreadType
  <1>9. FlowInv
    BY <1>3, <1>4, <1>5, <1>6, <1>7 DEF FlowInv, Install
  <1>10. SlotInv /\ NewGuidInv /\ CopyInv /\ InstallInv
    BY <1>6 DEF SlotInv, NewGuidInv, CopyInv, InstallInv, Install, NoMount
  <1>11. BootInv
    <2>1. SameGuid(disk[boot.disk].mbr, boot.guid)
      BY <1>2, <1>4 DEF SameGuid
    <2>2. QED
      BY <1>1, <1>4, <1>6, <2>1 DEF BootInv, NoMount
  <1>12. PassInv
    BY <1>6 DEF PassInv
  <1>13. QED
    BY <1>6, <1>8, <1>9, <1>10, <1>11, <1>12 DEF IInv, Thread, Identity

LEMMA RebootPowersOn ==
    ASSUME IInv, Reboot
    PROVE  PoweredOn'
  <1>1. Usb' /\ hc'.msc = {}
    BY RebootUsb DEF IInv
  <1>2. UNCHANGED disk
    BY DEF Reboot
  <1>3. DiskType' /\ UniqueGuids'
    BY <1>2, DiskTypeSame DEF IInv, Thread, Identity, UniqueGuids, Blank
  <1>4. PICK d \in Attached : Bootable(d) /\ PowerOn(d)
    BY DEF Reboot
  <1>5. d \in DOMAIN disk
    BY DEF Attached
  <1>6. Bootable(d)'
    BY <1>2, <1>4, BootableSame
  <1>7. /\ boot' = [disk |-> d, guid |-> disk'[d].mbr.guid, base |-> Base[disk'[d].mbr.img]]
        /\ pc' = "ata" /\ after' = "select" /\ clean' = FALSE
        /\ mount' = NoMount /\ late' = NoCommand /\ inst' = NoInstall
    BY <1>2, <1>4 DEF PowerOn
  <1>8. d \in DOMAIN disk'
    BY <1>2, <1>5
  <1>9. NoMount' = NoMount /\ NoCommand' = NoCommand /\ NoInstall' = NoInstall
    BY DEF NoMount, NoCommand, NoInstall
  <1>10. QED
    BY <1>1, <1>3, <1>6, <1>7, <1>8, <1>9 DEF PoweredOn

LEMMA RebootKeeps ==
    ASSUME IInv, Reboot
    PROVE  IInv'
  <1>1. PoweredOn' => IInv'
    BY PowerOnState, PTL
  <1>2. QED
    BY <1>1, RebootPowersOn

LEMMA InitPowersOn == Init => PoweredOn
  <1> SUFFICES ASSUME Init PROVE PoweredOn
    OBVIOUS
  <1>1. /\ disk \in Start /\ hc = NoController
        /\ used = 0 /\ faults = 0
        /\ pc = "ata" /\ after = "select"
        /\ mount = NoMount /\ late = NoCommand /\ inst = NoInstall /\ clean = FALSE
    BY DEF Init
  <1>2. PICK a \in Place : port = [p \in Port |-> Fresh(a[p])]
    BY DEF Init
  <1>3. /\ a \in [Port -> (Stick \cap DOMAIN disk) \cup {NoDisk}]
        /\ \A p, q \in Port : a[p] = a[q] /\ a[p] # NoDisk => p = q
    BY <1>1, StartAssumption
  <1>4. \A p \in Port : port[p].stick = a[p]
    BY <1>2 DEF Fresh
  <1>5. FreshPorts
    <2>1. port = [p \in Port |-> Fresh(port[p].stick)]
      BY <1>2, <1>4
    <2>2. DOMAIN port = Port
      BY <1>2
    <2>3. faults \in 0..MaxFaults
      BY <1>1, DisksAssumption
    <2>4. QED
      BY <1>1, <1>3, <1>4, <2>1, <2>2, <2>3 DEF FreshPorts
  <1>6. Usb /\ hc.msc = {}
    BY <1>5, FreshUsb
  <1>7. DiskType /\ UniqueGuids
    BY <1>1, StartAssumption DEF DiskType, UniqueGuids
  <1>8. PICK d \in Attached :
          Bootable(d) /\ boot = [disk |-> d, guid |-> disk[d].mbr.guid, base |-> Base[disk[d].mbr.img]]
    BY DEF Init
  <1>9. d \in DOMAIN disk
    BY DEF Attached
  <1>10. QED
    BY <1>1, <1>6, <1>7, <1>8, <1>9 DEF PoweredOn

-----------------------------------------------------------------------------
(* The installer *)

\* A step of the installer: the thread is past booting, the controller and the
\* IDE disk stay as they are.
Installs ==
    /\ UNCHANGED <<port, used, hc, boot, mount>>
    /\ faults' \in 0..MaxFaults /\ faults <= faults'
    /\ DOMAIN disk' = DOMAIN disk
    /\ Master \in DOMAIN disk => disk'[Master] = disk[Master]
    /\ pc' \in Install \cup {"idle"} /\ after' = "key"
    /\ pc' \in Install => inst'.slot \in Slots

LEMMA InstallFrame ==
    ASSUME IInv, Installs, UniqueGuids'
    PROVE  UsbStep /\ SlotInv' /\ BootInv' /\ PassInv' /\ UniqueGuids'
  <1>1. UsbStep
    BY CalmUsb DEF Installs, IInv
  <1>2. MountInv'
    BY <1>1, MountStays DEF Installs, IInv, Identity, UsbStep
  <1>3. SlotInv'
    <2>1. \A m \in hc'.msc : m.slot \in Slots'
      BY <1>1, ProbesKeep DEF IInv, Identity
    <2>2. pc' \in Install => inst'.slot \in Slots'
      BY <1>1 DEF Installs, UsbStep, Steady
    <2>3. QED
      BY <1>2, <2>1, <2>2 DEF SlotInv, MountInv, Install
  <1>4. ~Early' /\ ~Booting'
    BY DEF Installs, Early, Booting, Install, StepName
  <1>5. BootInv'
    <2>1. ASSUME boot'.disk = Master
          PROVE  /\ Bootable(Master)'
                 /\ disk'[Master].mbr.guid = boot'.guid
                 /\ boot'.base = Base[disk'[Master].mbr.img]
      <3>1. boot' = boot
        BY DEF Installs
      <3>2. disk'[Master] = disk[Master]
        BY <2>1, <3>1 DEF Installs, IInv, Thread, ThreadType
      <3>3. /\ Bootable(Master)
            /\ disk[Master].mbr.guid = boot.guid
            /\ boot.base = Base[disk[Master].mbr.img]
        BY <2>1, <3>1 DEF IInv, Identity, BootInv
      <3>4. QED
        BY <3>1, <3>2, <3>3, BootableSame
    <2>2. QED
      BY <1>2, <1>4, <2>1 DEF BootInv, MountInv
  <1>6. PassInv'
    BY DEF Installs, PassInv
  <1>7. QED
    BY <1>1, <1>3, <1>5, <1>6

\* A step of the installer that writes nothing: what is left to show.
LEMMA InstallCalm ==
    ASSUME IInv, Installs, UNCHANGED disk,
           inst' \in [slot : 0..MaxSlots, lba : Lba, guid : Guid, ok : BOOLEAN],
           late' \in Command, clean' \in BOOLEAN, FlowInv', NewGuidInv', CopyInv', InstallInv'
    PROVE  Keeps
  <1>1. UniqueGuids'
    BY DEF IInv, Identity, UniqueGuids, Blank
  <1>2. UsbStep /\ SlotInv' /\ BootInv' /\ PassInv' /\ UniqueGuids'
    BY <1>1, InstallFrame
  <1>3. DiskType'
    BY DiskTypeSame DEF IInv, Thread
  <1>4. ThreadType'
    BY DEF IInv, Thread, ThreadType, Installs, Install, StepName, Lba, Command
  <1>5. QED
    BY <1>2, <1>3, <1>4 DEF Keeps, Thread, Identity

LEMMA OfferKeeps ==
    ASSUME IInv, Offer
    PROVE  Keeps
  <1>1. /\ pc = "offer" /\ after' = "key" /\ clean' = FALSE /\ UNCHANGED <<disk, port, used, hc, faults, boot, mount, late>>
        /\ ThreadType /\ FlowInv /\ Usb /\ DiskType
    BY DEF Offer, usbVars, IInv, Thread
  <1>2. faults' \in 0..MaxFaults /\ faults <= faults' /\ late' \in Command
    BY <1>1, NoneFailing DEF ThreadType
  <1>3. CASE pc' = "idle" /\ UNCHANGED inst
    <2>1. Installs
      BY <1>1, <1>2, <1>3 DEF Installs, Install
    <2>2. inst'.ok = FALSE /\ inst' \in [slot : 0..MaxSlots, lba : Lba, guid : Guid, ok : BOOLEAN]
      BY <1>1, <1>3 DEF FlowInv, ThreadType
    <2>3. FlowInv'
      BY <1>1, <1>3, <2>2 DEF FlowInv, Install, Booting, StepName
    <2>4. NewGuidInv' /\ CopyInv' /\ InstallInv'
      BY <1>3 DEF NewGuidInv, CopyInv, InstallInv
    <2>5. QED
      BY <1>1, <1>2, <2>1, <2>2, <2>3, <2>4, InstallCalm
  <1>4. CASE \E m \in Candidates : \E g \in Guid \ Taken :
               /\ inst' = [slot |-> m.slot, lba |-> 0, guid |-> g, ok |-> FALSE]
               /\ pc' = "size"
    <2>1. PICK m \in Candidates, g \in Guid \ Taken :
               /\ inst' = [slot |-> m.slot, lba |-> 0, guid |-> g, ok |-> FALSE]
               /\ pc' = "size"
      BY <1>4
    <2>2. m.slot \in Slots /\ m.slot \in 0..MaxSlots
      <3>1. m \in hc.msc
        BY DEF Candidates, Drives
      <3>2. m.slot \in Slots /\ m.slot \in Slot
        BY <3>1 DEF IInv, Identity, SlotInv, Usb, UsbType, Probed
      <3>3. QED
        BY <3>2, DisksAssumption DEF Slot
    <2>3. 0 \in Lba /\ boot.base \in Nat
      BY <1>1, Lbas DEF ThreadType
    <2>4. /\ inst' \in [slot : 0..MaxSlots, lba : Lba, guid : Guid, ok : BOOLEAN]
          /\ inst'.slot = m.slot /\ inst'.lba = 0 /\ inst'.guid = g /\ inst'.ok = FALSE
      BY <2>1, <2>2, <2>3
    <2>5. Installs
      BY <1>1, <1>2, <2>1, <2>2, <2>4 DEF Installs, Install
    <2>6. FlowInv'
      BY <1>1, <2>1, <2>3, <2>4 DEF FlowInv, Install, Booting, StepName
    <2>7. NewGuidInv'
      <3>1. ASSUME NEW d \in DOMAIN disk, SameGuid(disk[d].mbr, g) PROVE FALSE
        <4>1. disk[d].mbr \in Mbr /\ disk[d].mbr.guid = g
          BY <3>1, SameGuidSame
        <4>2. disk[d].mbr # Blank
          BY <4>1, NoMbr
        <4>3. g \in Taken
          BY <4>1, <4>2 DEF Taken
        <4>4. QED
          BY <4>3
      <3>2. \A d \in DOMAIN disk : ~SameGuid(disk[d].mbr, g)
        BY <3>1
      <3>3. QED
        BY <1>1, <2>4, <3>2 DEF NewGuidInv, SameGuid, Mbr
    <2>8. CopyInv' /\ InstallInv'
      BY <2>1 DEF CopyInv, InstallInv
    <2>9. QED
      BY <1>1, <1>2, <2>4, <2>5, <2>6, <2>7, <2>8, InstallCalm
  <1>5. QED
    BY <1>3, <1>4 DEF Offer

LEMMA CheckSizeKeeps ==
    ASSUME IInv, CheckSize
    PROVE  Keeps
  <1>1. /\ pc = "size" /\ pc' \in {"refuse", "result"}
        /\ UNCHANGED <<disk, port, used, hc, faults, after, boot, mount, late, inst, clean>>
        /\ ThreadType /\ FlowInv /\ Usb
    BY DEF CheckSize, usbVars, IInv, Thread
  <1>2. faults' \in 0..MaxFaults /\ faults <= faults' /\ late' \in Command
    BY <1>1, NoneFailing DEF ThreadType
  <1>3. after = "key" /\ inst.ok = FALSE /\ inst.slot \in Slots
    BY <1>1 DEF FlowInv, ThreadType, Install, IInv, Identity, SlotInv
  <1>4. Installs
    BY <1>1, <1>2, <1>3 DEF Installs, Install
  <1>5. FlowInv'
    BY <1>1, <1>3 DEF FlowInv, Install, Booting, StepName
  <1>6. NewGuidInv'
    BY <1>1 DEF IInv, Identity, NewGuidInv, SameGuid, Mbr
  <1>7. CopyInv' /\ InstallInv'
    BY <1>1, <1>3 DEF CopyInv, InstallInv
  <1>8. QED
    BY <1>1, <1>2, <1>4, <1>5, <1>6, <1>7, InstallCalm DEF ThreadType

LEMMA RefuseKeeps ==
    ASSUME IInv, Refuse
    PROVE  Keeps
  <1>1. /\ pc = "refuse"
        /\ UNCHANGED <<disk, port, used, hc, after, boot, mount, late, inst, clean>>
        /\ ThreadType /\ FlowInv /\ Usb
    BY DEF Refuse, IInv, Thread
  <1>2. PICK r \in UsbAnswers(inst.slot) :
          Failing(r.n) /\ pc' = IF refuse_if_same_disk(r.data) THEN "result" ELSE "copy"
    BY DEF Refuse
  <1>3. pc' \in {"result", "copy"} /\ r.n \in {0, 1}
    BY <1>2, UsbAnswer
  <1>4. faults' \in 0..MaxFaults /\ faults <= faults' /\ late' \in Command
    BY <1>1, <1>2, <1>3, FewFailing DEF ThreadType
  <1>5. after = "key" /\ inst.ok = FALSE /\ inst.slot \in Slots /\ inst.lba = 0
    BY <1>1 DEF FlowInv, ThreadType, Install, IInv, Identity, SlotInv
  <1>6. Installs
    BY <1>1, <1>3, <1>4, <1>5 DEF Installs, Install
  <1>7. FlowInv'
    BY <1>1, <1>3, <1>5 DEF FlowInv, Install, Booting, StepName
  <1>8. NewGuidInv'
    BY <1>1, <1>3 DEF IInv, Identity, NewGuidInv, SameGuid, Mbr
  <1>9. CopyInv' /\ InstallInv'
    BY <1>1, <1>3, <1>5 DEF CopyInv, InstallInv
  <1>10. QED
    BY <1>1, <1>4, <1>6, <1>7, <1>8, <1>9, InstallCalm DEF ThreadType

\* A disk's MBR and prefix after a chunk was copied to it: x, once c.
ChunkCopied(x, c, k, r) ==
    /\ x \in Content
    /\ k # 0 => x.mbr = c.mbr
    /\ k = 0 => x.mbr = Blank \/ x.mbr = [img |-> disk[Master].mbr.img, guid |-> inst.guid]
    /\ k = 0 \/ r.of = Read(k) => x.pre[k] = disk[Master].pre[k]
    /\ \A j \in Lba : j # k => x.pre[j] = c.pre[j]

LEMMA CopiedValue ==
    ASSUME ThreadType, DiskType, Master \in DOMAIN disk, NEW c \in Content, NEW k \in Lba, NEW r
    PROVE  ChunkCopied(Copied(c, k, r), c, k, r)
  <1> DEFINE mbr == IF k > 0 THEN c.mbr
                    ELSE IF AtaMbr(r) = Blank THEN Blank
                    ELSE [AtaMbr(r) EXCEPT !.guid = inst.guid]
             v == IF k = 0 \/ r.of = Read(k) THEN disk[Master].pre[k] ELSE Other
             pre == [c.pre EXCEPT ![k] = v]
             vol == IF c.vol <= k THEN 0 ELSE c.vol
             e == [mbr |-> mbr, pre |-> pre, vol |-> vol]
  <1>1. /\ c = [mbr |-> c.mbr, pre |-> c.pre, vol |-> c.vol]
        /\ c.mbr \in Mbr \cup {Blank} /\ c.pre \in [Lba -> Chunk] /\ c.vol \in Lba
    BY DEF Content
  <1>2. Copied(c, k, r) = e
    <2> HIDE DEF mbr, vol, v
    <2> DEFINE a == c.mbr
               f == c.pre
               b == c.vol
               g == [f EXCEPT ![k] = v]
    <2>1. Copied(c, k, r) = [c EXCEPT !.mbr = mbr, !.pre[k] = v, !.vol = vol]
      BY DEF Copied, mbr, vol, v
    <2>2. c = [mbr |-> a, pre |-> f, vol |-> b]
      BY <1>1
    <2> HIDE DEF a, f, b
    <2>3. [c EXCEPT !.mbr = mbr, !.pre[k] = v, !.vol = vol]
            = [[[c EXCEPT !.mbr = mbr] EXCEPT !.pre[k] = v] EXCEPT !.vol = vol]
      OBVIOUS
    <2>4. [c EXCEPT !.mbr = mbr] = [mbr |-> mbr, pre |-> f, vol |-> b]
      BY <2>2
    <2>5. [[mbr |-> mbr, pre |-> f, vol |-> b] EXCEPT !.pre[k] = v] = [mbr |-> mbr, pre |-> g, vol |-> b]
      OBVIOUS
    <2> HIDE DEF g
    <2>6. [[mbr |-> mbr, pre |-> g, vol |-> b] EXCEPT !.vol = vol] = [mbr |-> mbr, pre |-> g, vol |-> vol]
      OBVIOUS
    <2>7. g = pre
      BY DEF g, f
    <2> HIDE DEF pre
    <2>8. QED
      BY <2>1, <2>3, <2>4, <2>5, <2>6, <2>7, Zenon
  <1>3. k \in Nat /\ 0 \in Lba
    BY Lbas
  <1>4. disk[Master].mbr \in Mbr \cup {Blank} /\ disk[Master].pre[k] \in Chunk
    BY DEF DiskType, Content
  <1>5. AtaMbr(r) = Blank \/ AtaMbr(r) = disk[Master].mbr
    BY DEF AtaMbr
  <1>6. k = 0 => mbr = Blank \/ mbr = [img |-> disk[Master].mbr.img, guid |-> inst.guid]
    <2>1. ASSUME k = 0, mbr # Blank
          PROVE  mbr = [img |-> disk[Master].mbr.img, guid |-> inst.guid]
      <3>0. ~(k > 0)
        BY <2>1
      <3>1. AtaMbr(r) # Blank /\ mbr = [AtaMbr(r) EXCEPT !.guid = inst.guid]
        BY <2>1, <3>0, Zenon
      <3>2. disk[Master].mbr \in Mbr /\ AtaMbr(r) = disk[Master].mbr
        BY <1>4, <1>5, <3>1
      <3>3. QED
        BY <3>1, <3>2 DEF Mbr
    <2>2. QED
      BY <2>1
  <1>7. mbr \in Mbr \cup {Blank}
    <2>1. CASE k = 0 /\ mbr # Blank
      <3>1. disk[Master].mbr \in Mbr
        <4>0. ~(k > 0)
          BY <2>1
        <4>1. AtaMbr(r) # Blank
          BY <2>1, <4>0, Zenon
        <4>2. QED
          BY <1>4, <1>5, <4>1
      <3>2. QED
        BY <1>6, <2>1, <3>1 DEF Mbr, ThreadType
    <2>2. CASE k # 0
      BY <1>1, <1>3, <2>2
    <2>3. QED
      BY <2>1, <2>2
  <1>8. k # 0 => mbr = c.mbr
    BY <1>3
  <1>9. v \in Chunk /\ vol \in Lba
    BY <1>1, <1>3, <1>4 DEF Chunk
  <1>10. k = 0 \/ r.of = Read(k) => v = disk[Master].pre[k]
    BY Zenon
  <1> HIDE DEF mbr, v, vol
  <1>11. pre \in [Lba -> Chunk] /\ pre[k] = v /\ \A j \in Lba : j # k => pre[j] = c.pre[j]
    BY <1>1, <1>9
  <1> HIDE DEF pre
  <1>12. e \in Content /\ e.mbr = mbr /\ e.pre = pre
    BY <1>7, <1>9, <1>11 DEF Content
  <1> HIDE DEF e
  <1>13. ChunkCopied(e, c, k, r)
    BY <1>6, <1>8, <1>10, <1>11, <1>12 DEF ChunkCopied
  <1>14. QED
    BY <1>2, <1>13

\* A write to the target leaves every GUID on one disk.
LEMMA TargetGuids ==
    ASSUME DiskType, UniqueGuids, NEW d \in DOMAIN disk, NEW g \in Guid,
           DOMAIN disk' = DOMAIN disk,
           \A e \in DOMAIN disk : e # d => disk'[e] = disk[e],
           \/ disk'[d].mbr = disk[d].mbr
           \/ disk'[d].mbr = Blank
           \/ /\ disk'[d].mbr.guid = g
              /\ \A e \in DOMAIN disk : ~SameGuid(disk[e].mbr, g)
    PROVE  UniqueGuids'
  <1>1. g # 0 /\ Blank.guid = 0 /\ Blank' = Blank
    BY DisksAssumption DEF Blank
  <1>2. \A e \in DOMAIN disk : disk[e].mbr \in Mbr \cup {Blank}
    BY DEF DiskType, Content
  <1>3. \A e \in DOMAIN disk : disk[e].mbr \in Mbr => disk[e].mbr.guid # 0
    BY DisksAssumption DEF Mbr
  <1>4. CASE disk'[d].mbr = disk[d].mbr
    <2>1. \A e \in DOMAIN disk : disk'[e].mbr = disk[e].mbr
      BY <1>4
    <2>2. QED
      BY <1>1, <2>1 DEF UniqueGuids
  <1>5. CASE disk'[d].mbr = Blank
    <2>1. ASSUME NEW a \in DOMAIN disk, NEW b \in DOMAIN disk,
                 disk'[a].mbr # Blank, disk'[a].mbr.guid = disk'[b].mbr.guid
          PROVE  a = b
      <3>1. a # d /\ disk'[a] = disk[a] /\ disk[a].mbr # Blank
        BY <1>5, <2>1
      <3>2. disk[a].mbr.guid # 0
        BY <1>2, <1>3, <3>1
      <3>3. b # d
        BY <1>1, <1>5, <2>1, <3>1, <3>2
      <3>4. disk'[b] = disk[b]
        BY <3>3
      <3>5. QED
        BY <2>1, <3>1, <3>4 DEF UniqueGuids
    <2>2. QED
      BY <1>1, <2>1 DEF UniqueGuids
  <1>6. CASE /\ disk'[d].mbr.guid = g
             /\ \A e \in DOMAIN disk : ~SameGuid(disk[e].mbr, g)
    <2>1. \A e \in DOMAIN disk : disk[e].mbr.guid # g
      BY <1>1, <1>2, <1>6, SameGuidSame
    <2>2. ASSUME NEW a \in DOMAIN disk, NEW b \in DOMAIN disk,
                 disk'[a].mbr # Blank, disk'[a].mbr.guid = disk'[b].mbr.guid, a # b
          PROVE  FALSE
      <3>1. CASE a = d
        <4>1. disk'[b] = disk[b]
          BY <2>2, <3>1
        <4>2. QED
          BY <1>6, <2>1, <2>2, <3>1, <4>1
      <3>2. CASE b = d
        <4>1. disk'[a] = disk[a]
          BY <2>2, <3>2
        <4>2. QED
          BY <1>6, <2>1, <2>2, <3>2, <4>1
      <3>3. CASE a # d /\ b # d
        <4>1. disk'[a] = disk[a] /\ disk'[b] = disk[b]
          BY <3>3
        <4>2. QED
          BY <2>2, <4>1 DEF UniqueGuids
      <3>4. QED
        BY <3>1, <3>2, <3>3
    <2>3. QED
      BY <1>1, <2>2 DEF UniqueGuids
  <1>7. QED
    BY <1>4, <1>5, <1>6

\* What a step of the installer leaves to show when it writes to the target d.
LEMMA InstallWrite ==
    ASSUME IInv, NEW d \in DOMAIN disk, d # Master, NEW c \in Content, disk' = [disk EXCEPT ![d] = c],
           UNCHANGED <<port, used, hc, boot, mount, after, clean>>,
           after = "key", faults' \in 0..MaxFaults, faults <= faults',
           pc' \in Install, inst'.slot \in Slots, inst'.ok = FALSE,
           inst' \in [slot : 0..MaxSlots, lba : Lba, guid : Guid, ok : BOOLEAN], late' \in Command,
           \/ c.mbr = disk[d].mbr
           \/ c.mbr = Blank
           \/ /\ c.mbr.guid = inst.guid
              /\ \A e \in DOMAIN disk : ~SameGuid(disk[e].mbr, inst.guid),
           FlowInv', NewGuidInv', CopyInv'
    PROVE  Keeps
  <1>0. DiskType /\ ThreadType /\ UniqueGuids
    BY DEF IInv, Thread, Identity
  <1>1. /\ DiskType' /\ DOMAIN disk' = DOMAIN disk
        /\ disk'[d] = c
        /\ \A e \in DOMAIN disk : e # d => disk'[e] = disk[e]
    BY <1>0, DiskWrite
  <1>2. inst.guid \in Guid
    BY <1>0 DEF ThreadType
  <1>3. UniqueGuids'
    BY <1>0, <1>1, <1>2, TargetGuids
  <1>4. Installs
    BY <1>1 DEF Installs
  <1>5. UsbStep /\ SlotInv' /\ BootInv' /\ PassInv' /\ UniqueGuids'
    BY <1>3, <1>4, InstallFrame
  <1>6. InstallInv'
    BY DEF InstallInv
  <1>7. ThreadType'
    BY <1>0, <1>1 DEF ThreadType, Install, StepName, Lba, Command
  <1>8. QED
    BY <1>1, <1>5, <1>6, <1>7 DEF Keeps, Thread, Identity

\* A chunk that does not reach the target ends the installation.
LEMMA CopyEnds ==
    ASSUME IInv, pc = "copy", UNCHANGED <<disk, port, used, hc, after, boot, mount, inst, clean>>,
           pc' = "result", late' \in Command, faults' \in 0..MaxFaults, faults <= faults'
    PROVE  Keeps
  <1>1. ThreadType /\ FlowInv
    BY DEF IInv, Thread
  <1>2. after = "key" /\ inst.ok = FALSE /\ inst.slot \in Slots
    BY <1>1 DEF FlowInv, ThreadType, Install, IInv, Identity, SlotInv
  <1>3. Installs
    BY <1>2 DEF Installs, Install
  <1>4. FlowInv'
    BY <1>1, <1>2 DEF FlowInv, Install, Booting, StepName
  <1>5. NewGuidInv' /\ CopyInv' /\ InstallInv'
    BY <1>2 DEF NewGuidInv, CopyInv, InstallInv
  <1>6. QED
    BY <1>1, <1>3, <1>4, <1>5, InstallCalm DEF ThreadType

LEMMA CopyChunkKeeps ==
    ASSUME IInv, CopyChunk
    PROVE  Keeps
  <1>1. /\ pc = "copy" /\ UNCHANGED <<port, used, hc, after, boot, mount, clean>>
        /\ ThreadType /\ FlowInv /\ Usb /\ DiskType
    BY DEF CopyChunk, IInv, Thread
  <1>2. /\ after = "key" /\ inst.ok = FALSE /\ inst.slot \in Slots
        /\ inst \in [slot : 0..MaxSlots, lba : Lba, guid : Guid, ok : BOOLEAN]
        /\ boot.base \in Lba
    BY <1>1 DEF FlowInv, ThreadType, Install, IInv, Identity, SlotInv
  <1>3. PICK k : k = inst.lba
    OBVIOUS
  <1>4. PICK d : d = Device(inst.slot)
    OBVIOUS
  <1>5. k \in Lba /\ k \in Nat /\ boot.base \in Nat /\ k < boot.base /\ k + 1 \in Lba
    <2>1. k \in Lba /\ k \in Nat /\ boot.base \in Nat
      BY <1>2, <1>3, Lbas
    <2>2. k < boot.base
      BY <1>3, <2>1 DEF CopyChunk, PrefixDone
    <2>3. k + 1 \in Nat /\ k + 1 <= boot.base
      BY <2>1, <2>2
    <2>4. QED
      BY <1>2, <2>1, <2>2, <2>3, Lbas
  <1> DEFINE put(r) == [disk EXCEPT ![d] = Copied(disk[d], k, r)]
  <1>6. PICK r \in AtaAnswers(Read(k)) :
          /\ late' = r.late
          /\ \/ (~r.ok \/ d = NoDisk) /\ Failing(r.n) /\ pc' = "result" /\ UNCHANGED <<disk, inst>>
             \/ /\ r.ok /\ d # NoDisk
                /\ Failing(r.n) /\ disk' = put(r) /\ inst' = [inst EXCEPT !.lba = k + 1] /\ UNCHANGED pc
             \/ /\ r.ok /\ d # NoDisk
                /\ Failing(r.n + 1)
                /\ disk' \in {disk, put(r), [put(r) EXCEPT ![d].pre[k] = Other]}
                /\ pc' = "result" /\ UNCHANGED inst
    BY <1>3, <1>4 DEF CopyChunk
  <1>7. /\ r.ok \in BOOLEAN /\ r.n \in {0, 1} /\ r.late \in Command
        /\ r.ok => Master \in DOMAIN disk /\ r.late = NoCommand /\ r.n = 0
        /\ r.ok /\ late = NoCommand => r.of = Read(k)
    BY <1>1, <1>5, Commands, AtaAnswer
  <1>8. late' \in Command
    BY <1>6, <1>7
  <1>9. CASE (~r.ok \/ d = NoDisk) /\ Failing(r.n) /\ pc' = "result" /\ UNCHANGED <<disk, inst>>
    <2>1. faults' \in 0..MaxFaults /\ faults <= faults'
      BY <1>1, <1>7, <1>9, FewFailing
    <2>2. QED
      BY <1>1, <1>8, <1>9, <2>1, CopyEnds
  <1> DEFINE c == Copied(disk[d], k, r)
  <1>10. ASSUME r.ok, d # NoDisk
         PROVE  /\ d \in DOMAIN disk /\ d # Master
                /\ ChunkCopied(c, disk[d], k, r)
                /\ \/ c.mbr = disk[d].mbr
                   \/ c.mbr = Blank
                   \/ c.mbr.guid = inst.guid /\ \A e \in DOMAIN disk : ~SameGuid(disk[e].mbr, inst.guid)
    <2>1. d \in DOMAIN disk /\ d # Master
      BY <1>1, <1>4, <1>10, DeviceIsStick
    <2>2. disk[d] \in Content
      BY <1>1, <2>1 DEF DiskType
    <2>3. ChunkCopied(c, disk[d], k, r)
      BY <1>1, <1>5, <1>7, <1>10, <2>2, CopiedValue
    <2>4. k = 0 => \A e \in DOMAIN disk : ~SameGuid(disk[e].mbr, inst.guid)
      BY <1>1, <1>3 DEF IInv, Identity, NewGuidInv
    <2> HIDE DEF c
    <2>5. QED
      BY <2>1, <2>3, <2>4 DEF ChunkCopied
  <1>11. CASE /\ r.ok /\ d # NoDisk
              /\ Failing(r.n) /\ disk' = put(r) /\ inst' = [inst EXCEPT !.lba = k + 1] /\ UNCHANGED pc
    <2>1. faults' \in 0..MaxFaults /\ faults <= faults'
      BY <1>1, <1>7, <1>11, FewFailing
    <2>2. /\ inst' \in [slot : 0..MaxSlots, lba : Lba, guid : Guid, ok : BOOLEAN]
          /\ inst'.slot = inst.slot /\ inst'.lba = k + 1 /\ inst'.guid = inst.guid /\ inst'.ok = FALSE
      BY <1>2, <1>5, <1>11
    <2>3. FlowInv'
      BY <1>1, <1>2, <1>5, <1>11, <2>2 DEF FlowInv, Install, Booting, StepName
    <2>4. NewGuidInv'
      BY <1>1, <1>5, <1>11, <2>2 DEF NewGuidInv
    <2>5. disk' = [disk EXCEPT ![d] = c]
      BY <1>11
    <2>6. /\ d \in DOMAIN disk /\ d # Master /\ c \in Content /\ late' = NoCommand /\ Master \in DOMAIN disk
      BY <1>6, <1>7, <1>10, <1>11 DEF ChunkCopied
    <2>7. disk'[d] = c /\ disk'[Master] = disk[Master]
      <3> HIDE DEF c
      <3>1. QED
        BY <2>5, <2>6
    <2>8. Device(inst.slot)' = d
      <3>1. Device(inst.slot)' = Device(inst.slot)
        BY <1>1, <2>2 DEF Device
      <3>2. QED
        BY <1>4, <3>1
    <2>9. ASSUME mount.bus = "ata" PROVE c.mbr = Blank \/ CopiedTo(d, k + 1)'
      <3>1. CASE k = 0
        <4>1. \/ c.mbr = Blank
              \/ c.mbr = [img |-> disk[Master].mbr.img, guid |-> inst.guid]
          BY <1>10, <1>11, <3>1 DEF ChunkCopied
        <4>2. c.pre[0] = disk[Master].pre[0]
          BY <1>10, <1>11, <3>1 DEF ChunkCopied
        <4>3. \A j \in Lba : j < 1 => j = 0
          BY Lbas
        <4> HIDE DEF c
        <4>4. \A j \in Lba : j < k + 1 => c.pre[j] = disk[Master].pre[j]
          BY <3>1, <4>2, <4>3
        <4>5. QED
          BY <2>2, <2>7, <4>1, <4>4 DEF CopiedTo, Lba
      <3>2. CASE k # 0
        <4>1. late = NoCommand /\ (disk[d].mbr = Blank \/ CopiedTo(d, k))
          BY <1>1, <1>3, <1>4, <1>11, <2>9, <3>2 DEF IInv, Identity, CopyInv
        <4>2. /\ c.mbr = disk[d].mbr /\ c.pre[k] = disk[Master].pre[k]
              /\ \A j \in Lba : j # k => c.pre[j] = disk[d].pre[j]
          BY <1>7, <1>10, <1>11, <3>2, <4>1 DEF ChunkCopied
        <4>3. \A j \in Lba : j < k + 1 => j = k \/ j < k
          BY <1>5, Lbas
        <4> HIDE DEF c
        <4>4. QED
          BY <2>2, <2>7, <4>1, <4>2, <4>3 DEF CopiedTo, Lba
      <3>3. QED
        BY <3>1, <3>2
    <2>10. CopyInv'
      <3>1. ASSUME mount'.bus = "ata" PROVE disk'[Device(inst.slot)'].mbr = Blank \/ CopiedTo(d, k + 1)'
        <4>1. mount.bus = "ata"
          BY <1>1, <3>1
        <4>2. QED
          BY <2>7, <2>8, <2>9, <4>1
      <3>2. CopiedTo(Device(inst.slot), inst.lba)' <=> CopiedTo(d, k + 1)'
        BY <2>2, <2>8 DEF CopiedTo, Lba
      <3>3. pc' = "copy"
        BY <1>1, <1>11
      <3>4. Blank' = Blank /\ NoCommand' = NoCommand
        BY DEF Blank, NoCommand
      <3>5. QED
        BY <2>6, <3>1, <3>2, <3>3, <3>4 DEF CopyInv
    <2>11. pc' \in Install /\ inst'.slot \in Slots
      BY <1>1, <1>2, <1>11, <2>2 DEF Install
    <2>12. \/ c.mbr = disk[d].mbr
           \/ c.mbr = Blank
           \/ c.mbr.guid = inst.guid /\ \A e \in DOMAIN disk : ~SameGuid(disk[e].mbr, inst.guid)
      BY <1>10, <1>11
    <2> HIDE DEF c
    <2>13. QED
      BY <1>1, <1>2, <1>8, <2>1, <2>2, <2>3, <2>4, <2>5, <2>6, <2>10, <2>11, <2>12, InstallWrite
  <1>12. CASE /\ r.ok /\ d # NoDisk
              /\ Failing(r.n + 1)
              /\ disk' \in {disk, put(r), [put(r) EXCEPT ![d].pre[k] = Other]}
              /\ pc' = "result" /\ UNCHANGED inst
    <2>1. faults' \in 0..MaxFaults /\ faults <= faults'
      <3>1. r.n + 1 = 1
        BY <1>7, <1>12
      <3>2. QED
        BY <1>1, <1>12, <3>1, FewFailing
    <2>2. CASE disk' = disk
      BY <1>1, <1>8, <1>12, <2>1, <2>2, CopyEnds
    <2>3. ASSUME NEW x \in Content, disk' = [disk EXCEPT ![d] = x], x.mbr = c.mbr
          PROVE  Keeps
      <3>1. FlowInv'
        BY <1>1, <1>2, <1>12 DEF FlowInv, Install, Booting, StepName
      <3>2. NewGuidInv' /\ CopyInv'
        BY <1>12 DEF NewGuidInv, CopyInv
      <3>3. \/ x.mbr = disk[d].mbr
            \/ x.mbr = Blank
            \/ x.mbr.guid = inst.guid /\ \A e \in DOMAIN disk : ~SameGuid(disk[e].mbr, inst.guid)
        BY <1>10, <1>12, <2>3
      <3>4. d \in DOMAIN disk /\ d # Master
        BY <1>10, <1>12
      <3>5. pc' \in Install /\ inst'.slot \in Slots /\ inst' = inst
        BY <1>2, <1>12 DEF Install
      <3> HIDE DEF c
      <3>6. QED
        BY <1>1, <1>2, <1>8, <2>1, <2>3, <3>1, <3>2, <3>3, <3>4, <3>5, InstallWrite
    <2>4. CASE disk' = put(r)
      <3>1. c \in Content
        BY <1>10, <1>12 DEF ChunkCopied
      <3>2. disk' = [disk EXCEPT ![d] = c]
        BY <2>4
      <3> HIDE DEF c
      <3>3. QED
        BY <2>3, <3>1, <3>2
    <2>5. CASE disk' = [put(r) EXCEPT ![d].pre[k] = Other]
      <3> DEFINE x == [c EXCEPT !.pre[k] = Other]
      <3>1. c \in Content /\ d \in DOMAIN disk /\ Other \in Chunk
        BY <1>10, <1>12 DEF Chunk, ChunkCopied
      <3>2. disk' = [[disk EXCEPT ![d] = c] EXCEPT ![d].pre[k] = Other]
        BY <2>5
      <3> HIDE DEF c
      <3>3. x \in Content /\ x.mbr = c.mbr
        BY <1>5, <3>1, PrefixWrite
      <3>4. disk' = [disk EXCEPT ![d] = x]
        BY <3>1, <3>2
      <3> HIDE DEF x
      <3>5. QED
        BY <2>3, <3>3, <3>4
    <2>6. QED
      BY <1>12, <2>2, <2>4, <2>5
  <1>13. QED
    BY <1>6, <1>9, <1>11, <1>12

LEMMA FormatKeeps ==
    ASSUME IInv, Format
    PROVE  Keeps
  <1>1. /\ pc = "copy" /\ UNCHANGED <<port, used, hc, after, boot, mount, late, inst, clean>>
        /\ ThreadType /\ FlowInv /\ Usb /\ DiskType
    BY DEF Format, IInv, Thread
  <1>2. /\ after = "key" /\ inst.ok = FALSE /\ inst.slot \in Slots
        /\ inst \in [slot : 0..MaxSlots, lba : Lba, guid : Guid, ok : BOOLEAN]
        /\ boot.base \in Lba /\ late' \in Command
    BY <1>1 DEF FlowInv, ThreadType, Install, IInv, Identity, SlotInv
  <1>3. PICK d : d = Device(inst.slot)
    OBVIOUS
  <1>4. inst.lba = boot.base /\ inst.lba # 0 /\ 0 \in Lba
    <2>1. boot.base \in Nat /\ boot.base # 0
      BY <1>1, DisksAssumption DEF FlowInv
    <2>2. inst.lba \in Nat /\ inst.lba >= boot.base /\ inst.lba <= boot.base
      BY <1>1, <1>2, Lbas DEF Format, PrefixDone, FlowInv
    <2>3. 0 \in Lba
      BY <1>2, Lbas
    <2>4. QED
      BY <2>1, <2>2, <2>3
  <1>5. \/ Failing(0) /\ pc' = "result" /\ UNCHANGED disk
        \/ Failing(1) /\ pc' = "result" /\ UNCHANGED disk
        \/ d # NoDisk /\ Failing(0) /\ disk' = [disk EXCEPT ![d].vol = boot.base] /\ pc' = "verify"
        \/ d # NoDisk /\ Failing(1) /\ disk' = [disk EXCEPT ![d].vol = 0] /\ pc' = "result"
    BY <1>3 DEF Format
  <1>6. faults' \in 0..MaxFaults /\ faults <= faults'
    BY <1>1, <1>5, FewFailing
  <1>7. CASE pc' = "result" /\ UNCHANGED disk
    BY <1>1, <1>2, <1>6, <1>7, CopyEnds
  <1>8. ASSUME NEW v \in Lba, d # NoDisk, disk' = [disk EXCEPT ![d].vol = v], pc' \in {"verify", "result"}
        PROVE  Keeps
    <2> DEFINE c == [disk[d] EXCEPT !.vol = v]
    <2>1. d \in DOMAIN disk /\ d # Master
      BY <1>1, <1>3, <1>8, DeviceIsStick
    <2>2. disk[d] \in Content
      BY <1>1, <2>1 DEF DiskType
    <2>3. c \in Content /\ c.mbr = disk[d].mbr /\ c.pre = disk[d].pre
      BY <2>2 DEF Content
    <2>4. disk' = [disk EXCEPT ![d] = c]
      BY <1>8
    <2> HIDE DEF c
    <2>5. disk'[d] = c /\ \A e \in DOMAIN disk : e # d => disk'[e] = disk[e]
      BY <2>1, <2>4
    <2>6. FlowInv'
      BY <1>1, <1>2, <1>4, <1>8 DEF FlowInv, Install, Booting, StepName
    <2>7. NewGuidInv'
      BY <1>8 DEF NewGuidInv
    <2>8. CopyInv'
      <3> SUFFICES ASSUME mount'.bus = "ata" PROVE CopyInv'
        BY <1>8 DEF CopyInv
      <3>1. mount.bus = "ata" /\ inst' = inst
        BY <1>1
      <3>2. disk[d].mbr = Blank \/ CopiedTo(d, inst.lba)
        BY <1>1, <1>3, <1>4, <1>8, <3>1 DEF IInv, Identity, CopyInv
      <3>3. Device(inst.slot)' = d
        <4>1. Device(inst.slot)' = Device(inst.slot)
          BY <1>1 DEF Device
        <4>2. QED
          BY <1>3, <4>1
      <3>4. disk'[Master] = disk[Master]
        <4>1. boot.disk = Master /\ boot.disk \in DOMAIN disk
          BY <1>1, <3>1 DEF IInv, Identity, BootInv, ThreadType
        <4>2. QED
          BY <2>1, <2>5, <4>1
      <3>5. disk'[d].mbr = disk[d].mbr /\ disk'[d].pre = disk[d].pre
        BY <2>3, <2>5
      <3>6. disk'[d].mbr = Blank \/ CopiedTo(d, inst.lba)'
        BY <3>1, <3>2, <3>4, <3>5 DEF CopiedTo, Lba
      <3>7. CopiedTo(Device(inst.slot), inst.lba)' <=> CopiedTo(d, inst.lba)'
        BY <3>3 DEF CopiedTo
      <3>8. disk'[Device(inst.slot)'].mbr = disk'[d].mbr /\ Blank' = Blank
        BY <3>3 DEF Blank
      <3>9. QED
        BY <1>8, <3>6, <3>7, <3>8 DEF CopyInv
    <2>9. pc' \in Install
      BY <1>8 DEF Install
    <2>10. QED
      BY <1>1, <1>2, <1>6, <2>1, <2>3, <2>4, <2>6, <2>7, <2>8, <2>9, InstallWrite
  <1>9. QED
    BY <1>2, <1>4, <1>5, <1>7, <1>8

\* The MBR that is read back with the new GUID is the target's.
LEMMA VerifyKeeps ==
    ASSUME IInv, Verify
    PROVE  Keeps
  <1>1. /\ pc = "verify" /\ pc' = "result"
        /\ UNCHANGED <<disk, port, used, hc, after, boot, mount, late, clean>>
        /\ ThreadType /\ FlowInv /\ Usb
    BY DEF Verify, IInv, Thread
  <1>2. /\ after = "key" /\ inst.ok = FALSE /\ inst.slot \in Slots /\ inst.lba = boot.base
        /\ inst \in [slot : 0..MaxSlots, lba : Lba, guid : Guid, ok : BOOLEAN]
        /\ late' \in Command
    BY <1>1 DEF FlowInv, ThreadType, Install, IInv, Identity, SlotInv
  <1>3. PICK d : d = Device(inst.slot)
    OBVIOUS
  <1>4. PICK r \in UsbAnswers(inst.slot) :
          \/ /\ Failing(r.n)
             /\ inst' = [inst EXCEPT !.ok = verify_mbr_ok(r.data) /\ disk[d].vol = boot.base]
          \/ Failing(r.n + 1) /\ UNCHANGED inst
    BY <1>3 DEF Verify
  <1>5. /\ r.n \in {0, 1}
        /\ \/ d = NoDisk /\ r.data = Unreadable
           \/ d # NoDisk /\ r.data = disk[d].mbr
           \/ d # NoDisk /\ r.data \in {Blank, Unreadable}
    BY <1>3, UsbAnswer
  <1>6. faults' \in 0..MaxFaults /\ faults <= faults'
    <2>1. r.n \in Nat /\ r.n + 1 \in Nat
      BY <1>5
    <2>2. QED
      BY <1>1, <1>4, <2>1, FailingCount DEF Usb
  <1>7. /\ inst' \in [slot : 0..MaxSlots, lba : Lba, guid : Guid, ok : BOOLEAN]
        /\ inst'.slot = inst.slot /\ inst'.lba = inst.lba /\ inst'.guid = inst.guid
        /\ inst'.ok => verify_mbr_ok(r.data) /\ disk[d].vol = boot.base
    <2>1. CASE UNCHANGED inst
      BY <1>2, <2>1
    <2>2. CASE inst' = [inst EXCEPT !.ok = verify_mbr_ok(r.data) /\ disk[d].vol = boot.base]
      <3>1. verify_mbr_ok(r.data) \in BOOLEAN
        BY DEF verify_mbr_ok
      <3>2. QED
        BY <1>2, <2>2, <3>1
    <2>3. QED
      BY <1>4, <2>1, <2>2
  <1>8. Installs
    BY <1>1, <1>2, <1>6, <1>7 DEF Installs, Install
  <1>9. FlowInv'
    BY <1>1, <1>2, <1>7 DEF FlowInv, Install, Booting, StepName
  <1>10. NewGuidInv' /\ CopyInv'
    BY <1>1 DEF NewGuidInv, CopyInv
  <1>11. InstallInv'
    <2> SUFFICES ASSUME inst'.ok, mount'.bus = "ata", Device(inst.slot)' # NoDisk PROVE InstallInv'
      BY DEF InstallInv
    <2>1. Device(inst.slot)' = d
      <3>1. Device(inst.slot)' = Device(inst.slot)
        BY <1>1, <1>7 DEF Device
      <3>2. QED
        BY <1>3, <3>1
    <2>2. r.data \in Mbr /\ disk[d].vol = boot.base /\ d # NoDisk /\ mount.bus = "ata"
      BY <1>1, <1>7, <2>1 DEF verify_mbr_ok
    <2>3. r.data = disk[d].mbr /\ disk[d].mbr # Blank
      BY <1>5, <2>2, NoMbr
    <2>4. CopiedTo(d, boot.base)
      BY <1>1, <1>2, <1>3, <2>2, <2>3 DEF IInv, Identity, CopyInv
    <2>5. CopiedTo(d, boot.base)'
      BY <1>1, <1>7, <2>4 DEF CopiedTo, Lba
    <2>6. CopiedTo(Device(inst.slot), boot.base)' <=> CopiedTo(d, boot.base)'
      BY <2>1 DEF CopiedTo
    <2>7. disk'[Device(inst.slot)'].vol = boot'.base
      BY <1>1, <2>1, <2>2
    <2>8. QED
      BY <2>5, <2>6, <2>7 DEF InstallInv
  <1>12. QED
    BY <1>1, <1>2, <1>7, <1>8, <1>9, <1>10, <1>11, InstallCalm DEF ThreadType

LEMMA DismissKeeps ==
    ASSUME IInv, Dismiss
    PROVE  Keeps
  <1>1. /\ pc = "result" /\ pc' = "idle" /\ inst' = NoInstall
        /\ UNCHANGED <<disk, port, used, hc, faults, after, boot, mount, late, clean>>
        /\ ThreadType /\ FlowInv /\ Usb
    BY DEF Dismiss, usbVars, IInv, Thread
  <1>2. after = "key" /\ boot.base \in Nat /\ 0 \in Lba /\ boot.guid \in Guid /\ late' \in Command /\ clean' \in BOOLEAN
    BY <1>1, Lbas DEF FlowInv, Install, ThreadType
  <1>3. faults' \in 0..MaxFaults /\ faults <= faults'
    BY <1>1, NoneFailing
  <1>4. /\ inst' \in [slot : 0..MaxSlots, lba : Lba, guid : Guid, ok : BOOLEAN]
        /\ inst'.lba = 0 /\ inst'.ok = FALSE
    <2>1. (CHOOSE g \in Guid : TRUE) \in Guid
      BY <1>2, Zenon
    <2>2. QED
      BY <1>1, <1>2, <2>1, DisksAssumption DEF NoInstall
  <1>5. Installs
    BY <1>1, <1>2, <1>3 DEF Installs, Install
  <1>6. FlowInv'
    BY <1>1, <1>2, <1>4 DEF FlowInv, Install, Booting, StepName
  <1>7. NewGuidInv' /\ CopyInv' /\ InstallInv'
    BY <1>1 DEF NewGuidInv, CopyInv, InstallInv
  <1>8. QED
    BY <1>1, <1>2, <1>4, <1>5, <1>6, <1>7, InstallCalm

-----------------------------------------------------------------------------
(* The invariant, and what follows from it *)

LEMMA StepInv ==
    ASSUME IInv, [Next]_vars
    PROVE  IInv' /\ (Reboot \/ Keeps)
  <1>1. CASE Discover
    BY <1>1, ProbeAtaKeeps, ProbeAtaMbrKeeps, SelectUsbKeeps, GateKeeps, OpenStoreKeeps
       DEF Discover, Keeps, IInv, UsbStep
  <1>2. CASE Pipeline
    BY <1>2, PipelineKeeps DEF Keeps, IInv, UsbStep
  <1>3. CASE Keys
    BY <1>3, KeysKeep, WriteTestKeeps DEF Keys, Keeps, IInv, UsbStep
  <1>4. CASE install_to_usb
    BY <1>4, OfferKeeps, CheckSizeKeeps, RefuseKeeps, CopyChunkKeeps, FormatKeeps, VerifyKeeps, DismissKeeps
       DEF install_to_usb, Keeps, IInv, UsbStep
  <1>5. CASE DriveReady \/ UNCHANGED vars
    BY <1>5, DriveReadyKeeps DEF Keeps, IInv, UsbStep
  <1>6. CASE Hands
    BY <1>6, HandsKeeps DEF Keeps, IInv, UsbStep
  <1>7. CASE Reboot
    BY <1>7, RebootKeeps
  <1>8. QED
    BY <1>1, <1>2, <1>3, <1>4, <1>5, <1>6, <1>7 DEF Next

\* The invariant holds whatever is plugged, pulled, interrupted or fails.
THEOREM DisksInvariant == Spec => []IInv
  <1>1. IInv /\ [Next]_vars => IInv'
    BY StepInv
  <1>2. QED
    BY <1>1, InitPowersOn, PowerOnState, PTL DEF Spec

\* Every variable keeps its type: the main thread never gets to a place that
\* the program does not have, and no more slots are used than there are.
THEOREM DisksTypeOK == Spec => []TypeOK
  <1>1. IInv => TypeOK
    <2> SUFFICES ASSUME IInv PROVE TypeOK
      OBVIOUS
    <2>1. DiskType /\ ThreadType /\ UsbType
      BY DEF IInv, Thread, Usb
    <2>2. /\ hc.up \in BOOLEAN
          /\ hc.reports \subseteq [slot : Slot, port : Port]
          /\ hc.addressed \subseteq [slot : Slot, port : Port, stage : Stage]
          /\ \A m \in hc.msc : /\ m.slot \in Slot /\ m.inquiry \in BOOLEAN /\ m.size \in Nat
                               /\ m.first \in Mbr \cup {Blank, Unreadable}
      BY <2>1 DEF UsbType, Probed
    <2>3. pc \in {"ata", "ata_mbr", "select", "gate", "open_store", "fatal", "idle", "offer", "size",
                  "refuse", "copy", "verify", "result"} \cup {Steps[i] : i \in DOMAIN Steps}
      <3>1. StepName \subseteq {Steps[i] : i \in DOMAIN Steps}
        BY StepsAre
      <3>2. QED
        BY <2>1, <3>1 DEF ThreadType, Install
    <2>4. QED
      BY <2>1, <2>2, <2>3 DEF TypeOK, DiskType, ThreadType, UsbType
  <1>2. QED
    BY <1>1, DisksInvariant, PTL

\* xhci.rs:2923: a pass that no fault and no hand disturbs shows every stick,
\* with its first sector, for any number of ports, slots and earlier passes.
THEOREM UndisturbedPassFindsSticks == Spec => []PassFindsSticks
  <1>1. IInv => PassFindsSticks
    <2> SUFFICES ASSUME IInv, clean, pc \in {"select", "offer"}, NEW p \in Port, port[p].stick # NoDisk
                 PROVE  Found(p)
      BY DEF PassFindsSticks, Found
    <2>1. after # "key"
      BY DEF IInv, Thread, FlowInv
    <2>2. QED
      BY <2>1 DEF IInv, PassInv, Plugged
  <1>2. QED
    BY <1>1, DisksInvariant, PTL

\* install.rs: a report "OK" on a system that runs from the IDE disk means that
\* the stick boots under a GUID of its own, whatever failed before.
THEOREM ReportedInstallBoots == Spec => []InstalledBoots
  <1>1. IInv => InstalledBoots
    <2> SUFFICES ASSUME IInv, pc = "result", inst.ok, mount.bus = "ata", Device(inst.slot) # NoDisk, NEW d, d = Device(inst.slot)
                 PROVE  /\ Bootable(d)
                        /\ disk[d].mbr = [img |-> disk[boot.disk].mbr.img, guid |-> inst.guid]
                        /\ disk[d].vol = boot.base
                        /\ \A e \in DOMAIN disk \ {d} : ~SameGuid(disk[e].mbr, inst.guid)
      BY DEF InstalledBoots
    <2>1. CopiedTo(d, boot.base) /\ disk[d].vol = boot.base
      BY DEF IInv, Identity, InstallInv
    <2>2. /\ boot.disk = Master /\ Bootable(Master)
          /\ boot.base = Base[disk[Master].mbr.img]
      BY DEF IInv, Identity, BootInv
    <2>3. disk[d].mbr = [img |-> disk[Master].mbr.img, guid |-> inst.guid]
      BY <2>1 DEF CopiedTo
    <2>4. disk[d].mbr.img = disk[Master].mbr.img /\ disk[d].mbr.guid = inst.guid
      BY <2>3
    <2>5. inst.guid \in Guid /\ boot.base \in Lba /\ boot.base \in Nat
      BY Lbas DEF IInv, Thread, ThreadType
    <2>6. disk[d].mbr # Blank
      BY <2>4, <2>5, DisksAssumption DEF Blank
    <2>7. Bootable(d)
      <3>1. ASSUME NEW k \in 0..(Base[disk[Master].mbr.img] - 1)
            PROVE  disk[d].pre[k] = <<disk[Master].mbr.img, k>>
        <4>1. k \in Nat /\ k < boot.base
          BY <2>2, <2>5
        <4>2. k \in Lba
          BY <2>5, <4>1, Lbas
        <4>3. disk[d].pre[k] = disk[Master].pre[k]
          BY <2>1, <4>1, <4>2 DEF CopiedTo
        <4>4. disk[Master].pre[k] = <<disk[Master].mbr.img, k>>
          BY <2>2 DEF Bootable
        <4>5. QED
          BY <4>3, <4>4
      <3>2. QED
        BY <2>4, <2>6, <3>1 DEF Bootable
    <2>8. ASSUME NEW e \in DOMAIN disk \ {d}, SameGuid(disk[e].mbr, inst.guid) PROVE FALSE
      <3>1. disk[e].mbr.guid = inst.guid
        BY <2>8, SameGuidSame
      <3>2. d \in DOMAIN disk
        BY DeviceIsStick DEF IInv
      <3>3. QED
        BY <2>4, <2>6, <2>8, <3>1, <3>2 DEF IInv, Identity, UniqueGuids
    <2>9. QED
      BY <2>1, <2>2, <2>3, <2>7, <2>8
  <1>2. QED
    BY <1>1, DisksInvariant, PTL

\* README.md:25: however many calls fail, what answers the mounted store is the
\* disk that the firmware booted; it is the store's disk by its place on the bus,
\* whatever its sectors have become.
MountedIsBooted == mount.bus # "none" /\ Disk(mount) # NoDisk => Disk(mount) = boot.disk

THEOREM MountIsBootedDisk == Spec => []MountedIsBooted
  <1>1. IInv => MountedIsBooted
    <2> SUFFICES ASSUME IInv, mount.bus # "none", Disk(mount) # NoDisk PROVE Disk(mount) = boot.disk
      BY DEF MountedIsBooted
    <2>1. mount.bus \in {"ata", "usb"}
      BY DEF IInv, Thread, ThreadType
    <2>2. QED
      BY <2>1 DEF IInv, Identity, BootInv, Disk
  <1>2. QED
    BY <1>1, DisksInvariant, PTL

-----------------------------------------------------------------------------
(* Until a second call fails, no installation goes to the boot disk *)

\* The boot disk keeps its identity; who takes it for a target has already met
\* the one failing call, so that refuse_if_same_disk reads its sector 0.
KeepInv ==
    /\ SameGuid(disk[boot.disk].mbr, boot.guid)
    /\ \A m \in hc.msc : IsDrive(m) /\ Device(m.slot) = boot.disk /\ ~SameGuid(m.first, boot.guid) => faults >= 1
    /\ pc \in {"size", "refuse"} /\ Device(inst.slot) = boot.disk => faults >= 1
    /\ pc \in {"copy", "verify"} => Device(inst.slot) # boot.disk

\* The target is the one it was, or one that the picker showed.
SameTarget ==
    /\ pc' \in {"size", "refuse"} =>
         \/ pc \in {"size", "refuse"} /\ inst'.slot = inst.slot
         \/ \E m \in Candidates : inst'.slot = m.slot
    /\ pc' \in {"copy", "verify"} =>
         /\ inst'.slot = inst.slot
         /\ pc \in {"copy", "verify"} \/ (pc = "refuse" /\ Device(inst.slot) # boot.disk)

LEMMA BootDiskIsDisk ==
    ASSUME IInv
    PROVE  boot.disk \in DOMAIN disk /\ boot.disk # NoDisk
  BY DisksAssumption DEF IInv, Thread, ThreadType, DiskType

\* A probe that does not show the boot disk's GUID is due to a failing call.
LEMMA ProbesShowBootDisk ==
    ASSUME IInv, KeepInv, UsbStep,
           NEW m \in hc'.msc, IsDrive(m), Device(m.slot)' = boot.disk, ~SameGuid(m.first, boot.guid)
    PROVE  faults' >= 1
  <1>1. boot.disk # NoDisk /\ faults \in Nat /\ faults' \in Nat /\ faults <= faults'
    BY BootDiskIsDisk, DisksAssumption DEF IInv, Usb, UsbType, UsbStep
  <1>2. PICK s : s = m.slot
    OBVIOUS
  <1>3. m \in hc.msc \/ ProbedNow(m)
    BY DEF UsbStep
  <1>4. s \in Slots
    BY <1>2, <1>3 DEF IInv, Identity, SlotInv, ProbedNow
  <1>5. Device(s)' = boot.disk
    BY <1>2
  <1>6. Device(s) = boot.disk
    BY <1>1, <1>4, <1>5 DEF UsbStep, Steady
  <1>7. Device(m.slot) = boot.disk
    BY <1>2, <1>6
  <1>8. CASE m \in hc.msc
    BY <1>1, <1>7, <1>8 DEF KeepInv
  <1>9. CASE ProbedNow(m)
    <2>1. m.first # disk[boot.disk].mbr
      BY DEF KeepInv
    <2>2. faults < faults'
      BY <1>7, <1>9, <2>1 DEF ProbedNow
    <2>3. QED
      BY <1>1, <2>2
  <1>10. QED
    BY <1>3, <1>8, <1>9

LEMMA KeepStep ==
    ASSUME IInv, KeepInv, UsbStep, SameTarget, UNCHANGED boot,
           disk'[boot.disk].mbr = disk[boot.disk].mbr
    PROVE  KeepInv'
  <1>1. boot.disk # NoDisk /\ faults \in Nat /\ faults' \in Nat /\ faults <= faults' /\ boot' = boot
    BY BootDiskIsDisk, DisksAssumption DEF IInv, Usb, UsbType, UsbStep
  <1>2. SameGuid(disk[boot.disk].mbr, boot.guid)'
    <2>1. disk'[boot'.disk].mbr = disk[boot.disk].mbr
      BY <1>1
    <2>2. QED
      BY <1>1, <2>1 DEF KeepInv, SameGuid, Mbr
  <1>3. (\A m \in hc.msc : IsDrive(m) /\ Device(m.slot) = boot.disk /\ ~SameGuid(m.first, boot.guid) => faults >= 1)'
    <2>1. \A m \in hc'.msc : IsDrive(m) /\ Device(m.slot)' = boot.disk /\ ~SameGuid(m.first, boot.guid) => faults' >= 1
      BY ProbesShowBootDisk
    <2>2. QED
      BY <1>1, <2>1 DEF IsDrive, SameGuid, Mbr
  <1>4. PICK s : s = inst'.slot
    OBVIOUS
  <1>5. Device(inst.slot)' = Device(s)'
    BY <1>4 DEF Device
  <1>6. s \in Slots /\ Device(s)' = boot.disk => Device(s) = boot.disk
    BY <1>1 DEF UsbStep, Steady
  <1>7. ASSUME pc' \in {"size", "refuse"}, Device(inst.slot)' = boot.disk PROVE faults' >= 1
    <2>1. CASE pc \in {"size", "refuse"} /\ inst'.slot = inst.slot
      <3>1. s \in Slots
        BY <1>4, <2>1 DEF IInv, Identity, SlotInv, Install
      <3>2. Device(inst.slot) = boot.disk
        BY <1>4, <1>5, <1>6, <1>7, <2>1, <3>1
      <3>3. QED
        BY <1>1, <2>1, <3>2 DEF KeepInv
    <2>2. CASE \E m \in Candidates : inst'.slot = m.slot
      <3>1. PICK m \in Candidates : s = m.slot
        BY <1>4, <2>2
      <3>2. m \in hc.msc /\ IsDrive(m) /\ ~SameGuid(m.first, boot.guid)
        BY DEF Candidates, Drives
      <3>3. s \in Slots
        BY <3>1, <3>2 DEF IInv, Identity, SlotInv
      <3>4. Device(m.slot) = boot.disk
        BY <1>5, <1>6, <1>7, <3>1, <3>3
      <3>5. QED
        BY <1>1, <3>2, <3>4 DEF KeepInv
    <2>3. QED
      BY <1>7, <2>1, <2>2 DEF SameTarget
  <1>8. ASSUME pc' \in {"copy", "verify"}, Device(inst.slot)' = boot.disk PROVE FALSE
    <2>1. s = inst.slot /\ pc \in Install
      BY <1>4, <1>8 DEF SameTarget, Install
    <2>2. s \in Slots
      BY <2>1 DEF IInv, Identity, SlotInv
    <2>3. Device(inst.slot) = boot.disk
      BY <1>5, <1>6, <1>8, <2>1, <2>2
    <2>4. QED
      BY <1>8, <2>3 DEF SameTarget, KeepInv
  <1>9. QED
    BY <1>1, <1>2, <1>3, <1>7, <1>8 DEF KeepInv

\* Steps outside the installer.
LEMMA KeepElsewhere ==
    ASSUME IInv, KeepInv, Keeps, UNCHANGED boot, SameDisks,
           pc' \in {"size", "refuse", "copy", "verify"} => UNCHANGED <<pc, inst>>
    PROVE  KeepInv'
  <1>1. disk'[boot.disk].mbr = disk[boot.disk].mbr
    BY BootDiskIsDisk DEF SameDisks
  <1>2. SameTarget
    BY DEF SameTarget
  <1>3. QED
    BY <1>1, <1>2, KeepStep DEF Keeps

\* Steps outside the installer do not enter it.
LEMMA ElsewhereFrame ==
    ASSUME IInv, Discover \/ Pipeline \/ Keys \/ DriveReady \/ Hands \/ UNCHANGED vars
    PROVE  /\ UNCHANGED boot /\ SameDisks
           /\ pc' \in {"size", "refuse", "copy", "verify"} => UNCHANGED <<pc, inst>>
  <1>1. CASE Discover
    BY <1>1 DEF Discover, ProbeAta, ProbeAtaMbr, SelectUsb, Gate, OpenStore, ToUsb, usbVars, SameDisks
  <1>2. CASE Pipeline
    <2>1. UNCHANGED <<boot, inst>> /\ \E step \in StepName : Step(step)
      BY <1>2 DEF Pipeline, Step, StepName
    <2>2. UNCHANGED disk
      BY <1>2 DEF Pipeline, BringUp, ScanPorts, Address, Fetch, Configure, ProbeDrives, Skip, bring_up,
                  reset_and_enable_slots, address_enabled_slots, fetch_configurations, configure_endpoints,
                  Advance, probe_mass_storage
    <2>3. pc' \notin Install
      <3>1. PICK step \in StepName : pc' = Follow(step)
        BY <2>1 DEF Step
      <3>2. after \in {"select", "mouse", "offer", "drives", "key"}
        BY DEF IInv, Thread, ThreadType
      <3>3. QED
        BY <3>1, <3>2, FollowIs DEF Install, StepName
    <2>4. QED
      BY <2>1, <2>2, <2>3 DEF SameDisks, Install
  <1>3. CASE XhciKey \/ CreateOsKey \/ DrivesKey
    <2>1. UNCHANGED <<disk, boot>>
      BY <1>3 DEF XhciKey, CreateOsKey, DrivesKey, Begin, usbVars
    <2>2. pc' \in StepName
      BY <1>3, StepsAre DEF XhciKey, CreateOsKey, DrivesKey, Begin, StepName
    <2>3. QED
      BY <2>1, <2>2 DEF SameDisks, StepName
  <1>4. CASE WriteTestKey
    BY <1>4, WriteTestKeeps DEF WriteTestKey
  <1>5. CASE DriveReady \/ Hands \/ UNCHANGED vars
    BY <1>5 DEF DriveReady, Hands, usbVars, vars, SameDisks
  <1>6. QED
    BY <1>1, <1>2, <1>3, <1>4, <1>5 DEF Keys

\* The second read of a target's sector 0 can no longer fail: the boot disk is refused.
LEMMA RefuseKeepsBootDisk ==
    ASSUME faults' <= 1, IInv, KeepInv, Refuse
    PROVE  SameTarget
  <1>1. pc = "refuse" /\ inst' = inst
    BY DEF Refuse
  <1>2. PICK r \in UsbAnswers(inst.slot) :
          Failing(r.n) /\ pc' = IF refuse_if_same_disk(r.data) THEN "result" ELSE "copy"
    BY DEF Refuse
  <1>3. ASSUME Device(inst.slot) = boot.disk PROVE pc' = "result"
    <2>1. faults >= 1 /\ faults \in Nat
      BY <1>1, <1>3, DisksAssumption DEF KeepInv, IInv, Usb, UsbType
    <2>2. r.n \in {0, 1} /\ faults' = faults + r.n
      BY <1>2, UsbAnswer DEF Failing
    <2>3. r.n = 0
      BY <2>1, <2>2
    <2>4. r.data = disk[boot.disk].mbr
      BY <1>3, <2>3, BootDiskIsDisk DEF UsbAnswers
    <2>5. refuse_if_same_disk(r.data)
      BY <2>4 DEF KeepInv, refuse_if_same_disk
    <2>6. QED
      BY <1>2, <2>5
  <1>4. pc' \in {"result", "copy"}
    BY <1>2
  <1>5. QED
    BY <1>1, <1>3, <1>4 DEF SameTarget

\* The installer writes to its target only.
LEMMA WritesTarget ==
    ASSUME CopyChunk \/ Format, NEW e \in DOMAIN disk, e # Device(inst.slot)
    PROVE  disk'[e] = disk[e]
  <1>1. PICK d : d = Device(inst.slot)
    OBVIOUS
  <1>2. CASE CopyChunk
    <2> DEFINE put(r) == [disk EXCEPT ![d] = Copied(disk[d], inst.lba, r)]
    <2>1. PICK r : disk' \in {disk, put(r), [put(r) EXCEPT ![d].pre[inst.lba] = Other]}
      BY <1>1, <1>2 DEF CopyChunk
    <2>2. PICK f : disk' = [disk EXCEPT ![d] = f] \/ disk' = disk
      <3> DEFINE c == Copied(disk[d], inst.lba, r)
      <3> HIDE DEF c
      <3>1. put(r) = [disk EXCEPT ![d] = c]
        BY DEF c
      <3>2. [put(r) EXCEPT ![d].pre[inst.lba] = Other] = [disk EXCEPT ![d] = [put(r)[d] EXCEPT !.pre[inst.lba] = Other]]
        BY <3>1
      <3>3. QED
        BY <2>1, <3>1, <3>2
    <2>3. QED
      BY <1>1, <2>2
  <1>3. CASE Format
    <2>1. disk' = disk \/ \E v : disk' = [disk EXCEPT ![d].vol = v]
      BY <1>1, <1>3 DEF Format
    <2>2. QED
      BY <1>1, <2>1
  <1>4. QED
    BY <1>2, <1>3

LEMMA InstallerKeeps ==
    ASSUME faults' <= 1, IInv, KeepInv, install_to_usb, Keeps
    PROVE  KeepInv'
  <1>1. UNCHANGED boot
    BY DEF install_to_usb, Offer, CheckSize, Refuse, CopyChunk, Format, Verify, Dismiss
  <1>2. CASE Offer
    <2>1. disk' = disk
      BY <1>2 DEF Offer, usbVars
    <2>2. SameTarget
      <3>1. CASE pc' = "idle"
        BY <3>1 DEF SameTarget
      <3>2. CASE \E m \in Candidates : \E g : inst' = [slot |-> m.slot, lba |-> 0, guid |-> g, ok |-> FALSE] /\ pc' = "size"
        BY <3>2 DEF SameTarget
      <3>3. QED
        BY <1>2, <3>1, <3>2 DEF Offer
    <2>3. QED
      BY <1>1, <2>1, <2>2, KeepStep DEF Keeps
  <1>3. CASE CheckSize
    <2>1. disk' = disk /\ SameTarget
      BY <1>3 DEF CheckSize, usbVars, SameTarget
    <2>2. QED
      BY <1>1, <2>1, KeepStep DEF Keeps
  <1>4. CASE Refuse
    <2>1. disk' = disk /\ SameTarget
      BY <1>4, RefuseKeepsBootDisk DEF Refuse
    <2>2. QED
      BY <1>1, <2>1, KeepStep DEF Keeps
  <1>5. CASE CopyChunk \/ Format
    <2>1. pc = "copy"
      BY <1>5 DEF CopyChunk, Format
    <2>2. disk'[boot.disk] = disk[boot.disk]
      BY <1>5, <2>1, BootDiskIsDisk, WritesTarget DEF KeepInv
    <2>3. pc' \in {"copy", "verify", "result"} /\ inst'.slot = inst.slot
      <3>1. inst \in [slot : 0..MaxSlots, lba : Lba, guid : Guid, ok : BOOLEAN]
        BY DEF IInv, Thread, ThreadType
      <3>2. CASE CopyChunk
        <4>1. pc' \in {"copy", "result"} /\ (inst' = inst \/ inst' = [inst EXCEPT !.lba = @ + 1])
          BY <2>1, <3>2 DEF CopyChunk
        <4>2. QED
          BY <3>1, <4>1
      <3>3. CASE Format
        BY <3>3 DEF Format
      <3>4. QED
        BY <1>5, <3>2, <3>3
    <2>4. SameTarget
      BY <2>1, <2>3 DEF SameTarget
    <2>5. QED
      BY <1>1, <2>2, <2>4, KeepStep DEF Keeps
  <1>6. CASE Verify \/ Dismiss
    <2>1. disk' = disk /\ SameTarget
      BY <1>6 DEF Verify, Dismiss, usbVars, SameTarget
    <2>2. QED
      BY <1>1, <2>1, KeepStep DEF Keeps
  <1>7. QED
    BY <1>2, <1>3, <1>4, <1>5, <1>6 DEF install_to_usb

\* Power on: the disk that the firmware starts has the GUID that it hands over.
LEMMA PoweredOnKeep == PoweredOn => KeepInv
  <1> SUFFICES ASSUME PoweredOn PROVE KeepInv
    OBVIOUS
  <1>1. PICK d \in DOMAIN disk :
          /\ Bootable(d)
          /\ boot = [disk |-> d, guid |-> disk[d].mbr.guid, base |-> Base[disk[d].mbr.img]]
    BY DEF PoweredOn
  <1>2. disk[d].mbr \in Mbr
    BY <1>1 DEF PoweredOn, DiskType, Content, Bootable
  <1>3. boot.disk = d /\ boot.guid = disk[d].mbr.guid
    BY <1>1
  <1>4. SameGuid(disk[boot.disk].mbr, boot.guid)
    BY <1>2, <1>3, SameGuidSame
  <1>5. QED
    BY <1>4 DEF PoweredOn, KeepInv

\* README.md:25: until a second call fails, the mounted store's disk is the
\* booted one and still carries the captured GUID, whatever is installed, pulled
\* out and plugged in; the second failing call is what lets the installer write
\* over it (refuse_if_same_disk passes a target that it cannot read).
THEOREM StoreStaysOnBootedDisk == Spec => [](faults <= 1 => StoreOnBootedDisk)
  <1>1. Init => KeepInv
    BY InitPowersOn, PoweredOnKeep
  <1>2. IInv /\ (faults <= 1 => KeepInv) /\ [Next]_vars => (faults <= 1 => KeepInv)'
    <2> SUFFICES ASSUME IInv, faults <= 1 => KeepInv, [Next]_vars, faults' <= 1 PROVE KeepInv'
      OBVIOUS
    <2>1. Reboot \/ Keeps
      BY StepInv
    <2>2. Keeps => KeepInv
      <3>1. faults \in Nat
        BY DisksAssumption DEF IInv, Usb, UsbType
      <3>2. Keeps => faults' \in Nat /\ faults <= faults'
        BY DEF Keeps, UsbStep
      <3>3. QED
        BY <3>1, <3>2
    <2>3. CASE Reboot
      <3>1. PoweredOn'
        BY <2>3, RebootPowersOn
      <3>2. PoweredOn' => KeepInv'
        BY PoweredOnKeep, PTL
      <3>3. QED
        BY <3>1, <3>2
    <2>4. CASE Keeps /\ install_to_usb
      BY <2>2, <2>4, InstallerKeeps
    <2>5. CASE Keeps /\ (Discover \/ Pipeline \/ Keys \/ DriveReady \/ Hands \/ UNCHANGED vars)
      BY <2>2, <2>5, ElsewhereFrame, KeepElsewhere
    <2>6. QED
      BY <2>1, <2>3, <2>4, <2>5 DEF Next
  <1>3. KeepInv /\ MountedIsBooted => StoreOnBootedDisk
    BY DEF KeepInv, MountedIsBooted, StoreOnBootedDisk, Mounted
  <1>4. QED
    BY <1>1, <1>2, <1>3, DisksInvariant, MountIsBootedDisk, PTL DEF Spec
=============================================================================
