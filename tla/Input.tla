-------------------------------- MODULE Input --------------------------------
(***************************************************************************)
(* Keyboard and pointer input: the interrupt handlers of                   *)
(* kernel/src/interrupts.rs and ps2.rs, the cooperatively polled USB mouse *)
(* (pump_mouse of usb/xhci.rs) and the loop of ui::run that consumes the   *)
(* events, on one core.                                                    *)
(*                                                                         *)
(* An interrupt handler runs to completion with interrupts off.  The main  *)
(* thread takes the handlers' spinlocks inside no_irq, and the heap lock   *)
(* with interrupts on; taking a lock and giving it back are steps of their *)
(* own, so that an interrupt can come in between.  A handler that finds a  *)
(* lock held spins for ever: `hung`.                                       *)
(*                                                                         *)
(* Bytes are numbers, since a byte of a mouse packet that is read out of   *)
(* step is taken for another one; a character is named by its scan code    *)
(* and the shift state.  The caret blink, which reads the tick counter     *)
(* under the same discipline as poll, is left out.                         *)
(***************************************************************************)
EXTENDS EventRing, Integers, FiniteSets, SequencesExt

CONSTANTS
    KeyStroke,    \* the byte sequences the keyboard sends for one stroke
    CharCode,     \* make codes that scancode_char knows
    Packet,       \* the packets the PS/2 mouse sends
    UsbReport,    \* the reports the USB mouse sends: [dx, dy, left, right]
    MaxX, MaxY,   \* MouseState.max_x, max_y
    MaxInput,     \* bound: key strokes, packets and USB reports in a behaviour
    MaxLost       \* bound: PS/2 bytes lost on the way

VARIABLES
    ring,      \* QUEUE
    kbd,       \* KBD
    mouse,     \* MOUSE
    main,      \* the main thread: where it stands, what it holds
    hung,      \* a handler spins on a lock of the thread it interrupted
    wire,      \* the devices: bytes under way, USB report ready
    seen       \* history: what the devices sent and the handlers made of it

vars == <<ring, kbd, mouse, main, hung, wire, seen>>

\* Where the main thread stands in the loop of ui::run.
Place == {"pump", "feed", "drain", "polling", "handle", "handling", "drained", "painting",
          "hlt"}

Lock == {"QUEUE", "KBD", "MOUSE", "TICKS", "PICS", "HEAP"}

\* The keys that the keyboard produces after an 0xE0 prefix and without.
ExtKey == [m \in {72, 80, 75, 77, 71, 79, 83, 73, 81} |-> <<"ext", m>>]
PlainKey == [m \in {28, 1, 14, 15} |-> <<"plain", m>>]

\* Key and Event of ps2.rs; a character is a scan code and the shift state.
Key ==
    {ExtKey[m] : m \in DOMAIN ExtKey} \cup {PlainKey[m] : m \in DOMAIN PlainKey} \cup
    {<<"char", c, shift>> : c \in CharCode, shift \in BOOLEAN}

InputEvent ==
    {<<"key", k>> : k \in Key} \cup {<<"right">>} \cup
    {<<"move", x, y>> : x \in 0..MaxX, y \in 0..MaxY} \cup
    {<<"click", x, y>> : x \in 0..MaxX, y \in 0..MaxY}

Bit(b, k) == (b \div 2 ^ k) % 2 = 1

\* One stroke: a byte, or a byte after the prefix 0xE0; no fake shifts.
IsStroke(s) ==
    \E c \in 0..255 \ {224} : s = <<c>> \/ (s = <<224, c>> /\ c % 128 \notin {42, 54})

\* scancode_char knows neither Shift nor the plain keys; bit 3 marks the first byte of a packet.
ASSUME InputAssumption ==
    /\ Event = InputEvent
    /\ MaxX \in Nat /\ MaxY \in Nat /\ MaxInput \in Nat /\ MaxLost \in Nat
    /\ \A s \in KeyStroke : IsStroke(s)
    /\ CharCode \subseteq 0..127 \ ({42, 54} \cup DOMAIN PlainKey)
    /\ \A p \in Packet : p \in Seq(0..255) /\ Len(p) = 3 /\ Bit(p[1], 3)
    /\ UsbReport \subseteq [dx : Int, dy : Int, left : BOOLEAN, right : BOOLEAN]

\* Mutant of Clamp: no lower bound.
ClampLow(v, max) == IF v > max THEN max ELSE v

Clamp(v, max) == IF v < 0 THEN 0 ELSE IF v > max THEN max ELSE v
-----------------------------------------------------------------------------
(* What the handlers do to the shared state *)

\* A key press queues an event.
PushKey(key) ==
    /\ ring' = push(ring, <<"key", key>>)
    /\ seen' = [seen EXCEPT !.keys = Append(@, key)]

\* Mutant of on_keyboard_byte: the prefix sticks until the next one.
on_keyboard_byteSticky(code) ==
    LET released == code >= 128
        make == code % 128
    IN  /\ kbd' = [shift |-> IF code # 224 /\ make \in {42, 54} THEN ~released ELSE kbd.shift,
                   extended |-> kbd.extended \/ code = 224]
        /\ UNCHANGED mouse
        /\ IF code = 224 \/ released \/ make \in {42, 54} THEN UNCHANGED <<ring, seen>>
           ELSE IF kbd.extended /\ make \in DOMAIN ExtKey THEN PushKey(ExtKey[make])
           ELSE IF ~kbd.extended /\ make \in CharCode THEN PushKey(<<"char", make, kbd.shift>>)
           ELSE UNCHANGED <<ring, seen>>

\* on_keyboard_byte
on_keyboard_byte(code) ==
    LET released == code >= 128
        make == code % 128
        ext == kbd.extended
    IN  /\ kbd' = [shift |-> IF code # 224 /\ make \in {42, 54} THEN ~released ELSE kbd.shift,
                   extended |-> code = 224]
        /\ UNCHANGED mouse
        /\ IF code = 224 \/ released \/ make \in {42, 54} THEN UNCHANGED <<ring, seen>>
           ELSE IF ext /\ make \in DOMAIN ExtKey THEN PushKey(ExtKey[make])
           ELSE IF ~ext /\ make \in DOMAIN PlainKey THEN PushKey(PlainKey[make])
           ELSE IF ~ext /\ make \in CharCode THEN PushKey(<<"char", make, kbd.shift>>)
           ELSE UNCHANGED <<ring, seen>>

\* apply_motion, on the mouse state m; `at` is the source of the report.
apply_motion(m, dx, dy, left, right, at) ==
    LET x == Clamp(m.x + dx, MaxX)
        y == Clamp(m.y + dy, MaxY)
        moved == push(ring, <<"move", x, y>>)
        clicked == IF left /\ ~m.left THEN push(moved, <<"click", x, y>>) ELSE moved
    IN  /\ mouse' = [m EXCEPT !.x = x, !.y = y, !.left = left, !.right = right]
        /\ ring' = IF right /\ ~m.right THEN push(clicked, <<"right">>) ELSE clicked
        /\ seen' = [seen EXCEPT !.clicks = IF left /\ ~m.left THEN @ + 1 ELSE @,
                                !.crossed = @ \/ seen.held \ {at} # {},
                                !.held = IF left THEN @ \cup {at} ELSE @ \ {at}]

\* Mutant of on_mouse_byte: no resynchronisation.
on_mouse_byteBlind(byte) ==
    LET packet == [mouse.packet EXCEPT ![mouse.idx + 1] = byte]
        m == [mouse EXCEPT !.packet = packet, !.idx = (@ + 1) % 3]
    IN  /\ UNCHANGED kbd
        /\ IF mouse.idx < 2
           THEN mouse' = m /\ UNCHANGED <<ring, seen>>
           ELSE apply_motion(m, packet[2] - (IF Bit(packet[1], 4) THEN 256 ELSE 0),
                             -packet[3] + (IF Bit(packet[1], 5) THEN 256 ELSE 0),
                             Bit(packet[1], 0), Bit(packet[1], 1), "ps2")

\* on_mouse_byte: the first byte of a packet has bit 3 set; the two overflow
\* bits void the displacement.
on_mouse_byte(byte) ==
    LET packet == [mouse.packet EXCEPT ![mouse.idx + 1] = byte]
        m == [mouse EXCEPT !.packet = packet, !.idx = (@ + 1) % 3]
        flags == packet[1]
        void == Bit(flags, 6) \/ Bit(flags, 7)
        dx == packet[2] - (IF Bit(flags, 4) THEN 256 ELSE 0)
        dy == packet[3] - (IF Bit(flags, 5) THEN 256 ELSE 0)
    IN  /\ UNCHANGED kbd
        /\ IF mouse.idx = 0 /\ ~Bit(byte, 3) THEN UNCHANGED <<ring, mouse, seen>>
           ELSE IF mouse.idx < 2 THEN mouse' = m /\ UNCHANGED <<ring, seen>>
           ELSE apply_motion(m, IF void THEN 0 ELSE dx, IF void THEN 0 ELSE -dy,
                             Bit(flags, 0), Bit(flags, 1), "ps2")
-----------------------------------------------------------------------------
(* The devices (external): strokes, packets and reports leave them in any    *)
(* order; a PS/2 byte may get lost.                                          *)

Budget == seen.input < MaxInput

\* The key that a stroke means when Shift is (not) held.
Meaning(stroke, shift) ==
    CASE stroke[1] = 224 -> IF stroke[2] \in DOMAIN ExtKey THEN <<ExtKey[stroke[2]]>> ELSE <<>>
      [] stroke[1] \in DOMAIN PlainKey -> <<PlainKey[stroke[1]]>>
      [] stroke[1] \in CharCode -> <<<<"char", stroke[1], shift>>>>
      [] OTHER -> <<>>

KeyPressed ==
    /\ Budget
    /\ wire.kbd = <<>>
    /\ \E s \in KeyStroke :
         /\ wire' = [wire EXCEPT !.kbd = s,
                                 !.shift = IF s[1] % 128 \in {42, 54} THEN s[1] < 128 ELSE @]
         /\ seen' = [seen EXCEPT !.typed = @ \o Meaning(s, wire.shift), !.input = @ + 1]
    /\ UNCHANGED <<ring, kbd, mouse, main, hung>>

PacketSent ==
    /\ Budget
    /\ wire.mouse = <<>>
    /\ \E p \in Packet :
         /\ wire' = [wire EXCEPT !.mouse = p, !.left = Bit(p[1], 0)]
         /\ seen' = [seen EXCEPT !.presses = IF Bit(p[1], 0) /\ ~wire.left THEN @ + 1 ELSE @,
                                 !.noisy = @ \/ Bit(p[2], 3) \/ Bit(p[3], 3),
                                 !.input = @ + 1]
    /\ UNCHANGED <<ring, kbd, mouse, main, hung>>

ByteLost ==
    /\ seen.lost < MaxLost
    /\ \/ wire.mouse # <<>> /\ wire' = [wire EXCEPT !.mouse = Tail(@)]
       \/ wire.kbd # <<>> /\ wire' = [wire EXCEPT !.kbd = Tail(@)]
    /\ seen' = [seen EXCEPT !.lost = @ + 1]
    /\ UNCHANGED <<ring, kbd, mouse, main, hung>>

\* service_mouse has accumulated a report.
ReportArrived ==
    /\ main.usb_mouse
    /\ Budget
    /\ wire.usb = <<>>
    /\ \E r \in UsbReport :
         /\ wire' = [wire EXCEPT !.usb = <<r>>, !.usbLeft = r.left]
         /\ seen' = [seen EXCEPT !.presses = IF r.left /\ ~wire.usbLeft THEN @ + 1 ELSE @,
                                 !.input = @ + 1]
    /\ UNCHANGED <<ring, kbd, mouse, main, hung>>
-----------------------------------------------------------------------------
(* Interrupts *)

\* The handler gets its locks, or spins on one of the interrupted thread's.
Interrupt(locks, Handler) ==
    /\ ~hung
    /\ main.irq
    /\ main' = [main EXCEPT !.pc = IF @ = "hlt" THEN "pump" ELSE @]
    /\ IF main.held \cap locks # {}
       THEN hung' = TRUE /\ UNCHANGED <<ring, kbd, mouse, seen>>
       ELSE UNCHANGED hung /\ Handler

\* Mutant of timer: the timer interrupt stays masked.
timerMasked == FALSE /\ UNCHANGED vars

timer == Interrupt({"TICKS", "PICS"}, UNCHANGED <<ring, kbd, mouse, seen>>) /\ UNCHANGED wire

keyboard ==
    /\ wire.kbd # <<>>
    /\ Interrupt({"KBD", "QUEUE", "PICS"}, on_keyboard_byte(Head(wire.kbd)))
    /\ wire' = [wire EXCEPT !.kbd = Tail(@)]

mouse_irq ==
    /\ wire.mouse # <<>>
    /\ Interrupt({"MOUSE", "QUEUE", "PICS"}, on_mouse_byte(Head(wire.mouse)))
    /\ wire' = [wire EXCEPT !.mouse = Tail(@)]
-----------------------------------------------------------------------------
(* The main thread: the loop of ui::run *)

At(from, to) == ~hung /\ main.pc = from /\ main' = [main EXCEPT !.pc = to]

\* without_interrupts and Mutex::lock on the way in, the reverse on the way
\* out.
Enter(from, to, locks) ==
    /\ ~hung
    /\ main.pc = from
    /\ main' = [main EXCEPT !.pc = to, !.irq = FALSE, !.held = locks]
    /\ UNCHANGED <<ring, kbd, mouse, hung, wire, seen>>

Leave(from, to, repaint) ==
    /\ ~hung
    /\ main.pc = from
    /\ main' = [main EXCEPT !.pc = to, !.irq = TRUE, !.held = {}, !.repaint = repaint]

\* pump_mouse, feed_mouse_delta.
PumpNothing ==
    /\ wire.usb = <<>>
    /\ At("pump", "drain")
    /\ UNCHANGED <<ring, kbd, mouse, hung, wire, seen>>

PumpLock ==
    /\ wire.usb # <<>>
    /\ Enter("pump", "feed", {"MOUSE", "QUEUE"})

FeedDelta ==
    /\ Leave("feed", "drain", main.repaint)
    /\ LET r == wire.usb[1] IN apply_motion(mouse, r.dx, r.dy, r.left, r.right, "usb")
    /\ wire' = [wire EXCEPT !.usb = <<>>]
    /\ UNCHANGED <<kbd, hung>>

\* Mutant of PollLock: the queue is locked with interrupts on.
PollLockUnmasked ==
    /\ ~hung
    /\ main.pc = "drain"
    /\ main' = [main EXCEPT !.pc = "polling", !.held = {"QUEUE"}]
    /\ UNCHANGED <<ring, kbd, mouse, hung, wire, seen>>

\* ps2::poll
PollLock == Enter("drain", "polling", {"QUEUE"})

PollEvent ==
    /\ ring.len > 0
    /\ Leave("polling", "handle", TRUE)
    /\ ring' = pop(ring)
    /\ UNCHANGED <<kbd, mouse, hung, wire, seen>>

PollNone ==
    /\ ring.len = 0
    /\ Leave("polling", "drained", main.repaint)
    /\ UNCHANGED <<ring, kbd, mouse, hung, wire, seen>>

\* on_key, on_click and the like allocate with interrupts on.
Handle ==
    /\ ~hung
    /\ main.pc = "handle"
    /\ main' = [main EXCEPT !.held = {"HEAP"}, !.pc = "handling"]
    /\ UNCHANGED <<ring, kbd, mouse, hung, wire, seen>>

Handled ==
    /\ Leave("handling", "drain", TRUE)
    /\ UNCHANGED <<ring, kbd, mouse, hung, wire, seen>>

\* After the drain: repaint (which reads mouse_pos under the lock), wait for a
\* while when there is a USB mouse to poll, or sleep until an interrupt.
Repaint ==
    /\ main.repaint
    /\ Enter("drained", "painting", {"MOUSE"})

Painted ==
    /\ Leave("painting", "pump", FALSE)
    /\ UNCHANGED <<ring, kbd, mouse, hung, wire, seen>>

Idle ==
    /\ ~main.repaint
    /\ At("drained", IF main.usb_mouse THEN "pump" ELSE "hlt")
    /\ UNCHANGED <<ring, kbd, mouse, hung, wire, seen>>

\* set_bounds and init_mouse have run; the user interface starts.
Init ==
    /\ ring = EmptyRing
    /\ kbd = [shift |-> FALSE, extended |-> FALSE]
    /\ mouse = [packet |-> <<0, 0, 0>>, idx |-> 0, x |-> MaxX \div 2, y |-> MaxY \div 2,
                left |-> FALSE, right |-> FALSE]
    /\ main \in [pc : {"pump"}, irq : {TRUE}, held : {{}}, repaint : {FALSE},
                 usb_mouse : BOOLEAN]
    /\ hung = FALSE
    /\ wire = [kbd |-> <<>>, mouse |-> <<>>, usb |-> <<>>, shift |-> FALSE,
               left |-> FALSE, usbLeft |-> FALSE]
    /\ seen = [input |-> 0, lost |-> 0, typed |-> <<>>, keys |-> <<>>, presses |-> 0,
               clicks |-> 0, held |-> {}, crossed |-> FALSE, noisy |-> FALSE]

Devices == KeyPressed \/ PacketSent \/ ByteLost \/ ReportArrived

Interrupts == timer \/ keyboard \/ mouse_irq

Main ==
    \/ PumpNothing \/ PumpLock \/ FeedDelta
    \/ PollLock \/ PollEvent \/ PollNone
    \/ Handle \/ Handled
    \/ Repaint \/ Painted \/ Idle

Next == Devices \/ Interrupts \/ Main

\* The core runs, the timer ticks, and a pending keyboard or mouse interrupt
\* is delivered when interrupts are on.
Spec == Init /\ [][Next]_vars /\ WF_vars(Main) /\ WF_vars(timer)
             /\ WF_vars(keyboard) /\ WF_vars(mouse_irq)
-----------------------------------------------------------------------------
(* Properties *)

\* The shared state, the main thread and the devices are well typed: the pointer
\* stays on the screen, every key queued is one the keyboard has, and a report
\* is still there when feed_mouse_delta takes it.
TypeOK ==
    /\ ring \in Ring
    /\ kbd \in [shift : BOOLEAN, extended : BOOLEAN]
    /\ mouse \in [packet : [1..3 -> 0..255], idx : 0..2, x : 0..MaxX, y : 0..MaxY,
                  left : BOOLEAN, right : BOOLEAN]
    /\ main \in [pc : Place, irq : BOOLEAN, held : SUBSET Lock, repaint : BOOLEAN,
                 usb_mouse : BOOLEAN]
    /\ hung \in BOOLEAN
    /\ wire \in [kbd : Seq(0..255), mouse : Seq(0..255), usb : Seq(UsbReport),
                 shift : BOOLEAN, left : BOOLEAN, usbLeft : BOOLEAN]
    /\ seen \in [input : Nat, lost : Nat, typed : Seq(Key), keys : Seq(Key), presses : Nat,
                 clicks : Nat, held : SUBSET {"ps2", "usb"}, crossed : BOOLEAN, noisy : BOOLEAN]
    /\ main.pc = "feed" => wire.usb # <<>>

\* ps2.rs:116 "A spinlock taken on the main path while an interrupt fires on
\* the same core would deadlock": no interrupt handler ever finds a lock held
\* by the thread it interrupted, wherever the interrupt comes in.
NoSpinDeadlock == ~hung

\* The ring is a queue, whichever handler fills it and however often its
\* indices have wrapped: a step takes the oldest event out or adds events
\* behind the others.  (When an event is dropped is push's guard alone.)
RingIsQueue ==
    [][\/ ring.len > 0 /\ Queued(ring') = Tail(Queued(ring))
       \/ IsPrefix(Queued(ring), Queued(ring'))]_ring

\* on_keyboard_byte, prefixes and shift: as long as no byte is lost, the keys
\* decoded are the keys typed, in order, whatever interrupts come in between.
KeysAsTyped ==
    seen.lost = 0 => /\ IsPrefix(seen.keys, seen.typed)
                     /\ wire.kbd = <<>> => seen.keys = seen.typed

\* ps2.rs "Left button pressed at this position": there are never more clicks
\* than presses, even when bytes are lost and the packets get out of step,
\* unless a displacement looks like a first byte, or the PS/2 and the USB
\* mouse report while the other one's button is held (they share one edge
\* state).
NoPhantomClick ==
    ~seen.crossed /\ (seen.lost = 0 \/ ~seen.noisy) => seen.clicks <= seen.presses

\* ui::run sleeps in hlt after it found the queue empty, and an event may come
\* in between: every event that is queued still makes the loop take an event
\* out.
EventsHandled == (ring.len > 0) ~> (main.pc = "handle")
=============================================================================
