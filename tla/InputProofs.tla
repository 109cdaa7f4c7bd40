----------------------------- MODULE InputProofs -----------------------------
(***************************************************************************)
(* Proofs about keyboard and pointer input: the event ring, the locks, the *)
(* keyboard decoder and the button edges.                                  *)
(***************************************************************************)
EXTENDS Input, SequenceTheorems, TLAPS

(* The event ring *)

\* An index of the ring that has run past the last slot once at most.
Wrapped(k) == IF k < QUEUE_CAP THEN k ELSE k - QUEUE_CAP

LEMMA WrapsOnce ==
    ASSUME NEW k \in 0..(2 * QUEUE_CAP - 1)
    PROVE  k % QUEUE_CAP = Wrapped(k) /\ Wrapped(k) \in 0..(QUEUE_CAP - 1)
  <1>1. QUEUE_CAP \in Nat /\ QUEUE_CAP > 0
    BY RingAssumption
  <1>2. CASE k < QUEUE_CAP
    BY <1>1, <1>2 DEF Wrapped
  <1>3. CASE k >= QUEUE_CAP
    <2>1. k - QUEUE_CAP \in 0..(QUEUE_CAP - 1)
      BY <1>1, <1>3
    <2>2. (k - QUEUE_CAP) % QUEUE_CAP = k - QUEUE_CAP
      BY <1>1, <2>1
    <2>3. k % QUEUE_CAP = (k - QUEUE_CAP) % QUEUE_CAP
      BY <1>1, <1>3
    <2>4. QED
      BY <1>1, <1>3, <2>1, <2>2, <2>3 DEF Wrapped
  <1>4. QED
    BY <1>1, <1>2, <1>3

\* The queue that a ring stands for, slot by slot.
LEMMA QueuedSlots ==
    ASSUME NEW r \in Ring
    PROVE  /\ Queued(r) \in Seq(Event)
           /\ Len(Queued(r)) = r.len
           /\ \A i \in 1..r.len : Queued(r)[i] = r.buf[Wrapped(r.head + i - 1)]
  <1>1. QUEUE_CAP \in Nat /\ QUEUE_CAP > 0
    BY RingAssumption
  <1>2. r.buf \in [0..(QUEUE_CAP - 1) -> Event] /\ r.head \in 0..(QUEUE_CAP - 1)
        /\ r.len \in 0..QUEUE_CAP
    BY DEF Ring
  <1>3. ASSUME NEW i \in 1..r.len
        PROVE  /\ (r.head + i - 1) % QUEUE_CAP = Wrapped(r.head + i - 1)
               /\ r.buf[(r.head + i - 1) % QUEUE_CAP] \in Event
    <2>1. r.head + i - 1 \in 0..(2 * QUEUE_CAP - 1)
      BY <1>1, <1>2
    <2>2. QED
      BY <1>2, <2>1, WrapsOnce
  <1> DEFINE e(i) == r.buf[(r.head + i - 1) % QUEUE_CAP]
  <1>4. \A i \in 1..r.len : e(i) \in Event
    BY <1>3
  <1>5. Queued(r) = [i \in 1..r.len |-> e(i)]
    BY DEF Queued
  <1> HIDE DEF e
  <1>6. Queued(r) \in Seq(Event) /\ Len(Queued(r)) = r.len
    BY <1>2, <1>4, <1>5
  <1>7. \A i \in 1..r.len : Queued(r)[i] = r.buf[Wrapped(r.head + i - 1)]
    BY <1>3, <1>5 DEF e
  <1>8. QED
    BY <1>6, <1>7

\* EventRing::push keeps the ring, and adds behind the queue unless it is full.
LEMMA PushAppends ==
    ASSUME NEW r \in Ring, NEW e \in Event
    PROVE  /\ push(r, e) \in Ring
           /\ Queued(push(r, e)) = IF r.len = QUEUE_CAP THEN Queued(r) ELSE Append(Queued(r), e)
  <1>1. CASE r.len = QUEUE_CAP
    BY <1>1 DEF push
  <1>2. CASE r.len # QUEUE_CAP
    <2>1. QUEUE_CAP \in Nat /\ QUEUE_CAP > 0
      BY RingAssumption
    <2>2. r.buf \in [0..(QUEUE_CAP - 1) -> Event] /\ r.head \in 0..(QUEUE_CAP - 1)
          /\ r.len \in 0..(QUEUE_CAP - 1)
      BY <1>2, <2>1 DEF Ring
    <2> DEFINE tail == (r.head + r.len) % QUEUE_CAP
               buf == [r.buf EXCEPT ![tail] = e]
               p == push(r, e)
    <2>3. r.head + r.len \in 0..(2 * QUEUE_CAP - 1)
      BY <2>1, <2>2
    <2>4. tail = Wrapped(r.head + r.len) /\ tail \in 0..(QUEUE_CAP - 1)
      BY <2>3, WrapsOnce
    <2>5. p = [r EXCEPT !.buf[tail] = e, !.len = @ + 1]
      BY <1>2 DEF push
    <2>6. p = [buf |-> buf, head |-> r.head, len |-> r.len + 1]
      BY <2>5 DEF Ring
    <2>7. buf \in [0..(QUEUE_CAP - 1) -> Event] /\ buf[tail] = e
          /\ \A k \in 0..(QUEUE_CAP - 1) : k # tail => buf[k] = r.buf[k]
      BY <2>2, <2>4
    <2> HIDE DEF p, tail, buf
    <2>8. p \in Ring
      <3>1. r.len + 1 \in 0..QUEUE_CAP
        BY <2>1, <2>2
      <3>2. QED
        BY <2>2, <2>6, <2>7, <3>1 DEF Ring
    <2>9. p.buf = buf /\ p.head = r.head /\ p.len = r.len + 1
      BY <2>6
    <2>10. ASSUME NEW i \in 1..r.len
           PROVE  Queued(p)[i] = Queued(r)[i]
      <3>1. Wrapped(r.head + i - 1) # tail /\ Wrapped(r.head + i - 1) \in 0..(QUEUE_CAP - 1)
        BY <2>1, <2>2, <2>4 DEF Wrapped
      <3>2. Queued(r)[i] = r.buf[Wrapped(r.head + i - 1)]
        BY QueuedSlots
      <3>3. i \in 1..p.len
        BY <2>2, <2>9
      <3>4. Queued(p)[i] = p.buf[Wrapped(p.head + i - 1)]
        BY <2>8, <3>3, QueuedSlots
      <3>5. QED
        BY <2>7, <2>9, <3>1, <3>2, <3>4
    <2>11. Queued(p)[r.len + 1] = e
      <3>1. r.len + 1 \in 1..p.len /\ r.head + (r.len + 1) - 1 = r.head + r.len
        BY <2>2, <2>9
      <3>2. Queued(p)[r.len + 1] = p.buf[Wrapped(p.head + (r.len + 1) - 1)]
        BY <2>8, <3>1, QueuedSlots
      <3>3. QED
        BY <2>4, <2>7, <2>9, <3>1, <3>2
    <2>12. Queued(p) = Append(Queued(r), e)
      <3>1. Queued(r) \in Seq(Event) /\ Len(Queued(r)) = r.len
        BY QueuedSlots
      <3>2. Queued(p) \in Seq(Event) /\ Len(Queued(p)) = r.len + 1
        BY <2>8, <2>9, QueuedSlots
      <3>3. \A i \in 1..(r.len + 1) : Queued(p)[i] = Append(Queued(r), e)[i]
        BY <2>2, <2>10, <2>11, <3>1
      <3>4. Append(Queued(r), e) \in Seq(Event) /\ Len(Append(Queued(r), e)) = r.len + 1
        BY <3>1
      <3>5. QED
        BY <3>2, <3>3, <3>4, SeqEqual
    <2>13. QED
      BY <1>2, <2>8, <2>12 DEF p
  <1>3. QED
    BY <1>1, <1>2

\* EventRing::pop keeps the ring and takes the oldest event out.
LEMMA PopTakesOldest ==
    ASSUME NEW r \in Ring, r.len > 0
    PROVE  /\ pop(r) \in Ring
           /\ Queued(pop(r)) = Tail(Queued(r))
           /\ Head(Queued(r)) = Oldest(r)
  <1>1. QUEUE_CAP \in Nat /\ QUEUE_CAP > 0
    BY RingAssumption
  <1>2. r.buf \in [0..(QUEUE_CAP - 1) -> Event] /\ r.head \in 0..(QUEUE_CAP - 1)
        /\ r.len \in 1..QUEUE_CAP
    BY <1>1 DEF Ring
  <1> DEFINE head == (r.head + 1) % QUEUE_CAP
             p == pop(r)
  <1>3. r.head + 1 \in 0..(2 * QUEUE_CAP - 1)
    BY <1>1, <1>2
  <1>4. head = Wrapped(r.head + 1) /\ head \in 0..(QUEUE_CAP - 1)
    BY <1>3, WrapsOnce
  <1>5. p = [buf |-> r.buf, head |-> head, len |-> r.len - 1]
    <2>1. p = [r EXCEPT !.head = head, !.len = r.len - 1]
      BY DEF pop
    <2> HIDE DEF head, p
    <2>2. QED
      BY <2>1 DEF Ring
  <1> HIDE DEF p, head
  <1>6. p \in Ring
    <2>1. r.len - 1 \in 0..QUEUE_CAP
      BY <1>1, <1>2
    <2>2. QED
      BY <1>2, <1>4, <1>5, <2>1 DEF Ring
  <1>7. p.buf = r.buf /\ p.head = head /\ p.len = r.len - 1
    BY <1>5
  <1>8. Queued(r) \in Seq(Event) /\ Len(Queued(r)) = r.len /\ Queued(r) # <<>>
    <2>1. Queued(r) \in Seq(Event) /\ Len(Queued(r)) = r.len
      BY QueuedSlots
    <2>2. QED
      BY <1>2, <2>1
  <1>9. Queued(p) \in Seq(Event) /\ Len(Queued(p)) = r.len - 1
    BY <1>6, <1>7, QueuedSlots
  <1>10. Head(Queued(r)) = Oldest(r)
    <2>1. 1 \in 1..r.len /\ r.head + 1 - 1 = r.head /\ Wrapped(r.head) = r.head
      BY <1>1, <1>2 DEF Wrapped
    <2>2. Queued(r)[1] = r.buf[Wrapped(r.head + 1 - 1)]
      BY <2>1, QueuedSlots
    <2>3. QED
      BY <1>8, <2>1, <2>2 DEF Oldest
  <1>11. ASSUME NEW i \in 1..(r.len - 1)
         PROVE  Queued(p)[i] = Queued(r)[i + 1]
    <2>1. Wrapped(head + i - 1) = Wrapped(r.head + (i + 1) - 1)
      <3>1. CASE r.head + 1 < QUEUE_CAP
        <4>1. head + i - 1 = r.head + (i + 1) - 1
          BY <1>1, <1>2, <1>4, <3>1 DEF Wrapped
        <4>2. QED
          BY <4>1
      <3>2. CASE r.head + 1 = QUEUE_CAP
        <4>1. head = 0
          BY <1>1, <1>2, <1>4, <3>2 DEF Wrapped
        <4>2. Wrapped(head + i - 1) = i - 1
          BY <1>1, <1>2, <4>1 DEF Wrapped
        <4>3. Wrapped(r.head + (i + 1) - 1) = i - 1
          BY <1>1, <1>2, <3>2 DEF Wrapped
        <4>4. QED
          BY <4>2, <4>3
      <3>3. QED
        BY <1>1, <1>2, <3>1, <3>2
    <2>2. i \in 1..p.len /\ i + 1 \in 1..r.len
      BY <1>2, <1>7
    <2>3. Queued(p)[i] = p.buf[Wrapped(p.head + i - 1)]
      BY <1>6, <2>2, QueuedSlots
    <2>4. Queued(r)[i + 1] = r.buf[Wrapped(r.head + (i + 1) - 1)]
      BY <2>2, QueuedSlots
    <2>5. QED
      BY <1>7, <2>1, <2>3, <2>4
  <1>12. Queued(p) = Tail(Queued(r))
    <2>1. Tail(Queued(r)) \in Seq(Event) /\ Len(Tail(Queued(r))) = r.len - 1
          /\ \A i \in 1..(r.len - 1) : Tail(Queued(r))[i] = Queued(r)[i + 1]
      BY <1>8, HeadTailProperties
    <2>2. QED
      BY <1>9, <1>11, <2>1, SeqEqual
  <1>13. QED
    BY <1>6, <1>10, <1>12 DEF p

\* Handlers only add behind what is queued.
LEMMA PrefixOrder ==
    ASSUME NEW S, NEW s \in Seq(S), NEW t \in Seq(S), NEW u \in Seq(S)
    PROVE  /\ IsPrefix(s, s)
           /\ \A e \in S : IsPrefix(s, Append(s, e))
           /\ IsPrefix(s, s \o t)
           /\ IsPrefix(s, t) /\ IsPrefix(t, u) => IsPrefix(s, u)
  <1>1. IsPrefix(s, s)
    BY DEF IsPrefix
  <1>2. \A e \in S : IsPrefix(s, Append(s, e))
    BY DEF IsPrefix
  <1>3. IsPrefix(s, s \o t)
    BY DEF IsPrefix
  <1>4. IsPrefix(s, t) /\ IsPrefix(t, u) => IsPrefix(s, u)
    BY DEF IsPrefix
  <1>5. QED
    BY <1>1, <1>2, <1>3, <1>4

LEMMA PushExtends ==
    ASSUME NEW r \in Ring, NEW e \in Event
    PROVE  push(r, e) \in Ring /\ IsPrefix(Queued(r), Queued(push(r, e)))
  <1>1. Queued(r) \in Seq(Event)
    BY QueuedSlots
  <1>2. IsPrefix(Queued(r), Queued(r)) /\ IsPrefix(Queued(r), Append(Queued(r), e))
    BY <1>1, PrefixOrder
  <1>3. QED
    BY <1>2, PushAppends

-----------------------------------------------------------------------------
(* The inductive invariant *)

\* Interrupts are on only while the main thread holds no lock of a handler.
LockDiscipline == ~hung /\ (main.irq => main.held \subseteq {"HEAP"})

\* What is left of a stroke on the wire, and what the decoder in state k has
\* made of the bytes before it; `shift` is the state of the keyboard's own key.
Decoding(bytes, k, shift, typed, keys) ==
    \/ /\ bytes = <<>>
       /\ ~k.extended
       /\ k.shift = shift
       /\ typed = keys
    \/ /\ bytes \in KeyStroke
       /\ ~k.extended
       /\ shift = IF bytes[1] % 128 \in {42, 54} THEN bytes[1] < 128 ELSE k.shift
       /\ typed = keys \o Meaning(bytes, k.shift)
    \/ \E c \in 0..255 :
       /\ bytes = <<c>>
       /\ <<224, c>> \in KeyStroke
       /\ k.extended
       /\ k.shift = shift
       /\ typed = keys \o Meaning(<<224, c>>, k.shift)

KeyInv == seen.lost = 0 => Decoding(wire.kbd, kbd, wire.shift, seen.typed, seen.keys)

\* What is left of a packet on the wire: its first byte carries the buttons and
\* bit 3, the others bit 3 only when noisy; nothing lost, the decoder is in step.
PacketInv ==
    /\ Len(wire.mouse) <= 3
    /\ Len(wire.mouse) = 3 => Bit(wire.mouse[1], 3) /\ Bit(wire.mouse[1], 0) = wire.left
    /\ seen.noisy \/ \A i \in 1..Len(wire.mouse) : i > Len(wire.mouse) - 2 => ~Bit(wire.mouse[i], 3)
    /\ seen.lost = 0 => IF mouse.idx = 0 THEN Len(wire.mouse) \in {0, 3}
                        ELSE Len(wire.mouse) = 3 - mouse.idx

Trusted == ~seen.crossed /\ (seen.lost = 0 \/ ~seen.noisy)

\* One when the button goes down between the two states.
Edge(before, after) == IF after /\ ~before THEN 1 ELSE 0

\* The presses under way: from the state h of the last report that was applied,
\* over the one being put together, a, to the last one sent, w.
Owed(idx, h, a, w) == IF idx = 0 THEN Edge(h, w) ELSE Edge(h, a) + Edge(a, w)

OwedPs2 == Owed(mouse.idx, "ps2" \in seen.held, Bit(mouse.packet[1], 0), wire.left)

OwedUsb == Edge("usb" \in seen.held, wire.usbLeft)

\* One device at a time holds the button, and presses not yet applied are owed.
ClickInv ==
    /\ wire.usb # <<>> => wire.usb[1].left = wire.usbLeft
    /\ Trusted => /\ mouse.left = (seen.held # {})
                  /\ seen.held # {"ps2", "usb"}
                  /\ seen.clicks + OwedPs2 + OwedUsb <= seen.presses

InputInv == TypeOK /\ LockDiscipline /\ KeyInv /\ PacketInv /\ ClickInv

-----------------------------------------------------------------------------
(* Types *)

MouseType == [packet : [1..3 -> 0..255], idx : 0..2, x : 0..MaxX, y : 0..MaxY,
              left : BOOLEAN, right : BOOLEAN]

WireType == [kbd : Seq(0..255), mouse : Seq(0..255), usb : Seq(UsbReport),
             shift : BOOLEAN, left : BOOLEAN, usbLeft : BOOLEAN]

SeenType == [input : Nat, lost : Nat, typed : Seq(Key), keys : Seq(Key), presses : Nat,
             clicks : Nat, held : SUBSET {"ps2", "usb"}, crossed : BOOLEAN, noisy : BOOLEAN]

MainType == [pc : Place, irq : BOOLEAN, held : SUBSET Lock, repaint : BOOLEAN,
             usb_mouse : BOOLEAN]

LEMMA TypeParts ==
    TypeOK <=> /\ ring \in Ring /\ kbd \in [shift : BOOLEAN, extended : BOOLEAN]
               /\ mouse \in MouseType /\ main \in MainType /\ hung \in BOOLEAN
               /\ wire \in WireType /\ seen \in SeenType
               /\ (main.pc = "feed" => wire.usb # <<>>)
  BY DEF TypeOK, MouseType, MainType, WireType, SeenType

LEMMA TypeAfter ==
    ASSUME ring' \in Ring, kbd' \in [shift : BOOLEAN, extended : BOOLEAN],
           mouse' \in MouseType, main' \in MainType, hung' \in BOOLEAN,
           wire' \in WireType, seen' \in SeenType, main'.pc = "feed" => wire'.usb # <<>>
    PROVE  TypeOK'
  BY DEF TypeOK, MouseType, MainType, WireType, SeenType

\* What a report does to the history.
LEMMA Counted ==
    ASSUME NEW s \in SeenType, NEW c \in Nat, NEW x \in BOOLEAN, NEW h \in SUBSET {"ps2", "usb"}
    PROVE  [s EXCEPT !.clicks = c, !.crossed = x, !.held = h] \in SeenType
  BY DEF SeenType

-----------------------------------------------------------------------------
(* Handlers *)

\* What a report of device `at` with button state `left` does to the button and
\* the history, when the button was in state `before`.
Struck(before, left, at) ==
    /\ mouse'.left = left
    /\ seen'.clicks = seen.clicks + Edge(before, left)
    /\ seen'.crossed = (seen.crossed \/ seen.held \ {at} # {})
    /\ seen'.held = IF left THEN seen.held \cup {at} ELSE seen.held \ {at}
    /\ seen'.lost = seen.lost /\ seen'.typed = seen.typed /\ seen'.keys = seen.keys
    /\ seen'.presses = seen.presses /\ seen'.noisy = seen.noisy

\* apply_motion: at most three events behind the others, the pointer on the
\* screen, and one click for a button that was up.
LEMMA Motion ==
    ASSUME ring \in Ring, seen \in SeenType, NEW m \in MouseType,
           NEW dx \in Int, NEW dy \in Int, NEW left \in BOOLEAN, NEW right \in BOOLEAN,
           NEW at \in {"ps2", "usb"},
           apply_motion(m, dx, dy, left, right, at)
    PROVE  /\ ring' \in Ring /\ IsPrefix(Queued(ring), Queued(ring'))
           /\ mouse' \in MouseType
           /\ mouse'.packet = m.packet /\ mouse'.idx = m.idx
           /\ seen' \in SeenType
           /\ Struck(m.left, left, at)
  <1> DEFINE x == Clamp(m.x + dx, MaxX)
             y == Clamp(m.y + dy, MaxY)
             moved == push(ring, <<"move", x, y>>)
             clicked == IF left /\ ~m.left THEN push(moved, <<"click", x, y>>) ELSE moved
             last == IF right /\ ~m.right THEN push(clicked, <<"right">>) ELSE clicked
             cl == IF left /\ ~m.left THEN seen.clicks + 1 ELSE seen.clicks
             cr == seen.crossed \/ seen.held \ {at} # {}
             hd == IF left THEN seen.held \cup {at} ELSE seen.held \ {at}
  <1>1. m.x \in 0..MaxX /\ m.y \in 0..MaxY /\ m.left \in BOOLEAN /\ m.right \in BOOLEAN
    BY DEF MouseType
  <1>2. x \in 0..MaxX /\ y \in 0..MaxY
    BY <1>1, InputAssumption DEF Clamp
  <1>3. mouse' = [m EXCEPT !.x = x, !.y = y, !.left = left, !.right = right] /\ ring' = last
    BY DEF apply_motion
  <1>4. seen' = [seen EXCEPT !.clicks = cl, !.crossed = cr, !.held = hd]
    BY DEF apply_motion
  <1>5. cl \in Nat /\ cr \in BOOLEAN /\ hd \in SUBSET {"ps2", "usb"}
        /\ cl = seen.clicks + Edge(m.left, left)
    <2>1. seen.clicks \in Nat /\ seen.crossed \in BOOLEAN /\ seen.held \in SUBSET {"ps2", "usb"}
      BY DEF SeenType
    <2>2. QED
      BY <1>1, <2>1 DEF Edge
  <1>6. <<"move", x, y>> \in Event /\ <<"click", x, y>> \in Event /\ <<"right">> \in Event
    BY <1>2, InputAssumption DEF InputEvent
  <1> HIDE DEF x, y, cl, cr, hd
  <1>7. last \in Ring /\ IsPrefix(Queued(ring), Queued(last))
    <2>1. moved \in Ring /\ IsPrefix(Queued(ring), Queued(moved))
      BY <1>6, PushExtends
    <2> HIDE DEF moved
    <2>2. clicked \in Ring /\ IsPrefix(Queued(moved), Queued(clicked))
      BY <1>6, <2>1, PushExtends, QueuedSlots, PrefixOrder
    <2> HIDE DEF clicked
    <2>3. last \in Ring /\ IsPrefix(Queued(clicked), Queued(last))
      BY <1>6, <2>2, PushExtends, QueuedSlots, PrefixOrder
    <2> HIDE DEF last
    <2>4. Queued(ring) \in Seq(Event) /\ Queued(moved) \in Seq(Event)
          /\ Queued(clicked) \in Seq(Event) /\ Queued(last) \in Seq(Event)
      BY <2>1, <2>2, <2>3, QueuedSlots
    <2>5. IsPrefix(Queued(ring), Queued(clicked))
      BY <2>1, <2>2, <2>4, PrefixOrder
    <2>6. QED
      BY <2>3, <2>4, <2>5, PrefixOrder
  <1> HIDE DEF last
  <1>8. mouse' \in MouseType
        /\ mouse'.packet = m.packet /\ mouse'.idx = m.idx /\ mouse'.left = left
    BY <1>2, <1>3 DEF MouseType
  <1>9. seen' \in SeenType
    BY <1>4, <1>5, Counted
  <1>10. /\ seen'.clicks = cl /\ seen'.crossed = cr /\ seen'.held = hd
         /\ seen'.lost = seen.lost /\ seen'.typed = seen.typed /\ seen'.keys = seen.keys
         /\ seen'.presses = seen.presses /\ seen'.noisy = seen.noisy
    BY <1>4 DEF SeenType
  <1>11. QED
    BY <1>3, <1>5, <1>7, <1>8, <1>9, <1>10 DEF cr, hd, Struck

\* The key that on_keyboard_byte queues, if any.
Decoded(code, k) ==
    IF code >= 128 \/ code \in {42, 54} THEN <<>>
    ELSE IF k.extended
         THEN IF code \in DOMAIN ExtKey THEN <<ExtKey[code]>> ELSE <<>>
         ELSE IF code \in DOMAIN PlainKey THEN <<PlainKey[code]>>
              ELSE IF code \in CharCode THEN <<<<"char", code, k.shift>>>> ELSE <<>>

\* The decoder's state k2 after it took a byte in state k.
Shifted(code, k, k2) ==
    /\ k2.shift = IF code # 224 /\ code % 128 \in {42, 54} THEN code < 128 ELSE k.shift
    /\ k2.extended = (code = 224)

LEMMA KeyPushed ==
    ASSUME ring \in Ring, seen \in SeenType, NEW key \in Key, PushKey(key)
    PROVE  /\ ring' \in Ring /\ IsPrefix(Queued(ring), Queued(ring'))
           /\ seen' = [seen EXCEPT !.keys = seen.keys \o <<key>>]
           /\ seen' \in SeenType
  <1>1. ring' = push(ring, <<"key", key>>) /\ seen' = [seen EXCEPT !.keys = Append(seen.keys, key)]
    BY DEF PushKey
  <1>2. <<"key", key>> \in Event
    BY InputAssumption DEF InputEvent
  <1>3. ring' \in Ring /\ IsPrefix(Queued(ring), Queued(ring'))
    BY <1>1, <1>2, PushExtends
  <1>4. seen.keys \in Seq(Key)
    BY DEF SeenType
  <1>5. Append(seen.keys, key) = seen.keys \o <<key>> /\ Append(seen.keys, key) \in Seq(Key)
    BY <1>4
  <1>6. seen' \in SeenType
    BY <1>1, <1>5 DEF SeenType
  <1>7. QED
    BY <1>1, <1>3, <1>5, <1>6

\* on_keyboard_byte
LEMMA KeyByte ==
    ASSUME ring \in Ring, seen \in SeenType, kbd \in [shift : BOOLEAN, extended : BOOLEAN],
           NEW code \in 0..255, on_keyboard_byte(code)
    PROVE  /\ ring' \in Ring /\ IsPrefix(Queued(ring), Queued(ring'))
           /\ kbd' \in [shift : BOOLEAN, extended : BOOLEAN]
           /\ Shifted(code, kbd, kbd')
           /\ mouse' = mouse
           /\ seen' = [seen EXCEPT !.keys = seen.keys \o Decoded(code, kbd)]
           /\ seen' \in SeenType
  <1> DEFINE make == code % 128
  <1>1. code < 128 => make = code
    OBVIOUS
  <1> DEFINE sh == IF code # 224 /\ make \in {42, 54} THEN ~(code >= 128) ELSE kbd.shift
  <1>2. kbd' = [shift |-> sh, extended |-> code = 224] /\ mouse' = mouse
    BY DEF on_keyboard_byte
  <1>3. sh \in BOOLEAN /\ (sh = IF code # 224 /\ make \in {42, 54} THEN code < 128 ELSE kbd.shift)
    <2>1. kbd.shift \in BOOLEAN
      OBVIOUS
    <2>2. ~(code >= 128) <=> code < 128
      OBVIOUS
    <2> HIDE DEF make
    <2>3. CASE code # 224 /\ make \in {42, 54}
      <3>1. sh = (code < 128)
        BY <2>2, <2>3
      <3>2. (IF code # 224 /\ make \in {42, 54} THEN code < 128 ELSE kbd.shift) = (code < 128)
        BY <2>3
      <3>3. (code < 128) \in BOOLEAN
        OBVIOUS
      <3>4. QED
        BY <3>1, <3>2, <3>3
    <2>4. CASE ~(code # 224 /\ make \in {42, 54})
      BY <2>1, <2>4, Zenon
    <2>5. QED
      BY <2>3, <2>4
  <1>4. IF code = 224 \/ code >= 128 \/ make \in {42, 54} THEN UNCHANGED <<ring, seen>>
        ELSE IF kbd.extended /\ make \in DOMAIN ExtKey THEN PushKey(ExtKey[make])
        ELSE IF ~kbd.extended /\ make \in DOMAIN PlainKey THEN PushKey(PlainKey[make])
        ELSE IF ~kbd.extended /\ make \in CharCode THEN PushKey(<<"char", make, kbd.shift>>)
        ELSE UNCHANGED <<ring, seen>>
    BY DEF on_keyboard_byte
  <1> HIDE DEF make, sh
  <1>5. /\ kbd' \in [shift : BOOLEAN, extended : BOOLEAN]
        /\ kbd'.shift = IF code # 224 /\ make \in {42, 54} THEN code < 128 ELSE kbd.shift
        /\ kbd'.extended = (code = 224)
    BY <1>2, <1>3
  <1>6. \/ Decoded(code, kbd) = <<>> /\ UNCHANGED <<ring, seen>>
        \/ \E key \in Key : Decoded(code, kbd) = <<key>> /\ PushKey(key)
    <2>1. CASE code >= 128 \/ code \in {42, 54}
      <3>1. Decoded(code, kbd) = <<>>
        BY <2>1 DEF Decoded
      <3>2. QED
        BY <1>1, <1>4, <2>1, <3>1
    <2>2. CASE ~(code >= 128 \/ code \in {42, 54})
      <3>1. make = code /\ code # 224
        BY <1>1, <2>2
      <3>2. CASE kbd.extended
        <4>1. code \in DOMAIN ExtKey => ExtKey[code] \in Key
          BY DEF Key
        <4>2. QED
          BY <1>4, <2>2, <3>1, <3>2, <4>1 DEF Decoded
      <3>3. CASE ~kbd.extended
        <4>1. /\ code \in DOMAIN PlainKey => PlainKey[code] \in Key
              /\ code \in CharCode => <<"char", code, kbd.shift>> \in Key
          BY DEF Key
        <4>2. QED
          BY <1>4, <2>2, <3>1, <3>3, <4>1 DEF Decoded
      <3>4. QED
        BY <3>2, <3>3
    <2>3. QED
      BY <2>1, <2>2
  <1>7. CASE Decoded(code, kbd) = <<>> /\ UNCHANGED <<ring, seen>>
    <2>1. seen.keys \in Seq(Key) /\ Queued(ring) \in Seq(Event)
      BY QueuedSlots DEF SeenType
    <2>2. seen.keys \o <<>> = seen.keys
      BY <2>1
    <2>3. seen' = [seen EXCEPT !.keys = seen.keys \o Decoded(code, kbd)] /\ seen' \in SeenType
      BY <1>7, <2>2 DEF SeenType
    <2>4. IsPrefix(Queued(ring), Queued(ring))
      BY <2>1, PrefixOrder
    <2>5. QED
      BY <1>2, <1>5, <1>7, <2>3, <2>4 DEF make, Shifted
  <1>8. CASE \E key \in Key : Decoded(code, kbd) = <<key>> /\ PushKey(key)
    <2>1. PICK key \in Key : Decoded(code, kbd) = <<key>> /\ PushKey(key)
      BY <1>8
    <2>2. /\ ring' \in Ring /\ IsPrefix(Queued(ring), Queued(ring'))
          /\ seen' = [seen EXCEPT !.keys = seen.keys \o <<key>>]
          /\ seen' \in SeenType
      BY <2>1, KeyPushed
    <2>3. QED
      BY <1>2, <1>5, <2>1, <2>2 DEF make, Shifted
  <1>9. QED
    BY <1>6, <1>7, <1>8

\* The three things on_mouse_byte may do with a byte.
Skipped(byte) == mouse.idx = 0 /\ ~Bit(byte, 3) /\ UNCHANGED <<mouse, seen>>

Kept(byte) ==
    /\ mouse.idx \in {0, 1}
    /\ mouse.idx = 0 => Bit(byte, 3)
    /\ mouse'.idx = mouse.idx + 1 /\ mouse'.left = mouse.left
    /\ mouse'.packet[1] = IF mouse.idx = 0 THEN byte ELSE mouse.packet[1]
    /\ seen' = seen

Completed ==
    /\ mouse.idx = 2
    /\ mouse'.idx = 0
    /\ Struck(mouse.left, Bit(mouse.packet[1], 0), "ps2")

\* on_mouse_byte
LEMMA MouseByte ==
    ASSUME ring \in Ring, seen \in SeenType, mouse \in MouseType,
           NEW byte \in 0..255, on_mouse_byte(byte)
    PROVE  /\ ring' \in Ring /\ IsPrefix(Queued(ring), Queued(ring'))
           /\ kbd' = kbd /\ mouse' \in MouseType /\ seen' \in SeenType
           /\ Skipped(byte) \/ Kept(byte) \/ Completed
  <1> DEFINE p == [mouse.packet EXCEPT ![mouse.idx + 1] = byte]
             i == (mouse.idx + 1) % 3
             m == [mouse EXCEPT !.packet = p, !.idx = i]
             void == Bit(p[1], 6) \/ Bit(p[1], 7)
             dx == IF void THEN 0 ELSE p[2] - (IF Bit(p[1], 4) THEN 256 ELSE 0)
             dy == IF void THEN 0 ELSE -(p[3] - (IF Bit(p[1], 5) THEN 256 ELSE 0))
  <1>1. mouse.packet \in [1..3 -> 0..255] /\ mouse.idx \in {0, 1, 2} /\ mouse.left \in BOOLEAN
    BY DEF MouseType
  <1>2. p \in [1..3 -> 0..255] /\ p[1] = IF mouse.idx = 0 THEN byte ELSE mouse.packet[1]
    BY <1>1
  <1>3. i = IF mouse.idx = 2 THEN 0 ELSE mouse.idx + 1
    BY <1>1
  <1>4. Queued(ring) \in Seq(Event) /\ IsPrefix(Queued(ring), Queued(ring))
    BY QueuedSlots, PrefixOrder
  <1>5. /\ kbd' = kbd
        /\ IF mouse.idx = 0 /\ ~Bit(byte, 3) THEN UNCHANGED <<ring, mouse, seen>>
           ELSE IF mouse.idx < 2 THEN mouse' = m /\ UNCHANGED <<ring, seen>>
           ELSE apply_motion(m, dx, dy, Bit(p[1], 0), Bit(p[1], 1), "ps2")
    <2> HIDE DEF p, i, m
    <2>1. QED
      BY DEF on_mouse_byte, p, i, m
  <1> HIDE DEF p, i
  <1>6. m \in MouseType /\ m.packet = p /\ m.idx = i /\ m.left = mouse.left
    <2>1. i \in 0..2
      BY <1>1, <1>3
    <2>2. QED
      BY <1>2, <2>1 DEF MouseType
  <1>7. dx \in Int /\ dy \in Int /\ Bit(p[1], 0) \in BOOLEAN /\ Bit(p[1], 1) \in BOOLEAN
    <2>1. p[2] \in Int /\ p[3] \in Int
      BY <1>2
    <2>2. QED
      BY <2>1 DEF Bit
  <1> HIDE DEF m, dx, dy
  <1>8. CASE mouse.idx = 0 /\ ~Bit(byte, 3)
    BY <1>4, <1>5, <1>8 DEF Skipped
  <1>9. CASE ~(mouse.idx = 0 /\ ~Bit(byte, 3)) /\ mouse.idx < 2
    <2>1. mouse' = m /\ UNCHANGED <<ring, seen>>
      BY <1>5, <1>9
    <2>2. Kept(byte)
      BY <1>1, <1>2, <1>3, <1>6, <1>9, <2>1 DEF Kept
    <2>3. QED
      BY <1>4, <1>5, <1>6, <2>1, <2>2
  <1>10. CASE mouse.idx = 2
    <2>1. apply_motion(m, dx, dy, Bit(p[1], 0), Bit(p[1], 1), "ps2")
      BY <1>5, <1>10
    <2>2. /\ ring' \in Ring /\ IsPrefix(Queued(ring), Queued(ring'))
          /\ mouse' \in MouseType
          /\ mouse'.idx = m.idx
          /\ seen' \in SeenType
          /\ Struck(m.left, Bit(p[1], 0), "ps2")
      BY <1>6, <1>7, <2>1, Motion
    <2>3. p[1] = mouse.packet[1]
      BY <1>2, <1>10
    <2>5. Completed
      BY <1>3, <1>6, <1>10, <2>2, <2>3 DEF Completed
    <2>6. QED
      BY <1>5, <2>2, <2>5
  <1>11. QED
    BY <1>1, <1>8, <1>9, <1>10

-----------------------------------------------------------------------------
(* What each part of the invariant depends on *)

LEMMA KeyFrame ==
    ASSUME KeyInv, kbd' = kbd, wire'.kbd = wire.kbd, wire'.shift = wire.shift,
           seen'.lost = seen.lost, seen'.typed = seen.typed, seen'.keys = seen.keys
    PROVE  KeyInv'
  BY DEF KeyInv

LEMMA PacketFrame ==
    ASSUME PacketInv, mouse'.idx = mouse.idx, wire'.mouse = wire.mouse, wire'.left = wire.left,
           seen'.lost = seen.lost, seen'.noisy = seen.noisy
    PROVE  PacketInv'
  BY DEF PacketInv

LEMMA ClickFrame ==
    ASSUME ClickInv, mouse' = mouse, wire'.usb = wire.usb, wire'.usbLeft = wire.usbLeft,
           wire'.left = wire.left, seen'.lost = seen.lost, seen'.noisy = seen.noisy,
           seen'.crossed = seen.crossed, seen'.held = seen.held, seen'.clicks = seen.clicks,
           seen'.presses = seen.presses
    PROVE  ClickInv'
  BY DEF ClickInv, Trusted, OwedPs2, OwedUsb

\* The queue after a step.
RingStep ==
    \/ ring.len > 0 /\ Queued(ring') = Tail(Queued(ring))
    \/ IsPrefix(Queued(ring), Queued(ring'))

LEMMA RingKept ==
    ASSUME ring \in Ring, ring' = ring
    PROVE  ring' \in Ring /\ RingStep
  <1>1. Queued(ring) \in Seq(Event)
    BY QueuedSlots
  <1>2. IsPrefix(Queued(ring), Queued(ring))
    BY <1>1, PrefixOrder
  <1>3. QED
    BY <1>2 DEF RingStep

\* The main thread moves on, and neither the decoders nor the devices do.
LEMMA MainMoves ==
    ASSUME InputInv, UNCHANGED <<kbd, mouse, hung, wire, seen>>, ring' \in Ring, RingStep,
           main' \in MainType, main'.irq => main'.held \subseteq {"HEAP"},
           main'.pc = "feed" => wire.usb # <<>>
    PROVE  InputInv' /\ RingStep
  <1>1. TypeOK'
    BY TypeParts DEF InputInv, TypeOK, MainType
  <1>2. LockDiscipline'
    BY DEF InputInv, LockDiscipline
  <1>3. KeyInv'
    BY KeyFrame DEF InputInv
  <1>4. PacketInv'
    BY PacketFrame DEF InputInv
  <1>5. ClickInv'
    BY ClickFrame DEF InputInv
  <1>6. QED
    BY <1>1, <1>2, <1>3, <1>4, <1>5 DEF InputInv

LEMMA InitialInv == Init => InputInv
  <1> SUFFICES ASSUME Init PROVE InputInv
    OBVIOUS
  <1>1. ring \in Ring
    <2>1. QUEUE_CAP \in Nat /\ QUEUE_CAP > 0 /\ (CHOOSE e \in Event : TRUE) \in Event
      BY RingAssumption
    <2>2. QED
      BY <2>1 DEF Init, EmptyRing, Ring
  <1>2. mouse \in MouseType
    <2>1. MaxX \div 2 \in 0..MaxX /\ MaxY \div 2 \in 0..MaxY
      BY InputAssumption
    <2>2. <<0, 0, 0>> \in [1..3 -> 0..255]
      OBVIOUS
    <2>3. QED
      BY <2>1, <2>2 DEF Init, MouseType
  <1>3. wire \in WireType
    BY DEF Init, WireType
  <1>4. seen \in SeenType
    BY DEF Init, SeenType
  <1>5. main \in MainType /\ main.pc = "pump" /\ main.held = {}
    BY DEF Init, MainType, Place
  <1>6. TypeOK
    BY <1>1, <1>2, <1>3, <1>4, <1>5, TypeParts DEF Init
  <1>7. LockDiscipline
    BY <1>5 DEF Init, LockDiscipline
  <1>8. KeyInv
    BY DEF Init, KeyInv, Decoding
  <1>9. PacketInv
    BY DEF Init, PacketInv
  <1>10. ClickInv
    <2>1. /\ wire.usb = <<>> /\ ~mouse.left /\ mouse.left \in BOOLEAN /\ mouse.idx = 0
          /\ seen.held = {} /\ ~wire.left /\ ~wire.usbLeft
          /\ seen.clicks = 0 /\ seen.presses = 0
      BY DEF Init
    <2>2. OwedPs2 = 0 /\ OwedUsb = 0
      BY <2>1 DEF OwedPs2, OwedUsb, Owed, Edge
    <2>3. mouse.left = (seen.held # {}) /\ seen.held # {"ps2", "usb"}
      BY <2>1
    <2>4. seen.clicks + OwedPs2 + OwedUsb <= seen.presses
      BY <2>1, <2>2
    <2>5. QED
      BY <2>1, <2>3, <2>4 DEF ClickInv
  <1>11. QED
    BY <1>6, <1>7, <1>8, <1>9, <1>10 DEF InputInv

-----------------------------------------------------------------------------
(* The steps of the main thread and the timer *)

LEMMA LoopKeeps ==
    ASSUME InputInv,
           \/ PumpNothing \/ PumpLock \/ PollLock \/ PollEvent \/ PollNone
           \/ Handle \/ Handled \/ Repaint \/ Painted \/ Idle \/ timer
    PROVE  InputInv' /\ RingStep
  <1>1. /\ ring \in Ring /\ main \in MainType /\ ~hung
        /\ (main.irq => main.held \subseteq {"HEAP"}) /\ (main.pc = "feed" => wire.usb # <<>>)
    BY TypeParts DEF InputInv, LockDiscipline
  <1>2. ASSUME NEW from \in Place, NEW to \in Place \ {"feed"}, At(from, to),
               UNCHANGED <<ring, kbd, mouse, hung, wire, seen>>
        PROVE  InputInv' /\ RingStep
    <2>1. main' = [main EXCEPT !.pc = to]
      BY <1>2 DEF At
    <2>2. main' \in MainType /\ main'.irq = main.irq /\ main'.held = main.held /\ main'.pc = to
      BY <1>1, <2>1 DEF MainType
    <2>3. QED
      BY <1>1, <1>2, <2>2, RingKept, MainMoves
  <1>3. ASSUME NEW from \in Place, NEW to \in Place, NEW locks \in SUBSET Lock,
               Enter(from, to, locks), to = "feed" => wire.usb # <<>>
        PROVE  InputInv' /\ RingStep
    <2>1. main' = [main EXCEPT !.pc = to, !.irq = FALSE, !.held = locks]
          /\ UNCHANGED <<ring, kbd, mouse, hung, wire, seen>>
      BY <1>3 DEF Enter
    <2>2. main' \in MainType /\ ~main'.irq /\ main'.pc = to
      BY <1>1, <2>1 DEF MainType
    <2>3. QED
      BY <1>1, <1>3, <2>1, <2>2, RingKept, MainMoves
  <1>4. ASSUME NEW from \in Place, NEW to \in Place \ {"feed"}, NEW repaint \in BOOLEAN,
               Leave(from, to, repaint), UNCHANGED <<kbd, mouse, hung, wire, seen>>,
               ring' \in Ring, RingStep
        PROVE  InputInv' /\ RingStep
    <2>1. main' = [main EXCEPT !.pc = to, !.irq = TRUE, !.held = {}, !.repaint = repaint]
      BY <1>4 DEF Leave
    <2>2. main' \in MainType /\ main'.held = {} /\ main'.pc = to
      BY <1>1, <2>1 DEF MainType
    <2>3. QED
      BY <1>1, <1>4, <2>2, MainMoves
  <1>5. CASE PumpNothing
    BY <1>2, <1>5 DEF PumpNothing, Place
  <1>6. CASE PumpLock
    BY <1>3, <1>6 DEF PumpLock, Place, Lock
  <1>7. CASE PollLock
    BY <1>3, <1>7 DEF PollLock, Place, Lock
  <1>8. CASE PollEvent
    <2>1. ring.len > 0 /\ Leave("polling", "handle", TRUE) /\ ring' = pop(ring)
          /\ UNCHANGED <<kbd, mouse, hung, wire, seen>>
      BY <1>8 DEF PollEvent
    <2>2. ring' \in Ring /\ Queued(ring') = Tail(Queued(ring))
      BY <1>1, <2>1, PopTakesOldest
    <2>3. RingStep
      BY <2>1, <2>2 DEF RingStep
    <2>4. QED
      BY <1>4, <2>1, <2>2, <2>3 DEF Place
  <1>9. CASE PollNone
    <2>1. main.repaint \in BOOLEAN
      BY <1>1 DEF MainType
    <2>2. QED
      BY <1>1, <1>4, <1>9, <2>1, RingKept DEF PollNone, Place
  <1>10. CASE Handle
    <2>1. main' = [main EXCEPT !.held = {"HEAP"}, !.pc = "handling"]
          /\ UNCHANGED <<ring, kbd, mouse, hung, wire, seen>>
      BY <1>10 DEF Handle
    <2>2. main' \in MainType /\ main'.held = {"HEAP"} /\ main'.pc = "handling"
      BY <1>1, <2>1 DEF MainType, Place, Lock
    <2>3. QED
      BY <1>1, <2>1, <2>2, RingKept, MainMoves
  <1>11. CASE Handled
    BY <1>1, <1>4, <1>11, RingKept DEF Handled, Place
  <1>12. CASE Repaint
    BY <1>3, <1>12 DEF Repaint, Place, Lock
  <1>13. CASE Painted
    BY <1>1, <1>4, <1>13, RingKept DEF Painted, Place
  <1>14. CASE Idle
    BY <1>2, <1>14 DEF Idle, Place
  <1>15. CASE timer
    <2>1. main' = [main EXCEPT !.pc = IF main.pc = "hlt" THEN "pump" ELSE main.pc] /\ main.irq
      BY <1>15 DEF timer, Interrupt
    <2>2. main.held \cap {"TICKS", "PICS"} = {}
      BY <1>1, <2>1
    <2>3. UNCHANGED <<ring, kbd, mouse, hung, wire, seen>>
      BY <1>15, <2>2 DEF timer, Interrupt
    <2>4. main' \in MainType /\ main'.irq = main.irq /\ main'.held = main.held
          /\ (main'.pc = "feed" => main.pc = "feed")
      BY <1>1, <2>1 DEF MainType, Place
    <2>5. QED
      BY <1>1, <2>3, <2>4, RingKept, MainMoves
  <1>16. QED
    BY <1>5, <1>6, <1>7, <1>8, <1>9, <1>10, <1>11, <1>12, <1>13, <1>14, <1>15

-----------------------------------------------------------------------------
(* The keyboard *)

LEMMA Strokes ==
    ASSUME NEW s \in KeyStroke
    PROVE  \E c \in 0..255 \ {224} :
               s = <<c>> \/ (s = <<224, c>> /\ c % 128 \notin {42, 54})
  BY InputAssumption DEF IsStroke

LEMMA StrokeIsBytes ==
    ASSUME NEW s \in KeyStroke
    PROVE  s \in Seq(0..255) /\ s # <<>>
  <1>1. PICK c \in 0..255 \ {224} : s = <<c>> \/ (s = <<224, c>> /\ c % 128 \notin {42, 54})
    BY Strokes
  <1>2. CASE s = <<c>>
    BY <1>2
  <1>3. CASE s = <<224, c>>
    BY <1>3
  <1>4. QED
    BY <1>1, <1>2, <1>3

\* What a stroke means, without and with prefix.
LEMMA MeaningCases ==
    ASSUME NEW s, NEW shift \in BOOLEAN
    PROVE  /\ s[1] = 224 =>
                Meaning(s, shift) = IF s[2] \in DOMAIN ExtKey THEN <<ExtKey[s[2]]>> ELSE <<>>
           /\ s[1] # 224 =>
                Meaning(s, shift) = IF s[1] \in DOMAIN PlainKey THEN <<PlainKey[s[1]]>>
                                    ELSE IF s[1] \in CharCode THEN <<<<"char", s[1], shift>>>>
                                    ELSE <<>>
  <1>1. 224 \notin CharCode /\ \A c \in CharCode : c \notin DOMAIN PlainKey
    BY InputAssumption
  <1>2. 224 \notin DOMAIN PlainKey
    BY DEF PlainKey
  <1> DEFINE c1 == s[1]
  <1> HIDE DEF c1
  <1>3. CASE c1 = 224
    BY <1>1, <1>2, <1>3 DEF Meaning, c1
  <1>4. CASE c1 # 224 /\ c1 \in DOMAIN PlainKey
    BY <1>1, <1>4 DEF Meaning, c1
  <1>5. CASE c1 # 224 /\ c1 \notin DOMAIN PlainKey /\ c1 \in CharCode
    BY <1>5 DEF Meaning, c1
  <1>6. CASE c1 # 224 /\ c1 \notin DOMAIN PlainKey /\ c1 \notin CharCode
    BY <1>6 DEF Meaning, c1
  <1>7. QED
    BY <1>3, <1>4, <1>5, <1>6

\* A stroke without prefix, and one with it, as the decoder reads them.
LEMMA PlainMeaning ==
    ASSUME NEW c \in 0..255 \ {224}, NEW k \in [shift : BOOLEAN, extended : BOOLEAN], ~k.extended
    PROVE  Decoded(c, k) = Meaning(<<c>>, k.shift)
  <1>1. c \in CharCode => c < 128 /\ c \notin {42, 54} /\ c \notin DOMAIN PlainKey
    BY InputAssumption
  <1>2. c \in DOMAIN PlainKey => c < 128 /\ c \notin {42, 54}
    BY DEF PlainKey
  <1>3. <<c>>[1] = c /\ c # 224
    OBVIOUS
  <1>4. Meaning(<<c>>, k.shift) = IF c \in DOMAIN PlainKey THEN <<PlainKey[c]>>
                                  ELSE IF c \in CharCode THEN <<<<"char", c, k.shift>>>> ELSE <<>>
    BY <1>3, MeaningCases
  <1>5. QED
    BY <1>1, <1>2, <1>4 DEF Decoded

LEMMA ExtendedMeaning ==
    ASSUME NEW c \in 0..255, c % 128 \notin {42, 54},
           NEW k \in [shift : BOOLEAN, extended : BOOLEAN], k.extended
    PROVE  Decoded(c, k) = Meaning(<<224, c>>, k.shift)
  <1>1. c \in DOMAIN ExtKey => c < 128
    BY DEF ExtKey
  <1>2. c \notin {42, 54}
    OBVIOUS
  <1>3. <<224, c>>[1] = 224 /\ <<224, c>>[2] = c
    OBVIOUS
  <1>4. Meaning(<<224, c>>, k.shift) = IF c \in DOMAIN ExtKey THEN <<ExtKey[c]>> ELSE <<>>
    BY <1>3, MeaningCases
  <1>5. Decoded(c, k) = IF c \in DOMAIN ExtKey THEN <<ExtKey[c]>> ELSE <<>>
    <2>1. CASE c >= 128
      BY <1>1, <2>1 DEF Decoded
    <2>2. CASE c < 128
      BY <1>2, <2>2 DEF Decoded
    <2>3. QED
      BY <2>1, <2>2
  <1>6. QED
    BY <1>4, <1>5

LEMMA MeaningIsKeys ==
    ASSUME NEW s \in KeyStroke, NEW shift \in BOOLEAN
    PROVE  Meaning(s, shift) \in Seq(Key)
  <1>1. PICK c \in 0..255 \ {224} : s = <<c>> \/ (s = <<224, c>> /\ c % 128 \notin {42, 54})
    BY Strokes
  <1>2. /\ c \in DOMAIN ExtKey => ExtKey[c] \in Key
        /\ c \in DOMAIN PlainKey => PlainKey[c] \in Key
        /\ c \in CharCode => <<"char", c, shift>> \in Key
    BY DEF Key
  <1>3. CASE s = <<c>>
    <2>1. s[1] = c /\ c # 224
      BY <1>3
    <2>2. Meaning(s, shift) = IF c \in DOMAIN PlainKey THEN <<PlainKey[c]>>
                              ELSE IF c \in CharCode THEN <<<<"char", c, shift>>>> ELSE <<>>
      BY <2>1, MeaningCases
    <2>3. \A key \in Key : <<key>> \in Seq(Key)
      OBVIOUS
    <2>4. <<>> \in Seq(Key)
      OBVIOUS
    <2>5. QED
      BY <1>2, <2>2, <2>3, <2>4
  <1>4. CASE s = <<224, c>>
    <2>1. s[1] = 224 /\ s[2] = c
      BY <1>4
    <2>2. Meaning(s, shift) = IF c \in DOMAIN ExtKey THEN <<ExtKey[c]>> ELSE <<>>
      BY <2>1, MeaningCases
    <2>3. \A key \in Key : <<key>> \in Seq(Key)
      OBVIOUS
    <2>4. <<>> \in Seq(Key)
      OBVIOUS
    <2>5. QED
      BY <1>2, <2>2, <2>3, <2>4
  <1>5. QED
    BY <1>1, <1>3, <1>4

\* on_keyboard_byte takes the next byte of a stroke.
LEMMA DecodesNext ==
    ASSUME NEW bytes \in Seq(0..255), bytes # <<>>,
           NEW k \in [shift : BOOLEAN, extended : BOOLEAN],
           NEW k2 \in [shift : BOOLEAN, extended : BOOLEAN],
           NEW shift \in BOOLEAN, NEW typed \in Seq(Key), NEW keys \in Seq(Key),
           Decoding(bytes, k, shift, typed, keys),
           Shifted(bytes[1], k, k2)
    PROVE  Decoding(Tail(bytes), k2, shift, typed, keys \o Decoded(bytes[1], k))
  <1>1. CASE bytes \in KeyStroke /\ ~k.extended
             /\ shift = (IF bytes[1] % 128 \in {42, 54} THEN bytes[1] < 128 ELSE k.shift)
             /\ typed = keys \o Meaning(bytes, k.shift)
    <2>1. PICK c \in 0..255 \ {224} :
              bytes = <<c>> \/ (bytes = <<224, c>> /\ c % 128 \notin {42, 54})
      BY <1>1, Strokes
    <2>2. CASE bytes = <<c>>
      <3>1. bytes[1] = c /\ Tail(bytes) = <<>> /\ c # 224
        BY <2>2
      <3>2. Decoded(c, k) = Meaning(<<c>>, k.shift)
        BY <1>1, PlainMeaning
      <3>3. ~k2.extended /\ k2.shift = shift
        BY <1>1, <3>1 DEF Shifted
      <3>4. QED
        BY <1>1, <2>2, <3>1, <3>2, <3>3 DEF Decoding
    <2>3. CASE bytes = <<224, c>> /\ c % 128 \notin {42, 54}
      <3>1. bytes[1] = 224 /\ Tail(bytes) = <<c>> /\ 224 % 128 = 96
        BY <2>3
      <3>2. Decoded(224, k) = <<>> /\ keys \o <<>> = keys
        BY DEF Decoded
      <3>3. k2.extended /\ k2.shift = k.shift /\ shift = k.shift
        BY <1>1, <3>1 DEF Shifted
      <3>4. <<224, c>> \in KeyStroke /\ typed = keys \o Meaning(<<224, c>>, k2.shift)
        BY <1>1, <2>3, <3>3
      <3>5. keys \o Decoded(bytes[1], k) = keys
        BY <3>1, <3>2
      <3> DEFINE Half(d) == /\ Tail(bytes) = <<d>> /\ <<224, d>> \in KeyStroke
                            /\ k2.extended /\ k2.shift = shift
                            /\ typed = keys \o Meaning(<<224, d>>, k2.shift)
      <3>6. c \in 0..255 /\ Half(c)
        BY <3>1, <3>3, <3>4
      <3>7. Decoding(Tail(bytes), k2, shift, typed, keys)
        BY <3>6 DEF Decoding
      <3>8. QED
        BY <3>5, <3>7
    <2>4. QED
      BY <2>1, <2>2, <2>3
  <1>2. CASE \E c \in 0..255 : /\ bytes = <<c>> /\ <<224, c>> \in KeyStroke
                               /\ k.extended /\ k.shift = shift
                               /\ typed = keys \o Meaning(<<224, c>>, k.shift)
    <2>1. PICK c \in 0..255 : /\ bytes = <<c>> /\ <<224, c>> \in KeyStroke
                              /\ k.extended /\ k.shift = shift
                              /\ typed = keys \o Meaning(<<224, c>>, k.shift)
      BY <1>2
    <2>2. c # 224 /\ c % 128 \notin {42, 54}
      <3>1. PICK d \in 0..255 \ {224} :
                <<224, c>> = <<d>> \/ (<<224, c>> = <<224, d>> /\ d % 128 \notin {42, 54})
        BY <2>1, Strokes
      <3>2. <<224, c>> # <<d>>
        OBVIOUS
      <3>3. c = d
        BY <3>1, <3>2
      <3>4. QED
        BY <3>1, <3>2, <3>3
    <2>3. bytes[1] = c /\ Tail(bytes) = <<>>
      BY <2>1
    <2>4. Decoded(c, k) = Meaning(<<224, c>>, k.shift)
      BY <2>1, <2>2, ExtendedMeaning
    <2>5. ~k2.extended /\ k2.shift = shift
      BY <2>1, <2>2, <2>3 DEF Shifted
    <2>6. QED
      BY <2>1, <2>3, <2>4, <2>5 DEF Decoding
  <1>3. QED
    BY <1>1, <1>2 DEF Decoding

LEMMA KeyPressedKeeps ==
    ASSUME InputInv, KeyPressed
    PROVE  InputInv' /\ RingStep
  <1>1. /\ ring \in Ring /\ wire \in WireType /\ seen \in SeenType
        /\ kbd \in [shift : BOOLEAN, extended : BOOLEAN]
    BY TypeParts DEF InputInv
  <1>2. PICK s \in KeyStroke :
          /\ wire' = [wire EXCEPT !.kbd = s,
                                  !.shift = IF s[1] % 128 \in {42, 54} THEN s[1] < 128 ELSE @]
          /\ seen' = [seen EXCEPT !.typed = @ \o Meaning(s, wire.shift), !.input = @ + 1]
    BY DEF KeyPressed
  <1>3. wire.kbd = <<>> /\ UNCHANGED <<ring, kbd, mouse, main, hung>>
    BY DEF KeyPressed
  <1> DEFINE sh == IF s[1] % 128 \in {42, 54} THEN s[1] < 128 ELSE wire.shift
             ty == seen.typed \o Meaning(s, wire.shift)
             in == seen.input + 1
  <1>4. wire.shift \in BOOLEAN /\ seen.typed \in Seq(Key) /\ seen.input \in Nat
    BY <1>1 DEF WireType, SeenType
  <1>5. sh \in BOOLEAN
    <2>1. (s[1] < 128) \in BOOLEAN
      OBVIOUS
    <2>2. QED
      BY <1>4, <2>1
  <1>6. s \in Seq(0..255) /\ s # <<>> /\ Meaning(s, wire.shift) \in Seq(Key)
    BY <1>4, StrokeIsBytes, MeaningIsKeys
  <1>7. ty \in Seq(Key) /\ in \in Nat
    BY <1>4, <1>6
  <1>8. wire' = [wire EXCEPT !.kbd = s, !.shift = sh]
        /\ seen' = [seen EXCEPT !.typed = ty, !.input = in]
    BY <1>2
  <1> HIDE DEF sh, ty, in
  <1>9. wire' \in WireType /\ wire'.kbd = s /\ wire'.shift = sh /\ wire'.mouse = wire.mouse
        /\ wire'.usb = wire.usb /\ wire'.left = wire.left /\ wire'.usbLeft = wire.usbLeft
    BY <1>1, <1>5, <1>6, <1>8 DEF WireType
  <1>10. seen' \in SeenType /\ seen'.typed = ty /\ seen'.keys = seen.keys /\ seen'.lost = seen.lost
         /\ seen'.noisy = seen.noisy /\ seen'.crossed = seen.crossed /\ seen'.held = seen.held
         /\ seen'.clicks = seen.clicks /\ seen'.presses = seen.presses
    BY <1>1, <1>7, <1>8 DEF SeenType
  <1>11. TypeOK'
    BY <1>3, <1>9, <1>10, TypeParts DEF InputInv, TypeOK, WireType, SeenType
  <1>12. LockDiscipline'
    BY <1>3 DEF InputInv, LockDiscipline
  <1>13. KeyInv'
    <2> SUFFICES ASSUME seen.lost = 0
                 PROVE  Decoding(s, kbd, sh, ty, seen.keys)
      BY <1>3, <1>9, <1>10 DEF KeyInv
    <2>1. Decoding(<<>>, kbd, wire.shift, seen.typed, seen.keys)
      BY <1>3 DEF InputInv, KeyInv
    <2>2. <<>> \notin KeyStroke /\ \A c : <<c>> # <<>>
      BY StrokeIsBytes
    <2>3. ~kbd.extended /\ kbd.shift = wire.shift /\ seen.typed = seen.keys
      BY <2>1, <2>2 DEF Decoding
    <2>4. QED
      BY <2>3 DEF Decoding, sh, ty
  <1>14. PacketInv'
    BY <1>3, <1>9, <1>10, PacketFrame DEF InputInv
  <1>15. ClickInv'
    BY <1>3, <1>9, <1>10, ClickFrame DEF InputInv
  <1>16. QED
    BY <1>1, <1>3, <1>11, <1>12, <1>13, <1>14, <1>15, RingKept DEF InputInv

\* The main thread under an interrupt: woken from hlt, and holding none of the
\* handler's locks.
LEMMA Interrupted ==
    ASSUME InputInv, main.irq, main' = [main EXCEPT !.pc = IF @ = "hlt" THEN "pump" ELSE @]
    PROVE  /\ main' \in MainType
           /\ main'.irq => main'.held \subseteq {"HEAP"}
           /\ main'.pc = "feed" => wire.usb # <<>>
           /\ \A locks \in SUBSET (Lock \ {"HEAP"}) : main.held \cap locks = {}
  <1>1. main \in MainType /\ main.held \subseteq {"HEAP"} /\ (main.pc = "feed" => wire.usb # <<>>)
    BY TypeParts DEF InputInv, LockDiscipline
  <1>2. main' \in MainType /\ main'.irq = main.irq /\ main'.held = main.held
        /\ (main'.pc = "feed" => main.pc = "feed")
    BY <1>1 DEF MainType, Place
  <1>3. QED
    BY <1>1, <1>2

LEMMA KeyboardKeeps ==
    ASSUME InputInv, keyboard
    PROVE  InputInv' /\ RingStep
  <1>1. /\ ring \in Ring /\ wire \in WireType /\ seen \in SeenType /\ mouse \in MouseType
        /\ kbd \in [shift : BOOLEAN, extended : BOOLEAN] /\ hung \in BOOLEAN /\ ~hung
    BY TypeParts DEF InputInv, LockDiscipline
  <1>2. wire.kbd \in Seq(0..255) /\ wire.kbd # <<>> /\ wire.shift \in BOOLEAN
        /\ seen.typed \in Seq(Key) /\ seen.keys \in Seq(Key)
    BY <1>1 DEF keyboard, WireType, SeenType
  <1> DEFINE code == wire.kbd[1]
  <1>3. code \in 0..255 /\ Head(wire.kbd) = code /\ Tail(wire.kbd) \in Seq(0..255)
    <2>1. Head(wire.kbd) \in 0..255 /\ Tail(wire.kbd) \in Seq(0..255)
      BY <1>2, HeadTailProperties
    <2>2. QED
      BY <1>2, <2>1
  <1>4. main.irq /\ main' = [main EXCEPT !.pc = IF @ = "hlt" THEN "pump" ELSE @]
        /\ wire' = [wire EXCEPT !.kbd = Tail(wire.kbd)]
    BY DEF keyboard, Interrupt
  <1>5. main.held \cap {"KBD", "QUEUE", "PICS"} = {}
    BY <1>4, Interrupted DEF Lock
  <1>6. on_keyboard_byte(code) /\ UNCHANGED hung
    BY <1>3, <1>5 DEF keyboard, Interrupt
  <1> HIDE DEF code
  <1>7. /\ ring' \in Ring /\ IsPrefix(Queued(ring), Queued(ring'))
        /\ kbd' \in [shift : BOOLEAN, extended : BOOLEAN]
        /\ Shifted(code, kbd, kbd')
        /\ mouse' = mouse
        /\ seen' = [seen EXCEPT !.keys = seen.keys \o Decoded(code, kbd)]
        /\ seen' \in SeenType
    BY <1>1, <1>3, <1>6, KeyByte
  <1>8. seen'.keys = seen.keys \o Decoded(code, kbd)
        /\ seen'.typed = seen.typed /\ seen'.lost = seen.lost
        /\ seen'.noisy = seen.noisy /\ seen'.crossed = seen.crossed /\ seen'.held = seen.held
        /\ seen'.clicks = seen.clicks /\ seen'.presses = seen.presses
    BY <1>1, <1>7 DEF SeenType
  <1>9. wire' \in WireType /\ wire'.kbd = Tail(wire.kbd) /\ wire'.shift = wire.shift
        /\ wire'.mouse = wire.mouse /\ wire'.usb = wire.usb /\ wire'.left = wire.left
        /\ wire'.usbLeft = wire.usbLeft
    BY <1>1, <1>3, <1>4 DEF WireType
  <1>10. TypeOK' /\ LockDiscipline'
    <2>1. main' \in MainType /\ (main'.irq => main'.held \subseteq {"HEAP"})
          /\ (main'.pc = "feed" => wire'.usb # <<>>)
      BY <1>4, <1>9, Interrupted
    <2>2. QED
      <3>1. TypeOK'
        BY <1>1, <1>6, <1>7, <1>9, <2>1, TypeAfter
      <3>2. LockDiscipline'
        BY <1>1, <1>6, <2>1 DEF LockDiscipline
      <3>3. QED
        BY <3>1, <3>2
  <1>11. KeyInv'
    <2> SUFFICES ASSUME seen.lost = 0
                 PROVE  Decoding(Tail(wire.kbd), kbd', wire.shift, seen.typed,
                                 seen.keys \o Decoded(code, kbd))
      BY <1>8, <1>9 DEF KeyInv
    <2>1. Decoding(wire.kbd, kbd, wire.shift, seen.typed, seen.keys)
      BY DEF InputInv, KeyInv
    <2>2. QED
      <3>1. Shifted(wire.kbd[1], kbd, kbd')
        BY <1>7 DEF code
      <3>2. Decoding(Tail(wire.kbd), kbd', wire.shift, seen.typed,
                     seen.keys \o Decoded(wire.kbd[1], kbd))
        BY <1>1, <1>2, <1>7, <2>1, <3>1, DecodesNext
      <3>3. QED
        BY <3>2 DEF code
  <1>12. PacketInv'
    BY <1>7, <1>8, <1>9, PacketFrame DEF InputInv
  <1>13. ClickInv'
    BY <1>7, <1>8, <1>9, ClickFrame DEF InputInv
  <1>14. QED
    BY <1>7, <1>10, <1>11, <1>12, <1>13 DEF InputInv, RingStep

-----------------------------------------------------------------------------
(* The mice *)

LEMMA Edges ==
    ASSUME NEW a \in BOOLEAN, NEW b \in BOOLEAN, NEW c \in BOOLEAN
    PROVE  /\ Edge(a, b) \in {0, 1}
           /\ Edge(a, a) = 0
           /\ Edge(a, c) <= Edge(a, b) + Edge(b, c)
  BY DEF Edge

LEMMA OwedGrows ==
    ASSUME NEW idx \in 0..2, NEW h \in BOOLEAN, NEW a \in BOOLEAN, NEW w \in BOOLEAN,
           NEW w2 \in BOOLEAN
    PROVE  /\ Owed(idx, h, a, w) \in Nat
           /\ Owed(idx, h, a, w2) <= Owed(idx, h, a, w) + Edge(w, w2)
  <1>1. /\ Edge(h, w) \in {0, 1} /\ Edge(h, w2) \in {0, 1} /\ Edge(h, a) \in {0, 1}
        /\ Edge(a, w) \in {0, 1} /\ Edge(a, w2) \in {0, 1} /\ Edge(w, w2) \in {0, 1}
    BY Edges
  <1>2. Edge(h, w2) <= Edge(h, w) + Edge(w, w2) /\ Edge(a, w2) <= Edge(a, w) + Edge(w, w2)
    BY Edges
  <1>3. QED
    BY <1>1, <1>2 DEF Owed

LEMMA PacketSentKeeps ==
    ASSUME InputInv, PacketSent
    PROVE  InputInv' /\ RingStep
  <1>1. /\ ring \in Ring /\ wire \in WireType /\ seen \in SeenType /\ mouse \in MouseType
        /\ main \in MainType /\ kbd \in [shift : BOOLEAN, extended : BOOLEAN]
        /\ hung \in BOOLEAN /\ (main.pc = "feed" => wire.usb # <<>>)
    BY TypeParts DEF InputInv
  <1>2. PICK p \in Packet :
          /\ wire' = [wire EXCEPT !.mouse = p, !.left = Bit(p[1], 0)]
          /\ seen' = [seen EXCEPT !.presses = IF Bit(p[1], 0) /\ ~wire.left THEN @ + 1 ELSE @,
                                  !.noisy = @ \/ Bit(p[2], 3) \/ Bit(p[3], 3),
                                  !.input = @ + 1]
    BY DEF PacketSent
  <1>3. wire.mouse = <<>> /\ UNCHANGED <<ring, kbd, mouse, main, hung>>
    BY DEF PacketSent
  <1> DEFINE l == Bit(p[1], 0)
             pr == seen.presses + Edge(wire.left, l)
             no == seen.noisy \/ Bit(p[2], 3) \/ Bit(p[3], 3)
             in == seen.input + 1
  <1>4. /\ wire.left \in BOOLEAN /\ seen.presses \in Nat /\ seen.noisy \in BOOLEAN
        /\ seen.input \in Nat
    BY <1>1 DEF WireType, SeenType
  <1>5. l \in BOOLEAN
    BY DEF Bit
  <1>6. Bit(p[1], 3)
    BY InputAssumption
  <1>7. p \in Seq(0..255) /\ Len(p) = 3
    BY InputAssumption
  <1>8. pr = (IF l /\ ~wire.left THEN seen.presses + 1 ELSE seen.presses)
        /\ pr \in Nat /\ no \in BOOLEAN /\ in \in Nat
    BY <1>4, <1>5 DEF Edge
  <1>9. wire' = [wire EXCEPT !.mouse = p, !.left = l]
        /\ seen' = [seen EXCEPT !.presses = pr, !.noisy = no, !.input = in]
    BY <1>2, <1>8
  <1> HIDE DEF l, pr, no, in
  <1>10. wire' \in WireType /\ wire'.mouse = p /\ wire'.left = l /\ wire'.kbd = wire.kbd
         /\ wire'.usb = wire.usb /\ wire'.shift = wire.shift /\ wire'.usbLeft = wire.usbLeft
    BY <1>1, <1>5, <1>7, <1>9 DEF WireType
  <1>11. seen' \in SeenType /\ seen'.typed = seen.typed /\ seen'.keys = seen.keys
         /\ seen'.lost = seen.lost /\ seen'.noisy = no /\ seen'.crossed = seen.crossed
         /\ seen'.held = seen.held /\ seen'.clicks = seen.clicks /\ seen'.presses = pr
    BY <1>1, <1>8, <1>9 DEF SeenType
  <1>12. TypeOK'
    BY <1>1, <1>3, <1>10, <1>11, TypeAfter
  <1>13. LockDiscipline'
    BY <1>3 DEF InputInv, LockDiscipline
  <1>14. KeyInv'
    BY <1>3, <1>10, <1>11, KeyFrame DEF InputInv
  <1>15. PacketInv'
    <2>1. mouse.idx \in 0..2 /\ (seen.lost = 0 => mouse.idx = 0)
      BY <1>1, <1>3 DEF InputInv, PacketInv, MouseType
    <2>2. ~no => ~Bit(p[2], 3) /\ ~Bit(p[3], 3)
      BY DEF no
    <2>3. \A i \in 1..3 : i > 3 - 2 => i = 2 \/ i = 3
      OBVIOUS
    <2>4. no \/ \A i \in 1..3 : i > 3 - 2 => ~Bit(p[i], 3)
      BY <2>2, <2>3
    <2>5. Len(wire'.mouse) <= 3 /\ Bit(wire'.mouse[1], 3) /\ Bit(wire'.mouse[1], 0) = wire'.left
      <3>1. Len(wire'.mouse) <= 3
        <4>1. wire'.mouse = p
          BY <1>10
        <4>2. Len(wire'.mouse) = 3
          BY <1>7, <4>1
        <4>3. QED
          BY <4>2
      <3>2. Bit(wire'.mouse[1], 3)
        BY <1>6, <1>10
      <3>3. Bit(wire'.mouse[1], 0) = wire'.left
        BY <1>10 DEF l
      <3>4. QED
        BY <3>1, <3>2, <3>3
    <2>6. seen'.noisy \/ \A i \in 1..Len(wire'.mouse) :
                             i > Len(wire'.mouse) - 2 => ~Bit(wire'.mouse[i], 3)
      BY <1>7, <1>10, <1>11, <2>4
    <2>7. seen'.lost = 0 => mouse'.idx = 0 /\ Len(wire'.mouse) = 3
      BY <1>3, <1>7, <1>10, <1>11, <2>1
    <2>8. QED
      BY <2>5, <2>6, <2>7 DEF PacketInv
  <1>16. ClickInv'
    <2>1. Trusted' => Trusted
      BY <1>11 DEF Trusted, no
    <2> DEFINE h == "ps2" \in seen.held
               a == Bit(mouse.packet[1], 0)
    <2>2. mouse.idx \in 0..2 /\ h \in BOOLEAN /\ a \in BOOLEAN
      BY <1>1 DEF MouseType, Bit
    <2>3. OwedPs2' = Owed(mouse.idx, h, a, l) /\ OwedPs2 = Owed(mouse.idx, h, a, wire.left)
          /\ OwedUsb' = OwedUsb
      BY <1>3, <1>10, <1>11 DEF OwedPs2, OwedUsb
    <2> HIDE DEF h, a
    <2>4. OwedPs2 \in Nat /\ OwedPs2' \in Nat /\ OwedPs2' <= OwedPs2 + Edge(wire.left, l)
      BY <1>4, <1>5, <2>2, <2>3, OwedGrows
    <2>5. OwedUsb \in Nat /\ seen.clicks \in Nat /\ Edge(wire.left, l) \in Nat
      BY <1>1 DEF OwedUsb, Edge, SeenType
    <2>6. Trusted => seen.clicks + OwedPs2' + OwedUsb <= pr
      BY <1>4, <2>4, <2>5 DEF InputInv, ClickInv, pr
    <2>7. QED
      BY <1>3, <1>10, <1>11, <2>1, <2>3, <2>6 DEF InputInv, ClickInv
  <1>17. QED
    BY <1>1, <1>3, <1>12, <1>13, <1>14, <1>15, <1>16, RingKept DEF InputInv

LEMMA ReportArrivedKeeps ==
    ASSUME InputInv, ReportArrived
    PROVE  InputInv' /\ RingStep
  <1>1. /\ ring \in Ring /\ wire \in WireType /\ seen \in SeenType /\ mouse \in MouseType
        /\ main \in MainType /\ kbd \in [shift : BOOLEAN, extended : BOOLEAN]
        /\ hung \in BOOLEAN
    BY TypeParts DEF InputInv
  <1>2. PICK r \in UsbReport :
          /\ wire' = [wire EXCEPT !.usb = <<r>>, !.usbLeft = r.left]
          /\ seen' = [seen EXCEPT !.presses = IF r.left /\ ~wire.usbLeft THEN @ + 1 ELSE @,
                                  !.input = @ + 1]
    BY DEF ReportArrived
  <1>3. UNCHANGED <<ring, kbd, mouse, main, hung>>
    BY DEF ReportArrived
  <1> DEFINE l == r.left
             pr == seen.presses + Edge(wire.usbLeft, l)
             in == seen.input + 1
  <1>4. wire.usbLeft \in BOOLEAN /\ seen.presses \in Nat /\ seen.input \in Nat
    BY <1>1 DEF WireType, SeenType
  <1>5. l \in BOOLEAN
    BY InputAssumption
  <1>6. pr = (IF l /\ ~wire.usbLeft THEN seen.presses + 1 ELSE seen.presses)
        /\ pr \in Nat /\ in \in Nat
    BY <1>4, <1>5 DEF Edge
  <1>7. wire' = [wire EXCEPT !.usb = <<r>>, !.usbLeft = l]
        /\ seen' = [seen EXCEPT !.presses = pr, !.input = in]
    BY <1>2, <1>6
  <1>8. <<r>> \in Seq(UsbReport) /\ <<r>> # <<>> /\ <<r>>[1].left = l
    OBVIOUS
  <1> HIDE DEF l, pr, in
  <1>9. wire' \in WireType /\ wire'.mouse = wire.mouse /\ wire'.left = wire.left
        /\ wire'.kbd = wire.kbd /\ wire'.usb = <<r>> /\ wire'.shift = wire.shift
        /\ wire'.usbLeft = l
    BY <1>1, <1>5, <1>7, <1>8 DEF WireType
  <1>10. seen' \in SeenType /\ seen'.typed = seen.typed /\ seen'.keys = seen.keys
         /\ seen'.lost = seen.lost /\ seen'.noisy = seen.noisy /\ seen'.crossed = seen.crossed
         /\ seen'.held = seen.held /\ seen'.clicks = seen.clicks /\ seen'.presses = pr
    BY <1>1, <1>6, <1>7 DEF SeenType
  <1>11. TypeOK'
    BY <1>1, <1>3, <1>8, <1>9, <1>10, TypeAfter
  <1>12. LockDiscipline'
    BY <1>3 DEF InputInv, LockDiscipline
  <1>13. KeyInv'
    BY <1>3, <1>9, <1>10, KeyFrame DEF InputInv
  <1>14. PacketInv'
    BY <1>3, <1>9, <1>10, PacketFrame DEF InputInv
  <1>15. ClickInv'
    <2>1. Trusted' <=> Trusted
      BY <1>10 DEF Trusted
    <2> DEFINE h == "usb" \in seen.held
    <2>2. h \in BOOLEAN
      OBVIOUS
    <2>3. OwedUsb' = Edge(h, l) /\ OwedUsb = Edge(h, wire.usbLeft) /\ OwedPs2' = OwedPs2
      BY <1>3, <1>9, <1>10 DEF OwedPs2, OwedUsb
    <2> HIDE DEF h
    <2>4. OwedUsb \in Nat /\ OwedUsb' \in Nat /\ Edge(wire.usbLeft, l) \in Nat
      BY <2>3 DEF Edge
    <2>5. OwedUsb' <= OwedUsb + Edge(wire.usbLeft, l)
      BY <1>4, <1>5, <2>2, <2>3, Edges
    <2>6. OwedPs2 \in Nat /\ seen.clicks \in Nat
      BY <1>1 DEF OwedPs2, Owed, Edge, SeenType
    <2>7. Trusted => seen.clicks + OwedPs2 + OwedUsb' <= pr
      BY <1>4, <2>4, <2>5, <2>6 DEF InputInv, ClickInv, pr
    <2>8. wire'.usb # <<>> => wire'.usb[1].left = wire'.usbLeft
      BY <1>8, <1>9
    <2>9. QED
      BY <1>3, <1>9, <1>10, <2>1, <2>3, <2>7, <2>8 DEF InputInv, ClickInv
  <1>16. QED
    BY <1>1, <1>3, <1>11, <1>12, <1>13, <1>14, <1>15, RingKept DEF InputInv

\* What is left of a packet when a byte was taken or lost.
LEMMA PacketTail ==
    ASSUME PacketInv, NEW s \in Seq(0..255), s = wire.mouse, s # <<>>
    PROVE  /\ Tail(s) \in Seq(0..255) /\ Len(Tail(s)) = Len(s) - 1 /\ Len(s) \in 1..3
           /\ s[1] \in 0..255 /\ Head(s) = s[1]
           /\ Len(s) = 3 => Bit(s[1], 3) /\ Bit(s[1], 0) = wire.left
           /\ seen.noisy \/ \A i \in 1..Len(Tail(s)) : i > Len(Tail(s)) - 2 => ~Bit(Tail(s)[i], 3)
           /\ ~seen.noisy /\ Bit(s[1], 3) => Len(s) = 3
  <1>1. Tail(s) \in Seq(0..255) /\ Len(Tail(s)) = Len(s) - 1 /\ Head(s) = s[1] /\ Head(s) \in 0..255
        /\ \A i \in 1..Len(Tail(s)) : Tail(s)[i] = s[i + 1]
    BY HeadTailProperties
  <1>2. Len(s) \in 1..3
    <2>1. Len(s) \in Nat /\ Len(s) # 0
      OBVIOUS
    <2>2. Len(s) <= 3
      BY DEF PacketInv
    <2> DEFINE n == Len(s)
    <2> HIDE DEF n
    <2>3. n \in Nat /\ n # 0 /\ n <= 3 => n \in 1..3
      OBVIOUS
    <2>4. QED
      BY <2>1, <2>2, <2>3 DEF n
  <1>3. Len(s) = 3 => Bit(s[1], 3) /\ Bit(s[1], 0) = wire.left
    BY DEF PacketInv
  <1>4. seen.noisy \/ \A i \in 1..Len(s) : i > Len(s) - 2 => ~Bit(s[i], 3)
    BY DEF PacketInv
  <1>5. ASSUME ~seen.noisy, NEW i \in 1..Len(Tail(s)), i > Len(Tail(s)) - 2
        PROVE  ~Bit(Tail(s)[i], 3)
    <2>1. i + 1 \in 1..Len(s) /\ i + 1 > Len(s) - 2
      BY <1>1, <1>2, <1>5
    <2>2. ~Bit(s[i + 1], 3)
      BY <1>4, <1>5, <2>1
    <2>3. QED
      BY <1>1, <2>2
  <1>6. ASSUME ~seen.noisy, Bit(s[1], 3)
        PROVE  Len(s) = 3
    <2> DEFINE n == Len(s)
    <2>1. 1 \in 1..n => ~(1 > n - 2)
      BY <1>4, <1>6
    <2>2. n \in 1..3
      BY <1>2
    <2> HIDE DEF n
    <2>3. n = 3
      BY <2>1, <2>2
    <2>4. QED
      BY <2>3 DEF n
  <1>7. QED
    BY <1>1, <1>2, <1>3, <1>5, <1>6

LEMMA ByteLostKeeps ==
    ASSUME InputInv, ByteLost
    PROVE  InputInv' /\ RingStep
  <1>1. /\ ring \in Ring /\ wire \in WireType /\ seen \in SeenType /\ mouse \in MouseType
        /\ main \in MainType /\ kbd \in [shift : BOOLEAN, extended : BOOLEAN]
        /\ hung \in BOOLEAN /\ (main.pc = "feed" => wire.usb # <<>>)
    BY TypeParts DEF InputInv
  <1>2. UNCHANGED <<ring, kbd, mouse, main, hung>> /\ seen' = [seen EXCEPT !.lost = @ + 1]
    BY DEF ByteLost
  <1>3. seen.lost \in Nat /\ wire.mouse \in Seq(0..255) /\ wire.kbd \in Seq(0..255)
    BY <1>1 DEF SeenType, WireType
  <1> DEFINE lo == seen.lost + 1
  <1>3a. lo \in Nat /\ lo # 0 /\ seen' = [seen EXCEPT !.lost = lo]
    BY <1>2, <1>3
  <1> HIDE DEF lo
  <1>4. seen' \in SeenType /\ seen'.lost # 0
        /\ seen'.noisy = seen.noisy /\ seen'.crossed = seen.crossed
        /\ seen'.held = seen.held /\ seen'.clicks = seen.clicks /\ seen'.presses = seen.presses
    BY <1>1, <1>3a DEF SeenType
  <1>5. LockDiscipline' /\ KeyInv'
    BY <1>2, <1>4 DEF InputInv, LockDiscipline, KeyInv
  <1>6. ASSUME wire'.usb = wire.usb, wire'.usbLeft = wire.usbLeft, wire'.left = wire.left
        PROVE  ClickInv'
    <2>1. Trusted' => Trusted
      BY <1>4 DEF Trusted
    <2>2. OwedPs2' = OwedPs2 /\ OwedUsb' = OwedUsb
      BY <1>2, <1>4, <1>6 DEF OwedPs2, OwedUsb
    <2>3. QED
      BY <1>2, <1>4, <1>6, <2>1, <2>2 DEF InputInv, ClickInv
  <1>7. CASE wire.mouse # <<>> /\ wire' = [wire EXCEPT !.mouse = Tail(@)]
    <2> DEFINE s == wire.mouse
    <2>1. s \in Seq(0..255) /\ s # <<>> /\ PacketInv
      BY <1>3, <1>7 DEF InputInv
    <2>2. /\ Tail(s) \in Seq(0..255) /\ Len(Tail(s)) = Len(s) - 1 /\ Len(s) \in 1..3
          /\ seen.noisy \/ \A i \in 1..Len(Tail(s)) : i > Len(Tail(s)) - 2 => ~Bit(Tail(s)[i], 3)
      BY <2>1, PacketTail
    <2>3. wire' \in WireType /\ wire'.mouse = Tail(s) /\ wire'.left = wire.left
          /\ wire'.usb = wire.usb /\ wire'.usbLeft = wire.usbLeft
      BY <1>1, <1>7, <2>2 DEF WireType
    <2> HIDE DEF s
    <2>4. PacketInv'
      <3> DEFINE u == Tail(s)
      <3>1. Len(u) \in {0, 1, 2} /\ u = wire'.mouse
        BY <2>2, <2>3
      <3>2. Len(u) <= 3 /\ Len(u) # 3
        <4> DEFINE n == Len(u)
        <4> HIDE DEF n
        <4>1. n \in {0, 1, 2} => n <= 3 /\ n # 3
          OBVIOUS
        <4>2. QED
          BY <3>1, <4>1 DEF n
      <3>3. seen'.noisy \/ \A i \in 1..Len(u) : i > Len(u) - 2 => ~Bit(u[i], 3)
        BY <1>4, <2>2
      <3> HIDE DEF u
      <3>4. QED
        BY <1>4, <3>1, <3>2, <3>3 DEF PacketInv
    <2>5. TypeOK'
      BY <1>1, <1>2, <1>4, <2>3, TypeAfter
    <2>6. QED
      BY <1>1, <1>2, <1>5, <1>6, <2>3, <2>4, <2>5, RingKept DEF InputInv
  <1>8. CASE wire.kbd # <<>> /\ wire' = [wire EXCEPT !.kbd = Tail(@)]
    <2>1. Tail(wire.kbd) \in Seq(0..255)
      BY <1>3, <1>8
    <2>2. wire' \in WireType /\ wire'.mouse = wire.mouse /\ wire'.left = wire.left
          /\ wire'.usb = wire.usb /\ wire'.usbLeft = wire.usbLeft
      BY <1>1, <1>8, <2>1 DEF WireType
    <2>3. PacketInv'
      BY <1>4, <2>2 DEF InputInv, PacketInv
    <2>4. TypeOK'
      BY <1>1, <1>2, <1>4, <2>2, TypeAfter
    <2>5. QED
      BY <1>1, <1>2, <1>5, <1>6, <2>2, <2>3, <2>4, RingKept DEF InputInv
  <1>9. QED
    BY <1>7, <1>8 DEF ByteLost

\* The button when a report of device `at` was applied: the click is one that
\* was owed.
LEMMA ClickPaid ==
    ASSUME InputInv, NEW at \in {"ps2", "usb"}, NEW left \in BOOLEAN,
           Struck(mouse.left, left, at), Trusted'
    PROVE  /\ Trusted
           /\ seen'.clicks = seen.clicks + Edge(at \in seen.held, left)
           /\ (at \in seen'.held) = left
           /\ \A other \in {"ps2", "usb"} : other # at => (other \in seen'.held) = (other \in seen.held)
           /\ mouse'.left = (seen'.held # {}) /\ seen'.held # {"ps2", "usb"}
  <1>1. seen \in SeenType /\ mouse \in MouseType
    BY TypeParts DEF InputInv
  <1>2. seen.held \in SUBSET {"ps2", "usb"} /\ mouse.left \in BOOLEAN /\ seen.crossed \in BOOLEAN
    BY <1>1 DEF SeenType, MouseType
  <1>3. Trusted /\ seen.held \ {at} = {}
    BY DEF Struck, Trusted
  <1>4. mouse.left = (seen.held # {})
    BY <1>3 DEF InputInv, ClickInv
  <1>5. mouse.left = (at \in seen.held)
    BY <1>2, <1>3, <1>4
  <1>6. seen'.held = IF left THEN {at} ELSE {}
    BY <1>2, <1>3 DEF Struck
  <1>7. mouse'.left = (seen'.held # {}) /\ seen'.held # {"ps2", "usb"} /\ (at \in seen'.held) = left
    BY <1>6 DEF Struck
  <1>8. \A other \in {"ps2", "usb"} : other # at => (other \in seen'.held) = (other \in seen.held)
    BY <1>3, <1>6
  <1>9. seen'.clicks = seen.clicks + Edge(at \in seen.held, left)
    BY <1>5 DEF Struck
  <1>10. QED
    BY <1>3, <1>7, <1>8, <1>9

LEMMA FeedKeeps ==
    ASSUME InputInv, FeedDelta
    PROVE  InputInv' /\ RingStep
  <1>1. /\ ring \in Ring /\ wire \in WireType /\ seen \in SeenType /\ mouse \in MouseType
        /\ main \in MainType /\ kbd \in [shift : BOOLEAN, extended : BOOLEAN]
        /\ hung \in BOOLEAN /\ ~hung /\ (main.pc = "feed" => wire.usb # <<>>)
    BY TypeParts DEF InputInv, LockDiscipline
  <1> DEFINE r == wire.usb[1]
  <1>2. main' = [main EXCEPT !.pc = "drain", !.irq = TRUE, !.held = {}, !.repaint = main.repaint]
        /\ main.pc = "feed" /\ wire' = [wire EXCEPT !.usb = <<>>] /\ UNCHANGED <<kbd, hung>>
        /\ apply_motion(mouse, r.dx, r.dy, r.left, r.right, "usb")
    BY DEF FeedDelta, Leave
  <1>3. wire.usb \in Seq(UsbReport) /\ wire.usb # <<>>
    BY <1>1, <1>2 DEF WireType
  <1>4. r \in UsbReport /\ r.left = wire.usbLeft
    BY <1>3 DEF InputInv, ClickInv
  <1>5. r.dx \in Int /\ r.dy \in Int /\ r.left \in BOOLEAN /\ r.right \in BOOLEAN
    BY <1>4, InputAssumption
  <1> HIDE DEF r
  <1>6. /\ ring' \in Ring /\ IsPrefix(Queued(ring), Queued(ring'))
        /\ mouse' \in MouseType
        /\ mouse'.packet = mouse.packet /\ mouse'.idx = mouse.idx
        /\ seen' \in SeenType
        /\ Struck(mouse.left, r.left, "usb")
    BY <1>1, <1>2, <1>5, Motion
  <1>7. main' \in MainType /\ main'.held = {} /\ main'.pc = "drain"
    <2>1. main.repaint \in BOOLEAN
      BY <1>1 DEF MainType
    <2>2. QED
      BY <1>1, <1>2, <2>1 DEF MainType, Place
  <1>8. wire' \in WireType /\ wire'.usb = <<>> /\ wire'.kbd = wire.kbd /\ wire'.mouse = wire.mouse
        /\ wire'.shift = wire.shift /\ wire'.left = wire.left /\ wire'.usbLeft = wire.usbLeft
    <2>1. <<>> \in Seq(UsbReport)
      OBVIOUS
    <2>2. wire' = [wire EXCEPT !.usb = <<>>]
      BY <1>2
    <2>3. QED
      BY <1>1, <2>1, <2>2 DEF WireType
  <1>9. TypeOK'
    BY <1>1, <1>2, <1>6, <1>7, <1>8, TypeAfter
  <1>10. LockDiscipline'
    BY <1>1, <1>2, <1>7 DEF LockDiscipline
  <1>11. KeyInv'
    BY <1>2, <1>6, <1>8, KeyFrame DEF InputInv, Struck
  <1>12. PacketInv'
    BY <1>6, <1>8, PacketFrame DEF InputInv, Struck
  <1>13. ClickInv'
    <2> SUFFICES ASSUME Trusted'
                 PROVE  /\ mouse'.left = (seen'.held # {})
                        /\ seen'.held # {"ps2", "usb"}
                        /\ seen'.clicks + OwedPs2' + OwedUsb' <= seen'.presses
      BY <1>8 DEF ClickInv
    <2>1. /\ Trusted
          /\ seen'.clicks = seen.clicks + Edge("usb" \in seen.held, r.left)
          /\ ("usb" \in seen'.held) = r.left
          /\ ("ps2" \in seen'.held) = ("ps2" \in seen.held)
          /\ mouse'.left = (seen'.held # {}) /\ seen'.held # {"ps2", "usb"}
      BY <1>5, <1>6, ClickPaid
    <2>2. OwedPs2' = OwedPs2
      BY <1>6, <1>8, <2>1 DEF OwedPs2
    <2>3. OwedUsb' = 0
      BY <1>4, <1>5, <1>8, <2>1, Edges DEF OwedUsb
    <2>4. OwedUsb = Edge("usb" \in seen.held, r.left)
      BY <1>4 DEF OwedUsb
    <2>5. seen'.presses = seen.presses
      BY <1>6 DEF Struck
    <2>6. seen.clicks \in Nat /\ seen.presses \in Nat /\ OwedPs2 \in Nat /\ OwedUsb \in Nat
      BY <1>1 DEF SeenType, OwedPs2, OwedUsb, Owed, Edge
    <2>7. seen.clicks + OwedPs2 + OwedUsb <= seen.presses
      BY <2>1 DEF InputInv, ClickInv
    <2>8. seen'.clicks + OwedPs2' + OwedUsb' <= seen'.presses
      BY <2>1, <2>2, <2>3, <2>4, <2>5, <2>6, <2>7
    <2>9. QED
      BY <2>1, <2>8
  <1>14. QED
    BY <1>6, <1>9, <1>10, <1>11, <1>12, <1>13 DEF InputInv, RingStep

LEMMA MouseKeeps ==
    ASSUME InputInv, mouse_irq
    PROVE  InputInv' /\ RingStep
  <1>1. /\ ring \in Ring /\ wire \in WireType /\ seen \in SeenType /\ mouse \in MouseType
        /\ main \in MainType /\ kbd \in [shift : BOOLEAN, extended : BOOLEAN]
        /\ hung \in BOOLEAN /\ ~hung
    BY TypeParts DEF InputInv, LockDiscipline
  <1> DEFINE s == wire.mouse
             byte == s[1]
             a == Bit(mouse.packet[1], 0)
  <1>2. s \in Seq(0..255) /\ s # <<>> /\ PacketInv
    BY <1>1 DEF mouse_irq, WireType, InputInv
  <1>3. /\ Tail(s) \in Seq(0..255) /\ Len(Tail(s)) = Len(s) - 1 /\ Len(s) \in 1..3
        /\ byte \in 0..255 /\ Head(s) = byte
        /\ Len(s) = 3 => Bit(byte, 3) /\ Bit(byte, 0) = wire.left
        /\ seen.noisy \/ \A i \in 1..Len(Tail(s)) : i > Len(Tail(s)) - 2 => ~Bit(Tail(s)[i], 3)
        /\ ~seen.noisy /\ Bit(byte, 3) => Len(s) = 3
    BY <1>2, PacketTail
  <1>4. main.irq /\ main' = [main EXCEPT !.pc = IF @ = "hlt" THEN "pump" ELSE @]
        /\ wire' = [wire EXCEPT !.mouse = Tail(s)]
    BY DEF mouse_irq, Interrupt
  <1>5. main.held \cap {"MOUSE", "QUEUE", "PICS"} = {}
    BY <1>4, Interrupted DEF Lock
  <1>6. on_mouse_byte(byte) /\ UNCHANGED hung
    BY <1>3, <1>5 DEF mouse_irq, Interrupt
  <1>7. wire' \in WireType /\ wire'.mouse = Tail(s) /\ wire'.kbd = wire.kbd
        /\ wire'.shift = wire.shift /\ wire'.usb = wire.usb /\ wire'.left = wire.left
        /\ wire'.usbLeft = wire.usbLeft
    BY <1>1, <1>3, <1>4 DEF WireType
  <1>8. mouse.idx \in {0, 1, 2} /\ mouse.left \in BOOLEAN /\ wire.left \in BOOLEAN
        /\ a \in BOOLEAN /\ Bit(byte, 0) \in BOOLEAN
    BY <1>1 DEF MouseType, WireType, Bit
  <1>9. seen.lost = 0 => IF mouse.idx = 0 THEN Len(s) \in {0, 3} ELSE Len(s) = 3 - mouse.idx
    BY <1>2 DEF PacketInv
  <1> HIDE DEF s, byte, a
  <1>10. /\ ring' \in Ring /\ IsPrefix(Queued(ring), Queued(ring'))
         /\ kbd' = kbd /\ mouse' \in MouseType /\ seen' \in SeenType
         /\ Skipped(byte) \/ Kept(byte) \/ Completed
    BY <1>1, <1>3, <1>6, MouseByte
  <1>11. TypeOK' /\ LockDiscipline'
    <2>1. main' \in MainType /\ (main'.irq => main'.held \subseteq {"HEAP"})
          /\ (main'.pc = "feed" => wire'.usb # <<>>)
      BY <1>4, <1>7, Interrupted
    <2>2. TypeOK'
      BY <1>1, <1>6, <1>7, <1>10, <2>1, TypeAfter
    <2>3. LockDiscipline'
      BY <1>1, <1>6, <2>1 DEF LockDiscipline
    <2>4. QED
      BY <2>2, <2>3
  <1>12. seen'.lost = seen.lost /\ seen'.typed = seen.typed /\ seen'.keys = seen.keys
         /\ seen'.noisy = seen.noisy /\ seen'.presses = seen.presses
    BY <1>10 DEF Skipped, Kept, Completed, Struck
  <1>13. KeyInv'
    BY <1>7, <1>10, <1>12, KeyFrame DEF InputInv
  <1>14. PacketInv'
    <2> DEFINE u == Tail(s)
    <2>1. u = wire'.mouse /\ Len(u) <= 3 /\ Len(u) # 3
      <3> DEFINE n == Len(s)
                 k == Len(u)
      <3>1. n \in 1..3 /\ k = n - 1
        BY <1>3
      <3> HIDE DEF n, k
      <3>2. k <= 3 /\ k # 3
        BY <3>1
      <3>3. QED
        BY <1>7, <3>2 DEF k
    <2>2. seen'.noisy \/ \A i \in 1..Len(u) : i > Len(u) - 2 => ~Bit(u[i], 3)
      BY <1>3, <1>12
    <2>3. seen'.lost = 0 => IF mouse'.idx = 0 THEN Len(u) \in {0, 3} ELSE Len(u) = 3 - mouse'.idx
      <3> SUFFICES ASSUME seen.lost = 0
                   PROVE  IF mouse'.idx = 0 THEN Len(u) \in {0, 3} ELSE Len(u) = 3 - mouse'.idx
        BY <1>12
      <3> DEFINE n == Len(s)
                 k == Len(u)
      <3>1. n \in 1..3 /\ k = n - 1 /\ (n = 3 => Bit(byte, 3))
            /\ IF mouse.idx = 0 THEN n \in {0, 3} ELSE n = 3 - mouse.idx
        BY <1>3, <1>9
      <3> HIDE DEF n, k
      <3>2. CASE Skipped(byte)
        BY <3>1, <3>2 DEF Skipped
      <3>3. CASE Kept(byte)
        BY <3>1, <3>3 DEF Kept, k
      <3>4. CASE Completed
        BY <3>1, <3>4 DEF Completed, k
      <3>5. QED
        BY <1>10, <3>2, <3>3, <3>4
    <2> HIDE DEF u
    <2>4. QED
      BY <2>1, <2>2, <2>3 DEF PacketInv
  <1>15. ClickInv'
    <2>1. CASE Skipped(byte)
      BY <1>7, <2>1, ClickFrame DEF InputInv, Skipped
    <2>2. CASE Kept(byte)
      <3>1. (Trusted' <=> Trusted) /\ OwedUsb' = OwedUsb /\ mouse'.left = mouse.left
            /\ seen' = seen
        BY <1>7, <2>2 DEF Kept, Trusted, OwedUsb
      <3>2. Trusted => OwedPs2' = OwedPs2
        <4> SUFFICES ASSUME Trusted PROVE OwedPs2' = OwedPs2
          OBVIOUS
        <4> DEFINE h == "ps2" \in seen.held
        <4>1. OwedPs2 = Owed(mouse.idx, h, a, wire.left)
              /\ OwedPs2' = Owed(mouse'.idx, h, Bit(mouse'.packet[1], 0), wire.left)
          BY <1>7, <3>1 DEF OwedPs2, a
        <4>2. h \in BOOLEAN
          OBVIOUS
        <4> HIDE DEF h
        <4>3. CASE mouse.idx = 0
          <5>1. Len(s) = 3
            BY <1>3, <1>9, <2>2, <4>3 DEF Kept, Trusted
          <5>2. Bit(mouse'.packet[1], 0) = wire.left /\ mouse'.idx = 1
            BY <1>3, <2>2, <4>3, <5>1 DEF Kept
          <5>3. OwedPs2' = Edge(h, wire.left) + Edge(wire.left, wire.left)
            BY <4>1, <5>2 DEF Owed
          <5>4. Edge(wire.left, wire.left) = 0 /\ Edge(h, wire.left) \in {0, 1}
            BY <1>8, <4>2, Edges
          <5>5. OwedPs2 = Edge(h, wire.left)
            BY <4>1, <4>3 DEF Owed
          <5>6. QED
            BY <5>3, <5>4, <5>5
        <4>4. CASE mouse.idx = 1
          <5>1. Bit(mouse'.packet[1], 0) = a /\ mouse'.idx = 2
            BY <2>2, <4>4 DEF Kept, a
          <5>2. QED
            BY <4>1, <4>4, <5>1 DEF Owed
        <4>5. QED
          BY <2>2, <4>3, <4>4 DEF Kept
      <3>3. QED
        BY <1>7, <3>1, <3>2 DEF InputInv, ClickInv
    <2>3. CASE Completed
      <3>1. mouse.idx = 2 /\ mouse'.idx = 0 /\ Struck(mouse.left, a, "ps2")
        BY <2>3 DEF Completed, a
      <3> SUFFICES ASSUME Trusted'
                   PROVE  /\ mouse'.left = (seen'.held # {})
                          /\ seen'.held # {"ps2", "usb"}
                          /\ seen'.clicks + OwedPs2' + OwedUsb' <= seen'.presses
        BY <1>7 DEF InputInv, ClickInv
      <3>2. /\ Trusted
            /\ seen'.clicks = seen.clicks + Edge("ps2" \in seen.held, a)
            /\ ("ps2" \in seen'.held) = a
            /\ ("usb" \in seen'.held) = ("usb" \in seen.held)
            /\ mouse'.left = (seen'.held # {}) /\ seen'.held # {"ps2", "usb"}
        BY <1>8, <3>1, ClickPaid
      <3>3. OwedUsb' = OwedUsb
        BY <1>7, <3>2 DEF OwedUsb
      <3>4. OwedPs2 = Edge("ps2" \in seen.held, a) + Edge(a, wire.left)
        BY <3>1 DEF OwedPs2, Owed, a
      <3>5. OwedPs2' = Edge(a, wire.left)
        BY <1>7, <3>1, <3>2 DEF OwedPs2, Owed
      <3>6. seen.clicks \in Nat /\ seen.presses \in Nat /\ OwedUsb \in Nat
            /\ Edge("ps2" \in seen.held, a) \in Nat /\ Edge(a, wire.left) \in Nat
        BY <1>1 DEF SeenType, OwedUsb, Edge
      <3>7. seen.clicks + OwedPs2 + OwedUsb <= seen.presses
        BY <3>2 DEF InputInv, ClickInv
      <3>8. seen'.clicks + OwedPs2' + OwedUsb' <= seen'.presses
        BY <1>12, <3>2, <3>3, <3>4, <3>5, <3>6, <3>7
      <3>9. QED
        BY <3>2, <3>8
    <2>4. QED
      BY <1>10, <2>1, <2>2, <2>3
  <1>16. QED
    BY <1>10, <1>11, <1>13, <1>14, <1>15 DEF InputInv, RingStep

-----------------------------------------------------------------------------
(* Theorems *)

LEMMA StepKeeps ==
    ASSUME InputInv, [Next]_vars
    PROVE  InputInv' /\ RingStep
  <1>1. CASE Next
    BY <1>1, LoopKeeps, KeyPressedKeeps, KeyboardKeeps, PacketSentKeeps, ReportArrivedKeeps,
       ByteLostKeeps, FeedKeeps, MouseKeeps DEF Next, Devices, Interrupts, Main
  <1>2. CASE UNCHANGED vars
    <2>1. ring \in Ring /\ main \in MainType /\ (main.irq => main.held \subseteq {"HEAP"})
          /\ (main.pc = "feed" => wire.usb # <<>>)
      BY TypeParts DEF InputInv, LockDiscipline
    <2>2. UNCHANGED <<ring, kbd, mouse, main, hung, wire, seen>>
      BY <1>2 DEF vars
    <2>3. QED
      BY <2>1, <2>2, RingKept, MainMoves
  <1>3. QED
    BY <1>1, <1>2

\* The invariant of keyboard and pointer input holds whatever the devices send
\* and lose, wherever interrupts come in: types, the lock discipline of no_irq,
\* the decoder in step with the strokes, the packets and the presses not yet
\* applied.
THEOREM InputInvariant == Spec => []InputInv
  <1>1. InputInv /\ [Next]_vars => InputInv'
    BY StepKeeps
  <1>2. QED
    BY <1>1, InitialInv, PTL DEF Spec

\* apply_motion keeps the pointer on the screen, the ring keeps its bounds, and
\* feed_mouse_delta always has a report.
THEOREM TypeCorrect == Spec => []TypeOK
  <1>1. InputInv => TypeOK
    BY DEF InputInv
  <1>2. QED
    BY <1>1, InputInvariant, PTL

\* No handler ever spins on a lock of the thread it interrupted, since poll,
\* mouse_pos and feed_mouse_delta mask interrupts and handlers allocate nothing.
THEOREM NeverSpins == Spec => []NoSpinDeadlock
  <1>1. InputInv => NoSpinDeadlock
    BY DEF InputInv, LockDiscipline, NoSpinDeadlock
  <1>2. QED
    BY <1>1, InputInvariant, PTL

\* on_keyboard_byte decodes any sequence of strokes to the keys they mean, one
\* stroke's bytes at most being under way.
THEOREM KeysDecoded == Spec => []KeysAsTyped
  <1>1. InputInv => KeysAsTyped
    <2> SUFFICES ASSUME InputInv, seen.lost = 0
                 PROVE  /\ IsPrefix(seen.keys, seen.typed)
                        /\ wire.kbd = <<>> => seen.keys = seen.typed
      BY DEF KeysAsTyped
    <2>1. Decoding(wire.kbd, kbd, wire.shift, seen.typed, seen.keys)
      BY DEF InputInv, KeyInv
    <2>2. /\ seen \in SeenType /\ wire \in WireType
          /\ kbd \in [shift : BOOLEAN, extended : BOOLEAN]
      BY TypeParts DEF InputInv
    <2>3. seen.keys \in Seq(Key) /\ seen.typed \in Seq(Key) /\ kbd.shift \in BOOLEAN
      BY <2>2 DEF SeenType
    <2>4. IsPrefix(seen.keys, seen.keys)
      BY <2>3, PrefixOrder
    <2>5. \A s \in KeyStroke : IsPrefix(seen.keys, seen.keys \o Meaning(s, kbd.shift))
      BY <2>3, MeaningIsKeys, PrefixOrder
    <2>6. IsPrefix(seen.keys, seen.typed)
      BY <2>1, <2>4, <2>5 DEF Decoding
    <2>7. wire.kbd = <<>> => seen.keys = seen.typed
      <3>1. <<>> \notin KeyStroke /\ \A c : <<c>> # <<>>
        BY StrokeIsBytes
      <3> SUFFICES ASSUME wire.kbd = <<>> PROVE seen.keys = seen.typed
        OBVIOUS
      <3>2. Decoding(<<>>, kbd, wire.shift, seen.typed, seen.keys)
        BY <2>1
      <3>3. QED
        BY <3>1, <3>2 DEF Decoding
    <2>8. QED
      BY <2>6, <2>7
  <1>2. QED
    BY <1>1, InputInvariant, PTL

\* on_mouse_byte finds back into step by bit 3 alone: clicks never outnumber
\* presses although bytes are lost, under the conditions NoPhantomClick names.
THEOREM NoClickFromNothing == Spec => []NoPhantomClick
  <1>1. InputInv => NoPhantomClick
    <2> SUFFICES ASSUME InputInv, Trusted
                 PROVE  seen.clicks <= seen.presses
      BY DEF NoPhantomClick, Trusted
    <2>1. seen.clicks + OwedPs2 + OwedUsb <= seen.presses
      BY DEF InputInv, ClickInv
    <2>2. seen \in SeenType
      BY TypeParts DEF InputInv
    <2>3. seen.clicks \in Nat /\ seen.presses \in Nat /\ OwedPs2 \in Nat /\ OwedUsb \in Nat
      BY <2>2 DEF SeenType, OwedPs2, OwedUsb, Owed, Edge
    <2>4. QED
      BY <2>1, <2>3
  <1>2. QED
    BY <1>1, InputInvariant, PTL

\* EventRing is a queue at every capacity: pop takes the oldest event, push adds
\* behind the others, however often head and tail have wrapped.
THEOREM RingAlwaysQueue == Spec => RingIsQueue
  <1> DEFINE Step == \/ ring.len > 0 /\ Queued(ring') = Tail(Queued(ring))
                     \/ IsPrefix(Queued(ring), Queued(ring'))
  <1>1. InputInv /\ [Next]_vars => [Step]_ring
    BY StepKeeps DEF RingStep
  <1>2. QED
    BY <1>1, InputInvariant, PTL DEF Spec, RingIsQueue
=============================================================================
