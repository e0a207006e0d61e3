----------------------------- MODULE BuffersProofs ----------------------------
(***************************************************************************)
(* Proofs about memory that interrupts and callbacks share with the sketch.*)
(*   UART: the bytes are read in the order they arrive, none is missing    *)
(* until an overrun drops or a resize discards one, and what an overrun    *)
(* drops is reported (InOrder); what peek and available() promise holds    *)
(* (PeekPromise, AvailableHolds).                                          *)
(*   UDP: no object is left with a deleted context (UdpHolders), and the   *)
(* datagrams are framed (UdpFramed).                                       *)
(***************************************************************************)
EXTENDS UartRx, UdpSocket, NatLemmas, FiniteSetTheorems, SequenceTheorems

-----------------------------------------------------------------------------
(* UART: the ring buffer                                                   *)

\* The positions in the ring are taken modulo its size, at most once around.
LEMMA ModOnce ==
  ASSUME NEW s \in Nat \ {0}, NEW a \in Nat, a < 2 * s
  PROVE  a % s = IF a < s THEN a ELSE a - s
<1>1. PICK q \in Nat : q = a \div s
  OBVIOUS
<1>2. PICK r \in Nat : r = a % s
  OBVIOUS
<1>3. a = s * q + r /\ r < s
  BY <1>1, <1>2
<1>4. q < 2
  <2>1. s * q < 2 * s
    BY <1>3
  <2> SUFFICES ASSUME q >= 2 PROVE FALSE
    OBVIOUS
  <2>2. PICK e \in Nat : q = 2 + e
    <3>1. q - 2 \in Nat /\ q = 2 + (q - 2)
      OBVIOUS
    <3> QED BY <3>1
  <2>3. s * (2 + e) = s * 2 + s * e /\ s * e \in Nat
    OBVIOUS
  <2> QED BY <2>1, <2>2, <2>3
<1>5. q = 0 \/ q = 1
  BY <1>4
<1>6. CASE q = 0
  BY <1>2, <1>3, <1>6
<1>7. CASE q = 1
  BY <1>2, <1>3, <1>7
<1> QED BY <1>5, <1>6, <1>7

\* The position of byte i of a ring of size z that starts at p, and how many
\* bytes it holds if the next one goes to w.
Pos(p, i, z) == IF p + i - 1 < z THEN p + i - 1 ELSE p + i - 1 - z
Fill(p, w, z) == IF w < p THEN (w + z) - p ELSE w - p
Turn(x, z) == IF x + 1 < z THEN x + 1 ELSE 0

LEMMA PosIs ==
  ASSUME NEW z \in Nat \ {0}, NEW p \in 0..(z - 1), NEW i \in 1..z
  PROVE  Pos(p, i, z) \in 0..(z - 1) /\ (p + i - 1) % z = Pos(p, i, z)
<1>1. PICK a \in Nat : a = p + i - 1 /\ a < 2 * z
  OBVIOUS
<1>2. a % z = IF a < z THEN a ELSE a - z
  BY <1>1, ModOnce
<1> QED BY <1>1, <1>2 DEF Pos

LEMMA TurnIs ==
  ASSUME NEW z \in Nat \ {0}, NEW x \in 0..(z - 1)
  PROVE  Turn(x, z) \in 0..(z - 1) /\ (x + 1) % z = Turn(x, z)
<1>1. PICK a \in Nat : a = x + 1 /\ a < 2 * z
  OBVIOUS
<1>2. a % z = IF a < z THEN a ELSE a - z
  BY <1>1, ModOnce
<1> QED BY <1>1, <1>2 DEF Turn

LEMMA FillIs ==
  ASSUME NEW z \in Nat \ {0}, NEW p \in 0..(z - 1), NEW w \in 0..(z - 1)
  PROVE  /\ Fill(p, w, z) \in 0..(z - 1)
         /\ Turn(w, z) = p <=> Fill(p, w, z) = z - 1
  BY DEF Fill, Turn

\* The ring after the next byte, if there is room for it.
LEMMA RoomStep ==
  ASSUME NEW z \in Nat \ {0}, NEW p \in 0..(z - 1), NEW w \in 0..(z - 1), Turn(w, z) # p
  PROVE  /\ Fill(p, Turn(w, z), z) = Fill(p, w, z) + 1
         /\ Pos(p, Fill(p, w, z) + 1, z) = w
         /\ \A i \in 1..Fill(p, w, z) : Pos(p, i, z) # w
  BY DEF Fill, Turn, Pos

\* And if there is none: the oldest byte goes, its successor is the first.
LEMMA FullStep ==
  ASSUME NEW z \in Nat \ {0}, NEW p \in 0..(z - 1), NEW w \in 0..(z - 1), Turn(w, z) = p
  PROVE  /\ Fill(Turn(p, z), p, z) = z - 1
         /\ \A i \in 1..(z - 1) : Pos(Turn(p, z), i, z) = Pos(p, i + 1, z)
         /\ \A i \in 1..(z - 1) : (Pos(Turn(p, z), i, z) = w) <=> (i = z - 1)
  BY DEF Fill, Turn, Pos

Ring(b) ==
  /\ b = [size |-> b.size, rpos |-> b.rpos, wpos |-> b.wpos, buffer |-> b.buffer]
  /\ b.size \in Nat \ {0}
  /\ b.rpos \in 0..(b.size - 1) /\ b.wpos \in 0..(b.size - 1)
  /\ b.buffer \in [0..(b.size - 1) -> Bytes]

\* The byte i of the buffer, counted from rpos.
Item(b, i) == b.buffer[(b.rpos + i - 1) % b.size]

LEMMA ItemIs ==
  ASSUME NEW b, Ring(b), NEW i \in 1..b.size
  PROVE  Item(b, i) = b.buffer[Pos(b.rpos, i, b.size)] /\ Item(b, i) \in Bytes
<1>1. b.size \in Nat \ {0} /\ b.rpos \in 0..(b.size - 1)
  BY DEF Ring
<1>2. /\ Pos(b.rpos, i, b.size) \in 0..(b.size - 1)
      /\ (b.rpos + i - 1) % b.size = Pos(b.rpos, i, b.size)
  BY <1>1, PosIs
<1> QED BY <1>2 DEF Item, Ring

LEMMA AvailableIs ==
  ASSUME NEW b, Ring(b)
  PROVE  Available(b) = Fill(b.rpos, b.wpos, b.size) /\ Available(b) \in 0..(b.size - 1)
<1>1. Available(b) = Fill(b.rpos, b.wpos, b.size)
  BY DEF Available, Fill
<1> QED BY <1>1, FillIs DEF Ring

\* A byte is pushed behind the others; the oldest makes room in a full ring.
Pushed(s, t, data) ==
  /\ Ring(t.b) /\ t.b.size = s.b.size
  /\ Available(s.b) < s.b.size - 1 =>
       /\ t.over = s.over /\ t.b.rpos = s.b.rpos
       /\ Available(t.b) = Available(s.b) + 1
       /\ \A i \in 1..Available(s.b) : Item(t.b, i) = Item(s.b, i)
       /\ Item(t.b, Available(s.b) + 1) = data
  /\ Available(s.b) = s.b.size - 1 =>
       /\ t.over = TRUE /\ Available(t.b) = s.b.size - 1
       /\ \A i \in 1..(s.b.size - 1) :
             Item(t.b, i) = IF i = s.b.size - 1 THEN data ELSE Item(s.b, i + 1)

LEMMA PushIs ==
  ASSUME NEW s, Ring(s.b), s.over \in BOOLEAN, NEW data \in Bytes,
         NEW t, t = Push(s, data)
  PROVE  Pushed(s, t, data)
<1>1. PICK z \in Nat \ {0} : z = s.b.size
  BY DEF Ring
<1>2. PICK p \in 0..(z - 1) : p = s.b.rpos
  BY <1>1 DEF Ring
<1>3. PICK w \in 0..(z - 1) : w = s.b.wpos
  BY <1>1 DEF Ring
<1>4. PICK f \in [0..(z - 1) -> Bytes] : f = s.b.buffer
  BY <1>1 DEF Ring
<1>5. PICK g : g = [f EXCEPT ![w] = data]
  OBVIOUS
<1>6. /\ g \in [0..(z - 1) -> Bytes] /\ g[w] = data
      /\ \A x \in 0..(z - 1) : x # w => g[x] = f[x]
  BY <1>4, <1>5
<1>7. s.b = [size |-> z, rpos |-> p, wpos |-> w, buffer |-> f]
  BY <1>1, <1>2, <1>3, <1>4 DEF Ring
<1>8. PICK nw \in 0..(z - 1) : nw = Turn(w, z) /\ (w + 1) % z = nw
  BY TurnIs
<1>9. PICK np \in 0..(z - 1) : np = IF nw # p THEN p ELSE Turn(p, z)
  BY TurnIs
<1>10. (IF nw # p THEN p ELSE IF p + 1 = z THEN 0 ELSE p + 1) = np
  BY <1>9 DEF Turn
<1>11. /\ t.b = [size |-> z, rpos |-> np, wpos |-> nw, buffer |-> g]
       /\ t.over = (s.over \/ nw = p)
  <2>1. (s.b.wpos + 1) % s.b.size = nw
    BY <1>1, <1>3, <1>8
  <2>2. (IF ~(nw = s.b.rpos) THEN s.b.rpos
         ELSE IF s.b.rpos + 1 = s.b.size THEN 0 ELSE s.b.rpos + 1) = np
    BY <1>1, <1>2, <1>10
  <2>3. t.b = [size |-> s.b.size, rpos |-> np, wpos |-> nw,
               buffer |-> [s.b.buffer EXCEPT ![s.b.wpos] = data]]
    BY <2>1, <2>2 DEF Push
  <2>4. t.over = (s.over \/ nw = s.b.rpos)
    BY <2>1 DEF Push
  <2> QED BY <1>1, <1>2, <1>3, <1>4, <1>5, <2>3, <2>4
<1>12. Ring(t.b) /\ t.b.size = z
  BY <1>6, <1>11 DEF Ring
<1>13. Available(s.b) = Fill(p, w, z) /\ Available(t.b) = Fill(np, nw, z)
  BY <1>1, <1>2, <1>3, <1>11, <1>12, AvailableIs
<1>14. ASSUME NEW i \in 1..z
       PROVE  Item(t.b, i) = g[Pos(np, i, z)] /\ Item(s.b, i) = f[Pos(p, i, z)]
  <2>1. Item(t.b, i) = t.b.buffer[Pos(t.b.rpos, i, t.b.size)]
    BY <1>12, ItemIs
  <2>2. Item(s.b, i) = s.b.buffer[Pos(s.b.rpos, i, s.b.size)]
    BY <1>1, ItemIs
  <2> QED BY <1>7, <1>11, <2>1, <2>2
<1>15. PICK n \in 0..(z - 1) : n = Fill(p, w, z)
  BY FillIs
<1>16. Turn(w, z) = nw /\ Fill(p, w, z) = n /\ (nw = p <=> n = z - 1)
  BY <1>8, <1>15, FillIs
<1>17. Available(s.b) = n /\ n \in Nat
  BY <1>13, <1>15
<1>18. ASSUME n < z - 1
       PROVE  /\ t.over = s.over /\ t.b.rpos = s.b.rpos
              /\ Available(t.b) = n + 1
              /\ \A i \in 1..n : Item(t.b, i) = Item(s.b, i)
              /\ Item(t.b, n + 1) = data
  <2>1. nw # p /\ np = p
    BY <1>16, <1>9, <1>18
  <2>2. Fill(p, nw, z) = n + 1 /\ Pos(p, n + 1, z) = w /\ \A i \in 1..n : Pos(p, i, z) # w
    BY <1>16, <2>1, RoomStep
  <2>3. ASSUME NEW i \in 1..n PROVE Item(t.b, i) = Item(s.b, i)
    <3>1. i \in 1..z /\ Pos(p, i, z) \in 0..(z - 1)
      BY PosIs, SMTT(30)
    <3> QED BY <1>6, <1>14, <2>1, <2>2, <3>1
  <2>4. Item(t.b, n + 1) = data
    <3>1. n + 1 \in 1..z
      BY <1>18
    <3> QED BY <1>6, <1>14, <2>1, <2>2, <3>1
  <2>5. t.over = s.over /\ t.b.rpos = s.b.rpos
    BY <1>2, <1>11, <2>1
  <2>6. Available(t.b) = n + 1
    BY <1>13, <2>1, <2>2
  <2> QED BY <2>3, <2>4, <2>5, <2>6
<1>19. ASSUME n = z - 1
       PROVE  /\ t.over = TRUE /\ Available(t.b) = z - 1
              /\ \A i \in 1..(z - 1) :
                    Item(t.b, i) = IF i = z - 1 THEN data ELSE Item(s.b, i + 1)
  <2>1. nw = p /\ np = Turn(p, z)
    BY <1>16, <1>9, <1>19
  <2>2. t.over = TRUE /\ Available(t.b) = z - 1
    BY <1>16, <1>11, <1>13, <2>1, FullStep
  <2>3. ASSUME NEW i \in 1..(z - 1)
        PROVE  Item(t.b, i) = IF i = z - 1 THEN data ELSE Item(s.b, i + 1)
    <3>1. i \in 1..z /\ i + 1 \in 1..z
      OBVIOUS
    <3>2. Pos(np, i, z) = Pos(p, i + 1, z) /\ (Pos(np, i, z) = w <=> i = z - 1)
      BY <1>16, <2>1, FullStep
    <3>3. Pos(np, i, z) \in 0..(z - 1)
      BY <3>1, PosIs
    <3>4. g[Pos(np, i, z)] = IF i = z - 1 THEN data ELSE f[Pos(p, i + 1, z)]
      BY <1>6, <3>2, <3>3
    <3> QED BY <1>14, <3>1, <3>4
  <2> QED BY <2>2, <2>3
<1> QED BY <1>1, <1>12, <1>17, <1>18, <1>19, Zenon DEF Pushed

-----------------------------------------------------------------------------
(* UART: copying the FIFO to the ring                                      *)

\* The bytes that have arrived and are not delivered yet: the ring's, then
\* the FIFO's.
Stream(i) == IF i <= Available(rb) THEN Item(rb, i) ELSE hw[i - Available(rb)]

\* The ring r.b after k bytes of the FIFO were copied.
CopyOK(r, k) ==
  /\ Ring(r.b) /\ r.b.size = rb.size /\ r.over \in BOOLEAN
  /\ Available(rb) + k <= rb.size - 1 =>
       /\ r.over = FALSE /\ r.b.rpos = rb.rpos /\ Available(r.b) = Available(rb) + k
  /\ Available(rb) + k > rb.size - 1 =>
       r.over = TRUE /\ Available(r.b) = rb.size - 1
  /\ \A i \in 1..Available(r.b) :
       Item(r.b, i) = Stream(Available(rb) + k - Available(r.b) + i)

LEMMA CopyStep ==
  ASSUME Ring(rb), hw \in Seq(Bytes), NEW k \in Nat, k < Len(hw),
         NEW r, CopyOK(r, k), NEW t, t = Push(r, hw[k + 1])
  PROVE  CopyOK(t, k + 1)
<1>1. PICK z \in Nat \ {0} : z = rb.size
  BY DEF Ring
<1>2. PICK n \in 0..(z - 1) : n = Available(rb)
  BY <1>1, AvailableIs
<1>3. PICK a \in 0..(z - 1) : a = Available(r.b)
  BY <1>1, AvailableIs DEF CopyOK
<1>4. hw[k + 1] \in Bytes
  OBVIOUS
<1>5. Ring(r.b) /\ r.b.size = z /\ r.over \in BOOLEAN
  BY <1>1 DEF CopyOK
<1>6. /\ Ring(t.b) /\ t.b.size = z
      /\ a < z - 1 =>
           /\ t.over = r.over /\ t.b.rpos = r.b.rpos /\ Available(t.b) = a + 1
           /\ \A i \in 1..a : Item(t.b, i) = Item(r.b, i)
           /\ Item(t.b, a + 1) = hw[k + 1]
      /\ a = z - 1 =>
           /\ t.over = TRUE /\ Available(t.b) = z - 1
           /\ \A i \in 1..(z - 1) :
                 Item(t.b, i) = IF i = z - 1 THEN hw[k + 1] ELSE Item(r.b, i + 1)
  <2>1. Pushed(r, t, hw[k + 1])
    BY <1>4, <1>5, PushIs
  <2>2. Available(r.b) = a /\ r.b.size = z
    BY <1>3, <1>5
  <2> QED BY <2>1, <2>2, Zenon DEF Pushed
<1>7. \A i \in 1..a : Item(r.b, i) = Stream(n + k - a + i)
  BY <1>2, <1>3 DEF CopyOK
<1>8. Stream(n + k + 1) = hw[k + 1]
  <2>1. ~(n + k + 1 <= n) /\ n + k + 1 - n = k + 1
    OBVIOUS
  <2> QED BY <1>2, <2>1 DEF Stream
<1>9. ASSUME a < z - 1
      PROVE  CopyOK(t, k + 1)
  <2>1. n + k <= z - 1 /\ a = n + k
    BY <1>1, <1>2, <1>3, <1>9 DEF CopyOK
  <2>2. n + (k + 1) <= z - 1 /\ ~(n + (k + 1) > z - 1)
    BY <1>9, <2>1
  <2>3. t.over = FALSE /\ t.b.rpos = rb.rpos /\ Available(t.b) = n + (k + 1)
    BY <1>1, <1>2, <1>6, <1>9, <2>1, SMTT(30) DEF CopyOK
  <2>4. ASSUME NEW i \in 1..(n + (k + 1))
        PROVE  Item(t.b, i) = Stream(n + (k + 1) - (n + (k + 1)) + i)
    <3>1. n + (k + 1) - (n + (k + 1)) + i = i
      OBVIOUS
    <3>2. CASE i \in 1..a
      <4>1. n + k - a + i = i
        BY <2>1, <3>2
      <4> QED BY <1>6, <1>7, <1>9, <3>1, <3>2, <4>1, SMTT(30)
    <3>3. CASE i = a + 1
      <4>1. i = n + k + 1
        BY <2>1, <3>3
      <4> QED BY <1>6, <1>8, <1>9, <3>1, <3>3, <4>1
    <3> QED BY <2>1, <3>2, <3>3
  <2> QED BY <1>1, <1>2, <1>6, <2>2, <2>3, <2>4 DEF CopyOK
<1>10. ASSUME a = z - 1
       PROVE  CopyOK(t, k + 1)
  <2>1. n + (k + 1) > z - 1 /\ ~(n + (k + 1) <= z - 1)
    BY <1>1, <1>2, <1>3, <1>10 DEF CopyOK
  <2>2. t.over = TRUE /\ Available(t.b) = z - 1
    BY <1>6, <1>10
  <2>3. ASSUME NEW i \in 1..(z - 1)
        PROVE  Item(t.b, i) = Stream(n + (k + 1) - (z - 1) + i)
    <3>1. CASE i = z - 1
      <4>1. n + (k + 1) - (z - 1) + i = n + k + 1
        BY <3>1
      <4> QED BY <1>6, <1>8, <1>10, <3>1, <4>1
    <3>2. CASE i # z - 1
      <4>1. i + 1 \in 1..a /\ n + (k + 1) - (z - 1) + i = n + k - a + (i + 1)
        BY <1>10, <3>2
      <4>2. Item(r.b, i + 1) = Stream(n + k - a + (i + 1))
        BY <1>7, <4>1
      <4> QED BY <1>6, <1>10, <3>2, <4>1, <4>2
    <3> QED BY <3>1, <3>2
  <2> QED BY <1>1, <1>2, <1>6, <2>1, <2>2, <2>3 DEF CopyOK
<1> QED BY <1>9, <1>10

\* The loop has an outcome: were there none for k turns, there would be a
\* least such k, and one turn more from the outcome of k - 1 would be one.
Turns(f, k) ==
  f = [j \in 0..k |-> IF j = 0 THEN [b |-> rb, over |-> FALSE] ELSE Push(f[j - 1], hw[j])]

LEMMA TurnsExist == \A k \in Nat : \E f : Turns(f, k)
<1> DEFINE T == {k \in Nat : ~ \E f : Turns(f, k)}
<1> SUFFICES ASSUME T # {} PROVE FALSE
  OBVIOUS
<1>1. PICK k \in T : \A y \in T : k <= y
  BY LeastNat
<1>2. k \in Nat /\ ~ \E f : Turns(f, k)
  OBVIOUS
<1>3. CASE k = 0
  <2> DEFINE f == [j \in 0..0 |-> [b |-> rb, over |-> FALSE]]
  <2>1. Turns(f, 0)
    BY DEF Turns
  <2> QED BY <1>2, <1>3, <2>1
<1>4. CASE k # 0
  <2>1. k - 1 \in Nat /\ k - 1 \notin T
    BY <1>1, <1>2, <1>4
  <2>2. PICK f : Turns(f, k - 1)
    BY <2>1
  <2> DEFINE g == [j \in 0..k |-> IF j = k THEN Push(f[k - 1], hw[k]) ELSE f[j]]
  <2>3. ASSUME NEW j \in 0..k
        PROVE  g[j] = IF j = 0 THEN [b |-> rb, over |-> FALSE] ELSE Push(g[j - 1], hw[j])
    <3>1. CASE j = k
      <4>1. k - 1 \in 0..k /\ k - 1 # k
        BY <1>2, <2>1
      <4> QED BY <1>4, <3>1, <4>1
    <3>2. CASE j # k
      <4>1. j \in 0..(k - 1) /\ (j # 0 => j - 1 \in 0..k /\ j - 1 # k)
        BY <1>2, <3>2
      <4>2. f[j] = IF j = 0 THEN [b |-> rb, over |-> FALSE] ELSE Push(f[j - 1], hw[j])
        BY <2>2, <4>1 DEF Turns
      <4> QED BY <3>2, <4>1, <4>2
    <3> QED BY <3>1, <3>2
  <2>4. Turns(g, k)
    BY <2>3 DEF Turns
  <2> QED BY <1>2, <2>4
<1> QED BY <1>3, <1>4

\* uart_rx_copy_fifo_to_buffer_unsafe() leaves the newest bytes in the ring,
\* in order, and reports when there are more than fit.
LEMMA CopiedIs ==
  ASSUME Ring(rb), hw \in Seq(Bytes)
  PROVE  CopyOK(Copied, Len(hw))
<1>1. PICK m \in Nat : m = Len(hw)
  OBVIOUS
<1>2. PICK f : Turns(f, m) /\ Copied = f[m]
  <2>1. \E f : Turns(f, m)
    BY TurnsExist
  <2> QED BY <1>1, <2>1 DEF Copied, Turns
<1>3. f[0] = [b |-> rb, over |-> FALSE] /\ \A k \in 1..m : f[k] = Push(f[k - 1], hw[k])
  <2>1. \A j \in 0..m : f[j] = IF j = 0 THEN [b |-> rb, over |-> FALSE]
                               ELSE Push(f[j - 1], hw[j])
    BY <1>2 DEF Turns
  <2>2. 0 \in 0..m /\ \A k \in 1..m : k \in 0..m /\ k # 0
    OBVIOUS
  <2> QED BY <2>1, <2>2
<1> DEFINE T == {k \in 0..m : ~CopyOK(f[k], k)}
<1> SUFFICES ASSUME T # {} PROVE FALSE
  BY <1>1, <1>2
<1>4. T \subseteq Nat
  OBVIOUS
<1>5. PICK k \in T : \A y \in T : k <= y
  BY <1>4, LeastNat
<1>6. CASE k = 0
  <2>1. f[0].b = rb /\ f[0].over = FALSE
    BY <1>3
  <2>2. Available(rb) \in 0..(rb.size - 1) /\ rb.size \in Nat
    BY AvailableIs DEF Ring
  <2>3. \A i \in 1..Available(rb) : Item(rb, i) = Stream(Available(rb) + 0 - Available(rb) + i)
    <3> SUFFICES ASSUME NEW i \in 1..Available(rb)
                 PROVE  Item(rb, i) = Stream(Available(rb) + 0 - Available(rb) + i)
      OBVIOUS
    <3>1. PICK n \in Nat : n = Available(rb)
      BY <2>2
    <3>2. n + 0 - n + i = i
      OBVIOUS
    <3> QED BY <3>1, <3>2 DEF Stream
  <2>4. ~(Available(rb) + 0 > rb.size - 1) /\ Available(rb) + 0 = Available(rb)
    BY <2>2
  <2>5. CopyOK(f[0], 0)
    BY <2>1, <2>3, <2>4 DEF CopyOK
  <2> QED BY <1>6, <2>5
<1>7. CASE k # 0
  <2>1. k \in 1..m /\ k - 1 \in 0..m /\ k - 1 \in Nat /\ ~(k <= k - 1)
    BY <1>4, <1>7
  <2>2. CopyOK(f[k - 1], k - 1)
    BY <1>5, <2>1
  <2>3. f[k] = Push(f[k - 1], hw[(k - 1) + 1]) /\ k - 1 < Len(hw) /\ (k - 1) + 1 = k
    BY <1>1, <1>3, <2>1
  <2>4. CopyOK(f[k], (k - 1) + 1)
    BY <2>1, <2>2, <2>3, CopyStep
  <2> QED BY <2>3, <2>4
<1> QED BY <1>6, <1>7

-----------------------------------------------------------------------------
(* UART: the inductive invariant                                           *)

\* The n bytes of S are in order and not newer than r; those after the first
\* c are newer than l; and as long as nothing was lost they are all there are
\* after l.
StreamOK(S, n, c, l, r, e) ==
  /\ \A i \in 1..n : S[i] \in 1..r
  /\ \A i, j \in 1..n : i < j => S[i] < S[j]
  /\ \A i \in 1..n : i > c => S[i] > l
  /\ ~e => n - c = r - l /\ \A i \in 1..n : i > c => S[i] = l + (i - c)

Pending == Available(rb) + Len(hw)
View == [i \in 1..Pending |-> Stream(i)]

\* What peekBuffer() has delivered and peekConsume() has not yet discarded.
Gone == IF pc = "consume" THEN count ELSE 0

\* From peekAvailable() to peekConsume() nothing overruns the ring, so that
\* the bytes that were counted stay where they are.
Peeking ==
  pc \in {"peek", "consume"} =>
    /\ use = "peek" /\ Pending <= rb.size - 1
    /\ count <= Available(rb) /\ rb.rpos + count <= rb.size

\* The interrupt only adds to what available() has counted in the ring.
Counting == pc = "available" => count <= Available(rb)

UartInv ==
  /\ UartTypeOK /\ Ring(rb) /\ got # <<>>
  /\ LastByte <= received /\ GotInOrder /\ LossFlagged
  /\ StreamOK(View, Pending, Gone, LastByte, received, Gaps)
  /\ Peeking /\ Counting

\* T are the n bytes of S without the oldest d.
Shifted(T, S, n, d) == \A i \in 1..(n - d) : T[i] = S[i + d]

\* The oldest d bytes are lost.
LEMMA DropOK ==
  ASSUME NEW n \in Nat, NEW c \in 0..n, NEW l \in Nat, NEW r \in Nat, NEW e \in BOOLEAN,
         NEW S, StreamOK(S, n, c, l, r, e), NEW d \in 0..n, NEW f \in BOOLEAN,
         d > 0 => c = 0 /\ f, e => f, NEW T, Shifted(T, S, n, d)
  PROVE  StreamOK(T, n - d, c, l, r, f)
<1> USE DEF Shifted
<1>1. CASE d = 0
  BY <1>1 DEF StreamOK
<1>2. CASE d # 0
  <2>1. c = 0 /\ f /\ n - d \in Nat
    BY <1>2
  <2>2. \A i \in 1..(n - d) : i + d \in 1..n /\ i + d > 0
    OBVIOUS
  <2>3. \A i \in 1..(n - d) : T[i] \in 1..r
    BY <2>2 DEF StreamOK
  <2>4. \A i, j \in 1..(n - d) : i < j => T[i] < T[j]
    BY <2>2 DEF StreamOK
  <2>5. \A i \in 1..(n - d) : T[i] > l
    BY <2>1, <2>2 DEF StreamOK
  <2> QED BY <2>1, <2>3, <2>4, <2>5 DEF StreamOK
<1> QED BY <1>1, <1>2

\* What was delivered is discarded.
LEMMA ConsumeOK ==
  ASSUME NEW n \in Nat, NEW c \in 0..n, NEW l \in Nat, NEW r \in Nat, NEW e \in BOOLEAN,
         NEW S, StreamOK(S, n, c, l, r, e),
         NEW T, Shifted(T, S, n, c)
  PROVE  StreamOK(T, n - c, 0, l, r, e)
<1> USE DEF Shifted
<1>1. \A i \in 1..(n - c) : i + c \in 1..n /\ i + c > c /\ i + c - c = i - 0
  OBVIOUS
<1>2. \A i \in 1..(n - c) : T[i] \in 1..r /\ T[i] > l
  BY <1>1 DEF StreamOK
<1>3. \A i, j \in 1..(n - c) : i < j => T[i] < T[j]
  BY <1>1 DEF StreamOK
<1>4. ~e => n - c - 0 = r - l /\ \A i \in 1..(n - c) : T[i] = l + (i - 0)
  BY <1>1 DEF StreamOK
<1> QED BY <1>2, <1>3, <1>4 DEF StreamOK

\* The oldest d bytes are delivered.
LEMMA TakeOK ==
  ASSUME NEW n \in Nat, NEW l \in Nat, NEW r \in Nat, NEW e \in BOOLEAN,
         NEW S, StreamOK(S, n, 0, l, r, e), NEW d \in 0..n,
         NEW k \in Nat, k = IF d = 0 THEN l ELSE S[d]
  PROVE  StreamOK(S, n, d, k, r, e)
<1>1. CASE d = 0
  BY <1>1
<1>2. CASE d # 0
  <2>1. d \in 1..n /\ k = S[d]
    BY <1>2
  <2>2. \A i \in 1..n : S[i] \in 1..r
    BY DEF StreamOK
  <2>3. \A i, j \in 1..n : i < j => S[i] < S[j]
    BY DEF StreamOK
  <2>4. \A i \in 1..n : i > d => S[i] > k
    BY <2>1, <2>3
  <2>5. ASSUME ~e
        PROVE  n - d = r - k /\ \A i \in 1..n : i > d => S[i] = k + (i - d)
    <3>1. n = r - l /\ \A i \in 1..n : S[i] = l + i
      BY <2>5 DEF StreamOK
    <3>2. k = l + d
      BY <2>1, <3>1
    <3> QED BY <3>1, <3>2
  <2> QED BY <2>2, <2>3, <2>4, <2>5 DEF StreamOK
<1> QED BY <1>1, <1>2

\* A byte arrives, or is lost at the door.
LEMMA ArriveOK ==
  ASSUME NEW n \in Nat, NEW c \in 0..n, NEW l \in Nat, NEW r \in Nat, NEW e \in BOOLEAN,
         NEW S, StreamOK(S, n, c, l, r, e), l <= r,
         NEW T, \A i \in 1..n : T[i] = S[i], T[n + 1] = r + 1
  PROVE  StreamOK(T, n + 1, c, l, r + 1, e)
<1>1. \A i \in 1..(n + 1) : i \in 1..n \/ i = n + 1
  OBVIOUS
<1>2. \A i \in 1..n : S[i] \in 1..r
  BY DEF StreamOK
<1>3. \A i \in 1..(n + 1) : T[i] \in 1..(r + 1)
  BY <1>1, <1>2
<1>4. \A i, j \in 1..(n + 1) : i < j => T[i] < T[j]
  <2> SUFFICES ASSUME NEW i \in 1..(n + 1), NEW j \in 1..(n + 1), i < j
               PROVE  T[i] < T[j]
    OBVIOUS
  <2>1. i \in 1..n
    OBVIOUS
  <2>2. CASE j \in 1..n
    BY <2>1, <2>2 DEF StreamOK
  <2>3. CASE j = n + 1
    BY <1>2, <2>1, <2>3
  <2> QED BY <2>2, <2>3
<1>5. \A i \in 1..(n + 1) : i > c => T[i] > l
  BY <1>1 DEF StreamOK
<1>6. ASSUME ~e
      PROVE  n + 1 - c = r + 1 - l /\ \A i \in 1..(n + 1) : i > c => T[i] = l + (i - c)
  <2>1. n - c = r - l /\ \A i \in 1..n : i > c => S[i] = l + (i - c)
    BY <1>6 DEF StreamOK
  <2> QED BY <1>1, <2>1
<1> QED BY <1>3, <1>4, <1>5, <1>6 DEF StreamOK

LEMMA MissOK ==
  ASSUME NEW n \in Nat, NEW c \in 0..n, NEW l \in Nat, NEW r \in Nat, NEW e \in BOOLEAN,
         NEW S, StreamOK(S, n, c, l, r, e)
  PROVE  StreamOK(S, n, c, l, r + 1, TRUE)
  BY DEF StreamOK

-----------------------------------------------------------------------------
(* UART: the steps                                                         *)

LEMMA UartFacts ==
  ASSUME UartInv
  PROVE  /\ rb.size \in Nat \ {0} /\ Available(rb) \in 0..(rb.size - 1)
         /\ hw \in Seq(Bytes) /\ Len(hw) \in Nat /\ Pending \in Nat
         /\ count \in Nat /\ Gone \in 0..Pending /\ (pc # "consume" => Gone = 0)
         /\ received \in Nat /\ LastByte \in Nat /\ got \in Seq(Bytes) /\ Len(got) \in Nat \ {0}
         /\ Gaps \in BOOLEAN /\ lost \in BOOLEAN /\ overrun \in BOOLEAN /\ uiof \in BOOLEAN
         /\ \A i \in 1..Pending : View[i] = Stream(i)
<1>1. rb.size \in Nat \ {0} /\ Available(rb) \in 0..(rb.size - 1)
  BY AvailableIs DEF UartInv, Ring
<1>2. hw \in Seq(Bytes) /\ Len(hw) \in Nat /\ count \in Nat /\ received \in Bytes
  BY DEF UartInv, UartTypeOK
<1>3. Pending \in Nat /\ Available(rb) <= Pending
  BY <1>1, <1>2 DEF Pending
<1>4. Gone \in 0..Pending /\ (pc # "consume" => Gone = 0)
  BY <1>1, <1>2, <1>3 DEF Gone, UartInv, Peeking
<1>5. received \in Nat
  BY <1>2, BoundsAssumption DEF Bytes
<1>6. got \in Seq(Bytes) /\ got # <<>>
  BY DEF UartInv, UartTypeOK
<1>7. Len(got) \in Nat \ {0}
  BY <1>6
<1>8. LastByte \in Bytes
  BY <1>6, <1>7 DEF LastByte
<1>9. LastByte \in Nat
  BY <1>8, BoundsAssumption DEF Bytes
<1>10. \A i \in 1..Pending : View[i] = Stream(i)
  BY DEF View
<1> QED BY <1>1, <1>2, <1>3, <1>4, <1>5, <1>6, <1>7, <1>9, <1>10 DEF Gaps, UartInv, UartTypeOK

\* What a copy of the FIFO does to what is pending.
LEMMA CopyFifoIs ==
  ASSUME UartInv, NEW flagged \in BOOLEAN, CopyFifo(flagged),
         received' = received, got' = got, Gone' = Gone
  PROVE  /\ Ring(rb') /\ rb'.size = rb.size /\ hw' = <<>>
         /\ overrun' \in BOOLEAN /\ lost' \in BOOLEAN /\ Gaps' \in BOOLEAN
         /\ dropped' \in BOOLEAN /\ discarded' \in BOOLEAN
         /\ StreamOK(View', Pending', Gone', LastByte', received', Gaps')
         /\ Pending' = Available(rb)' /\ Pending' <= rb.size - 1
         /\ Available(rb) <= Available(rb)'
         /\ Pending <= rb.size - 1 => rb'.rpos = rb.rpos /\ Available(rb)' = Pending
         /\ overrun \/ flagged => overrun'
         /\ lost' => lost \/ overrun'
<1>1. /\ rb' = Copied.b /\ hw' = <<>>
      /\ overrun' = (overrun \/ Copied.over \/ flagged)
      /\ lost' = (lost \/ CopyDrops) /\ dropped' = (dropped \/ CopyDrops)
      /\ discarded' = discarded /\ Gaps' = (Gaps \/ CopyDrops)
  BY DEF CopyFifo, Gaps
<1>2. Ring(rb) /\ StreamOK(View, Pending, Gone, LastByte, received, Gaps)
  BY DEF UartInv
<1>3. CopyOK(Copied, Len(hw))
  BY <1>2, UartFacts, CopiedIs
<1>4. PICK z \in Nat \ {0} : z = rb.size
  BY UartFacts
<1>5. PICK n \in 0..(z - 1) : n = Available(rb)
  BY <1>4, UartFacts
<1>6. PICK m \in Nat : m = Len(hw)
  BY UartFacts
<1>7. Ring(Copied.b) /\ Copied.b.size = z /\ Copied.over \in BOOLEAN
  BY <1>3, <1>4 DEF CopyOK
<1>8. PICK a \in 0..(z - 1) : a = Available(Copied.b)
  BY <1>7, AvailableIs
<1>9. CopyDrops <=> n + m > z - 1
  BY <1>4, <1>5, <1>6 DEF CopyDrops
<1>10. /\ n + m <= z - 1 => /\ Copied.over = FALSE /\ Copied.b.rpos = rb.rpos
                           /\ a = n + m
       /\ n + m > z - 1 => Copied.over = TRUE /\ a = z - 1
       /\ \A i \in 1..a : Item(Copied.b, i) = Stream(n + m - a + i)
  BY <1>3, <1>4, <1>5, <1>6, <1>8, Zenon DEF CopyOK
<1>11. Available(rb)' = a /\ Len(hw') = 0 /\ Pending' = a
  <2>1. Available(rb)' = Available(rb')
    BY DEF Available
  <2>2. Available(rb)' = a /\ Len(hw') = 0
    BY <1>1, <1>8, <2>1
  <2> QED BY <2>2 DEF Pending
<1>12. PICK d \in 0..(n + m) : d = n + m - a /\ (d > 0 => CopyDrops) /\ Pending = n + m
  BY <1>5, <1>6, <1>9, <1>10 DEF Pending
<1>13. ASSUME NEW i \in 1..(n + m - d)
       PROVE  View'[i] = View[i + d]
  <2>1. i \in 1..a /\ i + d \in 1..(n + m) /\ n + m - a + i = i + d
    BY <1>12
  <2>2. View'[i] = Item(rb', i)
    <3>1. View' = [j \in 1..Pending' |-> IF j <= Available(rb)' THEN Item(rb', j)
                                         ELSE hw'[j - Available(rb)']]
      BY DEF View, Stream, Item
    <3> QED BY <1>11, <2>1, <3>1
  <2>3. View[i + d] = Stream(i + d)
    BY <1>12, <2>1, UartFacts
  <2> QED BY <1>1, <1>10, <2>1, <2>2, <2>3
<1>14. Gaps' \in BOOLEAN /\ (d > 0 => Gone = 0 /\ Gaps') /\ (Gaps => Gaps')
  <2>1. d > 0 => Gone = 0
    <3>1. Gone # 0 => n + m <= z - 1
      BY <1>4, <1>12, UartFacts DEF UartInv, Peeking
    <3> QED BY <1>9, <1>12, <3>1
  <2> QED BY <1>1, <1>12, <2>1, UartFacts DEF CopyDrops
<1>15. StreamOK(View', n + m - d, Gone, LastByte, received, Gaps')
  <2>1. PICK k \in Nat : k = n + m /\ d \in 0..k
    BY <1>12
  <2>2. PICK c \in 0..k : c = Gone
    BY <1>12, <2>1, UartFacts
  <2>3. PICK l \in Nat, r \in Nat, e \in BOOLEAN : l = LastByte /\ r = received /\ e = Gaps
    BY UartFacts
  <2>4. PICK f \in BOOLEAN : f = Gaps'
    BY <1>14
  <2>5. PICK S, T : S = View /\ T = View' /\ StreamOK(S, k, c, l, r, e)
    BY <1>2, <1>12, <2>1, <2>2, <2>3
  <2>6. (d > 0 => c = 0 /\ f) /\ (e => f)
    BY <1>14, <2>2, <2>3, <2>4
  <2>7. Shifted(T, S, k, d)
    BY <1>13, <2>1, <2>5 DEF Shifted
  <2>8. StreamOK(T, k - d, c, l, r, f)
    BY <2>1, <2>5, <2>6, <2>7, DropOK
  <2> QED BY <2>1, <2>2, <2>3, <2>4, <2>5, <2>8
<1>16. n + m - d = Pending' /\ LastByte' = LastByte
  BY <1>11, <1>12 DEF LastByte
<1>17. StreamOK(View', Pending', Gone', LastByte', received', Gaps')
  BY <1>15, <1>16
<1>18. n <= a
  BY <1>10
<1>19. Pending <= rb.size - 1 => rb'.rpos = rb.rpos /\ Available(rb)' = Pending
  BY <1>1, <1>4, <1>10, <1>11, <1>12
<1>20. lost' => lost \/ overrun'
  BY <1>1, <1>9, <1>10, UartFacts
<1>21. overrun' \in BOOLEAN /\ lost' \in BOOLEAN /\ dropped' \in BOOLEAN /\ discarded' \in BOOLEAN
  BY <1>1 DEF UartInv, UartTypeOK
<1>22. Ring(rb') /\ rb'.size = rb.size /\ hw' = <<>> /\ (overrun \/ flagged => overrun')
  BY <1>1, <1>4, <1>7
<1>23. Pending' = Available(rb)' /\ Pending' <= rb.size - 1 /\ Available(rb) <= Available(rb)'
  BY <1>4, <1>5, <1>8, <1>11, <1>18
<1> QED BY <1>14, <1>17, <1>19, <1>20, <1>21, <1>22, <1>23, Zenon

LEMMA SameView ==
  ASSUME rb' = rb, hw' = hw
  PROVE  View' = View /\ Pending' = Pending /\ Available(rb)' = Available(rb)
  BY DEF View, Pending, Stream, Item, Available

\* The invariant after a copy of the FIFO.
LEMMA CopyInv ==
  ASSUME UartInv, NEW flagged \in BOOLEAN, CopyFifo(flagged),
         received' = received, got' = got, use' = use, minusOne' = minusOne, Gone' = Gone,
         pc' \in {"idle", "available", "peek", "consume"}, count' \in Nat,
         uiof' \in BOOLEAN, uiof => flagged \/ uiof', Peeking', Counting'
  PROVE  UartInv'
<1>1. /\ Ring(rb') /\ rb'.size = rb.size /\ hw' = <<>>
      /\ overrun' \in BOOLEAN /\ lost' \in BOOLEAN /\ Gaps' \in BOOLEAN
         /\ dropped' \in BOOLEAN /\ discarded' \in BOOLEAN
      /\ StreamOK(View', Pending', Gone', LastByte', received', Gaps')
      /\ overrun \/ flagged => overrun'
      /\ lost' => lost \/ overrun'
  BY CopyFifoIs
<1>2. UartTypeOK'
  <2>1. UartTypeOK
    BY DEF UartInv
  <2>2. rb'.size \in Sizes /\ use' \in Uses
    BY <1>1, <2>1 DEF UartTypeOK
  <2>3. /\ rb'.rpos \in 0..rb'.size - 1 /\ rb'.wpos \in 0..rb'.size - 1
        /\ rb'.buffer \in [0..rb'.size - 1 -> Bytes]
    BY <1>1 DEF Ring
  <2>4. hw' \in Seq(Bytes) /\ Len(hw') <= FifoSize
    BY <1>1, FifoAssumption
  <2>5. received' \in Bytes /\ got' \in Seq(Bytes) /\ minusOne' \in BOOLEAN
    BY <2>1 DEF UartTypeOK
  <2> QED BY <1>1, <2>2, <2>3, <2>4, <2>5 DEF UartTypeOK, Bytes
<1>3. got' # <<>> /\ (LastByte <= received)' /\ GotInOrder'
  BY DEF UartInv, LastByte, GotInOrder
<1>4. LossFlagged'
  <2>1. lost => overrun \/ uiof
    BY DEF UartInv, LossFlagged
  <2> QED BY <1>1, <2>1 DEF LossFlagged
<1>5. Ring(rb)'
  BY <1>1 DEF Ring, Bytes
<1> QED BY <1>1, <1>2, <1>3, <1>4, <1>5, Zenon DEF UartInv

LEMMA ReceiveKeeps ==
  ASSUME UartInv, Receive
  PROVE  UartInv'
<1>1. /\ rb' = rb /\ overrun' = overrun /\ use' = use /\ pc' = pc /\ count' = count
      /\ got' = got /\ minusOne' = minusOne /\ received' = received + 1 /\ received < MaxBytes
      /\ use = "peek" => Pending < rb.size - 1
  BY DEF Receive, Pending
<1>2. LastByte' = LastByte /\ Gone' = Gone /\ Available(rb)' = Available(rb)
  BY <1>1 DEF LastByte, Gone, Available
<1>3. received' \in Bytes /\ (LastByte <= received)'
  BY <1>1, <1>2, UartFacts, BoundsAssumption, SMTT(30) DEF UartInv, Bytes
<1>4. got' # <<>> /\ GotInOrder' /\ Ring(rb)' /\ Counting'
  BY <1>1, <1>2 DEF UartInv, GotInOrder, Ring, Bytes, Counting
<1>5. StreamOK(View, Pending, Gone, LastByte, received, Gaps) /\ LastByte <= received
  BY DEF UartInv
<1>6. PICK n \in Nat : n = Pending
  BY UartFacts
<1>7. PICK c \in 0..n : c = Gone
  BY <1>6, UartFacts
<1>8. PICK l \in Nat, r \in Nat, e \in BOOLEAN : l = LastByte /\ r = received /\ e = Gaps
  BY UartFacts
<1>9. PICK S, T : S = View /\ T = View'
  OBVIOUS
<1>10. StreamOK(S, n, c, l, r, e) /\ l <= r
  BY <1>5, <1>6, <1>7, <1>8, <1>9
<1>11. CASE Len(hw) < FifoSize
  <2>1. hw' = Append(hw, received + 1) /\ uiof' = uiof /\ lost' = lost
       /\ dropped' = dropped /\ discarded' = discarded /\ Gaps' = Gaps
    BY <1>1, <1>11 DEF Receive, Gaps
  <2>2. Len(hw') = Len(hw) + 1 /\ hw' \in Seq(Bytes)
    BY <1>1, <1>3, <2>1, UartFacts
  <2>3. Pending' = n + 1
    BY <1>2, <1>6, <2>2, UartFacts DEF Pending
  <2>4. \A i \in 1..(n + 1) : T[i] = Stream(i)'
    BY <1>9, <2>3 DEF View
  <2>5. T[n + 1] = r + 1
    <3>1. PICK a \in Nat : a = Available(rb) /\ n = a + Len(hw)
      BY <1>6, UartFacts DEF Pending
    <3>2. ~(n + 1 <= a) /\ n + 1 - a = Len(hw) + 1
      BY <3>1, UartFacts, SMTT(30)
    <3>3. Stream(n + 1)' = hw'[n + 1 - a]
      BY <1>2, <3>1, <3>2, SMTT(30) DEF Stream
    <3> QED BY <1>8, <2>1, <2>4, <3>2, <3>3, UartFacts
  <2>6. ASSUME NEW i \in 1..n PROVE T[i] = S[i]
    <3>1. PICK a \in Nat : a = Available(rb) /\ n = a + Len(hw)
      BY <1>6, UartFacts DEF Pending
    <3>2. i > a => hw'[i - a] = hw[i - a]
      <4>1. i > a => i - a \in 1..Len(hw)
        BY <3>1, UartFacts, SMTT(30)
      <4>2. \A j \in 1..Len(hw) : hw'[j] = hw[j]
        BY <2>1, UartFacts
      <4> QED BY <4>1, <4>2
    <3>3. Stream(i)' = Stream(i)
      BY <1>1, <1>2, <3>1, <3>2 DEF Stream, Item
    <3> QED BY <1>6, <1>9, <2>4, <3>3, UartFacts
  <2>7. StreamOK(T, n + 1, c, l, r + 1, e)
    BY <1>10, <2>5, <2>6, ArriveOK
  <2>8. StreamOK(View, Pending, Gone, LastByte, received, Gaps)'
    BY <1>1, <1>2, <1>7, <1>8, <1>9, <2>1, <2>3, <2>7 DEF StreamOK
  <2>9. UartTypeOK'
    <3>1. UartTypeOK
      BY DEF UartInv
    <3>2. hw' \in Seq(Bytes) /\ Len(hw') <= FifoSize
      BY <1>11, <2>2, UartFacts, FifoAssumption
    <3> QED BY <1>1, <1>3, <2>1, <3>1, <3>2 DEF UartTypeOK, Bytes
  <2>10. Peeking'
    <3>1. use = "peek" => n + 1 <= rb.size - 1
      BY <1>1, <1>6, UartFacts
    <3>2. pc \in {"peek", "consume"} =>
            use = "peek" /\ count <= Available(rb) /\ rb.rpos + count <= rb.size
      BY DEF UartInv, Peeking
    <3> QED BY <1>1, <1>2, <2>3, <3>1, <3>2 DEF Peeking
  <2>11. LossFlagged'
    BY <1>1, <2>1 DEF UartInv, LossFlagged
  <2> QED BY <1>3, <1>4, <2>8, <2>9, <2>10, <2>11, Zenon DEF UartInv
<1>12. CASE ~(Len(hw) < FifoSize)
  <2>1. hw' = hw /\ uiof' = TRUE /\ lost' = TRUE
       /\ dropped' = TRUE /\ discarded' = discarded /\ Gaps' = TRUE
    BY <1>12 DEF Receive, Gaps
  <2>2. Pending' = n /\ T = S
    BY <1>1, <1>6, <1>9, <2>1, SameView
  <2>3. StreamOK(S, n, c, l, r + 1, TRUE)
    BY <1>10, MissOK
  <2>4. StreamOK(View, Pending, Gone, LastByte, received, Gaps)'
    BY <1>1, <1>2, <1>7, <1>8, <1>9, <2>1, <2>2, <2>3 DEF StreamOK
  <2>5. UartTypeOK'
    BY <1>1, <1>3, <2>1, UartFacts DEF UartInv, UartTypeOK, Bytes
  <2>6. Peeking' /\ LossFlagged'
    BY <1>1, <1>2, <1>6, <2>1, <2>2 DEF UartInv, Peeking, LossFlagged
  <2> QED BY <1>3, <1>4, <2>4, <2>5, <2>6, Zenon DEF UartInv
<1> QED BY <1>11, <1>12

\* The invariant after a step that leaves the bytes alone.
LEMMA StillInv ==
  ASSUME UartInv, rb' = rb, hw' = hw, received' = received, got' = got,
         dropped' = dropped, discarded' = discarded, use' = use, minusOne' = minusOne, Gone' = Gone,
         overrun' \in BOOLEAN, uiof' \in BOOLEAN, lost' \in BOOLEAN, LossFlagged',
         pc' \in {"idle", "available", "peek", "consume"}, count' \in Nat,
         Peeking', Counting'
  PROVE  UartInv'
<1>1. UartTypeOK'
  BY DEF UartInv, UartTypeOK, Bytes
<1>2. got' # <<>> /\ (LastByte <= received)' /\ GotInOrder' /\ Ring(rb)'
  BY DEF UartInv, LastByte, GotInOrder, Ring, Bytes
<1>3. StreamOK(View, Pending, Gone, LastByte, received, Gaps)'
  <2>1. LastByte' = LastByte /\ View' = View /\ Pending' = Pending
    BY SameView DEF LastByte
  <2> QED BY <2>1 DEF Gaps, UartInv, StreamOK
<1> QED BY <1>1, <1>2, <1>3, Zenon DEF UartInv

LEMMA UartIsrKeeps ==
  ASSUME UartInv, UartIsr
  PROVE  UartInv'
<1>1. /\ uiof' = FALSE /\ use' = use /\ pc' = pc /\ count' = count
      /\ received' = received /\ got' = got /\ minusOne' = minusOne /\ Gone' = Gone
  BY DEF UartIsr, Gone
<1>2. uiof \in BOOLEAN /\ pc' \in {"idle", "available", "peek", "consume"} /\ count' \in Nat
  BY <1>1 DEF UartInv, UartTypeOK
<1>3. CASE CopyFifo(uiof)
  <2>1. /\ rb'.size = rb.size
        /\ Pending' = Available(rb)' /\ Pending' <= rb.size - 1
        /\ Available(rb) <= Available(rb)'
        /\ Pending <= rb.size - 1 => rb'.rpos = rb.rpos /\ Available(rb)' = Pending
    BY <1>1, <1>2, <1>3, CopyFifoIs
  <2>2. Available(rb) \in Nat /\ count \in Nat /\ Available(rb)' \in Nat
    <3>1. Ring(rb')
      BY <1>1, <1>2, <1>3, CopyFifoIs
    <3>2. Available(rb') \in Nat
      BY <3>1, AvailableIs DEF Ring
    <3>3. Available(rb)' = Available(rb')
      BY DEF Available
    <3> QED BY <3>2, <3>3, UartFacts
  <2>3. Peeking'
    <3>1. SUFFICES ASSUME pc \in {"peek", "consume"}
                   PROVE  /\ use = "peek" /\ Pending' <= rb'.size - 1
                          /\ count <= Available(rb)' /\ rb'.rpos + count <= rb'.size
      BY <1>1 DEF Peeking
    <3>2. /\ use = "peek" /\ Pending <= rb.size - 1
          /\ count <= Available(rb) /\ rb.rpos + count <= rb.size
      BY <3>1 DEF UartInv, Peeking
    <3> QED BY <2>1, <2>2, <3>2
  <2>4. Counting'
    <3>1. Counting
      BY DEF UartInv
    <3> QED BY <1>1, <2>1, <2>2, <3>1 DEF Counting
  <2> QED BY <1>1, <1>2, <1>3, <2>3, <2>4, CopyInv
<1>4. CASE uiof /\ overrun' = TRUE /\ UNCHANGED <<rb, hw, lost, dropped, discarded>>
  <2>1. lost' \in BOOLEAN /\ LossFlagged'
    BY <1>4, UartFacts DEF LossFlagged
  <2>2. Peeking' /\ Counting'
    BY <1>1, <1>4, SameView DEF UartInv, Peeking, Counting
  <2> QED BY <1>1, <1>2, <1>4, <2>1, <2>2, StillInv
<1> QED BY <1>3, <1>4 DEF UartIsr

LEMMA PeekCharKeeps ==
  ASSUME UartInv, PeekChar
  PROVE  UartInv'
<1>1. /\ CopyFifo(FALSE) /\ uiof' = uiof /\ use' = use /\ pc' = "idle" /\ count' = count
      /\ received' = received /\ got' = got /\ minusOne' = minusOne /\ Gone' = Gone
  BY DEF PeekChar, Gone
<1>2. uiof \in BOOLEAN /\ count' \in Nat
  BY <1>1 DEF UartInv, UartTypeOK
<1>3. Peeking' /\ Counting'
  BY <1>1 DEF Peeking, Counting
<1> QED BY <1>1, <1>2, <1>3, CopyInv

LEMMA PeekAvailableKeeps ==
  ASSUME UartInv, PeekAvailable
  PROVE  UartInv'
<1>1. /\ CopyFifo(FALSE) /\ uiof' = uiof /\ use' = use /\ use = "peek" /\ pc' = "peek"
      /\ received' = received /\ got' = got /\ minusOne' = minusOne /\ Gone' = Gone
      /\ count' = PeekCount(Copied.b)
  BY DEF PeekAvailable, Gone
<1>2. uiof \in BOOLEAN
  BY <1>1 DEF UartInv, UartTypeOK
<1>3. rb' = Copied.b
  BY <1>1 DEF CopyFifo
<1>4. Ring(rb') /\ rb'.size = rb.size /\ Pending' <= rb.size - 1
  BY <1>1, <1>2, CopyFifoIs
<1>5. /\ count' \in Nat /\ count' <= Available(rb') /\ rb'.rpos + count' <= rb'.size
  <2>1. PICK z \in Nat \ {0} : z = rb'.size
    BY <1>4 DEF Ring
  <2>2. PICK p \in 0..(z - 1), w \in 0..(z - 1) : p = rb'.rpos /\ w = rb'.wpos
    BY <1>4, <2>1 DEF Ring
  <2>3. count' = IF w < p THEN z - p ELSE w - p
    BY <1>1, <1>3, <2>1, <2>2 DEF PeekCount
  <2>4. Available(rb') = IF w < p THEN (w + z) - p ELSE w - p
    BY <2>1, <2>2 DEF Available
  <2> QED BY <2>1, <2>2, <2>3, <2>4
<1>6. Peeking' /\ Counting'
  <2>1. Available(rb)' = Available(rb')
    BY DEF Available
  <2> QED BY <1>1, <1>4, <1>5, <2>1 DEF Peeking, Counting
<1> QED BY <1>1, <1>2, <1>5, <1>6, CopyInv

LEMMA RxAvailableKeeps ==
  ASSUME UartInv, RxAvailableBuffer \/ RxAvailableFifo
  PROVE  UartInv'
<1>1. /\ rb' = rb /\ overrun' = overrun /\ hw' = hw /\ uiof' = uiof /\ use' = use
      /\ received' = received /\ got' = got /\ lost' = lost
      /\ dropped' = dropped /\ discarded' = discarded /\ Gaps' = Gaps
      /\ minusOne' = minusOne
  BY DEF Gaps, RxAvailableBuffer, RxAvailableFifo, history
<1>2. /\ Gone' = Gone /\ pc' \in {"idle", "available", "peek", "consume"} /\ count' \in Nat
      /\ Peeking' /\ Counting'
  <2>1. Available(rb)' = Available(rb) /\ Available(rb) \in Nat
    BY <1>1, UartFacts, SameView
  <2>2. CASE RxAvailableBuffer
    BY <2>1, <2>2 DEF RxAvailableBuffer, AvailPart, Gone, Peeking, Counting
  <2>3. CASE RxAvailableFifo
    BY <2>1, <2>3 DEF RxAvailableFifo, Gone, Peeking, Counting
  <2> QED BY <2>2, <2>3
<1>3. /\ overrun' \in BOOLEAN /\ uiof' \in BOOLEAN /\ lost' \in BOOLEAN /\ LossFlagged'
  BY <1>1 DEF UartInv, UartTypeOK, LossFlagged
<1> QED BY <1>1, <1>2, <1>3, StillInv

LEMMA HasOverrunKeeps ==
  ASSUME UartInv, HasOverrun
  PROVE  UartInv'
<1>1. /\ rb' = rb /\ overrun' = FALSE /\ hw' = hw /\ uiof' = uiof /\ use' = use
      /\ received' = received /\ got' = got /\ lost' = (lost /\ uiof)
      /\ dropped' = dropped /\ discarded' = discarded /\ Gaps' = Gaps
      /\ minusOne' = minusOne /\ pc' = "idle" /\ count' = count /\ Gone' = Gone
  BY DEF Gaps, HasOverrun, Gone
<1>2. uiof' \in BOOLEAN /\ lost' \in BOOLEAN /\ LossFlagged' /\ count' \in Nat
  BY <1>1 DEF UartInv, UartTypeOK, LossFlagged
<1>3. Peeking' /\ Counting'
  BY <1>1 DEF Peeking, Counting
<1> QED BY <1>1, <1>2, <1>3, StillInv

-----------------------------------------------------------------------------
(* UART: the calls that take bytes                                         *)

\* The ring after its first k bytes were taken.
LEMMA AdvanceStep ==
  ASSUME NEW z \in Nat \ {0}, NEW p \in 0..(z - 1), NEW w \in 0..(z - 1),
         NEW n, n = Fill(p, w, z), NEW k \in 0..n, NEW q, q = Pos(p, k + 1, z)
  PROVE  /\ q \in 0..(z - 1) /\ Fill(q, w, z) = n - k
         /\ \A i \in 1..(n - k) : Pos(q, i, z) = Pos(p, i + k, z)
  BY DEF Fill, Pos

Advanced(t, b, k) ==
  /\ Ring(t) /\ t.size = b.size /\ Available(t) = Available(b) - k
  /\ \A i \in 1..(Available(b) - k) : Item(t, i) = Item(b, i + k)

LEMMA AdvanceIs ==
  ASSUME NEW b, Ring(b), NEW k \in 0..Available(b),
         NEW t, t = [b EXCEPT !.rpos = Pos(b.rpos, k + 1, b.size)]
  PROVE  Advanced(t, b, k)
<1>1. PICK z \in Nat \ {0} : z = b.size
  BY DEF Ring
<1>2. PICK p \in 0..(z - 1), w \in 0..(z - 1) : p = b.rpos /\ w = b.wpos
  BY <1>1 DEF Ring
<1>3. PICK f \in [0..(z - 1) -> Bytes] : f = b.buffer
  BY <1>1 DEF Ring
<1>4. PICK n \in 0..(z - 1) : n = Fill(p, w, z) /\ n = Available(b)
  BY <1>1, <1>2, AvailableIs
<1>5. PICK q : q = Pos(p, k + 1, z)
  OBVIOUS
<1>6. /\ q \in 0..(z - 1) /\ Fill(q, w, z) = n - k
      /\ \A i \in 1..(n - k) : Pos(q, i, z) = Pos(p, i + k, z)
  <2>1. k \in 0..n
    BY <1>4
  <2>2. n = Fill(p, w, z)
    BY <1>4
  <2>3. q \in 0..(z - 1) /\ Fill(q, w, z) = n - k
    BY <1>5, <2>1, <2>2, AdvanceStep
  <2>4. \A i \in 1..(n - k) : Pos(q, i, z) = Pos(p, i + k, z)
    BY <1>5, <2>1, <2>2, AdvanceStep
  <2> QED BY <2>3, <2>4
<1>7. t = [size |-> z, rpos |-> q, wpos |-> w, buffer |-> f]
  <2>1. b = [size |-> z, rpos |-> p, wpos |-> w, buffer |-> f]
    BY <1>1, <1>2, <1>3 DEF Ring
  <2>2. t = [b EXCEPT !.rpos = q]
    BY <1>1, <1>2, <1>5
  <2> QED BY <2>1, <2>2
<1>8. Ring(t) /\ t.size = z
  BY <1>6, <1>7, SMTT(30) DEF Ring
<1>9. Available(t) = n - k
  BY <1>6, <1>7, <1>8, AvailableIs
<1>10. ASSUME NEW i \in 1..(n - k)
       PROVE  Item(t, i) = Item(b, i + k)
  <2>1. i \in 1..z /\ i + k \in 1..z
    BY <1>4
  <2>2. Item(t, i) = f[Pos(q, i, z)]
    BY <1>7, <1>8, <2>1, ItemIs, ZenonT(60)
  <2>3. Item(b, i + k) = f[Pos(p, i + k, z)]
    BY <1>1, <1>2, <1>3, <2>1, ItemIs
  <2> QED BY <1>6, <2>2, <2>3
<1> QED BY <1>1, <1>4, <1>8, <1>9, <1>10 DEF Advanced

\* A call delivers the first d bytes of what is pending.
Delivered(d) ==
  /\ got' \in Seq(Bytes) /\ got' # <<>> /\ GotInOrder'
  /\ LastByte' \in Nat /\ LastByte' <= received
  /\ StreamOK(View, Pending, d, LastByte', received, Gaps)

LEMMA DeliverIs ==
  ASSUME UartInv, Gone = 0, NEW bytes \in Seq(Bytes), Deliver(bytes),
         NEW d \in 0..Pending, Len(bytes) = d, \A i \in 1..d : bytes[i] = Stream(i)
  PROVE  Delivered(d)
<1>1. PICK n \in Nat : n = Pending
  BY UartFacts
<1>2. PICK l \in Nat, r \in Nat, e \in BOOLEAN : l = LastByte /\ r = received /\ e = Gaps
  BY UartFacts
<1>3. PICK S : S = View
  OBVIOUS
<1>4. StreamOK(S, n, 0, l, r, e)
  BY <1>1, <1>2, <1>3 DEF UartInv
<1>5. l \in Bytes /\ l <= r
  BY <1>2, UartFacts DEF UartInv, UartTypeOK, LastByte
<1>6. PICK g : g = got'
  OBVIOUS
<1>7. g = <<l>> \o bytes
  BY <1>2, <1>6 DEF Deliver
<1>8. /\ g \in Seq(Bytes) /\ Len(g) = d + 1 /\ g[1] = l
      /\ \A i \in 1..d : g[i + 1] = bytes[i]
  BY <1>5, <1>7
<1>9. \A i \in 1..d : g[i + 1] = S[i]
  BY <1>1, <1>3, <1>8, UartFacts
<1>10. /\ \A i \in 1..d : S[i] \in 1..r /\ S[i] > l
       /\ \A i, j \in 1..d : i < j => S[i] < S[j]
  BY <1>1, <1>4 DEF StreamOK
<1>11. GotInOrder'
  <2>1. ASSUME NEW i \in 1..d PROVE g[i] < g[i + 1]
    <3>1. CASE i = 1
      BY <1>8, <1>9, <1>10, <3>1
    <3>2. CASE i # 1
      <4>1. i - 1 \in 1..d /\ i - 1 < i /\ (i - 1) + 1 = i
        BY <3>2
      <4>2. g[i] = S[i - 1]
        BY <1>9, <4>1
      <4> QED BY <1>9, <1>10, <4>1, <4>2
    <3> QED BY <3>1, <3>2
  <2>2. Len(g) - 1 = d
    BY <1>1, <1>8
  <2> QED BY <1>6, <2>1, <2>2 DEF GotInOrder
<1>12. PICK k \in Nat : k = (IF d = 0 THEN l ELSE S[d]) /\ k <= r
  <2>1. CASE d = 0
    BY <1>5, <2>1
  <2>2. CASE d # 0
    <3>1. d \in 1..d
      BY <2>2
    <3> QED BY <1>10, <2>2, <3>1
  <2> QED BY <2>1, <2>2
<1>13. LastByte' = k
  <2>1. LastByte' = g[d + 1]
    BY <1>6, <1>8 DEF LastByte
  <2>2. CASE d = 0
    BY <1>8, <1>12, <2>1, <2>2
  <2>3. CASE d # 0
    <3>1. d \in 1..d
      BY <2>3
    <3> QED BY <1>9, <1>12, <2>1, <2>3, <3>1
  <2> QED BY <2>2, <2>3
<1>14. StreamOK(S, n, d, k, r, e)
  BY <1>1, <1>4, <1>12, TakeOK
<1>15. got' \in Seq(Bytes) /\ got' # <<>>
  BY <1>6, <1>8
<1>16. StreamOK(View, Pending, d, LastByte', received, Gaps)
  BY <1>1, <1>2, <1>3, <1>13, <1>14
<1> QED BY <1>2, <1>11, <1>12, <1>13, <1>15, <1>16 DEF Delivered

LEMMA PeekBufferKeeps ==
  ASSUME UartInv, NEW n \in Nat, PeekBuffer(n)
  PROVE  UartInv'
<1>1. /\ rb' = rb /\ overrun' = overrun /\ hw' = hw /\ uiof' = uiof /\ use' = use
      /\ received' = received /\ lost' = lost
      /\ dropped' = dropped /\ discarded' = discarded /\ Gaps' = Gaps /\ minusOne' = minusOne
      /\ pc = "peek" /\ pc' = "consume" /\ n <= count /\ count' = n
  BY DEF Gaps, PeekBuffer
<1> DEFINE bytes == [i \in 1..n |-> IF rb.rpos + i - 1 < rb.size
                                   THEN rb.buffer[rb.rpos + i - 1] ELSE Junk]
<1>2. Deliver(bytes)
  BY DEF PeekBuffer
<1>3. /\ use = "peek" /\ Pending <= rb.size - 1
      /\ count <= Available(rb) /\ rb.rpos + count <= rb.size
  BY <1>1 DEF UartInv, Peeking
<1>4. PICK z \in Nat \ {0} : z = rb.size
  BY UartFacts
<1>5. PICK p \in 0..(z - 1) : p = rb.rpos
  BY <1>4 DEF UartInv, Ring
<1>6. PICK a \in 0..(z - 1) : a = Available(rb)
  BY <1>4, UartFacts
<1>7. n <= a /\ p + n <= z /\ n \in 0..Pending
  <2>1. PICK c \in Nat : c = count /\ n <= c /\ c <= a /\ p + c <= z
    BY <1>1, <1>3, <1>4, <1>5, <1>6, UartFacts
  <2>2. Pending = a + Len(hw) /\ Len(hw) \in Nat
    BY <1>6, UartFacts DEF Pending
  <2>3. n <= a /\ p + n <= z
    BY <2>1
  <2> QED BY <2>2, <2>3
<1>8. ASSUME NEW i \in 1..n PROVE bytes[i] = Stream(i) /\ bytes[i] \in Bytes
  <2>1. i <= a /\ p + i - 1 < z /\ i \in 1..z
    BY <1>7
  <2>2. Item(rb, i) = rb.buffer[Pos(p, i, z)] /\ Item(rb, i) \in Bytes
    BY <1>4, <1>5, <2>1, ItemIs DEF UartInv
  <2>3. Pos(p, i, z) = p + i - 1
    BY <2>1 DEF Pos
  <2>4. bytes[i] = rb.buffer[p + i - 1]
    BY <1>4, <1>5, <2>1
  <2>5. Stream(i) = Item(rb, i)
    BY <1>6, <2>1 DEF Stream
  <2> QED BY <2>2, <2>3, <2>4, <2>5
<1>9. bytes \in Seq(Bytes) /\ Len(bytes) = n
  BY <1>8
<1> HIDE DEF bytes
<1>10. Gone = 0 /\ Gone' = n
  BY <1>1 DEF Gone
<1>11. Delivered(n)
  BY <1>2, <1>7, <1>8, <1>9, <1>10, DeliverIs
<1>12. View' = View /\ Pending' = Pending /\ Available(rb)' = Available(rb)
  BY <1>1, SameView
<1>13. UartTypeOK'
  BY <1>1, <1>11 DEF UartInv, UartTypeOK, Bytes, Delivered
<1>14. Ring(rb)' /\ LossFlagged' /\ (LastByte <= received)'
  BY <1>1, <1>11 DEF UartInv, LossFlagged, Ring, Bytes, Delivered
<1>15. Peeking' /\ Counting'
  BY <1>1, <1>3, <1>4, <1>5, <1>6, <1>7, <1>12 DEF Peeking, Counting
<1>16. StreamOK(View, Pending, Gone, LastByte, received, Gaps)'
  BY <1>1, <1>10, <1>11, <1>12 DEF Delivered, StreamOK
<1> QED BY <1>11, <1>13, <1>14, <1>15, <1>16, Zenon DEF UartInv, Delivered

LEMMA PeekConsumeKeeps ==
  ASSUME UartInv, PeekConsume
  PROVE  UartInv'
<1>1. /\ overrun' = overrun /\ hw' = hw /\ uiof' = uiof /\ use' = use
      /\ received' = received /\ got' = got /\ lost' = lost
      /\ dropped' = dropped /\ discarded' = discarded /\ Gaps' = Gaps
      /\ minusOne' = minusOne /\ pc = "consume" /\ pc' = "idle" /\ count' = 0
      /\ rb' = [rb EXCEPT !.rpos = ConsumePos]
  BY DEF Gaps, PeekConsume, history
<1>2. count <= Available(rb) /\ count \in Nat
  BY <1>1, UartFacts DEF UartInv, Peeking
<1>3. PICK z \in Nat \ {0} : z = rb.size
  BY UartFacts
<1>4. PICK p \in 0..(z - 1) : p = rb.rpos
  BY <1>3 DEF UartInv, Ring
<1>5. PICK a \in 0..(z - 1) : a = Available(rb)
  BY <1>3, UartFacts
<1>6. PICK c \in 0..a : c = count
  BY <1>2, <1>5
<1>7. ConsumePos = Pos(rb.rpos, c + 1, rb.size)
  <2>1. (IF p + c >= z THEN p + c - z ELSE p + c) = Pos(p, c + 1, z)
    BY DEF Pos
  <2> QED BY <1>3, <1>4, <1>6, <2>1 DEF ConsumePos
<1>8. Advanced(rb', rb, c)
  <2>1. Ring(rb) /\ c \in 0..Available(rb)
    BY <1>5, <1>6 DEF UartInv
  <2>2. rb' = [rb EXCEPT !.rpos = Pos(rb.rpos, c + 1, rb.size)]
    BY <1>1, <1>7
  <2> QED BY <2>1, <2>2, AdvanceIs
<1>9. /\ Ring(rb') /\ rb'.size = z /\ Available(rb)' = a - c
      /\ \A i \in 1..(a - c) : Item(rb', i) = Item(rb, i + c)
  <2>1. Available(rb)' = Available(rb')
    BY DEF Available
  <2> QED BY <1>3, <1>5, <1>8, <2>1 DEF Advanced
<1>10. PICK m \in Nat : m = Len(hw) /\ Pending = a + m
  BY <1>5, UartFacts DEF Pending
<1>11. Pending' = (a + m) - c
  BY <1>1, <1>9, <1>10 DEF Pending
<1>12. Gone = c /\ Gone' = 0 /\ LastByte' = LastByte
  BY <1>1, <1>6 DEF Gone, LastByte
<1>13. PICK n \in Nat : n = a + m /\ c \in 0..n
  OBVIOUS
<1>14. PICK l \in Nat, r \in Nat, e \in BOOLEAN : l = LastByte /\ r = received /\ e = Gaps
  BY UartFacts
<1>15. PICK S, T : S = View /\ T = View'
  OBVIOUS
<1>16. StreamOK(S, n, c, l, r, e)
  BY <1>10, <1>12, <1>13, <1>14, <1>15 DEF UartInv
<1>17. Shifted(T, S, n, c)
  <2> SUFFICES ASSUME NEW i \in 1..(n - c) PROVE T[i] = S[i + c]
    BY DEF Shifted
  <2>1. View' = [j \in 1..Pending' |-> IF j <= Available(rb)' THEN Item(rb', j)
                                       ELSE hw'[j - Available(rb)']]
    BY DEF View, Stream, Item
  <2>2. T[i] = IF i <= a - c THEN Item(rb', i) ELSE hw[i - (a - c)]
    BY <1>1, <1>9, <1>11, <1>13, <1>15, <2>1
  <2>3. i + c \in 1..Pending
    BY <1>10, <1>13
  <2>4. S[i + c] = IF i + c <= a THEN Item(rb, i + c) ELSE hw[i + c - a]
    BY <1>5, <1>15, <2>3, UartFacts, SMTT(30) DEF Stream
  <2>5. (i <= a - c <=> i + c <= a) /\ i - (a - c) = i + c - a
    OBVIOUS
  <2>6. i <= a - c => i \in 1..(a - c)
    OBVIOUS
  <2> QED BY <1>9, <2>2, <2>4, <2>5, <2>6
<1>18. StreamOK(T, n - c, 0, l, r, e)
  BY <1>13, <1>16, <1>17, ConsumeOK
<1>19. StreamOK(View, Pending, Gone, LastByte, received, Gaps)'
  BY <1>1, <1>11, <1>12, <1>13, <1>14, <1>15, <1>18 DEF StreamOK
<1>20. UartTypeOK'
  BY <1>1, <1>3, <1>9 DEF UartInv, UartTypeOK, Bytes, Ring
<1>21. got' # <<>> /\ (LastByte <= received)' /\ GotInOrder' /\ Ring(rb)' /\ LossFlagged'
  BY <1>1, <1>9 DEF UartInv, LastByte, GotInOrder, Ring, Bytes, LossFlagged
<1>22. Peeking' /\ Counting'
  BY <1>1 DEF Peeking, Counting
<1> QED BY <1>19, <1>20, <1>21, <1>22, Zenon DEF UartInv

LEMMA ResizeKeeps ==
  ASSUME UartInv, NEW size \in Sizes, Resize(size)
  PROVE  UartInv'
<1> DEFINE filled == IF hw # <<>> THEN size ELSE MinOf(Available(rb), size)
           kept == MinOf(Available(rb), filled)
<1>1. /\ overrun' = overrun /\ hw' = hw /\ uiof' = uiof /\ use' = use
      /\ received' = received /\ got' = got /\ lost' = lost
      /\ minusOne' \in BOOLEAN /\ pc = "idle" /\ pc' = "idle" /\ count' = count
      /\ rb' = [size |-> size, rpos |-> 0, wpos |-> IF filled = size THEN 0 ELSE filled,
                buffer |-> [i \in 0..size - 1 |-> IF i < kept THEN Contents[i + 1] ELSE Junk]]
      /\ dropped' = dropped
      /\ discarded' = (discarded \/ (Available(rb) > 0 /\ filled = size))
      /\ Gaps' = (Gaps \/ (Available(rb) > 0 /\ filled = size))
  BY DEF Resize, Gaps
<1>2. size \in Nat \ {0}
  BY SizesAssumption
<1>3. PICK a \in Nat : a = Available(rb) /\ a <= rb.size
  BY UartFacts
<1>4. PICK m \in Nat : m = Len(hw) /\ Pending = a + m
  BY <1>3, UartFacts DEF Pending
<1>5. filled \in 0..size /\ kept \in 0..a /\ kept <= filled
  BY <1>2, <1>3 DEF MinOf
<1>6. filled # size => hw = <<>> /\ filled = a /\ kept = a
  BY <1>2, <1>3 DEF MinOf
<1>7. ASSUME NEW i \in 1..a PROVE Contents[i] = Item(rb, i) /\ Item(rb, i) \in Bytes
  <2>1. i \in 1..rb.size
    BY <1>3, UartFacts
  <2> QED BY <1>3, <2>1, ItemIs DEF Contents, Item, UartInv
<1>8. PICK w : w = IF filled = size THEN 0 ELSE filled
  OBVIOUS
<1>9. w \in 0..(size - 1)
  BY <1>2, <1>5, <1>8
<1>10. PICK f : f = [i \in 0..(size - 1) |-> IF i < kept THEN Contents[i + 1] ELSE Junk]
  OBVIOUS
<1>11. f \in [0..(size - 1) -> Bytes]
  <2>1. ASSUME NEW i \in 0..(size - 1)
        PROVE  (IF i < kept THEN Contents[i + 1] ELSE Junk) \in Bytes
    <3>1. i < kept => i + 1 \in 1..a
      BY <1>5
    <3>2. Junk \in Bytes
      BY BoundsAssumption DEF Junk, Bytes
    <3> QED BY <1>7, <3>1, <3>2
  <2> QED BY <1>10, <2>1
<1>12. rb' = [size |-> size, rpos |-> 0, wpos |-> w, buffer |-> f]
  BY <1>1, <1>8, <1>10
<1>13. Ring(rb')
  BY <1>2, <1>9, <1>11, <1>12 DEF Ring
<1>14. Available(rb') = w /\ Available(rb)' = w
  <2>1. ~(w < 0) /\ w - 0 = w
    BY <1>9
  <2> QED BY <1>12, <2>1 DEF Available
<1>15. PICK d \in 0..(a + m) : d = IF filled = size THEN a ELSE 0
  OBVIOUS
<1>16. Pending' = (a + m) - d
  <2>1. Pending' = w + m
    BY <1>1, <1>4, <1>14 DEF Pending
  <2>2. w + m = (a + m) - d
    <3>1. CASE filled = size
      BY <1>8, <1>15, <3>1
    <3>2. CASE filled # size
      BY <1>6, <1>8, <1>15, <3>2
    <3> QED BY <3>1, <3>2
  <2> QED BY <2>1, <2>2
<1>17. Gone = 0 /\ Gone' = 0 /\ LastByte' = LastByte
  BY <1>1 DEF Gone, LastByte
<1>18. PICK n \in Nat : n = a + m /\ d \in 0..n
  OBVIOUS
<1>19. PICK l \in Nat, r \in Nat, e \in BOOLEAN : l = LastByte /\ r = received /\ e = Gaps
  BY UartFacts
<1>20. PICK g \in BOOLEAN : g = Gaps'
  BY <1>1, UartFacts
<1>21. PICK S, T : S = View /\ T = View'
  OBVIOUS
<1>22. StreamOK(S, n, 0, l, r, e)
  BY <1>4, <1>17, <1>18, <1>19, <1>21 DEF UartInv
<1>23. (d > 0 => g) /\ (e => g)
  <2>1. d > 0 => Available(rb) > 0 /\ filled = size
    BY <1>3, <1>15
  <2>2. (Available(rb) > 0 /\ filled = size => Gaps') /\ (Gaps => Gaps')
    BY <1>1
  <2> QED BY <1>19, <1>20, <2>1, <2>2, Zenon
<1>24. Shifted(T, S, n, d)
  <2> SUFFICES ASSUME NEW i \in 1..(n - d) PROVE T[i] = S[i + d]
    BY DEF Shifted
  <2>1. View' = [j \in 1..Pending' |-> IF j <= Available(rb)' THEN Item(rb', j)
                                       ELSE hw'[j - Available(rb)']]
    BY DEF View, Stream, Item
  <2>2. T[i] = IF i <= w THEN Item(rb', i) ELSE hw[i - w]
    BY <1>1, <1>14, <1>16, <1>18, <1>21, <2>1
  <2>3. i + d \in 1..Pending
    BY <1>4, <1>18
  <2>4. S[i + d] = IF i + d <= a THEN Item(rb, i + d) ELSE hw[i + d - a]
    <3>1. S[i + d] = Stream(i + d)
      BY <1>21, <2>3, UartFacts
    <3> QED BY <1>3, <3>1 DEF Stream
  <2>5. CASE filled = size
    <3>1. w = 0 /\ d = a
      BY <1>8, <1>15, <2>5
    <3>2. ~(i <= w) /\ ~(i + d <= a) /\ i - w = i + d - a
      BY <3>1
    <3> QED BY <2>2, <2>4, <3>2
  <2>6. CASE filled # size
    <3>1. w = a /\ d = 0 /\ kept = a /\ m = 0 /\ a <= size - 1
      BY <1>4, <1>6, <1>8, <1>9, <1>15, <2>6
    <3>2. i \in 1..a /\ i + d = i /\ i <= w /\ i + d <= a /\ i \in 1..size
      BY <1>2, <1>18, <3>1
    <3>3. Item(rb', i) = f[Pos(0, i, size)]
      BY <1>12, <1>13, <3>2, ItemIs
    <3>4. Pos(0, i, size) = i - 1 /\ i - 1 \in 0..(size - 1) /\ i - 1 < kept /\ (i - 1) + 1 = i
      BY <1>2, <3>1, <3>2 DEF Pos
    <3>5. f[i - 1] = Contents[i]
      BY <1>10, <3>4
    <3> QED BY <1>7, <2>2, <2>4, <3>2, <3>3, <3>4, <3>5
  <2> QED BY <2>5, <2>6
<1> HIDE DEF filled, kept
<1>25. StreamOK(T, n - d, 0, l, r, g)
  <2>1. 0 \in 0..n /\ (d > 0 => 0 = 0 /\ g)
    BY <1>23
  <2> QED BY <1>18, <1>22, <1>23, <1>24, <2>1, DropOK
<1>26. StreamOK(View, Pending, Gone, LastByte, received, Gaps)'
  BY <1>1, <1>16, <1>17, <1>18, <1>19, <1>20, <1>21, <1>25 DEF StreamOK
<1>27. UartTypeOK'
  <2>1. UartTypeOK
    BY DEF UartInv
  <2>2. /\ rb'.size \in Sizes /\ rb'.rpos \in 0..rb'.size - 1 /\ rb'.wpos \in 0..rb'.size - 1
        /\ rb'.buffer \in [0..rb'.size - 1 -> Bytes]
    BY <1>2, <1>9, <1>11, <1>12
  <2>3. dropped' \in BOOLEAN /\ discarded' \in BOOLEAN
    BY <1>1, <2>1 DEF UartTypeOK
  <2> QED BY <1>1, <2>1, <2>2, <2>3 DEF UartTypeOK, Bytes
<1>28. got' # <<>> /\ (LastByte <= received)' /\ GotInOrder' /\ Ring(rb)' /\ LossFlagged'
  BY <1>1, <1>13 DEF UartInv, LastByte, GotInOrder, Ring, Bytes, LossFlagged
<1>29. Peeking' /\ Counting'
  BY <1>1 DEF Peeking, Counting
<1> QED BY <1>26, <1>27, <1>28, <1>29, Zenon DEF UartInv

\* q is s, of length m, and then t, of length n.
Joined(q, s, m, t, n) ==
  /\ q \in Seq(Bytes) /\ Len(q) = m + n
  /\ \A i \in 1..m : q[i] = s[i]
  /\ \A i \in 1..n : q[m + i] = t[i]

LEMMA JoinIs ==
  ASSUME NEW s \in Seq(Bytes), NEW t \in Seq(Bytes), NEW m \in Nat, NEW n \in Nat,
         m = Len(s), n = Len(t), NEW q, q = s \o t
  PROVE  Joined(q, s, m, t, n)
<1>1. q \in Seq(Bytes) /\ Len(q) = m + n
  OBVIOUS
<1>2. \A i \in 1..m : q[i] = s[i]
  OBVIOUS
<1>3. ASSUME NEW i \in 1..n PROVE q[m + i] = t[i]
  <2>1. m + i \in 1..(m + n) /\ ~(m + i <= m) /\ (m + i) - m = i
    OBVIOUS
  <2> QED BY <2>1
<1> QED BY <1>1, <1>2, <1>3 DEF Joined

\* uart_read() after it has taken d bytes from the ring.
PourOK(s, d, n) ==
  /\ Ring(s.b) /\ s.b.size = rb.size /\ d <= n /\ d <= Available(rb)
  /\ Available(s.b) = Available(rb) - d
  /\ \A i \in 1..(Available(rb) - d) : Item(s.b, i) = Item(rb, i + d)
  /\ s.out \in Seq(Bytes) /\ Len(s.out) = d /\ \A i \in 1..d : s.out[i] = Item(rb, i)

LEMMA PourStep ==
  ASSUME Ring(rb), NEW n \in Nat, NEW d \in Nat, NEW s, PourOK(s, d, n)
  PROVE  \E e \in Nat : PourOK(Pour(s, n), e, n)
<1>1. PICK z \in Nat \ {0} : z = rb.size /\ z = s.b.size
  BY DEF PourOK, Ring
<1>2. PICK p \in 0..(z - 1), w \in 0..(z - 1) : p = s.b.rpos /\ w = s.b.wpos
  BY <1>1 DEF PourOK, Ring
<1>3. PICK a \in 0..(z - 1) : a = Available(rb) /\ d <= a /\ d <= n
  BY <1>1, AvailableIs DEF PourOK
<1>4. Available(s.b) = a - d /\ Available(s.b) = Fill(p, w, z)
  BY <1>1, <1>2, <1>3, AvailableIs DEF PourOK
<1>5. PICK o \in Seq(Bytes) : o = s.out /\ Len(o) = d
  BY DEF PourOK
<1>6. PICK lin : lin = IF p < w THEN w - p ELSE z - p
  OBVIOUS
<1>7. PICK c : c = MinOf(lin, n - d)
  OBVIOUS
<1>8. CASE a - d = 0 \/ d = n
  BY <1>4, <1>5, <1>8 DEF Pour
<1>9. CASE ~(a - d = 0 \/ d = n)
  <2>1. c \in 1..(a - d) /\ p + c <= z /\ d + c <= n
    BY <1>3, <1>4, <1>6, <1>7, <1>9 DEF Fill, MinOf
  <2>2. (p + c) % z = Pos(p, c + 1, z)
    <3>1. PICK x \in Nat : x = p + c /\ x < 2 * z
      BY <2>1
    <3>2. x % z = IF x < z THEN x ELSE x - z
      BY <3>1, ModOnce
    <3> QED BY <2>1, <3>1, <3>2 DEF Pos
  <2>3. PICK t : t = [s.b EXCEPT !.rpos = Pos(s.b.rpos, c + 1, s.b.size)]
    OBVIOUS
  <2>4. Advanced(t, s.b, c)
    <3>1. Ring(s.b) /\ c \in 0..Available(s.b)
      BY <1>4, <2>1 DEF PourOK
    <3> QED BY <2>3, <3>1, AdvanceIs
  <2> DEFINE bytes == [i \in 1..c |-> s.b.buffer[s.b.rpos + i - 1]]
  <2>5. Pour(s, n) = [b |-> t, out |-> o \o bytes]
    <3>1. (IF s.b.rpos < s.b.wpos THEN s.b.wpos - s.b.rpos ELSE s.b.size - s.b.rpos) = lin
      BY <1>1, <1>2, <1>6
    <3>2. MinOf(lin, n - Len(s.out)) = c
      BY <1>5, <1>7
    <3>3. ~(Available(s.b) = 0 \/ Len(s.out) = n)
      BY <1>4, <1>5, <1>9
    <3>4. (s.b.rpos + c) % s.b.size = Pos(s.b.rpos, c + 1, s.b.size)
      BY <1>1, <1>2, <2>2
    <3>5. Pour(s, n) = [b |-> [s.b EXCEPT !.rpos = (@ + c) % s.b.size], out |-> s.out \o bytes]
      BY <3>1, <3>2, <3>3 DEF Pour
    <3> QED BY <1>5, <2>3, <3>4, <3>5
  <2>6. ASSUME NEW i \in 1..c
        PROVE  bytes[i] = Item(rb, i + d) /\ bytes[i] \in Bytes
    <3>1. i \in 1..z /\ p + i - 1 < z /\ i \in 1..(a - d)
      BY <1>3, <2>1
    <3>2. Item(s.b, i) = s.b.buffer[Pos(p, i, z)] /\ Item(s.b, i) \in Bytes
      BY <1>1, <1>2, <3>1, ItemIs, SMTT(30) DEF PourOK
    <3>3. Pos(p, i, z) = p + i - 1
      BY <3>1 DEF Pos
    <3>4. Item(s.b, i) = Item(rb, i + d)
      BY <1>3, <3>1 DEF PourOK
    <3> QED BY <1>2, <3>2, <3>3, <3>4
  <2>7. bytes \in Seq(Bytes) /\ Len(bytes) = c
    <3>1. c \in Nat
      BY <2>1
    <3> QED BY <2>6, <3>1
  <2> HIDE DEF bytes
  <2>8. PICK q : q = o \o bytes
    OBVIOUS
  <2>9. /\ q \in Seq(Bytes) /\ Len(q) = d + c
        /\ \A i \in 1..d : q[i] = o[i]
        /\ \A i \in 1..c : q[d + i] = bytes[i]
    <3>1. c \in Nat
      BY <2>1
    <3>2. Joined(q, o, d, bytes, c)
      BY <1>5, <2>7, <2>8, <3>1, JoinIs
    <3> QED BY <3>2 DEF Joined
  <2>10. ASSUME NEW i \in 1..(d + c) PROVE q[i] = Item(rb, i)
    <3>1. CASE i \in 1..d
      BY <1>5, <2>9, <3>1 DEF PourOK
    <3>2. CASE i \notin 1..d
      <4>1. PICK j \in 1..c : i = d + j /\ i = j + d
        <5>1. i - d \in 1..c /\ i = d + (i - d) /\ i = (i - d) + d
          BY <2>1, <3>2
        <5> QED BY <5>1
      <4> QED BY <2>6, <2>9, <4>1
    <3> QED BY <3>1, <3>2
  <2>11. Ring(t) /\ t.size = rb.size /\ Available(t) = a - (d + c)
    BY <1>1, <1>3, <1>4, <2>1, <2>4 DEF Advanced
  <2>12. ASSUME NEW i \in 1..(a - (d + c)) PROVE Item(t, i) = Item(rb, i + (d + c))
    <3>1. i \in 1..((a - d) - c) /\ i + c \in 1..(a - d) /\ (i + c) + d = i + (d + c)
      BY <1>3, <2>1
    <3>2. Item(t, i) = Item(s.b, i + c)
      BY <1>4, <2>4, <3>1 DEF Advanced
    <3>3. Item(s.b, i + c) = Item(rb, (i + c) + d)
      BY <1>3, <3>1 DEF PourOK
    <3> QED BY <3>1, <3>2, <3>3
  <2>13. d + c \in Nat /\ d + c <= n /\ d + c <= a
    BY <1>3, <2>1
  <2>14. Pour(s, n).b = t /\ Pour(s, n).out = q
    BY <2>5, <2>8
  <2>15. PourOK(Pour(s, n), d + c, n)
    BY <1>3, <2>9, <2>10, <2>11, <2>12, <2>13, <2>14 DEF PourOK
  <2> QED BY <2>13, <2>15
<1> QED BY <1>8, <1>9

LEMMA ReadKeeps ==
  ASSUME UartInv, NEW n \in Nat, Read(n)
  PROVE  UartInv'
<1>1. /\ overrun' = overrun /\ uiof' = uiof /\ use' = use
      /\ received' = received /\ lost' = lost
      /\ dropped' = dropped /\ discarded' = discarded /\ Gaps' = Gaps
      /\ minusOne' = minusOne /\ pc = "idle" /\ pc' = "idle" /\ count' = count
  BY DEF Gaps, Read
<1>2. PICK s : s = Pour(Pour([b |-> rb, out |-> <<>>], n), n)
  OBVIOUS
<1>3. PICK k : k = IF Available(s.b) = 0 THEN MinOf(n - Len(s.out), Len(hw)) ELSE 0
  OBVIOUS
<1>4. /\ rb' = s.b /\ Deliver(s.out \o SubSeq(hw, 1, k))
      /\ hw' = SubSeq(hw, k + 1, Len(hw))
  BY <1>2, <1>3 DEF Read
<1>5. Ring(rb)
  BY DEF UartInv
<1>6. PICK z \in Nat \ {0} : z = rb.size
  BY UartFacts
<1>7. PICK a \in 0..(z - 1) : a = Available(rb)
  BY <1>6, UartFacts
<1>8. PICK d \in Nat : PourOK(s, d, n)
  <2>1. PICK t : t = [b |-> rb, out |-> <<>>]
    OBVIOUS
  <2>2. t.b = rb /\ t.out = <<>>
    BY <2>1
  <2>3. 0 <= n /\ 0 <= a /\ a = a - 0 /\ \A i \in 1..(a - 0) : i + 0 = i
    OBVIOUS
  <2>4. PourOK(t, 0, n)
    BY <1>5, <1>7, <2>2, <2>3 DEF PourOK
  <2>5. PICK e \in Nat : PourOK(Pour(t, n), e, n)
    BY <1>5, <2>4, PourStep
  <2>6. \E d \in Nat : PourOK(Pour(Pour(t, n), n), d, n)
    BY <1>5, <2>5, PourStep
  <2> QED BY <1>2, <2>1, <2>6
<1>9. /\ Ring(rb') /\ rb'.size = z /\ d <= n /\ d <= a /\ Available(rb') = a - d
      /\ \A i \in 1..(a - d) : Item(rb', i) = Item(rb, i + d)
      /\ s.out \in Seq(Bytes) /\ Len(s.out) = d /\ \A i \in 1..d : s.out[i] = Item(rb, i)
  BY <1>4, <1>6, <1>7, <1>8 DEF PourOK
<1>10. PICK m \in Nat : m = Len(hw) /\ hw \in Seq(Bytes)
  BY UartFacts
<1>11. k \in 0..m /\ (k > 0 => d = a)
  <2>1. k = IF a - d = 0 THEN MinOf(n - d, m) ELSE 0
    BY <1>3, <1>4, <1>9, <1>10
  <2> QED BY <1>9, <2>1 DEF MinOf
<1>12. PICK front : front = SubSeq(hw, 1, k)
  OBVIOUS
<1>13. front \in Seq(Bytes) /\ Len(front) = k /\ \A i \in 1..k : front[i] = hw[i]
  BY <1>10, <1>11, <1>12
<1>14. /\ hw' \in Seq(Bytes) /\ Len(hw') = m - k
       /\ \A i \in 1..(m - k) : hw'[i] = hw[i + k]
  BY <1>4, <1>10, <1>11
<1>15. PICK bytes : bytes = s.out \o front
  OBVIOUS
<1>16. PICK c \in Nat : c = d + k
  BY <1>11
<1>17. /\ bytes \in Seq(Bytes) /\ Len(bytes) = c
       /\ \A i \in 1..d : bytes[i] = s.out[i]
       /\ \A i \in 1..k : bytes[d + i] = front[i]
  <2>1. k \in Nat
    BY <1>11
  <2>2. Joined(bytes, s.out, d, front, k)
    BY <1>9, <1>13, <1>15, <2>1, JoinIs
  <2> QED BY <1>16, <2>2 DEF Joined
<1>18. ASSUME NEW i \in 1..c PROVE bytes[i] = Stream(i)
  <2>1. CASE i \in 1..d
    <3>1. i <= a
      BY <1>9, <2>1
    <3> QED BY <1>7, <1>9, <1>17, <2>1, <3>1 DEF Stream
  <2>2. CASE i \notin 1..d
    <3>1. PICK j \in 1..k : i = d + j
      <4>1. i - d \in 1..k /\ i = d + (i - d)
        BY <1>11, <1>16, <2>2
      <4> QED BY <4>1
    <3>2. d = a /\ ~(i <= a) /\ i - a = j
      BY <1>11, <3>1
    <3> QED BY <1>7, <1>13, <1>17, <3>1, <3>2 DEF Stream
  <2> QED BY <2>1, <2>2
<1>19. PICK t \in Nat : t = Pending /\ t = a + m /\ c \in 0..t
  BY <1>7, <1>9, <1>10, <1>11, <1>16, UartFacts, SMTT(30) DEF Pending
<1>20. Gone = 0 /\ Gone' = 0
  BY <1>1 DEF Gone
<1>21. Delivered(c)
  <2>1. Deliver(bytes) /\ c \in 0..Pending
    BY <1>4, <1>12, <1>15, <1>19
  <2> QED BY <1>17, <1>18, <1>20, <2>1, DeliverIs
<1>22. Available(rb)' = a - d /\ Pending' = t - c
  <2>1. Available(rb)' = Available(rb')
    BY DEF Available
  <2>2. Pending' = (a - d) + (m - k)
    BY <1>9, <1>14, <2>1 DEF Pending
  <2> QED BY <1>9, <1>11, <1>16, <1>19, <2>1, <2>2
<1>23. PICK l \in Nat, r \in Nat, e \in BOOLEAN : l = LastByte' /\ r = received /\ e = Gaps
  BY <1>21, UartFacts DEF Delivered
<1>24. PICK S, T : S = View /\ T = View'
  OBVIOUS
<1>25. StreamOK(S, t, c, l, r, e)
  BY <1>19, <1>21, <1>23, <1>24 DEF Delivered
<1>26. Shifted(T, S, t, c)
  <2> SUFFICES ASSUME NEW i \in 1..(t - c) PROVE T[i] = S[i + c]
    BY DEF Shifted
  <2>1. View' = [j \in 1..Pending' |-> IF j <= Available(rb)' THEN Item(rb', j)
                                       ELSE hw'[j - Available(rb)']]
    BY DEF View, Stream, Item
  <2>2. T[i] = IF i <= a - d THEN Item(rb', i) ELSE hw'[i - (a - d)]
    BY <1>22, <1>24, <2>1
  <2>3. i + c \in 1..Pending
    BY <1>19
  <2>4. S[i + c] = IF i + c <= a THEN Item(rb, i + c) ELSE hw[i + c - a]
    <3>1. S[i + c] = Stream(i + c)
      BY <1>24, <2>3, UartFacts
    <3> QED BY <1>7, <3>1 DEF Stream
  <2>5. CASE i <= a - d
    <3>1. k = 0 /\ c = d /\ i + c <= a /\ i \in 1..(a - d)
      <4>1. i \in Nat \ {0} /\ a - d \in Nat
        BY <1>9, <1>19, SMTT(30)
      <4>2. k = 0
        BY <1>9, <1>11, <2>5, <4>1
      <4> QED BY <1>9, <1>16, <2>5, <4>1, <4>2
    <3> QED BY <1>9, <2>2, <2>4, <2>5, <3>1
  <2>6. CASE ~(i <= a - d)
    <3>1. ~(i + c <= a) /\ i - (a - d) \in 1..(m - k) /\ (i - (a - d)) + k = i + c - a
      BY <1>9, <1>11, <1>16, <1>19, <2>6
    <3>2. hw'[i - (a - d)] = hw[(i - (a - d)) + k]
      BY <1>14, <3>1
    <3> QED BY <2>2, <2>4, <2>6, <3>1, <3>2
  <2> QED BY <2>5, <2>6
<1>27. StreamOK(T, t - c, 0, l, r, e)
  BY <1>19, <1>25, <1>26, ConsumeOK
<1>28. StreamOK(View, Pending, Gone, LastByte, received, Gaps)'
  BY <1>1, <1>20, <1>22, <1>23, <1>24, <1>27 DEF StreamOK
<1>29. UartTypeOK'
  <2>1. UartTypeOK
    BY DEF UartInv
  <2>2. /\ rb'.size \in Sizes /\ rb'.rpos \in 0..rb'.size - 1 /\ rb'.wpos \in 0..rb'.size - 1
        /\ rb'.buffer \in [0..rb'.size - 1 -> Bytes]
    BY <1>6, <1>9, <2>1 DEF UartTypeOK, Ring
  <2>3. Len(hw') <= FifoSize
    BY <1>10, <1>11, <1>14, <2>1, FifoAssumption DEF UartTypeOK
  <2>4. got' \in Seq(Bytes)
    BY <1>21 DEF Delivered
  <2> QED BY <1>1, <1>14, <2>1, <2>2, <2>3, <2>4 DEF UartTypeOK, Bytes
<1>30. got' # <<>> /\ (LastByte <= received)' /\ GotInOrder' /\ Ring(rb)' /\ LossFlagged'
  BY <1>1, <1>9, <1>21 DEF UartInv, Delivered, Ring, Bytes, LossFlagged
<1>31. Peeking' /\ Counting'
  BY <1>1 DEF Peeking, Counting
<1> QED BY <1>28, <1>29, <1>30, <1>31, Zenon DEF UartInv

-----------------------------------------------------------------------------
(* UART: the theorems                                                      *)

LEMMA UartStart == UartInit => UartInv
<1> SUFFICES ASSUME UartInit PROVE UartInv
  OBVIOUS
<1>1. PICK z \in Sizes : rb = Empty(z)
  BY DEF UartInit
<1>2. z \in Nat \ {0}
  BY SizesAssumption
<1>3. PICK f : f = [i \in 0..z - 1 |-> Junk]
  OBVIOUS
<1>4. rb = [size |-> z, rpos |-> 0, wpos |-> 0, buffer |-> f]
  BY <1>1, <1>3 DEF Empty
<1>5. 0 \in Bytes /\ f \in [0..(z - 1) -> Bytes]
  BY <1>3, BoundsAssumption DEF Junk, Bytes
<1>6. Ring(rb)
  BY <1>2, <1>4, <1>5 DEF Ring
<1>7. Available(rb) = 0
  BY <1>4 DEF Available
<1>8. /\ overrun = FALSE /\ hw = <<>> /\ uiof = FALSE /\ use \in Uses /\ pc = "idle"
      /\ count = 0 /\ received = 0 /\ got = <<0>> /\ lost = FALSE /\ dropped = FALSE /\ discarded = FALSE /\ Gaps = FALSE
      /\ minusOne = FALSE
  BY DEF UartInit, Gaps
<1>9. Pending = 0 /\ Gone = 0 /\ LastByte = 0
  BY <1>7, <1>8 DEF Pending, Gone, LastByte
<1>10. StreamOK(View, Pending, Gone, LastByte, received, Gaps)
  BY <1>8, <1>9 DEF StreamOK
<1>11. UartTypeOK
  <2>1. hw \in Seq(Bytes) /\ Len(hw) <= FifoSize
    BY <1>8, FifoAssumption
  <2>2. got \in Seq(Bytes) /\ received \in Bytes
    BY <1>5, <1>8
  <2>3. /\ rb.size \in Sizes /\ rb.rpos \in 0..rb.size - 1 /\ rb.wpos \in 0..rb.size - 1
        /\ rb.buffer \in [0..rb.size - 1 -> Bytes]
    BY <1>2, <1>4, <1>5
  <2> QED BY <1>8, <2>1, <2>2, <2>3 DEF UartTypeOK
<1>12. got # <<>> /\ LastByte <= received /\ GotInOrder /\ LossFlagged
  BY <1>8, <1>9 DEF GotInOrder, LossFlagged
<1>13. Peeking /\ Counting
  BY <1>8 DEF Peeking, Counting
<1> QED BY <1>6, <1>10, <1>11, <1>12, <1>13, Zenon DEF UartInv

LEMMA UartStep == UartInv /\ [UartNext]_uartVars => UartInv'
<1> SUFFICES ASSUME UartInv, [UartNext]_uartVars PROVE UartInv'
  OBVIOUS
<1>1. CASE UNCHANGED uartVars
  <2>1. /\ rb' = rb /\ overrun' = overrun /\ hw' = hw /\ uiof' = uiof /\ use' = use
        /\ pc' = pc /\ count' = count /\ received' = received /\ got' = got /\ lost' = lost
        /\ dropped' = dropped /\ discarded' = discarded /\ Gaps' = Gaps /\ minusOne' = minusOne
    BY <1>1 DEF Gaps, uartVars, history
  <2>2. Gone' = Gone /\ Peeking' /\ Counting' /\ LossFlagged'
    BY <2>1, SameView DEF UartInv, Gone, Peeking, Counting, LossFlagged
  <2>3. /\ overrun' \in BOOLEAN /\ uiof' \in BOOLEAN /\ lost' \in BOOLEAN /\ count' \in Nat
        /\ pc' \in {"idle", "available", "peek", "consume"}
    BY <2>1 DEF UartInv, UartTypeOK
  <2> QED BY <2>1, <2>2, <2>3, StillInv
<1>2. CASE Receive
  BY <1>2, ReceiveKeeps
<1>3. CASE UartIsr
  BY <1>3, UartIsrKeeps
<1>4. CASE \E n \in 1..MaxRead : Read(n)
  <2>1. PICK n \in 1..MaxRead : Read(n)
    BY <1>4
  <2>2. n \in Nat
    BY BoundsAssumption
  <2> QED BY <2>1, <2>2, ReadKeeps
<1>5. CASE PeekChar
  BY <1>5, PeekCharKeeps
<1>6. CASE HasOverrun
  BY <1>6, HasOverrunKeeps
<1>7. CASE RxAvailableBuffer \/ RxAvailableFifo
  BY <1>7, RxAvailableKeeps
<1>8. CASE \E size \in Sizes : Resize(size)
  BY <1>8, ResizeKeeps
<1>9. CASE PeekAvailable
  BY <1>9, PeekAvailableKeeps
<1>10. CASE \E n \in 0..MaxRead : PeekBuffer(n)
  <2>1. PICK n \in 0..MaxRead : PeekBuffer(n)
    BY <1>10
  <2>2. n \in Nat
    BY BoundsAssumption
  <2> QED BY <2>1, <2>2, PeekBufferKeeps
<1>11. CASE PeekConsume
  BY <1>11, PeekConsumeKeeps
<1> QED BY <1>1, <1>2, <1>3, <1>4, <1>5, <1>6, <1>7, <1>8, <1>9, <1>10, <1>11, Zenon DEF UartNext

\* The invariant of the receive path: the ring and the FIFO hold, in the order
\* of arrival, bytes newer than the last one delivered, and all of them as
\* long as nothing was dropped or discarded.
THEOREM UartInvariant == UartSpec => []UartInv
<1> QED BY UartStart, UartStep, PTL DEF UartSpec

\* uart_read() and the peekBuffer API deliver the bytes in the order they
\* arrived, for every buffer size, trigger level and interleaving with the
\* interrupt; none is missing before an overrun drops one or a resize discards
\* some by filling the new buffer; what an overrun drops, and only that, is
\* reported.
THEOREM DeliversInOrder == UartSpec => []InOrder
<1>1. UartInv => InOrder
  <2> SUFFICES ASSUME UartInv PROVE InOrder
    OBVIOUS
  <2>1. UartTypeOK /\ GotInOrder /\ LossFlagged
    BY DEF UartInv
  <2>2. ASSUME ~Gaps, pc # "consume"
        PROVE  Contents \o hw = [i \in 1..received - LastByte |-> LastByte + i]
    <3>1. PICK a \in Nat : a = Available(rb) /\ a <= rb.size
      BY UartFacts
    <3>2. PICK m \in Nat : m = Len(hw) /\ hw \in Seq(Bytes) /\ Pending = a + m
      BY <3>1, UartFacts DEF Pending
    <3>3. ASSUME NEW i \in 1..a PROVE Contents[i] = Item(rb, i) /\ Contents[i] \in Bytes
      <4>1. i \in 1..rb.size
        BY <3>1, UartFacts
      <4> QED BY <3>1, <4>1, ItemIs DEF Contents, Item, UartInv
    <3>4. Contents = [i \in 1..a |-> Contents[i]]
      BY <3>1 DEF Contents
    <3>5. Contents \in Seq(Bytes) /\ Len(Contents) = a
      BY <3>3, <3>4
    <3>6. PICK q : q = Contents \o hw
      OBVIOUS
    <3>7. Joined(q, Contents, a, hw, m)
      BY <3>2, <3>5, <3>6, JoinIs
    <3>8. PICK l \in Nat, r \in Nat : l = LastByte /\ r = received
      BY UartFacts
    <3>9. a + m = r - l /\ \A i \in 1..(a + m) : View[i] = l + i
      <4>1. StreamOK(View, a + m, 0, l, r, Gaps)
        BY <2>2, <3>2, <3>8, UartFacts DEF UartInv
      <4>2. \A i \in 1..(a + m) : i > 0 /\ i - 0 = i
        OBVIOUS
      <4> QED BY <2>2, <4>1, <4>2 DEF StreamOK
    <3>10. ASSUME NEW i \in 1..(a + m) PROVE q[i] = l + i
      <4>1. View[i] = Stream(i)
        BY <3>2, UartFacts
      <4>2. CASE i <= a
        <5>1. i \in 1..a
          BY <4>2
        <5>2. q[i] = Contents[i]
          BY <3>7, <5>1 DEF Joined
        <5> QED BY <3>1, <3>3, <3>9, <4>1, <4>2, <5>1, <5>2 DEF Stream
      <4>3. CASE ~(i <= a)
        <5>1. PICK j \in 1..m : j = i - a /\ a + j = i
          <6>1. i - a \in 1..m /\ a + (i - a) = i
            BY <4>3
          <6> QED BY <6>1
        <5>2. q[i] = hw[j]
          BY <3>7, <5>1 DEF Joined
        <5> QED BY <3>1, <3>9, <4>1, <4>3, <5>1, <5>2 DEF Stream
      <4> QED BY <4>2, <4>3
    <3>11. q \in Seq(Bytes) /\ Len(q) = a + m
      BY <3>7 DEF Joined
    <3>12. q = [i \in 1..(a + m) |-> l + i]
      BY <3>10, <3>11
    <3> QED BY <3>6, <3>8, <3>9, <3>12
  <2> QED BY <2>1, <2>2 DEF InOrder, NothingMissing
<1> QED BY <1>1, UartInvariant, PTL

\* What peekAvailable() counted is there, in one piece, when peekBuffer() is
\* called, however the interrupt moved bytes in between.
THEOREM PeekKeepsPromise == UartSpec => []PeekPromise
<1>1. UartInv => PeekPromise
  BY DEF UartInv, Peeking, PeekPromise
<1> QED BY <1>1, UartInvariant, PTL

\* available() never returns more than read() could deliver: between its two
\* counts the interrupt can only add to the ring.
THEOREM AvailableIsThere == UartSpec => AvailableHolds
<1> DEFINE A == RxAvailableFifo => count + AvailPart(2) <= Available(rb) + Len(hw)
<1>1. UartInv /\ [UartNext]_uartVars => [A]_uartVars
  <2> SUFFICES ASSUME UartInv, RxAvailableFifo
               PROVE  count + AvailPart(2) <= Available(rb) + Len(hw)
    OBVIOUS
  <2>1. count <= Available(rb)
    BY DEF UartInv, Counting, RxAvailableFifo
  <2>2. AvailPart(2) = Len(hw)
    BY DEF AvailPart
  <2> QED BY <2>1, <2>2, UartFacts
<1> QED BY <1>1, UartInvariant, PTL DEF UartSpec, AvailableHolds

-----------------------------------------------------------------------------
(* UDP: contexts and the objects that point to them                        *)

\* A context is a record, counts at least the objects that point to it, and
\* is as constructed when nothing is counted.
Counted(x, n) ==
  /\ DOMAIN x = DOMAIN UdpFresh /\ x.refcnt \in Nat /\ n <= x.refcnt
  /\ x.refcnt = 0 => x = UdpFresh

Held(obj, ctx) ==
  /\ obj \in [UdpObjs -> UdpCtxs \cup {NoCtx, NoObj}] /\ DOMAIN ctx = UdpCtxs
  /\ \A c \in UdpCtxs : Counted(ctx[c], Cardinality(UdpPointing(obj, c)))

LEMMA PointingIs ==
  ASSUME NEW obj, NEW c
  PROVE  /\ IsFiniteSet(UdpPointing(obj, c))
         /\ Cardinality(UdpPointing(obj, c)) \in Nat
         /\ \A u \in UdpObjs : obj[u] = c => Cardinality(UdpPointing(obj, c)) > 0
<1>1. UdpPointing(obj, c) \in SUBSET UdpObjs
  BY DEF UdpPointing
<1>2. IsFiniteSet(UdpPointing(obj, c))
  BY <1>1, UdpObjsAssumption, FS_Subset
<1>3. Cardinality(UdpPointing(obj, c)) \in Nat
  BY <1>2, FS_CardinalityType
<1>4. ASSUME NEW u \in UdpObjs, obj[u] = c PROVE Cardinality(UdpPointing(obj, c)) > 0
  <2>1. UdpPointing(obj, c) # {}
    BY <1>4 DEF UdpPointing
  <2>2. Cardinality(UdpPointing(obj, c)) # 0
    BY <1>2, <2>1, FS_EmptySet
  <2> QED BY <1>3, <2>2
<1> QED BY <1>2, <1>3, <1>4

\* o is obj after u was made to point to x.
Moved(o, obj, u, x) == DOMAIN obj = UdpObjs /\ o = [obj EXCEPT ![u] = x]

\* The number of objects that point to c after u was made to point to x.
LEMMA PointElsewhere ==
  ASSUME NEW o, NEW obj, NEW u \in UdpObjs, NEW x, NEW c, x # c, Moved(o, obj, u, x)
  PROVE  Cardinality(UdpPointing(o, c)) =
           IF obj[u] = c THEN Cardinality(UdpPointing(obj, c)) - 1
                         ELSE Cardinality(UdpPointing(obj, c))
<1>1. UdpPointing(o, c) = UdpPointing(obj, c) \ {u}
  BY DEF UdpPointing, Moved
<1>2. u \in UdpPointing(obj, c) <=> obj[u] = c
  BY DEF UdpPointing
<1> QED BY <1>1, <1>2, PointingIs, FS_RemoveElement

LEMMA PointThere ==
  ASSUME NEW o, NEW obj, NEW u \in UdpObjs, NEW c, Moved(o, obj, u, c)
  PROVE  Cardinality(UdpPointing(o, c)) =
           IF obj[u] = c THEN Cardinality(UdpPointing(obj, c))
                         ELSE Cardinality(UdpPointing(obj, c)) + 1
<1>1. UdpPointing(o, c) = UdpPointing(obj, c) \cup {u}
  BY DEF UdpPointing, Moved
<1>2. u \in UdpPointing(obj, c) <=> obj[u] = c
  BY DEF UdpPointing
<1> QED BY <1>1, <1>2, PointingIs, FS_AddElement

LEMMA FreshIs == DOMAIN UdpFresh = DOMAIN UdpFresh /\ UdpFresh.refcnt = 0
  BY DEF UdpFresh

LEMMA RefcntIs ==
  ASSUME NEW x, DOMAIN x = DOMAIN UdpFresh, NEW r
  PROVE  /\ DOMAIN [x EXCEPT !.refcnt = r] = DOMAIN UdpFresh
         /\ [x EXCEPT !.refcnt = r].refcnt = r
<1>1. "refcnt" \in DOMAIN UdpFresh
  BY DEF UdpFresh
<1> QED BY <1>1

\* u gives its reference back.
LEMMA ReleaseOK ==
  ASSUME NEW obj, NEW ctx, Held(obj, ctx), NEW u \in UdpObjs, NEW x \in {NoCtx, NoObj}
  PROVE  Held([obj EXCEPT ![u] = x], UdpUnref(ctx, obj[u]))
<1> DEFINE t == UdpUnref(ctx, obj[u])
<1>0. PICK o : o = [obj EXCEPT ![u] = x]
  OBVIOUS
<1>1. /\ obj \in [UdpObjs -> UdpCtxs \cup {NoCtx, NoObj}] /\ DOMAIN ctx = UdpCtxs
      /\ DOMAIN obj = UdpObjs
  BY DEF Held
<1>2. o \in [UdpObjs -> UdpCtxs \cup {NoCtx, NoObj}] /\ DOMAIN t = UdpCtxs
  BY <1>0, <1>1 DEF UdpUnref
<1>4. Moved(o, obj, u, x)
  BY <1>0, <1>1 DEF Moved
<1>3. ASSUME NEW c \in UdpCtxs
      PROVE  Counted(t[c], Cardinality(UdpPointing(o, c)))
  <2>1. PICK n \in Nat : n = Cardinality(UdpPointing(obj, c)) /\ (obj[u] = c => n > 0)
    BY PointingIs
  <2>2. Counted(ctx[c], n)
    BY <2>1 DEF Held
  <2>3. x # c
    BY UdpObjsAssumption DEF NoCtx, NoObj
  <2>4. Cardinality(UdpPointing(o, c)) = IF obj[u] = c THEN n - 1 ELSE n
    BY <1>4, <2>1, <2>3, PointElsewhere
  <2>5. CASE obj[u] # c
    <3>1. t[c] = ctx[c]
      BY <1>1, <2>5 DEF UdpUnref
    <3> QED BY <2>2, <2>4, <2>5, <3>1
  <2>6. CASE obj[u] = c
    <3>1. PICK r \in Nat : r = ctx[c].refcnt /\ n <= r /\ DOMAIN ctx[c] = DOMAIN UdpFresh
      BY <2>2 DEF Counted
    <3>2. t[c] = IF r = 1 THEN UdpFresh ELSE [ctx[c] EXCEPT !.refcnt = r - 1]
      BY <1>1, <2>6, <3>1 DEF UdpUnref
    <3>3. CASE r = 1
      BY <2>1, <2>4, <2>6, <3>1, <3>2, <3>3, FreshIs DEF Counted
    <3>4. CASE r # 1
      <4>1. r - 1 \in Nat /\ r - 1 # 0 /\ n - 1 <= r - 1
        BY <2>1, <2>6, <3>1, <3>4
      <4>2. DOMAIN t[c] = DOMAIN UdpFresh /\ t[c].refcnt = r - 1
        BY <3>1, <3>2, <3>4, RefcntIs
      <4> QED BY <2>4, <2>6, <4>1, <4>2 DEF Counted
    <3> QED BY <3>3, <3>4
  <2> QED BY <2>5, <2>6
<1> QED BY <1>0, <1>2, <1>3 DEF Held

\* u, which pointed to no context, gets a new one.
LEMMA NewOK ==
  ASSUME NEW obj, NEW ctx, Held(obj, ctx), NEW u \in UdpObjs, obj[u] \notin UdpCtxs,
         NEW c \in UdpCtxs, ctx[c].refcnt = 0,
         NEW y, DOMAIN y = DOMAIN UdpFresh, y.refcnt = 1
  PROVE  Held([obj EXCEPT ![u] = c], [ctx EXCEPT ![c] = y])
<1> DEFINE t == [ctx EXCEPT ![c] = y]
<1>0. PICK o : o = [obj EXCEPT ![u] = c]
  OBVIOUS
<1>1. /\ obj \in [UdpObjs -> UdpCtxs \cup {NoCtx, NoObj}] /\ DOMAIN ctx = UdpCtxs
      /\ DOMAIN obj = UdpObjs
  BY DEF Held
<1>2. o \in [UdpObjs -> UdpCtxs \cup {NoCtx, NoObj}] /\ DOMAIN t = UdpCtxs
  BY <1>0, <1>1
<1>4. Moved(o, obj, u, c)
  BY <1>0, <1>1 DEF Moved
<1>3. ASSUME NEW e \in UdpCtxs
      PROVE  Counted(t[e], Cardinality(UdpPointing(o, e)))
  <2>1. PICK n \in Nat : n = Cardinality(UdpPointing(obj, e))
    BY PointingIs
  <2>2. Counted(ctx[e], n) /\ obj[u] # e
    BY <2>1 DEF Held
  <2>3. CASE e = c
    <3>1. n = 0
      BY <2>2, <2>3 DEF Counted
    <3>2. Cardinality(UdpPointing(o, e)) = n + 1
      BY <1>4, <2>1, <2>2, <2>3, PointThere
    <3>3. t[e] = y
      BY <1>1, <2>3
    <3> QED BY <3>1, <3>2, <3>3 DEF Counted
  <2>4. CASE e # c
    <3>1. Cardinality(UdpPointing(o, e)) = n
      BY <1>4, <2>1, <2>2, <2>4, PointElsewhere
    <3>2. t[e] = ctx[e]
      BY <1>1, <2>4
    <3> QED BY <2>2, <3>1, <3>2
  <2> QED BY <2>3, <2>4
<1> QED BY <1>0, <1>2, <1>3 DEF Held

\* u points where v does; the reference it had before is kept.
LEMMA ShareOK ==
  ASSUME NEW obj, NEW ctx, Held(obj, ctx), NEW u \in UdpObjs, NEW v \in UdpObjs,
         obj[v] # NoObj, NEW t, t = IF obj[v] = NoCtx THEN ctx ELSE UdpRef(ctx, obj[v])
  PROVE  Held([obj EXCEPT ![u] = obj[v]], t)
<1>0. PICK o : o = [obj EXCEPT ![u] = obj[v]]
  OBVIOUS
<1>1. /\ obj \in [UdpObjs -> UdpCtxs \cup {NoCtx, NoObj}] /\ DOMAIN ctx = UdpCtxs
      /\ DOMAIN obj = UdpObjs
  BY DEF Held
<1>2. o \in [UdpObjs -> UdpCtxs \cup {NoCtx, NoObj}] /\ DOMAIN t = UdpCtxs
  BY <1>0, <1>1 DEF UdpRef
<1>4. Moved(o, obj, u, obj[v])
  BY <1>0, <1>1 DEF Moved
<1>3. ASSUME NEW c \in UdpCtxs
      PROVE  Counted(t[c], Cardinality(UdpPointing(o, c)))
  <2>1. PICK n \in Nat : n = Cardinality(UdpPointing(obj, c)) /\ (obj[v] = c => n > 0)
    BY PointingIs
  <2>2. Counted(ctx[c], n)
    BY <2>1 DEF Held
  <2>3. PICK r \in Nat : r = ctx[c].refcnt /\ n <= r /\ DOMAIN ctx[c] = DOMAIN UdpFresh
    BY <2>2 DEF Counted
  <2>4. PICK k \in Nat : k = Cardinality(UdpPointing(o, c))
    BY PointingIs
  <2>5. CASE obj[v] = c
    <3>1. k <= n + 1
      BY <1>4, <2>1, <2>4, <2>5, PointThere
    <3>2. obj[v] # NoCtx
      BY <2>5, UdpObjsAssumption DEF NoCtx
    <3>3. t[c] = [ctx[c] EXCEPT !.refcnt = r + 1]
      BY <1>1, <2>3, <2>5, <3>2 DEF UdpRef
    <3>4. DOMAIN t[c] = DOMAIN UdpFresh /\ t[c].refcnt = r + 1
      BY <2>3, <3>3, RefcntIs, ZenonT(60)
    <3>5. r + 1 \in Nat /\ r + 1 # 0 /\ k <= r + 1
      BY <2>3, <3>1
    <3> QED BY <2>4, <3>4, <3>5 DEF Counted
  <2>6. CASE obj[v] # c
    <3>1. k <= n
      BY <1>4, <2>1, <2>4, <2>6, PointElsewhere
    <3>2. t[c] = ctx[c]
      BY <1>1, <2>6 DEF UdpRef
    <3>3. k <= r
      BY <2>3, <3>1
    <3> QED BY <2>2, <2>3, <2>4, <3>2, <3>3 DEF Counted
  <2> QED BY <2>5, <2>6
<1> QED BY <1>0, <1>2, <1>3 DEF Held

\* A context that is counted changes, and is counted as before.
LEMMA ChangeOK ==
  ASSUME NEW obj, NEW ctx, Held(obj, ctx), NEW c \in UdpCtxs, ctx[c].refcnt # 0,
         NEW y, DOMAIN y = DOMAIN UdpFresh, y.refcnt = ctx[c].refcnt
  PROVE  Held(obj, [ctx EXCEPT ![c] = y])
<1>1. /\ obj \in [UdpObjs -> UdpCtxs \cup {NoCtx, NoObj}] /\ DOMAIN ctx = UdpCtxs
      /\ DOMAIN obj = UdpObjs
  BY DEF Held
<1>2. ASSUME NEW e \in UdpCtxs
      PROVE  Counted([ctx EXCEPT ![c] = y][e], Cardinality(UdpPointing(obj, e)))
  <2>1. Counted(ctx[e], Cardinality(UdpPointing(obj, e)))
    BY DEF Held
  <2>2. CASE e = c
    BY <1>1, <2>1, <2>2 DEF Counted
  <2>3. CASE e # c
    BY <1>1, <2>1, <2>3
  <2> QED BY <2>2, <2>3
<1> QED BY <1>1, <1>2 DEF Held

\* y is a context counted like x.
Alike(y, x) == DOMAIN y = DOMAIN UdpFresh /\ y.refcnt = x.refcnt

LEMMA FieldsIs ==
  ASSUME NEW x, DOMAIN x = DOMAIN UdpFresh, NEW a, NEW b, NEW c, NEW d, NEW e
  PROVE  /\ Alike(x, x)
         /\ Alike([x EXCEPT !.rx = a], x)
         /\ Alike([x EXCEPT !.taken = a], x)
         /\ Alike([x EXCEPT !.offset = a], x)
         /\ Alike([x EXCEPT !.cap = a, !.refused = b], x)
         /\ Alike([x EXCEPT !.cap = a, !.tx = b], x)
         /\ Alike([x EXCEPT !.rx = a, !.addr = b, !.offset = c, !.size = d], x)
         /\ Alike([x EXCEPT !.rx = a, !.taken = b, !.offset = c, !.addr = d, !.size = e], x)
         /\ Alike([x EXCEPT !.rx = a, !.taken = b, !.offset = c, !.size = d, !.addr = e], x)
<1>1. "refcnt" \in DOMAIN x
  BY DEF UdpFresh
<1> QED BY <1>1 DEF Alike

HoldInv == Held(udpObj, udpCtx) /\ udpIn \in 0..UdpMaxIn

LEMMA HeldFacts ==
  ASSUME HoldInv
  PROVE  /\ udpObj \in [UdpObjs -> UdpCtxs \cup {NoCtx, NoObj}] /\ DOMAIN udpCtx = UdpCtxs
         /\ \A c \in UdpCtxs : DOMAIN udpCtx[c] = DOMAIN UdpFresh
         /\ \A u \in UdpObjs : udpObj[u] \in UdpCtxs => udpCtx[udpObj[u]].refcnt # 0
<1>1. \A c \in UdpCtxs : Counted(udpCtx[c], Cardinality(UdpPointing(udpObj, c)))
  BY DEF HoldInv, Held
<1>2. ASSUME NEW u \in UdpObjs, udpObj[u] \in UdpCtxs PROVE udpCtx[udpObj[u]].refcnt # 0
  <2>1. PICK n \in Nat : n = Cardinality(UdpPointing(udpObj, udpObj[u])) /\ n > 0
    BY PointingIs
  <2>2. Counted(udpCtx[udpObj[u]], n)
    BY <1>1, <1>2, <2>1
  <2> QED BY <2>1, <2>2 DEF Counted
<1> QED BY <1>1, <1>2 DEF HoldInv, Held, Counted

\* A call that changes the counted context c, and nothing else.
LEMMA ChangeKeeps ==
  ASSUME HoldInv, NEW c \in UdpCtxs, udpCtx[c].refcnt # 0, NEW y, Alike(y, udpCtx[c]),
         udpCtx' = [udpCtx EXCEPT ![c] = y], udpObj' = udpObj, udpIn' \in 0..UdpMaxIn
  PROVE  HoldInv'
<1>1. Held(udpObj, [udpCtx EXCEPT ![c] = y])
  BY ChangeOK DEF HoldInv, Alike
<1>2. Held(udpObj', udpCtx')
  BY <1>1
<1> QED BY <1>2 DEF HoldInv, Held, Counted, UdpPointing, UdpFresh

LEMMA UdpRecvKeeps ==
  ASSUME HoldInv, NEW c \in UdpCtxs, NEW shape, UdpRecv(c, shape)
  PROVE  HoldInv'
<1>1. udpObj' = udpObj /\ udpIn' \in 0..UdpMaxIn
  BY UdpAssumption DEF HoldInv, UdpRecv
<1>2. udpCtx[c].refcnt # 0 /\ DOMAIN udpCtx[c] = DOMAIN UdpFresh
  <2>1. udpCtx[c].recv /\ UdpFresh.recv = FALSE
    BY DEF UdpRecv, UdpFresh
  <2>2. Counted(udpCtx[c], Cardinality(UdpPointing(udpObj, c)))
    BY DEF HoldInv, Held
  <2> QED BY <2>1, <2>2 DEF Counted
<1>3. PICK x : x = udpCtx[c]
  OBVIOUS
<1>4. ASSUME ~UNCHANGED udpCtx
      PROVE  \E y : Alike(y, x) /\ udpCtx' = [udpCtx EXCEPT ![c] = y]
  <2>2. CASE udpCtx' = [udpCtx EXCEPT ![c].rx =
                          @ \o <<UdpHelper(udpIn + 1)>> \o UdpPbufs(udpIn + 1, shape)]
    <3>1. PICK a : a = x.rx \o <<UdpHelper(udpIn + 1)>> \o UdpPbufs(udpIn + 1, shape)
      OBVIOUS
    <3>2. udpCtx' = [udpCtx EXCEPT ![c] = [x EXCEPT !.rx = a]]
      BY <1>3, <2>2, <3>1
    <3> QED BY <1>2, <1>3, <3>2, FieldsIs
  <2>3. CASE udpCtx' = [udpCtx EXCEPT ![c] =
                 [@ EXCEPT !.rx = UdpPbufs(udpIn + 1, shape), !.taken = FALSE,
                           !.offset = 0, !.addr = udpIn + 1,
                           !.size = UdpProcessSize(UdpPbufs(udpIn + 1, shape))]]
    <3>1. udpCtx' = [udpCtx EXCEPT ![c] =
                 [x EXCEPT !.rx = UdpPbufs(udpIn + 1, shape), !.taken = FALSE,
                           !.offset = 0, !.addr = udpIn + 1,
                           !.size = UdpProcessSize(UdpPbufs(udpIn + 1, shape))]]
      BY <1>3, <2>3
    <3>2. Alike([x EXCEPT !.rx = UdpPbufs(udpIn + 1, shape), !.taken = FALSE,
                           !.offset = 0, !.addr = udpIn + 1,
                           !.size = UdpProcessSize(UdpPbufs(udpIn + 1, shape))], x)
      BY <1>2, <1>3, FieldsIs
    <3> QED BY <3>1, <3>2
  <2> QED BY <1>4, <2>2, <2>3, Zenon DEF UdpRecv
<1>5. CASE UNCHANGED udpCtx
  BY <1>1, <1>5 DEF HoldInv, Held, Counted, UdpPointing, UdpFresh
<1> QED BY <1>1, <1>2, <1>3, <1>4, <1>5, ChangeKeeps

LEMMA UdpParsePacketKeeps ==
  ASSUME HoldInv, NEW u \in UdpObjs, UdpParsePacket(u)
  PROVE  HoldInv'
<1>1. PICK c \in UdpCtxs : c = udpObj[u]
  BY DEF UdpParsePacket
<1>2. PICK x : x = udpCtx[c] /\ x.refcnt # 0 /\ DOMAIN x = DOMAIN UdpFresh
  BY <1>1, HeldFacts
<1>3. Alike(UdpAdvance(x), x)
  BY <1>2, FieldsIs, ZenonT(60) DEF UdpAdvance
<1>4. udpCtx' = [udpCtx EXCEPT ![c] = UdpAdvance(x)] /\ udpObj' = udpObj /\ udpIn' = udpIn
  BY <1>1, <1>2 DEF UdpParsePacket
<1> QED BY <1>2, <1>3, <1>4, ChangeKeeps DEF HoldInv

LEMMA UdpReadKeeps ==
  ASSUME HoldInv, NEW u \in UdpObjs, NEW n, UdpRead(u, n)
  PROVE  HoldInv'
<1>1. PICK c \in UdpCtxs : c = udpObj[u]
  BY DEF UdpRead
<1>2. PICK x : x = udpCtx[c] /\ x.refcnt # 0 /\ DOMAIN x = DOMAIN UdpFresh
  BY <1>1, HeldFacts
<1>3. PICK a : a = x.offset + Min({n, x.size - x.offset})
  OBVIOUS
<1>4. /\ udpCtx' = [udpCtx EXCEPT ![c] = [x EXCEPT !.offset = a]]
      /\ udpObj' = udpObj /\ udpIn' = udpIn
  BY <1>1, <1>2, <1>3 DEF UdpRead
<1>5. Alike([x EXCEPT !.offset = a], x)
  BY <1>2, FieldsIs
<1> QED BY <1>2, <1>4, <1>5, ChangeKeeps DEF HoldInv

LEMMA UdpWriteKeeps ==
  ASSUME HoldInv, NEW u \in UdpObjs, NEW n, UdpWrite(u, n)
  PROVE  HoldInv'
<1>1. PICK c \in UdpCtxs : c = udpObj[u]
  BY DEF UdpWrite
<1>2. PICK x : x = udpCtx[c] /\ x.refcnt # 0 /\ DOMAIN x = DOMAIN UdpFresh
  BY <1>1, HeldFacts
<1>3. udpObj' = udpObj /\ udpIn' = udpIn
  BY DEF UdpWrite
<1>4. PICK units, new : LET cap == x.cap + new * pbuf_unit_size IN
        udpCtx' = [udpCtx EXCEPT ![c] =
                     IF cap < x.tx + n
                     THEN [x EXCEPT !.cap = cap, !.refused = @ \/ new = units]
                     ELSE [x EXCEPT !.cap = cap, !.tx = @ + n]]
  BY <1>1, <1>2, Zenon DEF UdpWrite
<1>5. PICK cap : cap = x.cap + new * pbuf_unit_size
  OBVIOUS
<1>6. PICK y : Alike(y, x) /\ udpCtx' = [udpCtx EXCEPT ![c] = y]
  <2>1. CASE cap < x.tx + n
    <3>1. udpCtx' = [udpCtx EXCEPT ![c] =
                       [x EXCEPT !.cap = cap, !.refused = x.refused \/ new = units]]
      BY <1>4, <1>5, <2>1
    <3>2. Alike([x EXCEPT !.cap = cap, !.refused = x.refused \/ new = units], x)
      BY <1>2, FieldsIs
    <3> QED BY <3>1, <3>2
  <2>2. CASE ~(cap < x.tx + n)
    <3>1. udpCtx' = [udpCtx EXCEPT ![c] = [x EXCEPT !.cap = cap, !.tx = x.tx + n]]
      BY <1>4, <1>5, <2>2
    <3>2. Alike([x EXCEPT !.cap = cap, !.tx = x.tx + n], x)
      BY <1>2, FieldsIs
    <3> QED BY <3>1, <3>2
  <2> QED BY <2>1, <2>2
<1> QED BY <1>2, <1>3, <1>6, ChangeKeeps DEF HoldInv

LEMMA UdpEndPacketKeeps ==
  ASSUME HoldInv, NEW u \in UdpObjs, UdpEndPacket(u)
  PROVE  HoldInv'
<1>1. PICK c \in UdpCtxs : c = udpObj[u]
  BY DEF UdpEndPacket
<1>2. PICK x : x = udpCtx[c] /\ x.refcnt # 0 /\ DOMAIN x = DOMAIN UdpFresh
  BY <1>1, HeldFacts
<1>3. /\ udpCtx' = [udpCtx EXCEPT ![c] = [x EXCEPT !.cap = 0, !.tx = 0]]
      /\ udpObj' = udpObj /\ udpIn' = udpIn
  BY <1>1, <1>2 DEF UdpEndPacket
<1>4. Alike([x EXCEPT !.cap = 0, !.tx = 0], x)
  BY <1>2, FieldsIs
<1> QED BY <1>2, <1>3, <1>4, ChangeKeeps DEF HoldInv

LEMMA UdpStopAllKeeps ==
  ASSUME HoldInv, UdpStopAll
  PROVE  HoldInv'
<1>1. /\ udpObj' = [u \in UdpObjs |-> IF udpObj[u] = NoObj THEN NoObj ELSE NoCtx]
      /\ DOMAIN udpCtx' = UdpCtxs /\ udpIn' = udpIn
  BY DEF UdpStopAll
<1>2. PICK o : o = udpObj'
  OBVIOUS
<1>3. o \in [UdpObjs -> UdpCtxs \cup {NoCtx, NoObj}] /\ \A u \in UdpObjs : o[u] \notin UdpCtxs
  BY <1>1, <1>2, UdpObjsAssumption DEF NoCtx, NoObj
<1>4. ASSUME NEW c \in UdpCtxs
      PROVE  Counted(udpCtx'[c], Cardinality(UdpPointing(o, c)))
  <2>1. UdpPointing(o, c) = {}
    BY <1>3 DEF UdpPointing
  <2>2. Cardinality(UdpPointing(o, c)) = 0
    BY <2>1, FS_EmptySet
  <2>3. PICK n \in Nat : n = Cardinality(UdpPointing(udpObj, c))
    BY PointingIs
  <2>4. Counted(udpCtx[c], n)
    BY <2>3 DEF HoldInv, Held
  <2>5. PICK r \in Nat : r = udpCtx[c].refcnt /\ n <= r /\ DOMAIN udpCtx[c] = DOMAIN UdpFresh
    BY <2>4 DEF Counted
  <2>6. udpCtx'[c] = IF n = r THEN UdpFresh ELSE [udpCtx[c] EXCEPT !.refcnt = r - n]
    BY <2>3, <2>5 DEF UdpStopAll
  <2>7. CASE n = r
    BY <2>2, <2>6, <2>7, FreshIs DEF Counted
  <2>8. CASE n # r
    <3>1. r - n \in Nat /\ r - n # 0
      BY <2>5, <2>8
    <3>2. DOMAIN udpCtx'[c] = DOMAIN UdpFresh /\ udpCtx'[c].refcnt = r - n
      BY <2>5, <2>6, <2>8, RefcntIs
    <3> QED BY <2>2, <3>1, <3>2 DEF Counted
  <2> QED BY <2>7, <2>8
<1>5. Held(udpObj', udpCtx')
  BY <1>1, <1>2, <1>3, <1>4 DEF Held
<1> QED BY <1>1, <1>5 DEF HoldInv, Held, Counted, UdpPointing, UdpFresh

LEMMA UdpBeginKeeps ==
  ASSUME HoldInv, NEW u \in UdpObjs, UdpBegin(u)
  PROVE  HoldInv'
<1>1. PICK old : old = UdpUnref(udpCtx, udpObj[u])
  OBVIOUS
<1>2. PICK o : o = [udpObj EXCEPT ![u] = NoCtx]
  OBVIOUS
<1>3. Held(o, old)
  BY <1>1, <1>2, ReleaseOK DEF HoldInv
<1>4. udpIn' = udpIn
  BY DEF UdpBegin
<1>5. Held(udpObj', udpCtx')
  <2>1. CASE udpObj' = [udpObj EXCEPT ![u] = NoCtx] /\ udpCtx' = old
    BY <1>2, <1>3, <2>1
  <2>2. CASE \E c \in UdpCtxs, bound \in BOOLEAN :
               /\ UdpNew(old, c)
               /\ udpObj' = [udpObj EXCEPT ![u] = c]
               /\ udpCtx' = [old EXCEPT ![c] = [UdpFresh EXCEPT !.refcnt = 1, !.recv = bound]]
    <3>1. PICK c \in UdpCtxs, bound \in BOOLEAN :
               /\ UdpNew(old, c)
               /\ udpObj' = [udpObj EXCEPT ![u] = c]
               /\ udpCtx' = [old EXCEPT ![c] = [UdpFresh EXCEPT !.refcnt = 1, !.recv = bound]]
      BY <2>2
    <3>2. PICK y : y = [UdpFresh EXCEPT !.refcnt = 1, !.recv = bound]
      OBVIOUS
    <3>3. DOMAIN y = DOMAIN UdpFresh /\ y.refcnt = 1
      BY <3>2 DEF UdpFresh
    <3>4. old[c].refcnt = 0 /\ o[u] \notin UdpCtxs /\ udpObj' = [o EXCEPT ![u] = c]
      BY <1>2, <3>1, HeldFacts, UdpObjsAssumption DEF UdpNew, NoCtx
    <3>5. Held([o EXCEPT ![u] = c], [old EXCEPT ![c] = y])
      BY <1>3, <3>3, <3>4, NewOK
    <3> QED BY <3>1, <3>2, <3>4, <3>5
  <2> QED BY <1>1, <2>1, <2>2, Zenon DEF UdpBegin
<1> QED BY <1>4, <1>5 DEF HoldInv, Held, Counted, UdpPointing, UdpFresh

LEMMA UdpBeginPacketKeeps ==
  ASSUME HoldInv, NEW u \in UdpObjs, UdpBeginPacket(u)
  PROVE  HoldInv'
<1>1. PICK c \in UdpCtxs :
         /\ udpCtx[c].refcnt = 0 /\ udpObj' = [udpObj EXCEPT ![u] = c]
         /\ udpCtx' = [udpCtx EXCEPT ![c] = [UdpFresh EXCEPT !.refcnt = 1]]
  BY DEF UdpBeginPacket, UdpNew
<1>2. udpIn' = udpIn /\ udpObj[u] \notin UdpCtxs
  BY UdpObjsAssumption DEF UdpBeginPacket, NoCtx
<1>3. PICK y : y = [UdpFresh EXCEPT !.refcnt = 1] /\ DOMAIN y = DOMAIN UdpFresh /\ y.refcnt = 1
  BY RefcntIs
<1>4. Held([udpObj EXCEPT ![u] = c], [udpCtx EXCEPT ![c] = y])
  BY <1>1, <1>2, <1>3, NewOK DEF HoldInv
<1>5. Held(udpObj', udpCtx')
  BY <1>1, <1>3, <1>4
<1> QED BY <1>2, <1>5 DEF HoldInv, Held, Counted, UdpPointing, UdpFresh

\* Constructors, destructors, copies and assignments.
LEMMA UdpLifeKeeps ==
  ASSUME HoldInv, NEW u \in UdpObjs,
         \/ UdpConstruct(u) \/ UdpDestroy(u) \/ UdpStop(u)
         \/ \E v \in UdpObjs : UdpCopy(u, v) \/ UdpAssign(u, v)
  PROVE  HoldInv'
<1>1. Held(udpObj, udpCtx) /\ udpIn \in 0..UdpMaxIn
  BY DEF HoldInv
<1>2. Held(udpObj', udpCtx') /\ udpIn' = udpIn
  <2>1. CASE UdpConstruct(u)
    <3>1. UdpUnref(udpCtx, udpObj[u]) = udpCtx
      BY <2>1, UdpObjsAssumption DEF UdpConstruct, UdpUnref, NoObj
    <3> QED BY <1>1, <2>1, <3>1, ReleaseOK DEF UdpConstruct
  <2>2. CASE UdpDestroy(u)
    BY <1>1, <2>2, ReleaseOK DEF UdpDestroy
  <2>3. CASE UdpStop(u)
    BY <1>1, <2>3, ReleaseOK DEF UdpStop
  <2>4. CASE \E v \in UdpObjs : UdpCopy(u, v) \/ UdpAssign(u, v)
    <3>1. PICK v \in UdpObjs : /\ udpObj[v] # NoObj /\ udpObj' = [udpObj EXCEPT ![u] = udpObj[v]]
                               /\ udpCtx' = (IF udpObj[v] = NoCtx THEN udpCtx
                                             ELSE UdpRef(udpCtx, udpObj[v]))
                               /\ udpIn' = udpIn
      BY <2>4 DEF UdpCopy, UdpAssign
    <3>2. PICK t : t = IF udpObj[v] = NoCtx THEN udpCtx ELSE UdpRef(udpCtx, udpObj[v])
      OBVIOUS
    <3>3. Held([udpObj EXCEPT ![u] = udpObj[v]], t)
      BY <1>1, <3>1, <3>2, ShareOK
    <3> QED BY <3>1, <3>2, <3>3
  <2> QED BY <2>1, <2>2, <2>3, <2>4
<1> QED BY <1>1, <1>2 DEF HoldInv, Held, Counted, UdpPointing, UdpFresh

LEMMA UdpStart == UdpInit => HoldInv
<1> SUFFICES ASSUME UdpInit PROVE HoldInv
  OBVIOUS
<1>1. udpObj = [u \in UdpObjs |-> NoObj] /\ udpCtx = [c \in UdpCtxs |-> UdpFresh] /\ udpIn = 0
  BY DEF UdpInit
<1>2. ASSUME NEW c \in UdpCtxs PROVE Counted(udpCtx[c], Cardinality(UdpPointing(udpObj, c)))
  <2>1. UdpPointing(udpObj, c) = {}
    BY <1>1, UdpObjsAssumption DEF UdpPointing, NoObj
  <2>2. Cardinality(UdpPointing(udpObj, c)) = 0
    BY <2>1, FS_EmptySet
  <2> QED BY <1>1, <2>2, FreshIs DEF Counted
<1> QED BY <1>1, <1>2, UdpAssumption DEF HoldInv, Held

LEMMA UdpStep == HoldInv /\ [UdpNext]_udpVars => HoldInv'
<1> SUFFICES ASSUME HoldInv, [UdpNext]_udpVars PROVE HoldInv'
  OBVIOUS
<1>1. CASE UNCHANGED udpVars
  BY <1>1 DEF udpVars, HoldInv, Held, Counted, UdpPointing, UdpFresh
<1>2. CASE UdpStopAll
  BY <1>2, UdpStopAllKeeps
<1>3. ASSUME NEW c \in UdpCtxs, NEW shape \in UdpShapes, UdpRecv(c, shape) PROVE HoldInv'
  BY <1>3, UdpRecvKeeps
<1>4. ASSUME NEW u \in UdpObjs,
             \/ UdpConstruct(u) \/ UdpDestroy(u) \/ UdpStop(u) \/ UdpBegin(u)
             \/ UdpBeginPacket(u) \/ UdpParsePacket(u) \/ UdpRead(u, 1)
             \/ (\E n \in UdpWrites : UdpWrite(u, n)) \/ UdpEndPacket(u)
             \/ \E v \in UdpObjs : UdpCopy(u, v) \/ UdpAssign(u, v)
      PROVE  HoldInv'
  <2>1. CASE \/ UdpConstruct(u) \/ UdpDestroy(u) \/ UdpStop(u)
             \/ \E v \in UdpObjs : UdpCopy(u, v) \/ UdpAssign(u, v)
    BY <2>1, UdpLifeKeeps
  <2>2. CASE UdpBegin(u)
    BY <2>2, UdpBeginKeeps
  <2>3. CASE UdpBeginPacket(u)
    BY <2>3, UdpBeginPacketKeeps
  <2>4. CASE UdpParsePacket(u)
    BY <2>4, UdpParsePacketKeeps
  <2>5. CASE UdpRead(u, 1)
    BY <2>5, UdpReadKeeps
  <2>6. CASE \E n \in UdpWrites : UdpWrite(u, n)
    BY <2>6, UdpWriteKeeps
  <2>7. CASE UdpEndPacket(u)
    BY <2>7, UdpEndPacketKeeps
  <2> QED BY <1>4, <2>1, <2>2, <2>3, <2>4, <2>5, <2>6, <2>7, Zenon
<1> QED BY <1>1, <1>2, <1>3, <1>4, Zenon DEF UdpNext

\* No WiFiUDP object is left with a deleted context, and lwIP calls none that
\* has been deleted: for any number of objects and contexts, however they are
\* copied, assigned, begun and stopped.
THEOREM HoldersCounted == UdpSpec => []UdpHolders
<1>1. HoldInv => UdpHolders
  BY DEF HoldInv, Held, Counted, UdpHolders, UdpTypeOK
<1> QED BY <1>1, UdpStart, UdpStep, PTL DEF UdpSpec

-----------------------------------------------------------------------------
(* UDP: the chain of pbufs                                                 *)

UdpPbuf == [helper : BOOLEAN, dg : Nat, len : Nat]

\* A chain for current datagram a, after m datagrams have arrived: it begins
\* and ends with data, a helper begins a later datagram, and data belong to
\* the datagram of the pbuf before them.
Chain(q, a, m) ==
  /\ q \in Seq(UdpPbuf)
  /\ q # <<>> =>
       /\ ~q[1].helper /\ q[1].dg = a /\ ~q[Len(q)].helper
       /\ \A i \in 1..Len(q) : q[i].dg <= m
       /\ \A i \in 2..Len(q) : IF q[i].helper THEN ~q[i - 1].helper /\ q[i].dg > q[i - 1].dg
                                              ELSE q[i].dg = q[i - 1].dg

LEMMA ChainFacts ==
  ASSUME NEW q, NEW a, NEW m, Chain(q, a, m)
  PROVE  /\ q \in Seq(UdpPbuf) /\ Len(q) \in Nat /\ DOMAIN q = 1..Len(q)
         /\ (q # <<>> => Len(q) > 0)
         /\ \A i \in 1..Len(q) : q[i].helper \in BOOLEAN /\ q[i].dg \in Nat /\ q[i].len \in Nat
         /\ UdpHelpers(q) \in SUBSET (2..Len(q)) /\ UdpHelpers(q) \in SUBSET Nat
         /\ IsFiniteSet(UdpHelpers(q))
<1>1. q \in Seq(UdpPbuf) /\ Len(q) \in Nat /\ DOMAIN q = 1..Len(q) /\ (q # <<>> => Len(q) > 0)
  BY DEF Chain
<1>2. \A i \in 1..Len(q) : q[i] \in UdpPbuf
  BY <1>1
<1>3. UdpHelpers(q) \in SUBSET (2..Len(q))
  <2> SUFFICES ASSUME NEW i \in UdpHelpers(q) PROVE i \in 2..Len(q)
    OBVIOUS
  <2>1. i \in 1..Len(q) /\ q[i].helper
    BY <1>1 DEF UdpHelpers
  <2>2. q # <<>> => ~q[1].helper
    BY DEF Chain
  <2> QED BY <1>1, <2>1, <2>2
<1>4. IsFiniteSet(2..Len(q))
  BY <1>1, FS_Interval
<1>5. IsFiniteSet(UdpHelpers(q))
  BY <1>3, <1>4, FS_Subset
<1> QED BY <1>1, <1>2, <1>3, <1>5 DEF UdpPbuf

\* Datagrams come in the order of arrival.
LEMMA ChainOrder ==
  ASSUME NEW q, NEW a, NEW m, Chain(q, a, m), NEW i \in 1..Len(q), NEW j \in 1..Len(q), i <= j
  PROVE  q[i].dg <= q[j].dg /\ (i < j /\ q[j].helper => q[i].dg < q[j].dg)
<1> DEFINE T == {k \in i..Len(q) : ~(q[i].dg <= q[k].dg)}
<1>0. Len(q) \in Nat /\ q # <<>> /\ \A k \in 1..Len(q) : q[k].dg \in Nat
  BY ChainFacts
<1>1. \A k \in 2..Len(q) : q[k].dg >= q[k - 1].dg /\ (q[k].helper => q[k].dg > q[k - 1].dg)
  <2> SUFFICES ASSUME NEW k \in 2..Len(q)
               PROVE  q[k].dg >= q[k - 1].dg /\ (q[k].helper => q[k].dg > q[k - 1].dg)
    OBVIOUS
  <2>1. k \in 1..Len(q) /\ k - 1 \in 1..Len(q)
    BY <1>0
  <2>2. IF q[k].helper THEN q[k].dg > q[k - 1].dg ELSE q[k].dg = q[k - 1].dg
    BY <1>0 DEF Chain
  <2>3. q[k].dg \in Nat /\ q[k - 1].dg \in Nat
    BY <1>0, <2>1
  <2> QED BY <2>2, <2>3
<1>2. T = {}
  <2> SUFFICES ASSUME T # {} PROVE FALSE
    OBVIOUS
  <2>1. T \subseteq Nat
    BY <1>0
  <2>2. PICK k \in T : \A y \in T : k <= y
    BY <2>1, LeastNat
  <2>3. k \in i..Len(q) /\ ~(q[i].dg <= q[k].dg)
    OBVIOUS
  <2>4. k # i
    BY <1>0, <2>3
  <2>5. k - 1 \in i..Len(q) /\ k - 1 \notin T /\ k \in 2..Len(q) /\ k - 1 \in 1..Len(q)
    BY <1>0, <2>2, <2>3, <2>4
  <2>6. q[i].dg <= q[k - 1].dg /\ q[k].dg >= q[k - 1].dg
    BY <1>1, <2>5
  <2>7. k \in 1..Len(q)
    BY <2>5
  <2> QED BY <1>0, <2>3, <2>5, <2>6, <2>7, SMTT(30)
<1>3. \A k \in i..Len(q) : q[i].dg <= q[k].dg
  BY <1>2
<1>4. ASSUME i < j, q[j].helper PROVE q[i].dg < q[j].dg
  <2>1. j \in 2..Len(q) /\ j - 1 \in i..Len(q) /\ j - 1 \in 1..Len(q)
    BY <1>0, <1>4
  <2>2. q[j].dg > q[j - 1].dg /\ q[i].dg <= q[j - 1].dg
    BY <1>1, <1>3, <1>4, <2>1
  <2> QED BY <1>0, <2>1, <2>2
<1> QED BY <1>3, <1>4

\* Each pbuf belongs to the datagram of the last helper up to it.
LEMMA ChainOwner ==
  ASSUME NEW x, NEW m, Chain(x.rx, x.addr, m), NEW i \in 1..Len(x.rx)
  PROVE  x.rx[i].dg = UdpOwner(x, i)
<1>1. PICK q : q = x.rx
  OBVIOUS
<1> DEFINE B(k) == UdpHelpers(q) \cap (1..k)
           T == {k \in 1..Len(q) : q[k].dg # UdpOwner(x, k)}
<1>2. \A k : UdpOwner(x, k) = IF B(k) = {} THEN x.addr ELSE q[Max(B(k))].dg
  BY <1>1 DEF UdpOwner
<1>0. Len(q) \in Nat /\ q # <<>> /\ DOMAIN q = 1..Len(q) /\ UdpHelpers(q) \in SUBSET (2..Len(q))
      /\ Chain(q, x.addr, m)
  BY <1>1, ChainFacts
<1> SUFFICES ASSUME T # {} PROVE FALSE
  BY <1>1
<1>3. T \subseteq Nat
  BY <1>0
<1>4. PICK k \in T : \A y \in T : k <= y
  BY <1>3, LeastNat
<1>5. k \in 1..Len(q) /\ q[k].dg # UdpOwner(x, k) /\ k \in Nat
  BY <1>0
<1>6. CASE k = 1
  <2>1. B(1) = {}
    BY <1>0
  <2> QED BY <1>0, <1>2, <1>5, <1>6, <2>1 DEF Chain
<1>7. CASE k # 1 /\ q[k].helper
  <2>1. k \in B(k) /\ B(k) \in SUBSET Nat /\ \A y \in B(k) : y <= k
    BY <1>0, <1>5, <1>7 DEF UdpHelpers
  <2>2. Max(B(k)) \in B(k) /\ Max(B(k)) >= k
    BY <1>5, <2>1, MaxNat
  <2>3. Max(B(k)) = k
    BY <1>5, <2>1, <2>2
  <2> QED BY <1>2, <1>5, <2>1, <2>3
<1>8. CASE k # 1 /\ ~q[k].helper
  <2>1. k - 1 \in 1..Len(q) /\ k - 1 \notin T /\ k \in 2..Len(q)
    BY <1>0, <1>4, <1>5, <1>8
  <2>2. q[k].dg = q[k - 1].dg
    BY <1>0, <1>8, <2>1 DEF Chain
  <2>3. B(k) = B(k - 1)
    <3>1. k \notin UdpHelpers(q)
      BY <1>8 DEF UdpHelpers
    <3>2. \A y \in 1..k : y # k => y \in 1..(k - 1)
      BY <1>5
    <3>3. \A y \in 1..(k - 1) : y \in 1..k
      BY <1>5
    <3> QED BY <3>1, <3>2, <3>3
  <2>4. UdpOwner(x, k) = UdpOwner(x, k - 1)
    BY <1>2, <2>3
  <2> QED BY <1>5, <2>1, <2>2, <2>4
<1> QED BY <1>6, <1>7, <1>8

\* Where the current datagram ends: before the first helper, or with the
\* chain.
ChainEnd(q) == IF UdpHelpers(q) = {} THEN Len(q) + 1 ELSE Min(UdpHelpers(q))

LEMMA EndIs ==
  ASSUME NEW q, NEW a, NEW m, Chain(q, a, m)
  PROVE  /\ ChainEnd(q) \in 1..(Len(q) + 1) /\ (q # <<>> => ChainEnd(q) > 1)
         /\ \A i \in 1..(ChainEnd(q) - 1) : i \in 1..Len(q) /\ ~q[i].helper
         /\ ChainEnd(q) # Len(q) + 1 => UdpHelpers(q) # {} /\ ChainEnd(q) \in UdpHelpers(q)
         /\ (UdpHelpers(q) # {} => ChainEnd(q) \in UdpHelpers(q))
<1>1. /\ Len(q) \in Nat /\ DOMAIN q = 1..Len(q) /\ UdpHelpers(q) \in SUBSET (2..Len(q))
      /\ UdpHelpers(q) \in SUBSET Nat /\ (q # <<>> => Len(q) > 0)
  BY ChainFacts
<1>2. CASE UdpHelpers(q) = {}
  <2>1. ChainEnd(q) = Len(q) + 1
    BY <1>2 DEF ChainEnd
  <2>2. \A i \in 1..(ChainEnd(q) - 1) : i \in 1..Len(q)
    BY <1>1, <2>1
  <2>3. \A i \in 1..Len(q) : ~q[i].helper
    BY <1>1, <1>2 DEF UdpHelpers
  <2> QED BY <1>1, <1>2, <2>1, <2>2, <2>3
<1>3. CASE UdpHelpers(q) # {}
  <2>1. PICK e : e = ChainEnd(q) /\ e \in UdpHelpers(q) /\ \A y \in UdpHelpers(q) : e <= y
    BY <1>1, <1>3, MinNat DEF ChainEnd
  <2>2. e \in 2..Len(q)
    BY <1>1, <2>1
  <2>3. ASSUME NEW i \in 1..(e - 1) PROVE i \in 1..Len(q) /\ ~q[i].helper
    <3>1. i \in 1..Len(q) /\ ~(e <= i)
      BY <1>1, <2>2
    <3> QED BY <1>1, <2>1, <3>1 DEF UdpHelpers
  <2> QED BY <1>1, <1>3, <2>1, <2>2, <2>3
<1> QED BY <1>2, <1>3

\* The lengths of a chain's pbufs; what the loop of _processSize() adds up.
Lens(q) == [i \in 1..Len(q) |-> q[i].len]

LEMMA ProcessSizeIs ==
  ASSUME NEW q, NEW a, NEW m, Chain(q, a, m)
  PROVE  /\ UdpProcessSize(q) = SumTo(Lens(q), ChainEnd(q) - 1)
         /\ UdpProcessSize(q) \in Nat
<1>1. PICK e \in Nat : e + 1 = ChainEnd(q) /\ ChainEnd(q) - 1 = e
  <2>1. ChainEnd(q) \in 1..(Len(q) + 1) /\ Len(q) \in Nat
    BY EndIs, ChainFacts
  <2>2. ChainEnd(q) - 1 \in Nat /\ (ChainEnd(q) - 1) + 1 = ChainEnd(q)
    BY <2>1
  <2> QED BY <2>2
<1>2. \A i \in 1..e : i \in 1..Len(q) /\ q[i].len \in Nat
  BY <1>1, EndIs, ChainFacts
<1> DEFINE g == [i \in 1..e |-> q[i].len]
<1>3. UdpProcessSize(q) = SumTo(g, e)
  BY <1>1 DEF UdpProcessSize, ChainEnd
<1>4. \A i \in 1..e : g[i] = Lens(q)[i] /\ g[i] \in Nat
  BY <1>2 DEF Lens
<1> HIDE DEF g
<1>5. SumTo(g, e) = SumTo(Lens(q), e) /\ SumTo(g, e) \in Nat
  BY <1>4, SumSame, SumNat
<1> QED BY <1>1, <1>3, <1>5

\* The pbufs of the current datagram are those before the first helper.
Mine(x) == [i \in DOMAIN x.rx |->
              IF ~x.rx[i].helper /\ UdpOwner(x, i) = x.addr THEN x.rx[i].len ELSE 0]

LEMMA MineIs ==
  ASSUME NEW x, NEW m, Chain(x.rx, x.addr, m)
  PROVE  SumTo(Mine(x), Len(x.rx)) = UdpProcessSize(x.rx)
<1>1. PICK q, a : q = x.rx /\ a = x.addr
  OBVIOUS
<1>2. Chain(q, a, m)
  BY <1>1
<1>3. PICK n \in Nat : n = Len(q) /\ DOMAIN q = 1..n
  BY <1>2, ChainFacts
<1>4. PICK e \in 0..n : e + 1 = ChainEnd(q) /\ ChainEnd(q) - 1 = e
  <2>1. ChainEnd(q) \in 1..(n + 1)
    BY <1>2, <1>3, EndIs
  <2>2. ChainEnd(q) - 1 \in 0..n /\ (ChainEnd(q) - 1) + 1 = ChainEnd(q)
    BY <2>1
  <2> QED BY <2>2
<1>5. \A i \in 1..n : q[i].dg = UdpOwner(x, i)
  BY <1>1, <1>2, <1>3, ChainOwner
<1>6. \A i \in 1..n : Mine(x)[i] = IF ~q[i].helper /\ q[i].dg = a THEN q[i].len ELSE 0
  BY <1>1, <1>3, <1>5 DEF Mine
<1>7. \A i \in 1..n : q[i].dg \in Nat /\ q[i].len \in Nat
  BY <1>2, <1>3, ChainFacts
<1>8. ASSUME NEW i \in 1..e PROVE Mine(x)[i] = Lens(q)[i] /\ Lens(q)[i] \in Nat
  <2>1. i \in 1..n /\ i \in 1..(ChainEnd(q) - 1) /\ 1 \in 1..n /\ 1 <= i
    BY <1>4
  <2>2. ~q[i].helper
    BY <1>2, <2>1, EndIs
  <2>3. q # <<>>
    BY <1>3, <2>1
  <2>4. q[i].dg = a
    <3> DEFINE S == {k \in 1..i : q[k].dg # a}
    <3> SUFFICES ASSUME S # {} PROVE FALSE
      BY <2>1
    <3>1. S \subseteq Nat
      OBVIOUS
    <3>2. PICK k \in S : \A y \in S : k <= y
      BY <3>1, LeastNat
    <3>3. k \in 1..i /\ q[k].dg # a /\ i \in Nat /\ k \in 1..n /\ k \in 1..(ChainEnd(q) - 1)
      BY <2>1, <1>4
    <3>4. k # 1
      BY <1>2, <2>3, <3>3 DEF Chain
    <3>5. k - 1 \in 1..i /\ k - 1 \notin S /\ k \in 2..n
      BY <3>2, <3>3, <3>4
    <3>6. ~q[k].helper
      BY <1>2, <3>3, EndIs
    <3>7. q[k].dg = q[k - 1].dg
      BY <1>2, <1>3, <2>3, <3>5, <3>6 DEF Chain
    <3> QED BY <3>3, <3>5, <3>7
  <2> QED BY <1>3, <1>6, <1>7, <2>1, <2>2, <2>4 DEF Lens
<1>9. ASSUME NEW i \in (e + 1)..n PROVE Mine(x)[i] = 0
  <2>1. ChainEnd(q) # Len(q) + 1 /\ i \in 1..n
    BY <1>3, <1>4
  <2>2. e + 1 \in UdpHelpers(q)
    BY <1>2, <1>4, <2>1, EndIs
  <2>3. e + 1 \in 1..n /\ q[e + 1].helper /\ 1 \in 1..n /\ 1 < e + 1 /\ q # <<>> /\ e + 1 <= i
    <3>1. e + 1 \in 2..n
      BY <1>2, <1>3, <2>2, ChainFacts
    <3> QED BY <1>3, <2>2, <3>1 DEF UdpHelpers
  <2>4. q[1].dg < q[e + 1].dg /\ q[e + 1].dg <= q[i].dg
    BY <1>2, <1>3, <2>1, <2>3, ChainOrder
  <2>5. q[1].dg = a
    BY <1>2, <2>3 DEF Chain
  <2>6. q[i].dg # a
    BY <1>7, <2>1, <2>3, <2>4, <2>5
  <2> QED BY <1>6, <2>1, <2>6
<1>10. SumTo(Mine(x), e) = SumTo(Lens(q), e) /\ SumTo(Lens(q), e) \in Nat
  BY <1>8, SumSame, SumNat
<1>11. SumTo(Mine(x), n) = SumTo(Mine(x), e)
  BY <1>9, <1>10, SumTail
<1> QED BY <1>1, <1>2, <1>3, <1>4, <1>10, <1>11, ProcessSizeIs

\* A datagram alone.
LEMMA ChainNew ==
  ASSUME NEW d \in Nat, NEW shape \in Seq(Nat), shape # <<>>, NEW m \in Nat, d <= m
  PROVE  /\ Chain(UdpPbufs(d, shape), d, m) /\ UdpPbufs(d, shape) # <<>>
         /\ UdpHelpers(UdpPbufs(d, shape)) = {}
<1>1. PICK k \in Nat : k = Len(shape) /\ k > 0 /\ \A i \in 1..k : shape[i] \in Nat
  OBVIOUS
<1>2. PICK q : q = UdpPbufs(d, shape)
  OBVIOUS
<1>3. q = [i \in 1..k |-> [helper |-> FALSE, dg |-> d, len |-> shape[i]]]
  BY <1>1, <1>2 DEF UdpPbufs
<1>4. q \in [1..k -> UdpPbuf]
  BY <1>1, <1>3 DEF UdpPbuf
<1>5. q \in Seq(UdpPbuf) /\ Len(q) = k /\ DOMAIN q = 1..k
  BY <1>4
<1>6. \A i \in 1..k : ~q[i].helper /\ q[i].dg = d
  BY <1>3
<1>7. q # <<>> /\ UdpHelpers(q) = {}
  BY <1>1, <1>5, <1>6 DEF UdpHelpers
<1>8. Chain(q, d, m)
  <2>1. \A i \in 2..k : i \in 1..k /\ i - 1 \in 1..k
    OBVIOUS
  <2>2. 1 \in 1..k /\ k \in 1..k
    BY <1>1
  <2> QED BY <1>5, <1>6, <2>1, <2>2 DEF Chain
<1> QED BY <1>2, <1>7, <1>8

\* r is q followed by a helper and the data of datagram d.
Appended(r, q, d, n, k) ==
  /\ r \in Seq(UdpPbuf) /\ Len(r) = n + 1 + k
  /\ \A i \in 1..n : r[i] = q[i]
  /\ r[n + 1].helper /\ r[n + 1].dg = d
  /\ \A i \in (n + 2)..(n + 1 + k) : ~r[i].helper /\ r[i].dg = d

LEMMA AppendedIs ==
  ASSUME NEW q \in Seq(UdpPbuf), NEW d \in Nat, NEW shape \in Seq(Nat)
  PROVE  Appended(q \o <<UdpHelper(d)>> \o UdpPbufs(d, shape), q, d, Len(q), Len(shape))
<1>1. PICK k \in Nat : k = Len(shape) /\ \A i \in 1..k : shape[i] \in Nat
  OBVIOUS
<1>2. PICK n \in Nat : n = Len(q)
  OBVIOUS
<1>3. PICK p : p = UdpPbufs(d, shape)
  OBVIOUS
<1>4. p = [i \in 1..k |-> [helper |-> FALSE, dg |-> d, len |-> shape[i]]]
  BY <1>1, <1>3 DEF UdpPbufs
<1>5. p \in [1..k -> UdpPbuf]
  BY <1>1, <1>4 DEF UdpPbuf
<1>6. p \in Seq(UdpPbuf) /\ Len(p) = k
  BY <1>5
<1>7. PICK h \in UdpPbuf : h = UdpHelper(d) /\ h.helper /\ h.dg = d
  <2>1. UdpHelper(d) \in UdpPbuf
    BY DEF UdpHelper, UdpPbuf
  <2>2. UdpHelper(d).helper = TRUE /\ UdpHelper(d).dg = d
    BY DEF UdpHelper
  <2> QED BY <2>1, <2>2
<1>8. PICK s \in Seq(UdpPbuf) : s = q \o <<h>>
  <2>1. <<h>> \in Seq(UdpPbuf)
    OBVIOUS
  <2> QED BY <2>1, ConcatProperties
<1>9. Len(s) = n + 1 /\ s[n + 1] = h /\ \A i \in 1..n : s[i] = q[i]
  BY <1>2, <1>7, <1>8
<1>10. PICK r \in Seq(UdpPbuf) : r = s \o p
  BY <1>6, ConcatProperties
<1>11. r \in Seq(UdpPbuf) /\ Len(r) = n + 1 + k
  <2>1. Len(s \o p) = Len(s) + Len(p)
    BY <1>6, ConcatProperties
  <2> QED BY <1>6, <1>9, <1>10, <2>1
<1>12. \A i \in 1..(n + 1) : r[i] = s[i]
  BY <1>6, <1>9, <1>10
<1>13. ASSUME NEW i \in (n + 2)..(n + 1 + k) PROVE ~r[i].helper /\ r[i].dg = d
  <2>1. i - (n + 1) \in 1..k
    OBVIOUS
  <2>2. r[i] = p[i - (n + 1)]
    BY <1>6, <1>9, <1>10
  <2> QED BY <1>4, <2>1, <2>2
<1>14. \A i \in 1..n : r[i] = q[i]
  BY <1>9, <1>12
<1>15. r[n + 1] = h
  BY <1>9, <1>12
<1>16. Appended(r, q, d, n, k)
  BY <1>7, <1>11, <1>13, <1>14, <1>15 DEF Appended
<1> QED BY <1>1, <1>2, <1>3, <1>7, <1>8, <1>10, <1>16

\* _recv() appends a datagram: the current one is as it was.
LEMMA ChainAppend ==
  ASSUME NEW q, NEW a, NEW m \in Nat, Chain(q, a, m), q # <<>>, NEW k \in Nat, k > 0,
         NEW r, Appended(r, q, m + 1, Len(q), k)
  PROVE  /\ Chain(r, a, m + 1) /\ r # <<>>
         /\ UdpHelpers(r) = UdpHelpers(q) \cup {Len(q) + 1}
         /\ UdpProcessSize(r) = UdpProcessSize(q)
<1>1. PICK n \in Nat : n = Len(q) /\ DOMAIN q = 1..n /\ n > 0
  BY ChainFacts
<1>2. /\ r \in Seq(UdpPbuf) /\ Len(r) = n + 1 + k /\ DOMAIN r = 1..(n + 1 + k)
      /\ \A i \in 1..n : r[i] = q[i]
      /\ r[n + 1].helper /\ r[n + 1].dg = m + 1
      /\ \A i \in (n + 2)..(n + 1 + k) : ~r[i].helper /\ r[i].dg = m + 1
  BY <1>1 DEF Appended
<1>3. /\ ~q[1].helper /\ q[1].dg = a /\ ~q[n].helper
      /\ \A i \in 1..n : q[i].dg <= m
      /\ \A i \in 2..n : IF q[i].helper THEN ~q[i - 1].helper /\ q[i].dg > q[i - 1].dg
                                        ELSE q[i].dg = q[i - 1].dg
  BY <1>1 DEF Chain
<1>4. \A i \in 1..n : q[i].dg \in Nat
  BY <1>1, ChainFacts
<1>5. Chain(r, a, m + 1)
  <2>1. ~r[1].helper /\ r[1].dg = a
    <3>1. 1 \in 1..n
      BY <1>1
    <3> QED BY <1>2, <1>3, <3>1
  <2>2. ~r[Len(r)].helper
    <3>1. n + 1 + k \in (n + 2)..(n + 1 + k)
      OBVIOUS
    <3> QED BY <1>2, <3>1
  <2>3. ASSUME NEW i \in 1..Len(r) PROVE r[i].dg <= m + 1
    <3>1. CASE i \in 1..n
      <4>1. q[i].dg <= m /\ q[i].dg \in Nat
        BY <1>3, <1>4, <3>1
      <4> QED BY <1>2, <3>1, <4>1
    <3>2. CASE i = n + 1
      BY <1>2, <3>2
    <3>3. CASE i \in (n + 2)..(n + 1 + k)
      BY <1>2, <3>3
    <3> QED BY <1>2, <3>1, <3>2, <3>3
  <2>4. ASSUME NEW i \in 2..Len(r)
        PROVE  IF r[i].helper THEN ~r[i - 1].helper /\ r[i].dg > r[i - 1].dg
                              ELSE r[i].dg = r[i - 1].dg
    <3>1. CASE i \in 2..n
      <4>1. i \in 1..n /\ i - 1 \in 1..n
        BY <3>1
      <4>2. r[i] = q[i] /\ r[i - 1] = q[i - 1]
        BY <1>2, <4>1
      <4> QED BY <1>3, <3>1, <4>2
    <3>2. CASE i = n + 1
      <4>1. n \in 1..n /\ i - 1 = n
        BY <1>1, <3>2
      <4>2. r[i - 1] = q[n] /\ q[n].dg <= m /\ q[n].dg \in Nat
        BY <1>2, <1>3, <1>4, <4>1
      <4> QED BY <1>2, <1>3, <3>2, <4>2
    <3>3. CASE i = n + 2
      <4>1. i - 1 = n + 1 /\ i \in (n + 2)..(n + 1 + k)
        BY <3>3
      <4> QED BY <1>2, <4>1
    <3>4. CASE i \in (n + 3)..(n + 1 + k)
      <4>1. i - 1 \in (n + 2)..(n + 1 + k) /\ i \in (n + 2)..(n + 1 + k)
        BY <3>4
      <4> QED BY <1>2, <4>1
    <3> QED BY <1>2, <3>1, <3>2, <3>3, <3>4
  <2> QED BY <1>2, <2>1, <2>2, <2>3, <2>4 DEF Chain
<1>6. r # <<>>
  BY <1>2
<1>7. UdpHelpers(r) = UdpHelpers(q) \cup {n + 1}
  <2>1. ASSUME NEW i \in UdpHelpers(r) PROVE i \in UdpHelpers(q) \cup {n + 1}
    <3>1. i \in 1..(n + 1 + k) /\ r[i].helper
      BY <1>2 DEF UdpHelpers
    <3>2. i \notin (n + 2)..(n + 1 + k)
      BY <1>2, <3>1
    <3>3. i \in 1..n \/ i = n + 1
      BY <3>1, <3>2
    <3> QED BY <1>1, <1>2, <3>1, <3>3 DEF UdpHelpers
  <2>2. ASSUME NEW i \in UdpHelpers(q) PROVE i \in UdpHelpers(r)
    <3>1. i \in 1..n /\ q[i].helper /\ i \in 1..(n + 1 + k)
      BY <1>1 DEF UdpHelpers
    <3> QED BY <1>2, <3>1 DEF UdpHelpers
  <2>3. n + 1 \in UdpHelpers(r)
    BY <1>2 DEF UdpHelpers
  <2> QED BY <2>1, <2>2, <2>3
<1>8. ChainEnd(r) = ChainEnd(q)
  <2>1. UdpHelpers(q) \in SUBSET Nat /\ UdpHelpers(q) \in SUBSET (2..n) /\ UdpHelpers(r) \in SUBSET Nat
    BY <1>1, <1>5, ChainFacts
  <2>2. UdpHelpers(r) # {} /\ ChainEnd(r) = Min(UdpHelpers(r))
    BY <1>7 DEF ChainEnd
  <2>3. PICK e : e = ChainEnd(r) /\ e \in UdpHelpers(r) /\ \A y \in UdpHelpers(r) : e <= y
    BY <2>1, <2>2, MinNat
  <2>4. CASE UdpHelpers(q) = {}
    BY <1>1, <1>7, <2>3, <2>4 DEF ChainEnd
  <2>5. CASE UdpHelpers(q) # {}
    <3>1. PICK f : f = ChainEnd(q) /\ f \in UdpHelpers(q) /\ \A y \in UdpHelpers(q) : f <= y
      BY <2>1, <2>5, MinNat DEF ChainEnd
    <3>2. f \in UdpHelpers(r) /\ f \in 2..n
      BY <1>7, <2>1, <3>1
    <3>3. e <= f /\ e \in Nat /\ f \in Nat
      BY <2>1, <2>3, <3>1, <3>2
    <3>4. e # n + 1
      BY <3>2, <3>3
    <3>5. f <= e
      BY <1>7, <2>3, <3>1, <3>4
    <3> QED BY <2>3, <3>1, <3>3, <3>5
  <2> QED BY <2>4, <2>5
<1>9. UdpProcessSize(r) = UdpProcessSize(q)
  <2>1. PICK e \in Nat : e = ChainEnd(q) - 1 /\ \A i \in 1..e : i \in 1..n
    <3>1. ChainEnd(q) \in 1..(n + 1)
      BY <1>1, EndIs
    <3>2. ChainEnd(q) - 1 \in Nat /\ \A i \in 1..(ChainEnd(q) - 1) : i \in 1..n
      BY <3>1
    <3> QED BY <3>2
  <2>2. \A i \in 1..e : Lens(r)[i] = Lens(q)[i]
    BY <1>1, <1>2, <2>1 DEF Lens
  <2>3. SumTo(Lens(r), e) = SumTo(Lens(q), e)
    BY <2>2, SumSame
  <2> QED BY <1>5, <1>8, <2>1, <2>3, ProcessSizeIs
<1> QED BY <1>1, <1>5, <1>6, <1>7, <1>9

\* r is what follows pbuf h in q.
After(r, q, h) == r = SubSeq(q, h + 1, Len(q))

\* next() drops the current datagram and its successor's helper.
LEMMA ChainRest ==
  ASSUME NEW q, NEW a, NEW m \in Nat, Chain(q, a, m),
         NEW h \in UdpHelpers(q), NEW r, After(r, q, h)
  PROVE  /\ Chain(r, q[h].dg, m) /\ r # <<>>
         /\ Cardinality(UdpHelpers(r)) <= Cardinality(UdpHelpers(q))
<1>1. PICK n \in Nat : n = Len(q) /\ DOMAIN q = 1..n /\ q \in Seq(UdpPbuf)
  BY ChainFacts
<1>2. h \in UdpHelpers(q) /\ h \in 2..n /\ h \in Nat /\ q # <<>>
  <2>1. UdpHelpers(q) \in SUBSET Nat /\ UdpHelpers(q) \in SUBSET (2..n)
    BY <1>1, ChainFacts
  <2>2. h \in 2..n /\ n > 0
    BY <2>1
  <2> QED BY <1>1, <2>1, <2>2
<1>3. /\ ~q[n].helper
      /\ \A i \in 1..n : q[i].dg <= m
      /\ \A i \in 2..n : IF q[i].helper THEN ~q[i - 1].helper /\ q[i].dg > q[i - 1].dg
                                        ELSE q[i].dg = q[i - 1].dg
  BY <1>1, <1>2 DEF Chain
<1>4. q[h].helper /\ h # n
  BY <1>2, <1>3 DEF UdpHelpers
<1>5. PICK k \in Nat : k = n - h /\ k > 0 /\ n = h + k
  <2>1. n - h \in Nat /\ n - h > 0 /\ n = h + (n - h)
    BY <1>2, <1>4
  <2> QED BY <2>1
<1>6. r \in Seq(UdpPbuf) /\ Len(r) = k /\ DOMAIN r = 1..k /\ \A i \in 1..k : r[i] = q[h + i]
  <2>1. h + 1 \in 1..(n + 1) /\ n \in h..n
    BY <1>2
  <2>2. \A i \in (h + 1)..n : q[i] \in UdpPbuf
    BY <1>1, <1>2
  <2>3. PICK b \in Int : b = h + 1
    BY <1>2
  <2>4. /\ SubSeq(q, b, n) \in Seq(UdpPbuf)
        /\ Len(SubSeq(q, b, n)) = IF b <= n THEN n - b + 1 ELSE 0
        /\ \A i \in 1..(n - b + 1) : SubSeq(q, b, n)[i] = q[b + i - 1]
    BY <2>2, <2>3, SubSeqProperties
  <2>5. n - b + 1 = k /\ b <= n /\ \A i \in 1..k : b + i - 1 = h + i
    BY <1>2, <1>5, <2>3
  <2>6. r = SubSeq(q, b, n)
    BY <1>1, <2>3 DEF After
  <2>7. r \in Seq(UdpPbuf) /\ Len(r) = k /\ \A i \in 1..k : r[i] = q[b + i - 1]
    BY <2>4, <2>5, <2>6
  <2> QED BY <2>5, <2>7
<1>7. r # <<>>
  BY <1>5, <1>6
<1>8. Chain(r, q[h].dg, m)
  <2>1. h + 1 \in 2..n /\ (h + 1) - 1 = h /\ 1 \in 1..k
    BY <1>2, <1>5
  <2>2. ~q[h + 1].helper /\ q[h + 1].dg = q[h].dg
    BY <1>3, <1>4, <2>1
  <2>3. ~r[1].helper /\ r[1].dg = q[h].dg
    BY <1>6, <2>1, <2>2
  <2>4. ~r[k].helper
    BY <1>3, <1>5, <1>6
  <2>5. ASSUME NEW i \in 1..k PROVE r[i].dg <= m
    <3>1. h + i \in 1..n
      BY <1>2, <1>5
    <3> QED BY <1>3, <1>6, <3>1
  <2>6. ASSUME NEW i \in 2..k
        PROVE  IF r[i].helper THEN ~r[i - 1].helper /\ r[i].dg > r[i - 1].dg
                              ELSE r[i].dg = r[i - 1].dg
    <3>1. h + i \in 2..n /\ (h + i) - 1 = h + (i - 1) /\ i \in 1..k /\ i - 1 \in 1..k
      BY <1>2, <1>5
    <3>2. r[i] = q[h + i] /\ r[i - 1] = q[(h + i) - 1]
      BY <1>6, <3>1
    <3> QED BY <1>3, <3>1, <3>2
  <2> QED BY <1>6, <2>3, <2>4, <2>5, <2>6 DEF Chain
<1>9. Cardinality(UdpHelpers(r)) <= Cardinality(UdpHelpers(q))
  <2> DEFINE f == [i \in UdpHelpers(r) |-> h + i]
  <2>1. ASSUME NEW i \in UdpHelpers(r) PROVE i \in Nat /\ h + i \in UdpHelpers(q)
    <3>1. i \in 1..k /\ r[i].helper
      BY <1>6 DEF UdpHelpers
    <3>2. h + i \in 1..n /\ q[h + i].helper
      BY <1>2, <1>5, <1>6, <3>1
    <3> QED BY <1>1, <3>1, <3>2 DEF UdpHelpers
  <2>2. f \in Injection(UdpHelpers(r), UdpHelpers(q))
    <3>1. f \in [UdpHelpers(r) -> UdpHelpers(q)]
      BY <2>1
    <3>2. \A i, j \in UdpHelpers(r) : f[i] = f[j] => i = j
      BY <1>2, <2>1
    <3> QED BY <3>1, <3>2 DEF Injection, IsInjective
  <2>3. IsFiniteSet(UdpHelpers(q))
    BY ChainFacts
  <2> HIDE DEF f
  <2> QED BY <2>2, <2>3, FS_Injection
<1> QED BY <1>7, <1>8, <1>9

-----------------------------------------------------------------------------
(* UDP: the inductive invariant of the framing                             *)

\* What the sketch can read is the current datagram, and the helpers are
\* bounded.
RxOK(q, a, size, offset, m) ==
  /\ Chain(q, a, m)
  /\ size = (IF q = <<>> THEN 0 ELSE UdpProcessSize(q))
  /\ size \in Nat /\ offset \in Nat /\ offset <= size
  /\ Cardinality(UdpHelpers(q)) < 2 * rxBufMaxDepth

TxOK(cap, tx, refused) == cap \in Nat /\ tx \in Nat /\ tx <= cap /\ refused = FALSE

Framed(x, m) ==
  /\ RxOK(x.rx, x.addr, x.size, x.offset, m)
  /\ TxOK(x.cap, x.tx, x.refused)

FrameInv == HoldInv /\ \A c \in UdpCtxs : Framed(udpCtx[c], udpIn)

LEMMA EmptyOK ==
  ASSUME NEW a, NEW m
  PROVE  RxOK(<<>>, a, 0, 0, m)
<1>1. UdpHelpers(<<>>) = {}
  BY DEF UdpHelpers
<1>2. Cardinality(UdpHelpers(<<>>)) = 0
  BY <1>1, FS_EmptySet
<1>3. <<>> \in Seq(UdpPbuf)
  OBVIOUS
<1>4. 0 < 2 * rxBufMaxDepth
  BY UdpAssumption
<1> QED BY <1>2, <1>3, <1>4 DEF RxOK, Chain

LEMMA FreshFramed ==
  ASSUME NEW m
  PROVE  Framed(UdpFresh, m)
<1>1. RxOK(UdpFresh.rx, UdpFresh.addr, UdpFresh.size, UdpFresh.offset, m)
  <2>1. UdpFresh.rx = <<>> /\ UdpFresh.size = 0 /\ UdpFresh.offset = 0
    BY DEF UdpFresh
  <2> QED BY <2>1, EmptyOK
<1>2. TxOK(UdpFresh.cap, UdpFresh.tx, UdpFresh.refused)
  BY DEF UdpFresh, TxOK
<1> QED BY <1>1, <1>2 DEF Framed

\* Only these fields matter.
SameFields(y, x) ==
  /\ y.rx = x.rx /\ y.addr = x.addr /\ y.size = x.size /\ y.offset = x.offset
  /\ y.cap = x.cap /\ y.tx = x.tx /\ y.refused = x.refused

LEMMA SameFramed ==
  ASSUME NEW x, NEW y, NEW m, Framed(x, m), SameFields(y, x)
  PROVE  Framed(y, m)
BY DEF Framed, SameFields

LEMMA CountedFramed ==
  ASSUME NEW x, NEW m, Framed(x, m), DOMAIN x = DOMAIN UdpFresh, NEW r
  PROVE  Framed([x EXCEPT !.refcnt = r], m)
<1>1. SameFields([x EXCEPT !.refcnt = r], x)
  BY DEF SameFields
<1> QED BY <1>1, SameFramed

\* Datagrams that arrive for other contexts do not matter.
LEMMA LaterFramed ==
  ASSUME NEW x, NEW m \in Nat, Framed(x, m)
  PROVE  Framed(x, m + 1)
<1>1. Chain(x.rx, x.addr, m)
  BY DEF Framed, RxOK
<1>2. Chain(x.rx, x.addr, m + 1)
  <2>1. PICK q : q = x.rx
    OBVIOUS
  <2>2. \A i \in 1..Len(q) : q[i].dg \in Nat
    BY <1>1, <2>1, ChainFacts
  <2>3. q # <<>> => \A i \in 1..Len(q) : q[i].dg <= m + 1
    <3> SUFFICES ASSUME q # <<>>, NEW i \in 1..Len(q) PROVE q[i].dg <= m + 1
      OBVIOUS
    <3>1. q[i].dg <= m /\ q[i].dg \in Nat
      BY <1>1, <2>1, <2>2 DEF Chain
    <3> QED BY <3>1
  <2> QED BY <1>1, <2>1, <2>3 DEF Chain
<1> QED BY <1>2 DEF Framed, RxOK

\* unref(): the context is deleted or counts one less.
LEMMA UnrefFramed ==
  ASSUME NEW ctx, DOMAIN ctx = UdpCtxs, NEW b, NEW m, NEW c \in UdpCtxs,
         DOMAIN ctx[c] = DOMAIN UdpFresh, Framed(ctx[c], m)
  PROVE  Framed(UdpUnref(ctx, b)[c], m)
<1>1. CASE b \notin UdpCtxs \/ b # c
  <2>1. UdpUnref(ctx, b)[c] = ctx[c]
    BY <1>1 DEF UdpUnref
  <2> QED BY <2>1
<1>2. CASE b \in UdpCtxs /\ b = c
  <2>1. PICK r : r = ctx[c].refcnt - 1
    OBVIOUS
  <2>2. UdpUnref(ctx, b)[c] = IF ctx[c].refcnt = 1 THEN UdpFresh ELSE [ctx[c] EXCEPT !.refcnt = r]
    BY <1>2, <2>1 DEF UdpUnref
  <2> QED BY <2>2, FreshFramed, CountedFramed
<1> QED BY <1>1, <1>2

LEMMA FramedFacts ==
  ASSUME FrameInv
  PROVE  /\ HoldInv /\ DOMAIN udpCtx = UdpCtxs /\ udpIn \in Nat
         /\ \A c \in UdpCtxs : DOMAIN udpCtx[c] = DOMAIN UdpFresh /\ Framed(udpCtx[c], udpIn)
BY HeldFacts, UdpAssumption DEF FrameInv, HoldInv

\* A call changes the context c only.
LEMMA OneFramed ==
  ASSUME FrameInv, NEW c \in UdpCtxs, NEW y, Framed(y, udpIn),
         udpCtx' = [udpCtx EXCEPT ![c] = y], udpIn' = udpIn
  PROVE  \A e \in UdpCtxs : Framed(udpCtx'[e], udpIn')
<1> SUFFICES ASSUME NEW e \in UdpCtxs PROVE Framed(udpCtx'[e], udpIn')
  OBVIOUS
<1>1. udpCtx'[e] = IF e = c THEN y ELSE udpCtx[e]
  BY FramedFacts
<1> QED BY <1>1, FramedFacts

\* The fields a call assigns, and the others.
LEMMA AssignedIs ==
  ASSUME NEW x, DOMAIN x = DOMAIN UdpFresh, NEW a, NEW b, NEW c, NEW d, NEW e
  PROVE  /\ LET y == [x EXCEPT !.rx = a] IN
            y.rx = a /\ y.addr = x.addr /\ y.size = x.size /\ y.offset = x.offset
            /\ y.cap = x.cap /\ y.tx = x.tx /\ y.refused = x.refused
         /\ LET y == [x EXCEPT !.rx = a, !.addr = b, !.offset = c, !.size = d] IN
            y.rx = a /\ y.addr = b /\ y.size = d /\ y.offset = c
            /\ y.cap = x.cap /\ y.tx = x.tx /\ y.refused = x.refused
         /\ LET y == [x EXCEPT !.rx = a, !.taken = e, !.offset = c, !.addr = b, !.size = d] IN
            y.rx = a /\ y.addr = b /\ y.size = d /\ y.offset = c
            /\ y.cap = x.cap /\ y.tx = x.tx /\ y.refused = x.refused
         /\ LET y == [x EXCEPT !.rx = a, !.taken = e, !.offset = c, !.size = d, !.addr = b] IN
            y.rx = a /\ y.addr = b /\ y.size = d /\ y.offset = c
            /\ y.cap = x.cap /\ y.tx = x.tx /\ y.refused = x.refused
<1>1. /\ "rx" \in DOMAIN x /\ "addr" \in DOMAIN x /\ "size" \in DOMAIN x /\ "offset" \in DOMAIN x
      /\ "cap" \in DOMAIN x /\ "tx" \in DOMAIN x /\ "refused" \in DOMAIN x /\ "taken" \in DOMAIN x
  BY DEF UdpFresh
<1> QED BY <1>1

LEMMA RecvFramed ==
  ASSUME FrameInv, NEW c \in UdpCtxs, NEW shape \in UdpShapes, UdpRecv(c, shape)
  PROVE  \A e \in UdpCtxs : Framed(udpCtx'[e], udpIn')
<1>1. PICK m \in Nat : m = udpIn /\ udpIn' = m + 1
  BY FramedFacts DEF UdpRecv
<1>2. PICK x : x = udpCtx[c] /\ DOMAIN x = DOMAIN UdpFresh /\ Framed(x, m)
  BY <1>1, FramedFacts
<1>3. shape \in Seq(Nat) /\ shape # <<>> /\ Len(shape) \in Nat /\ Len(shape) > 0
  <2>1. shape \in Seq(Nat) /\ shape # <<>>
    BY UdpAssumption
  <2> QED BY <2>1
<1>4. RxOK(x.rx, x.addr, x.size, x.offset, m) /\ TxOK(x.cap, x.tx, x.refused)
  BY <1>2 DEF Framed
<1>5. \A e \in UdpCtxs : Framed(udpCtx[e], m + 1)
  BY <1>1, FramedFacts, LaterFramed
<1>6. PICK p : p = UdpPbufs(m + 1, shape)
  OBVIOUS
<1>7. ASSUME ~UNCHANGED udpCtx
      PROVE  \E y : Framed(y, m + 1) /\ udpCtx' = [udpCtx EXCEPT ![c] = y]
  <2>1. CASE /\ x.rx # <<>> /\ Len(x.rx) < 2 * rxBufMaxDepth
             /\ udpCtx' = [udpCtx EXCEPT ![c].rx = @ \o <<UdpHelper(m + 1)>> \o p]
    <3>1. PICK q : q = x.rx /\ q # <<>> /\ Len(q) < 2 * rxBufMaxDepth
      BY <2>1
    <3>2. PICK r : r = q \o <<UdpHelper(m + 1)>> \o p
      OBVIOUS
    <3>3. udpCtx' = [udpCtx EXCEPT ![c] = [x EXCEPT !.rx = r]]
      BY <1>2, <2>1, <3>1, <3>2
    <3>4. Chain(q, x.addr, m) /\ q \in Seq(UdpPbuf) /\ x.size = UdpProcessSize(q)
          /\ x.size \in Nat /\ x.offset \in Nat /\ x.offset <= x.size
      BY <1>4, <3>1, ChainFacts DEF RxOK
    <3>5. Appended(r, q, m + 1, Len(q), Len(shape))
      BY <1>3, <1>6, <3>2, <3>4, AppendedIs
    <3>6. /\ Chain(r, x.addr, m + 1) /\ r # <<>> /\ UdpHelpers(r) = UdpHelpers(q) \cup {Len(q) + 1}
          /\ UdpProcessSize(r) = UdpProcessSize(q)
      <4>1. PICK k \in Nat : k = Len(shape) /\ k > 0
        BY <1>3
      <4>2. PICK a : a = x.addr
        OBVIOUS
      <4>3. Chain(q, a, m) /\ Appended(r, q, m + 1, Len(q), k)
        BY <3>4, <3>5, <4>1, <4>2
      <4>4. /\ Chain(r, a, m + 1) /\ r # <<>> /\ UdpHelpers(r) = UdpHelpers(q) \cup {Len(q) + 1}
            /\ UdpProcessSize(r) = UdpProcessSize(q)
        BY <3>1, <4>1, <4>3, ChainAppend
      <4> QED BY <4>2, <4>4
    <3>7. Cardinality(UdpHelpers(r)) < 2 * rxBufMaxDepth
      <4>1. PICK n \in Nat : n = Len(q)
        BY <3>4
      <4>2. UdpHelpers(r) \in SUBSET (2..(n + 1))
        <5>1. UdpHelpers(q) \in SUBSET (2..n) /\ n > 0
          BY <3>1, <3>4, <4>1, ChainFacts
        <5>2. \A i \in 2..n : i \in 2..(n + 1)
          OBVIOUS
        <5>3. n + 1 \in 2..(n + 1)
          BY <5>1
        <5> QED BY <3>6, <4>1, <5>1, <5>2, <5>3
      <4>3. IsFiniteSet(2..(n + 1)) /\ Cardinality(2..(n + 1)) = n
        <5>1. PICK b \in Int : b = n + 1
          OBVIOUS
        <5>2. IsFiniteSet(2..b) /\ Cardinality(2..b) = IF 2 > b THEN 0 ELSE b - 2 + 1
          BY FS_Interval
        <5> QED BY <5>1, <5>2
      <4>4. Cardinality(UdpHelpers(r)) <= n /\ IsFiniteSet(UdpHelpers(r))
        BY <4>2, <4>3, FS_Subset
      <4>5. Cardinality(UdpHelpers(r)) \in Nat
        BY <4>4, FS_CardinalityType
      <4> QED BY <3>1, <4>1, <4>4, <4>5, UdpAssumption
    <3>8. RxOK(r, x.addr, x.size, x.offset, m + 1)
      BY <3>4, <3>6, <3>7 DEF RxOK
    <3>9. Framed([x EXCEPT !.rx = r], m + 1)
      BY <1>2, <1>4, <3>8, AssignedIs DEF Framed
    <3> QED BY <3>3, <3>9
  <2>2. CASE /\ x.rx = <<>>
             /\ udpCtx' = [udpCtx EXCEPT ![c] =
                 [@ EXCEPT !.rx = p, !.taken = FALSE, !.offset = 0, !.addr = m + 1,
                           !.size = UdpProcessSize(p)]]
    <3>1. PICK d \in Nat : d = m + 1
      OBVIOUS
    <3>2. PICK s : s = UdpProcessSize(p)
      OBVIOUS
    <3>3. Chain(p, d, m + 1) /\ p # <<>> /\ UdpHelpers(p) = {}
      BY <1>3, <1>6, <3>1, ChainNew
    <3>4. s \in Nat
      BY <3>2, <3>3, ProcessSizeIs
    <3>5. Cardinality(UdpHelpers(p)) < 2 * rxBufMaxDepth
      BY <3>3, FS_EmptySet, UdpAssumption
    <3>6. RxOK(p, d, s, 0, m + 1)
      BY <3>2, <3>3, <3>4, <3>5 DEF RxOK
    <3>7. PICK y : y = [x EXCEPT !.rx = p, !.taken = FALSE, !.offset = 0, !.addr = d, !.size = s]
      OBVIOUS
    <3>8. y.rx = p /\ y.addr = d /\ y.size = s /\ y.offset = 0
          /\ y.cap = x.cap /\ y.tx = x.tx /\ y.refused = x.refused
      BY <1>2, <3>7, AssignedIs
    <3>9. Framed(y, m + 1)
      BY <1>4, <3>6, <3>8 DEF Framed
    <3>10. udpCtx' = [udpCtx EXCEPT ![c] = y]
      BY <1>2, <2>2, <3>1, <3>2, <3>7
    <3> QED BY <3>9, <3>10
  <2>3. udpIn + 1 = m + 1
    BY <1>1
  <2> QED BY <1>2, <1>6, <1>7, <2>1, <2>2, <2>3, Zenon DEF UdpRecv
<1>8. CASE UNCHANGED udpCtx
  BY <1>1, <1>5, <1>8
<1>9. ASSUME NEW y, Framed(y, m + 1), udpCtx' = [udpCtx EXCEPT ![c] = y], NEW e \in UdpCtxs
      PROVE  Framed(udpCtx'[e], udpIn')
  <2>1. udpCtx'[e] = IF e = c THEN y ELSE udpCtx[e]
    BY <1>9, FramedFacts
  <2> QED BY <1>1, <1>5, <1>9, <2>1
<1> QED BY <1>7, <1>8, <1>9

LEMMA AdvanceFramed ==
  ASSUME NEW x, NEW m \in Nat, Framed(x, m), DOMAIN x = DOMAIN UdpFresh
  PROVE  Framed(UdpAdvance(x), m)
<1>1. RxOK(x.rx, x.addr, x.size, x.offset, m) /\ TxOK(x.cap, x.tx, x.refused)
  BY DEF Framed
<1>2. PICK q : q = x.rx
  OBVIOUS
<1>3. Chain(q, x.addr, m) /\ Cardinality(UdpHelpers(q)) < 2 * rxBufMaxDepth
  BY <1>1, <1>2 DEF RxOK
<1>4. CASE q = <<>>
  BY <1>2, <1>4 DEF UdpAdvance
<1>5. CASE q # <<>> /\ ~x.taken
  <2>1. UdpAdvance(x) = [x EXCEPT !.taken = TRUE]
    BY <1>2, <1>5 DEF UdpAdvance
  <2>2. SameFields([x EXCEPT !.taken = TRUE], x)
    BY DEF SameFields
  <2> QED BY <2>1, <2>2, SameFramed
<1>6. CASE q # <<>> /\ x.taken /\ UdpHelpers(q) = {}
  <2>1. PICK y : y = [x EXCEPT !.rx = <<>>, !.taken = FALSE, !.offset = 0, !.size = 0, !.addr = 0]
    OBVIOUS
  <2>2. UdpAdvance(x) = y
    BY <1>2, <1>6, <2>1 DEF UdpAdvance
  <2>3. y.rx = <<>> /\ y.addr = 0 /\ y.size = 0 /\ y.offset = 0
        /\ y.cap = x.cap /\ y.tx = x.tx /\ y.refused = x.refused
    BY <2>1, AssignedIs
  <2>4. RxOK(<<>>, 0, 0, 0, m)
    BY EmptyOK
  <2> QED BY <1>1, <2>2, <2>3, <2>4 DEF Framed
<1>7. CASE q # <<>> /\ x.taken /\ UdpHelpers(q) # {}
  <2>1. PICK h \in UdpHelpers(q) : h = Min(UdpHelpers(q))
    BY <1>3, <1>7, ChainFacts, MinNat
  <2>2. PICK r : r = SubSeq(q, h + 1, Len(q))
    OBVIOUS
  <2>3. After(r, q, h)
    BY <2>2 DEF After
  <2>4. PICK d, s : d = q[h].dg /\ s = UdpProcessSize(r)
    OBVIOUS
  <2>5. /\ Chain(r, d, m) /\ r # <<>>
        /\ Cardinality(UdpHelpers(r)) <= Cardinality(UdpHelpers(q))
    BY <1>3, <2>3, <2>4, ChainRest
  <2>6. s \in Nat
    BY <2>4, <2>5, ProcessSizeIs
  <2>7. Cardinality(UdpHelpers(r)) < 2 * rxBufMaxDepth
    <3>1. IsFiniteSet(UdpHelpers(r)) /\ IsFiniteSet(UdpHelpers(q))
      BY <1>3, <2>5, ChainFacts
    <3>2. Cardinality(UdpHelpers(r)) \in Nat /\ Cardinality(UdpHelpers(q)) \in Nat
      BY <3>1, FS_CardinalityType
    <3> QED BY <1>3, <2>5, <3>2, UdpAssumption
  <2>8. RxOK(r, d, s, 0, m)
    BY <2>4, <2>5, <2>6, <2>7 DEF RxOK
  <2>9. PICK y : y = [x EXCEPT !.rx = r, !.addr = d, !.offset = 0, !.size = s]
    OBVIOUS
  <2>10. UdpAdvance(x) = y
    BY <1>2, <1>7, <2>1, <2>2, <2>4, <2>9, Zenon DEF UdpAdvance
  <2>11. y.rx = r /\ y.addr = d /\ y.size = s /\ y.offset = 0
         /\ y.cap = x.cap /\ y.tx = x.tx /\ y.refused = x.refused
    BY <2>9, AssignedIs
  <2> QED BY <1>1, <2>8, <2>10, <2>11 DEF Framed
<1> QED BY <1>4, <1>5, <1>6, <1>7

LEMMA ReadFramed ==
  ASSUME NEW x, NEW m, Framed(x, m), DOMAIN x = DOMAIN UdpFresh
  PROVE  Framed([x EXCEPT !.offset = x.offset + Min({1, x.size - x.offset})], m)
<1>1. RxOK(x.rx, x.addr, x.size, x.offset, m) /\ TxOK(x.cap, x.tx, x.refused)
  BY DEF Framed
<1>2. PICK s \in Nat, o \in Nat : s = x.size /\ o = x.offset /\ o <= s
  BY <1>1 DEF RxOK
<1>3. PICK k : k = Min({1, s - o})
  OBVIOUS
<1>4. k \in Nat /\ k <= s - o
  <2>1. {1, s - o} \in SUBSET Nat /\ {1, s - o} # {}
    BY <1>2
  <2>2. k \in {1, s - o} /\ \A y \in {1, s - o} : k <= y
    BY <1>3, <2>1, MinNat
  <2> QED BY <1>2, <2>1, <2>2
<1>5. o + k \in Nat /\ o + k <= s
  BY <1>2, <1>4
<1>6. RxOK(x.rx, x.addr, x.size, o + k, m)
  BY <1>1, <1>2, <1>5 DEF RxOK
<1>7. PICK y : y = [x EXCEPT !.offset = o + k]
  OBVIOUS
<1>8. y.rx = x.rx /\ y.addr = x.addr /\ y.size = x.size /\ y.offset = o + k
         /\ y.cap = x.cap /\ y.tx = x.tx /\ y.refused = x.refused
  <2>1. "offset" \in DOMAIN x
    BY DEF UdpFresh
  <2> QED BY <1>7, <2>1
<1>9. Framed(y, m)
  BY <1>1, <1>6, <1>8 DEF Framed
<1> QED BY <1>2, <1>3, <1>7, <1>9

LEMMA CeilDivIs ==
  ASSUME NEW a \in Nat, NEW b \in Nat \ {0}
  PROVE  CeilDiv(a, b) \in Nat /\ a <= CeilDiv(a, b) * b
<1>1. PICK n \in Nat : n = a + b - 1
  OBVIOUS
<1>2. PICK d \in Nat, r \in 0..(b - 1) : d = n \div b /\ n = b * d + r
  <2>1. n \div b \in Nat /\ n % b \in 0..(b - 1) /\ n = b * (n \div b) + (n % b)
    OBVIOUS
  <2> QED BY <2>1
<1>3. PICK t \in Nat : t = b * d /\ t = d * b
  OBVIOUS
<1>4. a <= t
  BY <1>1, <1>2, <1>3
<1> QED BY <1>1, <1>2, <1>3, <1>4 DEF CeilDiv

\* _reserve() asks for enough.
LEMMA UnitsIs ==
  ASSUME NEW cap \in Nat, NEW size \in Nat, cap < size
  PROVE  UdpUnits(cap, size) \in Nat /\ size <= cap + UdpUnits(cap, size) * pbuf_unit_size
<1>1. PICK b \in Nat \ {0} : b = pbuf_unit_size
  BY UdpAssumption
<1>2. CASE cap # 0
  <2>1. PICK k \in Nat : k = CeilDiv(size - cap, b) /\ size - cap <= k * b
    <3>1. size - cap \in Nat
      OBVIOUS
    <3> QED BY <3>1, CeilDivIs
  <2>2. UdpUnits(cap, size) = k
    BY <1>1, <1>2, <2>1 DEF UdpUnits
  <2>3. k * b \in Nat
    OBVIOUS
  <2> QED BY <1>1, <2>1, <2>2, <2>3
<1>3. CASE cap = 0 /\ size < b
  <2>1. UdpUnits(cap, size) = 1
    BY <1>1, <1>3 DEF UdpUnits
  <2> QED BY <1>1, <1>3, <2>1
<1>4. CASE cap = 0 /\ ~(size < b)
  <2>1. PICK k \in Nat : k = CeilDiv(size - b, b) /\ size - b <= k * b
    <3>1. size - b \in Nat
      BY <1>4
    <3> QED BY <3>1, CeilDivIs
  <2>2. UdpUnits(cap, size) = 1 + k
    BY <1>1, <1>4, <2>1 DEF UdpUnits
  <2>3. k * b \in Nat /\ (1 + k) * b = b + k * b
    OBVIOUS
  <2> QED BY <1>1, <1>4, <2>1, <2>2, <2>3
<1> QED BY <1>2, <1>3, <1>4

LEMMA WriteFramed ==
  ASSUME FrameInv, NEW u \in UdpObjs, NEW n \in UdpWrites, UdpWrite(u, n)
  PROVE  \A e \in UdpCtxs : Framed(udpCtx'[e], udpIn')
<1>1. PICK c \in UdpCtxs : c = udpObj[u]
  BY DEF UdpWrite
<1>2. PICK x : x = udpCtx[c] /\ DOMAIN x = DOMAIN UdpFresh /\ Framed(x, udpIn)
  BY FramedFacts
<1>3. PICK cap \in Nat, tx \in Nat : cap = x.cap /\ tx = x.tx /\ tx <= cap /\ x.refused = FALSE
  BY <1>2 DEF Framed, TxOK
<1>4. n \in Nat /\ tx + n \in Nat /\ udpIn' = udpIn
  BY UdpAssumption DEF UdpWrite
<1>5. PICK units : units = IF cap < tx + n THEN UdpUnits(cap, tx + n) ELSE 0
  OBVIOUS
<1>6. units \in Nat /\ tx + n <= cap + units * pbuf_unit_size
  <2>1. CASE cap < tx + n
    BY <1>4, <1>5, <2>1, UnitsIs
  <2>2. CASE ~(cap < tx + n)
    BY <1>4, <1>5, <2>2, UdpAssumption
  <2> QED BY <2>1, <2>2
<1>7. PICK new \in 0..units :
        udpCtx' = [udpCtx EXCEPT ![c] =
                     IF cap + new * pbuf_unit_size < tx + n
                     THEN [x EXCEPT !.cap = cap + new * pbuf_unit_size,
                                    !.refused = @ \/ new = units]
                     ELSE [x EXCEPT !.cap = cap + new * pbuf_unit_size, !.tx = @ + n]]
  BY <1>1, <1>2, <1>3, <1>5, Zenon DEF UdpWrite
<1>8. PICK k \in Nat : k = cap + new * pbuf_unit_size /\ cap <= k /\ (new = units => tx + n <= k)
  <2>1. PICK b \in Nat : b = pbuf_unit_size
    BY UdpAssumption
  <2>2. new \in Nat /\ new * b \in Nat
    BY <1>6
  <2>3. cap + new * b \in Nat /\ cap <= cap + new * b
    BY <2>2
  <2> QED BY <1>6, <2>1, <2>3
<1>9. /\ "cap" \in DOMAIN x /\ "tx" \in DOMAIN x /\ "refused" \in DOMAIN x
  BY <1>2 DEF UdpFresh
<1>10. PICK y : Framed(y, udpIn) /\ udpCtx' = [udpCtx EXCEPT ![c] = y]
  <2>1. CASE k < tx + n
    <3>1. new # units /\ (x.refused \/ new = units) = FALSE
      BY <1>3, <1>4, <1>8, <2>1
    <3>2. udpCtx' = [udpCtx EXCEPT ![c] = [x EXCEPT !.cap = k, !.refused = FALSE]]
      BY <1>7, <1>8, <2>1, <3>1
    <3>3. PICK y : y = [x EXCEPT !.cap = k, !.refused = FALSE]
      OBVIOUS
    <3>4. y.rx = x.rx /\ y.addr = x.addr /\ y.size = x.size /\ y.offset = x.offset
          /\ y.cap = k /\ y.tx = x.tx /\ y.refused = FALSE
      BY <1>9, <3>3
    <3>5. TxOK(k, tx, FALSE)
      BY <1>3, <1>8 DEF TxOK
    <3>6. Framed(y, udpIn)
      BY <1>2, <1>3, <3>4, <3>5 DEF Framed
    <3> QED BY <3>2, <3>3, <3>6
  <2>2. CASE ~(k < tx + n)
    <3>1. udpCtx' = [udpCtx EXCEPT ![c] = [x EXCEPT !.cap = k, !.tx = tx + n]]
      BY <1>3, <1>7, <1>8, <2>2
    <3>2. PICK y : y = [x EXCEPT !.cap = k, !.tx = tx + n]
      OBVIOUS
    <3>3. y.rx = x.rx /\ y.addr = x.addr /\ y.size = x.size /\ y.offset = x.offset
          /\ y.cap = k /\ y.tx = tx + n /\ y.refused = FALSE
      BY <1>3, <1>9, <3>2
    <3>4. TxOK(k, tx + n, FALSE)
      BY <1>4, <2>2 DEF TxOK
    <3>5. Framed(y, udpIn)
      BY <1>2, <3>3, <3>4 DEF Framed
    <3> QED BY <3>1, <3>2, <3>5
  <2> QED BY <2>1, <2>2
<1> QED BY <1>4, <1>10, OneFramed

\* Calls that do not touch the framing of any context, or begin a new one.
LEMMA LifeFramed ==
  ASSUME FrameInv, NEW u \in UdpObjs,
         \/ UdpConstruct(u) \/ UdpDestroy(u) \/ UdpStop(u) \/ UdpBegin(u) \/ UdpBeginPacket(u)
         \/ \E v \in UdpObjs : UdpCopy(u, v) \/ UdpAssign(u, v)
  PROVE  \A e \in UdpCtxs : Framed(udpCtx'[e], udpIn')
<1> SUFFICES ASSUME NEW e \in UdpCtxs PROVE Framed(udpCtx'[e], udpIn')
  OBVIOUS
<1>1. udpIn' = udpIn
  BY Zenon DEF UdpConstruct, UdpDestroy, UdpStop, UdpBegin, UdpBeginPacket, UdpCopy, UdpAssign
<1>2. Framed(udpCtx[e], udpIn) /\ DOMAIN udpCtx = UdpCtxs /\ DOMAIN udpCtx[e] = DOMAIN UdpFresh
  BY FramedFacts
<1>3. PICK old : old = UdpUnref(udpCtx, udpObj[u])
  OBVIOUS
<1>4. Framed(old[e], udpIn) /\ DOMAIN old = UdpCtxs
  <2>1. Framed(old[e], udpIn)
    BY <1>2, <1>3, UnrefFramed
  <2>2. DOMAIN old = UdpCtxs
    BY <1>2, <1>3 DEF UdpUnref
  <2> QED BY <2>1, <2>2
<1>5. ASSUME NEW b
      PROVE  Framed([UdpFresh EXCEPT !.refcnt = 1, !.recv = b], udpIn)
             /\ Framed([UdpFresh EXCEPT !.refcnt = 1], udpIn)
  <2>1. SameFields([UdpFresh EXCEPT !.refcnt = 1, !.recv = b], UdpFresh)
        /\ SameFields([UdpFresh EXCEPT !.refcnt = 1], UdpFresh)
    BY DEF SameFields, UdpFresh
  <2> QED BY <2>1, FreshFramed, SameFramed
<1>6. CASE UdpConstruct(u)
  BY <1>1, <1>2, <1>6 DEF UdpConstruct
<1>7. CASE UdpDestroy(u) \/ UdpStop(u)
  <2>1. udpCtx' = old
    BY <1>3, <1>7 DEF UdpDestroy, UdpStop
  <2> QED BY <1>1, <1>4, <2>1
<1>8. CASE UdpBegin(u)
  <2>1. CASE udpCtx' = old
    BY <1>1, <1>4, <2>1
  <2>2. CASE \E c \in UdpCtxs, bound \in BOOLEAN :
               udpCtx' = [old EXCEPT ![c] = [UdpFresh EXCEPT !.refcnt = 1, !.recv = bound]]
    <3>1. PICK c \in UdpCtxs, bound \in BOOLEAN :
               udpCtx' = [old EXCEPT ![c] = [UdpFresh EXCEPT !.refcnt = 1, !.recv = bound]]
      BY <2>2
    <3>2. PICK y : y = [UdpFresh EXCEPT !.refcnt = 1, !.recv = bound]
      OBVIOUS
    <3>3. Framed(y, udpIn)
      BY <1>5, <3>2
    <3>4. udpCtx'[e] = IF e = c THEN y ELSE old[e]
      BY <1>4, <3>1, <3>2
    <3> QED BY <1>1, <1>4, <3>3, <3>4
  <2> QED BY <1>3, <1>8, <2>1, <2>2, Zenon DEF UdpBegin
<1>9. CASE UdpBeginPacket(u)
  <2>1. PICK c \in UdpCtxs : udpCtx' = [udpCtx EXCEPT ![c] = [UdpFresh EXCEPT !.refcnt = 1]]
    BY <1>9 DEF UdpBeginPacket
  <2>2. PICK y : y = [UdpFresh EXCEPT !.refcnt = 1] /\ Framed(y, udpIn)
    BY <1>5
  <2>3. udpCtx'[e] = IF e = c THEN y ELSE udpCtx[e]
    BY <1>2, <2>1, <2>2
  <2> QED BY <1>1, <1>2, <2>2, <2>3
<1>10. CASE \E v \in UdpObjs : UdpCopy(u, v) \/ UdpAssign(u, v)
  <2>1. PICK v \in UdpObjs : /\ udpObj[v] # NoObj
                             /\ udpCtx' = (IF udpObj[v] = NoCtx THEN udpCtx
                                           ELSE UdpRef(udpCtx, udpObj[v]))
    BY <1>10 DEF UdpCopy, UdpAssign
  <2>2. CASE udpCtx' = udpCtx \/ udpObj[v] # e
    <3>1. udpCtx'[e] = udpCtx[e]
      BY <1>2, <2>1, <2>2 DEF UdpRef
    <3> QED BY <1>1, <1>2, <3>1
  <2>3. CASE udpObj[v] = e /\ udpCtx' = UdpRef(udpCtx, udpObj[v])
    <3>1. PICK r : r = udpCtx[e].refcnt + 1
      OBVIOUS
    <3>2. udpCtx'[e] = [udpCtx[e] EXCEPT !.refcnt = r]
      BY <1>2, <2>3, <3>1 DEF UdpRef
    <3> QED BY <1>1, <1>2, <3>2, CountedFramed
  <2> QED BY <2>1, <2>2, <2>3
<1> QED BY <1>6, <1>7, <1>8, <1>9, <1>10, Zenon

LEMMA StopAllFramed ==
  ASSUME FrameInv, UdpStopAll
  PROVE  \A e \in UdpCtxs : Framed(udpCtx'[e], udpIn')
<1> SUFFICES ASSUME NEW e \in UdpCtxs PROVE Framed(udpCtx'[e], udpIn')
  OBVIOUS
<1>1. udpIn' = udpIn /\ Framed(udpCtx[e], udpIn) /\ DOMAIN udpCtx[e] = DOMAIN UdpFresh
  BY FramedFacts DEF UdpStopAll
<1>2. PICK r : r = udpCtx[e].refcnt - Cardinality(UdpPointing(udpObj, e))
  OBVIOUS
<1>3. udpCtx'[e] = UdpFresh \/ udpCtx'[e] = [udpCtx[e] EXCEPT !.refcnt = r]
  BY <1>2 DEF UdpStopAll
<1> QED BY <1>1, <1>3, FreshFramed, CountedFramed

LEMMA EndPacketFramed ==
  ASSUME FrameInv, NEW u \in UdpObjs, UdpEndPacket(u)
  PROVE  \A e \in UdpCtxs : Framed(udpCtx'[e], udpIn')
<1>1. PICK c \in UdpCtxs : c = udpObj[u]
  BY DEF UdpEndPacket
<1>2. PICK x : x = udpCtx[c] /\ DOMAIN x = DOMAIN UdpFresh /\ Framed(x, udpIn)
  BY FramedFacts
<1>3. PICK y : y = [x EXCEPT !.cap = 0, !.tx = 0]
  OBVIOUS
<1>4. udpCtx' = [udpCtx EXCEPT ![c] = y] /\ udpIn' = udpIn
  BY <1>1, <1>2, <1>3 DEF UdpEndPacket
<1>5. y.rx = x.rx /\ y.addr = x.addr /\ y.size = x.size /\ y.offset = x.offset
      /\ y.cap = 0 /\ y.tx = 0 /\ y.refused = x.refused
  <2>1. "cap" \in DOMAIN x /\ "tx" \in DOMAIN x
    BY <1>2 DEF UdpFresh
  <2> QED BY <1>3, <2>1
<1>6. Framed(y, udpIn)
  BY <1>2, <1>5 DEF Framed, TxOK
<1> QED BY <1>4, <1>6, OneFramed

LEMMA FrameStart == UdpInit => FrameInv
<1> SUFFICES ASSUME UdpInit PROVE FrameInv
  OBVIOUS
<1>1. HoldInv
  BY UdpStart
<1>2. \A c \in UdpCtxs : udpCtx[c] = UdpFresh
  BY DEF UdpInit
<1> QED BY <1>1, <1>2, FreshFramed DEF FrameInv

LEMMA FrameStep == FrameInv /\ [UdpNext]_udpVars => FrameInv'
<1> SUFFICES ASSUME FrameInv, [UdpNext]_udpVars PROVE FrameInv'
  OBVIOUS
<1>1. HoldInv'
  BY UdpStep DEF FrameInv
<1> SUFFICES \A e \in UdpCtxs : Framed(udpCtx'[e], udpIn')
  BY <1>1 DEF FrameInv, Framed, RxOK, TxOK, Chain, UdpPbuf, UdpHelpers, UdpProcessSize, SumTo
<1>2. CASE UNCHANGED udpVars
  BY <1>2, FramedFacts DEF udpVars
<1>3. CASE UdpStopAll
  BY <1>3, StopAllFramed
<1>4. CASE \E c \in UdpCtxs, shape \in UdpShapes : UdpRecv(c, shape)
  BY <1>4, RecvFramed
<1>5. ASSUME NEW u \in UdpObjs, UdpParsePacket(u)
      PROVE  \A e \in UdpCtxs : Framed(udpCtx'[e], udpIn')
  <2>1. PICK c \in UdpCtxs : c = udpObj[u]
    BY <1>5 DEF UdpParsePacket
  <2>2. PICK x : x = udpCtx[c] /\ DOMAIN x = DOMAIN UdpFresh /\ Framed(x, udpIn) /\ udpIn \in Nat
    BY FramedFacts
  <2>3. udpCtx' = [udpCtx EXCEPT ![c] = UdpAdvance(x)] /\ udpIn' = udpIn
    BY <1>5, <2>1, <2>2 DEF UdpParsePacket
  <2>4. Framed(UdpAdvance(x), udpIn)
    BY <2>2, AdvanceFramed
  <2> QED BY <2>3, <2>4, OneFramed
<1>6. ASSUME NEW u \in UdpObjs, UdpRead(u, 1)
      PROVE  \A e \in UdpCtxs : Framed(udpCtx'[e], udpIn')
  <2>1. PICK c \in UdpCtxs : c = udpObj[u]
    BY <1>6 DEF UdpRead
  <2>2. PICK x : x = udpCtx[c] /\ DOMAIN x = DOMAIN UdpFresh /\ Framed(x, udpIn)
    BY FramedFacts
  <2>3. PICK y : y = [x EXCEPT !.offset = x.offset + Min({1, x.size - x.offset})]
    OBVIOUS
  <2>4. udpCtx' = [udpCtx EXCEPT ![c] = y] /\ udpIn' = udpIn
    BY <1>6, <2>1, <2>2, <2>3 DEF UdpRead
  <2>5. Framed(y, udpIn)
    BY <2>2, <2>3, ReadFramed
  <2> QED BY <2>4, <2>5, OneFramed
<1>7. ASSUME NEW u \in UdpObjs,
             \/ UdpConstruct(u) \/ UdpDestroy(u) \/ UdpStop(u) \/ UdpBegin(u) \/ UdpBeginPacket(u)
             \/ \E v \in UdpObjs : UdpCopy(u, v) \/ UdpAssign(u, v)
      PROVE  \A e \in UdpCtxs : Framed(udpCtx'[e], udpIn')
  BY <1>7, LifeFramed
<1>8. ASSUME NEW u \in UdpObjs, (\E n \in UdpWrites : UdpWrite(u, n)) \/ UdpEndPacket(u)
      PROVE  \A e \in UdpCtxs : Framed(udpCtx'[e], udpIn')
  BY <1>8, WriteFramed, EndPacketFramed
<1> QED BY <1>2, <1>3, <1>4, <1>5, <1>6, <1>7, <1>8, ZenonT(60) DEF UdpNext

\* What the sketch reads between two calls of parsePacket() is one datagram,
\* with that datagram's addresses; datagrams come in the order of arrival and
\* the chain is bounded; the send buffer never holds more than its pbufs and
\* append() refuses only when an allocation failed: for any shapes of
\* datagrams, any depth and any size of the send buffer's pbufs.
THEOREM DatagramsFramed == UdpSpec => []UdpFramed
<1>1. FrameInv => UdpFramed
  <2> SUFFICES ASSUME FrameInv, NEW c \in UdpCtxs, NEW x, x = udpCtx[c]
               PROVE  /\ x.rx # <<>> =>
                           /\ ~x.rx[1].helper
                           /\ \A i \in DOMAIN x.rx : x.rx[i].dg = UdpOwner(x, i)
                           /\ \A i \in UdpHelpers(x.rx) : x.addr < x.rx[i].dg
                           /\ \A i, j \in UdpHelpers(x.rx) : i < j => x.rx[i].dg < x.rx[j].dg
                           /\ x.size = SumTo(Mine(x), Len(x.rx))
                      /\ x.offset <= x.size
                      /\ Cardinality(UdpHelpers(x.rx)) < 2 * rxBufMaxDepth
                      /\ x.tx <= x.cap /\ ~x.refused
    BY Zenon DEF UdpFramed, Mine
  <2>1. PICK m : m = udpIn
    OBVIOUS
  <2>2. Framed(x, m)
    BY <2>1 DEF FrameInv
  <2>3. /\ Chain(x.rx, x.addr, m) /\ x.offset <= x.size
        /\ Cardinality(UdpHelpers(x.rx)) < 2 * rxBufMaxDepth
        /\ x.tx <= x.cap /\ x.refused = FALSE
        /\ (x.rx # <<>> => x.size = UdpProcessSize(x.rx))
    BY <2>2 DEF Framed, RxOK, TxOK
  <2>4. ASSUME x.rx # <<>>
        PROVE  /\ ~x.rx[1].helper
               /\ \A i \in DOMAIN x.rx : x.rx[i].dg = UdpOwner(x, i)
               /\ \A i \in UdpHelpers(x.rx) : x.addr < x.rx[i].dg
               /\ \A i, j \in UdpHelpers(x.rx) : i < j => x.rx[i].dg < x.rx[j].dg
               /\ x.size = SumTo(Mine(x), Len(x.rx))
    <3>1. PICK q : q = x.rx /\ Chain(q, x.addr, m) /\ q # <<>>
      BY <2>3, <2>4
    <3>2. /\ DOMAIN q = 1..Len(q) /\ Len(q) \in Nat /\ Len(q) > 0
          /\ UdpHelpers(q) \in SUBSET (2..Len(q))
      BY <3>1, ChainFacts
    <3>3. ~q[1].helper /\ q[1].dg = x.addr
      BY <3>1 DEF Chain
    <3>4. \A i \in DOMAIN q : q[i].dg = UdpOwner(x, i)
      BY <3>1, <3>2, ChainOwner
    <3>5. \A i \in UdpHelpers(q) : i \in 1..Len(q) /\ q[i].helper /\ 1 < i /\ i \in Nat
      <4> SUFFICES ASSUME NEW i \in UdpHelpers(q)
                   PROVE  i \in 1..Len(q) /\ q[i].helper /\ 1 < i /\ i \in Nat
        OBVIOUS
      <4>1. i \in 2..Len(q)
        BY <3>2
      <4>2. q[i].helper
        BY DEF UdpHelpers
      <4> QED BY <3>2, <4>1, <4>2
    <3>6. \A i, j \in UdpHelpers(q) : i < j => q[i].dg < q[j].dg
      <4> SUFFICES ASSUME NEW i \in UdpHelpers(q), NEW j \in UdpHelpers(q), i < j
                   PROVE  q[i].dg < q[j].dg
        OBVIOUS
      <4>1. i \in 1..Len(q) /\ j \in 1..Len(q) /\ q[j].helper /\ i <= j
        BY <3>5
      <4> QED BY <3>1, <4>1, ChainOrder
    <3>7. \A i \in UdpHelpers(q) : x.addr < q[i].dg
      <4> SUFFICES ASSUME NEW i \in UdpHelpers(q) PROVE x.addr < q[i].dg
        OBVIOUS
      <4>1. 1 \in 1..Len(q) /\ i \in 1..Len(q) /\ q[i].helper /\ 1 < i /\ 1 <= i
        BY <3>2, <3>5
      <4>2. q[1].dg < q[i].dg
        BY <3>1, <4>1, ChainOrder
      <4> QED BY <3>3, <4>2
    <3>8. x.size = SumTo(Mine(x), Len(q))
      BY <2>3, <3>1, MineIs
    <3> QED BY <3>1, <3>3, <3>4, <3>6, <3>7, <3>8
  <2> QED BY <2>3, <2>4
<1> QED BY <1>1, FrameStart, FrameStep, PTL DEF UdpSpec
=============================================================================
