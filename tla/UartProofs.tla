----------------------------- MODULE UartProofs -----------------------------
(***************************************************************************)
(* Proofs about the UART on its bus and on its line (UartLine), and about  *)
(* the stimulus driver at the far end (UartRxDriver), for every depth of   *)
(* the FIFOs, every number of data bits, and every set of divisors without *)
(* zero: a period of a single cycle has no middle to sample.               *)
(*                                                                         *)
(* The argument is one of bit timing.  A sender, be it the UART's own      *)
(* transmitter or the driver, is in some bit of its frame, some cycles     *)
(* into it.  The receiver is either still to sample that bit, and its      *)
(* counter is ahead of the sender's, or has sampled it, and its counter is *)
(* behind; the two counters keep their distance for the whole frame.  This *)
(* is InStep; the rest is the two rings and who holds which byte.          *)
(***************************************************************************)
EXTENDS UartRxDriver, SequenceTheorems, TLAPS

States == {"IDLE", "START", "DATA", "STOP"}

(***************************************************************************)
(* The registers.                                                          *)
(***************************************************************************)
RxTypes ==
  /\ rx \in [state : States, shift : Byte, bit : 0..NBITS-1, cnt : 0..div_q]
  /\ rx.state = "IDLE" => rx.cnt = 0
  /\ rx.state = "START" => rx.cnt <= rx_half_div

TxTypes ==
  /\ tx \in [state : States, shift : Byte, bit : 0..NBITS-1, cnt : 0..div_q, txd : {0, 1}]
  /\ tx_idle => tx.cnt = 0
  /\ tx.state \in {"IDLE", "STOP"} => tx.txd = 1

\* A ring's pointers and slots, and how many slots are taken.
RingOK(slots, wptr, rptr, depth) ==
  /\ slots \in [0..depth-1 -> Byte]
  /\ wptr \in 0..2*depth-1 /\ rptr \in 0..2*depth-1
  /\ (wptr - rptr) % (2 * depth) <= depth

RingSeq(slots, wptr, rptr, depth) ==
  [i \in 1..((wptr - rptr) % (2 * depth)) |-> slots[(rptr + i - 1) % depth]]

TxContents == RingSeq(tx_fifo_q, tx_wptr_q, tx_rptr_q, TX_FIFO_DEPTH)

\* The write in the master's hands has had at most its data taken, and that
\* only if it is a TXDATA write for which there was no room.
BusInv ==
  /\ wr \in Option(WriteReqs) /\ bvalid_q \in BOOLEAN
  /\ aw_q = << >>
  /\ bvalid_q => wr # << >> /\ w_q = << >>
  /\ w_q # << >> => /\ wr # << >> /\ wr[1].reg = "TXDATA"
                    /\ w_q = <<[low |-> wr[1].low, val |-> wr[1].val]>>
  /\ div_q \in Divs /\ div_pending_q \in Option(Divs)

RingInv ==
  /\ RingOK(tx_fifo_q, tx_wptr_q, tx_rptr_q, TX_FIFO_DEPTH)
  /\ RingOK(rx_fifo_q, rx_wptr_q, rx_rptr_q, RX_FIFO_DEPTH)
  /\ lost \in BOOLEAN

UartTypes == RxTypes /\ TxTypes /\ BusInv /\ RingInv

(***************************************************************************)
(* The receiver x, at divisor D, in step with a sender that is in bit p of *)
(* its frame (0 the start bit, NBITS + 1 the stop bit), c cycles into it.  *)
(***************************************************************************)
InStep(x, D, p, c) ==
  \/ x.state = "IDLE" /\ p = 0 /\ c = 0
  \/ x.state = "START" /\ p = 0 /\ c + (D \div 2) - x.cnt <= D
  \/ x.state = "DATA" /\ x.bit + 1 = p /\ c <= x.cnt
  \/ x.state = "DATA" /\ x.bit = p /\ x.cnt < c
  \/ x.state = "STOP" /\ p = NBITS /\ x.cnt < c
  \/ x.state = "STOP" /\ p = NBITS + 1 /\ c <= x.cnt
  \/ x.state = "IDLE" /\ p = NBITS + 1

\* The bits x has sampled so far are those of b.
Sampled(x, b) ==
  /\ x.state = "DATA" => \A i \in 1..x.bit : x.shift[NBITS - x.bit + i] = b[i]
  /\ x.state = "STOP" => x.shift = b

(***************************************************************************)
(* The UART sending to itself.                                             *)
(***************************************************************************)
TxPhase == CASE tx.state = "START" -> 0
             [] tx.state = "DATA" -> tx.bit + 1
             [] tx.state = "STOP" -> NBITS + 1
             [] OTHER -> 0

\* A frame is in the air until the receiver has it.
Flying == ~tx_idle /\ ~(tx.state = "STOP" /\ rx_idle)

\* What the transmitter puts on the line for byte b.
TxShows(b) ==
  /\ tx.state = "START" => tx.txd = 0 /\ tx.shift = b
  /\ tx.state = "DATA" => /\ tx.txd = b[tx.bit + 1]
                          /\ \A i \in 1..NBITS-tx.bit : tx.shift[i] = b[tx.bit + i]

\* The byte in the master's hands that is still to be pushed.
InHand ==
  IF wr # << >> /\ ~bvalid_q /\ wr[1].reg = "TXDATA" /\ wr[1].low
  THEN <<wr[1].val>> ELSE << >>

LoopInv ==
  /\ owed \in Seq(Byte)
  /\ tx_idle => rx.state \in {"IDLE", "START"}
  /\ ~tx_idle => InStep(rx, div_q, TxPhase, tx.cnt)
  /\ Flying => owed # << >> /\ TxShows(owed[1]) /\ Sampled(rx, owed[1])
  /\ owed = (IF Flying THEN <<owed[1]>> ELSE << >>) \o (TxContents \o InHand)

\* How long the TXDATA write at hand may have waited.
Elapsed == TxPhase * (div_q + 1) + tx.cnt

HeldInv ==
  /\ held \in Nat
  /\ tx_fifo_full /\ ~tx_idle => held <= Elapsed
  /\ tx_fifo_full /\ tx_idle => held <= (NBITS + 2) * (div_q + 1)
  /\ \E d \in Divs : held <= (NBITS + 2) * (d + 1) + 1

(***************************************************************************)
(* The driver playing into the UART.                                       *)
(***************************************************************************)
PlayInv ==
  /\ held = 0
  /\ div_q = BAUD_DIV_RESET /\ div_pending_q = << >>
  /\ tx_idle /\ tx_fifo_empty
  /\ ~drv.active => rx_idle
  /\ drv.active => /\ drv.bit <= NBITS + 1
                   /\ InStep(rx, div_q, drv.bit, drv.cnt) /\ Sampled(rx, drv.cur)
                   /\ rx_idle => drv.bit = NBITS + 1
  /\ owed = IF rx_idle THEN << >> ELSE <<drv.cur>>
  /\ far = "paced" => ~lost /\ (~rx_idle => ~rx_fifo_full)

\* The driver's fields in range.
Drivers == [idx : Nat, active : BOOLEAN, cur : Byte, bit : Nat, cnt : 0..BAUD_DIV_RESET, gap : Nat]

\* What holds whatever the bit timing; then the whole.
QueueInv ==
  /\ far \in {"loop", "paced", "free"}
  /\ UartTypes
  /\ RxQueueExact
  /\ drv \in Drivers
  /\ far # "loop" => wr = << >>

LineInv ==
  /\ QueueInv
  /\ far = "loop" => LoopInv /\ HeldInv
  /\ far # "loop" => PlayInv

-----------------------------------------------------------------------------
(***************************************************************************)
(* Rings.                                                                  *)
(***************************************************************************)
\* Remainders of the numbers the pointers can reach.
LEMMA Remainder ==
  ASSUME NEW D \in Nat \ {0}, NEW x \in 0..3*D-1
  PROVE  x % D = IF x < D THEN x ELSE IF x < 2 * D THEN x - D ELSE x - 2 * D
<1>1. CASE x < D
  <2>1. x = D * 0 + x
    BY <1>1
  <2> QED
    BY <1>1, <2>1, Z3
<1>2. CASE x >= D /\ x < 2 * D
  <2>1. x = D * 1 + (x - D) /\ x - D \in 0..D-1
    BY <1>2
  <2> QED
    BY <1>2, <2>1, Z3
<1>3. CASE x >= 2 * D
  <2>1. x = D * 2 + (x - 2 * D) /\ x - 2 * D \in 0..D-1
    BY <1>3
  <2> QED
    BY <1>3, <2>1, Z3
<1> QED
  BY <1>1, <1>2, <1>3

\* The fill of a ring, whichever pointer has wrapped.
LEMMA FillIs ==
  ASSUME NEW D \in Nat \ {0}, NEW w \in 0..2*D-1, NEW r \in 0..2*D-1
  PROVE  (w - r) % (2 * D) = IF w >= r THEN w - r ELSE w - r + 2 * D
<1> DEFINE E == 2 * D
           x == w - r
<1>1. E \in Nat \ {0} /\ x \in Int /\ x < E /\ x > 0 - E
  OBVIOUS
<1>2. CASE w >= r
  <2>1. x \in 0..E-1
    BY <1>1, <1>2
  <2> HIDE DEF E, x
  <2>2. x = E * 0 + x
    BY <1>1
  <2>3. x % E = x
    BY <1>1, <2>1, <2>2, Z3
  <2> QED
    BY <1>2, <2>3 DEF E, x
<1>3. CASE w < r
  <2>1. x + E \in 0..E-1
    BY <1>1, <1>3
  <2> HIDE DEF E, x
  <2>2. x = E * (0 - 1) + (x + E)
    BY <1>1
  <2>3. x % E = x + E
    BY <1>1, <2>1, <2>2, Z3
  <2> QED
    BY <1>3, <2>3 DEF E, x
<1> QED
  BY <1>2, <1>3

\* A pointer moves on by one slot and wraps at twice the depth.
LEMMA NextPtr ==
  ASSUME NEW D \in Nat \ {0}, NEW p \in 0..2*D-1
  PROVE  /\ next_ptr(p, D) = IF p + 1 = 2 * D THEN 0 ELSE p + 1
         /\ next_ptr(p, D) \in 0..2*D-1
<1> DEFINE E == 2 * D
<1>1. E \in Nat \ {0} /\ p + 1 \in 1..E /\ p \in Nat
  OBVIOUS
<1> HIDE DEF E
<1>2. CASE p + 1 = E
  <2>1. E % E = 0
    BY <1>1, Z3
  <2> QED
    BY <1>1, <1>2, <2>1 DEF next_ptr, E
<1>3. CASE p + 1 < E
  <2>1. (p + 1) % E = p + 1
    BY <1>1, <1>3, Z3
  <2> QED
    BY <1>1, <1>3, <2>1 DEF next_ptr, E
<1> QED
  BY <1>1, <1>2, <1>3

\* The flags of a ring say how many of its slots are taken.
LEMMA RingFlags ==
  ASSUME NEW D \in Nat \ {0}, NEW w \in 0..2*D-1, NEW r \in 0..2*D-1
  PROVE  /\ ring_full(w, r, D) <=> (w - r) % (2 * D) = D
         /\ w = r <=> (w - r) % (2 * D) = 0
         /\ (w - r) % (2 * D) \in 0..2*D-1
<1>1. ASSUME NEW x \in 0..2*D-1
      PROVE  /\ x \div D = IF x < D THEN 0 ELSE 1
             /\ x % D = IF x < D THEN x ELSE x - D
  <2>0. x \in 0..3*D-1 /\ x < 2 * D
    OBVIOUS
  <2>1. x % D = IF x < D THEN x ELSE x - D
    BY <2>0, Remainder
  <2>2. CASE x < D
    BY <2>1, <2>2, Z3
  <2>3. CASE x >= D
    <3>1. x = D * 1 + (x - D) /\ x - D \in 0..D-1
      BY <2>3
    <3>2. x \div D = 1
      BY <3>1, Z3
    <3> QED
      BY <2>1, <2>3, <3>2
  <2> QED
    BY <2>2, <2>3
<1>2. /\ w \div D = IF w < D THEN 0 ELSE 1
      /\ w % D = IF w < D THEN w ELSE w - D
  BY <1>1
<1>3. /\ r \div D = IF r < D THEN 0 ELSE 1
      /\ r % D = IF r < D THEN r ELSE r - D
  BY <1>1
<1>4. ring_full(w, r, D) <=> (w - r) % (2 * D) = D
  BY <1>2, <1>3, FillIs DEF ring_full
<1> QED
  BY <1>4, FillIs

\* The contents of a ring, and what its flags say of them.
LEMMA RingFacts ==
  ASSUME NEW D \in Nat \ {0}, NEW slots, NEW w, NEW r, RingOK(slots, w, r, D)
  PROVE  LET q == RingSeq(slots, w, r, D)
             n == (w - r) % (2 * D)
         IN  /\ q \in Seq(Byte) /\ Len(q) = n /\ n \in 0..D
             /\ \A i \in 1..n : q[i] = slots[(r + i - 1) % D]
             /\ q = << >> <=> w = r
             /\ Len(q) = D <=> ring_full(w, r, D)
             /\ w # r => Head(q) = slots[r % D]
<1> DEFINE n == (w - r) % (2 * D)
           q == RingSeq(slots, w, r, D)
<1>1. slots \in [0..D-1 -> Byte] /\ w \in 0..2*D-1 /\ r \in 0..2*D-1 /\ n <= D
  BY DEF RingOK
<1>2. (w = r <=> n = 0) /\ (ring_full(w, r, D) <=> n = D) /\ n \in 0..D
  BY <1>1, RingFlags
<1>3. q = [i \in 1..n |-> slots[(r + i - 1) % D]]
  BY DEF RingSeq
<1> HIDE DEF n, q
<1>4. ASSUME NEW i \in 1..D PROVE (r + i - 1) % D \in 0..D-1
  <2>1. r + i - 1 \in 0..3*D-1
    BY <1>1
  <2> QED
    BY <2>1, Remainder
<1>5. q \in Seq(Byte) /\ Len(q) = n /\ \A i \in 1..n : q[i] = slots[(r + i - 1) % D]
  <2>1. n \in Nat /\ 1..n \subseteq 1..D
    BY <1>2
  <2>2. q \in [1..n -> Byte]
    BY <1>1, <1>3, <1>4, <2>1
  <2>3. q \in Seq(Byte)
    BY <2>1, <2>2, SeqDef
  <2>4. Len(q) = n
    BY <2>1, <2>2, <2>3, LenProperties
  <2> QED
    BY <1>3, <2>3, <2>4
<1>6. q = << >> <=> n = 0
  BY <1>2, <1>5, EmptySeq
<1>7. ASSUME w # r PROVE Head(q) = slots[r % D]
  <2>1. n >= 1 /\ q # << >>
    BY <1>2, <1>6, <1>7
  <2>2. q[1] = slots[(r + 1 - 1) % D] /\ r + 1 - 1 = r
    BY <1>1, <1>2, <1>5, <2>1
  <2> QED
    BY <1>5, <2>1, <2>2, HeadTailProperties
<1> QED
  BY <1>2, <1>5, <1>6, <1>7 DEF n, q

\* One edge of a ring: it may take its head off and may store x at its end;
\* it stores only into a ring that is not full, or that loses its head in
\* the same edge.
LEMMA RingMoves ==
  ASSUME NEW D \in Nat \ {0}, NEW slots, NEW w, NEW r, RingOK(slots, w, r, D),
         NEW push \in BOOLEAN, NEW pop \in BOOLEAN, NEW x \in Byte,
         pop => w # r,
         push => ~ring_full(w, r, D) \/ pop
  PROVE  LET s2 == IF push THEN [slots EXCEPT ![w % D] = x] ELSE slots
             w2 == IF push THEN next_ptr(w, D) ELSE w
             r2 == IF pop THEN next_ptr(r, D) ELSE r
             q == RingSeq(slots, w, r, D)
             rest == IF pop THEN Tail(q) ELSE q
         IN  /\ RingOK(s2, w2, r2, D)
             /\ RingSeq(s2, w2, r2, D) = IF push THEN Append(rest, x) ELSE rest
<1> DEFINE s2 == IF push THEN [slots EXCEPT ![w % D] = x] ELSE slots
           w2 == IF push THEN next_ptr(w, D) ELSE w
           r2 == IF pop THEN next_ptr(r, D) ELSE r
           n == (w - r) % (2 * D)
           n2 == (w2 - r2) % (2 * D)
           a == IF push THEN 1 ELSE 0
           b == IF pop THEN 1 ELSE 0
           q == RingSeq(slots, w, r, D)
           q2 == RingSeq(s2, w2, r2, D)
           rest == IF pop THEN Tail(q) ELSE q
<1>1. /\ slots \in [0..D-1 -> Byte] /\ w \in 0..2*D-1 /\ r \in 0..2*D-1 /\ n <= D
      /\ n = IF w >= r THEN w - r ELSE w - r + 2 * D
      /\ a \in 0..1 /\ b \in 0..1 /\ (a = 1 <=> push) /\ (b = 1 <=> pop)
  BY FillIs DEF RingOK
<1>2. (w = r <=> n = 0) /\ (ring_full(w, r, D) <=> n = D) /\ n \in 0..D
  BY <1>1, RingFlags
<1>3. /\ w2 = IF push THEN (IF w + 1 = 2 * D THEN 0 ELSE w + 1) ELSE w
      /\ r2 = IF pop THEN (IF r + 1 = 2 * D THEN 0 ELSE r + 1) ELSE r
      /\ w2 \in 0..2*D-1 /\ r2 \in 0..2*D-1
  BY <1>1, NextPtr
<1>4. n2 = IF w2 >= r2 THEN w2 - r2 ELSE w2 - r2 + 2 * D
  BY <1>3, FillIs
<1>5. push => n - b < D
  BY <1>1, <1>2
<1>6. pop => n >= 1
  BY <1>2
<1>7. n2 = n + a - b /\ n2 \in 0..D
  <2> HIDE DEF n, n2, w2, r2
  <2> QED
    BY <1>1, <1>2, <1>3, <1>4, <1>5, <1>6
<1>8. w % D \in 0..D-1 /\ w % D = IF w < D THEN w ELSE w - D
  <2>1. w \in 0..3*D-1 /\ w < 2 * D
    BY <1>1
  <2>2. w % D = IF w < D THEN w ELSE w - D
    BY <2>1, Remainder
  <2> QED
    BY <2>1, <2>2
<1>9. s2 \in [0..D-1 -> Byte]
  BY <1>1, <1>8
<1>10. RingOK(s2, w2, r2, D)
  BY <1>3, <1>7, <1>9 DEF RingOK
<1>11. /\ q \in Seq(Byte) /\ Len(q) = n /\ \A i \in 1..n : q[i] = slots[(r + i - 1) % D]
       /\ q = << >> <=> w = r
       /\ q2 \in Seq(Byte) /\ Len(q2) = n2 /\ \A i \in 1..n2 : q2[i] = s2[(r2 + i - 1) % D]
  <2>1. /\ q \in Seq(Byte) /\ Len(q) = n /\ \A i \in 1..n : q[i] = slots[(r + i - 1) % D]
        /\ q = << >> <=> w = r
    BY RingFacts
  <2> HIDE DEF s2, w2, r2
  <2>2. q2 \in Seq(Byte) /\ Len(q2) = n2 /\ \A i \in 1..n2 : q2[i] = s2[(r2 + i - 1) % D]
    BY <1>10, RingFacts
  <2> QED
    BY <2>1, <2>2
<1> HIDE DEF n, n2, q, q2, s2, w2, r2
<1>12. /\ rest \in Seq(Byte) /\ Len(rest) = n - b
       /\ \A i \in 1..n-b : rest[i] = q[i + b]
  <2>1. CASE pop
    BY <1>2, <1>6, <1>11, <2>1, HeadTailProperties
  <2>2. CASE ~pop
    BY <1>2, <1>11, <2>2
  <2> QED
    BY <2>1, <2>2
<1> HIDE DEF rest, a, b
\* An old slot keeps its byte and its place behind the head.
<1>13. ASSUME NEW i \in 1..n-b
       PROVE  i \in 1..n2 /\ q2[i] = rest[i]
  <2>1. i \in 1..n2 /\ i + b \in 1..n /\ i \in 1..D /\ i + b \in 1..D
    BY <1>1, <1>2, <1>7
  <2>2. q2[i] = s2[(r2 + i - 1) % D] /\ rest[i] = slots[(r + (i + b) - 1) % D]
    BY <1>11, <1>12, <2>1
  <2> DEFINE y == r + (i + b) - 1
             z == r2 + i - 1
  <2>3. /\ y \in 0..3*D-1 /\ z \in 0..3*D-1
        /\ y = r + i + b - 1 /\ z = r2 + i - 1
    BY <1>1, <1>3, <2>1
  <2> HIDE DEF y, z
  <2>4. /\ y % D = IF y < D THEN y ELSE IF y < 2 * D THEN y - D ELSE y - 2 * D
        /\ z % D = IF z < D THEN z ELSE IF z < 2 * D THEN z - D ELSE z - 2 * D
    BY <2>3, Remainder
  <2>5. z % D = y % D
    BY <1>1, <1>3, <2>1, <2>3, <2>4
  <2>6. push => y % D # w % D
    <3> SUFFICES ASSUME push PROVE y % D # w % D
      OBVIOUS
    <3> DEFINE k == i + b - 1
    <3>1. k \in 0..n-1 /\ n - k < D /\ y = r + k
      BY <1>1, <1>2, <1>5, <2>1, <2>3
    <3> HIDE DEF k
    <3> DEFINE u == y % D
               v == w % D
    <3>2. /\ u = IF y < D THEN y ELSE IF y < 2 * D THEN y - D ELSE y - 2 * D
          /\ v = IF w < D THEN w ELSE w - D
      BY <1>8, <2>4
    <3> HIDE DEF u, v
    <3>3. u # v
      BY <1>1, <1>2, <2>3, <3>1, <3>2
    <3> QED
      BY <3>3 DEF u, v
  <2>7. s2[z % D] = slots[z % D]
    BY <1>1, <1>8, <2>5, <2>6 DEF s2
  <2> QED
    BY <2>1, <2>2, <2>5, <2>7 DEF y, z
<1>14. CASE push
  <2>1. /\ Append(rest, x) \in Seq(Byte) /\ Len(Append(rest, x)) = n - b + 1
        /\ \A i \in 1..n-b : Append(rest, x)[i] = rest[i]
        /\ Append(rest, x)[n - b + 1] = x
    BY <1>12, AppendProperties
  <2>2. n2 = n - b + 1 /\ n2 \in 1..D
    BY <1>1, <1>2, <1>6, <1>7, <1>14
  <2>3. q2[n2] = x
    <3>1. q2[n2] = s2[(r2 + n2 - 1) % D]
      BY <1>11, <2>2, n2 \in 1..n2
    <3> DEFINE z == r2 + n2 - 1
    <3>2. z \in 0..3*D-1 /\ z = r2 + n2 - 1
      BY <1>3, <2>2
    <3> HIDE DEF z
    <3>3. z % D = IF z < D THEN z ELSE IF z < 2 * D THEN z - D ELSE z - 2 * D
      BY <3>2, Remainder
    <3>4. z % D = w % D
      BY <1>1, <1>3, <1>8, <2>2, <3>2, <3>3
    <3>5. s2[w % D] = x
      BY <1>1, <1>8, <1>14 DEF s2
    <3> QED
      BY <3>1, <3>4, <3>5 DEF z
  <2>4. ASSUME NEW i \in 1..n2 PROVE q2[i] = Append(rest, x)[i]
    <3>1. i \in 1..n-b \/ i = n2
      BY <1>1, <1>2, <2>2
    <3>2. CASE i \in 1..n-b
      BY <1>13, <2>1, <3>2
    <3>3. CASE i = n2
      BY <2>1, <2>2, <2>3, <3>3
    <3> QED
      BY <3>1, <3>2, <3>3
  <2>5. q2 = Append(rest, x)
    BY <1>11, <2>1, <2>2, <2>4, SeqEqual
  <2> QED
    BY <1>10, <1>14, <2>5, Zenon DEF q, q2, rest, s2, w2, r2
<1>15. CASE ~push
  <2>1. n2 = n - b
    BY <1>1, <1>2, <1>7, <1>15
  <2>2. q2 = rest
    BY <1>11, <1>12, <1>13, <2>1, SeqEqual
  <2> QED
    BY <1>10, <1>15, <2>2, Zenon DEF q, q2, rest, s2, w2, r2
<1> QED
  BY <1>14, <1>15

-----------------------------------------------------------------------------
(***************************************************************************)
(* Bit timing.                                                             *)
(***************************************************************************)
\* A shift drops the first bit of a byte and takes in x at the end.
LEMMA Shifted ==
  ASSUME NEW b \in Byte, NEW x \in {0, 1}
  PROVE  /\ Append(Tail(b), x) \in Byte
         /\ \A i \in 1..NBITS-1 : Append(Tail(b), x)[i] = b[i + 1]
         /\ Append(Tail(b), x)[NBITS] = x
<1>1. NBITS \in Nat /\ NBITS > 1
  BY UartAssumption
<1>2. b \in Seq({0, 1}) /\ DOMAIN b = 1..NBITS
  BY <1>1, SeqDef DEF Byte
<1>3. Len(b) = NBITS /\ b # << >>
  <2>1. Len(b) \in Nat /\ DOMAIN b = 1..Len(b)
    BY <1>2, LenProperties
  <2>2. Len(b) = NBITS
    BY <1>1, <1>2, <2>1
  <2> QED
    BY <1>1, <1>2, <2>2, EmptySeq
<1>4. /\ Tail(b) \in Seq({0, 1}) /\ Len(Tail(b)) = NBITS - 1
      /\ \A i \in 1..NBITS-1 : Tail(b)[i] = b[i + 1]
  BY <1>1, <1>2, <1>3, HeadTailProperties
<1> DEFINE t == Append(Tail(b), x)
<1>5. /\ t \in Seq({0, 1}) /\ Len(t) = NBITS
      /\ \A i \in 1..NBITS-1 : t[i] = Tail(b)[i]
      /\ t[NBITS] = x
  <2>1. /\ t \in Seq({0, 1}) /\ Len(t) = (NBITS - 1) + 1
        /\ \A i \in 1..NBITS-1 : t[i] = Tail(b)[i]
        /\ t[(NBITS - 1) + 1] = x
    BY <1>1, <1>4, AppendProperties
  <2>2. (NBITS - 1) + 1 = NBITS
    BY <1>1
  <2> QED
    BY <2>1, <2>2
<1> HIDE DEF t
<1>6. t \in [1..NBITS -> {0, 1}]
  BY <1>5, LenProperties, ElementOfSeq
<1> QED
  BY <1>4, <1>5, <1>6 DEF t, Byte

\* Bytes with the same bits are the same.
LEMMA SameByte ==
  ASSUME NEW u \in Byte, NEW v \in Byte, \A i \in 1..NBITS : u[i] = v[i]
  PROVE  u = v
<1> DEFINE N == 1..NBITS
           T == {0, 1}
<1>1. u \in [N -> T] /\ v \in [N -> T]
  BY DEF Byte
<1> HIDE DEF N, T
<1>2. \A i \in N : u[i] = v[i]
  BY DEF N
<1> QED
  BY <1>1, <1>2

\* What the receiver does at an edge that finds l on the line.
LEMMA RxNext ==
  ASSUME RxTypes, div_q \in Nat, NEW l \in {0, 1}, rx' = next_rx(l)
  PROVE  /\ rx' \in [state : States, shift : Byte, bit : 0..NBITS-1, cnt : 0..div_q]
         /\ rx.state = "IDLE" =>
              /\ rx'.state = IF l = 0 THEN "START" ELSE "IDLE"
              /\ rx'.cnt = 0
         /\ rx.state = "START" /\ rx.cnt # div_q \div 2 =>
              rx'.state = "START" /\ rx'.cnt = rx.cnt + 1
         /\ rx.state = "START" /\ rx.cnt = div_q \div 2 =>
              /\ rx'.state = (IF l = 0 THEN "DATA" ELSE "IDLE")
              /\ rx'.cnt = 0
              /\ l = 0 => rx'.bit = 0
         /\ rx.state = "DATA" /\ rx.cnt # div_q =>
              /\ rx'.state = "DATA" /\ rx'.cnt = rx.cnt + 1
              /\ rx'.bit = rx.bit /\ rx'.shift = rx.shift
         /\ rx.state = "DATA" /\ rx.cnt = div_q =>
              /\ rx'.state = (IF rx.bit = NBITS - 1 THEN "STOP" ELSE "DATA")
              /\ rx'.cnt = 0
              /\ rx'.shift = Append(Tail(rx.shift), l)
              /\ rx.bit # NBITS - 1 => rx'.bit = rx.bit + 1
         /\ rx.state = "STOP" /\ rx.cnt # div_q =>
              rx'.state = "STOP" /\ rx'.cnt = rx.cnt + 1 /\ rx'.shift = rx.shift
         /\ rx.state = "STOP" /\ rx.cnt = div_q =>
              rx'.state = "IDLE" /\ rx'.cnt = 0
<1> DEFINE K == 0..NBITS-1
           C == 0..div_q
           Rx == [state : States, shift : Byte, bit : K, cnt : C]
<1>0. rx \in Rx
  BY DEF RxTypes
<1>1. /\ rx \in Rx /\ NBITS \in Nat /\ NBITS > 1
      /\ rx.state \in States /\ rx.bit \in 0..NBITS-1 /\ rx.cnt \in 0..div_q /\ rx.shift \in Byte
      /\ div_q \div 2 \in 0..div_q
      /\ rx.state = "START" => rx.cnt <= div_q \div 2
  BY UartAssumption DEF RxTypes, rx_half_div
<1> HIDE DEF K, C, Rx
<1>2. CASE rx.state = "IDLE"
  <2>1. rx' = [rx EXCEPT !.cnt = 0, !.state = IF l = 0 THEN "START" ELSE "IDLE"]
    BY <1>2 DEF next_rx, rx_idle
  <2>2. rx'.state = (IF l = 0 THEN "START" ELSE "IDLE") /\ rx'.cnt = 0
    BY <1>0, <2>1 DEF Rx
  <2>3. rx' \in Rx
    <3>1. (IF l = 0 THEN "START" ELSE "IDLE") \in States /\ 0 \in C
      BY DEF States, C
    <3> QED
      BY <1>0, <2>1, <3>1 DEF Rx
  <2>4. rx' \in Rx /\ "IDLE" # "START" /\ "IDLE" # "DATA" /\ "IDLE" # "STOP"
    BY <2>3
  <2> QED
    BY <1>2, <2>2, <2>4 DEF Rx, K, C
<1>3. CASE rx.state = "START" /\ rx.cnt # div_q \div 2
  <2>1. rx' = [rx EXCEPT !.cnt = @ + 1]
    BY <1>3 DEF next_rx, rx_idle, rx_sample, rx_half_div
  <2> QED
    BY <1>0, <1>1, <1>3, <2>1 DEF States, Rx, K, C
<1>4. CASE rx.state = "START" /\ rx.cnt = div_q \div 2
  <2>1. rx' = next_rx_bit(l)
    BY <1>4 DEF next_rx, rx_idle, rx_sample, rx_half_div
  <2>2. CASE l = 0
    <3>1. rx' = [rx EXCEPT !.cnt = 0, !.state = "DATA", !.bit = 0]
      BY <1>4, <2>1, <2>2 DEF next_rx_bit
    <3>2. rx'.state = "DATA" /\ rx'.cnt = 0 /\ rx'.bit = 0
      BY <1>0, <3>1 DEF Rx
    <3>3. rx' \in Rx
      <4>1. "DATA" \in States /\ 0 \in C /\ 0 \in K
        BY <1>1 DEF States, C, K
      <4> QED
        BY <1>0, <3>1, <4>1 DEF Rx
    <3> QED
      BY <1>4, <2>2, <3>2, <3>3 DEF Rx, K, C
  <2>3. CASE l = 1
    <3>1. rx' = [rx EXCEPT !.cnt = 0, !.state = "IDLE"]
      BY <1>4, <2>1, <2>3 DEF next_rx_bit
    <3>2. rx'.state = "IDLE" /\ rx'.cnt = 0
      BY <1>0, <3>1 DEF Rx
    <3>3. rx' \in Rx
      <4>1. "IDLE" \in States /\ 0 \in C
        BY DEF States, C
      <4> QED
        BY <1>0, <3>1, <4>1 DEF Rx
    <3> QED
      BY <1>4, <2>3, <3>2, <3>3 DEF Rx, K, C
  <2> QED
    BY <2>2, <2>3
<1>5. CASE rx.state \in {"DATA", "STOP"} /\ rx.cnt # div_q
  <2>1. rx' = [rx EXCEPT !.cnt = @ + 1]
    BY <1>5 DEF next_rx, rx_idle, rx_sample
  <2> QED
    BY <1>0, <1>1, <1>5, <2>1 DEF States, Rx, K, C
<1>6. CASE rx.state = "DATA" /\ rx.cnt = div_q
  <2>1. rx' = next_rx_bit(l)
    BY <1>6 DEF next_rx, rx_idle, rx_sample
  <2>2. rx' = [rx EXCEPT !.cnt = 0, !.shift = Append(Tail(@), l),
                         !.state = IF rx.bit = NBITS - 1 THEN "STOP" ELSE "DATA",
                         !.bit = IF rx.bit = NBITS - 1 THEN @ ELSE @ + 1]
    BY <1>6, <2>1 DEF next_rx_bit
  <2>3. Append(Tail(rx.shift), l) \in Byte
    BY <1>1, Shifted
  <2>4. /\ rx'.state = (IF rx.bit = NBITS - 1 THEN "STOP" ELSE "DATA")
        /\ rx'.cnt = 0 /\ rx'.shift = Append(Tail(rx.shift), l)
        /\ rx'.bit = (IF rx.bit = NBITS - 1 THEN rx.bit ELSE rx.bit + 1)
    BY <1>0, <2>2 DEF Rx
  <2>5. rx' \in Rx
    <3>1. (IF rx.bit = NBITS - 1 THEN rx.bit ELSE rx.bit + 1) \in K
      BY <1>1 DEF K
    <3>2. /\ (IF rx.bit = NBITS - 1 THEN "STOP" ELSE "DATA") \in States
          /\ 0 \in C
      BY DEF States, C
    <3> QED
      BY <1>0, <2>2, <2>3, <3>1, <3>2 DEF Rx
  <2> QED
    BY <1>6, <2>4, <2>5 DEF Rx, K, C
<1>7. CASE rx.state = "STOP" /\ rx.cnt = div_q
  <2>1. rx' = next_rx_bit(l)
    BY <1>7 DEF next_rx, rx_idle, rx_sample
  <2>2. rx' = [rx EXCEPT !.cnt = 0, !.state = "IDLE"]
    BY <1>7, <2>1 DEF next_rx_bit
  <2>3. rx'.state = "IDLE" /\ rx'.cnt = 0
    BY <1>0, <2>2 DEF Rx
  <2>4. rx' \in Rx
    <3>1. "IDLE" \in States /\ 0 \in C
      BY DEF States, C
    <3> QED
      BY <1>0, <2>2, <3>1 DEF Rx
  <2> QED
    BY <1>7, <2>3, <2>4 DEF Rx, K, C
<1> QED
  BY <1>1, <1>2, <1>3, <1>4, <1>5, <1>6, <1>7 DEF States

\* The level of bit p of the frame of byte b.
FrameLevel(p, b) == IF p = 0 THEN 0 ELSE IF p <= NBITS THEN b[p] ELSE 1

\* A frame of one more cycle keeps the receiver in step, and at the end of
\* the frame the receiver rests.  Only the stop bit ends the reception, with
\* the byte of the frame.
LEMMA FrameStep ==
  ASSUME RxTypes, div_q \in Nat \ {0},
         NEW b \in Byte, NEW p \in 0..NBITS+1, NEW c \in 0..div_q,
         InStep(rx, div_q, p, c), Sampled(rx, b),
         rx' = next_rx(FrameLevel(p, b))
  PROVE  /\ c < div_q => InStep(rx', div_q, p, c + 1)
         /\ c = div_q /\ p < NBITS + 1 => InStep(rx', div_q, p + 1, 0)
         /\ c = div_q /\ p = NBITS + 1 => rx'.state = "IDLE"
         /\ Sampled(rx', b)
         /\ rx_frame_done => p = NBITS + 1 /\ rx.shift = b
         /\ ~rx_idle /\ rx'.state = "IDLE" => rx_frame_done
         /\ rx.state = "IDLE" /\ p = NBITS + 1 => rx'.state = "IDLE"
         /\ rx.state = "IDLE" /\ p = 0 => rx'.state = "START" /\ rx'.cnt = 0
<1> DEFINE l == FrameLevel(p, b)
<1>1. NBITS \in Nat /\ NBITS > 1
  BY UartAssumption
<1>2. l \in {0, 1}
  BY <1>1 DEF FrameLevel, Byte
<1>3. /\ p = 0 => l = 0
      /\ p \in 1..NBITS => l = b[p]
      /\ p = NBITS + 1 => l = 1
  BY <1>1 DEF FrameLevel
<1> HIDE DEF l
<1>4. /\ rx.state \in States /\ rx.shift \in Byte /\ rx.bit \in 0..NBITS-1 /\ rx.cnt \in 0..div_q
      /\ rx.state = "START" => rx.cnt <= div_q \div 2
      /\ div_q \div 2 \in Nat /\ 1 + (div_q \div 2) <= div_q
  BY DEF RxTypes, rx_half_div
<1>5. rx_frame_done <=> rx.state = "STOP" /\ rx.cnt = div_q
  BY DEF rx_frame_done, rx_sample
<1>6. rx' = next_rx(l)
  BY DEF l
<1>7. CASE rx.state = "IDLE"
  <2>1. (p = 0 /\ c = 0) \/ p = NBITS + 1
    BY <1>7 DEF InStep
  <2>2. rx'.state = (IF l = 0 THEN "START" ELSE "IDLE") /\ rx'.cnt = 0
    BY <1>2, <1>6, <1>7, RxNext
  <2>3. CASE p = 0 /\ c = 0
    <3>1. rx'.state = "START" /\ rx'.cnt = 0
      BY <1>3, <2>2, <2>3
    <3>2. InStep(rx', div_q, p, c + 1)
      BY <1>4, <2>3, <3>1 DEF InStep
    <3> QED
      BY <1>1, <1>5, <1>7, <2>3, <3>1, <3>2 DEF Sampled
  <2>4. CASE p = NBITS + 1
    <3>1. rx'.state = "IDLE"
      BY <1>3, <2>2, <2>4
    <3> QED
      BY <1>1, <1>5, <1>7, <2>4, <3>1 DEF Sampled, InStep, rx_idle
  <2> QED
    BY <2>1, <2>3, <2>4
<1>8. CASE rx.state = "START"
  <2>1. p = 0 /\ c + (div_q \div 2) - rx.cnt <= div_q
    BY <1>8 DEF InStep
  <2>2. l = 0
    BY <1>3, <2>1
  <2>3. CASE rx.cnt # div_q \div 2
    <3>1. rx'.state = "START" /\ rx'.cnt = rx.cnt + 1
      BY <1>2, <1>6, <1>8, <2>3, RxNext
    <3>2. c < div_q
      BY <1>4, <1>8, <2>1, <2>3
    <3>3. InStep(rx', div_q, p, c + 1)
      BY <1>4, <2>1, <3>1 DEF InStep
    <3> QED
      BY <1>5, <1>8, <3>1, <3>2, <3>3 DEF Sampled
  <2>4. CASE rx.cnt = div_q \div 2
    <3>1. rx'.state = "DATA" /\ rx'.cnt = 0 /\ rx'.bit = 0
      BY <1>2, <1>6, <1>8, <2>2, <2>4, RxNext
    <3>2. c < div_q => InStep(rx', div_q, p, c + 1)
      BY <2>1, <3>1 DEF InStep
    <3>3. c = div_q => InStep(rx', div_q, p + 1, 0)
      BY <2>1, <3>1 DEF InStep
    <3>4. Sampled(rx', b)
      BY <3>1 DEF Sampled
    <3> QED
      BY <1>1, <1>5, <1>8, <2>1, <3>1, <3>2, <3>3, <3>4
  <2> QED
    BY <2>3, <2>4
<1>9. CASE rx.state = "DATA"
  <2>1. (rx.bit + 1 = p /\ c <= rx.cnt) \/ (rx.bit = p /\ rx.cnt < c)
    BY <1>9 DEF InStep
  <2>2. p <= NBITS
    BY <1>1, <1>4, <2>1
  <2>3. CASE rx.cnt # div_q
    <3>1. /\ rx'.state = "DATA" /\ rx'.cnt = rx.cnt + 1
          /\ rx'.bit = rx.bit /\ rx'.shift = rx.shift
      BY <1>2, <1>6, <1>9, <2>3, RxNext
    <3>2. Sampled(rx', b)
      BY <1>9, <3>1 DEF Sampled
    <3>3. c < div_q => InStep(rx', div_q, p, c + 1)
      BY <1>4, <2>1, <3>1 DEF InStep
    <3>4. c = div_q => InStep(rx', div_q, p + 1, 0)
      BY <1>4, <2>1, <2>3, <3>1 DEF InStep
    <3> QED
      BY <1>1, <1>5, <1>9, <2>2, <3>1, <3>2, <3>3, <3>4
  <2>4. CASE rx.cnt = div_q
    <3>1. rx.bit + 1 = p /\ p \in 1..NBITS
      BY <1>1, <1>4, <2>1, <2>4
    <3>2. /\ rx'.state = (IF rx.bit = NBITS - 1 THEN "STOP" ELSE "DATA")
          /\ rx'.cnt = 0
          /\ rx'.shift = Append(Tail(rx.shift), b[p])
          /\ rx.bit # NBITS - 1 => rx'.bit = rx.bit + 1
      BY <1>2, <1>3, <1>6, <1>9, <2>4, <3>1, RxNext
    <3>3. c < div_q => InStep(rx', div_q, p, c + 1)
      BY <1>1, <1>4, <3>1, <3>2 DEF InStep
    <3>4. c = div_q => InStep(rx', div_q, p + 1, 0)
      BY <1>1, <1>4, <3>1, <3>2 DEF InStep
    <3>5. /\ rx'.shift \in Byte
          /\ \A i \in 1..NBITS-1 : rx'.shift[i] = rx.shift[i + 1]
          /\ rx'.shift[NBITS] = b[p]
      <4> DEFINE t == Append(Tail(rx.shift), b[p])
      <4>1. b[p] \in {0, 1}
        BY <3>1 DEF Byte
      <4>2. /\ t \in Byte
            /\ \A i \in 1..NBITS-1 : t[i] = rx.shift[i + 1]
            /\ t[NBITS] = b[p]
        BY <1>4, <4>1, Shifted
      <4>3. rx'.shift = t
        BY <3>2
      <4> HIDE DEF t
      <4> QED
        BY <4>2, <4>3
    <3>6. ASSUME NEW i \in 1..p PROVE rx'.shift[NBITS - p + i] = b[i]
      <4>1. CASE i = p
        <5>1. NBITS - p + i = NBITS
          BY <1>1, <3>1, <4>1
        <5> QED
          BY <3>5, <4>1, <5>1
      <4>2. CASE i # p
        <5>1. /\ i \in 1..rx.bit /\ NBITS - p + i \in 1..NBITS-1
              /\ (NBITS - p + i) + 1 = NBITS - rx.bit + i
          BY <1>1, <1>4, <3>1, <4>2
        <5>2. rx.shift[NBITS - rx.bit + i] = b[i]
          BY <1>9, <5>1 DEF Sampled
        <5> QED
          BY <3>5, <5>1, <5>2
      <4> QED
        BY <4>1, <4>2
    <3>7. Sampled(rx', b)
      <4>1. CASE rx.bit = NBITS - 1
        <5>1. rx'.state = "STOP" /\ p = NBITS
          BY <1>1, <3>1, <3>2, <4>1
        <5>2. \A i \in 1..NBITS : rx'.shift[i] = b[i]
          <6> TAKE i \in 1..NBITS
          <6>1. NBITS - p + i = i
            BY <1>1, <5>1
          <6> QED
            BY <3>6, <5>1, <6>1
        <5>3. rx'.shift = b
          BY <3>5, <5>2, SameByte
        <5> QED
          BY <5>1, <5>3 DEF Sampled
      <4>2. CASE rx.bit # NBITS - 1
        <5>1. rx'.state = "DATA" /\ rx'.bit = p
          BY <3>1, <3>2, <4>2
        <5> QED
          BY <3>6, <5>1 DEF Sampled
      <4> QED
        BY <4>1, <4>2
    <3> QED
      BY <1>1, <1>5, <1>9, <3>1, <3>2, <3>3, <3>4, <3>7
  <2> QED
    BY <2>3, <2>4
<1>10. CASE rx.state = "STOP"
  <2>1. (p = NBITS /\ rx.cnt < c) \/ (p = NBITS + 1 /\ c <= rx.cnt)
    BY <1>10 DEF InStep
  <2>2. rx.shift = b
    BY <1>10 DEF Sampled
  <2>3. CASE rx.cnt # div_q
    <3>1. rx'.state = "STOP" /\ rx'.cnt = rx.cnt + 1 /\ rx'.shift = rx.shift
      BY <1>2, <1>6, <1>10, <2>3, RxNext
    <3>2. Sampled(rx', b)
      BY <2>2, <3>1 DEF Sampled
    <3>3. c < div_q => InStep(rx', div_q, p, c + 1)
      BY <1>4, <2>1, <3>1 DEF InStep
    <3>4. c = div_q => p = NBITS /\ InStep(rx', div_q, p + 1, 0)
      BY <1>1, <1>4, <2>1, <2>3, <3>1 DEF InStep
    <3> QED
      BY <1>1, <1>5, <1>10, <2>3, <3>1, <3>2, <3>3, <3>4
  <2>4. CASE rx.cnt = div_q
    <3>1. p = NBITS + 1
      BY <1>4, <2>1, <2>4
    <3>2. rx'.state = "IDLE" /\ rx'.cnt = 0
      BY <1>2, <1>6, <1>10, <2>4, RxNext
    <3> QED
      BY <1>1, <1>5, <1>10, <2>2, <2>4, <3>1, <3>2 DEF InStep, Sampled
  <2> QED
    BY <2>3, <2>4
<1> QED
  BY <1>4, <1>7, <1>8, <1>9, <1>10 DEF States

\* What the transmitter does at an edge.
LEMMA TxNext ==
  ASSUME TxTypes, div_q \in Nat, tx_fifo_head \in Byte, tx' = next_tx
  PROVE  /\ tx' \in [state : States, shift : Byte, bit : 0..NBITS-1, cnt : 0..div_q, txd : {0, 1}]
         /\ tx_fifo_pop =>
              /\ tx'.state = "START" /\ tx'.cnt = 0 /\ tx'.txd = 0
              /\ tx'.shift = tx_fifo_head
         /\ tx.state = "IDLE" /\ ~tx_fifo_pop =>
              tx'.state = "IDLE" /\ tx'.cnt = 0 /\ tx'.txd = tx.txd
         /\ tx.state # "IDLE" /\ tx.cnt # div_q =>
              /\ tx'.state = tx.state /\ tx'.cnt = tx.cnt + 1 /\ tx'.txd = tx.txd
              /\ tx'.bit = tx.bit /\ tx'.shift = tx.shift
         /\ tx.state = "START" /\ tx.cnt = div_q =>
              /\ tx'.state = "DATA" /\ tx'.cnt = 0 /\ tx'.bit = 0
              /\ tx'.txd = tx.shift[1] /\ tx'.shift = tx.shift
         /\ tx.state = "DATA" /\ tx.cnt = div_q /\ tx.bit = NBITS - 1 =>
              tx'.state = "STOP" /\ tx'.cnt = 0 /\ tx'.txd = 1
         /\ tx.state = "DATA" /\ tx.cnt = div_q /\ tx.bit # NBITS - 1 =>
              /\ tx'.state = "DATA" /\ tx'.cnt = 0 /\ tx'.bit = tx.bit + 1
              /\ tx'.txd = tx.shift[2] /\ tx'.shift = Append(Tail(tx.shift), 0)
         /\ tx.state = "STOP" /\ tx.cnt = div_q =>
              tx'.state = "IDLE" /\ tx'.cnt = 0 /\ tx'.txd = tx.txd
<1> DEFINE K == 0..NBITS-1
           C == 0..div_q
           L == {0, 1}
           Tx == [state : States, shift : Byte, bit : K, cnt : C, txd : L]
<1>0. tx \in Tx
  BY DEF TxTypes
<1>1. /\ NBITS \in Nat /\ NBITS > 1
      /\ tx.state \in States /\ tx.bit \in K /\ tx.cnt \in C /\ tx.shift \in Byte
  BY UartAssumption DEF TxTypes
<1>2. tx.shift[1] \in L /\ tx.shift[2] \in L /\ Append(Tail(tx.shift), 0) \in Byte
  BY <1>1, Shifted, SMTT(60) DEF Byte
<1>3. /\ "IDLE" \in States /\ "START" \in States /\ "DATA" \in States /\ "STOP" \in States
      /\ 0 \in K /\ 0 \in C /\ 0 \in L /\ 1 \in L
      /\ tx.bit # NBITS - 1 => tx.bit + 1 \in K
      /\ tx.cnt # div_q => tx.cnt + 1 \in C
  BY <1>1 DEF States
<1> HIDE DEF K, C, L, Tx
<1>4. CASE tx_fifo_pop
  <2>1. tx.state = "IDLE"
    BY <1>4 DEF tx_fifo_pop, tx_idle
  <2>2. tx' = [tx EXCEPT !.cnt = 0, !.shift = tx_fifo_head, !.state = "START", !.txd = 0]
    BY <1>4, <2>1 DEF next_tx, tx_idle
  <2>3. tx' \in Tx
    BY <1>0, <1>3, <2>2 DEF Tx
  <2>4. tx'.state = "START" /\ tx'.cnt = 0 /\ tx'.txd = 0 /\ tx'.shift = tx_fifo_head
    BY <1>0, <2>2 DEF Tx
  <2> QED
    BY <1>4, <2>1, <2>3, <2>4 DEF Tx, K, C, L
<1>5. CASE tx.state = "IDLE" /\ ~tx_fifo_pop
  <2>1. tx' = [tx EXCEPT !.cnt = 0]
    BY <1>5 DEF next_tx, tx_idle
  <2>2. tx' \in Tx
    BY <1>0, <1>3, <2>1 DEF Tx
  <2>3. tx'.state = "IDLE" /\ tx'.cnt = 0 /\ tx'.txd = tx.txd
    BY <1>0, <1>5, <2>1 DEF Tx
  <2> QED
    BY <1>5, <2>2, <2>3 DEF Tx, K, C, L
<1>6. CASE tx.state # "IDLE" /\ tx.cnt # div_q
  <2>1. ~tx_fifo_pop
    BY <1>6 DEF tx_fifo_pop, tx_idle
  <2>2. tx' = [tx EXCEPT !.cnt = @ + 1]
    BY <1>6, <2>1 DEF next_tx, tx_idle, tx_baud_tick
  <2>3. tx' \in Tx
    BY <1>0, <1>3, <1>6, <2>2 DEF Tx
  <2>4. /\ tx'.state = tx.state /\ tx'.cnt = tx.cnt + 1 /\ tx'.txd = tx.txd
        /\ tx'.bit = tx.bit /\ tx'.shift = tx.shift
    BY <1>0, <2>2 DEF Tx
  <2> QED
    BY <1>6, <2>1, <2>3, <2>4 DEF Tx, K, C, L
<1>7. ASSUME tx.state # "IDLE", tx.cnt = div_q
      PROVE  tx' = next_tx_bit /\ ~tx_fifo_pop
  BY <1>7 DEF next_tx, tx_idle, tx_baud_tick, tx_fifo_pop
<1>8. CASE tx.state = "START" /\ tx.cnt = div_q
  <2>1. tx' = [tx EXCEPT !.cnt = 0, !.state = "DATA", !.bit = 0, !.txd = tx.shift[1]]
    BY <1>7, <1>8 DEF next_tx_bit
  <2>2. tx' \in Tx
    BY <1>0, <1>2, <1>3, <2>1 DEF Tx
  <2>3. /\ tx'.state = "DATA" /\ tx'.cnt = 0 /\ tx'.bit = 0
        /\ tx'.txd = tx.shift[1] /\ tx'.shift = tx.shift
    BY <1>0, <2>1 DEF Tx
  <2> QED
    BY <1>7, <1>8, <2>2, <2>3 DEF Tx, K, C, L
<1>9. CASE tx.state = "DATA" /\ tx.cnt = div_q /\ tx.bit = NBITS - 1
  <2>1. tx' = [tx EXCEPT !.cnt = 0, !.state = "STOP", !.txd = 1]
    BY <1>7, <1>9 DEF next_tx_bit
  <2>2. tx' \in Tx
    BY <1>0, <1>3, <2>1 DEF Tx
  <2>3. tx'.state = "STOP" /\ tx'.cnt = 0 /\ tx'.txd = 1
    BY <1>0, <2>1 DEF Tx
  <2> QED
    BY <1>7, <1>9, <2>2, <2>3 DEF Tx, K, C, L
<1>10. CASE tx.state = "DATA" /\ tx.cnt = div_q /\ tx.bit # NBITS - 1
  <2>1. tx' = [tx EXCEPT !.cnt = 0, !.bit = @ + 1, !.shift = Append(Tail(@), 0),
                         !.txd = tx.shift[2]]
    BY <1>7, <1>10 DEF next_tx_bit
  <2>2. tx' \in Tx
    BY <1>0, <1>2, <1>3, <1>10, <2>1 DEF Tx
  <2>3. /\ tx'.state = "DATA" /\ tx'.cnt = 0 /\ tx'.bit = tx.bit + 1
        /\ tx'.txd = tx.shift[2] /\ tx'.shift = Append(Tail(tx.shift), 0)
    BY <1>0, <1>10, <2>1 DEF Tx
  <2> QED
    BY <1>7, <1>10, <2>2, <2>3 DEF Tx, K, C, L
<1>11. CASE tx.state = "STOP" /\ tx.cnt = div_q
  <2>1. tx' = [tx EXCEPT !.cnt = 0, !.state = "IDLE"]
    BY <1>7, <1>11 DEF next_tx_bit
  <2>2. tx' \in Tx
    BY <1>0, <1>3, <2>1 DEF Tx
  <2>3. tx'.state = "IDLE" /\ tx'.cnt = 0 /\ tx'.txd = tx.txd
    BY <1>0, <2>1 DEF Tx
  <2> QED
    BY <1>7, <1>11, <2>2, <2>3 DEF Tx, K, C, L
<1> QED
  BY <1>1, <1>4, <1>5, <1>6, <1>8, <1>9, <1>10, <1>11 DEF States

-----------------------------------------------------------------------------
(***************************************************************************)
(* The bus.                                                                *)
(***************************************************************************)
\* What the master and the line present at an edge with the write w at hand.
Fits(w, in) ==
  /\ w \in Option(WriteReqs) /\ (wr # << >> => w = wr)
  /\ in.aw = Offer(w, w[1].reg, aw_q # << >>)
  /\ in.w = Offer(w, [low |-> w[1].low, val |-> w[1].val], w_q # << >>)
  /\ in.br = TRUE /\ in.rr = TRUE /\ in.rxd \in {0, 1}

\* The write at hand pushes its byte.
Pushes(w) ==
  w # << >> /\ ~bvalid_q /\ w[1].reg = "TXDATA" /\ w[1].low /\ tx_ready

\* A write is carried out at once, unless it has nowhere to go.
LEMMA WriteFacts ==
  ASSUME UartTypes, NEW w, NEW in, Fits(w, in)
  PROVE  /\ do_write(in) <=> w # << >> /\ ~bvalid_q /\ (w[1].reg = "TXDATA" => tx_ready)
         /\ tx_push(in) <=> Pushes(w)
         /\ tx_push(in) => w_eff(in)[1].val = w[1].val /\ w[1].val \in Byte
         /\ writes(in, "BAUDDIV") => w_eff(in)[1].val \in Divs
         /\ b_hs(in) <=> bvalid_q
         /\ ~do_write(in) => aw_eff(in) = << >>
         /\ ~do_write(in) /\ w_eff(in) # << >> =>
              /\ w # << >> /\ ~bvalid_q /\ w[1].reg = "TXDATA"
              /\ w_eff(in) = <<[low |-> w[1].low, val |-> w[1].val]>>
<1> DEFINE wd == [low |-> w[1].low, val |-> w[1].val]
<1>1. /\ wr \in Option(WriteReqs) /\ bvalid_q \in BOOLEAN /\ aw_q = << >>
      /\ bvalid_q => wr # << >> /\ w_q = << >>
      /\ w_q # << >> => wr # << >> /\ wr[1].reg = "TXDATA"
                        /\ w_q = <<[low |-> wr[1].low, val |-> wr[1].val]>>
  BY DEF UartTypes, BusInv
<1>2. /\ wr # << >> => w = wr
      /\ in.aw = IF w = << >> \/ bvalid_q THEN << >> ELSE <<w[1].reg>>
      /\ in.w = IF w = << >> \/ w_q # << >> \/ bvalid_q THEN << >> ELSE <<wd>>
      /\ in.br = TRUE
  BY <1>1 DEF Fits, Offer
<1>3. CASE w = << >>
  <2>1. in.aw = << >> /\ in.w = << >> /\ w_q = << >> /\ ~bvalid_q
    BY <1>1, <1>2, <1>3
  <2>2. aw_eff(in) = << >> /\ w_eff(in) = << >>
    BY <1>1, <2>1 DEF aw_eff, w_eff
  <2> QED
    BY <1>2, <1>3, <2>1, <2>2 DEF do_write, tx_push, writes, b_hs, Pushes
<1>4. CASE bvalid_q
  <2>1. in.aw = << >> /\ in.w = << >> /\ w_q = << >>
    BY <1>1, <1>2, <1>4
  <2>2. aw_eff(in) = << >> /\ w_eff(in) = << >>
    BY <1>1, <2>1 DEF aw_eff, w_eff
  <2> QED
    BY <1>2, <1>4, <2>1, <2>2 DEF do_write, tx_push, writes, b_hs, Pushes
<1>5. CASE w # << >> /\ ~bvalid_q
  <2>1. PICK x \in WriteReqs : w = <<x>>
    BY <1>5 DEF Fits, Option
  <2>2. /\ w[1] = x /\ x.low \in BOOLEAN
        /\ x.reg = "TXDATA" => x.val \in Byte
        /\ x.reg = "BAUDDIV" => x.val \in Divs
    BY <2>1, LineAssumption
  <2>3. wd.low = x.low /\ wd.val = x.val /\ <<wd>>[1] = wd /\ <<wd>> # << >>
    BY <2>2
  <2>4. w_eff(in) = <<wd>>
    <3>1. CASE w_q = << >>
      BY <1>2, <1>5, <2>3, <3>1 DEF w_eff, wready
    <3>2. CASE w_q # << >>
      BY <1>1, <1>2, <3>2 DEF w_eff
    <3> QED
      BY <3>1, <3>2
  <2>5. in.aw = <<x.reg>> /\ in.aw # << >>
    BY <1>2, <1>5, <2>2
  <2>6. awready(in) <=> ~(x.reg = "TXDATA" /\ ~tx_ready)
    BY <1>1, <1>5, <2>5 DEF awready
  <2>7. aw_eff(in) = IF x.reg = "TXDATA" /\ ~tx_ready THEN << >> ELSE <<x.reg>>
    BY <1>1, <2>5, <2>6 DEF aw_eff
  <2> HIDE DEF wd
  <2>8. do_write(in) <=> ~(x.reg = "TXDATA" /\ ~tx_ready)
    BY <1>5, <2>3, <2>4, <2>7 DEF do_write, tx_write_hold
  <2>9. \A reg : writes(in, reg) <=> do_write(in) /\ x.reg = reg /\ x.low
    BY <2>3, <2>4, <2>7, <2>8 DEF writes
  <2>10. w_eff(in)[1].val = x.val
    BY <2>3, <2>4
  <2>11. tx_push(in) <=> Pushes(w)
    BY <1>5, <2>2, <2>8, <2>9 DEF tx_push, Pushes
  <2>12. tx_push(in) => x.reg = "TXDATA"
    BY <2>9 DEF tx_push
  <2> QED
    BY <1>2, <1>5, <2>2, <2>4, <2>7, <2>8, <2>9, <2>10, <2>11, <2>12 DEF b_hs, wd
<1> QED
  BY <1>1, <1>3, <1>4, <1>5

\* The bus registers after an edge, and the divisor, which changes only while
\* both engines rest.
LEMMA BusEdge ==
  ASSUME UartTypes, NEW w, NEW in, Fits(w, in), WriteChannel(in),
         wr' = IF b_hs(in) THEN << >> ELSE w
  PROVE  /\ BusInv'
         /\ bvalid_q' = do_write(in)
         /\ ~(tx_idle /\ rx_idle) => div_q' = div_q
         /\ wr' = IF bvalid_q THEN << >> ELSE w
<1>1. /\ wr \in Option(WriteReqs) /\ bvalid_q \in BOOLEAN /\ aw_q = << >>
      /\ bvalid_q => wr # << >> /\ w_q = << >>
      /\ div_q \in Divs /\ div_pending_q \in Option(Divs)
      /\ w \in Option(WriteReqs)
  BY DEF UartTypes, BusInv, Fits
<1>2. /\ aw_q' = IF do_write(in) THEN << >> ELSE aw_eff(in)
      /\ w_q' = IF do_write(in) THEN << >> ELSE w_eff(in)
      /\ bvalid_q' = (do_write(in) \/ (bvalid_q /\ ~b_hs(in)))
      /\ div_pending_q' = next_div_pending(in)
      /\ div_q' = IF div_apply THEN div_pending_q[1] ELSE div_q
  BY DEF WriteChannel
<1>3. wr' = IF bvalid_q THEN << >> ELSE w
  BY WriteFacts
<1>4. do_write(in) \in BOOLEAN
  BY DEF do_write
<1>5. bvalid_q' = do_write(in)
  BY <1>1, <1>2, <1>4, WriteFacts
<1>6. wr' \in Option(WriteReqs) /\ bvalid_q' \in BOOLEAN
  BY <1>1, <1>3, <1>4, <1>5 DEF Option
<1>7. aw_q' = << >>
  BY <1>2, WriteFacts
<1>8. bvalid_q' => wr' # << >> /\ w_q' = << >>
  BY <1>2, <1>3, <1>5, WriteFacts
<1>9. w_q' # << >> => /\ wr' # << >> /\ wr'[1].reg = "TXDATA"
                      /\ w_q' = <<[low |-> wr'[1].low, val |-> wr'[1].val]>>
  BY <1>2, <1>3, WriteFacts
<1>10. div_q' \in Divs /\ div_pending_q' \in Option(Divs)
  <2>1. div_pending_q # << >> => div_pending_q[1] \in Divs
    BY <1>1 DEF Option
  <2>2. div_q' \in Divs
    BY <1>1, <1>2, <2>1 DEF div_apply
  <2>3. div_pending_q' \in Option(Divs)
    BY <1>1, <1>2, WriteFacts DEF next_div_pending, Option
  <2> QED
    BY <2>2, <2>3
<1>11. ~(tx_idle /\ rx_idle) => div_q' = div_q
  BY <1>2 DEF div_apply
<1> QED
  BY <1>3, <1>5, <1>6, <1>7, <1>8, <1>9, <1>10, <1>11 DEF BusInv

-----------------------------------------------------------------------------
(***************************************************************************)
(* The two FIFOs.                                                          *)
(***************************************************************************)
\* The bytes received and not read, and the flags of the receive FIFO.
LEMMA WaitingFacts ==
  ASSUME UartTypes, RxQueueExact
  PROVE  /\ waiting \in Seq(Byte) /\ Len(waiting) \in Nat /\ Len(waiting) <= RX_FIFO_DEPTH
         /\ rx_ready <=> waiting # << >>
         /\ rx_fifo_full <=> Len(waiting) = RX_FIFO_DEPTH
         /\ waiting # << >> => rx_fifo_head = Head(waiting)
<1>1. RX_FIFO_DEPTH \in Nat \ {0}
  BY UartAssumption
<1>2. RingOK(rx_fifo_q, rx_wptr_q, rx_rptr_q, RX_FIFO_DEPTH)
  BY DEF UartTypes, RingInv
<1>3. waiting = RingSeq(rx_fifo_q, rx_wptr_q, rx_rptr_q, RX_FIFO_DEPTH)
  BY DEF RxQueueExact, RxContents, RingSeq
<1> QED
  BY <1>1, <1>2, <1>3, RingFacts DEF rx_ready, rx_fifo_empty, rx_fifo_full, rx_fifo_head

\* The bytes waiting to be sent, and the flags of the transmit FIFO.
LEMMA SendFacts ==
  ASSUME UartTypes
  PROVE  /\ TxContents \in Seq(Byte) /\ Len(TxContents) \in Nat
         /\ tx_fifo_empty <=> TxContents = << >>
         /\ tx_fifo_full <=> Len(TxContents) = TX_FIFO_DEPTH
         /\ ~tx_fifo_empty => tx_fifo_head = Head(TxContents)
         /\ tx_fifo_head \in Byte
<1>1. TX_FIFO_DEPTH \in Nat \ {0}
  BY UartAssumption
<1>2. RingOK(tx_fifo_q, tx_wptr_q, tx_rptr_q, TX_FIFO_DEPTH)
  BY DEF UartTypes, RingInv
<1>3. tx_fifo_head \in Byte
  <2>1. tx_fifo_q \in [0..TX_FIFO_DEPTH-1 -> Byte] /\ tx_rptr_q \in 0..2*TX_FIFO_DEPTH-1
    BY <1>2 DEF RingOK
  <2>2. tx_rptr_q % TX_FIFO_DEPTH \in 0..TX_FIFO_DEPTH-1
    BY <1>1, <2>1, Z3
  <2> QED
    BY <2>1, <2>2 DEF tx_fifo_head
<1> QED
  BY <1>1, <1>2, <1>3, RingFacts DEF TxContents, tx_fifo_empty, tx_fifo_full, tx_fifo_head

\* The receive FIFO after an edge is the queue after the edge, and the
\* overrun flag remembers the loss.
LEMMA RxEdge ==
  ASSUME UartTypes, RxQueueExact, NEW w, NEW in, NEW sent, Fits(w, in), LineEdge(w, in, sent)
  PROVE  /\ RingOK(rx_fifo_q, rx_wptr_q, rx_rptr_q, RX_FIFO_DEPTH)'
         /\ lost' \in BOOLEAN
         /\ RxQueueExact'
         /\ waiting' = IF rx_frame_done /\ Room(in) THEN Append(Dequeued(in), rx.shift)
                       ELSE Dequeued(in)
         /\ Take(in) <=> rx_fifo_pop(in)
         /\ Room(in) <=> ~rx_fifo_full \/ Take(in)
<1> DEFINE push == rx_fifo_push(in)
           pop == rx_fifo_pop(in)
<1>1. /\ RX_FIFO_DEPTH \in Nat \ {0}
      /\ RingOK(rx_fifo_q, rx_wptr_q, rx_rptr_q, RX_FIFO_DEPTH)
      /\ rx.shift \in Byte /\ push \in BOOLEAN /\ pop \in BOOLEAN
  BY UartAssumption DEF UartTypes, RingInv, RxTypes, rx_fifo_push, rx_fifo_pop
<1>2. Receive(in) /\ in.rr = TRUE
  BY DEF LineEdge, Edge, Fits
<1>3. Take(in) <=> pop
  <2>1. rx_read(in) <=> in.ar = <<"RXDATA">> /\ arready(in)
    BY DEF rx_read, ar_hs
  <2> QED
    BY <2>1, WaitingFacts DEF Take, rx_fifo_pop
<1>4. Room(in) <=> ~rx_fifo_full \/ Take(in)
  BY UartAssumption, WaitingFacts DEF Room
<1>5. push <=> rx_frame_done /\ Room(in)
  BY <1>3, <1>4 DEF rx_fifo_push
<1>6. /\ pop => rx_wptr_q # rx_rptr_q
      /\ push => ~ring_full(rx_wptr_q, rx_rptr_q, RX_FIFO_DEPTH) \/ pop
  BY DEF rx_fifo_pop, rx_fifo_push, rx_ready, rx_fifo_empty, rx_fifo_full
<1>7. /\ rx_fifo_q' = IF push THEN [rx_fifo_q EXCEPT ![rx_wptr_q % RX_FIFO_DEPTH] = rx.shift]
                      ELSE rx_fifo_q
      /\ rx_wptr_q' = IF push THEN next_ptr(rx_wptr_q, RX_FIFO_DEPTH) ELSE rx_wptr_q
      /\ rx_rptr_q' = IF pop THEN next_ptr(rx_rptr_q, RX_FIFO_DEPTH) ELSE rx_rptr_q
      /\ rx_overrun_q' = (rx_overrun(in) \/ (rx_overrun_q /\ ~rx_read(in)))
  BY <1>2 DEF Receive
<1>8. /\ waiting' = IF rx_frame_done /\ Room(in) THEN Append(Dequeued(in), rx.shift)
                    ELSE Dequeued(in)
      /\ lost' = ((rx_frame_done /\ ~Room(in)) \/ (lost /\ ~rx_read(in)))
  BY DEF LineEdge
<1>9. rx_overrun_q' = lost' /\ lost' \in BOOLEAN
  <2>1. rx_overrun(in) <=> rx_frame_done /\ ~Room(in)
    BY <1>3, <1>4 DEF rx_overrun
  <2>2. rx_overrun_q = lost
    BY DEF RxQueueExact
  <2> QED
    BY <1>7, <1>8, <2>1, <2>2
<1> DEFINE q == RingSeq(rx_fifo_q, rx_wptr_q, rx_rptr_q, RX_FIFO_DEPTH)
<1>10. waiting = q
  BY DEF RxQueueExact, RxContents, RingSeq
<1> HIDE DEF push, pop
<1>11. /\ RingOK(rx_fifo_q', rx_wptr_q', rx_rptr_q', RX_FIFO_DEPTH)
       /\ RingSeq(rx_fifo_q', rx_wptr_q', rx_rptr_q', RX_FIFO_DEPTH)
            = IF push THEN Append(IF pop THEN Tail(q) ELSE q, rx.shift)
              ELSE IF pop THEN Tail(q) ELSE q
  BY <1>1, <1>6, <1>7, RingMoves
<1> HIDE DEF q
<1>12. RxContents' = waiting'
  <2>1. RxContents' = RingSeq(rx_fifo_q', rx_wptr_q', rx_rptr_q', RX_FIFO_DEPTH)
    BY DEF RxContents, RingSeq
  <2>2. Dequeued(in) = IF pop THEN Tail(q) ELSE q
    BY <1>3, <1>10 DEF Dequeued
  <2> QED
    BY <1>5, <1>8, <1>11, <2>1, <2>2
<1>13. RingOK(rx_fifo_q, rx_wptr_q, rx_rptr_q, RX_FIFO_DEPTH)'
  BY <1>11 DEF RingOK
<1> QED
  BY <1>3, <1>4, <1>8, <1>9, <1>12, <1>13 DEF RxQueueExact, pop

\* The transmit FIFO after an edge: the engine takes its head, the write at
\* hand joins at its end.
LEMMA TxEdge ==
  ASSUME UartTypes, NEW w, NEW in, Fits(w, in), Transmit(in)
  PROVE  /\ RingOK(tx_fifo_q, tx_wptr_q, tx_rptr_q, TX_FIFO_DEPTH)'
         /\ TxContents' = (IF tx_fifo_pop THEN Tail(TxContents) ELSE TxContents)
                            \o (IF Pushes(w) THEN <<w[1].val>> ELSE << >>)
<1> DEFINE push == tx_push(in)
           pop == tx_fifo_pop
           x == IF push THEN w[1].val ELSE ZeroByte
           q == TxContents
           rest == IF pop THEN Tail(q) ELSE q
<1>1. /\ TX_FIFO_DEPTH \in Nat \ {0}
      /\ RingOK(tx_fifo_q, tx_wptr_q, tx_rptr_q, TX_FIFO_DEPTH)
      /\ push \in BOOLEAN /\ pop \in BOOLEAN
  BY UartAssumption DEF UartTypes, RingInv, tx_push, writes, tx_fifo_pop
<1>2. x \in Byte
  BY WriteFacts DEF ZeroByte, Byte
<1>3. /\ pop => tx_wptr_q # tx_rptr_q
      /\ push => ~ring_full(tx_wptr_q, tx_rptr_q, TX_FIFO_DEPTH) \/ pop
  BY WriteFacts DEF tx_fifo_pop, tx_fifo_empty, Pushes, tx_ready, tx_fifo_full
<1>4. /\ tx_fifo_q' = IF push THEN [tx_fifo_q EXCEPT ![tx_wptr_q % TX_FIFO_DEPTH] = x]
                      ELSE tx_fifo_q
      /\ tx_wptr_q' = IF push THEN next_ptr(tx_wptr_q, TX_FIFO_DEPTH) ELSE tx_wptr_q
      /\ tx_rptr_q' = IF pop THEN next_ptr(tx_rptr_q, TX_FIFO_DEPTH) ELSE tx_rptr_q
  BY WriteFacts DEF Transmit
<1>5. push <=> Pushes(w)
  BY WriteFacts
<1>6. q = RingSeq(tx_fifo_q, tx_wptr_q, tx_rptr_q, TX_FIFO_DEPTH)
  BY DEF TxContents
<1>7. push => x = w[1].val
  OBVIOUS
<1> HIDE DEF push, pop, x, q
<1>8. /\ RingOK(tx_fifo_q', tx_wptr_q', tx_rptr_q', TX_FIFO_DEPTH)
      /\ RingSeq(tx_fifo_q', tx_wptr_q', tx_rptr_q', TX_FIFO_DEPTH)
           = IF push THEN Append(rest, x) ELSE rest
  BY <1>1, <1>2, <1>3, <1>4, <1>6, RingMoves
<1>9. rest \in Seq(Byte)
  <2>1. q \in Seq(Byte) /\ (q = << >> <=> tx_wptr_q = tx_rptr_q)
    BY <1>1, <1>6, RingFacts
  <2> QED
    BY <1>3, <2>1, HeadTailProperties
<1>10. rest \o << >> = rest /\ Append(rest, x) = rest \o <<x>>
  BY <1>2, <1>9, ConcatEmptySeq, AppendIsConcat
<1>11. TxContents' = RingSeq(tx_fifo_q', tx_wptr_q', tx_rptr_q', TX_FIFO_DEPTH)
  BY DEF TxContents, RingSeq
<1>12. RingOK(tx_fifo_q, tx_wptr_q, tx_rptr_q, TX_FIFO_DEPTH)'
  BY <1>8 DEF RingOK
<1> HIDE DEF rest
<1>13. TxContents' = rest \o (IF Pushes(w) THEN <<w[1].val>> ELSE << >>)
  BY <1>5, <1>7, <1>8, <1>10, <1>11
<1> QED
  BY <1>12, <1>13 DEF rest, pop, q

\* Every register keeps its type over an edge.
LEMMA TypesEdge ==
  ASSUME UartTypes, RxQueueExact, NEW w, NEW in, NEW sent, Fits(w, in), LineEdge(w, in, sent)
  PROVE  UartTypes'
<1>1. /\ WriteChannel(in) /\ Transmit(in) /\ Receive(in)
      /\ wr' = IF b_hs(in) THEN << >> ELSE w
  BY DEF LineEdge, Edge
<1>2. BusInv' /\ (~(tx_idle /\ rx_idle) => div_q' = div_q)
  BY <1>1, BusEdge
<1>3. RingInv'
  <2>1. RingOK(rx_fifo_q, rx_wptr_q, rx_rptr_q, RX_FIFO_DEPTH)' /\ lost' \in BOOLEAN
    BY RxEdge
  <2>2. RingOK(tx_fifo_q, tx_wptr_q, tx_rptr_q, TX_FIFO_DEPTH)'
    BY <1>1, TxEdge
  <2> QED
    BY <2>1, <2>2 DEF RingInv
<1>4. div_q \in Nat /\ div_q' \in Nat
  BY <1>2, UartAssumption DEF UartTypes, BusInv
<1>5. RxTypes'
  <2> DEFINE K == 0..NBITS-1
             l == in.rxd
  <2>1. l \in {0, 1} /\ rx' = next_rx(l) /\ RxTypes
    BY <1>1 DEF Fits, Receive, UartTypes
  <2> HIDE DEF l
  <2>2. rx' \in [state : States, shift : Byte, bit : K, cnt : 0..div_q]
    BY <1>4, <2>1, RxNext
  <2>3. /\ rx.state \in States /\ rx.cnt \in 0..div_q
        /\ rx.state = "IDLE" => rx.cnt = 0
        /\ rx.state = "START" => rx.cnt <= div_q \div 2
    BY <2>1 DEF RxTypes, rx_half_div
  <2>4. CASE rx.state = "IDLE"
    <3>0. rx'.cnt = 0
      BY <1>4, <2>1, <2>4, RxNext
    <3>1. rx'.cnt = 0 /\ 0 \in 0..div_q' /\ 0 <= div_q' \div 2
      <4> DEFINE d == div_q'
      <4>1. d \in Nat
        BY <1>4
      <4> HIDE DEF d
      <4>2. 0 \in 0..d /\ 0 <= d \div 2
        BY <4>1
      <4> QED
        BY <3>0, <4>2 DEF d
    <3>2. rx' \in [state : States, shift : Byte, bit : K, cnt : 0..div_q']
      <4> DEFINE C == 0..div_q
                 D == 0..div_q'
      <4>1. rx' \in [state : States, shift : Byte, bit : K, cnt : C] /\ rx'.cnt \in D
        BY <2>2, <3>1
      <4> HIDE DEF C, D, K
      <4>2. rx' \in [state : States, shift : Byte, bit : K, cnt : D]
        BY <4>1
      <4> QED
        BY <4>2 DEF D
    <3> QED
      BY <3>1, <3>2 DEF RxTypes, rx_half_div
  <2>5. CASE rx.state # "IDLE"
    <3>1. div_q' = div_q
      BY <1>2, <2>5 DEF rx_idle
    <3>2. rx'.state = "IDLE" => rx'.cnt = 0
      BY <1>4, <2>1, <2>3, <2>5, RxNext DEF States
    <3>3. rx'.state = "START" => rx'.cnt <= div_q \div 2
      BY <1>4, <2>1, <2>3, <2>5, RxNext DEF States
    <3> QED
      BY <2>2, <3>1, <3>2, <3>3 DEF RxTypes, rx_half_div
  <2> QED
    BY <2>4, <2>5
<1>6. TxTypes'
  <2> DEFINE K == 0..NBITS-1
             L == {0, 1}
  <2>1. TxTypes /\ tx' = next_tx /\ tx_fifo_head \in Byte
    BY <1>1, SendFacts DEF UartTypes, Transmit
  <2>2. tx' \in [state : States, shift : Byte, bit : K, cnt : 0..div_q, txd : L]
    BY <1>4, <2>1, TxNext
  <2>3. tx.state \in States /\ tx.cnt \in 0..div_q
    BY <2>1 DEF TxTypes
  <2>4. CASE tx.state = "IDLE"
    <3>1. tx.txd = 1
      BY <2>1, <2>4 DEF TxTypes, tx_idle
    <3>2. /\ tx'.cnt = 0 /\ 0 \in 0..div_q' /\ tx'.state \in {"IDLE", "START"}
          /\ tx'.state = "IDLE" => tx'.txd = 1
      BY <1>4, <2>1, <2>4, <3>1, TxNext
    <3>3. tx' \in [state : States, shift : Byte, bit : K, cnt : 0..div_q', txd : L]
      <4> DEFINE C == 0..div_q
                 D == 0..div_q'
      <4>1. /\ tx' \in [state : States, shift : Byte, bit : K, cnt : C, txd : L]
            /\ tx'.cnt \in D
        BY <2>2, <3>2
      <4> HIDE DEF C, D, K, L
      <4>2. tx' \in [state : States, shift : Byte, bit : K, cnt : D, txd : L]
        BY <4>1
      <4> QED
        BY <4>2 DEF D
    <3> QED
      BY <3>2, <3>3 DEF TxTypes, tx_idle
  <2>5. CASE tx.state # "IDLE"
    <3>1. div_q' = div_q
      BY <1>2, <2>5 DEF tx_idle
    <3>2. tx.state = "STOP" => tx.txd = 1
      BY <2>1 DEF TxTypes
    <3>3. tx'.state = "IDLE" => tx'.cnt = 0
      BY <1>4, <2>1, <2>3, <2>5, TxNext DEF States
    <3>4. tx'.state \in {"IDLE", "STOP"} => tx'.txd = 1
      BY <1>4, <2>1, <2>3, <2>5, <3>2, TxNext DEF States
    <3> QED
      BY <2>2, <3>1, <3>3, <3>4 DEF TxTypes, tx_idle
  <2> QED
    BY <2>4, <2>5
<1> QED
  BY <1>2, <1>3, <1>5, <1>6 DEF UartTypes

-----------------------------------------------------------------------------
(***************************************************************************)
(* The queue of received bytes, whatever the far end does.  This much does *)
(* not depend on the bit timing: a frame that ends holds some byte.        *)
(***************************************************************************)
\* The bus master and the looped line present what an edge expects.
LEMMA CycleFits ==
  ASSUME UartTypes, Cycle
  PROVE  \E w \in Option(WriteReqs) : \E in \in Inputs(w) :
           Fits(w, in) /\ LineEdge(w, in, Given(w))
<1>1. PICK w \in IF wr # << >> THEN {wr}
                 ELSE IF rd_q # << >> THEN {<< >>} ELSE Option(WriteReqs) :
        \E in \in Inputs(w) : LineEdge(w, in, Given(w))
  BY DEF Cycle
<1>2. PICK in \in Inputs(w) : LineEdge(w, in, Given(w))
  BY <1>1
<1>3. w \in Option(WriteReqs) /\ (wr # << >> => w = wr)
  BY <1>1 DEF UartTypes, BusInv, Option
<1>4. /\ in.aw = Offer(w, w[1].reg, aw_q # << >>)
      /\ in.w = Offer(w, [low |-> w[1].low, val |-> w[1].val], w_q # << >>)
      /\ in.br = TRUE /\ in.rr = TRUE
      /\ in.rxd \in {tx.txd} \cup {b \in {0} : tx_idle /\ rx_idle /\ tx_fifo_empty /\ w = << >>}
  BY <1>2 DEF Inputs
<1>5. in.rxd \in {0, 1}
  BY <1>4 DEF UartTypes, TxTypes
<1> QED
  BY <1>2, <1>3, <1>4, <1>5 DEF Fits

\* So does the driver, whose program only reads.
LEMMA PlayFits ==
  ASSUME wr = << >>, NEW level \in {0, 1}, NEW sent, PlayEdge(level, sent)
  PROVE  \E in : Fits(<< >>, in) /\ in.rxd = level /\ LineEdge(<< >>, in, sent)
<1>1. PICK r \in Option(Reads) :
        LineEdge(<< >>, [aw |-> << >>, w |-> << >>, ar |-> r, br |-> TRUE, rr |-> TRUE,
                         rxd |-> level], sent)
  BY DEF PlayEdge
<1> DEFINE in == [aw |-> << >>, w |-> << >>, ar |-> r, br |-> TRUE, rr |-> TRUE,
                  rxd |-> level]
<1>2. /\ in.aw = << >> /\ in.w = << >> /\ in.br = TRUE /\ in.rr = TRUE /\ in.rxd = level
  OBVIOUS
<1> HIDE DEF in
<1>3. Fits(<< >>, in)
  BY <1>2 DEF Fits, Offer, Option
<1> QED
  BY <1>1, <1>2, <1>3 DEF in

\* The line in a frame of the driver, and the frame a cycle later.
LEMMA DrvFacts ==
  ASSUME NEW d \in Drivers
  PROVE  /\ Level(d) = FrameLevel(d.bit, d.cur) /\ Level(d) \in {0, 1}
         /\ Shipped(d) \in Drivers /\ Shipped(d).cur = d.cur
         /\ d.cnt # BAUD_DIV_RESET =>
              /\ Shipped(d).cnt = d.cnt + 1 /\ Shipped(d).bit = d.bit
              /\ Shipped(d).active = d.active
         /\ d.cnt = BAUD_DIV_RESET /\ d.bit <= NBITS =>
              /\ Shipped(d).cnt = 0 /\ Shipped(d).bit = d.bit + 1
              /\ Shipped(d).active = d.active
         /\ d.cnt = BAUD_DIV_RESET /\ d.bit > NBITS => Shipped(d).active = FALSE
<1> DEFINE C == 0..BAUD_DIV_RESET
           R == [idx : Nat, active : BOOLEAN, cur : Byte, bit : Nat, cnt : C, gap : Nat]
<1>1. /\ NBITS \in Nat /\ NBITS > 1 /\ BAUD_DIV_RESET \in Nat /\ GAP_CYCLES \in Nat
      /\ d.cnt \in C /\ d.bit \in Nat /\ d.cur \in Byte
  BY UartAssumption, PlayAssumption DEF Drivers
<1>2. d \in R /\ 0 \in C /\ (d.cnt # BAUD_DIV_RESET => d.cnt + 1 \in C)
  BY <1>1 DEF Drivers
<1>3. Level(d) = FrameLevel(d.bit, d.cur)
  BY <1>1 DEF Level, FrameLevel
<1>4. FrameLevel(d.bit, d.cur) \in {0, 1}
  BY <1>1 DEF FrameLevel, Byte
<1>5. bit_cycles = BAUD_DIV_RESET + 1
  BY DEF bit_cycles
<1>6. CASE d.cnt # BAUD_DIV_RESET
  <2>1. Shipped(d) = [d EXCEPT !.cnt = @ + 1]
    BY <1>1, <1>5, <1>6 DEF Shipped
  <2> HIDE DEF C
  <2>2. [d EXCEPT !.cnt = @ + 1] \in R
    BY <1>2, <1>6
  <2> QED
    BY <1>2, <1>3, <1>4, <1>6, <2>1, <2>2 DEF Drivers, C
<1>7. CASE d.cnt = BAUD_DIV_RESET /\ d.bit <= NBITS
  <2>1. Shipped(d) = [d EXCEPT !.cnt = 0, !.bit = @ + 1]
    BY <1>1, <1>5, <1>7 DEF Shipped
  <2> HIDE DEF C
  <2>2. [d EXCEPT !.cnt = 0, !.bit = @ + 1] \in R
    <3>1. d.bit + 1 \in Nat
      BY <1>1
    <3> QED
      BY <1>2, <3>1
  <2>3. /\ Shipped(d).cnt = 0 /\ Shipped(d).bit = d.bit + 1 /\ Shipped(d).cur = d.cur
        /\ Shipped(d).active = d.active
    BY <1>2, <2>1
  <2>4. ~(d.bit > NBITS)
    BY <1>1, <1>7
  <2> QED
    BY <1>3, <1>4, <1>7, <2>1, <2>2, <2>3, <2>4 DEF Drivers, C
<1>8. CASE d.cnt = BAUD_DIV_RESET /\ d.bit > NBITS
  <2> DEFINE e == [d EXCEPT !.cnt = 0, !.bit = @ + 1, !.active = FALSE, !.gap = GAP_CYCLES]
  <2>1. Shipped(d) = e
    BY <1>1, <1>5, <1>8 DEF Shipped
  <2> HIDE DEF C
  <2>2. e \in R
    <3>1. d.bit + 1 \in Nat /\ GAP_CYCLES \in Nat /\ FALSE \in BOOLEAN
      BY <1>1
    <3> QED
      BY <1>2, <3>1
  <2>3. e.cur = d.cur /\ e.active = FALSE
    BY <1>2
  <2>4. ~(d.bit <= NBITS)
    BY <1>1, <1>8
  <2> HIDE DEF e
  <2> QED
    BY <1>3, <1>4, <1>8, <2>1, <2>2, <2>3, <2>4 DEF Drivers, C
<1>9. \/ d.cnt # BAUD_DIV_RESET
      \/ d.cnt = BAUD_DIV_RESET /\ d.bit <= NBITS
      \/ d.cnt = BAUD_DIV_RESET /\ d.bit > NBITS
  BY <1>1
<1> QED
  BY <1>6, <1>7, <1>8, <1>9, Zenon

\* The frame a driver begins.
Begun(b) == [drv EXCEPT !.idx = @ + 1, !.cur = b, !.active = TRUE, !.bit = 0, !.cnt = 0]

\* Its fields are in range, at the first cycle of the start bit.
LEMMA BegunFacts ==
  ASSUME drv \in Drivers, NEW b \in PlayBytes
  PROVE  /\ Begun(b) \in Drivers /\ b \in Byte
         /\ Begun(b).cur = b /\ Begun(b).active = TRUE
         /\ Begun(b).bit = 0 /\ Begun(b).cnt = 0
<1> DEFINE C == 0..BAUD_DIV_RESET
           R == [idx : Nat, active : BOOLEAN, cur : Byte, bit : Nat, cnt : C, gap : Nat]
<1>1. drv \in R /\ 0 \in C /\ b \in Byte
  BY UartAssumption, PlayAssumption DEF Drivers
<1> HIDE DEF C
<1>2. drv.idx + 1 \in Nat
  BY <1>1
<1>3. Begun(b) \in R
  BY <1>1, <1>2 DEF Begun
<1>4. /\ Begun(b).cur = b /\ Begun(b).active = TRUE
      /\ Begun(b).bit = 0 /\ Begun(b).cnt = 0
  BY <1>1 DEF Begun
<1> QED
  BY <1>1, <1>3, <1>4 DEF Drivers, C

\* Every step of the system is an edge of the UART, with the driver's fields
\* in range.
LEMMA PlayIsEdge ==
  ASSUME QueueInv, PlayNext
  PROVE  /\ \E w, in, sent : Fits(w, in) /\ LineEdge(w, in, sent) /\ (far # "loop" => w = << >>)
         /\ far' = far /\ drv' \in Drivers
<1>1. UartTypes /\ drv \in Drivers /\ far \in {"loop", "paced", "free"}
      /\ (far # "loop" => wr = << >>)
  BY DEF QueueInv
<1>2. CASE far = "loop" /\ Cycle /\ UNCHANGED <<far, drv>>
  BY <1>1, <1>2, CycleFits
<1>3. CASE Play
  <2>1. far # "loop" /\ wr = << >> /\ (Rest \/ StartFrame \/ Ship)
    BY <1>1, <1>3 DEF Play
  <2>2. ASSUME NEW level \in {0, 1}, NEW sent, PlayEdge(level, sent)
        PROVE  /\ \E w, in, s : Fits(w, in) /\ LineEdge(w, in, s) /\ (far # "loop" => w = << >>)
               /\ far' = far
    <3>1. far' = far
      BY <2>2 DEF PlayEdge
    <3> QED
      BY <2>1, <2>2, <3>1, PlayFits
  <2>3. CASE Rest
    <3>1. drv' \in Drivers
      <4> DEFINE g == IF drv.gap > 0 THEN drv.gap - 1 ELSE 0
                 C == 0..BAUD_DIV_RESET
                 R == [idx : Nat, active : BOOLEAN, cur : Byte, bit : Nat, cnt : C, gap : Nat]
      <4>1. drv' = [drv EXCEPT !.gap = g]
        BY <2>3 DEF Rest
      <4>2. drv \in R /\ g \in Nat
        BY <1>1 DEF Drivers
      <4> HIDE DEF g, C
      <4>3. drv' \in R
        BY <4>1, <4>2
      <4> QED
        BY <4>3 DEF Drivers, C
    <3>2. PlayEdge(1, << >>)
      BY <2>3 DEF Rest
    <3> QED
      BY <2>2, <3>1, <3>2
  <2>4. CASE StartFrame
    <3>1. PICK b \in PlayBytes : drv' = Shipped(Begun(b)) /\ PlayEdge(Level(Begun(b)), <<b>>)
      BY <2>4 DEF StartFrame, Begun
    <3>2. Level(Begun(b)) \in {0, 1} /\ Shipped(Begun(b)) \in Drivers
      BY <1>1, BegunFacts, DrvFacts
    <3> QED
      BY <2>2, <3>1, <3>2
  <2>5. CASE Ship
    <3>1. drv' = Shipped(drv) /\ PlayEdge(Level(drv), << >>)
      BY <2>5 DEF Ship
    <3>2. Level(drv) \in {0, 1} /\ Shipped(drv) \in Drivers
      BY <1>1, DrvFacts
    <3> QED
      BY <2>2, <3>1, <3>2
  <2> QED
    BY <2>1, <2>3, <2>4, <2>5
<1> QED
  BY <1>2, <1>3 DEF PlayNext

\* The queue is right after reset.
LEMMA QueueStarts ==
  ASSUME PlayInit
  PROVE  QueueInv
<1>1. /\ LineInit /\ UartInit /\ far \in {"loop", "paced", "free"}
      /\ drv = [idx |-> 0, active |-> FALSE, cur |-> ZeroByte, bit |-> 0, cnt |-> 0, gap |-> 0]
  BY DEF PlayInit, LineInit
<1>2. /\ NBITS \in Nat /\ NBITS > 1 /\ BAUD_DIV_RESET \in Nat /\ BAUD_DIV_RESET \in Divs
      /\ TX_FIFO_DEPTH \in Nat \ {0} /\ RX_FIFO_DEPTH \in Nat \ {0}
  BY UartAssumption
<1>3. ZeroByte \in Byte
  BY DEF ZeroByte, Byte
<1>4. RxTypes
  BY <1>1, <1>2, <1>3 DEF RxTypes, UartInit, States
<1>5. TxTypes
  BY <1>1, <1>2, <1>3 DEF TxTypes, UartInit, States, tx_idle
<1>6. BusInv
  BY <1>1, <1>2 DEF BusInv, LineInit, UartInit, Option
<1>7. \A D \in Nat \ {0} : RingOK([i \in 0..D-1 |-> ZeroByte], 0, 0, D)
  <2> TAKE D \in Nat \ {0}
  <2>1. (0 - 0) % (2 * D) = 0
    BY FillIs
  <2> QED
    BY <1>3, <2>1 DEF RingOK
<1>8. RingInv
  BY <1>1, <1>2, <1>7 DEF RingInv, LineInit, UartInit
<1>9. RxQueueExact
  <2>1. RingSeq(rx_fifo_q, rx_wptr_q, rx_rptr_q, RX_FIFO_DEPTH) = << >>
    BY <1>1, <1>2, <1>8, RingFacts DEF RingInv, UartInit
  <2> QED
    BY <1>1, <2>1 DEF RxQueueExact, RxContents, RingSeq, LineInit, UartInit
<1>10. drv \in Drivers
  BY <1>1, <1>2, <1>3 DEF Drivers
<1>11. wr = << >>
  BY <1>1 DEF LineInit
<1> QED
  BY <1>1, <1>4, <1>5, <1>6, <1>8, <1>9, <1>10, <1>11 DEF QueueInv, UartTypes

\* Every step keeps the queue right.
LEMMA QueueStep ==
  ASSUME QueueInv, [PlayNext]_playVars
  PROVE  QueueInv'
<1>1. CASE PlayNext
  <2>1. PICK w, in, sent :
          Fits(w, in) /\ LineEdge(w, in, sent) /\ (far # "loop" => w = << >>)
    BY <1>1, PlayIsEdge
  <2>2. far' = far /\ drv' \in Drivers
    BY <1>1, PlayIsEdge
  <2>3. UartTypes /\ RxQueueExact
    BY DEF QueueInv
  <2>4. UartTypes' /\ RxQueueExact'
    BY <2>1, <2>3, TypesEdge, RxEdge
  <2>5. far' # "loop" => wr' = << >>
    BY <2>1, <2>2 DEF LineEdge
  <2> QED
    BY <2>2, <2>4, <2>5 DEF QueueInv
<1>2. CASE UNCHANGED playVars
  BY <1>2 DEF QueueInv, playVars, lineVars, uartVars, busRegs, txRegs, rxRegs, history,
              UartTypes, RxTypes, TxTypes, BusInv, RingInv, RxQueueExact, RxContents,
              RingOK, tx_idle, rx_half_div
<1> QED
  BY <1>1, <1>2

\* The receive FIFO is the queue of the bytes received and not yet read, and
\* RX_OVERRUN reports exactly the loss of one, for every depth, every frame
\* format and every divisor, whatever is on the line (rx_fifo_push,
\* rx_fifo_pop, rx_overrun_q).
THEOREM ReceivedIsQueue == PlaySpec => []RxQueueExact
<1>1. PlayInit => QueueInv
  BY QueueStarts
<1>2. QueueInv /\ [PlayNext]_playVars => QueueInv'
  BY QueueStep
<1>3. QueueInv => RxQueueExact
  BY DEF QueueInv
<1> QED
  BY <1>1, <1>2, <1>3, PTL DEF PlaySpec

\* A byte leaves the receive FIFO only as the answer to an RXDATA read, and
\* that answer is the oldest byte of the queue (rdata_q, rx_fifo_pop).
THEOREM AnswerIsOldest == PlaySpec => ReadTakesOldest
<1> DEFINE Step == \/ waiting' = waiting
                   \/ waiting # << >> /\ rd_q' = <<[reg |-> "RXDATA", val |-> waiting[1]]>>
                   \/ \E b \in Byte : waiting' = Append(waiting, b)
<1>1. PlayInit => QueueInv
  BY QueueStarts
<1>2. QueueInv /\ [PlayNext]_playVars => QueueInv'
  BY QueueStep
<1>3. ASSUME QueueInv, PlayNext PROVE Step
  <2>1. PICK w, in, sent : Fits(w, in) /\ LineEdge(w, in, sent)
    BY <1>3, PlayIsEdge
  <2>2. UartTypes /\ RxQueueExact /\ rx.shift \in Byte
    BY <1>3 DEF QueueInv, UartTypes, RxTypes
  <2>3. waiting' = IF rx_frame_done /\ Room(in) THEN Append(Dequeued(in), rx.shift)
                   ELSE Dequeued(in)
    BY <2>1 DEF LineEdge
  <2>4. CASE Take(in)
    <3>1. /\ in.ar = <<"RXDATA">> /\ in.ar # << >> /\ in.ar[1] = "RXDATA"
          /\ arready(in) /\ waiting # << >>
      BY <2>4 DEF Take
    <3>2. rd_q' = <<[reg |-> "RXDATA", val |-> rdata_mux("RXDATA")]>>
      BY <2>1, <3>1 DEF LineEdge, Edge, ReadChannel, ar_hs
    <3>3. rdata_mux("RXDATA") = rx_fifo_head
      BY DEF rdata_mux
    <3>4. rx_fifo_head = waiting[1]
      BY <2>2, <3>1, WaitingFacts, HeadTailProperties
    <3> QED
      BY <3>1, <3>2, <3>3, <3>4
  <2>5. CASE ~Take(in)
    BY <2>2, <2>3, <2>5 DEF Dequeued
  <2> QED
    BY <2>4, <2>5
<1>4. QueueInv /\ [PlayNext]_playVars => [Step]_lineVars
  <2>1. UNCHANGED playVars => UNCHANGED lineVars
    BY DEF playVars
  <2> HIDE DEF Step
  <2> QED
    BY <1>3, <2>1
<1> QED
  BY <1>1, <1>2, <1>4, PTL DEF PlaySpec, ReadTakesOldest

-----------------------------------------------------------------------------
(***************************************************************************)
(* The driver's frames.                                                    *)
(***************************************************************************)
\* While the driver plays, nothing is written and nothing is sent.
LEMMA PlayRests ==
  ASSUME QueueInv, far # "loop", PlayInv, NEW in, NEW sent,
         Fits(<< >>, in), LineEdge(<< >>, in, sent)
  PROVE  /\ held' = 0 /\ div_q' = BAUD_DIV_RESET /\ div_pending_q' = << >>
         /\ tx_idle' /\ tx_fifo_empty'
<1>1. /\ UartTypes /\ TxTypes /\ wr = << >>
      /\ div_q = BAUD_DIV_RESET /\ div_pending_q = << >> /\ tx_idle /\ tx_fifo_empty
  BY DEF QueueInv, UartTypes, PlayInv
<1>2. ~do_write(in) /\ ~tx_push(in)
  BY <1>1, WriteFacts DEF Pushes
<1>3. div_q' = div_q /\ div_pending_q' = << >>
  BY <1>1, <1>2 DEF LineEdge, Edge, WriteChannel, div_apply, next_div_pending, writes
<1>4. ~tx_fifo_pop
  BY <1>1 DEF tx_fifo_pop
<1>5. tx_fifo_empty'
  BY <1>1, <1>2, <1>4 DEF LineEdge, Edge, Transmit, tx_fifo_empty
<1>6. tx_idle'
  <2>1. tx' = next_tx /\ tx_fifo_head \in Byte /\ div_q \in Nat
    BY <1>1, SendFacts, UartAssumption DEF LineEdge, Edge, Transmit
  <2> QED
    BY <1>1, <1>4, <2>1, TxNext DEF tx_idle
<1>7. held' = 0
  BY DEF LineEdge
<1> QED
  BY <1>1, <1>3, <1>5, <1>6, <1>7

\* A queue that is not full and takes no byte is not full after the edge.
LEMMA StaysRoomy ==
  ASSUME UartTypes, RxQueueExact, NEW w, NEW in, NEW sent, Fits(w, in), LineEdge(w, in, sent),
         ~rx_fifo_full, ~rx_frame_done
  PROVE  ~rx_fifo_full'
<1>1. /\ RX_FIFO_DEPTH \in Nat \ {0}
      /\ RingOK(rx_fifo_q', rx_wptr_q', rx_rptr_q', RX_FIFO_DEPTH)
  BY RxEdge, UartAssumption DEF RingOK
<1>2. waiting' = RingSeq(rx_fifo_q', rx_wptr_q', rx_rptr_q', RX_FIFO_DEPTH)
  BY RxEdge DEF RxQueueExact, RxContents, RingSeq
<1>3. rx_fifo_full' <=> Len(waiting') = RX_FIFO_DEPTH
  BY <1>1, <1>2, RingFacts DEF rx_fifo_full
<1>4. waiting' = Dequeued(in)
  BY RxEdge
<1>5. /\ waiting \in Seq(Byte) /\ Len(waiting) \in Nat /\ Len(waiting) < RX_FIFO_DEPTH
  BY <1>1, WaitingFacts
<1>6. CASE Take(in)
  <2>1. waiting # << >>
    BY <1>6 DEF Take
  <2>2. Len(Tail(waiting)) = Len(waiting) - 1
    BY <1>5, <2>1, HeadTailProperties
  <2> QED
    BY <1>1, <1>3, <1>4, <1>5, <1>6, <2>2 DEF Dequeued
<1>7. CASE ~Take(in)
  BY <1>1, <1>3, <1>4, <1>5, <1>7 DEF Dequeued
<1> QED
  BY <1>6, <1>7

\* One cycle of a frame d of the driver, just begun or under way: the byte is
\* owed until the receiver has it.
LEMMA DrvStep ==
  ASSUME 0 \notin Divs, QueueInv, far # "loop", PlayInv,
         NEW in, NEW sent, Fits(<< >>, in), LineEdge(<< >>, in, sent),
         NEW d \in Drivers, d.active = TRUE, d.bit <= NBITS + 1,
         InStep(rx, div_q, d.bit, d.cnt), Sampled(rx, d.cur),
         owed \o sent = IF rx_idle /\ d.bit # 0 THEN << >> ELSE <<d.cur>>,
         far = "paced" /\ ~(rx_idle /\ d.bit # 0) => ~rx_fifo_full,
         in.rxd = Level(d), drv' = Shipped(d), far' = far
  PROVE  PlayInv'
<1> DEFINE p == d.bit
           c == d.cnt
           b == d.cur
<1>1. /\ NBITS \in Nat /\ NBITS > 1 /\ div_q \in Nat \ {0} /\ div_q = BAUD_DIV_RESET
      /\ p \in 0..NBITS+1 /\ c \in 0..div_q /\ b \in Byte
  BY UartAssumption DEF PlayInv, Drivers
<1>2. UartTypes /\ RxTypes /\ RxQueueExact /\ drv \in Drivers
  BY DEF QueueInv, UartTypes
<1>3. rx' = next_rx(FrameLevel(p, b))
  BY DrvFacts DEF LineEdge, Edge, Receive
<1>4. InStep(rx, div_q, p, c) /\ Sampled(rx, b)
  OBVIOUS
<1>5. /\ drv'.cur = b
      /\ c # div_q => drv'.cnt = c + 1 /\ drv'.bit = p /\ drv'.active = TRUE
      /\ c = div_q /\ p <= NBITS => drv'.cnt = 0 /\ drv'.bit = p + 1 /\ drv'.active = TRUE
      /\ c = div_q /\ p > NBITS => drv'.active = FALSE
  BY <1>1, DrvFacts
<1> HIDE DEF p, c, b
<1>6. /\ c < div_q => InStep(rx', div_q, p, c + 1)
      /\ c = div_q /\ p < NBITS + 1 => InStep(rx', div_q, p + 1, 0)
      /\ c = div_q /\ p = NBITS + 1 => rx'.state = "IDLE"
      /\ Sampled(rx', b)
      /\ rx_frame_done => p = NBITS + 1 /\ rx.shift = b
      /\ ~rx_idle /\ rx'.state = "IDLE" => rx_frame_done
      /\ rx.state = "IDLE" /\ p = NBITS + 1 => rx'.state = "IDLE"
      /\ rx.state = "IDLE" /\ p = 0 => rx'.state = "START" /\ rx'.cnt = 0
  BY <1>1, <1>2, <1>3, <1>4, FrameStep
<1>7. rx_frame_done => rx'.state = "IDLE" /\ rx.state = "STOP"
  <2> DEFINE l == FrameLevel(p, b)
  <2>1. l \in {0, 1} /\ rx' = next_rx(l)
    BY <1>1, <1>3 DEF FrameLevel, Byte
  <2> HIDE DEF l
  <2> QED
    BY <1>1, <1>2, <2>1, RxNext DEF rx_frame_done, rx_sample
<1>8. rx.state = "IDLE" => p = 0 \/ p = NBITS + 1
  BY <1>4 DEF InStep
<1>9. rx'.state = "IDLE" <=> rx_frame_done \/ (rx_idle /\ p # 0)
  BY <1>1, <1>6, <1>7, <1>8 DEF rx_idle
<1>10. drv'.active = TRUE =>
         /\ drv'.bit <= NBITS + 1
         /\ InStep(rx', div_q, drv'.bit, drv'.cnt)
         /\ rx'.state = "IDLE" => drv'.bit = NBITS + 1
  <2>1. CASE c # div_q
    <3>1. rx'.state = "IDLE" => p = NBITS + 1
      BY <1>6, <1>8, <1>9 DEF rx_idle
    <3> QED
      BY <1>1, <1>5, <1>6, <2>1, <3>1
  <2>2. CASE c = div_q /\ p <= NBITS
    <3>1. rx'.state # "IDLE"
      BY <1>1, <1>6, <1>8, <1>9, <2>2 DEF rx_idle
    <3> QED
      BY <1>1, <1>5, <1>6, <2>2, <3>1
  <2>3. CASE c = div_q /\ p > NBITS
    BY <1>5, <2>3
  <2>4. c # div_q \/ (c = div_q /\ p <= NBITS) \/ (c = div_q /\ p > NBITS)
    BY <1>1
  <2> QED
    BY <2>1, <2>2, <2>3, <2>4, Zenon
<1>11. drv'.active # TRUE => rx'.state = "IDLE"
  <2>1. c # div_q \/ (c = div_q /\ p <= NBITS) \/ (c = div_q /\ p = NBITS + 1)
    BY <1>1
  <2> QED
    BY <1>5, <1>6, <2>1, Zenon
<1>12. owed' = IF rx'.state = "IDLE" THEN << >> ELSE <<b>>
  <2>1. owed' = IF rx_frame_done /\ owed \o sent # << >> THEN Tail(owed \o sent) ELSE owed \o sent
    BY DEF LineEdge
  <2>2. owed \o sent = IF rx_idle /\ p # 0 THEN << >> ELSE <<b>>
    BY DEF p, b
  <2>3. Tail(<<b>>) = << >> /\ <<b>> # << >>
    OBVIOUS
  <2>4. CASE rx_frame_done
    BY <1>7, <2>1, <2>2, <2>3, <2>4 DEF rx_idle
  <2>5. CASE ~rx_frame_done
    BY <1>9, <2>1, <2>2, <2>5
  <2> QED
    BY <2>4, <2>5
<1>13. ASSUME far = "paced"
       PROVE  ~lost' /\ (rx'.state # "IDLE" => ~rx_fifo_full')
  <2>1. ~(rx_idle /\ p # 0) => ~rx_fifo_full
    BY <1>13 DEF p
  <2>2. ~lost
    BY <1>13 DEF PlayInv
  <2>3. lost' = ((rx_frame_done /\ ~Room(in)) \/ (lost /\ ~rx_read(in)))
    BY DEF LineEdge
  <2>4. Room(in) <=> ~rx_fifo_full \/ Take(in)
    BY <1>2, RxEdge
  <2>5. rx_frame_done => ~rx_idle
    BY <1>7 DEF rx_idle
  <2>6. ~lost'
    BY <2>1, <2>2, <2>3, <2>4, <2>5
  <2>7. ASSUME rx'.state # "IDLE" PROVE ~rx_fifo_full'
    BY <1>2, <1>9, <2>1, <2>7, StaysRoomy
  <2> QED
    BY <2>6, <2>7
<1>14. /\ held' = 0 /\ div_q' = BAUD_DIV_RESET /\ div_pending_q' = << >>
       /\ tx_idle' /\ tx_fifo_empty'
  BY PlayRests
<1>15. div_q' = div_q /\ (rx_idle' <=> rx'.state = "IDLE") /\ drv'.active \in BOOLEAN
  BY <1>1, <1>14, DrvFacts DEF rx_idle, Drivers
<1>16. Sampled(rx', drv'.cur)
  BY <1>5, <1>6
<1> QED
  BY <1>5, <1>10, <1>11, <1>12, <1>13, <1>14, <1>15, <1>16 DEF PlayInv

\* Every step of the driver keeps its frames in order.
LEMMA PlayStep ==
  ASSUME 0 \notin Divs, QueueInv, far # "loop", PlayInv, Play
  PROVE  PlayInv'
<1>1. /\ UartTypes /\ RxTypes /\ RxQueueExact /\ drv \in Drivers /\ wr = << >>
      /\ rx.state \in States /\ div_q \in Nat
      /\ drv.active \in BOOLEAN /\ drv.cur \in Byte
  BY UartAssumption DEF QueueInv, UartTypes, RxTypes, Drivers, BusInv
<1>2. CASE Rest
  <2>1. ~drv.active /\ drv' = [drv EXCEPT !.gap = IF @ > 0 THEN @ - 1 ELSE 0] /\ PlayEdge(1, << >>)
    BY <1>2 DEF Rest
  <2>2. PICK in : Fits(<< >>, in) /\ in.rxd = 1 /\ LineEdge(<< >>, in, << >>)
    BY <1>1, <2>1, PlayFits
  <2>3. far' = far /\ drv'.active = drv.active
    BY <1>1, <2>1 DEF PlayEdge, Drivers
  <2>4. rx_idle /\ rx.state = "IDLE" /\ owed = << >>
    BY <2>1 DEF PlayInv, rx_idle
  <2>5. rx' = next_rx(1)
    BY <2>2 DEF LineEdge, Edge, Receive
  <2>6. rx'.state = "IDLE"
    BY <1>1, <2>4, <2>5, RxNext
  <2>7. ~rx_frame_done
    BY <2>4 DEF rx_frame_done
  <2>8. owed' = << >>
    BY <2>2, <2>4, <2>7 DEF LineEdge
  <2>9. far = "paced" => ~lost'
    BY <2>2, <2>7 DEF LineEdge, PlayInv
  <2>10. /\ held' = 0 /\ div_q' = BAUD_DIV_RESET /\ div_pending_q' = << >>
         /\ tx_idle' /\ tx_fifo_empty'
    BY <2>2, PlayRests
  <2> QED
    BY <2>1, <2>3, <2>6, <2>8, <2>9, <2>10 DEF PlayInv, rx_idle
<1>3. CASE StartFrame
  <2>1. PICK b \in PlayBytes : drv' = Shipped(Begun(b)) /\ PlayEdge(Level(Begun(b)), <<b>>)
    BY <1>3 DEF StartFrame, Begun
  <2> DEFINE d == Begun(b)
  <2>2. d \in Drivers /\ d.cur = b /\ d.active = TRUE /\ d.bit = 0 /\ d.cnt = 0 /\ b \in Byte
    BY <1>1, BegunFacts
  <2>3. ~drv.active /\ ~blocked
    BY <1>3 DEF StartFrame, MayStart
  <2>4. rx_idle /\ owed = << >>
    BY <2>3 DEF PlayInv
  <2>5. drv' = Shipped(d) /\ PlayEdge(Level(d), <<b>>)
    BY <2>1
  <2> HIDE DEF d
  <2>6. Level(d) \in {0, 1}
    BY <2>2, DrvFacts
  <2>7. PICK in : Fits(<< >>, in) /\ in.rxd = Level(d) /\ LineEdge(<< >>, in, <<b>>)
    BY <1>1, <2>5, <2>6, PlayFits
  <2>8. InStep(rx, div_q, d.bit, d.cnt) /\ Sampled(rx, d.cur)
    BY <2>2, <2>4 DEF InStep, Sampled, rx_idle
  <2>9. owed \o <<b>> = IF rx_idle /\ d.bit # 0 THEN << >> ELSE <<d.cur>>
    BY <2>2, <2>4
  <2>10. far = "paced" => ~rx_fifo_full
    BY <2>3 DEF blocked
  <2>11. far' = far /\ d.bit <= NBITS + 1
    BY <2>2, <2>5, UartAssumption DEF PlayEdge
  <2> QED
    BY <2>2, <2>5, <2>7, <2>8, <2>9, <2>10, <2>11, DrvStep
<1>4. CASE Ship
  <2>1. drv.active /\ drv' = Shipped(drv) /\ PlayEdge(Level(drv), << >>)
    BY <1>4 DEF Ship
  <2>2. Level(drv) \in {0, 1}
    BY <1>1, DrvFacts
  <2>3. PICK in : Fits(<< >>, in) /\ in.rxd = Level(drv) /\ LineEdge(<< >>, in, << >>)
    BY <1>1, <2>1, <2>2, PlayFits
  <2>4. /\ drv.bit <= NBITS + 1
        /\ InStep(rx, div_q, drv.bit, drv.cnt) /\ Sampled(rx, drv.cur)
        /\ rx_idle => drv.bit = NBITS + 1
    BY <2>1 DEF PlayInv
  <2>5. rx_idle /\ drv.bit # 0 <=> rx_idle
    BY <2>4, UartAssumption
  <2>6. owed = IF rx_idle THEN << >> ELSE <<drv.cur>>
    BY DEF PlayInv
  <2>7. owed \o << >> = IF rx_idle /\ drv.bit # 0 THEN << >> ELSE <<drv.cur>>
    BY <1>1, <2>5, <2>6
  <2>8. far = "paced" /\ ~(rx_idle /\ drv.bit # 0) => ~rx_fifo_full
    BY <2>5 DEF PlayInv
  <2>9. far' = far /\ drv.active = TRUE
    BY <1>1, <2>1 DEF PlayEdge
  <2> QED
    BY <1>1, <2>1, <2>3, <2>4, <2>7, <2>8, <2>9, DrvStep
<1> QED
  BY <1>2, <1>3, <1>4 DEF Play

-----------------------------------------------------------------------------
(***************************************************************************)
(* The looped line.                                                        *)
(***************************************************************************)
\* A busy transmitter goes through the bits of its frame in order, div_q + 1
\* cycles each.
LEMMA TxPhases ==
  ASSUME TxTypes, div_q \in Nat, tx_fifo_head \in Byte, tx' = next_tx, ~tx_idle
  PROVE  /\ TxPhase \in 0..NBITS+1 /\ tx.cnt \in 0..div_q
         /\ TxPhase = 0 <=> tx.state = "START"
         /\ TxPhase = NBITS + 1 <=> tx.state = "STOP"
         /\ tx.cnt < div_q =>
              ~tx_idle' /\ tx'.state = tx.state /\ TxPhase' = TxPhase /\ tx'.cnt = tx.cnt + 1
         /\ tx.cnt = div_q /\ TxPhase < NBITS + 1 =>
              ~tx_idle' /\ TxPhase' = TxPhase + 1 /\ tx'.cnt = 0
         /\ tx.cnt = div_q /\ TxPhase = NBITS + 1 => tx_idle'
<1>1. /\ NBITS \in Nat /\ NBITS > 1 /\ tx.bit \in 0..NBITS-1 /\ tx.cnt \in 0..div_q
      /\ tx.state \in {"START", "DATA", "STOP"} /\ tx.state # "IDLE"
  BY UartAssumption DEF TxTypes, States, tx_idle
<1>2. /\ tx.state = "START" => TxPhase = 0
      /\ tx.state = "DATA" => TxPhase = tx.bit + 1
      /\ tx.state = "STOP" => TxPhase = NBITS + 1
  BY DEF TxPhase
<1>3. /\ tx'.state = "START" => TxPhase' = 0
      /\ tx'.state = "DATA" => TxPhase' = tx'.bit + 1
      /\ tx'.state = "STOP" => TxPhase' = NBITS + 1
  BY DEF TxPhase
<1>4. tx_idle' <=> tx'.state = "IDLE"
  BY DEF tx_idle
<1>5. /\ TxPhase \in 0..NBITS+1
      /\ TxPhase = 0 <=> tx.state = "START"
      /\ TxPhase = NBITS + 1 <=> tx.state = "STOP"
  BY <1>1, <1>2
<1>6. CASE tx.cnt < div_q
  <2>1. /\ tx'.state = tx.state /\ tx'.cnt = tx.cnt + 1 /\ tx'.bit = tx.bit
    BY <1>1, <1>6, TxNext
  <2>2. TxPhase' = TxPhase
    BY <1>1, <1>2, <1>3, <2>1
  <2>3. tx.cnt # div_q
    BY <1>1, <1>6
  <2> QED
    BY <1>1, <1>4, <1>5, <2>1, <2>2, <2>3
<1>7. CASE tx.cnt = div_q
  <2>0. ~(tx.cnt < div_q)
    BY <1>7
  <2>1. CASE tx.state = "START"
    <3>1. tx'.state = "DATA" /\ tx'.cnt = 0 /\ tx'.bit = 0
      BY <1>7, <2>1, TxNext
    <3> QED
      BY <1>1, <1>2, <1>3, <1>4, <1>5, <1>7, <2>0, <2>1, <3>1
  <2>2. CASE tx.state = "DATA" /\ tx.bit = NBITS - 1
    <3>1. tx'.state = "STOP" /\ tx'.cnt = 0
      BY <1>7, <2>2, TxNext
    <3> QED
      BY <1>1, <1>2, <1>3, <1>4, <1>5, <1>7, <2>0, <2>2, <3>1
  <2>3. CASE tx.state = "DATA" /\ tx.bit # NBITS - 1
    <3>1. tx'.state = "DATA" /\ tx'.cnt = 0 /\ tx'.bit = tx.bit + 1
      BY <1>7, <2>3, TxNext
    <3> QED
      BY <1>1, <1>2, <1>3, <1>4, <1>5, <1>7, <2>0, <2>3, <3>1
  <2>4. CASE tx.state = "STOP"
    <3>1. tx'.state = "IDLE"
      BY <1>7, <2>4, TxNext
    <3> QED
      BY <1>1, <1>2, <1>4, <1>5, <1>7, <2>0, <2>4, <3>1
  <2> QED
    BY <1>1, <2>1, <2>2, <2>3, <2>4
<1> QED
  BY <1>1, <1>6, <1>7

\* The line shows the bits of the frame of b, and goes on to do so.
LEMMA TxSends ==
  ASSUME TxTypes, div_q \in Nat, tx_fifo_head \in Byte, tx' = next_tx, ~tx_idle,
         NEW b \in Byte, TxShows(b)
  PROVE  /\ tx.txd = FrameLevel(TxPhase, b)
         /\ TxShows(b)'
<1>1. /\ NBITS \in Nat /\ NBITS > 1 /\ tx.bit \in 0..NBITS-1 /\ tx.cnt \in 0..div_q
      /\ tx.state \in {"START", "DATA", "STOP"} /\ tx.shift \in Byte
      /\ tx.state = "STOP" => tx.txd = 1
  BY UartAssumption DEF TxTypes, States, tx_idle
<1>2. tx.txd = FrameLevel(TxPhase, b)
  <2>1. CASE tx.state = "START"
    BY <2>1 DEF TxPhase, FrameLevel, TxShows
  <2>2. CASE tx.state = "DATA"
    <3>1. TxPhase = tx.bit + 1 /\ tx.bit + 1 \in 1..NBITS
      BY <1>1, <2>2 DEF TxPhase
    <3> QED
      BY <1>1, <2>2, <3>1 DEF FrameLevel, TxShows
  <2>3. CASE tx.state = "STOP"
    BY <1>1, <2>3 DEF TxPhase, FrameLevel
  <2> QED
    BY <1>1, <2>1, <2>2, <2>3
<1>3. CASE tx.cnt # div_q
  <2>1. /\ tx'.state = tx.state /\ tx'.txd = tx.txd
        /\ tx'.bit = tx.bit /\ tx'.shift = tx.shift
    BY <1>1, <1>3, TxNext
  <2>2. TxShows(b)'
    BY <2>1 DEF TxShows
  <2> QED
    BY <1>2, <2>2
<1>4. CASE tx.cnt = div_q /\ tx.state = "START"
  <2>1. /\ tx'.state = "DATA" /\ tx'.bit = 0 /\ tx'.txd = tx.shift[1] /\ tx'.shift = tx.shift
    BY <1>4, TxNext
  <2>2. tx.shift = b
    BY <1>4 DEF TxShows
  <2>3. \A i \in 1..NBITS-0 : b[i] = b[0 + i]
    <3> TAKE i \in 1..NBITS-0
    <3>1. 0 + i = i
      BY <1>1
    <3> QED
      BY <3>1
  <2>4. b[1] = b[0 + 1]
    OBVIOUS
  <2>5. TxShows(b)'
    BY <2>1, <2>2, <2>3, <2>4 DEF TxShows
  <2> QED
    BY <1>2, <2>5
<1>5. CASE tx.cnt = div_q /\ tx.state = "DATA" /\ tx.bit = NBITS - 1
  <2>1. tx'.state = "STOP"
    BY <1>5, TxNext
  <2>2. TxShows(b)'
    BY <2>1 DEF TxShows
  <2> QED
    BY <1>2, <2>2
<1>6. CASE tx.cnt = div_q /\ tx.state = "DATA" /\ tx.bit # NBITS - 1
  <2> DEFINE k == tx.bit
             t == Append(Tail(tx.shift), 0)
  <2>1. /\ tx'.state = "DATA" /\ tx'.bit = k + 1
        /\ tx'.txd = tx.shift[2] /\ tx'.shift = t
    BY <1>6, TxNext
  <2>2. \A i \in 1..NBITS-1 : t[i] = tx.shift[i + 1]
    BY <1>1, Shifted
  <2>3. \A i \in 1..NBITS-k : tx.shift[i] = b[k + i]
    BY <1>6 DEF TxShows
  <2>4. k \in 0..NBITS-2
    BY <1>1, <1>6
  <2> HIDE DEF k, t
  <2>5. tx.shift[2] = b[(k + 1) + 1]
    <3>1. 2 \in 1..NBITS-k /\ k + 2 = (k + 1) + 1
      BY <1>1, <2>4
    <3> QED
      BY <2>3, <3>1
  <2>6. \A i \in 1..NBITS-(k + 1) : t[i] = b[(k + 1) + i]
    <3> TAKE i \in 1..NBITS-(k + 1)
    <3>1. i \in 1..NBITS-1 /\ i + 1 \in 1..NBITS-k /\ k + (i + 1) = (k + 1) + i
      BY <1>1, <2>4
    <3> QED
      BY <2>2, <2>3, <3>1
  <2>7. TxShows(b)'
    BY <2>1, <2>5, <2>6 DEF TxShows
  <2> QED
    BY <1>2, <2>7
<1>7. CASE tx.cnt = div_q /\ tx.state = "STOP"
  <2>1. tx'.state = "IDLE"
    BY <1>7, TxNext
  <2>2. TxShows(b)'
    BY <2>1 DEF TxShows
  <2> QED
    BY <1>2, <2>2
<1> QED
  BY <1>1, <1>3, <1>4, <1>5, <1>6, <1>7

\* The byte that the write w has still to push.
Hand(w) ==
  IF w # << >> /\ ~bvalid_q /\ w[1].reg = "TXDATA" /\ w[1].low
  THEN <<w[1].val>> ELSE << >>

\* Bytes in a row, grouped either way.
LEMMA Grouped ==
  ASSUME NEW s \in Seq(Byte), NEW t \in Seq(Byte), NEW u \in Seq(Byte)
  PROVE  (s \o t) \o u = s \o (t \o u)
BY ConcatAssociative

\* No byte is lost between the master, the transmit FIFO and the engine: with
\* the byte of a new write, those that were owed are the one in the air, the
\* one the engine takes up, and those in the FIFO and in hand after the edge.
LEMMA BytesMove ==
  ASSUME QueueInv, LoopInv, NEW w, NEW in, Fits(w, in), LineEdge(w, in, Given(w))
  PROVE  /\ (TxContents \o InHand)' \in Seq(Byte)
         /\ owed \o Given(w) =
              (IF Flying THEN <<owed[1]>> ELSE << >>)
                \o ((IF tx_fifo_pop THEN <<tx_fifo_head>> ELSE << >>) \o (TxContents \o InHand)')
<1> DEFINE Air == IF Flying THEN <<owed[1]>> ELSE << >>
           Popped == IF tx_fifo_pop THEN <<tx_fifo_head>> ELSE << >>
           Rem == IF tx_fifo_pop THEN Tail(TxContents) ELSE TxContents
           Pushed == IF Pushes(w) THEN <<w[1].val>> ELSE << >>
           T == TxContents
           T2 == TxContents'
           H == InHand
           H2 == InHand'
           G == Given(w)
           W == Hand(w)
<1>1. /\ UartTypes /\ wr \in Option(WriteReqs) /\ w \in Option(WriteReqs)
      /\ bvalid_q \in BOOLEAN /\ (bvalid_q => wr # << >>) /\ (wr # << >> => w = wr)
  BY DEF QueueInv, UartTypes, BusInv, Fits
<1>2. w # << >> => w[1] \in WriteReqs /\ (w[1].reg = "TXDATA" => w[1].val \in Byte)
  BY <1>1, LineAssumption DEF Option
<1>3. G \in Seq(Byte) /\ W \in Seq(Byte) /\ Pushed \in Seq(Byte)
  BY <1>2 DEF Given, Hand, Pushes
<1>4. H \in Seq(Byte) /\ H \o G = W
  <2>1. CASE wr = << >>
    <3>1. H = << >> /\ G = W
      BY <1>1, <2>1 DEF InHand, Given, Hand
    <3> QED
      BY <1>3, <3>1, ConcatEmptySeq
  <2>2. CASE wr # << >>
    <3>1. H = W /\ G = << >>
      BY <1>1, <2>2 DEF InHand, Given, Hand
    <3> QED
      BY <1>3, <3>1, ConcatEmptySeq
  <2> QED
    BY <2>1, <2>2
<1>5. /\ bvalid_q' = do_write(in)
      /\ wr' = IF bvalid_q THEN << >> ELSE w
  BY <1>1, BusEdge DEF LineEdge, Edge
<1>6. do_write(in) <=> w # << >> /\ ~bvalid_q /\ (w[1].reg = "TXDATA" => tx_ready)
  BY <1>1, WriteFacts
<1>7. /\ bvalid_q' <=> do_write(in)
      /\ H2 = IF wr' # << >> /\ ~bvalid_q' /\ wr'[1].reg = "TXDATA" /\ wr'[1].low
              THEN <<wr'[1].val>> ELSE << >>
  BY <1>5 DEF InHand
<1>8. H2 \in Seq(Byte) /\ W = Pushed \o H2
  <2>1. CASE Pushes(w)
    <3>1. w # << >> /\ ~bvalid_q /\ w[1].reg = "TXDATA" /\ w[1].low /\ tx_ready
      BY <2>1 DEF Pushes
    <3>2. H2 = << >>
      BY <1>6, <1>7, <3>1
    <3>3. W = Pushed
      BY <2>1, <3>1 DEF Hand
    <3> QED
      BY <1>3, <3>2, <3>3, ConcatEmptySeq
  <2>2. CASE ~Pushes(w)
    <3>1. Pushed = << >>
      BY <2>2
    <3>2. CASE w # << >> /\ ~bvalid_q /\ w[1].reg = "TXDATA" /\ w[1].low
      <4>1. ~tx_ready
        BY <2>2, <3>2 DEF Pushes
      <4>2. wr' = w /\ ~bvalid_q'
        BY <1>5, <1>6, <1>7, <3>2, <4>1
      <4>3. H2 = W
        BY <1>7, <3>2, <4>2 DEF Hand
      <4> QED
        BY <1>3, <3>1, <4>3, ConcatEmptySeq
    <3>3. CASE ~(w # << >> /\ ~bvalid_q /\ w[1].reg = "TXDATA" /\ w[1].low)
      <4>1. W = << >>
        BY <3>3 DEF Hand
      <4>2. H2 = << >>
        BY <1>5, <1>7, <3>3
      <4> QED
        BY <1>3, <3>1, <4>1, <4>2, ConcatEmptySeq
    <3> QED
      BY <3>2, <3>3
  <2> QED
    BY <2>1, <2>2
<1>9. T2 = Rem \o Pushed
  BY <1>1, TxEdge DEF LineEdge, Edge
<1>10. /\ T \in Seq(Byte) /\ Rem \in Seq(Byte) /\ Popped \in Seq(Byte) /\ T = Popped \o Rem
  <2>1. /\ TxContents \in Seq(Byte) /\ tx_fifo_head \in Byte
        /\ ~tx_fifo_empty => TxContents # << >> /\ tx_fifo_head = Head(TxContents)
    BY <1>1, SendFacts
  <2>2. CASE tx_fifo_pop
    <3>1. TxContents # << >> /\ tx_fifo_head = Head(TxContents)
      BY <2>1, <2>2 DEF tx_fifo_pop
    <3>2. TxContents = <<Head(TxContents)>> \o Tail(TxContents) /\ Tail(TxContents) \in Seq(Byte)
      BY <2>1, <3>1, HeadTailProperties
    <3> QED
      BY <2>1, <2>2, <3>1, <3>2
  <2>3. CASE ~tx_fifo_pop
    BY <2>1, <2>3, ConcatEmptySeq
  <2> QED
    BY <2>2, <2>3
<1>11. owed = Air \o (T \o H) /\ Air \in Seq(Byte)
  <2>1. owed \in Seq(Byte) /\ owed = Air \o (T \o H) /\ (Flying => owed # << >>)
    BY DEF LoopInv
  <2>2. Flying => owed[1] \in Byte
    BY <2>1, EmptySeq, ElementOfSeq
  <2> QED
    BY <2>1, <2>2
<1> HIDE DEF Air, Popped, Rem, Pushed, T, T2, H, H2, G, W
<1>12. T2 \o H2 \in Seq(Byte) /\ T2 \in Seq(Byte)
  BY <1>3, <1>8, <1>9, <1>10, ConcatProperties
<1>13. owed \o G = Air \o (T \o W)
  <2>0. /\ Air \in Seq(Byte) /\ T \in Seq(Byte) /\ H \in Seq(Byte) /\ G \in Seq(Byte)
    BY <1>3, <1>4, <1>10, <1>11
  <2>1. T \o H \in Seq(Byte)
    BY <2>0, ConcatProperties
  <2>2. (Air \o (T \o H)) \o G = Air \o ((T \o H) \o G)
    BY <2>0, <2>1, Grouped, SMTT(60)
  <2>3. (T \o H) \o G = T \o (H \o G)
    BY <2>0, Grouped
  <2> QED
    BY <1>4, <1>11, <2>2, <2>3, Zenon
<1>14. T \o W = Popped \o (T2 \o H2)
  <2>0. /\ Popped \in Seq(Byte) /\ Rem \in Seq(Byte) /\ W \in Seq(Byte)
        /\ Pushed \in Seq(Byte) /\ H2 \in Seq(Byte)
    BY <1>3, <1>8, <1>10
  <2>1. (Popped \o Rem) \o W = Popped \o (Rem \o W)
    BY <2>0, Grouped, SMTT(60)
  <2>2. (Rem \o Pushed) \o H2 = Rem \o (Pushed \o H2)
    BY <2>0, Grouped, SMTT(60)
  <2> QED
    BY <1>8, <1>9, <1>10, <2>1, <2>2, Zenon
<1>15. owed \o G = Air \o (Popped \o (T2 \o H2)) /\ (TxContents \o InHand)' = T2 \o H2
  BY <1>13, <1>14 DEF T2, H2
<1> QED
  BY <1>12, <1>15 DEF G, Air, Popped

\* A byte in front of a row of bytes.
LEMMA InFront ==
  ASSUME NEW b \in Byte, NEW s \in Seq(Byte)
  PROVE  LET t == <<b>> \o s
         IN  t \in Seq(Byte) /\ t # << >> /\ t[1] = b /\ Tail(t) = s
<1> DEFINE t == <<b>> \o s
<1>1. /\ t \in Seq(Byte) /\ Len(s) \in Nat /\ Len(t) = 1 + Len(s)
      /\ \A i \in 1..Len(t) : t[i] = IF i <= 1 THEN b ELSE s[i - 1]
  BY ConcatProperties
<1> HIDE DEF t
<1>2. t # << >> /\ t[1] = b
  BY <1>1, EmptySeq
<1>3. Tail(t) \in Seq(Byte) /\ Len(Tail(t)) = Len(s) /\ \A i \in 1..Len(s) : Tail(t)[i] = t[i + 1]
  BY <1>1, <1>2, HeadTailProperties
<1>4. \A i \in 1..Len(s) : Tail(t)[i] = s[i]
  <2> TAKE i \in 1..Len(s)
  <2>1. i + 1 \in 1..Len(t) /\ ~(i + 1 <= 1) /\ (i + 1) - 1 = i
    BY <1>1
  <2> QED
    BY <1>1, <1>3, <2>1
<1>5. Tail(t) = s
  BY <1>3, <1>4, SeqEqual
<1> QED
  BY <1>1, <1>2, <1>5 DEF t

\* One edge of the looped line: the byte in the air is followed bit by bit,
\* and a pulse on the idle line never gets past the start bit's sample.
LEMMA LoopEdge ==
  ASSUME 0 \notin Divs, QueueInv, LoopInv, NEW w, NEW in \in Inputs(w), Fits(w, in),
         LineEdge(w, in, Given(w))
  PROVE  LoopInv'
<1> DEFINE X == (TxContents \o InHand)'
           Air == IF Flying THEN <<owed[1]>> ELSE << >>
           Popped == IF tx_fifo_pop THEN <<tx_fifo_head>> ELSE << >>
           new == owed \o Given(w)
<1>1. /\ UartTypes /\ RxTypes /\ TxTypes /\ RxQueueExact /\ div_q \in Nat \ {0}
      /\ NBITS \in Nat /\ NBITS > 1
  BY UartAssumption DEF QueueInv, UartTypes, BusInv
<1>2. UartTypes' /\ RxTypes' /\ div_q' \in Nat
  <2>1. UartTypes'
    BY <1>1, TypesEdge
  <2> QED
    BY <2>1, UartAssumption DEF UartTypes, BusInv
<1>3. /\ tx' = next_tx /\ rx' = next_rx(in.rxd) /\ tx_fifo_head \in Byte
      /\ owed' = IF rx_frame_done /\ new # << >> THEN Tail(new) ELSE new
  BY <1>1, SendFacts DEF LineEdge, Edge, Transmit, Receive
<1>4. X \in Seq(Byte) /\ new = Air \o (Popped \o X)
  BY BytesMove
<1>5. ~tx_idle \/ ~rx_idle => div_q' = div_q
  BY <1>1, BusEdge DEF LineEdge, Edge
<1>6. /\ in.rxd \in {0, 1}
      /\ in.rxd # tx.txd => tx_idle /\ rx_idle /\ tx_fifo_empty
  <2>1. in.rxd \in {tx.txd} \cup {b \in {0} : tx_idle /\ rx_idle /\ tx_fifo_empty /\ w = << >>}
    BY DEF Inputs
  <2> QED
    BY <2>1 DEF Fits
<1>7. /\ owed \in Seq(Byte)
      /\ tx_idle => rx.state \in {"IDLE", "START"}
      /\ ~tx_idle => InStep(rx, div_q, TxPhase, tx.cnt)
      /\ Flying => owed # << >> /\ TxShows(owed[1]) /\ Sampled(rx, owed[1])
  BY DEF LoopInv
<1>8. /\ tx_idle <=> tx.state = "IDLE"
      /\ rx_idle <=> rx.state = "IDLE"
      /\ tx_idle' <=> tx'.state = "IDLE"
      /\ Flying <=> tx.state # "IDLE" /\ ~(tx.state = "STOP" /\ rx.state = "IDLE")
      /\ Flying' <=> tx'.state # "IDLE" /\ ~(tx'.state = "STOP" /\ rx'.state = "IDLE")
      /\ rx_frame_done => rx.state = "STOP" /\ rx.cnt = div_q
      /\ rx'.cnt \in Nat
  <2>1. rx'.cnt \in 0..div_q'
    BY <1>2 DEF RxTypes
  <2>2. /\ tx_idle' <=> tx'.state = "IDLE"
        /\ Flying' <=> tx'.state # "IDLE" /\ ~(tx'.state = "STOP" /\ rx'.state = "IDLE")
    BY DEF tx_idle, rx_idle, Flying
  <2> QED
    BY <1>2, <2>1, <2>2 DEF tx_idle, rx_idle, Flying, rx_frame_done, rx_sample
<1>9. LoopInv' <=> /\ owed' \in Seq(Byte)
                   /\ tx_idle' => rx'.state \in {"IDLE", "START"}
                   /\ ~tx_idle' => InStep(rx', div_q', TxPhase', tx'.cnt)
                   /\ Flying' => owed' # << >> /\ TxShows(owed[1])' /\ Sampled(rx', owed'[1])
                   /\ owed' = (IF Flying' THEN <<owed'[1]>> ELSE << >>) \o X
  BY DEF LoopInv
<1> HIDE DEF X, new
<1>10. ASSUME tx_idle PROVE LoopInv'
  <2>1. ~rx_frame_done /\ ~Flying /\ tx.txd = 1
    BY <1>1, <1>7, <1>8, <1>10 DEF TxTypes
  <2>2. rx'.state \in {"IDLE", "START"}
    <3>1. CASE rx.state = "IDLE"
      BY <1>1, <1>3, <1>6, <3>1, RxNext
    <3>2. CASE rx.state = "START"
      <4>1. in.rxd = 1 /\ rx' = next_rx(1)
        BY <1>3, <1>6, <1>8, <2>1, <3>2
      <4> QED
        BY <1>1, <3>2, <4>1, RxNext
    <3> QED
      BY <1>7, <1>10, <3>1, <3>2
  <2>3. owed' = Popped \o X /\ Popped \in Seq(Byte)
    <3>1. Popped \in Seq(Byte)
      BY <1>3
    <3>2. Popped \o X \in Seq(Byte)
      BY <1>4, <3>1, ConcatProperties
    <3> QED
      BY <1>3, <1>4, <2>1, <3>1, <3>2, ConcatEmptySeq
  <2>4. CASE tx_fifo_pop
    <3> DEFINE b == tx_fifo_head
    <3>1. tx'.state = "START" /\ tx'.cnt = 0 /\ tx'.txd = 0 /\ tx'.shift = b
      BY <1>1, <1>3, <2>4, TxNext
    <3>2. TxPhase' = 0
      BY <3>1 DEF TxPhase
    <3>3. InStep(rx', div_q', 0, 0)
      <4> DEFINE D == div_q'
                 k == rx'.cnt
      <4>1. D \in Nat /\ k \in Nat
        BY <1>2, <1>8
      <4> HIDE DEF D, k
      <4>2. 0 + (D \div 2) - k <= D
        BY <4>1
      <4> QED
        BY <2>2, <4>2 DEF InStep, D, k
    <3>4. Sampled(rx', b)
      BY <2>2 DEF Sampled
    <3> HIDE DEF b
    <3>5. owed' = <<b>> \o X /\ b \in Byte
      BY <1>3, <2>3, <2>4 DEF b
    <3>6. owed' \in Seq(Byte) /\ owed' # << >> /\ owed'[1] = b
      BY <1>4, <3>5
    <3>7. TxShows(owed[1])'
      BY <3>1, <3>6 DEF TxShows
    <3>8. Flying' /\ ~tx_idle'
      BY <1>8, <3>1
    <3> QED
      BY <1>9, <3>1, <3>2, <3>3, <3>4, <3>5, <3>6, <3>7, <3>8
  <2>5. CASE ~tx_fifo_pop
    <3>1. tx'.state = "IDLE"
      BY <1>1, <1>3, <1>8, <1>10, <2>5, TxNext
    <3>2. owed' = << >> \o X /\ owed' \in Seq(Byte)
      BY <1>4, <2>3, <2>5
    <3>3. tx_idle' /\ ~Flying'
      BY <1>8, <3>1
    <3> QED
      BY <1>9, <2>2, <3>2, <3>3
  <2> QED
    BY <2>4, <2>5
<1>11. ASSUME ~tx_idle, ~Flying PROVE LoopInv'
  <2>1. tx.state = "STOP" /\ rx.state = "IDLE" /\ ~rx_frame_done /\ tx.txd = 1
    BY <1>1, <1>8, <1>11 DEF TxTypes
  <2>2. in.rxd = 1 /\ rx' = next_rx(1)
    BY <1>3, <1>6, <1>11, <2>1
  <2>3. rx'.state = "IDLE"
    BY <1>1, <2>1, <2>2, RxNext
  <2>4. tx'.state \in {"STOP", "IDLE"}
    BY <1>1, <1>3, <2>1, TxNext
  <2>5. ~Flying'
    BY <1>8, <2>3, <2>4
  <2>6. ~tx_idle' => TxPhase' = NBITS + 1
    BY <1>8, <2>4 DEF TxPhase
  <2>7. ~tx_idle' => InStep(rx', div_q', TxPhase', tx'.cnt)
    BY <2>3, <2>6 DEF InStep
  <2>8. ~tx_fifo_pop
    BY <1>11 DEF tx_fifo_pop
  <2>9. owed' = << >> \o X /\ owed' \in Seq(Byte)
    BY <1>3, <1>4, <1>11, <2>1, <2>8, ConcatEmptySeq
  <2> QED
    BY <1>9, <2>3, <2>5, <2>7, <2>9
<1>12. ASSUME Flying PROVE LoopInv'
  <2> DEFINE p == TxPhase
             c == tx.cnt
  <2>1. ~tx_idle /\ div_q' = div_q /\ in.rxd = tx.txd /\ ~tx_fifo_pop
    BY <1>5, <1>6, <1>8, <1>12 DEF tx_fifo_pop
  <2>2. PICK b \in Byte : b = owed[1]
    BY <1>7, <1>12, EmptySeq, ElementOfSeq
  <2>3. /\ p \in 0..NBITS+1 /\ c \in 0..div_q
        /\ p = 0 <=> tx.state = "START"
        /\ p = NBITS + 1 <=> tx.state = "STOP"
        /\ c < div_q =>
             ~tx_idle' /\ tx'.state = tx.state /\ TxPhase' = p /\ tx'.cnt = c + 1
        /\ c = div_q /\ p < NBITS + 1 => ~tx_idle' /\ TxPhase' = p + 1 /\ tx'.cnt = 0
        /\ c = div_q /\ p = NBITS + 1 => tx_idle'
    BY <1>1, <1>3, <2>1, TxPhases
  <2>4. TxShows(b)
    BY <1>7, <1>12, <2>2
  <2>5. tx.txd = FrameLevel(p, b) /\ TxShows(b)'
    BY <1>1, <1>3, <2>1, <2>2, <2>4, TxSends
  <2>6. InStep(rx, div_q, p, c) /\ Sampled(rx, b) /\ rx' = next_rx(FrameLevel(p, b))
    BY <1>3, <1>7, <1>12, <2>1, <2>2, <2>5
  <2> HIDE DEF p, c
  <2>7. /\ c < div_q => InStep(rx', div_q, p, c + 1)
        /\ c = div_q /\ p < NBITS + 1 => InStep(rx', div_q, p + 1, 0)
        /\ c = div_q /\ p = NBITS + 1 => rx'.state = "IDLE"
        /\ Sampled(rx', b)
        /\ rx_frame_done => p = NBITS + 1 /\ rx.shift = b
        /\ ~rx_idle /\ rx'.state = "IDLE" => rx_frame_done
        /\ rx.state = "IDLE" /\ p = 0 => rx'.state = "START" /\ rx'.cnt = 0
    BY <1>1, <2>2, <2>3, <2>6, FrameStep
  <2>8. rx.state = "IDLE" => p = 0
    <3>1. rx.state = "IDLE" => p = 0 \/ p = NBITS + 1
      BY <2>6 DEF InStep
    <3> QED
      BY <1>8, <1>12, <2>3, <3>1
  <2>9. rx_frame_done => rx'.state = "IDLE"
    <3>1. rx_frame_done => rx.state = "STOP" /\ rx.cnt = div_q
      BY <1>8
    <3> QED
      BY <1>1, <1>3, <1>6, <3>1, RxNext
  <2>10. ~tx_idle' => InStep(rx', div_q', TxPhase', tx'.cnt)
    <3>1. CASE c < div_q
      BY <2>1, <2>3, <2>7, <3>1
    <3>2. CASE c = div_q /\ p < NBITS + 1
      BY <2>1, <2>3, <2>7, <3>2
    <3>3. CASE c = div_q /\ p = NBITS + 1
      BY <2>3, <3>3
    <3>4. c < div_q \/ (c = div_q /\ p < NBITS + 1) \/ (c = div_q /\ p = NBITS + 1)
      BY <1>1, <2>3
    <3> QED
      BY <3>1, <3>2, <3>3, <3>4, Zenon
  <2>11. tx_idle' => rx'.state = "IDLE"
    <3>1. c < div_q \/ (c = div_q /\ p < NBITS + 1) \/ (c = div_q /\ p = NBITS + 1)
      BY <1>1, <2>3
    <3> QED
      BY <2>3, <2>7, <3>1, Zenon
  <2>12. rx'.state = "IDLE" <=> rx_frame_done
    BY <1>8, <2>7, <2>8, <2>9
  <2>13. rx_frame_done => tx'.state \in {"STOP", "IDLE"}
    <3>1. rx_frame_done => tx.state = "STOP"
      BY <2>3, <2>7
    <3> QED
      BY <1>1, <1>3, <3>1, TxNext
  <2>14. Flying' <=> ~rx_frame_done
    BY <1>8, <2>11, <2>12, <2>13
  <2>15. new = <<b>> \o X /\ new \in Seq(Byte) /\ new # << >> /\ new[1] = b /\ Tail(new) = X
    <3>1. new = <<b>> \o (<< >> \o X)
      BY <1>4, <1>12, <2>1, <2>2
    <3>2. << >> \o X = X
      BY <1>4, ConcatEmptySeq
    <3>3. new = <<b>> \o X
      BY <3>1, <3>2
    <3> QED
      BY <1>4, <3>3, InFront
  <2>16. CASE rx_frame_done
    <3>1. owed' = X /\ X = << >> \o X
      BY <1>3, <1>4, <2>15, <2>16, ConcatEmptySeq
    <3>2. owed' \in Seq(Byte) /\ owed' = << >> \o X /\ ~Flying'
      BY <1>4, <2>14, <2>16, <3>1
    <3> QED
      BY <1>9, <2>10, <2>11, <3>2
  <2>17. CASE ~rx_frame_done
    <3>1. owed' = new /\ owed'[1] = b /\ owed' # << >> /\ owed' \in Seq(Byte) /\ Flying'
      BY <1>3, <2>14, <2>15, <2>17
    <3>2. owed' = <<owed'[1]>> \o X
      BY <2>15, <3>1
    <3>3. TxShows(owed[1])'
      BY <2>5, <3>1 DEF TxShows
    <3>4. Sampled(rx', owed'[1])
      BY <2>7, <3>1
    <3> QED
      BY <1>9, <2>10, <2>11, <3>1, <3>2, <3>3, <3>4
  <2> QED
    BY <2>16, <2>17
<1> QED
  BY <1>10, <1>11, <1>12

\* The time spent in a frame of N bits of M cycles, c cycles into bit p.
LEMMA FrameTime ==
  ASSUME NEW N \in Nat, NEW M \in Nat, NEW p \in 0..N-1, NEW c \in 0..M-1
  PROVE  /\ p * M + c \in Nat
         /\ (p + 1) * M = p * M + M
         /\ p * M + c + 1 <= N * M
<1>1. p * M \in Nat /\ N * M \in Nat
  OBVIOUS
<1>2. (p + 1) * M = p * M + M
  OBVIOUS
<1>3. PICK k \in Nat : N = (p + 1) + k
  <2>1. N - (p + 1) \in Nat /\ N = (p + 1) + (N - (p + 1))
    OBVIOUS
  <2> QED
    BY <2>1
<1>4. N * M = (p + 1) * M + k * M /\ k * M \in Nat
  BY <1>3
<1> DEFINE u == p * M
           v == N * M
           x == k * M
           y == (p + 1) * M
<1>5. u \in Nat /\ v \in Nat /\ x \in Nat /\ y = u + M /\ v = y + x
  BY <1>1, <1>2, <1>4
<1> HIDE DEF u, v, x, y
<1>6. u + c \in Nat /\ u + c + 1 <= v
  BY <1>5
<1> QED
  BY <1>2, <1>6 DEF u, v

\* One edge of the looped line: a write waits only while the FIFO is full, and
\* then no longer than the frame that keeps it full.
LEMMA HeldEdge ==
  ASSUME QueueInv, HeldInv, NEW w, NEW in, Fits(w, in), LineEdge(w, in, Given(w))
  PROVE  HeldInv'
<1> DEFINE N == NBITS + 2
           D == div_q
           M == D + 1
<1>1. /\ UartTypes /\ TxTypes /\ RxQueueExact /\ D \in Nat /\ D \in Divs /\ Divs \subseteq Nat
      /\ N \in Nat /\ NBITS \in Nat /\ NBITS > 1 /\ M \in Nat
      /\ TX_FIFO_DEPTH \in Nat \ {0}
  BY UartAssumption DEF QueueInv, UartTypes, BusInv
<1>2. UartTypes' /\ TxTypes' /\ div_q' \in Nat /\ div_q' \in Divs
  <2>1. UartTypes'
    BY <1>1, TypesEdge
  <2> QED
    BY <2>1, UartAssumption DEF UartTypes, BusInv
<1>3. /\ held \in Nat
      /\ tx_fifo_full /\ ~tx_idle => held <= TxPhase * M + tx.cnt
      /\ tx_fifo_full /\ tx_idle => held <= N * M
  BY DEF HeldInv, Elapsed
<1>4. tx' = next_tx /\ tx_fifo_head \in Byte /\ Transmit(in)
  BY <1>1, SendFacts DEF LineEdge, Edge, Transmit
<1>5. CASE held' = 0
  <2> DEFINE e == TxPhase' * (div_q' + 1) + tx'.cnt
             f == N * (div_q' + 1)
  <2>1. TxPhase' \in Nat /\ tx'.cnt \in Nat
    <3>1. tx'.bit \in 0..NBITS-1 /\ tx'.cnt \in 0..div_q'
      BY <1>2 DEF TxTypes
    <3> QED
      BY <1>1, <1>2, <3>1 DEF TxPhase
  <2>2. e \in Nat /\ f \in Nat
    <3> DEFINE a == TxPhase'
               m == div_q' + 1
               k == tx'.cnt
    <3>1. a \in Nat /\ m \in Nat /\ k \in Nat
      <4> DEFINE z == div_q'
      <4>1. z \in Nat
        BY <1>2
      <4> HIDE DEF z
      <4>2. z + 1 \in Nat
        BY <4>1
      <4> QED
        BY <2>1, <4>2, Zenon DEF z
    <3> HIDE DEF a, m, k, N
    <3>2. a * m + k \in Nat /\ N * m \in Nat
      BY <1>1, <3>1
    <3> QED
      BY <3>2 DEF a, m, k
  <2>3. HeldInv' <=> /\ held' \in Nat
                     /\ tx_fifo_full' /\ ~tx_idle' => held' <= e
                     /\ tx_fifo_full' /\ tx_idle' => held' <= f
                     /\ \E d \in Divs : held' <= N * (d + 1) + 1
    BY DEF HeldInv, Elapsed
  <2> HIDE DEF e, f
  <2>4. 0 <= N * M + 1
    BY <1>1
  <2>5. \E d \in Divs : held' <= N * (d + 1) + 1
    BY <1>1, <1>5, <2>4
  <2>6. held' \in Nat /\ held' <= e /\ held' <= f
    BY <1>5, <2>2
  <2> QED
    BY <2>3, <2>5, <2>6
<1>6. CASE held' # 0
  <2>1. /\ held' = held + 1
        /\ w # << >> /\ w[1].reg = "TXDATA" /\ ~bvalid_q /\ ~do_write(in)
    BY <1>6 DEF LineEdge
  <2>2. tx_fifo_full /\ ~Pushes(w)
    BY <1>1, <2>1, WriteFacts DEF tx_ready, Pushes
  <2>3. CASE tx_idle
    <3>1. tx_fifo_pop /\ TxContents \in Seq(Byte) /\ TxContents # << >>
          /\ Len(TxContents) = TX_FIFO_DEPTH
      <4>1. /\ TxContents \in Seq(Byte) /\ Len(TxContents) = TX_FIFO_DEPTH
            /\ tx_fifo_empty <=> TxContents = << >>
        BY <1>1, <2>2, SendFacts
      <4>2. TxContents # << >>
        BY <1>1, <4>1, EmptySeq
      <4> QED
        BY <2>3, <4>1, <4>2 DEF tx_fifo_pop
    <3>2. /\ RingOK(tx_fifo_q', tx_wptr_q', tx_rptr_q', TX_FIFO_DEPTH)
          /\ TxContents' = Tail(TxContents) \o << >>
      BY <1>1, <1>4, <2>2, <3>1, TxEdge DEF RingOK
    <3>3. TxContents' = Tail(TxContents) /\ Len(Tail(TxContents)) = TX_FIFO_DEPTH - 1
      BY <3>1, <3>2, HeadTailProperties, ConcatEmptySeq
    <3>4. TxContents' = RingSeq(tx_fifo_q', tx_wptr_q', tx_rptr_q', TX_FIFO_DEPTH)
      BY DEF TxContents, RingSeq
    <3>5. tx_fifo_full' <=> Len(TxContents') = TX_FIFO_DEPTH
      <4> DEFINE s2 == tx_fifo_q'
                 w2 == tx_wptr_q'
                 r2 == tx_rptr_q'
      <4>1. TX_FIFO_DEPTH \in Nat \ {0} /\ RingOK(s2, w2, r2, TX_FIFO_DEPTH)
        BY <1>1, <3>2
      <4> HIDE DEF s2, w2, r2
      <4>2. Len(RingSeq(s2, w2, r2, TX_FIFO_DEPTH)) = TX_FIFO_DEPTH
              <=> ring_full(w2, r2, TX_FIFO_DEPTH)
        BY <4>1, RingFacts
      <4>3. tx_fifo_full' <=> ring_full(w2, r2, TX_FIFO_DEPTH)
        BY DEF tx_fifo_full, ring_full, w2, r2
      <4>4. TxContents' = RingSeq(s2, w2, r2, TX_FIFO_DEPTH)
        BY <3>4 DEF s2, w2, r2
      <4> QED
        BY <4>2, <4>3, <4>4
    <3>6. ~tx_fifo_full'
      BY <1>1, <3>3, <3>5
    <3>7. held' \in Nat /\ held' <= N * M + 1
      <4> DEFINE v == N * M
      <4>1. v \in Nat
        BY <1>1
      <4>2. held <= v
        BY <1>3, <2>2, <2>3
      <4> HIDE DEF v
      <4>3. held + 1 <= v + 1
        BY <1>3, <4>1, <4>2
      <4> QED
        BY <1>3, <2>1, <4>3 DEF v
    <3>8. \E d \in Divs : held' <= N * (d + 1) + 1
      BY <1>1, <3>7
    <3> QED
      BY <3>6, <3>7, <3>8 DEF HeldInv
  <2>4. CASE ~tx_idle
    <3> DEFINE p == TxPhase
               c == tx.cnt
    <3>1. div_q' = div_q
      BY <1>1, <2>4, BusEdge DEF LineEdge, Edge
    <3>2. /\ p \in 0..NBITS+1 /\ c \in 0..div_q
          /\ c < div_q => ~tx_idle' /\ TxPhase' = p /\ tx'.cnt = c + 1
          /\ c = div_q /\ p < NBITS + 1 => ~tx_idle' /\ TxPhase' = p + 1 /\ tx'.cnt = 0
          /\ c = div_q /\ p = NBITS + 1 => tx_idle'
      BY <1>1, <1>4, <2>4, TxPhases
    <3>3. held <= p * M + c
      BY <1>3, <2>2, <2>4
    <3> HIDE DEF p, c
    <3>4. p \in 0..N-1 /\ c \in 0..M-1
      BY <1>1, <3>2
    <3>5. p * M + c \in Nat /\ (p + 1) * M = p * M + M /\ p * M + c + 1 <= N * M /\ N * M \in Nat
      <4> HIDE DEF N, M
      <4>1. N * M \in Nat
        BY <1>1
      <4> QED
        BY <1>1, <3>4, <4>1, FrameTime
    <3> DEFINE u == p * M
               v == N * M
               x == (p + 1) * M
    <3>6. /\ u + c \in Nat /\ x = u + M /\ u + c + 1 <= v /\ v \in Nat /\ held <= u + c
          /\ u \in Nat
      <4>1. u \in Nat
        BY <1>1, <3>4
      <4> QED
        BY <3>3, <3>5, <4>1
    <3>7. HeldInv' <=> /\ held' \in Nat
                       /\ tx_fifo_full' /\ ~tx_idle' => held' <= TxPhase' * M + tx'.cnt
                       /\ tx_fifo_full' /\ tx_idle' => held' <= v
                       /\ \E d \in Divs : held' <= N * (d + 1) + 1
      BY <3>1 DEF HeldInv, Elapsed
    <3>8. \E d \in Divs : held' <= N * (d + 1) + 1
      <4>1. held' <= N * M + 1
        <5> HIDE DEF u, v, x, M, N
        <5>1. held + 1 <= v + 1
          BY <1>3, <3>2, <3>6
        <5> QED
          BY <2>1, <5>1 DEF v
      <4> QED
        BY <1>1, <4>1
    <3>9. ~tx_idle' => held' <= TxPhase' * M + tx'.cnt
      <4>1. CASE c < div_q
        <5>1. TxPhase' * M + tx'.cnt = u + (c + 1)
          BY <3>2, <4>1
        <5> HIDE DEF u, v, x, M, N
        <5> QED
          BY <1>3, <2>1, <3>2, <3>6, <5>1
      <4>2. CASE c = div_q /\ p < NBITS + 1
        <5>1. TxPhase' * M + tx'.cnt = x + 0
          BY <3>2, <4>2
        <5>2. M = c + 1
          BY <4>2
        <5> HIDE DEF u, v, x, M, N
        <5> QED
          BY <1>3, <2>1, <3>2, <3>6, <5>1, <5>2
      <4>3. CASE c = div_q /\ p = NBITS + 1
        BY <3>2, <4>3
      <4>4. c < div_q \/ (c = div_q /\ p < NBITS + 1) \/ (c = div_q /\ p = NBITS + 1)
        BY <1>1, <3>2
      <4> QED
        BY <4>1, <4>2, <4>3, <4>4, Zenon
    <3>10. held' <= v /\ held' \in Nat
      <4> HIDE DEF u, v, x, M, N
      <4> QED
        BY <1>3, <2>1, <3>2, <3>6
    <3> QED
      BY <3>7, <3>8, <3>9, <3>10
  <2> QED
    BY <2>3, <2>4
<1> QED
  BY <1>5, <1>6

-----------------------------------------------------------------------------
(***************************************************************************)
(* The theorems of the line.                                               *)
(***************************************************************************)
\* The line is in order after reset, whoever is at its far end.
LEMMA LineStarts ==
  ASSUME PlayInit
  PROVE  LineInv
<1>1. /\ LineInit /\ UartInit /\ QueueInv
      /\ drv = [idx |-> 0, active |-> FALSE, cur |-> ZeroByte, bit |-> 0, cnt |-> 0, gap |-> 0]
  BY QueueStarts DEF PlayInit, LineInit
<1>2. /\ BAUD_DIV_RESET \in Divs /\ BAUD_DIV_RESET \in Nat /\ NBITS \in Nat
      /\ TX_FIFO_DEPTH \in Nat \ {0}
  BY UartAssumption
<1>3. /\ tx.state = "IDLE" /\ tx_idle /\ rx.state = "IDLE" /\ rx_idle /\ ~Flying
      /\ drv.active = FALSE /\ tx_fifo_empty
      /\ owed = << >> /\ held = 0 /\ wr = << >> /\ lost = FALSE
      /\ div_q = BAUD_DIV_RESET /\ div_pending_q = << >>
  BY <1>1 DEF LineInit, UartInit, tx_idle, rx_idle, Flying, tx_fifo_empty
<1>4. LoopInv
  <2>1. TxContents = << >> /\ InHand = << >>
    BY <1>1, <1>3, SendFacts DEF QueueInv, InHand
  <2>2. owed = << >> \o (TxContents \o InHand) /\ owed \in Seq(Byte)
    BY <1>3, <2>1, EmptySeq, ConcatEmptySeq
  <2> QED
    BY <1>3, <2>2 DEF LoopInv
<1>5. HeldInv
  <2> DEFINE v == (NBITS + 2) * (BAUD_DIV_RESET + 1)
  <2>1. v \in Nat
    BY <1>2
  <2> HIDE DEF v
  <2>2. held \in Nat /\ held <= v /\ held <= v + 1
    BY <1>3, <2>1
  <2>3. \E d \in Divs : held <= (NBITS + 2) * (d + 1) + 1
    BY <1>2, <2>2 DEF v
  <2> QED
    BY <1>3, <2>2, <2>3 DEF HeldInv, v
<1>6. PlayInv
  BY <1>3 DEF PlayInv
<1> QED
  BY <1>1, <1>4, <1>5, <1>6 DEF LineInv

\* Every step of the system keeps the line in order.
LEMMA LineStep ==
  ASSUME 0 \notin Divs, LineInv, [PlayNext]_playVars
  PROVE  LineInv'
<1>1. QueueInv /\ QueueInv'
  BY QueueStep DEF LineInv
<1>2. CASE far = "loop" /\ Cycle /\ UNCHANGED <<far, drv>>
  <2>1. UartTypes /\ LoopInv /\ HeldInv /\ far' = "loop"
    BY <1>1, <1>2 DEF LineInv, QueueInv
  <2>2. PICK w \in Option(WriteReqs) : \E in \in Inputs(w) :
          Fits(w, in) /\ LineEdge(w, in, Given(w))
    BY <1>2, <2>1, CycleFits
  <2>3. PICK in \in Inputs(w) : Fits(w, in) /\ LineEdge(w, in, Given(w))
    BY <2>2
  <2>4. LoopInv' /\ HeldInv'
    BY <1>1, <2>1, <2>3, LoopEdge, HeldEdge
  <2> QED
    BY <1>1, <2>1, <2>4 DEF LineInv
<1>3. CASE Play
  <2>1. far # "loop" /\ PlayInv /\ far' = far
    BY <1>1, <1>3, PlayIsEdge DEF Play, LineInv, PlayNext
  <2>2. PlayInv'
    BY <1>1, <1>3, <2>1, PlayStep
  <2> QED
    BY <1>1, <2>1, <2>2 DEF LineInv
<1>4. CASE UNCHANGED playVars
  <2>1. /\ UNCHANGED <<aw_q, w_q, bvalid_q, rd_q, ie_q, div_q, div_pending_q>>
        /\ UNCHANGED <<tx, tx_fifo_q, tx_wptr_q, tx_rptr_q>>
        /\ UNCHANGED <<rx, rx_fifo_q, rx_wptr_q, rx_rptr_q, rx_overrun_q>>
        /\ UNCHANGED <<wr, owed, waiting, lost, written, held, far, drv>>
    BY <1>4 DEF playVars, lineVars, uartVars, busRegs, txRegs, rxRegs, history
  <2>2. LoopInv => LoopInv'
    BY <2>1 DEF LoopInv, InStep, Sampled, TxShows, TxPhase, Flying, InHand, TxContents, RingSeq,
                tx_idle, rx_idle
  <2>3. HeldInv => HeldInv'
    BY <2>1 DEF HeldInv, Elapsed, TxPhase, tx_fifo_full, ring_full, tx_idle
  <2>4. PlayInv => PlayInv'
    BY <2>1 DEF PlayInv, InStep, Sampled, tx_idle, rx_idle, tx_fifo_empty, rx_fifo_full, ring_full
  <2> QED
    BY <1>1, <2>1, <2>2, <2>3, <2>4 DEF LineInv
<1> QED
  BY <1>2, <1>3, <1>4 DEF PlayNext

\* What the invariant says of the line.
LEMMA LineMeans ==
  ASSUME LineInv
  PROVE  FramesExact /\ NothingVanishes /\ DriverPaced
<1>1. /\ QueueInv /\ UartTypes /\ RxQueueExact /\ BAUD_DIV_RESET \in Divs
      /\ NBITS \in Nat /\ BAUD_DIV_RESET \in Nat
  BY UartAssumption DEF LineInv, QueueInv
<1>2. rx_frame_done => rx.state = "STOP" /\ ~rx_idle
  BY DEF rx_frame_done, rx_idle
<1>3. CASE far = "loop"
  <2>1. LoopInv /\ HeldInv
    BY <1>3 DEF LineInv
  <2>2. FramesExact
    <3>1. rx_frame_done => Flying
      BY <1>2, <2>1 DEF LoopInv, Flying, tx_idle
    <3> QED
      BY <1>2, <2>1, <3>1 DEF LoopInv, Sampled, FramesExact
  <2>3. ASSUME wr = << >>, tx_fifo_empty, tx_idle, rx_idle PROVE owed = << >>
    <3>1. TxContents = << >> /\ InHand = << >> /\ ~Flying
      BY <1>1, <2>3, SendFacts DEF InHand, Flying
    <3>2. owed = << >> \o (<< >> \o << >>)
      BY <2>1, <3>1 DEF LoopInv
    <3> QED
      BY <3>2, EmptySeq, ConcatEmptySeq
  <2>4. NothingVanishes
    BY <2>1, <2>3 DEF HeldInv, NothingVanishes
  <2> QED
    BY <1>3, <2>2, <2>4 DEF DriverPaced
<1>4. CASE far # "loop"
  <2>1. PlayInv /\ drv.active \in BOOLEAN
    BY <1>1, <1>4 DEF LineInv, QueueInv, Drivers
  <2>2. FramesExact
    <3>1. ASSUME rx_frame_done PROVE owed = <<drv.cur>> /\ rx.shift = drv.cur
      BY <1>2, <2>1, <3>1 DEF PlayInv, Sampled
    <3> QED
      BY <3>1 DEF FramesExact
  <2>3. rx_idle => owed = << >>
    BY <2>1 DEF PlayInv
  <2>4. \E d \in Divs : held <= (NBITS + 2) * (d + 1) + 1
    <3>1. held = 0
      BY <2>1 DEF PlayInv
    <3>2. 0 <= (NBITS + 2) * (BAUD_DIV_RESET + 1) + 1
      BY <1>1
    <3> QED
      BY <1>1, <3>1, <3>2
  <2>5. DriverPaced
    BY <1>1, <2>1 DEF PlayInv, DriverPaced, RxQueueExact
  <2> QED
    BY <2>2, <2>3, <2>4, <2>5 DEF NothingVanishes
<1> QED
  BY <1>3, <1>4

\* The inductive invariant holds, for every divisor but zero.
LEMMA LineInvariant ==
  ASSUME 0 \notin Divs
  PROVE  PlaySpec => []LineInv
<1>1. PlayInit => LineInv
  BY LineStarts
<1>2. LineInv /\ [PlayNext]_playVars => LineInv'
  BY LineStep
<1> QED
  BY <1>1, <1>2, PTL DEF PlaySpec

\* Every frame that ends carries the oldest byte that is owed, whatever the
\* divisor was changed to in between, and no pulse on the idle line is taken
\* for a frame: for every number of data bits and all divisors but zero (TX
\* and RX engines, tx_push, div_apply).
THEOREM FramesCarryBytes ==
  ASSUME 0 \notin Divs
  PROVE  PlaySpec => []FramesExact
<1>1. LineInv => FramesExact
  BY LineMeans
<1> QED
  BY <1>1, LineInvariant, PTL

\* Every byte given to TXDATA has been received once the line rests, and a
\* write that finds the transmit FIFO full waits for one frame time at most
\* (tx_push, tx_fifo_pop, tx_write_hold).
THEOREM BytesArrive ==
  ASSUME 0 \notin Divs
  PROVE  PlaySpec => []NothingVanishes
<1>1. LineInv => NothingVanishes
  BY LineMeans
<1> QED
  BY <1>1, LineInvariant, PTL

\* The paced stimulus never provokes RX_OVERRUN, whatever the program reads and
\* when, for every gap and every string (sim_main.cpp, UartRxDriver).
THEOREM PacedNeverOverruns ==
  ASSUME 0 \notin Divs
  PROVE  PlaySpec => []DriverPaced
<1>1. LineInv => DriverPaced
  BY LineMeans
<1> QED
  BY <1>1, LineInvariant, PTL
=============================================================================
