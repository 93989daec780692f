-------------------------- MODULE LeafUnitsProofs ---------------------------
(***************************************************************************)
(* The ring of the instruction buffer, the machine timer, the branch       *)
(* predictor, the divider and the on-chip RAM with its benches, for every  *)
(* ring depth, word size, index width and stack depth and for all words,   *)
(* lanes and values.                                                       *)
(***************************************************************************)

EXTENDS FetchBuffer, ClintTimer, BranchPredictor, Divider, RamBench, Induction, SequenceTheorems

(***************************************************************************)
(* The instruction ring.  The invariant says that tail is count slots      *)
(* ahead of head; with it a write port can only hit a slot outside the     *)
(* occupied stretch.                                                       *)
(***************************************************************************)
Index == 0 .. Depth - 1

RingInv ==
  /\ slots \in [Index -> Entries]
  /\ head_q \in Index /\ tail_q \in Index /\ count_q \in 0 .. Depth
  /\ tail_q = Plus(head_q, count_q)

(***************************************************************************)
(* Index arithmetic, without the remainder.                                *)
(***************************************************************************)
LEMMA PlusIs ==
  ASSUME NEW a \in Index, NEW n \in 0 .. Depth
  PROVE  Plus(a, n) = IF a + n < Depth THEN a + n ELSE a + n - Depth
<1>1. CASE a + n < Depth
  BY <1>1, BufferAssumption DEF Plus, Index
<1>2. CASE a + n >= Depth
  <2>1. a + n - Depth \in 0 .. Depth - 1 /\ a + n = Depth * 1 + (a + n - Depth)
    BY <1>2, BufferAssumption DEF Index
  <2>2. (a + n) % Depth = a + n - Depth
    BY <2>1, BufferAssumption, Z3
  <2> QED
    BY <1>2, <2>2, BufferAssumption DEF Plus, Index
<1> QED
  BY <1>1, <1>2, BufferAssumption DEF Index

\* An index moved round the ring is an index.
LEMMA PlusRange ==
  ASSUME NEW a \in Index, NEW n \in 0 .. Depth
  PROVE  Plus(a, n) \in Index
BY PlusIs, BufferAssumption DEF Index

\* Two moves round the ring are one.
LEMMA PlusPlus ==
  ASSUME NEW a \in Index, NEW m \in 0 .. Depth, NEW n \in 0 .. Depth, m + n <= Depth
  PROVE  Plus(Plus(a, m), n) = Plus(a, m + n)
<1>1. Plus(a, m) \in Index /\ m + n \in 0 .. Depth
  BY PlusRange, BufferAssumption
<1>2. /\ Plus(a, m) = IF a + m < Depth THEN a + m ELSE a + m - Depth
      /\ Plus(a, m + n) = IF a + (m + n) < Depth THEN a + (m + n) ELSE a + (m + n) - Depth
      /\ Plus(Plus(a, m), n) = IF Plus(a, m) + n < Depth THEN Plus(a, m) + n
                               ELSE Plus(a, m) + n - Depth
  BY <1>1, PlusIs
<1> QED
  BY <1>2, BufferAssumption DEF Index

\* Fewer than Depth steps from a slot lead to different slots.
LEMMA PlusApart ==
  ASSUME NEW a \in Index, NEW m \in 0 .. Depth - 1, NEW n \in 0 .. Depth - 1, m # n
  PROVE  Plus(a, m) # Plus(a, n)
<1>1. m \in 0 .. Depth /\ n \in 0 .. Depth
  BY BufferAssumption
<1>2. /\ Plus(a, m) = IF a + m < Depth THEN a + m ELSE a + m - Depth
      /\ Plus(a, n) = IF a + n < Depth THEN a + n ELSE a + n - Depth
  BY <1>1, PlusIs
<1> QED
  BY <1>2, BufferAssumption DEF Index

\* No move leaves an index where it is.
LEMMA PlusZero ==
  ASSUME NEW a \in Index
  PROVE  Plus(a, 0) = a
BY PlusIs, BufferAssumption DEF Index

\* What may arrive fits into the ring.
LEMMA ArrivalFacts ==
  ASSUME RingInv, NEW p \in Arrivals
  PROVE  /\ p \in Seq(Entries) /\ Len(p) \in 0 .. 2 /\ count_q + Len(p) <= Depth
         /\ p \in Queue!Bursts
<1>1. p \in Queue!Bursts /\ count_q + Len(p) <= Depth
  BY DEF Arrivals, Queue!Bursts
<1>2. CASE p = << >>
  BY <1>1, <1>2
<1>3. CASE p \in {<<e>> : e \in Entries}
  <2>1. PICK e \in Entries : p = <<e>>
    BY <1>3
  <2> QED
    BY <1>1, <2>1
<1>4. CASE p \in {<<e, f>> : e, f \in Entries}
  <2>1. PICK e \in Entries, f \in Entries : p = <<e, f>>
    BY <1>4
  <2> QED
    BY <1>1, <2>1
<1> QED
  BY <1>2, <1>3, <1>4 DEF Arrivals

(***************************************************************************)
(* The write ports leave the occupied slots alone and put what arrives     *)
(* right behind them.                                                      *)
(***************************************************************************)
LEMMA WritesBehind ==
  ASSUME RingInv, NEW p \in Arrivals, WritePorts(p)
  PROVE  /\ slots' \in [Index -> Entries]
         /\ \A j \in 0 .. count_q - 1 : slots'[Plus(head_q, j)] = slots[Plus(head_q, j)]
         /\ \A m \in 1 .. Len(p) : slots'[Plus(head_q, count_q + (m - 1))] = p[m]
<1>1. /\ p \in Seq(Entries) /\ Len(p) \in 0 .. 2 /\ count_q + Len(p) <= Depth
      /\ count_q \in 0 .. Depth /\ Depth \in Nat /\ Depth >= 2
      /\ head_q \in Index /\ tail_q = Plus(head_q, count_q)
  BY ArrivalFacts, BufferAssumption DEF RingInv
<1>2. ASSUME NEW k \in Index
      PROVE  slots'[k] = IF Len(p) >= 2 /\ k = Plus(tail_q, 1) THEN p[2]
                         ELSE IF Len(p) >= 1 /\ k = tail_q THEN p[1] ELSE slots[k]
  BY <1>2 DEF WritePorts, Index
<1>3. slots' \in [Index -> Entries]
  <2>1. slots' = [k \in Index |-> slots'[k]]
    BY DEF WritePorts, Index
  <2>2. ASSUME NEW k \in Index PROVE slots'[k] \in Entries
    <3>1. /\ slots[k] \in Entries
          /\ Len(p) >= 1 => p[1] \in Entries
          /\ Len(p) >= 2 => p[2] \in Entries
      BY <1>1, <2>2 DEF RingInv
    <3> QED
      BY <1>2, <2>2, <3>1
  <2> QED
    BY <2>1, <2>2
<1>4. Len(p) >= 2 => Plus(tail_q, 1) = Plus(head_q, count_q + 1)
  BY <1>1, PlusPlus
<1>5. ASSUME NEW j \in 0 .. count_q - 1
      PROVE  slots'[Plus(head_q, j)] = slots[Plus(head_q, j)]
  <2>1. Plus(head_q, j) \in Index
    BY <1>1, <1>5, PlusRange
  <2>2. Len(p) >= 1 => Plus(head_q, j) # tail_q
    <3>1. ASSUME Len(p) >= 1 PROVE Plus(head_q, j) # Plus(head_q, count_q)
      <4>1. j \in 0 .. Depth - 1 /\ count_q \in 0 .. Depth - 1 /\ j # count_q
        BY <1>1, <1>5, <3>1
      <4> QED
        BY <1>1, <4>1, PlusApart
    <3> QED
      BY <1>1, <3>1
  <2>3. Len(p) >= 2 => Plus(head_q, j) # Plus(tail_q, 1)
    <3>1. ASSUME Len(p) >= 2 PROVE Plus(head_q, j) # Plus(head_q, count_q + 1)
      <4>1. j \in 0 .. Depth - 1 /\ count_q + 1 \in 0 .. Depth - 1 /\ j # count_q + 1
        BY <1>1, <1>5, <3>1
      <4> QED
        BY <1>1, <4>1, PlusApart
    <3> QED
      BY <1>4, <3>1
  <2> QED
    BY <1>2, <2>1, <2>2, <2>3
<1>6. ASSUME NEW m \in 1 .. Len(p)
      PROVE  slots'[Plus(head_q, count_q + (m - 1))] = p[m]
  <2>1. CASE m = 1
    <3>1. count_q + (m - 1) = count_q /\ count_q \in 0 .. Depth - 1 /\ Len(p) >= 1
      BY <1>1, <1>6, <2>1
    <3>2. tail_q \in Index
      BY DEF RingInv
    <3>3. Len(p) >= 2 => tail_q # Plus(tail_q, 1)
      <4>1. ASSUME Len(p) >= 2 PROVE Plus(head_q, count_q) # Plus(head_q, count_q + 1)
        <5>1. count_q + 1 \in 0 .. Depth - 1 /\ count_q # count_q + 1
          BY <1>1, <4>1
        <5> QED
          BY <1>1, <3>1, <5>1, PlusApart
      <4> QED
        BY <1>1, <1>4, <4>1
    <3>4. slots'[tail_q] = p[1]
      BY <1>2, <3>1, <3>2, <3>3
    <3> QED
      BY <1>1, <2>1, <3>1, <3>4
  <2>2. CASE m = 2
    <3>1. count_q + (m - 1) = count_q + 1 /\ Len(p) >= 2 /\ count_q + 1 \in 0 .. Depth
      BY <1>1, <1>6, <2>2
    <3>2. Plus(head_q, count_q + 1) \in Index
      BY <1>1, <3>1, PlusRange
    <3> QED
      BY <1>2, <1>4, <2>2, <3>1, <3>2
  <2> QED
    BY <1>1, <1>6, <2>1, <2>2
<1> QED
  BY <1>3, <1>5, <1>6

(***************************************************************************)
(* The contents of the ring, and what the read ports show of them.         *)
(***************************************************************************)
LEMMA ContentsFacts ==
  ASSUME RingInv
  PROVE  /\ Contents \in Seq(Entries) /\ Len(Contents) = count_q
         /\ \A k \in 1 .. count_q : Contents[k] = slots[Plus(head_q, k - 1)]
<1>1. count_q \in 0 .. Depth /\ count_q \in Nat /\ head_q \in Index
  BY BufferAssumption DEF RingInv
<1>2. ASSUME NEW k \in 1 .. count_q PROVE slots[Plus(head_q, k - 1)] \in Entries
  <2>1. k - 1 \in 0 .. Depth
    BY <1>1, <1>2, BufferAssumption
  <2>2. Plus(head_q, k - 1) \in Index
    BY <1>1, <2>1, PlusRange
  <2> QED
    BY <2>2 DEF RingInv
<1> QED
  BY <1>1, <1>2 DEF Contents

\* What is popped is the front of the queue.
LEMMA PopFacts ==
  ASSUME RingInv, NEW stall \in BOOLEAN, NEW pop2 \in BOOLEAN, pop2 => ReadPorts[2].valid
  PROVE  /\ pop_count(stall, pop2) \in 0 .. 2 /\ pop_count(stall, pop2) <= count_q
         /\ Popped(pop_count(stall, pop2)) \in Seq(Entries)
         /\ Popped(pop_count(stall, pop2)) \in Queue!Bursts
         /\ Len(Popped(pop_count(stall, pop2))) = pop_count(stall, pop2)
         /\ Popped(pop_count(stall, pop2)) = SubSeq(Contents, 1, pop_count(stall, pop2))
<1> DEFINE n == pop_count(stall, pop2)
<1>1. count_q \in 0 .. Depth /\ count_q \in Nat /\ head_q \in Index
  BY BufferAssumption DEF RingInv
<1>2. pop2 => count_q >= 2
  BY DEF ReadPorts
<1>3. n \in 0 .. 2 /\ n <= count_q
  BY <1>1, <1>2 DEF pop_count
<1> HIDE DEF n
<1>4. ASSUME NEW k \in 1 .. n PROVE ReadPorts[k].entry = Contents[k] /\ Contents[k] \in Entries
  <2>1. k \in 1 .. count_q /\ Contents[k] = slots[Plus(head_q, k - 1)]
    BY <1>1, <1>3, <1>4, ContentsFacts
  <2>2. CASE k = 1
    BY <1>1, <2>1, <2>2, PlusZero, ContentsFacts DEF ReadPorts
  <2>3. CASE k = 2
    BY <2>1, <2>3, ContentsFacts DEF ReadPorts
  <2> QED
    BY <1>3, <1>4, <2>2, <2>3
<1>5. Popped(n) \in Seq(Entries) /\ Len(Popped(n)) = n
  BY <1>3, <1>4 DEF Popped
<1>6. Popped(n) = SubSeq(Contents, 1, n)
  <2>1. /\ SubSeq(Contents, 1, n) \in Seq(Entries)
        /\ Len(SubSeq(Contents, 1, n)) = n
        /\ \A k \in 1 .. n : SubSeq(Contents, 1, n)[k] = Contents[k]
    BY <1>3, <1>4, SubSeqProperties
  <2>2. \A k \in 1 .. n : Popped(n)[k] = Contents[k]
    BY <1>4 DEF Popped
  <2> QED
    BY <1>5, <2>1, <2>2, SeqEqual
<1>7. Popped(n) \in Queue!Bursts
  <2>1. CASE n = 0
    BY <1>5, <2>1 DEF Queue!Bursts
  <2>2. CASE n = 1
    <3>1. Popped(n) = <<Popped(n)[1]>> /\ Popped(n)[1] \in Entries
      BY <1>5, <2>2
    <3> QED
      BY <3>1 DEF Queue!Bursts
  <2>3. CASE n = 2
    <3>1. Popped(n) = <<Popped(n)[1], Popped(n)[2]>>
      BY <1>5, <2>3
    <3>2. Popped(n)[1] \in Entries /\ Popped(n)[2] \in Entries
      BY <1>5, <2>3
    <3> QED
      BY <3>1, <3>2 DEF Queue!Bursts
  <2> QED
    BY <1>3, <2>1, <2>2, <2>3
<1> QED
  BY <1>3, <1>5, <1>6, <1>7 DEF n

(***************************************************************************)
(* A cycle without redirect keeps the invariant and moves the queue.       *)
(***************************************************************************)
LEMMA MoveKeepsRing ==
  ASSUME RingInv, NEW p \in Arrivals, NEW stall \in BOOLEAN, NEW pop2 \in BOOLEAN,
         pop2 => ReadPorts[2].valid, BufferMove(p, stall, pop2)
  PROVE  RingInv'
<1> DEFINE n == pop_count(stall, pop2)
<1>1. /\ n \in 0 .. 2 /\ n <= count_q /\ Len(p) \in 0 .. 2 /\ count_q + Len(p) <= Depth
      /\ count_q \in 0 .. Depth /\ Depth \in Nat /\ Depth >= 2
      /\ head_q \in Index /\ tail_q = Plus(head_q, count_q)
  BY PopFacts, ArrivalFacts, BufferAssumption DEF RingInv
<1>2. /\ head_q' = Plus(head_q, n) /\ tail_q' = Plus(tail_q, Len(p))
      /\ count_q' = count_q + Len(p) - n /\ WritePorts(p)
  BY DEF BufferMove
<1> HIDE DEF n
<1>3. head_q' \in Index /\ count_q' \in 0 .. Depth
  BY <1>1, <1>2, PlusRange
<1>4. tail_q' = Plus(head_q, count_q + Len(p))
  BY <1>1, <1>2, PlusPlus
<1>5. Plus(head_q', count_q') = Plus(head_q, n + count_q')
  BY <1>1, <1>2, PlusPlus
<1>6. n + count_q' = count_q + Len(p) /\ count_q + Len(p) \in 0 .. Depth
  BY <1>1, <1>2
<1>7. tail_q' = Plus(head_q', count_q') /\ tail_q' \in Index
  BY <1>1, <1>4, <1>5, <1>6, PlusRange
<1>8. slots' \in [Index -> Entries]
  BY <1>2, WritesBehind
<1> QED
  BY <1>3, <1>7, <1>8 DEF RingInv

\* An edge without a flush drops the popped entries in front and adds the
\* pushed ones at the end.
LEMMA MoveMovesQueue ==
  ASSUME RingInv, RingInv', NEW p \in Arrivals, NEW stall \in BOOLEAN, NEW pop2 \in BOOLEAN,
         pop2 => ReadPorts[2].valid, BufferMove(p, stall, pop2)
  PROVE  Contents' = SubSeq(Contents, pop_count(stall, pop2) + 1, Len(Contents)) \o p
<1> DEFINE n == pop_count(stall, pop2)
           R == SubSeq(Contents, n + 1, Len(Contents))
<1>1. /\ n \in 0 .. 2 /\ n <= count_q /\ Len(p) \in 0 .. 2 /\ count_q + Len(p) <= Depth
      /\ count_q \in 0 .. Depth /\ Depth \in Nat /\ Depth >= 2
      /\ head_q \in Index /\ p \in Seq(Entries)
  BY PopFacts, ArrivalFacts, BufferAssumption DEF RingInv
<1>2. /\ head_q' = Plus(head_q, n) /\ count_q' = count_q + Len(p) - n /\ WritePorts(p)
  BY DEF BufferMove
<1> HIDE DEF n
<1>3. /\ Contents \in Seq(Entries) /\ Len(Contents) = count_q
      /\ \A k \in 1 .. count_q : Contents[k] = slots[Plus(head_q, k - 1)]
  BY ContentsFacts
<1>4. /\ R \in Seq(Entries) /\ Len(R) = count_q - n
      /\ \A i \in 1 .. count_q - n : R[i] = Contents[n + i]
  <2>1. \A i \in n + 1 .. count_q : Contents[i] \in Entries
    BY <1>1, <1>3
  <2>2. n + 1 \in Int /\ count_q \in Int
    BY <1>1
  <2>3. /\ R \in Seq(Entries)
        /\ Len(R) = IF n + 1 <= count_q THEN count_q - (n + 1) + 1 ELSE 0
        /\ \A i \in 1 .. count_q - (n + 1) + 1 : R[i] = Contents[n + 1 + i - 1]
    BY <1>3, <2>1, <2>2, SubSeqProperties
  <2>4. \A i \in 1 .. count_q - n : i \in 1 .. count_q - (n + 1) + 1 /\ n + 1 + i - 1 = n + i
    BY <1>1
  <2>5. Len(R) = count_q - n
    BY <1>1, <2>3
  <2> QED
    BY <2>3, <2>4, <2>5
<1> HIDE DEF R
<1>5. /\ R \o p \in Seq(Entries) /\ Len(R \o p) = count_q'
      /\ \A i \in 1 .. count_q' : (R \o p)[i] = IF i <= count_q - n THEN R[i]
                                              ELSE p[i - (count_q - n)]
  <2>1. /\ R \o p \in Seq(Entries)
        /\ Len(R \o p) = Len(R) + Len(p)
        /\ \A i \in 1 .. Len(R) + Len(p) : (R \o p)[i] =
              IF i <= Len(R) THEN R[i] ELSE p[i - Len(R)]
    BY <1>1, <1>4, ConcatProperties
  <2>2. Len(R) + Len(p) = count_q'
    BY <1>1, <1>2, <1>4
  <2> QED
    BY <1>4, <2>1, <2>2
<1>6. Contents' = [k \in 1 .. count_q' |-> slots'[Plus(head_q', k - 1)]]
  BY DEF Contents, Plus
<1>7. ASSUME NEW i \in 1 .. count_q' PROVE slots'[Plus(head_q', i - 1)] = (R \o p)[i]
  <2>1. /\ i \in Nat /\ i >= 1 /\ i <= count_q + Len(p) - n
        /\ i - 1 \in 0 .. Depth /\ n + (i - 1) <= Depth /\ n \in 0 .. Depth
    BY <1>1, <1>2, <1>7
  <2>2. Plus(head_q', i - 1) = Plus(head_q, n + (i - 1))
    BY <1>1, <1>2, <2>1, PlusPlus
  <2>3. CASE i <= count_q - n
    <3>1. n + (i - 1) \in 0 .. count_q - 1
      BY <1>1, <2>1, <2>3
    <3>2. slots'[Plus(head_q', i - 1)] = slots[Plus(head_q, n + (i - 1))]
      BY <1>2, <2>2, <3>1, WritesBehind
    <3>3. n + i \in 1 .. count_q /\ (n + i) - 1 = n + (i - 1) /\ i \in 1 .. count_q - n
      BY <1>1, <2>1, <2>3
    <3>4. R[i] = slots[Plus(head_q, n + (i - 1))]
      BY <1>3, <1>4, <3>3
    <3> QED
      BY <1>5, <1>7, <2>3, <3>2, <3>4
  <2>4. CASE ~(i <= count_q - n)
    <3>1. /\ i - (count_q - n) \in 1 .. Len(p)
          /\ n + (i - 1) = count_q + ((i - (count_q - n)) - 1)
      BY <1>1, <2>1, <2>4
    <3>2. slots'[Plus(head_q, count_q + ((i - (count_q - n)) - 1))] = p[i - (count_q - n)]
      BY <1>2, <3>1, WritesBehind
    <3> QED
      BY <1>5, <1>7, <2>2, <2>4, <3>1, <3>2
  <2> QED
    BY <2>3, <2>4
<1>8. R \o p = [k \in 1 .. count_q' |-> (R \o p)[k]]
  BY <1>5, LenProperties
<1>9. Contents' = R \o p
  BY <1>6, <1>7, <1>8
<1> QED
  BY <1>9 DEF R, n

\* A redirect empties the ring; what it writes is outside the empty queue.
LEMMA KillEmpties ==
  ASSUME RingInv, NEW p \in Arrivals, BufferRedirect(p)
  PROVE  RingInv' /\ Contents' = << >>
<1>1. slots' \in [Index -> Entries]
  BY WritesBehind DEF BufferRedirect
<1>2. head_q' = 0 /\ tail_q' = 0 /\ count_q' = 0 /\ 0 \in Index /\ 0 \in 0 .. Depth
  BY BufferAssumption DEF BufferRedirect, Index
<1>3. Plus(0, 0) = 0
  BY <1>2, PlusZero
<1>4. RingInv'
  BY <1>1, <1>2, <1>3 DEF RingInv, Plus
<1>5. Contents' = [k \in 1 .. 0 |-> slots'[Plus(head_q', k - 1)]]
  BY <1>2 DEF Contents, Plus
<1> QED
  BY <1>4, <1>5

\* The ring is empty and in order after reset.
LEMMA RingStart == BufferInit => RingInv /\ Contents = << >>
<1> SUFFICES ASSUME BufferInit PROVE RingInv /\ Contents = << >>
  OBVIOUS
<1>1. 0 \in Index /\ 0 \in 0 .. Depth
  BY BufferAssumption DEF Index
<1>2. Plus(0, 0) = 0
  BY <1>1, PlusZero
<1> QED
  BY <1>1, <1>2 DEF BufferInit, RingInv, Index, Contents

\* Every edge keeps the ring in order.
LEMMA RingStep == RingInv /\ [BufferNext]_bufferVars => RingInv'
<1> SUFFICES ASSUME RingInv, [BufferNext]_bufferVars PROVE RingInv'
  OBVIOUS
<1>1. CASE BufferKill
  BY <1>1, KillEmpties DEF BufferKill
<1>2. CASE BufferRun
  BY <1>2, MoveKeepsRing DEF BufferRun
<1>3. CASE UNCHANGED bufferVars
  BY <1>3 DEF bufferVars, RingInv, Plus
<1> QED
  BY <1>1, <1>2, <1>3 DEF BufferNext

(***************************************************************************)
(* Every edge of the ring is a step of the queue.                          *)
(***************************************************************************)
LEMMA EdgeMovesQueue ==
  ASSUME RingInv, RingInv', BufferNext
  PROVE  Queue!QueueNext
<1>1. CASE BufferKill
  <2>1. PICK p \in Arrivals :
          BufferRedirect(p) /\ cycle' = [in |-> p, out |-> << >>, kill |-> TRUE]
    BY <1>1 DEF BufferKill
  <2>2. Contents' = << >> /\ p \in Queue!Bursts
    BY <2>1, KillEmpties, ArrivalFacts
  <2>3. << >> \in Queue!Bursts
    BY DEF Queue!Bursts
  <2> QED
    BY <2>1, <2>2, <2>3 DEF Queue!QueueNext
<1>2. CASE BufferRun
  <2>1. PICK p \in Arrivals, stall \in BOOLEAN, pop2 \in BOOLEAN :
          /\ pop2 => ReadPorts[2].valid
          /\ BufferMove(p, stall, pop2)
          /\ cycle' = [in |-> p, out |-> Popped(pop_count(stall, pop2)), kill |-> FALSE]
    BY <1>2 DEF BufferRun
  <2> DEFINE n == pop_count(stall, pop2)
  <2>2. /\ Popped(n) \in Queue!Bursts /\ Len(Popped(n)) = n
        /\ Popped(n) = SubSeq(Contents, 1, n) /\ p \in Queue!Bursts
    BY <2>1, PopFacts, ArrivalFacts
  <2>3. Contents' = SubSeq(Contents, n + 1, Len(Contents)) \o p
    BY <2>1, MoveMovesQueue
  <2>4. Len(Contents') <= Depth
    <3>1. count_q' \in 0 .. Depth /\ count_q' \in Nat
      BY BufferAssumption DEF RingInv
    <3>2. Contents' = [k \in 1 .. count_q' |-> slots'[Plus(head_q', k - 1)]]
      BY DEF Contents, Plus
    <3>3. Len(Contents') = count_q'
      BY <3>1, <3>2
    <3> QED
      BY <3>1, <3>3
  <2> HIDE DEF n
  <2>5. cycle' = [in |-> p, out |-> Popped(n), kill |-> FALSE]
    BY <2>1 DEF n
  <2>6. Queue!Pass(cycle')
    BY <2>2, <2>3, <2>4, <2>5 DEF Queue!Pass
  <2> QED
    BY <2>2, <2>5, <2>6 DEF Queue!QueueNext
<1> QED
  BY <1>1, <1>2 DEF BufferNext

(***************************************************************************)
(* The ring of fetch_stage.sv implements the queue of FetchQueue: decode   *)
(* is given the oldest entries in the order they came, none lost,          *)
(* overwritten or repeated where the indices wrap, where push and pop meet *)
(* on a full or an empty ring, or by the push of a redirect cycle.         *)
(***************************************************************************)
THEOREM RingRefinesQueue == BufferSpec => RingImplementsQueue
<1>1. BufferInit => Queue!QueueInit
  BY RingStart DEF BufferInit, Queue!QueueInit
<1>2. RingInv /\ RingInv' /\ [BufferNext]_bufferVars => [Queue!QueueNext]_<<Contents, cycle>>
  <2> SUFFICES ASSUME RingInv, RingInv', [BufferNext]_bufferVars
               PROVE  [Queue!QueueNext]_<<Contents, cycle>>
    OBVIOUS
  <2>1. CASE BufferNext
    BY <2>1, EdgeMovesQueue
  <2>2. CASE UNCHANGED bufferVars
    BY <2>2 DEF bufferVars, Contents, Plus
  <2> QED
    BY <2>1, <2>2
<1> QED
  BY <1>1, <1>2, RingStart, RingStep, PTL DEF BufferSpec, RingImplementsQueue, Queue!QueueSpec

-----------------------------------------------------------------------------
(***************************************************************************)
(* Words of a time.                                                        *)
(***************************************************************************)
LEMMA Halves ==
  ASSUME NEW x \in Nat
  PROVE  /\ x \div H \in Nat /\ x % H \in 0..H-1
         /\ x = H * (x \div H) + (x % H)
<1>1. H \in Nat /\ H > 0
  BY ClintAssumption
<1> QED
  BY <1>1, Z3

\* Numbers of two words compare by their high words first.
LEMMA Lex ==
  ASSUME NEW a \in Nat, NEW c \in 0..H-1, NEW d \in Nat, NEW e \in 0..H-1
  PROVE  H * a + c >= H * d + e <=> a > d \/ (a = d /\ c >= e)
<1>1. H \in Nat /\ H > 0
  BY ClintAssumption
<1>2. CASE a > d
  <2>1. PICK k \in Nat : a = d + 1 + k
    <3>1. a - d - 1 \in Nat /\ a = d + 1 + (a - d - 1)
      BY <1>2
    <3> QED
      BY <3>1
  <2>2. H * a = H * d + H + H * k /\ H * k >= 0 /\ H * d \in Nat /\ H * k \in Nat
    BY <1>1, <2>1, Z3
  <2> QED
    BY <1>1, <1>2, <2>2
<1>3. CASE a < d
  <2>1. PICK k \in Nat : d = a + 1 + k
    <3>1. d - a - 1 \in Nat /\ d = a + 1 + (d - a - 1)
      BY <1>3
    <3> QED
      BY <3>1
  <2>2. H * d = H * a + H + H * k /\ H * k >= 0 /\ H * a \in Nat /\ H * k \in Nat
    BY <1>1, <2>1, Z3
  <2> QED
    BY <1>1, <1>3, <2>2
<1>4. CASE a = d
  <2>1. H * a \in Nat
    BY <1>1, Z3
  <2> QED
    BY <1>1, <1>4, <2>1
<1> QED
  BY <1>2, <1>3, <1>4

\* The words of a time are words, and two times compare as their words do.
LEMMA TimeWords ==
  ASSUME NEW x \in Times
  PROVE  x \in Nat /\ x \div H \in TimerWords /\ x % H \in TimerWords
<1>1. H \in Nat /\ H > 0 /\ x \in Nat /\ x < H * H
  <2>1. H * H \in Nat
    BY ClintAssumption, Z3
  <2> QED
    BY <2>1, ClintAssumption DEF Times
<1>2. x \div H \in Nat /\ x % H \in 0..H-1 /\ x = H * (x \div H) + (x % H)
  BY <1>1, Halves
<1>3. x \div H < H
  <2> SUFFICES ASSUME x \div H >= H PROVE FALSE
    BY <1>1, <1>2
  <2>1. H * (x \div H) >= H * H
    BY <1>1, <1>2, Z3
  <2>2. H * (x \div H) \in Nat /\ H * H \in Nat
    BY <1>1, <1>2, Z3
  <2> QED
    BY <1>1, <1>2, <2>1, <2>2
<1> QED
  BY <1>1, <1>2, <1>3 DEF TimerWords

\* So do the times of the counter.
LEMMA TimesCompare ==
  ASSUME NEW x \in Times, NEW y \in Times
  PROVE  x >= y <=> x \div H > y \div H \/ (x \div H = y \div H /\ x % H >= y % H)
<1>1. /\ x \div H \in Nat /\ x % H \in 0..H-1 /\ x = H * (x \div H) + (x % H)
      /\ y \div H \in Nat /\ y % H \in 0..H-1 /\ y = H * (y \div H) + (y % H)
  BY TimeWords, Halves
<1>2. H * (x \div H) + (x % H) >= H * (y \div H) + (y % H)
      <=> x \div H > y \div H \/ (x \div H = y \div H /\ x % H >= y % H)
  BY <1>1, Lex
<1> QED
  BY <1>1, <1>2

\* The counter: unless it wraps to zero it is one more, and its high word has
\* not fallen.
LEMMA CountIs ==
  ASSUME NEW x \in Times
  PROVE  /\ (x + 1) % (H * H) \in Times
         /\ (x + 1) % (H * H) >= 1 => /\ (x + 1) % (H * H) = x + 1
                                      /\ x \div H <= (x + 1) \div H
<1>1. H \in Nat /\ H > 0 /\ x \in Nat /\ H * H \in Nat /\ H * H > 0 /\ x + 1 <= H * H
  <2>1. H \in Nat /\ H > 0 /\ H * H \in Nat /\ H * H > 0
    BY ClintAssumption, Z3
  <2> QED
    BY <2>1 DEF Times
<1>2. CASE x + 1 = H * H
  <2>1. (x + 1) % (H * H) = 0
    <3>1. ASSUME NEW dd \in Nat, dd > 0 PROVE dd % dd = 0
      BY <3>1, Z3
    <3> QED
      BY <1>1, <1>2, <3>1
  <2> QED
    BY <1>1, <2>1 DEF Times
<1>3. CASE x + 1 < H * H
  <2>1. (x + 1) % (H * H) = x + 1
    <3>1. ASSUME NEW dd \in Nat, NEW z \in Nat, z < dd PROVE z % dd = z
      BY <3>1, Z3
    <3> QED
      BY <1>1, <1>3, <3>1
  <2>2. x + 1 \in Times
    BY <1>1, <1>3 DEF Times
  <2>3. x \div H <= (x + 1) \div H
    BY <1>1, <2>2, TimesCompare, TimeWords DEF TimerWords
  <2> QED
    BY <2>1, <2>2, <2>3
<1> QED
  BY <1>1, <1>2, <1>3

(***************************************************************************)
(* The machine timer.  While the deadline is rewritten the high word of    *)
(* the compare register is all ones, so that nothing is due until the      *)
(* counter's high word is; stage 1 is the compare of one edge ago.         *)
(***************************************************************************)
TimerTypes ==
  /\ mtime_q \in Times /\ mtimecmp_q \in [hi : TimerWords, lo : TimerWords]
  /\ ge_hi_q \in BOOLEAN /\ eq_hi_q \in BOOLEAN /\ ge_lo_q \in BOOLEAN /\ mtip_q \in BOOLEAN
  /\ next \in Times /\ step \in 1..3
  /\ due_q \in BOOLEAN /\ due_qq \in BOOLEAN

Deadline ==
  /\ step = 1 => \E d \in Times : /\ armed = <<d>>
                                  /\ mtimecmp_q.hi = d \div H /\ mtimecmp_q.lo = d % H
  /\ step # 1 => armed = << >> /\ mtimecmp_q.hi = H - 1
  /\ step = 3 => mtimecmp_q.lo = next % H

Stage1 ==
  (mtime_q >= 1 /\ mtime_hi < H - 1) => ((ge_hi_q \/ (eq_hi_q /\ ge_lo_q)) <=> due_q)

Stage2 == (mtime_q >= 2 /\ mtime_hi < H - 1) => (mtip_q <=> due_qq)

TimerInv == TimerTypes /\ Deadline /\ Stage1 /\ Stage2

\* Stage 1 of the compare decides against the deadline in force.
LEMMA CompareIsDue ==
  ASSUME TimerTypes, Deadline, mtime_hi < H - 1
  PROVE  (mtime_hi > mtimecmp_q.hi \/ (mtime_hi = mtimecmp_q.hi /\ ge_lo))
         <=> (armed # << >> /\ mtime_q >= armed[1])
<1>1. CASE step = 1
  <2>1. PICK d \in Times : /\ armed = <<d>>
                           /\ mtimecmp_q.hi = d \div H /\ mtimecmp_q.lo = d % H
    BY <1>1 DEF Deadline
  <2>2. armed # << >> /\ armed[1] = d /\ mtime_q \in Times
    BY <2>1 DEF TimerTypes
  <2>3. mtime_q >= d <=> \/ mtime_q \div H > d \div H
                         \/ (mtime_q \div H = d \div H /\ mtime_q % H >= d % H)
    BY <2>2, TimesCompare
  <2> QED
    BY <2>1, <2>2, <2>3 DEF mtime_hi, ge_lo, mtime_lo
<1>2. CASE step # 1
  <2>1. armed = << >> /\ mtimecmp_q.hi = H - 1
    BY <1>2 DEF Deadline
  <2>2. mtime_hi \in Nat /\ H \in Nat
    BY TimeWords, Halves, ClintAssumption DEF mtime_hi, TimerTypes
  <2> QED
    BY <2>1, <2>2
<1> QED
  BY <1>1, <1>2

\* One clock edge, whatever the bus commits.
LEMMA ClockStep ==
  ASSUME TimerInv, NEW w, Clock(w)
  PROVE  /\ mtime_q' \in Times /\ ge_hi_q' \in BOOLEAN /\ eq_hi_q' \in BOOLEAN
         /\ ge_lo_q' \in BOOLEAN /\ mtip_q' \in BOOLEAN /\ due_q' \in BOOLEAN /\ due_qq' \in BOOLEAN
         /\ Stage1' /\ Stage2'
<1>1. /\ mtime_q \in Times /\ mtime_q' = (mtime_q + 1) % (H * H)
      /\ ge_hi_q' = (mtime_hi > mtimecmp_q.hi) /\ eq_hi_q' = (mtime_hi = mtimecmp_q.hi)
      /\ ge_lo_q' = ge_lo /\ mtip_q' = (ge_hi_q \/ (eq_hi_q /\ ge_lo_q))
      /\ due_q' = (armed # << >> /\ mtime_q >= armed[1]) /\ due_qq' = due_q
  BY DEF TimerInv, TimerTypes, Clock, Count, Compare
<1>2. mtime_q' \in Times
  BY <1>1, CountIs
<1>3. /\ ge_hi_q' \in BOOLEAN /\ eq_hi_q' \in BOOLEAN /\ ge_lo_q' \in BOOLEAN
      /\ mtip_q' \in BOOLEAN /\ due_q' \in BOOLEAN /\ due_qq' \in BOOLEAN
  BY <1>1 DEF TimerInv, TimerTypes, ge_lo
<1>4. ASSUME mtime_q' >= 1, mtime_hi' < H - 1
      PROVE  mtime_q' = mtime_q + 1 /\ mtime_hi < H - 1
  <2>1. mtime_q' = mtime_q + 1 /\ mtime_q \div H <= (mtime_q + 1) \div H
    BY <1>1, <1>4, CountIs
  <2>2. mtime_q \div H \in Nat /\ mtime_q' \div H \in Nat /\ H \in Nat
    BY <1>1, <1>2, TimeWords, Halves, ClintAssumption
  <2> QED
    BY <1>4, <2>1, <2>2 DEF mtime_hi
<1>5. Stage1'
  <2> SUFFICES ASSUME mtime_q' >= 1, mtime_hi' < H - 1
               PROVE  (ge_hi_q' \/ (eq_hi_q' /\ ge_lo_q')) <=> due_q'
    BY DEF Stage1
  <2>1. (mtime_hi > mtimecmp_q.hi \/ (mtime_hi = mtimecmp_q.hi /\ ge_lo))
        <=> (armed # << >> /\ mtime_q >= armed[1])
    BY <1>4, CompareIsDue DEF TimerInv
  <2> QED
    BY <1>1, <2>1, Zenon
<1>6. Stage2'
  <2> SUFFICES ASSUME mtime_q' >= 2, mtime_hi' < H - 1
               PROVE  mtip_q' <=> due_qq'
    BY DEF Stage2
  <2>1. mtime_q \in Nat /\ mtime_q' \in Nat
    BY <1>1, <1>2, TimeWords
  <2>2. mtime_q' >= 1
    BY <2>1
  <2>3. mtime_q >= 1 /\ mtime_hi < H - 1
    BY <1>4, <2>1, <2>2
  <2>4. (ge_hi_q \/ (eq_hi_q /\ ge_lo_q)) <=> due_q
    BY <2>3 DEF TimerInv, Stage1
  <2> QED
    BY <1>1, <2>4, Zenon
<1> QED
  BY <1>2, <1>3, <1>5, <1>6

\* The timer is in order after reset.
LEMMA TimerStart == TimerInit => TimerInv
<1> SUFFICES ASSUME TimerInit PROVE TimerInv
  OBVIOUS
<1>1. H \in Nat /\ H > 1 /\ H * H \in Nat /\ H * H > 0 /\ H * H - 1 \in Times /\ 0 \in Times
  <2>1. H \in Nat /\ H > 1 /\ H * H \in Nat /\ H * H > 0
    BY ClintAssumption, Z3
  <2> QED
    BY <2>1 DEF Times
<1>2. TimerTypes
  <2>1. mtimecmp_q \in [hi : TimerWords, lo : TimerWords]
    BY <1>1 DEF TimerInit, TimerWords
  <2>2. /\ ge_hi_q \in BOOLEAN /\ eq_hi_q \in BOOLEAN /\ ge_lo_q \in BOOLEAN /\ mtip_q \in BOOLEAN
        /\ due_q \in BOOLEAN /\ due_qq \in BOOLEAN
    BY DEF TimerInit
  <2>3. mtime_q \in Times /\ next \in Times /\ step \in 1..3
    BY <1>1 DEF TimerInit
  <2> QED
    BY <2>1, <2>2, <2>3 DEF TimerTypes
<1>3. Deadline
  <2>1. (H * H - 1) \div H = H - 1 /\ (H * H - 1) % H = H - 1
    <3>1. H * H - 1 = H * (H - 1) + (H - 1) /\ H - 1 \in 0..H-1
      BY <1>1, Z3
    <3> QED
      BY <1>1, <3>1, Z3
  <2> QED
    BY <1>1, <2>1 DEF TimerInit, Deadline
<1>4. Stage1 /\ Stage2
  BY DEF TimerInit, Stage1, Stage2
<1> QED
  BY <1>2, <1>3, <1>4 DEF TimerInv

\* Every edge keeps the timer in order.
LEMMA TimerStep == TimerInv /\ [TimerNext]_timerVars => TimerInv'
<1> SUFFICES ASSUME TimerInv, [TimerNext]_timerVars PROVE TimerInv'
  OBVIOUS
<1>1. /\ mtimecmp_q \in [hi : TimerWords, lo : TimerWords] /\ next \in Times /\ Deadline
      /\ step \in 1..3 /\ H \in Nat /\ H > 1
  BY ClintAssumption DEF TimerInv, TimerTypes
<1>2. ASSUME NEW w, Clock(w), Deadline', next' \in Times, step' \in 1..3,
             mtimecmp_q' \in [hi : TimerWords, lo : TimerWords]
      PROVE  TimerInv'
  BY <1>2, ClockStep DEF TimerInv, TimerTypes
<1>3. CASE Quiet
  <2>1. Clock(<< >>) /\ mtimecmp_q' = mtimecmp_q /\ UNCHANGED <<armed, next, step>>
    BY <1>3 DEF Quiet, Clock, Commit
  <2>2. Deadline'
    BY <1>1, <2>1 DEF Deadline
  <2> QED
    BY <1>1, <1>2, <2>1, <2>2
<1>4. CASE StrayStore
  <2>1. PICK v \in TimerWords : Clock(Word("mtime", v))
    BY <1>4 DEF StrayStore
  <2>2. mtimecmp_q' = mtimecmp_q /\ UNCHANGED <<armed, next, step>>
    BY <1>4, <2>1 DEF StrayStore, Clock, Commit, Word
  <2>3. Deadline'
    BY <1>1, <2>2 DEF Deadline
  <2> QED
    BY <1>1, <1>2, <2>1, <2>2, <2>3
<1>5. CASE Disarm
  <2>1. /\ Clock(Word("hi", H - 1)) /\ mtimecmp_q' = [mtimecmp_q EXCEPT !.hi = H - 1]
        /\ next' \in Times /\ armed' = << >> /\ step' = 2
    BY <1>5 DEF Disarm, Clock, Commit, Word
  <2>2. /\ mtimecmp_q' \in [hi : TimerWords, lo : TimerWords] /\ mtimecmp_q'.hi = H - 1
    BY <1>1, <2>1 DEF TimerWords
  <2>3. Deadline'
    BY <2>1, <2>2 DEF Deadline
  <2> QED
    BY <1>2, <2>1, <2>2, <2>3
<1>6. CASE SetLow
  <2>1. /\ Clock(Word("lo", next % H)) /\ mtimecmp_q' = [mtimecmp_q EXCEPT !.lo = next % H]
        /\ armed' = armed /\ next' = next /\ step = 2 /\ step' = 3
    BY <1>6 DEF SetLow, Clock, Commit, Word
  <2>2. next % H \in TimerWords
    BY <1>1, TimeWords
  <2>3. /\ mtimecmp_q' \in [hi : TimerWords, lo : TimerWords]
        /\ mtimecmp_q'.hi = mtimecmp_q.hi /\ mtimecmp_q'.lo = next % H
    BY <1>1, <2>1, <2>2
  <2>4. Deadline'
    BY <1>1, <2>1, <2>3 DEF Deadline
  <2> QED
    BY <1>1, <1>2, <2>1, <2>3, <2>4
<1>7. CASE SetHigh
  <2>1. /\ Clock(Word("hi", next \div H)) /\ mtimecmp_q' = [mtimecmp_q EXCEPT !.hi = next \div H]
        /\ armed' = <<next>> /\ next' = next /\ step = 3 /\ step' = 1
    BY <1>7 DEF SetHigh, Clock, Commit, Word
  <2>2. next \div H \in TimerWords /\ mtimecmp_q.lo = next % H
    BY <1>1, <2>1, TimeWords DEF Deadline
  <2>3. /\ mtimecmp_q' \in [hi : TimerWords, lo : TimerWords]
        /\ mtimecmp_q'.hi = next \div H /\ mtimecmp_q'.lo = next % H
    BY <1>1, <2>1, <2>2
  <2>4. Deadline'
    BY <1>1, <2>1, <2>3 DEF Deadline
  <2> QED
    BY <1>1, <1>2, <2>1, <2>3, <2>4
<1>8. CASE UNCHANGED timerVars
  BY <1>8 DEF timerVars, timerRegs, TimerInv, TimerTypes, Deadline, Stage1, Stage2, mtime_hi
<1> QED
  BY <1>3, <1>4, <1>5, <1>6, <1>7, <1>8 DEF TimerNext

(***************************************************************************)
(* For every size of a word: the interrupt of clint_timer.sv is exactly    *)
(* the compare of the two-word counter with the deadline in force, two     *)
(* edges late, with no pulse while software rewrites the deadline word by  *)
(* word, until the high word of the counter is all ones.                   *)
(***************************************************************************)
THEOREM TimerDeadlineExact == TimerSpec => []DeadlineExact
<1>1. TimerInv => DeadlineExact
  <2> SUFFICES ASSUME TimerInv, mtime_q >= 2, mtime_hi < H - 1 PROVE mtip_q = due_qq
    BY DEF DeadlineExact
  <2>1. mtip_q \in BOOLEAN /\ due_qq \in BOOLEAN /\ (mtip_q <=> due_qq)
    BY DEF TimerInv, TimerTypes, Stage2
  <2>2. CASE mtip_q = TRUE
    BY <2>1, <2>2
  <2>3. CASE mtip_q = FALSE
    BY <2>1, <2>3
  <2> QED
    BY <2>1, <2>2, <2>3
<1> QED
  BY <1>1, TimerStart, TimerStep, PTL DEF TimerSpec

(***************************************************************************)
(* The branch predictor: the push-time lookup.                             *)
(***************************************************************************)
LEMMA PairIsLookup ==
  ASSUME NEW pc \in SUBSET (1..IDX_W)
  PROVE  /\ push_pred_lo(pc) = Direction(lookup_index(pc \ {1}))
         /\ push_pred_hi(pc) = Direction(lookup_index(pc \cup {1}))
<1> DEFINE P == {bb - 1 : bb \in pc \ {1}}
           lo == IF 0 \in ghr_q THEN Pair(pc) \cup {0} ELSE Pair(pc)
           hi == IF 0 \in ghr_q THEN Pair(pc) ELSE Pair(pc) \cup {0}
<1>1. 0 \notin P
  <2> SUFFICES ASSUME NEW bb \in pc \ {1}, bb - 1 = 0 PROVE FALSE
    OBVIOUS
  <2>1. bb \in 1..IDX_W /\ bb # 1
    OBVIOUS
  <2> QED
    BY <2>1, PredictorAssumption
<1>2. {bb - 1 : bb \in pc \cup {1}} = P \cup {0}
  <2>1. \A x : x \in {bb - 1 : bb \in pc \cup {1}} <=> x \in P \/ x = 0
    <3> TAKE x
    <3>1. ASSUME x \in {bb - 1 : bb \in pc \cup {1}} PROVE x \in P \/ x = 0
      <4>1. PICK bb \in pc \cup {1} : x = bb - 1
        BY <3>1
      <4>2. CASE bb = 1
        BY <4>1, <4>2
      <4>3. CASE bb # 1
        BY <4>1, <4>3
      <4> QED
        BY <4>2, <4>3
    <3>2. ASSUME x \in P PROVE x \in {bb - 1 : bb \in pc \cup {1}}
      BY <3>2
    <3>3. ASSUME x = 0 PROVE x \in {bb - 1 : bb \in pc \cup {1}}
      <4>1. 1 \in pc \cup {1} /\ x = 1 - 1
        BY <3>3
      <4> QED
        BY <4>1
    <3> QED
      BY <3>1, <3>2, <3>3
  <2> QED
    BY <2>1
<1>3. Pair(pc) = Xor(P, ghr_q \ {0})
  BY DEF Pair
<1>4. lookup_index(pc \ {1}) = Xor(P, ghr_q)
  BY DEF lookup_index
<1>5. lookup_index(pc \cup {1}) = Xor(P \cup {0}, ghr_q)
  BY <1>2 DEF lookup_index
<1> HIDE DEF P
<1>6. Xor(P, ghr_q) = lo
  BY <1>1, <1>3 DEF Xor
<1>7. Xor(P \cup {0}, ghr_q) = hi
  BY <1>1, <1>3 DEF Xor
<1>8. push_pred_lo(pc) = Direction(lo) /\ push_pred_hi(pc) = Direction(hi)
  BY DEF push_pred_lo, push_pred_hi
<1> HIDE DEF lo, hi
<1>9. lookup_index(pc \ {1}) = lo /\ lookup_index(pc \cup {1}) = hi
  BY <1>4, <1>5, <1>6, <1>7
<1> QED
  BY <1>8, <1>9, Zenon

(***************************************************************************)
(* The return-address stack: the count slots below the pointer, going      *)
(* round, are the callers, innermost last.                                 *)
(***************************************************************************)
Slot(k) == (ras_ptr_q - ras_cnt_q + k - 1) % RAS_DEPTH

RasInv ==
  /\ ras_ptr_q \in 0..RAS_DEPTH-1 /\ ras_cnt_q \in 0..RAS_DEPTH
  /\ ras_q \in [0..RAS_DEPTH-1 -> ReturnPcs]
  /\ callers \in Seq(ReturnPcs) /\ Len(callers) = ras_cnt_q
  /\ \A k \in 1..ras_cnt_q : callers[k] = ras_q[Slot(k)]

\* Remainders of the numbers the stack pointer can reach.
LEMMA Wrap ==
  ASSUME NEW x \in -RAS_DEPTH..RAS_DEPTH
  PROVE  x % RAS_DEPTH = IF x < 0 THEN x + RAS_DEPTH ELSE IF x = RAS_DEPTH THEN 0 ELSE x
<1>1. RAS_DEPTH \in Nat /\ RAS_DEPTH > 0
  BY PredictorAssumption
<1>2. CASE x < 0
  <2>1. x + RAS_DEPTH \in 0..RAS_DEPTH-1 /\ x = RAS_DEPTH * (-1) + (x + RAS_DEPTH)
    BY <1>1, <1>2
  <2>2. x % RAS_DEPTH = x + RAS_DEPTH
    BY <1>1, <2>1, Z3
  <2> QED
    BY <1>2, <2>2
<1>3. CASE x >= 0 /\ x < RAS_DEPTH
  <2>1. x % RAS_DEPTH = x
    BY <1>1, <1>3, Z3
  <2> QED
    BY <1>1, <1>3, <2>1
<1>4. CASE x = RAS_DEPTH
  <2>1. RAS_DEPTH % RAS_DEPTH = 0
    BY <1>1, Z3
  <2> QED
    BY <1>1, <1>4, <2>1
<1> QED
  BY <1>1, <1>2, <1>3, <1>4

\* A call: the new top is the slot the pointer showed; the slots of the
\* callers that stay are the same, and none of them is overwritten.
LEMMA CallSlots ==
  ASSUME RasInv, NEW p \in ReturnPcs, TrainCall(p),
         NEW s, s = IF ras_cnt_q = RAS_DEPTH THEN 1 ELSE 0,
         NEW k \in 1..ras_cnt_q'
  PROVE  /\ k + s \in 1..ras_cnt_q + 1
         /\ k + s = ras_cnt_q + 1 => (ras_ptr_q' - ras_cnt_q' + k - 1) % RAS_DEPTH = ras_ptr_q
         /\ k + s # ras_cnt_q + 1 => /\ (ras_ptr_q' - ras_cnt_q' + k - 1) % RAS_DEPTH = Slot(k + s)
                                     /\ Slot(k + s) # ras_ptr_q
                                     /\ Slot(k + s) \in 0..RAS_DEPTH-1
<1>1. /\ RAS_DEPTH \in Nat /\ RAS_DEPTH > 0 /\ ras_ptr_q \in 0..RAS_DEPTH-1
      /\ ras_cnt_q \in 0..RAS_DEPTH /\ s \in 0..1
      /\ ras_cnt_q' = IF ras_cnt_q = RAS_DEPTH THEN ras_cnt_q ELSE ras_cnt_q + 1
      /\ ras_ptr_q' = (ras_ptr_q + 1) % RAS_DEPTH
  BY PredictorAssumption DEF RasInv, TrainCall
<1>2. ras_ptr_q' = IF ras_ptr_q + 1 = RAS_DEPTH THEN 0 ELSE ras_ptr_q + 1
  BY <1>1, Wrap
<1>3. k + s \in 1..ras_cnt_q + 1
  BY <1>1
<1> DEFINE x == ras_ptr_q - ras_cnt_q + (k + s) - 1
           y == ras_ptr_q' - ras_cnt_q' + k - 1
<1>4. y \in -RAS_DEPTH..RAS_DEPTH
  BY <1>1, <1>2
<1>5. y % RAS_DEPTH = IF y < 0 THEN y + RAS_DEPTH ELSE IF y = RAS_DEPTH THEN 0 ELSE y
  BY <1>4, Wrap
<1>6. ASSUME k + s = ras_cnt_q + 1 PROVE y % RAS_DEPTH = ras_ptr_q
  BY <1>1, <1>2, <1>5, <1>6
<1>7. ASSUME k + s # ras_cnt_q + 1
      PROVE  y % RAS_DEPTH = Slot(k + s) /\ Slot(k + s) # ras_ptr_q /\ Slot(k + s) \in 0..RAS_DEPTH-1
  <2>1. x \in -RAS_DEPTH..RAS_DEPTH
    BY <1>1, <1>3
  <2>2. x % RAS_DEPTH = IF x < 0 THEN x + RAS_DEPTH ELSE IF x = RAS_DEPTH THEN 0 ELSE x
    BY <2>1, Wrap
  <2>3. Slot(k + s) = x % RAS_DEPTH
    BY DEF Slot
  <2> QED
    BY <1>1, <1>2, <1>3, <1>5, <1>7, <2>2, <2>3
<1> QED
  BY <1>3, <1>6, <1>7

\* A call keeps the stack that of the newest callers.
LEMMA CallKeepsStack ==
  ASSUME RasInv, NEW p \in ReturnPcs, TrainCall(p)
  PROVE  RasInv'
<1> DEFINE s == IF ras_cnt_q = RAS_DEPTH THEN 1 ELSE 0
           A == Append(callers, p)
<1>1. /\ RAS_DEPTH \in Nat /\ RAS_DEPTH > 0 /\ ras_ptr_q \in 0..RAS_DEPTH-1
      /\ ras_cnt_q \in 0..RAS_DEPTH /\ s \in 0..1
      /\ ras_q \in [0..RAS_DEPTH-1 -> ReturnPcs]
      /\ callers \in Seq(ReturnPcs) /\ Len(callers) = ras_cnt_q
  BY PredictorAssumption DEF RasInv
<1>2. /\ ras_q' = [ras_q EXCEPT ![ras_ptr_q] = p]
      /\ ras_cnt_q' = IF ras_cnt_q = RAS_DEPTH THEN ras_cnt_q ELSE ras_cnt_q + 1
      /\ ras_ptr_q' = (ras_ptr_q + 1) % RAS_DEPTH
      /\ callers' = LastOf(RAS_DEPTH, A)
  BY DEF TrainCall
<1>3. ras_ptr_q' \in 0..RAS_DEPTH-1
  <2>1. ras_ptr_q + 1 \in -RAS_DEPTH..RAS_DEPTH
    BY <1>1
  <2>2. ras_ptr_q' = IF ras_ptr_q + 1 < 0 THEN ras_ptr_q + 1 + RAS_DEPTH
                     ELSE IF ras_ptr_q + 1 = RAS_DEPTH THEN 0 ELSE ras_ptr_q + 1
    BY <1>2, <2>1, Wrap
  <2> QED
    BY <1>1, <2>2
<1>4. ras_cnt_q' \in 0..RAS_DEPTH /\ ras_cnt_q' + s = ras_cnt_q + 1
  BY <1>1, <1>2
<1>5. ras_q' \in [0..RAS_DEPTH-1 -> ReturnPcs]
  BY <1>1, <1>2
<1>6. /\ A \in Seq(ReturnPcs) /\ Len(A) = ras_cnt_q + 1
      /\ \A j \in 1..ras_cnt_q + 1 : A[j] = IF j = ras_cnt_q + 1 THEN p ELSE callers[j]
  BY <1>1
<1> HIDE DEF A
<1>7. /\ callers' \in Seq(ReturnPcs) /\ Len(callers') = ras_cnt_q'
      /\ \A j \in 1..ras_cnt_q' : callers'[j] = A[j + s]
  <2>1. CASE ras_cnt_q = RAS_DEPTH
    <3>1. callers' = SubSeq(A, 2, ras_cnt_q + 1) /\ s = 1 /\ ras_cnt_q' = ras_cnt_q
      BY <1>1, <1>2, <1>6, <2>1 DEF LastOf
    <3>2. \A j \in 2..ras_cnt_q + 1 : A[j] \in ReturnPcs
      BY <1>1, <1>6
    <3>3. /\ SubSeq(A, 2, ras_cnt_q + 1) \in Seq(ReturnPcs)
          /\ Len(SubSeq(A, 2, ras_cnt_q + 1)) =
                IF 2 <= ras_cnt_q + 1 THEN (ras_cnt_q + 1) - 2 + 1 ELSE 0
          /\ \A j \in 1..(ras_cnt_q + 1) - 2 + 1 : SubSeq(A, 2, ras_cnt_q + 1)[j] = A[2 + j - 1]
      BY <1>1, <3>2, SubSeqProperties
    <3>4. ASSUME NEW j \in 1..ras_cnt_q PROVE SubSeq(A, 2, ras_cnt_q + 1)[j] = A[j + 1]
      <4>1. j \in 1..(ras_cnt_q + 1) - 2 + 1 /\ 2 + j - 1 = j + 1
        BY <1>1, <3>4
      <4> QED
        BY <3>3, <4>1
    <3> QED
      BY <1>1, <2>1, <3>1, <3>3, <3>4
  <2>2. CASE ras_cnt_q # RAS_DEPTH
    <3>1. callers' = A /\ s = 0 /\ ras_cnt_q' = ras_cnt_q + 1
      BY <1>1, <1>2, <1>6, <2>2 DEF LastOf
    <3> QED
      BY <1>1, <1>6, <3>1
  <2> QED
    BY <2>1, <2>2
<1>8. ASSUME NEW k \in 1..ras_cnt_q'
      PROVE  callers'[k] = ras_q'[(ras_ptr_q' - ras_cnt_q' + k - 1) % RAS_DEPTH]
  <2>1. callers'[k] = A[k + s] /\ k + s \in 1..ras_cnt_q + 1
    <3>1. callers'[k] = A[k + s]
      BY <1>7, <1>8
    <3>2. k + s \in 1..ras_cnt_q + 1
      BY <1>1, <1>4, <1>8
    <3> QED
      BY <3>1, <3>2
  <2>2. CASE k + s = ras_cnt_q + 1
    <3>1. (ras_ptr_q' - ras_cnt_q' + k - 1) % RAS_DEPTH = ras_ptr_q
      BY <1>8, <2>2, CallSlots
    <3> QED
      BY <1>1, <1>2, <1>6, <2>1, <2>2, <3>1
  <2>3. CASE k + s # ras_cnt_q + 1
    <3>1. /\ (ras_ptr_q' - ras_cnt_q' + k - 1) % RAS_DEPTH = Slot(k + s)
          /\ Slot(k + s) # ras_ptr_q /\ Slot(k + s) \in 0..RAS_DEPTH-1
      BY <1>8, <2>3, CallSlots
    <3>2. k + s \in 1..ras_cnt_q
      BY <1>1, <2>1, <2>3
    <3>3. callers[k + s] = ras_q[Slot(k + s)]
      BY <3>2 DEF RasInv
    <3> QED
      BY <1>1, <1>2, <1>6, <2>1, <2>3, <3>1, <3>3
  <2> QED
    BY <2>2, <2>3
<1> QED
  BY <1>3, <1>4, <1>5, <1>7, <1>8 DEF RasInv, Slot

\* A return takes the top away; from an empty stack it moves only the pointer.
LEMMA ReturnKeepsStack ==
  ASSUME RasInv, TrainReturn
  PROVE  RasInv'
<1>1. /\ RAS_DEPTH \in Nat /\ RAS_DEPTH > 0 /\ ras_ptr_q \in 0..RAS_DEPTH-1
      /\ ras_cnt_q \in 0..RAS_DEPTH
      /\ callers \in Seq(ReturnPcs) /\ Len(callers) = ras_cnt_q
  BY PredictorAssumption DEF RasInv
<1>2. /\ ras_q' = ras_q /\ ras_cnt_q' = next_cnt /\ ras_ptr_q' = (ras_ptr_q - 1) % RAS_DEPTH
      /\ callers' = IF callers = << >> THEN << >> ELSE SubSeq(callers, 1, Len(callers) - 1)
  BY DEF TrainReturn
<1>3. ras_ptr_q' = IF ras_ptr_q = 0 THEN RAS_DEPTH - 1 ELSE ras_ptr_q - 1
  <2>1. ras_ptr_q - 1 \in -RAS_DEPTH..RAS_DEPTH
    BY <1>1
  <2>2. ras_ptr_q' = IF ras_ptr_q - 1 < 0 THEN ras_ptr_q - 1 + RAS_DEPTH
                     ELSE IF ras_ptr_q - 1 = RAS_DEPTH THEN 0 ELSE ras_ptr_q - 1
    BY <1>2, <2>1, Wrap
  <2> QED
    BY <1>1, <2>2
<1>4. ras_ptr_q' \in 0..RAS_DEPTH-1
  BY <1>1, <1>3
<1>5. CASE ras_cnt_q = 0
  <2>1. callers = << >> /\ callers' = << >> /\ ras_cnt_q' = 0
    BY <1>1, <1>2, <1>5 DEF next_cnt
  <2> QED
    BY <1>1, <1>2, <1>4, <2>1 DEF RasInv
<1>6. CASE ras_cnt_q # 0
  <2>1. callers # << >> /\ ras_cnt_q' = ras_cnt_q - 1 /\ ras_cnt_q' \in 0..RAS_DEPTH
    BY <1>1, <1>2, <1>6 DEF next_cnt
  <2>2. callers' = SubSeq(callers, 1, ras_cnt_q - 1)
    BY <1>1, <1>2, <2>1
  <2>3. /\ callers' \in Seq(ReturnPcs) /\ Len(callers') = ras_cnt_q'
        /\ \A k \in 1..ras_cnt_q' : callers'[k] = callers[k]
    <3>1. \A k \in 1..ras_cnt_q - 1 : callers[k] \in ReturnPcs
      BY <1>1
    <3>2. /\ SubSeq(callers, 1, ras_cnt_q - 1) \in Seq(ReturnPcs)
          /\ Len(SubSeq(callers, 1, ras_cnt_q - 1)) =
                IF 1 <= ras_cnt_q - 1 THEN (ras_cnt_q - 1) - 1 + 1 ELSE 0
          /\ \A k \in 1..(ras_cnt_q - 1) - 1 + 1 :
               SubSeq(callers, 1, ras_cnt_q - 1)[k] = callers[1 + k - 1]
      BY <1>1, <3>1, SubSeqProperties
    <3>3. ASSUME NEW k \in 1..ras_cnt_q'
          PROVE  SubSeq(callers, 1, ras_cnt_q - 1)[k] = callers[k]
      <4>1. k \in 1..(ras_cnt_q - 1) - 1 + 1 /\ 1 + k - 1 = k
        BY <1>1, <2>1, <3>3
      <4> QED
        BY <3>2, <4>1
    <3> QED
      BY <1>1, <1>6, <2>1, <2>2, <3>2, <3>3
  <2>4. ASSUME NEW k \in 1..ras_cnt_q'
        PROVE  callers'[k] = ras_q'[(ras_ptr_q' - ras_cnt_q' + k - 1) % RAS_DEPTH]
    <3> DEFINE x == ras_ptr_q - ras_cnt_q + k - 1
               y == ras_ptr_q' - ras_cnt_q' + k - 1
    <3>1. x \in -RAS_DEPTH..RAS_DEPTH /\ y \in -RAS_DEPTH..RAS_DEPTH /\ k \in 1..ras_cnt_q
      BY <1>1, <1>3, <2>1, <2>4
    <3>2. /\ x % RAS_DEPTH = IF x < 0 THEN x + RAS_DEPTH ELSE IF x = RAS_DEPTH THEN 0 ELSE x
          /\ y % RAS_DEPTH = IF y < 0 THEN y + RAS_DEPTH ELSE IF y = RAS_DEPTH THEN 0 ELSE y
      BY <3>1, Wrap
    <3>3. y % RAS_DEPTH = x % RAS_DEPTH
      BY <1>1, <1>3, <2>1, <2>4, <3>2
    <3>4. callers[k] = ras_q[x % RAS_DEPTH]
      BY <3>1 DEF RasInv, Slot
    <3> QED
      BY <1>2, <2>3, <2>4, <3>3, <3>4
  <2> QED
    BY <1>2, <1>4, <2>1, <2>3, <2>4 DEF RasInv, Slot
<1> QED
  BY <1>5, <1>6

\* The stack is that of the newest callers in every reachable state.
LEMMA StackAlways == BpSpec => []RasInv
<1>1. BpInit => RasInv
  <2> SUFFICES ASSUME BpInit PROVE RasInv
    OBVIOUS
  <2>1. callers = << >> /\ callers \in Seq(ReturnPcs) /\ Len(callers) = 0
    BY EmptySeq DEF BpInit
  <2> QED
    BY <2>1, PredictorAssumption DEF BpInit, RasInv
<1>2. RasInv /\ [BpNext]_bpVars => RasInv'
  <2> SUFFICES ASSUME RasInv, [BpNext]_bpVars PROVE RasInv'
    OBVIOUS
  <2>1. ASSUME NEW x \in Indices, NEW taken \in BOOLEAN, TrainCond(x, taken) PROVE RasInv'
    BY <2>1 DEF TrainCond, RasInv, Slot
  <2>2. ASSUME NEW p \in ReturnPcs, TrainCall(p) PROVE RasInv'
    BY <2>2, CallKeepsStack
  <2>3. CASE TrainReturn
    BY <2>3, ReturnKeepsStack
  <2>4. CASE UNCHANGED bpVars
    BY <2>4 DEF bpVars, RasInv, Slot
  <2> QED
    BY <2>1, <2>2, <2>3, <2>4 DEF BpNext
<1> QED
  BY <1>1, <1>2, PTL DEF BpSpec

(***************************************************************************)
(* For every depth of the stack and width of the index: however calls      *)
(* overflow the circular stack of branch_predictor.sv and returns run it   *)
(* empty, it holds the return addresses of the last calls not yet returned *)
(* from; and the two bits read when a word is pushed are those that its    *)
(* two halfwords would look up.                                            *)
(***************************************************************************)
THEOREM PredictorIsExact == BpSpec => []PredictorExact
<1>1. RasInv => PredictorExact
  <2> SUFFICES ASSUME RasInv PROVE PredictorExact
    OBVIOUS
  <2>1. /\ callers \in Seq(ReturnPcs) /\ Len(callers) = ras_cnt_q
        /\ \A k \in 1..ras_cnt_q :
             callers[k] = ras_q[(ras_ptr_q - ras_cnt_q + k - 1) % RAS_DEPTH]
    BY DEF RasInv, Slot
  <2>2. callers = [k \in 1..ras_cnt_q |-> callers[k]]
    BY <2>1, LenProperties
  <2>3. callers = [k \in 1..ras_cnt_q |-> ras_q[(ras_ptr_q - ras_cnt_q + k - 1) % RAS_DEPTH]]
    BY <2>1, <2>2
  <2> QED
    BY <2>3, PairIsLookup DEF PredictorExact
<1> QED
  BY <1>1, StackAlways, PTL

(***************************************************************************)
(* The divider. Restoring division takes one bit of the dividend per       *)
(* cycle, from the top. After c cycles the top c bits, the number hi, have *)
(* been divided: hi is the quotient so far times the divisor plus the      *)
(* remainder, and the rest of the dividend stands above the quotient in    *)
(* one register (Divided). A step moves the top bit of that rest over to   *)
(* the remainder (ShiftArith), and after XLEN steps hi is the whole        *)
(* dividend; signs, a zero divisor and the overflow of the most negative   *)
(* number are then a matter of the final selection (ResultExact).          *)
(***************************************************************************)

\* The recursive definition of pow2 has a solution, so pow2 is one.
LEMMA Pow2Def == pow2 = [n \in Nat |-> IF n = 0 THEN 1 ELSE 2 * pow2[n - 1]]
<1> DEFINE P(f) == f = [n \in Nat |-> IF n = 0 THEN 1 ELSE 2 * f[n - 1]]
           g == [n \in Nat |-> [v \in Nat |-> 2 * v]]
<1>1. 1 \in Nat /\ g \in [Nat -> [Nat -> Nat]] /\ \A n, v \in Nat : g[n][v] = 2 * v
  OBVIOUS
<1> HIDE DEF g
<1>2. PICK f : IsRecursion(f, Nat, 1, g)
  BY <1>1, RecursionExists
<1>3. \A n \in Nat : f[n] \in Nat /\ f[n + 1] = 2 * f[n]
  BY <1>1, <1>2 DEF IsRecursion
<1>4. ASSUME NEW n \in Nat, n # 0 PROVE f[n] = 2 * f[n - 1]
  <2>1. n - 1 \in Nat /\ (n - 1) + 1 = n
    BY <1>4
  <2> QED
    BY <1>3, <2>1
<1>5. \E h : P(h)
  BY <1>2, <1>4 DEF IsRecursion
<1>6. pow2 = CHOOSE h : P(h)
  BY DEF pow2
<1> QED
  BY <1>5, <1>6

\* Powers of two are positive numbers, each twice the one before.
LEMMA Pow2Facts ==
  /\ pow2[0] = 1
  /\ \A n \in Nat : pow2[n] \in Nat /\ pow2[n] > 0 /\ pow2[n + 1] = 2 * pow2[n]
<1>1. pow2[0] = 1
  BY Pow2Def
<1>2. ASSUME NEW n \in Nat PROVE pow2[n + 1] = 2 * pow2[n]
  <2>1. pow2[n + 1] = IF n + 1 = 0 THEN 1 ELSE 2 * pow2[(n + 1) - 1]
    BY Pow2Def
  <2> QED
    BY <2>1
<1> DEFINE T == {n \in Nat : pow2[n] \in Nat /\ pow2[n] > 0}
<1>3. 0 \in T
  BY <1>1
<1>4. ASSUME NEW n \in Nat, n \in T PROVE n + 1 \in T
  BY <1>2, <1>4
<1> HIDE DEF T
<1>5. \A n \in Nat : n \in T
  BY <1>3, <1>4, SetInduction
<1> QED
  BY <1>1, <1>2, <1>5 DEF T

\* The product of two powers is the power of the sum.
LEMMA Pow2Add == \A m, n \in Nat : pow2[m + n] = pow2[m] * pow2[n]
<1> TAKE m \in Nat
<1> DEFINE T == {n \in Nat : pow2[m + n] = pow2[m] * pow2[n]}
<1>1. 0 \in T
  BY Pow2Facts
<1>2. ASSUME NEW n \in Nat, n \in T PROVE n + 1 \in T
  <2>1. pow2[m + (n + 1)] = 2 * pow2[m + n] /\ pow2[n + 1] = 2 * pow2[n]
    BY Pow2Facts, m + n \in Nat, m + (n + 1) = (m + n) + 1
  <2>2. pow2[m] \in Nat /\ pow2[n] \in Nat /\ pow2[m + n] = pow2[m] * pow2[n]
    BY <1>2, Pow2Facts
  <2> QED
    BY <2>1, <2>2
<1> HIDE DEF T
<1>3. \A n \in Nat : n \in T
  BY <1>1, <1>2, SetInduction
<1> QED
  BY <1>3 DEF T

\* Quotient and remainder are determined by the division with rest.
LEMMA DivUnique ==
  ASSUME NEW d \in Nat, d > 0, NEW q \in Nat, NEW r \in Nat, r < d
  PROVE  (q * d + r) \div d = q /\ (q * d + r) % d = r
OBVIOUS

\* A word and its negative, reduced to the word size.
LEMMA ModSmall ==
  ASSUME NEW m \in Nat, m > 0, NEW x \in 0 .. m - 1
  PROVE  /\ x % m = x
         /\ (-x) % m = IF x = 0 THEN 0 ELSE m - x
OBVIOUS

\* One shift of the pair, in numbers: the top bit bb of what is left of the
\* dividend moves over into the remainder, and the sum does not wrap.
LEMMA ShiftArith ==
  ASSUME NEW hh \in Nat, NEW C \in Nat, hh > 0, C > 0,
         NEW hi \in Nat, NEW lo \in Nat, NEW Q \in Nat, NEW dd \in Nat, NEW rem \in Nat,
         lo < 2 * hh, hi < C, Q < C, hi = Q * dd + rem
  PROVE  \E bb \in {0, 1}, l \in Nat :
           /\ l < hh /\ lo = bb * hh + l
           /\ (2 * (lo * C + Q)) \div (2 * (hh * C)) = bb
           /\ (2 * (lo * C + Q)) % (2 * (hh * C)) = l * (2 * C) + 2 * Q
           /\ 2 * rem + bb < 2 * (hh * C)
           /\ hi * (2 * hh) + lo = (2 * hi + bb) * hh + l
           /\ 2 * hi + bb < 2 * C
<1>1. PICK bb \in {0, 1}, l \in Nat : l < hh /\ lo = bb * hh + l
  <2>1. CASE lo < hh
    <3>1. 0 \in {0, 1} /\ lo \in Nat /\ lo < hh /\ lo = 0 * hh + lo
      BY <2>1
    <3> QED
      BY <3>1
  <2>2. CASE lo >= hh
    <3>1. 1 \in {0, 1} /\ lo - hh \in Nat /\ lo - hh < hh /\ lo = 1 * hh + (lo - hh)
      BY <2>2
    <3> QED
      BY <3>1
  <2> QED
    BY <2>1, <2>2
<1> DEFINE M == 2 * (hh * C)
           r == l * (2 * C) + 2 * Q
<1>2. hh * C \in Nat /\ hh * C >= C
  <2>1. \E h \in Nat : hh = h + 1
    BY hh - 1 \in Nat, hh = (hh - 1) + 1
  <2>2. PICK h \in Nat : hh = h + 1
    BY <2>1
  <2>3. hh * C = h * C + C /\ h * C \in Nat
    BY <2>2
  <2> QED
    BY <2>3
<1>3. l * C + C <= hh * C /\ l * C \in Nat
  <2>1. PICK h \in Nat : hh = l + 1 + h
    BY <1>1, hh - l - 1 \in Nat, hh = l + 1 + (hh - l - 1)
  <2>2. hh * C = l * C + C + h * C /\ h * C \in Nat /\ l * C \in Nat
    BY <2>1
  <2> QED
    BY <2>2
<1>4. 2 * (lo * C + Q) = bb * M + r
  BY <1>1
<1>5. M \in Nat /\ M > 0 /\ r \in Nat /\ r < M
  BY <1>2, <1>3
<1>6. (bb * M + r) \div M = bb /\ (bb * M + r) % M = r
  <2> HIDE DEF M, r
  <2> QED
    BY <1>1, <1>5, DivUnique
<1>7. Q * dd \in Nat /\ rem <= hi
  OBVIOUS
<1>8. 2 * rem + bb < M
  BY <1>1, <1>2, <1>7
<1>9. hi * (2 * hh) + lo = (2 * hi + bb) * hh + l
  BY <1>1
<1>10. 2 * hi + bb < 2 * C
  BY <1>1
<1>11. (2 * (lo * C + Q)) \div (2 * (hh * C)) = bb
  BY <1>4, <1>6
<1>12. (2 * (lo * C + Q)) % (2 * (hh * C)) = l * (2 * C) + 2 * Q
  BY <1>4, <1>6
<1> HIDE DEF M, r
<1> QED
  BY <1>1, <1>8, <1>9, <1>10, <1>11, <1>12 DEF M

\* The registers of the divider hold words.
DivTypeOK ==
  /\ alu_op \in DivOps /\ operand_a \in WordsX /\ operand_b \in WordsX
  /\ div_state_q \in {"DIV_IDLE", "DIV_RUN", "DIV_DONE"} /\ div_cnt_q \in 0 .. XLEN - 1
  /\ div_a_q \in WordsX /\ div_divisor_q \in WordsX
  /\ div_neg_q \in BOOLEAN /\ div_bz_q \in BOOLEAN
  /\ div_rem_q \in [rem : WordsX, quot : WordsX]

\* After c steps: the top c bits of a, hi, have been divided by d, with the quotient Q
\* below what is left of a in the low half and the remainder in the high one.
Divided(c, a, d, x) ==
  \E hi, lo, Q \in Nat :
    /\ a = hi * pow2[XLEN - c] + lo /\ lo < pow2[XLEN - c] /\ hi < pow2[c]
    /\ x.quot = lo * pow2[c] + Q /\ Q < pow2[c]
    /\ hi = Q * d + x.rem /\ (d > 0 => x.rem < d)

\* The latched magnitudes and signs are those of the operands, and the pair of
\* remainder and quotient has divided as many top bits as the loop counts.
DivInv ==
  /\ DivTypeOK
  /\ div_state_q # "DIV_IDLE" =>
       /\ div_a_q = abs(alu_op, operand_a) /\ div_divisor_q = abs(alu_op, operand_b)
       /\ div_neg_q = result_sign(alu_op, operand_a, operand_b)
       /\ div_bz_q = (operand_b = 0)
  /\ div_state_q = "DIV_RUN" => Divided(div_cnt_q, div_a_q, div_divisor_q, div_rem_q)
  /\ div_state_q = "DIV_DONE" => Divided(XLEN, div_a_q, div_divisor_q, div_rem_q)

\* The modulus is twice the weight of the sign bit.
LEMMA ModulusFacts ==
  /\ Modulus \in Nat /\ Modulus > 1 /\ Modulus = 2 * pow2[XLEN - 1]
  /\ pow2[XLEN - 1] \in Nat /\ Modulus \div 2 = pow2[XLEN - 1]
<1>1. XLEN - 1 \in Nat /\ (XLEN - 1) + 1 = XLEN
  BY DividerAssumption
<1>2. pow2[XLEN] = 2 * pow2[XLEN - 1] /\ pow2[XLEN - 1] \in Nat /\ pow2[XLEN - 1] > 0
  BY <1>1, Pow2Facts
<1> QED
  BY <1>2 DEF Modulus

\* The magnitude of a word is a word.
LEMMA AbsIsWord ==
  ASSUME NEW op, NEW x \in WordsX
  PROVE  abs(op, x) \in WordsX
BY ModulusFacts DEF abs, Neg, Msb, WordsX

\* One cycle of DIV_RUN divides one bit more: the trial subtraction is taken exactly
\* when the divisor fits.
LEMMA StepDivides ==
  ASSUME DivInv, div_state_q = "DIV_RUN", ShiftSubtract
  PROVE  /\ Divided(div_cnt_q + 1, div_a_q, div_divisor_q, div_rem_q')
         /\ div_rem_q' \in [rem : WordsX, quot : WordsX]
<1> DEFINE c == div_cnt_q
           hh == pow2[XLEN - c - 1]
           C == pow2[c]
           d == div_divisor_q
           rem == div_rem_q.rem
<1>1. c \in Nat /\ c < XLEN /\ d \in Nat /\ d < Modulus /\ rem \in Nat /\ XLEN \in Nat
  BY DividerAssumption, ModulusFacts DEF DivInv, DivTypeOK, WordsX
<1>2. XLEN - c - 1 \in Nat /\ XLEN - c = (XLEN - c - 1) + 1 /\ XLEN = (XLEN - c) + c
  BY <1>1
<1>3. hh \in Nat /\ hh > 0 /\ C \in Nat /\ C > 0 /\ pow2[XLEN - c] = 2 * hh /\ pow2[c + 1] = 2 * C
  BY <1>1, <1>2, Pow2Facts
<1>4. Modulus = (2 * hh) * C
  BY <1>1, <1>2, <1>3, Pow2Add DEF Modulus
<1>5. Modulus = 2 * (hh * C)
  BY <1>3, <1>4
<1>6. PICK hi, lo, Q \in Nat :
        /\ div_a_q = hi * (2 * hh) + lo /\ lo < 2 * hh /\ hi < C
        /\ div_rem_q.quot = lo * C + Q /\ Q < C
        /\ hi = Q * d + rem /\ (d > 0 => rem < d)
  BY <1>3 DEF DivInv, Divided
<1> HIDE DEF hh, C, d, rem, c
<1>7. PICK bb \in {0, 1}, l \in Nat :
           /\ l < hh /\ lo = bb * hh + l
           /\ (2 * (lo * C + Q)) \div (2 * (hh * C)) = bb
           /\ (2 * (lo * C + Q)) % (2 * (hh * C)) = l * (2 * C) + 2 * Q
           /\ 2 * rem + bb < 2 * (hh * C)
           /\ hi * (2 * hh) + lo = (2 * hi + bb) * hh + l
           /\ 2 * hi + bb < 2 * C
  BY <1>1, <1>3, <1>6, ShiftArith
<1>8. shifted = [rem |-> 2 * rem + bb, quot |-> l * (2 * C) + 2 * Q]
  <2>1. (2 * rem + bb) % Modulus = 2 * rem + bb
    <3>1. Modulus \in Nat /\ Modulus > 0 /\ 2 * rem + bb \in 0 .. Modulus - 1
      BY <1>1, <1>5, <1>7, ModulusFacts
    <3> QED
      BY <3>1, ModSmall
  <2> QED
    BY <1>5, <1>6, <1>7, <2>1 DEF shifted, rem
<1>9. l * (2 * C) + 2 * Q + 2 <= Modulus /\ l * (2 * C) \in Nat /\ l * (2 * C) + 2 * Q \in Nat
  <2>1. PICK h \in Nat : hh = l + 1 + h
    BY <1>3, <1>7, hh - l - 1 \in Nat, hh = l + 1 + (hh - l - 1)
  <2>2. hh * C = l * C + C + h * C /\ h * C \in Nat /\ l * C \in Nat
    BY <1>3, <2>1
  <2> QED
    BY <2>2, <1>3, <1>5, <1>6
<1>10. Q * d \in Nat /\ 2 * hi + bb \in Nat /\ 2 * hi + bb = 2 * (Q * d) + (2 * rem + bb)
  BY <1>1, <1>6, <1>7
<1>11. XLEN - (c + 1) = XLEN - c - 1
  BY <1>1
<1> DEFINE x == div_rem_q'
<1>12. CASE 2 * rem + bb >= d
  <2>1. x = [rem |-> 2 * rem + bb - d, quot |-> l * (2 * C) + 2 * Q + 1]
    BY <1>8, <1>12, <1>1, <1>7 DEF ShiftSubtract, d
  <2>2. x.rem \in Nat /\ x.quot \in Nat /\ x.rem < Modulus /\ x.quot < Modulus
    BY <2>1, <1>1, <1>5, <1>7, <1>9, <1>12
  <2>3. 2 * hi + bb = (2 * Q + 1) * d + x.rem
    BY <2>1, <1>1, <1>6, <1>10
  <2>4. d > 0 => x.rem < d
    BY <2>1, <1>1, <1>6, <1>7
  <2>5. 2 * Q + 1 \in Nat /\ 2 * Q + 1 < 2 * C /\ x.quot = l * (2 * C) + (2 * Q + 1)
    BY <2>1, <1>3, <1>6, <1>9
  <2>6. Divided(c + 1, div_a_q, d, x)
    <3> HIDE DEF x
    <3>1. div_a_q = (2 * hi + bb) * hh + l /\ l < hh /\ 2 * hi + bb < 2 * C
      BY <1>6, <1>7
    <3> QED
      BY <3>1, <2>3, <2>4, <2>5, <1>10, <1>7, <1>3, <1>11 DEF Divided, hh
  <2>7. x \in [rem : WordsX, quot : WordsX]
    BY <2>1, <2>2, ModulusFacts DEF WordsX
  <2> QED
    BY <2>6, <2>7 DEF c, d
<1>13. CASE 2 * rem + bb < d
  <2>1. x = [rem |-> 2 * rem + bb, quot |-> l * (2 * C) + 2 * Q]
    BY <1>8, <1>13, <1>1, <1>7 DEF ShiftSubtract, d
  <2>2. x.rem \in Nat /\ x.quot \in Nat /\ x.rem < Modulus /\ x.quot < Modulus
    BY <2>1, <1>1, <1>5, <1>7, <1>9, <1>13
  <2>3. 2 * hi + bb = (2 * Q) * d + x.rem
    BY <2>1, <1>1, <1>6, <1>10
  <2>4. d > 0 => x.rem < d
    BY <2>1, <1>13
  <2>5. 2 * Q \in Nat /\ 2 * Q < 2 * C /\ x.quot = l * (2 * C) + (2 * Q)
    BY <2>1, <1>3, <1>6, <1>9
  <2>6. Divided(c + 1, div_a_q, d, x)
    <3> HIDE DEF x
    <3>1. div_a_q = (2 * hi + bb) * hh + l /\ l < hh /\ 2 * hi + bb < 2 * C
      BY <1>6, <1>7
    <3> QED
      BY <3>1, <2>3, <2>4, <2>5, <1>10, <1>7, <1>3, <1>11 DEF Divided, hh
  <2>7. x \in [rem : WordsX, quot : WordsX]
    BY <2>1, <2>2, ModulusFacts DEF WordsX
  <2> QED
    BY <2>6, <2>7 DEF c, d
<1> QED
  BY <1>12, <1>13, <1>1, <1>7

\* The idle divider satisfies the invariant.
LEMMA DivInvInit == DivInit => DivInv
<1>1. 0 \in WordsX /\ 0 \in 0 .. XLEN - 1
  BY DividerAssumption, ModulusFacts DEF WordsX
<1> SUFFICES ASSUME DivInit PROVE DivInv
  OBVIOUS
<1>2. div_rem_q \in [rem : WordsX, quot : WordsX]
  <2>1. div_rem_q = [rem |-> 0, quot |-> 0]
    BY DEF DivInit
  <2> QED
    BY <1>1, <2>1
<1>3. div_neg_q \in BOOLEAN /\ div_bz_q \in BOOLEAN
  BY DEF DivInit
<1>4. DivTypeOK
  BY <1>1, <1>2, <1>3 DEF DivInit, DivTypeOK, DivOps
<1> QED
  BY <1>4 DEF DivInit, DivInv

\* Launch, loop and completion keep the invariant.
LEMMA DivInvNext == DivInv /\ [DivNext]_divVars => DivInv'
<1> SUFFICES ASSUME DivInv, [DivNext]_divVars PROVE DivInv'
  OBVIOUS
<1>1. ASSUME NEW op \in DivOps, NEW a \in WordsX, NEW bb \in WordsX, Launch_div(op, a, bb)
      PROVE  DivInv'
  <2> DEFINE A == abs(op, a)
             dd == abs(op, bb)
  <2>1. A \in WordsX /\ dd \in WordsX
    BY AbsIsWord
  <2>2. div_rem_q' = [rem |-> 0, quot |-> A]
    BY <1>1 DEF Launch_div
  <2>3. DivTypeOK'
    BY <1>1, <2>1, <2>2, DividerAssumption, ModulusFacts
    DEF Launch_div, DivTypeOK, WordsX, result_sign
  <2>4. Divided(0, A, dd, div_rem_q')
    <3> HIDE DEF A, dd
    <3>1. pow2[XLEN - 0] = Modulus /\ pow2[0] = 1
      BY Pow2Facts, DividerAssumption DEF Modulus
    <3>2. A \in Nat /\ dd \in Nat /\ A < Modulus /\ Modulus \in Nat
      BY <2>1, ModulusFacts DEF WordsX
    <3>3. div_rem_q'.rem = 0 /\ div_rem_q'.quot = A
      BY <2>2
    <3>4. /\ A = 0 * pow2[XLEN - 0] + A /\ A < pow2[XLEN - 0] /\ 0 < pow2[0]
          /\ div_rem_q'.quot = A * pow2[0] + 0
          /\ 0 = 0 * dd + div_rem_q'.rem /\ (dd > 0 => div_rem_q'.rem < dd)
      BY <3>1, <3>2, <3>3
    <3> QED
      BY <3>2, <3>4 DEF Divided
  <2> QED
    BY <1>1, <2>3, <2>4 DEF Launch_div, DivInv
<1>2. CASE ShiftSubtract
  <2>1. div_state_q = "DIV_RUN"
    BY <1>2 DEF ShiftSubtract
  <2>2. /\ Divided(div_cnt_q + 1, div_a_q, div_divisor_q, div_rem_q')
        /\ div_rem_q' \in [rem : WordsX, quot : WordsX]
    BY <1>2, <2>1, StepDivides
  <2>3. UNCHANGED <<alu_op, operand_a, operand_b, div_a_q, div_divisor_q, div_neg_q, div_bz_q>>
    BY <1>2 DEF ShiftSubtract
  <2>4. CASE div_cnt_q = XLEN - 1
    <3>1. div_cnt_q + 1 = XLEN
      BY <2>4, DividerAssumption
    <3>2. div_state_q' = "DIV_DONE" /\ div_cnt_q' = div_cnt_q
      BY <1>2, <2>4 DEF ShiftSubtract
    <3> QED
      BY <2>1, <2>2, <2>3, <3>1, <3>2 DEF DivInv, DivTypeOK
  <2>5. CASE div_cnt_q # XLEN - 1
    <3>1. div_state_q' = "DIV_RUN" /\ div_cnt_q' = div_cnt_q + 1
      BY <1>2, <2>1, <2>5 DEF ShiftSubtract
    <3>2. div_cnt_q' \in 0 .. XLEN - 1
      BY <2>5, <3>1, DividerAssumption DEF DivInv, DivTypeOK
    <3> QED
      BY <2>1, <2>2, <2>3, <3>1, <3>2 DEF DivInv, DivTypeOK
  <2> QED
    BY <2>4, <2>5
<1>3. CASE EndDivision
  BY <1>3 DEF EndDivision, DivInv, DivTypeOK
<1>4. CASE UNCHANGED divVars
  BY <1>4 DEF divVars, DivInv, DivTypeOK
<1> QED
  BY <1>1, <1>2, <1>3, <1>4 DEF DivNext

\* What the loop ends with: quotient and remainder of the magnitudes.
LEMMA LoopEnds ==
  ASSUME NEW a \in Nat, NEW d \in Nat, NEW x \in [rem : WordsX, quot : WordsX],
         Divided(XLEN, a, d, x), d > 0
  PROVE  x.quot = a \div d /\ x.rem = a - d * (a \div d) /\ a \div d \in Nat
<1>1. pow2[XLEN - XLEN] = 1
  BY Pow2Facts, DividerAssumption
<1>2. PICK hi, lo, Q \in Nat :
        /\ a = hi * 1 + lo /\ lo < 1
        /\ x.quot = lo * pow2[XLEN] + Q
        /\ hi = Q * d + x.rem /\ (d > 0 => x.rem < d)
  BY <1>1 DEF Divided
<1>3. x.rem \in Nat /\ pow2[XLEN] \in Nat
  BY ModulusFacts DEF WordsX, Modulus
<1>4. lo = 0 /\ x.quot = Q /\ a = Q * d + x.rem /\ x.rem < d
  BY <1>2, <1>3
<1>5. a \div d = Q
  BY <1>3, <1>4, DivUnique
<1> QED
  BY <1>3, <1>4, <1>5

\* The sign of a word, and its magnitude.
LEMMA Magnitude ==
  ASSUME NEW op \in DivOps, NEW x \in WordsX
  PROVE  /\ IntOf(op, x) \in Int /\ abs(op, x) \in Nat /\ abs(op, x) < Modulus
         /\ abs(op, x) = AbsInt(IntOf(op, x))
         /\ IntOf(op, x) < 0 <=> IsSigned(op) /\ Msb(x)
         /\ IntOf(op, x) % Modulus = x
         /\ IntOf(op, x) = 0 <=> x = 0
         /\ abs(op, x) = 0 <=> x = 0
<1>1. x \in Nat /\ x < Modulus /\ Modulus \in Nat /\ Modulus > 1
  BY ModulusFacts DEF WordsX
<1>2. CASE IsSigned(op) /\ Msb(x)
  <2>1. x > 0
    BY <1>2, ModulusFacts DEF Msb, WordsX
  <2>2. abs(op, x) = Modulus - x
    BY <1>1, <1>2, <2>1, ModSmall DEF abs, Neg
  <2>3. IntOf(op, x) = x - Modulus
    BY <1>2 DEF IntOf
  <2>4. (x - Modulus) % Modulus = x
    <3>1. Modulus - x \in 0 .. Modulus - 1 /\ Modulus - x # 0 /\ -(Modulus - x) = x - Modulus
      BY <1>1, <2>1
    <3> QED
      BY <1>1, <3>1, ModSmall
  <2> QED
    BY <1>1, <1>2, <2>1, <2>2, <2>3, <2>4 DEF AbsInt
<1>3. CASE ~(IsSigned(op) /\ Msb(x))
  <2>1. abs(op, x) = x /\ IntOf(op, x) = x
    BY <1>3 DEF abs, IntOf
  <2>2. x % Modulus = x
    BY <1>1, ModSmall
  <2> QED
    BY <1>1, <1>3, <2>1, <2>2 DEF AbsInt
<1> QED
  BY <1>2, <1>3

\* The result behind the loop is the one of the M extension.
LEMMA ResultExact ==
  ASSUME DivInv, div_state_q = "DIV_DONE"
  PROVE  div_result = Expected(alu_op, operand_a, operand_b)
<1> DEFINE op == alu_op  a == operand_a  bb == operand_b
           n == IntOf(op, a)  d == IntOf(op, bb)
           A == abs(op, a)  dd == abs(op, bb)
           Q == A \div dd  R == A - dd * Q
<1>1. op \in DivOps /\ a \in WordsX /\ bb \in WordsX /\ div_rem_q \in [rem : WordsX, quot : WordsX]
  BY DEF DivInv, DivTypeOK
<1>2. /\ div_a_q = A /\ div_divisor_q = dd /\ div_neg_q = result_sign(op, a, bb)
      /\ div_bz_q = (bb = 0) /\ Divided(XLEN, A, dd, div_rem_q)
  BY DEF DivInv
<1>3. /\ n \in Int /\ A \in Nat /\ A < Modulus /\ A = AbsInt(n)
      /\ n < 0 <=> IsSigned(op) /\ Msb(a)
      /\ n % Modulus = a /\ (A = 0 <=> a = 0)
  BY <1>1, Magnitude
<1>4. /\ d \in Int /\ dd \in Nat /\ dd < Modulus /\ dd = AbsInt(d)
      /\ d < 0 <=> IsSigned(op) /\ Msb(bb)
      /\ d = 0 <=> bb = 0
      /\ dd = 0 <=> bb = 0
  BY <1>1, Magnitude
<1>5. Modulus \in Nat /\ Modulus > 1
  BY ModulusFacts
<1>6. op \in {"DIV", "DIVU", "REM", "REMU"}
  BY <1>1 DEF DivOps
<1>7. CASE bb = 0
  <2>1. CASE op \in {"DIV", "DIVU"}
    <3>1. div_result = Modulus - 1
      BY <1>2, <1>7, <2>1 DEF div_result, div_mag, div_take_rem, result_sign
    <3>2. Expected(op, a, bb) = (-1) % Modulus
      BY <1>4, <1>7, <2>1 DEF Expected
    <3>3. (-1) % Modulus = Modulus - 1
      <4>1. 1 \in 0 .. Modulus - 1 /\ Modulus > 0
        BY <1>5
      <4> QED
        BY <1>5, <4>1, ModSmall
    <3> QED
      BY <3>1, <3>2, <3>3
  <2>2. CASE op \in {"REM", "REMU"}
    <3>1. Expected(op, a, bb) = a
      BY <1>3, <1>4, <1>7, <2>2 DEF Expected
    <3>2. div_mag = A
      BY <1>2, <1>7, <2>2 DEF div_mag, div_take_rem
    <3>3. CASE op = "REM" /\ Msb(a)
      <4>1. div_result = (-A) % Modulus
        BY <1>2, <3>2, <3>3 DEF div_result, result_sign, Neg
      <4>2. -A = n
        BY <1>3, <3>3 DEF AbsInt, IsSigned
      <4> QED
        BY <4>1, <4>2, <3>1, <1>3
    <3>4. CASE ~(op = "REM" /\ Msb(a))
      <4>1. div_result = A
        BY <1>2, <2>2, <3>2, <3>4 DEF div_result, result_sign
      <4>2. A = a
        BY <2>2, <3>4 DEF abs, IsSigned
      <4> QED
        BY <4>1, <4>2, <3>1
    <3> QED
      BY <3>3, <3>4
  <2> QED
    BY <1>6, <2>1, <2>2
<1>8. CASE bb # 0
  <2>1. dd > 0 /\ d # 0
    BY <1>4, <1>8
  <2>2. div_rem_q.quot = Q /\ div_rem_q.rem = R /\ Q \in Nat
    BY <1>1, <1>2, <1>3, <1>4, <2>1, LoopEnds
  <2>3. Q \in 0 .. Modulus - 1 /\ R \in 0 .. Modulus - 1
    <3>1. div_rem_q.quot \in WordsX /\ div_rem_q.rem \in WordsX
      BY <1>1
    <3> QED
      BY <2>2, <3>1 DEF WordsX
  <2>4. Quotient(n, d) = IF (n < 0) # (d < 0) THEN -Q ELSE Q
    BY <1>3, <1>4 DEF Quotient
  <2> HIDE DEF n, d, A, dd, Q, R
  <2>5. CASE op \in {"DIV", "DIVU"}
    <3>1. Expected(op, a, bb) = Quotient(n, d) % Modulus
      BY <2>1, <2>5 DEF Expected, n, d
    <3>2. div_mag = Q
      BY <1>2, <1>8, <2>2, <2>5 DEF div_mag, div_take_rem
    <3>3. div_neg_q <=> ((n < 0) # (d < 0))
      <4>1. CASE op = "DIV"
        <5>1. (n < 0 <=> Msb(a)) /\ (d < 0 <=> Msb(bb))
          BY <1>3, <1>4, <4>1 DEF IsSigned
        <5>2. div_neg_q <=> (Msb(a) # Msb(bb))
          BY <1>2, <1>8, <4>1 DEF result_sign
        <5>3. Msb(a) \in BOOLEAN /\ Msb(bb) \in BOOLEAN
          BY DEF Msb
        <5> QED
          BY <5>1, <5>2, <5>3
      <4>2. CASE op = "DIVU"
        <5>1. ~(n < 0) /\ ~(d < 0)
          BY <1>3, <1>4, <4>2 DEF IsSigned
        <5>2. ~div_neg_q
          BY <1>2, <4>2 DEF result_sign
        <5> QED
          BY <5>1, <5>2
      <4> QED
        BY <2>5, <4>1, <4>2
    <3>4. div_neg_q \in BOOLEAN
      BY DEF DivInv, DivTypeOK
    <3>5. CASE div_neg_q
      <4>1. div_result = (-Q) % Modulus
        BY <3>2, <3>5 DEF div_result, Neg
      <4>2. Quotient(n, d) = -Q
        BY <2>4, <3>3, <3>5
      <4> QED
        BY <3>1, <4>1, <4>2
    <3>6. CASE ~div_neg_q
      <4>1. div_result = Q
        BY <3>2, <3>6 DEF div_result
      <4>2. Quotient(n, d) = Q
        BY <2>4, <3>3, <3>6
      <4>3. Q % Modulus = Q
        BY <1>5, <2>3, ModSmall
      <4> QED
        BY <3>1, <4>1, <4>2, <4>3
    <3> QED
      BY <3>4, <3>5, <3>6
  <2>6. CASE op \in {"REM", "REMU"}
    <3>1. Expected(op, a, bb) = (n - d * Quotient(n, d)) % Modulus
      BY <2>1, <2>6 DEF Expected, n, d
    <3>2. div_mag = R
      BY <1>2, <1>8, <2>2, <2>6 DEF div_mag, div_take_rem
    <3>3. div_neg_q <=> n < 0
      BY <1>2, <1>3, <2>6 DEF result_sign, IsSigned
    <3>4. div_neg_q \in BOOLEAN /\ Q \in Int /\ dd \in Int
      BY <1>4, <2>3 DEF DivInv, DivTypeOK
    <3>5. CASE div_neg_q
      <4>1. div_result = (-R) % Modulus
        BY <3>2, <3>5 DEF div_result, Neg
      <4>2. n < 0 /\ A = -n
        BY <1>3, <3>3, <3>5 DEF AbsInt
      <4>3. CASE d < 0
        <5>1. Quotient(n, d) = Q /\ dd = -d
          BY <1>3, <1>4, <2>4, <4>2, <4>3 DEF AbsInt
        <5>2. n - d * Q = -(A - dd * Q)
          BY <1>3, <1>4, <3>4, <4>2, <5>1
        <5> QED
          BY <3>1, <4>1, <5>1, <5>2 DEF R
      <4>4. CASE ~(d < 0)
        <5>1. Quotient(n, d) = -Q /\ dd = d
          BY <1>3, <1>4, <2>4, <4>2, <4>4 DEF AbsInt
        <5>2. n - d * (-Q) = -(A - dd * Q)
          BY <1>3, <1>4, <3>4, <4>2, <5>1
        <5> QED
          BY <3>1, <4>1, <5>1, <5>2 DEF R
      <4> QED
        BY <4>3, <4>4
    <3>6. CASE ~div_neg_q
      <4>1. div_result = R
        BY <3>2, <3>6 DEF div_result
      <4>2. ~(n < 0) /\ A = n
        BY <1>3, <3>3, <3>6 DEF AbsInt
      <4>3. R % Modulus = R
        BY <1>5, <2>3, ModSmall
      <4>4. CASE d < 0
        <5>1. Quotient(n, d) = -Q /\ dd = -d
          BY <1>3, <1>4, <2>4, <4>2, <4>4 DEF AbsInt
        <5>2. n - d * (-Q) = A - dd * Q
          BY <1>3, <1>4, <3>4, <4>2, <5>1
        <5> QED
          BY <3>1, <4>1, <4>3, <5>1, <5>2 DEF R
      <4>5. CASE ~(d < 0)
        <5>1. Quotient(n, d) = Q /\ dd = d
          BY <1>3, <1>4, <2>4, <4>2, <4>5 DEF AbsInt
        <5> QED
          BY <3>1, <4>1, <4>2, <4>3, <5>1 DEF R
      <4> QED
        BY <4>4, <4>5
    <3> QED
      BY <3>4, <3>5, <3>6
  <2> QED
    BY <1>6, <2>5, <2>6
<1> QED
  BY <1>7, <1>8

\* While the loop runs, the top bit of the remainder is clear.
LEMMA TopBitClear ==
  ASSUME DivInv, div_state_q = "DIV_RUN"
  PROVE  ~Msb(div_rem_q.rem)
<1>1. PICK hi, Q \in Nat :
        hi < pow2[div_cnt_q] /\ hi = Q * div_divisor_q + div_rem_q.rem
  BY DEF DivInv, Divided
<1>2. div_divisor_q \in Nat /\ div_rem_q.rem \in Nat /\ div_cnt_q \in Nat /\ div_cnt_q <= XLEN - 1
  BY ModulusFacts, DividerAssumption DEF DivInv, DivTypeOK, WordsX
<1>3. Q * div_divisor_q \in Nat /\ div_rem_q.rem <= hi
  BY <1>1, <1>2
<1>4. pow2[div_cnt_q] <= pow2[XLEN - 1]
  <2>1. XLEN - 1 - div_cnt_q \in Nat /\ XLEN - 1 = div_cnt_q + (XLEN - 1 - div_cnt_q)
    BY <1>2, DividerAssumption
  <2>2. pow2[XLEN - 1] = pow2[div_cnt_q] * pow2[XLEN - 1 - div_cnt_q]
    BY <1>2, <2>1, Pow2Add
  <2>3. PICK k \in Nat : pow2[XLEN - 1 - div_cnt_q] = k + 1
    <3>1. pow2[XLEN - 1 - div_cnt_q] - 1 \in Nat
      BY <2>1, Pow2Facts
    <3>2. pow2[XLEN - 1 - div_cnt_q] = (pow2[XLEN - 1 - div_cnt_q] - 1) + 1
      BY <2>1, Pow2Facts
    <3> QED
      BY <3>1, <3>2
  <2>4. pow2[div_cnt_q] \in Nat
    BY <1>2, Pow2Facts
  <2>5. pow2[XLEN - 1] = pow2[div_cnt_q] * k + pow2[div_cnt_q] /\ pow2[div_cnt_q] * k \in Nat
    BY <2>2, <2>3, <2>4
  <2> QED
    BY <2>4, <2>5
<1>5. pow2[div_cnt_q] \in Nat
  BY <1>2, Pow2Facts
<1> QED
  BY <1>1, <1>2, <1>3, <1>4, <1>5, ModulusFacts DEF Msb

\* The divider computes what the M extension defines, for every word size and
\* every operand, zero divisors and the overflow of the most negative number
\* included (alu.sv).
THEOREM DividerIsExact == DivSpec => []DividerExact
<1>1. DivInv => DividerExact
  BY ResultExact, TopBitClear DEF DividerExact
<1> QED
  BY DivInvInit, DivInvNext, <1>1, PTL DEF DivSpec

(***************************************************************************)
(* The on-chip RAM (utils/native_ram.sv) owes and gives exactly the        *)
(* answers of the accepted reads, in the three configurations of the SoC;  *)
(* and no check of its two benches can fail, whatever their calls.         *)
(*                                                                         *)
(* Skid FIFO and landing register together are the queue of the answers    *)
(* owed. With that, an edge is a step of one queue: the ports show its     *)
(* head, RREADY takes it, and a request is accepted while the queue that   *)
(* is left has room (PortShows, TickIs).                                   *)
(***************************************************************************)

WordContents == [Lanes -> Values]

Capacity == IF port = "f" THEN 2 ELSE 1

RamTypes ==
  /\ port \in {"d", "i", "f"}
  /\ mem \in [Words -> WordContents] /\ skid_q \in Seq(WordContents)
  /\ rif_q \in BOOLEAN /\ (rif_q => rd_d_q \in WordContents)

RamInv ==
  /\ RamTypes
  /\ D!AnswersExact
  /\ Len(answers) <= Capacity

\* The answers left when the master takes one (rr) or not.
Left(rr) == IF answers # << >> /\ rr THEN Tail(answers) ELSE answers

Accepted(q, rr) == q.valid /\ Len(Left(rr)) < Capacity

\* The requests the model makes.
IsRequest(q) ==
  /\ q.valid \in BOOLEAN /\ q.we \in BOOLEAN
  /\ q.valid => q.addr \in Words
  /\ (q.valid /\ q.we) => q.data \in WordContents

Written(word, q) == [l \in Lanes |-> IF l \in q.strb THEN q.data[l] ELSE word[l]]

(***************************************************************************)
(* Sequences.                                                              *)
(***************************************************************************)
LEMMA ConcatOne ==
  ASSUME NEW S, NEW s \in Seq(S), NEW x \in S
  PROVE  /\ s \o <<x>> = Append(s, x) /\ s \o <<x>> \in Seq(S) /\ s \o <<x>> # << >>
         /\ Len(s \o <<x>>) = Len(s) + 1
         /\ s = << >> => s \o <<x>> = <<x>>
         /\ s # << >> => /\ (s \o <<x>>)[1] = s[1]
                         /\ Tail(s \o <<x>>) = Append(Tail(s), x)
<1>1. /\ s \o <<x>> \in Seq(S) /\ Append(s, x) \in Seq(S)
      /\ Len(s \o <<x>>) = Len(s) + 1 /\ Len(Append(s, x)) = Len(s) + 1
      /\ Len(s) \in Nat /\ <<x>> \in Seq(S) /\ Len(<<x>>) = 1
  OBVIOUS
<1>2. \A i \in 1 .. Len(s) + 1 : (s \o <<x>>)[i] = Append(s, x)[i]
  BY <1>1
<1>3. s \o <<x>> = Append(s, x)
  BY <1>1, <1>2, SeqEqual
<1>4. s \o <<x>> # << >>
  BY <1>1
<1>5. s = << >> => s \o <<x>> = <<x>>
  OBVIOUS
<1>6. ASSUME s # << >>
      PROVE  (s \o <<x>>)[1] = s[1] /\ Tail(s \o <<x>>) = Append(Tail(s), x)
  <2>1. Len(s) >= 1 /\ Tail(s) \in Seq(S) /\ Len(Tail(s)) = Len(s) - 1
    BY <1>1, <1>6, EmptySeq, HeadTailProperties
  <2>2. /\ Tail(s \o <<x>>) \in Seq(S) /\ Len(Tail(s \o <<x>>)) = Len(s)
        /\ Append(Tail(s), x) \in Seq(S) /\ Len(Append(Tail(s), x)) = Len(s)
    BY <1>1, <2>1
  <2>3. ASSUME NEW i \in 1 .. Len(s)
        PROVE  Tail(s \o <<x>>)[i] = Append(Tail(s), x)[i]
    <3>1. Tail(s \o <<x>>)[i] = (s \o <<x>>)[i + 1]
      BY <1>1, <2>1, <2>3
    <3>2. CASE i <= Len(s) - 1
      <4>1. Append(Tail(s), x)[i] = Tail(s)[i] /\ Tail(s)[i] = s[i + 1]
        BY <1>1, <2>1, <2>3, <3>2
      <4>2. (s \o <<x>>)[i + 1] = s[i + 1]
        BY <1>1, <2>3, <3>2
      <4> QED
        BY <3>1, <4>1, <4>2
    <3>3. CASE i = Len(s)
      <4>1. Append(Tail(s), x)[i] = x
        BY <1>1, <2>1, <3>3
      <4>2. (s \o <<x>>)[i + 1] = x
        BY <1>1, <3>3
      <4> QED
        BY <3>1, <4>1, <4>2
    <3> QED
      BY <1>1, <2>3, <3>2, <3>3
  <2>4. Tail(s \o <<x>>) = Append(Tail(s), x)
    BY <2>2, <2>3, SeqEqual
  <2>5. (s \o <<x>>)[1] = s[1]
    BY <1>1, <2>1
  <2> QED
    BY <2>4, <2>5
<1> QED
  BY <1>1, <1>3, <1>4, <1>5, <1>6

(***************************************************************************)
(* What the ports show: the head of the queue of the answers owed, and     *)
(* room for one more when the master has or has not taken it.              *)
(***************************************************************************)
LEMMA PortShows ==
  ASSUME RamInv
  PROVE  /\ answers \in Seq(WordContents)
         /\ rvalid <=> answers # << >>
         /\ rvalid => rdata = answers[1]
<1>1. /\ skid_q \in Seq(WordContents) /\ rif_q \in BOOLEAN
      /\ answers = skid_q \o (IF rif_q THEN <<rd_d_q>> ELSE << >>)
  BY DEF RamInv, RamTypes, D!AnswersExact
<1>2. rvalid <=> skid_q # << >> \/ rif_q
  BY DEF rvalid, D!rsp_rvalid, D!land
<1>3. rdata = IF skid_q # << >> THEN skid_q[1] ELSE rd_d_q
  BY DEF rdata, D!rsp_rdata
<1>4. CASE rif_q
  <2>1. answers = skid_q \o <<rd_d_q>> /\ rd_d_q \in WordContents
    BY <1>1, <1>4 DEF RamInv, RamTypes
  <2>2. CASE skid_q = << >>
    <3>1. answers = <<rd_d_q>>
      BY <1>1, <2>1, <2>2, ConcatOne
    <3> QED
      BY <1>2, <1>3, <1>4, <2>1, <2>2, <3>1
  <2>3. CASE skid_q # << >>
    BY <1>1, <1>2, <1>3, <1>4, <2>1, <2>3, ConcatOne
  <2> QED
    BY <2>2, <2>3
<1>5. CASE ~rif_q
  <2>1. answers = skid_q
    BY <1>1, <1>5
  <2> QED
    BY <1>1, <1>2, <1>3, <1>5, <2>1
<1> QED
  BY <1>4, <1>5

\* The skid FIFO after an edge holds the answers that were not taken.
LEMMA SkidIsLeft ==
  ASSUME RamInv, NEW rr \in BOOLEAN
  PROVE  /\ Left(rr) \in Seq(WordContents) /\ Len(Left(rr)) <= Capacity
         /\ D!next_skid(rr) = Left(rr)
         /\ D!new_count(rr) = Len(Left(rr))
<1>1. /\ skid_q \in Seq(WordContents) /\ rif_q \in BOOLEAN
      /\ answers = skid_q \o (IF rif_q THEN <<rd_d_q>> ELSE << >>)
      /\ Len(answers) <= Capacity /\ Capacity \in Nat
  BY DEF RamInv, RamTypes, D!AnswersExact, Capacity
<1>2. Left(rr) \in Seq(WordContents) /\ Len(Left(rr)) <= Capacity
  <2>1. answers \in Seq(WordContents)
    BY PortShows
  <2>2. CASE answers # << >> /\ rr
    <3>1. Tail(answers) \in Seq(WordContents) /\ Len(Tail(answers)) = Len(answers) - 1
      BY <2>1, <2>2, HeadTailProperties
    <3> QED
      BY <1>1, <2>1, <2>2, <3>1 DEF Left
  <2>3. CASE ~(answers # << >> /\ rr)
    BY <1>1, <2>1, <2>3 DEF Left
  <2> QED
    BY <2>2, <2>3
<1>3. CASE rif_q /\ skid_q = << >>
  <2>1. answers = <<rd_d_q>> /\ answers # << >> /\ Tail(answers) = << >>
    BY <1>1, <1>3, ConcatOne DEF RamInv, RamTypes
  <2>2. CASE rr
    <3>1. Left(rr) = << >> /\ Len(<< >>) = 0 /\ Len(skid_q) = 0
      BY <1>3, <2>1, <2>2 DEF Left
    <3>2. ~D!skid_pop(rr) /\ ~D!land_stored(rr)
      BY <1>3, <2>2 DEF D!skid_pop, D!land_stored, D!land_consumed, D!land
    <3>3. D!next_skid(rr) = << >> /\ D!new_count(rr) = 0
      BY <1>3, <3>1, <3>2 DEF D!next_skid, D!new_count
    <3> QED
      BY <1>2, <3>1, <3>3
  <2>3. CASE ~rr
    <3>1. Left(rr) = <<rd_d_q>> /\ Append(skid_q, rd_d_q) = <<rd_d_q>>
      BY <1>3, <2>1, <2>3 DEF Left
    <3>2. Len(<<rd_d_q>>) = 1 /\ Len(skid_q) = 0
      BY <1>3
    <3> QED
      BY <1>2, <1>3, <2>3, <3>1, <3>2 DEF D!next_skid, D!new_count, D!skid_pop, D!land_stored,
         D!land_consumed, D!land
  <2> QED
    BY <2>2, <2>3
<1>4. CASE rif_q /\ skid_q # << >>
  <2>1. /\ answers = Append(skid_q, rd_d_q) /\ answers # << >>
        /\ Tail(answers) = Append(Tail(skid_q), rd_d_q)
        /\ Len(answers) = Len(skid_q) + 1 /\ rd_d_q \in WordContents
    BY <1>1, <1>4, ConcatOne DEF RamInv, RamTypes
  <2>2. /\ Tail(skid_q) \in Seq(WordContents) /\ Len(Tail(skid_q)) = Len(skid_q) - 1
        /\ Len(skid_q) \in Nat
    BY <1>1, <1>4, HeadTailProperties
  <2>3. D!land_stored(rr) /\ (D!skid_pop(rr) <=> rr)
    BY <1>4 DEF D!land_stored, D!land_consumed, D!land, D!skid_pop
  <2>4. CASE rr
    <3>1. Left(rr) = Append(Tail(skid_q), rd_d_q)
      BY <2>1, <2>4 DEF Left
    <3>2. Len(Left(rr)) = Len(skid_q) - 1 + 1
      BY <2>1, <2>2, <3>1
    <3> QED
      BY <1>2, <2>2, <2>3, <2>4, <3>1, <3>2 DEF D!next_skid, D!new_count
  <2>5. CASE ~rr
    <3>1. Left(rr) = Append(skid_q, rd_d_q) /\ Len(Left(rr)) = Len(skid_q) + 1
      BY <2>1, <2>5 DEF Left
    <3> QED
      BY <1>2, <2>2, <2>3, <2>5, <3>1 DEF D!next_skid, D!new_count
  <2> QED
    BY <2>4, <2>5
<1>5. CASE ~rif_q
  <2>1. answers = skid_q /\ ~D!land_stored(rr) /\ Len(skid_q) \in Nat
    BY <1>1, <1>5 DEF D!land_stored, D!land
  <2>2. CASE D!skid_pop(rr)
    <3>1. Left(rr) = Tail(skid_q) /\ Len(Tail(skid_q)) = Len(skid_q) - 1
      BY <1>1, <2>1, <2>2, HeadTailProperties DEF Left, D!skid_pop
    <3> QED
      BY <1>2, <2>1, <2>2, <3>1 DEF D!next_skid, D!new_count
  <2>3. CASE ~D!skid_pop(rr)
    <3>1. Left(rr) = skid_q
      BY <2>1, <2>3 DEF Left, D!skid_pop
    <3> QED
      BY <1>2, <2>1, <2>3, <3>1 DEF D!next_skid, D!new_count
  <2> QED
    BY <2>2, <2>3
<1> QED
  BY <1>1, <1>3, <1>4, <1>5, <1>2

\* WREADY counts the answers left, in every configuration.
LEMMA ReadyIs ==
  ASSUME RamInv, NEW rr \in BOOLEAN
  PROVE  /\ wready(rr) <=> Len(Left(rr)) < Capacity
         /\ port = "d" => (D!rsp_wready(rr) <=> Len(Left(rr)) < Capacity)
         /\ port = "i" => (I!rsp_wready(rr) <=> Len(Left(rr)) < Capacity)
         /\ port = "f" => (F!rsp_wready(rr) <=> Len(Left(rr)) < Capacity)
<1>1. D!new_count(rr) = Len(Left(rr))
  BY SkidIsLeft
<1>2. I!new_count(rr) = D!new_count(rr)
  BY DEF I!new_count, I!skid_pop, I!land_stored, I!land_consumed, I!land,
         D!new_count, D!skid_pop, D!land_stored, D!land_consumed, D!land
<1>3. F!new_count(rr) = D!new_count(rr)
  BY DEF F!new_count, F!skid_pop, F!land_stored, F!land_consumed, F!land,
         D!new_count, D!skid_pop, D!land_stored, D!land_consumed, D!land
<1> QED
  BY <1>1, <1>2, <1>3 DEF wready, D!rsp_wready, I!rsp_wready, F!rsp_wready, Capacity

(***************************************************************************)
(* One clock edge, in every configuration: the queue of answers moves, and *)
(* only an accepted write of the D-mem changes the array.                  *)
(***************************************************************************)
LEMMA TickIs ==
  ASSUME RamInv, NEW rr \in BOOLEAN, NEW q, tick(q, rr)
  PROVE  /\ skid_q' = Left(rr)
         /\ rif_q' = (Accepted(q, rr) /\ ~q.we)
         /\ rd_d_q' = IF Accepted(q, rr) /\ ~q.we THEN mem[q.addr] ELSE rd_d_q
         /\ answers' = IF Accepted(q, rr) /\ ~q.we THEN Append(Left(rr), mem[q.addr])
                       ELSE Left(rr)
         /\ mem' = IF Accepted(q, rr) /\ q.we /\ port = "d"
                   THEN [mem EXCEPT ![q.addr] = Written(mem[q.addr], q)] ELSE mem
<1>1. D!next_skid(rr) = Left(rr)
  BY SkidIsLeft
<1>2. port \in {"d", "i", "f"}
  BY DEF RamInv, RamTypes
<1>3. rvalid <=> answers # << >>
  BY PortShows
<1>4. CASE port = "d"
  <2>1. D!RamCycle(q, rr)
    BY <1>4 DEF tick
  <2>2. D!launch_hs(q, rr) <=> Accepted(q, rr)
    BY <1>4, ReadyIs DEF D!launch_hs, Accepted
  <2>3. D!next_answers(q, rr) = IF Accepted(q, rr) /\ ~q.we THEN Append(Left(rr), mem[q.addr])
                                ELSE Left(rr)
    BY <1>3, <2>2 DEF D!next_answers, D!launch_read, Left, rvalid
  <2>4. D!next_mem(q, rr) = IF Accepted(q, rr) /\ q.we /\ port = "d"
                   THEN [mem EXCEPT ![q.addr] = Written(mem[q.addr], q)] ELSE mem
    BY <1>4, <2>2 DEF D!next_mem, D!launch_write, Written
  <2> QED
    BY <1>1, <2>1, <2>2, <2>3, <2>4 DEF D!RamCycle, D!launch_read
<1>5. CASE port = "i"
  <2>1. I!RamCycle(q, rr)
    BY <1>5 DEF tick
  <2>2. I!launch_hs(q, rr) <=> Accepted(q, rr)
    BY <1>5, ReadyIs DEF I!launch_hs, Accepted
  <2>3. I!next_answers(q, rr) = IF Accepted(q, rr) /\ ~q.we THEN Append(Left(rr), mem[q.addr])
                                ELSE Left(rr)
    BY <1>3, <2>2 DEF I!next_answers, I!launch_read, Left, rvalid, I!rsp_rvalid, D!rsp_rvalid,
                      I!land, D!land
  <2>4. I!next_mem(q, rr) = mem
    BY DEF I!next_mem
  <2>5. I!next_skid(rr) = D!next_skid(rr)
    BY DEF I!next_skid, I!skid_pop, I!land_stored, I!land_consumed, I!land,
           D!next_skid, D!skid_pop, D!land_stored, D!land_consumed, D!land
  <2> QED
    BY <1>1, <1>5, <2>1, <2>2, <2>3, <2>4, <2>5 DEF I!RamCycle, I!launch_read
<1>6. CASE port = "f"
  <2>1. F!RamCycle(q, rr)
    BY <1>6 DEF tick
  <2>2. F!launch_hs(q, rr) <=> Accepted(q, rr)
    BY <1>6, ReadyIs DEF F!launch_hs, Accepted
  <2>3. F!next_answers(q, rr) = IF Accepted(q, rr) /\ ~q.we THEN Append(Left(rr), mem[q.addr])
                                ELSE Left(rr)
    BY <1>3, <2>2 DEF F!next_answers, F!launch_read, Left, rvalid, F!rsp_rvalid, D!rsp_rvalid,
                      F!land, D!land
  <2>4. F!next_mem(q, rr) = mem
    BY DEF F!next_mem
  <2>5. F!next_skid(rr) = D!next_skid(rr)
    BY DEF F!next_skid, F!skid_pop, F!land_stored, F!land_consumed, F!land,
           D!next_skid, D!skid_pop, D!land_stored, D!land_consumed, D!land
  <2> QED
    BY <1>1, <1>6, <2>1, <2>2, <2>3, <2>4, <2>5 DEF F!RamCycle, F!launch_read
<1> QED
  BY <1>2, <1>4, <1>5, <1>6

\* An edge with any request keeps the RAM exact.
LEMMA TickKeepsRam ==
  ASSUME RamInv, NEW rr \in BOOLEAN, NEW q, IsRequest(q), tick(q, rr), port' = port
  PROVE  RamInv'
<1>1. /\ skid_q' = Left(rr) /\ Left(rr) \in Seq(WordContents) /\ Len(Left(rr)) <= Capacity
      /\ Capacity' = Capacity /\ Capacity \in Nat
  BY TickIs, SkidIsLeft DEF Capacity
<1>2. port' \in {"d", "i", "f"} /\ mem \in [Words -> WordContents]
  BY DEF RamInv, RamTypes
<1>3. CASE Accepted(q, rr) /\ ~q.we
  <2>1. /\ rif_q' = TRUE /\ rd_d_q' = mem[q.addr] /\ answers' = Append(Left(rr), mem[q.addr])
        /\ mem' = mem
    BY <1>3, TickIs
  <2>2. mem[q.addr] \in WordContents
    BY <1>2, <1>3 DEF IsRequest, Accepted
  <2>3. Left(rr) \o <<rd_d_q'>> = answers' /\ Len(answers') = Len(Left(rr)) + 1
    BY <1>1, <2>1, <2>2, ConcatOne
  <2>4. D!AnswersExact'
    BY <1>1, <2>1, <2>3 DEF D!AnswersExact
  <2>5. Len(answers') <= Capacity'
    BY <1>1, <1>3, <2>3 DEF Accepted
  <2> QED
    BY <1>1, <1>2, <2>1, <2>2, <2>4, <2>5 DEF RamInv, RamTypes
<1>4. CASE ~(Accepted(q, rr) /\ ~q.we)
  <2>1. rif_q' = FALSE /\ answers' = Left(rr)
    BY <1>4, TickIs
  <2>2. mem' \in [Words -> WordContents]
    <3>1. CASE Accepted(q, rr) /\ q.we /\ port = "d"
      <4>1. mem' = [mem EXCEPT ![q.addr] = Written(mem[q.addr], q)]
        BY <3>1, TickIs
      <4>2. q.addr \in Words /\ q.data \in WordContents
        BY <3>1 DEF Accepted, IsRequest
      <4>3. Written(mem[q.addr], q) \in WordContents
        BY <1>2, <4>2 DEF Written, WordContents
      <4> QED
        BY <1>2, <4>1, <4>2, <4>3
    <3>2. CASE ~(Accepted(q, rr) /\ q.we /\ port = "d")
      BY <1>2, <3>2, TickIs
    <3> QED
      BY <3>1, <3>2
  <2>3. D!AnswersExact'
    BY <1>1, <2>1 DEF D!AnswersExact
  <2> QED
    BY <1>1, <1>2, <2>1, <2>2, <2>3 DEF RamInv, RamTypes
<1> QED
  BY <1>3, <1>4

(***************************************************************************)
(* The benches.  Between calls the RAM owes nothing; a call under way      *)
(* knows what it is owed; the bench of the fetch port knows it at every    *)
(* line of its script.                                                     *)
(***************************************************************************)
Owed(n, q) ==
  CASE n = 1      -> << >>
    [] n = 2      -> <<mem[q[1]]>>
    [] n \in 3..8 -> <<mem[q[1]], mem[q[2]]>>
    [] n = 9      -> <<mem[q[2]]>>
    [] n = 10     -> <<mem[q[2]], mem[q[3]]>>
    [] n = 11     -> <<mem[q[3]]>>

Calling ==
  /\ port # "f" /\ b.q.addr \in Words /\ b.n \in Nat
  /\ b.op = "probe" => port = "d" /\ b.n = 0 /\ b.q.valid = TRUE /\ b.q.we = TRUE /\ IsRequest(b.q)

CallInv ==
  /\ b = [at |-> b.at, op |-> b.op, q |-> b.q, n |-> b.n, guard |-> b.guard]
  /\ b.at \in {"main", "launch", "await", "hold", "drain", "script"}
  /\ b.at = "main" => answers = << >>
  /\ b.at = "launch" => /\ Calling /\ answers = << >> /\ b.op \in {"write", "read", "probe"}
                        /\ IsRequest(b.q) /\ b.q.valid = TRUE /\ b.q.we = (b.op # "read")
  /\ b.at \in {"await", "hold", "drain"} => /\ Calling /\ b.op \in {"read", "probe"}
                                            /\ answers = <<mem[b.q.addr]>>
  /\ b.at = "script" => /\ port = "f" /\ b.q \in [1..3 -> Words] /\ b.n \in 1..11
                        /\ answers = Owed(b.n, b.q)

BenchInv ==
  /\ RamInv /\ bfm \in BOOLEAN
  /\ fails = FALSE
  /\ bfm => shadow = mem /\ CallInv

\* The requests that the benches make.
LEMMA RequestShapes ==
  /\ NoRequest.valid = FALSE /\ IsRequest(NoRequest)
  /\ \A a \in Words : /\ Read(a).valid = TRUE /\ Read(a).we = FALSE /\ Read(a).addr = a
                       /\ IsRequest(Read(a))
  /\ \A a \in Words, d \in WordContents, s \in SUBSET Lanes :
       /\ Write(a, d, s).valid = TRUE /\ Write(a, d, s).we = TRUE /\ Write(a, d, s).addr = a
       /\ IsRequest(Write(a, d, s))
BY DEF NoRequest, Read, Write, IsRequest

\* An edge on which nothing is accepted only hands over the head.
LEMMA RefusedTick ==
  ASSUME RamInv, NEW rr \in BOOLEAN, NEW q, ~Accepted(q, rr), tick(q, rr)
  PROVE  /\ answers' = Left(rr) /\ mem' = mem /\ skid_q' = Left(rr) /\ rif_q' = FALSE
         /\ rvalid' <=> Left(rr) # << >>
<1>1. answers' = Left(rr) /\ mem' = mem /\ skid_q' = Left(rr) /\ rif_q' = FALSE
  BY TickIs
<1>2. rvalid' <=> Left(rr) # << >>
  BY <1>1 DEF rvalid, D!rsp_rvalid, D!land
<1> QED
  BY <1>1, <1>2

\* An edge without a request only lets an answer go.
LEMMA QuietTick ==
  ASSUME RamInv, NEW rr \in BOOLEAN, tick(NoRequest, rr)
  PROVE  answers' = Left(rr) /\ mem' = mem /\ (rvalid' <=> Left(rr) # << >>)
<1>1. ~Accepted(NoRequest, rr)
  BY RequestShapes DEF Accepted
<1> QED
  BY <1>1, RefusedTick

\* Anyone drives the RAM with requests.
LEMMA AnyoneTicks ==
  ASSUME RamInv, Anyone
  PROVE  \E rr \in BOOLEAN, q \in D!Requests : IsRequest(q) /\ tick(q, rr)
<1>1. \A q \in D!Requests : IsRequest(q)
  BY DEF D!Requests, IsRequest, WordContents, D!Contents
<1>2. CASE port = "d" /\ D!RamNext
  <2>1. PICK rr \in BOOLEAN, q \in D!Requests : D!RamCycle(q, rr)
    BY <1>2 DEF D!RamNext, D!RamIdle, D!RamRead, D!RamWrite
  <2>2. tick(q, rr)
    BY <1>2, <2>1 DEF tick
  <2> QED
    BY <1>1, <2>2
<1>3. CASE port = "i" /\ I!RamNext
  <2>1. PICK rr \in BOOLEAN, q \in D!Requests : I!RamCycle(q, rr)
    BY <1>3 DEF I!RamNext, I!RamIdle, I!RamRead, I!RamWrite, I!Requests, D!Requests,
                I!Contents, D!Contents
  <2>2. tick(q, rr)
    BY <1>3, <2>1 DEF tick
  <2> QED
    BY <1>1, <2>2
<1>4. CASE port = "f" /\ F!RamNext
  <2>1. PICK rr \in BOOLEAN, q \in D!Requests : F!RamCycle(q, rr)
    BY <1>4 DEF F!RamNext, F!RamIdle, F!RamRead, F!RamWrite, F!Requests, D!Requests,
                F!Contents, D!Contents
  <2>2. tick(q, rr)
    BY <1>4, <2>1 DEF tick
  <2> QED
    BY <1>1, <2>2
<1> QED
  BY <1>2, <1>3, <1>4 DEF Anyone

(***************************************************************************)
(* The calls of the bench, one lemma per action.                           *)
(***************************************************************************)
Steady == UNCHANGED <<port, bfm>>

\* A new bus call keeps the bench in order.
LEMMA CallStep ==
  ASSUME BenchInv, bfm, Steady, CallBfm
  PROVE  BenchInv'
<1>1. RamInv' /\ bfm' \in BOOLEAN /\ fails' = FALSE /\ shadow' = mem'
  BY DEF BenchInv, Steady, CallBfm, RamInv, RamTypes, D!AnswersExact, Capacity, ramVars
<1>2. answers' = << >>
  BY DEF BenchInv, CallInv, CallBfm, ramVars
<1>3. PICK a \in Words, n \in 0..HOLD, op \in {"write", "read", "probe"} :
      \E d \in IF op = "read" THEN {D!Zero} ELSE D!Contents,
         s \in IF op = "read" THEN {{}} ELSE SUBSET Lanes :
       /\ op # "read" => n = 0
       /\ op = "probe" => port = "d"
       /\ b' = [at |-> "launch", op |-> op, n |-> n, guard |-> 0,
                q |-> IF op = "read" THEN Read(a) ELSE Write(a, d, s)]
  BY DEF CallBfm
<1>4. PICK d \in IF op = "read" THEN {D!Zero} ELSE D!Contents,
           s \in IF op = "read" THEN {{}} ELSE SUBSET Lanes :
       /\ op # "read" => n = 0
       /\ op = "probe" => port = "d"
       /\ b' = [at |-> "launch", op |-> op, n |-> n, guard |-> 0,
                q |-> IF op = "read" THEN Read(a) ELSE Write(a, d, s)]
  BY <1>3
<1>5. /\ b'.at = "launch" /\ b'.op = op /\ b'.n = n /\ b'.guard = 0
      /\ b'.q = IF op = "read" THEN Read(a) ELSE Write(a, d, s)
      /\ b' = [at |-> b'.at, op |-> b'.op, q |-> b'.q, n |-> b'.n, guard |-> b'.guard]
  BY <1>4
<1>6. /\ b'.q.addr \in Words /\ b'.q.valid = TRUE /\ b'.q.we = (op # "read")
      /\ IsRequest(b'.q)
  <2>1. CASE op = "read"
    <3>1. b'.q = Read(a) /\ (op # "read") = FALSE
      BY <1>5, <2>1
    <3>2. Read(a).valid = TRUE /\ Read(a).we = FALSE /\ Read(a).addr = a /\ IsRequest(Read(a))
      BY RequestShapes
    <3> QED
      BY <3>1, <3>2
  <2>2. CASE op # "read"
    <3>1. d \in WordContents /\ s \in SUBSET Lanes
      BY <1>4, <2>2 DEF WordContents, D!Contents
    <3>2. b'.q = Write(a, d, s) /\ (op # "read") = TRUE
      BY <1>5, <2>2
    <3>3. /\ Write(a, d, s).valid = TRUE /\ Write(a, d, s).we = TRUE
          /\ Write(a, d, s).addr = a /\ IsRequest(Write(a, d, s))
      BY <3>1, RequestShapes
    <3> QED
      BY <3>2, <3>3
  <2> QED
    BY <2>1, <2>2
<1>7. n \in Nat
  BY BenchAssumption
<1>8. port' # "f" /\ port' = port
  BY DEF CallBfm, Steady
<1>9. CallInv'
  BY <1>2, <1>4, <1>5, <1>6, <1>7, <1>8 DEF CallInv, Calling, IsRequest, WordContents
<1> QED
  BY <1>1, <1>9 DEF BenchInv

\* So does putting the request of a call on the bus.
LEMMA LaunchStep ==
  ASSUME BenchInv, bfm, Steady, Launch
  PROVE  BenchInv'
<1> DEFINE q == IF b.op = "probe" THEN Read(b.q.addr) ELSE b.q
<1>1. /\ RamInv /\ shadow = mem /\ fails = FALSE /\ port' = port /\ port # "f" /\ answers = << >>
      /\ b = [at |-> b.at, op |-> b.op, q |-> b.q, n |-> b.n, guard |-> b.guard]
      /\ b.op \in {"write", "read", "probe"} /\ IsRequest(b.q) /\ b.q.valid = TRUE
      /\ b.q.we = (b.op # "read") /\ Calling /\ bfm' \in BOOLEAN
  BY DEF BenchInv, CallInv, Calling, Launch, Steady
<1>2. /\ WaitFor(wready(FALSE), q, IF q.we THEN "main" ELSE "await") /\ tick(q, FALSE)
      /\ shadow' = IF wready(FALSE) /\ q.we /\ port = "d"
                   THEN [shadow EXCEPT ![q.addr] =
                           [l \in Lanes |-> IF l \in q.strb THEN q.data[l] ELSE @[l]]]
                   ELSE shadow
  BY DEF Launch
<1>3. IsRequest(q) /\ q.valid = TRUE /\ q.addr = b.q.addr /\ q.we = (b.op = "write")
  <2>1. CASE b.op = "probe"
    <3>1. q = Read(b.q.addr) /\ b.q.addr \in Words /\ (b.op = "write") = FALSE
      BY <1>1, <2>1 DEF Calling
    <3>2. /\ Read(b.q.addr).valid = TRUE /\ Read(b.q.addr).we = FALSE
          /\ Read(b.q.addr).addr = b.q.addr /\ IsRequest(Read(b.q.addr))
      BY <3>1, RequestShapes
    <3> QED
      BY <3>1, <3>2
  <2>2. CASE b.op # "probe"
    <3>1. q = b.q /\ (b.op # "read") = (b.op = "write")
      BY <1>1, <2>2
    <3> QED
      BY <1>1, <3>1
  <2> QED
    BY <2>1, <2>2
<1> HIDE DEF q
<1>4. Left(FALSE) = << >> /\ Len(<< >>) = 0 /\ Capacity = 1
  BY <1>1 DEF Left, Capacity
<1>5. wready(FALSE) /\ Accepted(q, FALSE)
  <2>1. wready(FALSE) <=> Len(Left(FALSE)) < Capacity
    BY <1>1, ReadyIs
  <2>2. Len(Left(FALSE)) < Capacity
    BY <1>1, <1>4 DEF Left
  <2> QED
    BY <1>3, <2>1, <2>2 DEF Accepted
<1>6. RamInv'
  BY <1>1, <1>2, <1>3, TickKeepsRam
<1>7. /\ b' = [b EXCEPT !.at = IF q.we THEN "main" ELSE "await", !.guard = 0]
      /\ fails' = FALSE
  BY <1>1, <1>2, <1>5 DEF WaitFor
<1>8. /\ b'.at = (IF q.we THEN "main" ELSE "await") /\ b'.op = b.op /\ b'.q = b.q /\ b'.n = b.n
      /\ b' = [at |-> b'.at, op |-> b'.op, q |-> b'.q, n |-> b'.n, guard |-> b'.guard]
  BY <1>1, <1>7
<1>9. Calling'
  BY <1>1, <1>8 DEF Calling, IsRequest, WordContents
<1>10. CASE q.we
  <2>1. answers' = << >> /\ b'.at = "main"
    BY <1>1, <1>2, <1>4, <1>8, <1>10, TickIs
  <2>2. shadow' = mem'
    <3>1. mem' = IF port = "d" THEN [mem EXCEPT ![q.addr] = Written(mem[q.addr], q)] ELSE mem
      BY <1>1, <1>2, <1>5, <1>10, TickIs
    <3>2. shadow' = IF port = "d" THEN [mem EXCEPT ![q.addr] = Written(mem[q.addr], q)] ELSE mem
      BY <1>1, <1>2, <1>5, <1>10 DEF Written
    <3> QED
      BY <3>1, <3>2
  <2>3. CallInv'
    BY <1>8, <2>1 DEF CallInv
  <2> QED
    BY <1>1, <1>6, <1>7, <2>2, <2>3 DEF BenchInv
<1>11. CASE ~q.we
  <2>1. answers' = Append(<< >>, mem[q.addr]) /\ mem' = mem
    BY <1>1, <1>2, <1>4, <1>5, <1>11, TickIs
  <2>2. answers' = <<mem'[b'.q.addr]>> /\ b'.at = "await"
    BY <1>3, <1>8, <1>11, <2>1
  <2>3. b'.op \in {"read", "probe"}
    BY <1>1, <1>3, <1>8, <1>11
  <2>4. shadow' = mem'
    BY <1>1, <1>2, <1>11, <2>1
  <2>5. CallInv'
    BY <1>8, <1>9, <2>2, <2>3 DEF CallInv
  <2> QED
    BY <1>1, <1>6, <1>7, <2>4, <2>5 DEF BenchInv
<1> QED
  BY <1>10, <1>11

\* While its answer waits, a call sees it at the port.
LEMMA AnswerWaits ==
  ASSUME BenchInv, bfm, b.at \in {"await", "hold", "drain"}
  PROVE  /\ RamInv /\ shadow = mem /\ fails = FALSE /\ Calling /\ b.op \in {"read", "probe"}
         /\ b = [at |-> b.at, op |-> b.op, q |-> b.q, n |-> b.n, guard |-> b.guard]
         /\ answers = <<mem[b.q.addr]>>
         /\ Left(FALSE) = answers /\ Left(TRUE) = << >> /\ Len(answers) = 1 /\ Capacity = 1
         /\ rvalid /\ rdata = mem[b.q.addr] /\ ~wready(FALSE)
<1>1. /\ RamInv /\ shadow = mem /\ fails = FALSE /\ Calling /\ b.op \in {"read", "probe"}
      /\ b = [at |-> b.at, op |-> b.op, q |-> b.q, n |-> b.n, guard |-> b.guard]
      /\ answers = <<mem[b.q.addr]>> /\ port # "f"
  BY DEF BenchInv, CallInv, Calling
<1>2. /\ answers # << >> /\ answers[1] = mem[b.q.addr] /\ Len(answers) = 1
      /\ Tail(answers) = << >>
  BY <1>1
<1>3. Left(FALSE) = answers /\ Left(TRUE) = << >> /\ Capacity = 1
  BY <1>1, <1>2 DEF Left, Capacity
<1>4. rvalid /\ rdata = mem[b.q.addr]
  BY <1>1, <1>2, PortShows
<1>5. ~wready(FALSE)
  <2>1. wready(FALSE) <=> Len(Left(FALSE)) < Capacity
    BY <1>1, ReadyIs
  <2>2. ~(Len(Left(FALSE)) < Capacity)
    BY <1>2, <1>3 DEF Left
  <2> QED
    BY <2>1, <2>2
<1> QED
  BY <1>1, <1>2, <1>3, <1>4, <1>5

\* So does waiting for the answer.
LEMMA AwaitStep ==
  ASSUME BenchInv, bfm, Steady, Await
  PROVE  BenchInv'
<1>1. /\ b.at = "await" /\ RamInv /\ shadow = mem /\ fails = FALSE /\ Calling
      /\ b.op \in {"read", "probe"} /\ answers = <<mem[b.q.addr]>> /\ rvalid
      /\ b = [at |-> b.at, op |-> b.op, q |-> b.q, n |-> b.n, guard |-> b.guard]
  BY AnswerWaits DEF Await
<1>2. /\ b' = [b EXCEPT !.at = "hold", !.guard = 0] /\ fails' = FALSE
      /\ UNCHANGED ramVars /\ UNCHANGED shadow /\ port' = port /\ bfm' \in BOOLEAN
  BY <1>1 DEF Await, WaitFor, Steady, BenchInv
<1>3. /\ b'.at = "hold" /\ b'.op = b.op /\ b'.q = b.q /\ b'.n = b.n
      /\ b' = [at |-> b'.at, op |-> b'.op, q |-> b'.q, n |-> b'.n, guard |-> b'.guard]
  BY <1>1, <1>2
<1>4. RamInv' /\ mem' = mem /\ answers' = answers /\ shadow' = mem'
  BY <1>1, <1>2 DEF ramVars, RamInv, RamTypes, D!AnswersExact, Capacity
<1>5. Calling'
  BY <1>1, <1>2, <1>3 DEF Calling, IsRequest, WordContents
<1>6. CallInv'
  BY <1>1, <1>3, <1>4, <1>5 DEF CallInv
<1> QED
  BY <1>2, <1>4, <1>6 DEF BenchInv

\* So does holding RREADY low.
LEMMA HoldStep ==
  ASSUME BenchInv, bfm, Steady, Hold
  PROVE  BenchInv'
<1>1. /\ b.at = "hold" /\ RamInv /\ shadow = mem /\ fails = FALSE /\ Calling
      /\ b.op \in {"read", "probe"} /\ answers = <<mem[b.q.addr]>> /\ rvalid
      /\ b = [at |-> b.at, op |-> b.op, q |-> b.q, n |-> b.n, guard |-> b.guard]
      /\ Left(FALSE) = answers
  BY AnswerWaits DEF Hold
<1>2. /\ b' = [b EXCEPT !.n = @ - 1] /\ b.n > 0 /\ fails' = FALSE
      /\ tick(NoRequest, FALSE) /\ UNCHANGED shadow /\ port' = port /\ bfm' \in BOOLEAN
  BY <1>1 DEF Hold, CHECK, Steady, BenchInv
<1>3. /\ b'.at = "hold" /\ b'.op = b.op /\ b'.q = b.q /\ b'.n = b.n - 1
      /\ b' = [at |-> b'.at, op |-> b'.op, q |-> b'.q, n |-> b'.n, guard |-> b'.guard]
  BY <1>1, <1>2
<1>4. RamInv' /\ mem' = mem /\ answers' = answers /\ shadow' = mem'
  BY <1>1, <1>2, QuietTick, TickKeepsRam, RequestShapes
<1>5. Calling'
  BY <1>1, <1>2, <1>3 DEF Calling, IsRequest, WordContents
<1>6. CallInv'
  BY <1>1, <1>3, <1>4, <1>5 DEF CallInv
<1> QED
  BY <1>2, <1>4, <1>6 DEF BenchInv

\* So does taking the answer, which is the one expected.
LEMMA AcceptStep ==
  ASSUME BenchInv, bfm, Steady, Accept
  PROVE  BenchInv'
<1>1. /\ RamInv /\ shadow = mem /\ fails = FALSE /\ rvalid /\ rdata = mem[b.q.addr]
      /\ Left(TRUE) = << >>
  BY AnswerWaits DEF Accept
<1>2. /\ b' = Main /\ tick(NoRequest, TRUE) /\ UNCHANGED shadow
      /\ CHECK(rvalid /\ rdata = shadow[b.q.addr] /\ ~rvalid')
      /\ port' = port /\ bfm' \in BOOLEAN
  BY DEF Accept, Steady, BenchInv
<1>3. RamInv'
  BY <1>1, <1>2, TickKeepsRam, RequestShapes
<1>4. answers' = Left(TRUE) /\ mem' = mem /\ (rvalid' <=> Left(TRUE) # << >>)
  BY <1>1, <1>2, QuietTick
<1>5. fails' = FALSE
  BY <1>1, <1>2, <1>4 DEF CHECK
<1>6. /\ b'.at = "main"
      /\ b' = [at |-> b'.at, op |-> b'.op, q |-> b'.q, n |-> b'.n, guard |-> b'.guard]
  BY <1>2 DEF Main
<1>7. CallInv'
  BY <1>1, <1>4, <1>6 DEF CallInv
<1> QED
  BY <1>1, <1>2, <1>3, <1>4, <1>5, <1>7 DEF BenchInv

\* So does offering a write while the answer waits, which is refused.
LEMMA ProbeStep ==
  ASSUME BenchInv, bfm, Steady, Probe
  PROVE  BenchInv'
<1>1. /\ b.at = "hold" /\ b.op = "probe" /\ RamInv /\ shadow = mem /\ fails = FALSE /\ Calling
      /\ answers = <<mem[b.q.addr]>> /\ rvalid /\ ~wready(FALSE)
      /\ b = [at |-> b.at, op |-> b.op, q |-> b.q, n |-> b.n, guard |-> b.guard]
      /\ Left(FALSE) = answers /\ Len(answers) = 1 /\ Capacity = 1 /\ port = "d"
  BY AnswerWaits DEF Probe, Calling
<1>2. /\ b' = [b EXCEPT !.at = "drain"] /\ tick(b.q, FALSE) /\ UNCHANGED shadow
      /\ CHECK(rvalid /\ ~wready(FALSE) /\ ~wready(FALSE)')
      /\ port' = port /\ bfm' \in BOOLEAN
  BY DEF Probe, Steady, BenchInv
<1>3. RamInv'
  BY <1>1, <1>2, TickKeepsRam DEF Calling
<1>4. ~Accepted(b.q, FALSE)
  BY <1>1 DEF Accepted, Left
<1>5. answers' = Left(FALSE) /\ mem' = mem /\ skid_q' = Left(FALSE) /\ rif_q' = FALSE
  BY <1>1, <1>2, <1>4, RefusedTick
<1>6. ~wready(FALSE)'
  <2>1. Len(skid_q') = 1 /\ rif_q' = FALSE /\ port' = "d"
    BY <1>1, <1>2, <1>5
  <2> QED
    BY <2>1 DEF wready, D!rsp_wready, D!new_count, D!skid_pop, D!land_stored, D!land
<1>7. fails' = FALSE
  BY <1>1, <1>2, <1>6 DEF CHECK
<1>8. /\ b'.at = "drain" /\ b'.op = b.op /\ b'.q = b.q /\ b'.n = b.n
      /\ b' = [at |-> b'.at, op |-> b'.op, q |-> b'.q, n |-> b'.n, guard |-> b'.guard]
  BY <1>1, <1>2
<1>9. Calling'
  BY <1>1, <1>2, <1>8 DEF Calling, IsRequest, WordContents
<1>10. CallInv'
  BY <1>1, <1>5, <1>8, <1>9 DEF CallInv
<1> QED
  BY <1>1, <1>2, <1>3, <1>5, <1>7, <1>10 DEF BenchInv

\* So does draining the answer that waits.
LEMMA DrainStep ==
  ASSUME BenchInv, bfm, Steady, Drain
  PROVE  BenchInv'
<1>1. /\ RamInv /\ shadow = mem /\ fails = FALSE /\ Calling /\ Left(TRUE) = << >>
  BY AnswerWaits DEF Drain
<1>2. /\ b' = [Main EXCEPT !.at = "launch", !.op = "read", !.q = Read(b.q.addr)]
      /\ tick(NoRequest, TRUE) /\ UNCHANGED <<shadow, fails>>
      /\ port' = port /\ bfm' \in BOOLEAN
  BY DEF Drain, Steady, BenchInv
<1>3. RamInv'
  BY <1>1, <1>2, TickKeepsRam, RequestShapes
<1>4. answers' = Left(TRUE) /\ mem' = mem
  BY <1>1, <1>2, QuietTick
<1>5. /\ b'.at = "launch" /\ b'.op = "read" /\ b'.q = Read(b.q.addr) /\ b'.n = 0
      /\ b' = [at |-> b'.at, op |-> b'.op, q |-> b'.q, n |-> b'.n, guard |-> b'.guard]
  BY <1>2 DEF Main
<1>6. b'.q.addr \in Words /\ b'.q.valid = TRUE /\ b'.q.we = FALSE /\ IsRequest(b'.q)
  <2>1. b.q.addr \in Words
    BY <1>1 DEF Calling
  <2>2. /\ Read(b.q.addr).valid = TRUE /\ Read(b.q.addr).we = FALSE
        /\ Read(b.q.addr).addr = b.q.addr /\ IsRequest(Read(b.q.addr))
    BY <2>1, RequestShapes
  <2> QED
    BY <1>5, <2>1, <2>2
<1>7. b'.q.we = (b'.op # "read")
  <2>1. (b'.op # "read") = FALSE
    BY <1>5
  <2> QED
    BY <1>6, <2>1
<1>8. Calling'
  BY <1>1, <1>2, <1>5, <1>6 DEF Calling
<1>9. CallInv'
  <2>1. IsRequest(b.q)'
    BY <1>6 DEF IsRequest, WordContents
  <2> QED
    BY <1>1, <1>4, <1>5, <1>6, <1>7, <1>8, <2>1 DEF CallInv
<1> QED
  BY <1>1, <1>2, <1>3, <1>4, <1>9 DEF BenchInv

\* So does the start of the scripted sequence.
LEMMA StartStep ==
  ASSUME BenchInv, bfm, Steady, StartScript
  PROVE  BenchInv'
<1>1. RamInv' /\ bfm' \in BOOLEAN /\ fails' = FALSE /\ shadow' = mem' /\ port' = "f"
  BY DEF BenchInv, Steady, StartScript, RamInv, RamTypes, D!AnswersExact, Capacity, ramVars
<1>2. answers' = << >>
  BY DEF BenchInv, CallInv, StartScript, ramVars
<1>3. PICK addrs \in [1..3 -> Words] :
        b' = [Main EXCEPT !.at = "script", !.op = "read", !.q = addrs, !.n = 1]
  BY DEF StartScript
<1>4. /\ b'.at = "script" /\ b'.q = addrs /\ b'.n = 1
      /\ b' = [at |-> b'.at, op |-> b'.op, q |-> b'.q, n |-> b'.n, guard |-> b'.guard]
  BY <1>3 DEF Main
<1>5. CallInv'
  BY <1>1, <1>2, <1>4 DEF CallInv, Owed
<1> QED
  BY <1>1, <1>5 DEF BenchInv

\* Three sequences of the lengths of the script's parts, end to end.
LEMMA ThreeParts ==
  ASSUME NEW S, NEW A \in Seq(S), NEW B \in Seq(S), NEW C \in Seq(S),
         Len(A) = 3, Len(B) = 4, Len(C) = 4
  PROVE  /\ Len((A \o B) \o C) = 11
         /\ \A k \in 1..3 : ((A \o B) \o C)[k] = A[k]
         /\ \A k \in 4..7 : ((A \o B) \o C)[k] = B[k - 3]
         /\ \A k \in 8..11 : ((A \o B) \o C)[k] = C[k - 7]
<1> DEFINE AB == A \o B
<1>1. /\ AB \in Seq(S) /\ Len(AB) = 7
      /\ \A k \in 1..7 : AB[k] = IF k <= 3 THEN A[k] ELSE B[k - 3]
  <2>1. /\ AB \in Seq(S) /\ Len(AB) = Len(A) + Len(B)
        /\ \A k \in 1..Len(A) + Len(B) : AB[k] = IF k <= Len(A) THEN A[k] ELSE B[k - Len(A)]
    BY ConcatProperties
  <2>2. Len(A) + Len(B) = 7
    OBVIOUS
  <2> QED
    BY <2>1, <2>2
<1> HIDE DEF AB
<1>2. /\ Len(AB \o C) = 11
      /\ \A k \in 1..11 : (AB \o C)[k] = IF k <= 7 THEN AB[k] ELSE C[k - 7]
  <2>1. /\ Len(AB \o C) = Len(AB) + Len(C)
        /\ \A k \in 1..Len(AB) + Len(C) :
             (AB \o C)[k] = IF k <= Len(AB) THEN AB[k] ELSE C[k - Len(AB)]
    BY <1>1, ConcatProperties
  <2>2. Len(AB) + Len(C) = 11
    BY <1>1
  <2> QED
    BY <1>1, <2>1, <2>2
<1>3. /\ \A k \in 1..3 : (AB \o C)[k] = A[k]
      /\ \A k \in 4..7 : (AB \o C)[k] = B[k - 3]
      /\ \A k \in 8..11 : (AB \o C)[k] = C[k - 7]
  <2>1. ASSUME NEW k \in 1..3 PROVE (AB \o C)[k] = A[k]
    <3>1. k \in 1..11 /\ k \in 1..7 /\ k <= 7 /\ k <= 3
      BY <2>1
    <3> QED
      BY <1>1, <1>2, <3>1
  <2>2. ASSUME NEW k \in 4..7 PROVE (AB \o C)[k] = B[k - 3]
    <3>1. k \in 1..11 /\ k \in 1..7 /\ k <= 7 /\ ~(k <= 3)
      BY <2>2
    <3> QED
      BY <1>1, <1>2, <3>1
  <2>3. ASSUME NEW k \in 8..11 PROVE (AB \o C)[k] = C[k - 7]
    <3>1. k \in 1..11 /\ ~(k <= 7)
      BY <2>3
    <3> QED
      BY <1>2, <3>1
  <2> QED
    BY <2>1, <2>2, <2>3
<1> QED
  BY <1>2, <1>3 DEF AB

\* The lines of the script.
LEMMA ScriptIs ==
  /\ Len(Script) = 11
  /\ Script[1] = Step(1, FALSE, TRUE, 0) /\ Script[2] = Step(2, FALSE, TRUE, 1)
  /\ Script[3] = Step(3, FALSE, FALSE, 1)
  /\ \A n \in 4..7 : Script[n] = Step(0, FALSE, FALSE, 1)
  /\ Script[8] = Step(0, TRUE, FALSE, 1) /\ Script[9] = Step(3, FALSE, TRUE, 0)
  /\ Script[10] = Step(0, TRUE, FALSE, 2) /\ Script[11] = Step(0, TRUE, FALSE, 3)
<1> DEFINE S == [read : 0..3, rr : BOOLEAN, ready : BOOLEAN, head : 0..3]
           A == << Step(1, FALSE, TRUE, 0), Step(2, FALSE, TRUE, 1), Step(3, FALSE, FALSE, 1) >>
           B == [n \in 1..4 |-> Step(0, FALSE, FALSE, 1)]
           C == << Step(0, TRUE, FALSE, 1), Step(3, FALSE, TRUE, 0), Step(0, TRUE, FALSE, 2),
                   Step(0, TRUE, FALSE, 3) >>
<1>1. /\ A \in Seq(S) /\ Len(A) = 3
      /\ A[1] = Step(1, FALSE, TRUE, 0) /\ A[2] = Step(2, FALSE, TRUE, 1)
      /\ A[3] = Step(3, FALSE, FALSE, 1)
  BY DEF Step
<1>2. B \in Seq(S) /\ Len(B) = 4 /\ \A k \in 1..4 : B[k] = Step(0, FALSE, FALSE, 1)
  BY DEF Step
<1>3. /\ C \in Seq(S) /\ Len(C) = 4
      /\ C[1] = Step(0, TRUE, FALSE, 1) /\ C[2] = Step(3, FALSE, TRUE, 0)
      /\ C[3] = Step(0, TRUE, FALSE, 2) /\ C[4] = Step(0, TRUE, FALSE, 3)
  BY DEF Step
<1>4. Script = (A \o B) \o C
  BY DEF Script
<1>5. A \in Seq(S) /\ B \in Seq(S) /\ C \in Seq(S) /\ Len(A) = 3 /\ Len(B) = 4 /\ Len(C) = 4
  BY <1>1, <1>2, <1>3
<1> HIDE DEF A, B, C, S
<1>6. /\ Len(Script) = 11
      /\ \A k \in 1..3 : Script[k] = A[k]
      /\ \A k \in 4..7 : Script[k] = B[k - 3]
      /\ \A k \in 8..11 : Script[k] = C[k - 7]
  <2> DEFINE T == (A \o B) \o C
  <2>1. /\ Len(T) = 11
        /\ \A k \in 1..3 : T[k] = A[k]
        /\ \A k \in 4..7 : T[k] = B[k - 3]
        /\ \A k \in 8..11 : T[k] = C[k - 7]
    BY <1>5, ThreeParts, SMTT(60)
  <2>2. Script = T
    BY <1>4
  <2> HIDE DEF T
  <2> QED
    BY <2>1, <2>2
<1>7. /\ Script[1] = A[1] /\ Script[2] = A[2] /\ Script[3] = A[3]
      /\ Script[8] = C[1] /\ Script[9] = C[2] /\ Script[10] = C[3] /\ Script[11] = C[4]
  BY <1>6
<1>8. ASSUME NEW n \in 4..7 PROVE Script[n] = Step(0, FALSE, FALSE, 1)
  <2>1. n - 3 \in 1..4 /\ Script[n] = B[n - 3]
    BY <1>6, <1>8
  <2> QED
    BY <1>2, <2>1 DEF Step
<1> QED
  BY <1>1, <1>3, <1>6, <1>7, <1>8 DEF Step

(***************************************************************************)
(* A line of the script that offers a read: it is accepted when WREADY is  *)
(* what the script expects.                                                *)
(***************************************************************************)
LEMMA ScriptRead ==
  ASSUME RamInv, port = "f", NEW a \in Words, NEW rr \in BOOLEAN, ~rr,
         tick(Read(a), rr)
  PROVE  /\ Len(answers) < 2 => wready(rr) = TRUE /\ answers' = Append(answers, mem[a])
         /\ ~(Len(answers) < 2) => wready(rr) = FALSE /\ answers' = answers
         /\ mem' = mem
<1>1. Read(a).valid = TRUE /\ Read(a).we = FALSE /\ Read(a).addr = a
  BY RequestShapes
<1>2. Left(rr) = answers /\ Capacity = 2
  BY DEF Left, Capacity
<1>3. Accepted(Read(a), rr) <=> Len(answers) < 2
  BY <1>1, <1>2 DEF Accepted, Left
<1>4. wready(rr) <=> Len(answers) < 2
  <2>1. wready(rr) <=> Len(Left(rr)) < Capacity
    BY ReadyIs
  <2>2. Len(Left(rr)) < Capacity <=> Len(answers) < 2
    BY <1>2 DEF Left
  <2> QED
    BY <2>1, <2>2
<1>5. wready(rr) \in BOOLEAN
  BY DEF wready, F!rsp_wready
<1>6. CASE Len(answers) < 2
  <2>1. wready(rr) = TRUE
    BY <1>4, <1>5, <1>6, Zenon
  <2> QED
    BY <1>1, <1>2, <1>3, <1>6, <2>1, TickIs
<1>7. CASE ~(Len(answers) < 2)
  <2>1. wready(rr) = FALSE
    BY <1>4, <1>5, <1>7, Zenon
  <2> QED
    BY <1>1, <1>2, <1>3, <1>7, <2>1, TickIs
<1> QED
  BY <1>6, <1>7

\* A second element behind a first one, or behind none.
LEMMA AppendPair ==
  ASSUME NEW x, NEW y
  PROVE  Append(<< >>, y) = <<y>> /\ Append(<<x>>, y) = <<x, y>>
<1>1. /\ <<x>> \in Seq({x, y}) /\ Len(<<x>>) = 1 /\ <<x>>[1] = x
      /\ <<x, y>> \in Seq({x, y}) /\ Len(<<x, y>>) = 2 /\ <<x, y>>[1] = x /\ <<x, y>>[2] = y
  OBVIOUS
<1>2. /\ Append(<<x>>, y) \in Seq({x, y}) /\ Len(Append(<<x>>, y)) = 2
      /\ Append(<<x>>, y)[1] = x /\ Append(<<x>>, y)[2] = y
  BY <1>1, AppendProperties
<1>3. \A i \in 1..2 : Append(<<x>>, y)[i] = <<x, y>>[i]
  BY <1>1, <1>2
<1>4. Append(<<x>>, y) = <<x, y>>
  BY <1>1, <1>2, <1>3, SeqEqual
<1> QED
  BY <1>4

\* An edge of the script without a request.
LEMMA ScriptQuiet ==
  ASSUME RamInv, NEW rr \in BOOLEAN, tick(NoRequest, rr)
  PROVE  /\ ~rr => answers' = answers
         /\ (rr /\ answers # << >>) => answers' = Tail(answers) /\ (rvalid' <=> Tail(answers) # << >>)
         /\ mem' = mem
BY QuietTick DEF Left

\* Each line of the script finds what it expects and leaves what the next
\* line expects.
LEMMA LineRuns ==
  ASSUME BenchInv, bfm, Steady, RunScript
  PROVE  /\ RamInv' /\ mem' = mem /\ fails' = FALSE
         /\ b.n # 11 => answers' = Owed(b.n + 1, b.q)
         /\ b.n = 11 => answers' = << >>
<1> DEFINE s == Script[b.n]
           rr == s.rr
           q == IF s.read = 0 THEN NoRequest ELSE Read(b.q[s.read])
           Good == /\ s.read # 0 => wready(rr) = s.ready
                   /\ s.head # 0 => rvalid /\ rdata = shadow[b.q[s.head]]
                   /\ b.n = Len(Script) => ~rvalid'
<1>1. /\ RamInv /\ shadow = mem /\ fails = FALSE /\ port' = port /\ port = "f"
      /\ b.q \in [1..3 -> Words] /\ b.n \in 1..11 /\ answers = Owed(b.n, b.q)
  BY DEF BenchInv, CallInv, RunScript, Steady
<1>2. tick(q, rr) /\ fails' = (fails \/ ~Good)
  BY DEF RunScript, CHECK
<1>3. b.q[1] \in Words /\ b.q[2] \in Words /\ b.q[3] \in Words
  BY <1>1
<1>4. rvalid <=> answers # << >>
  BY <1>1, PortShows
<1>5. rvalid => rdata = answers[1]
  BY <1>1, PortShows
<1>6. Len(Script) = 11
  BY ScriptIs
<1>7. /\ s = Script[b.n] /\ rr = s.rr
      /\ q = IF s.read = 0 THEN NoRequest ELSE Read(b.q[s.read])
  OBVIOUS
<1> HIDE DEF s, rr, q, Good
<1>8. CASE b.n = 1
  <2>1. s = Step(1, FALSE, TRUE, 0)
    BY <1>7, <1>8, ScriptIs
  <2>2. s.rr = FALSE /\ s.read = 1 /\ s.ready = TRUE /\ s.head = 0
    BY <2>1 DEF Step
  <2>3. s.read # 0
    BY <2>2
  <2>4. q = Read(b.q[1])
    BY <1>7, <2>2, <2>3, Zenon
  <2>5. rr = FALSE /\ rr \in BOOLEAN /\ ~rr
    BY <1>7, <2>2
  <2>6. answers = << >>
    BY <1>1, <1>8 DEF Owed
  <2>7. Len(answers) = 0
    BY <2>6
  <2>8. RamInv'
    BY <1>1, <1>2, <1>3, <2>5, <2>4, TickKeepsRam, RequestShapes
  <2>9. tick(Read(b.q[1]), rr)
    BY <1>2, <2>4
  <2>10. Len(answers) < 2
    BY <2>7
  <2>11. answers' = Append(answers, mem[b.q[1]])
    BY <1>1, <1>3, <2>5, <2>10, <2>9, ScriptRead
  <2>12. mem' = mem
    BY <1>1, <1>3, <2>5, <2>10, <2>9, ScriptRead
  <2>13. mem' = mem /\ wready(rr) = TRUE
    BY <1>1, <1>3, <2>5, <2>10, <2>9, <2>12, ScriptRead
  <2>14. wready(rr) = s.ready
    BY <2>2, <2>13, Zenon
  <2>15. s.head # 0 => rvalid /\ rdata = shadow[b.q[s.head]]
    BY <1>1, <1>4, <1>5, <2>2, <2>7
  <2>16. Good
    BY <1>6, <1>8, <2>14, <2>15 DEF Good
  <2>17. fails' = FALSE
    BY <1>1, <1>2, <2>16
  <2>18. answers' = <<mem[b.q[1]]>>
    BY <2>6, <2>11, AppendPair
  <2> QED
    BY <1>1, <1>8, <2>8, <2>13, <2>17, <2>18 DEF Owed
<1>9. CASE b.n = 2
  <2>1. s = Step(2, FALSE, TRUE, 1)
    BY <1>7, <1>9, ScriptIs
  <2>2. s.rr = FALSE /\ s.read = 2 /\ s.ready = TRUE /\ s.head = 1
    BY <2>1 DEF Step
  <2>3. s.read # 0
    BY <2>2
  <2>4. q = Read(b.q[2])
    BY <1>7, <2>2, <2>3, Zenon
  <2>5. rr = FALSE /\ rr \in BOOLEAN /\ ~rr
    BY <1>7, <2>2
  <2>6. answers = <<mem[b.q[1]]>>
    BY <1>1, <1>9 DEF Owed
  <2>7. Len(answers) = 1 /\ answers # << >> /\ answers[1] = mem[b.q[1]]
    BY <2>6
  <2>8. RamInv'
    BY <1>1, <1>2, <1>3, <2>5, <2>4, TickKeepsRam, RequestShapes
  <2>9. tick(Read(b.q[2]), rr)
    BY <1>2, <2>4
  <2>10. Len(answers) < 2
    BY <2>7
  <2>11. answers' = Append(answers, mem[b.q[2]])
    BY <1>1, <1>3, <2>5, <2>10, <2>9, ScriptRead
  <2>12. mem' = mem
    BY <1>1, <1>3, <2>5, <2>10, <2>9, ScriptRead
  <2>13. mem' = mem /\ wready(rr) = TRUE
    BY <1>1, <1>3, <2>5, <2>10, <2>9, <2>12, ScriptRead
  <2>14. wready(rr) = s.ready
    BY <2>2, <2>13, Zenon
  <2>15. s.head # 0 => rvalid /\ rdata = shadow[b.q[s.head]]
    BY <1>1, <1>4, <1>5, <2>2, <2>7
  <2>16. Good
    BY <1>6, <1>9, <2>14, <2>15 DEF Good
  <2>17. fails' = FALSE
    BY <1>1, <1>2, <2>16
  <2>18. answers' = <<mem[b.q[1]], mem[b.q[2]]>>
    BY <2>6, <2>11, AppendPair
  <2> QED
    BY <1>1, <1>9, <2>8, <2>13, <2>17, <2>18 DEF Owed
<1>10. CASE b.n = 3
  <2>1. s = Step(3, FALSE, FALSE, 1)
    BY <1>7, <1>10, ScriptIs
  <2>2. s.rr = FALSE /\ s.read = 3 /\ s.ready = FALSE /\ s.head = 1
    BY <2>1 DEF Step
  <2>3. s.read # 0
    BY <2>2
  <2>4. q = Read(b.q[3])
    BY <1>7, <2>2, <2>3, Zenon
  <2>5. rr = FALSE /\ rr \in BOOLEAN /\ ~rr
    BY <1>7, <2>2
  <2>6. answers = <<mem[b.q[1]], mem[b.q[2]]>>
    BY <1>1, <1>10 DEF Owed
  <2>7. Len(answers) = 2 /\ answers # << >> /\ answers[1] = mem[b.q[1]]
    BY <2>6
  <2>8. RamInv'
    BY <1>1, <1>2, <1>3, <2>5, <2>4, TickKeepsRam, RequestShapes
  <2>9. tick(Read(b.q[3]), rr)
    BY <1>2, <2>4
  <2>10. ~(Len(answers) < 2)
    BY <2>7
  <2>11. answers' = answers
    BY <1>1, <1>3, <2>5, <2>10, <2>9, ScriptRead
  <2>12. mem' = mem
    BY <1>1, <1>3, <2>5, <2>10, <2>9, ScriptRead
  <2>13. mem' = mem /\ wready(rr) = FALSE
    BY <1>1, <1>3, <2>5, <2>10, <2>9, <2>12, ScriptRead
  <2>14. wready(rr) = s.ready
    BY <2>2, <2>13, Zenon
  <2>15. s.head # 0 => rvalid /\ rdata = shadow[b.q[s.head]]
    BY <1>1, <1>4, <1>5, <2>2, <2>7
  <2>16. Good
    BY <1>6, <1>10, <2>14, <2>15 DEF Good
  <2>17. fails' = FALSE
    BY <1>1, <1>2, <2>16
  <2>18. answers' = <<mem[b.q[1]], mem[b.q[2]]>>
    BY <2>6, <2>11
  <2> QED
    BY <1>1, <1>10, <2>8, <2>13, <2>17, <2>18 DEF Owed
<1>11. CASE b.n \in 4..7
  <2>1. s = Step(0, FALSE, FALSE, 1)
    BY <1>7, <1>11, ScriptIs
  <2>2. s.rr = FALSE /\ s.read = 0 /\ s.ready = FALSE /\ s.head = 1
    BY <2>1 DEF Step
  <2>3. q = NoRequest
    BY <1>7, <2>2, Zenon
  <2>4. rr = FALSE /\ rr \in BOOLEAN /\ ~rr
    BY <1>7, <2>2
  <2>5. answers = <<mem[b.q[1]], mem[b.q[2]]>>
    BY <1>1, <1>11 DEF Owed
  <2>6. Len(answers) = 2 /\ answers # << >> /\ answers[1] = mem[b.q[1]]
    BY <2>5
  <2>7. RamInv'
    BY <1>1, <1>2, <1>3, <2>4, <2>3, TickKeepsRam, RequestShapes
  <2>8. tick(NoRequest, rr)
    BY <1>2, <2>3
  <2>9. answers' = answers
    BY <1>1, <2>4, <2>6, <2>8, ScriptQuiet
  <2>10. mem' = mem
    BY <1>1, <2>4, <2>6, <2>8, ScriptQuiet
  <2>11. Good
    BY <1>1, <1>4, <1>5, <1>6, <1>11, <2>2, <2>6, <2>10 DEF Good
  <2>12. fails' = FALSE
    BY <1>1, <1>2, <2>11
  <2>13. answers' = <<mem[b.q[1]], mem[b.q[2]]>>
    BY <2>5, <2>9
  <2> QED
    BY <1>1, <1>11, <2>7, <2>10, <2>12, <2>13 DEF Owed
<1>12. CASE b.n = 8
  <2>1. s = Step(0, TRUE, FALSE, 1)
    BY <1>7, <1>12, ScriptIs
  <2>2. s.rr = TRUE /\ s.read = 0 /\ s.ready = FALSE /\ s.head = 1
    BY <2>1 DEF Step
  <2>3. q = NoRequest
    BY <1>7, <2>2, Zenon
  <2>4. rr = TRUE /\ rr \in BOOLEAN /\ rr
    BY <1>7, <2>2
  <2>5. answers = <<mem[b.q[1]], mem[b.q[2]]>>
    BY <1>1, <1>12 DEF Owed
  <2>6. Len(answers) = 2 /\ answers # << >> /\ answers[1] = mem[b.q[1]] /\ Tail(answers) = <<mem[b.q[2]]>>
    BY <2>5
  <2>7. RamInv'
    BY <1>1, <1>2, <1>3, <2>4, <2>3, TickKeepsRam, RequestShapes
  <2>8. tick(NoRequest, rr)
    BY <1>2, <2>3
  <2>9. answers' = Tail(answers)
    BY <1>1, <2>4, <2>6, <2>8, ScriptQuiet
  <2>10. mem' = mem
    BY <1>1, <2>4, <2>6, <2>8, ScriptQuiet
  <2>11. Good
    BY <1>1, <1>4, <1>5, <1>6, <1>12, <2>2, <2>6, <2>10 DEF Good
  <2>12. fails' = FALSE
    BY <1>1, <1>2, <2>11
  <2>13. answers' = <<mem[b.q[2]]>>
    BY <2>5, <2>9
  <2> QED
    BY <1>1, <1>12, <2>7, <2>10, <2>12, <2>13 DEF Owed
<1>13. CASE b.n = 9
  <2>1. s = Step(3, FALSE, TRUE, 0)
    BY <1>7, <1>13, ScriptIs
  <2>2. s.rr = FALSE /\ s.read = 3 /\ s.ready = TRUE /\ s.head = 0
    BY <2>1 DEF Step
  <2>3. s.read # 0
    BY <2>2
  <2>4. q = Read(b.q[3])
    BY <1>7, <2>2, <2>3, Zenon
  <2>5. rr = FALSE /\ rr \in BOOLEAN /\ ~rr
    BY <1>7, <2>2
  <2>6. answers = <<mem[b.q[2]]>>
    BY <1>1, <1>13 DEF Owed
  <2>7. Len(answers) = 1 /\ answers # << >> /\ answers[1] = mem[b.q[2]]
    BY <2>6
  <2>8. RamInv'
    BY <1>1, <1>2, <1>3, <2>5, <2>4, TickKeepsRam, RequestShapes
  <2>9. tick(Read(b.q[3]), rr)
    BY <1>2, <2>4
  <2>10. Len(answers) < 2
    BY <2>7
  <2>11. answers' = Append(answers, mem[b.q[3]])
    BY <1>1, <1>3, <2>5, <2>10, <2>9, ScriptRead
  <2>12. mem' = mem
    BY <1>1, <1>3, <2>5, <2>10, <2>9, ScriptRead
  <2>13. mem' = mem /\ wready(rr) = TRUE
    BY <1>1, <1>3, <2>5, <2>10, <2>9, <2>12, ScriptRead
  <2>14. wready(rr) = s.ready
    BY <2>2, <2>13, Zenon
  <2>15. s.head # 0 => rvalid /\ rdata = shadow[b.q[s.head]]
    BY <1>1, <1>4, <1>5, <2>2, <2>7
  <2>16. Good
    BY <1>6, <1>13, <2>14, <2>15 DEF Good
  <2>17. fails' = FALSE
    BY <1>1, <1>2, <2>16
  <2>18. answers' = <<mem[b.q[2]], mem[b.q[3]]>>
    BY <2>6, <2>11, AppendPair
  <2> QED
    BY <1>1, <1>13, <2>8, <2>13, <2>17, <2>18 DEF Owed
<1>14. CASE b.n = 10
  <2>1. s = Step(0, TRUE, FALSE, 2)
    BY <1>7, <1>14, ScriptIs
  <2>2. s.rr = TRUE /\ s.read = 0 /\ s.ready = FALSE /\ s.head = 2
    BY <2>1 DEF Step
  <2>3. q = NoRequest
    BY <1>7, <2>2, Zenon
  <2>4. rr = TRUE /\ rr \in BOOLEAN /\ rr
    BY <1>7, <2>2
  <2>5. answers = <<mem[b.q[2]], mem[b.q[3]]>>
    BY <1>1, <1>14 DEF Owed
  <2>6. Len(answers) = 2 /\ answers # << >> /\ answers[1] = mem[b.q[2]] /\ Tail(answers) = <<mem[b.q[3]]>>
    BY <2>5
  <2>7. RamInv'
    BY <1>1, <1>2, <1>3, <2>4, <2>3, TickKeepsRam, RequestShapes
  <2>8. tick(NoRequest, rr)
    BY <1>2, <2>3
  <2>9. answers' = Tail(answers)
    BY <1>1, <2>4, <2>6, <2>8, ScriptQuiet
  <2>10. mem' = mem
    BY <1>1, <2>4, <2>6, <2>8, ScriptQuiet
  <2>11. Good
    BY <1>1, <1>4, <1>5, <1>6, <1>14, <2>2, <2>6, <2>10 DEF Good
  <2>12. fails' = FALSE
    BY <1>1, <1>2, <2>11
  <2>13. answers' = <<mem[b.q[3]]>>
    BY <2>5, <2>9
  <2> QED
    BY <1>1, <1>14, <2>7, <2>10, <2>12, <2>13 DEF Owed
<1>15. CASE b.n = 11
  <2>1. s = Step(0, TRUE, FALSE, 3)
    BY <1>7, <1>15, ScriptIs
  <2>2. s.rr = TRUE /\ s.read = 0 /\ s.ready = FALSE /\ s.head = 3
    BY <2>1 DEF Step
  <2>3. q = NoRequest
    BY <1>7, <2>2, Zenon
  <2>4. rr = TRUE /\ rr \in BOOLEAN /\ rr
    BY <1>7, <2>2
  <2>5. answers = <<mem[b.q[3]]>>
    BY <1>1, <1>15 DEF Owed
  <2>6. Len(answers) = 1 /\ answers # << >> /\ answers[1] = mem[b.q[3]] /\ Tail(answers) = << >>
    BY <2>5
  <2>7. RamInv'
    BY <1>1, <1>2, <1>3, <2>4, <2>3, TickKeepsRam, RequestShapes
  <2>8. tick(NoRequest, rr)
    BY <1>2, <2>3
  <2>9. answers' = Tail(answers)
    BY <1>1, <2>4, <2>6, <2>8, ScriptQuiet
  <2>10. mem' = mem /\ ~rvalid'
    BY <1>1, <2>4, <2>6, <2>8, ScriptQuiet
  <2>11. Good
    BY <1>1, <1>4, <1>5, <1>6, <1>15, <2>2, <2>6, <2>10 DEF Good
  <2>12. fails' = FALSE
    BY <1>1, <1>2, <2>11
  <2>13. answers' = << >>
    BY <2>5, <2>9
  <2> QED
    BY <1>1, <1>15, <2>7, <2>10, <2>12, <2>13
<1> QED
  <2>1. b.n = 1 \/ b.n = 2 \/ b.n = 3 \/ b.n \in 4..7 \/ b.n = 8 \/ b.n = 9 \/ b.n = 10 \/ b.n = 11
    BY <1>1
  <2> QED
    BY <2>1, <1>8, <1>9, <1>10, <1>11, <1>12, <1>13, <1>14, <1>15

\* Every edge of the scripted sequence keeps the bench in order.
LEMMA ScriptStep ==
  ASSUME BenchInv, bfm, Steady, RunScript
  PROVE  BenchInv'
<1>1. /\ b = [at |-> b.at, op |-> b.op, q |-> b.q, n |-> b.n, guard |-> b.guard]
      /\ b.at = "script" /\ b.n \in 1..11 /\ b.q \in [1..3 -> Words] /\ port' = "f"
      /\ shadow = mem /\ UNCHANGED shadow /\ bfm' \in BOOLEAN
  BY DEF BenchInv, CallInv, RunScript, Steady
<1>2. RamInv' /\ mem' = mem /\ fails' = FALSE
  BY LineRuns
<1>3. b' = IF b.n = 11 THEN Main ELSE [b EXCEPT !.n = @ + 1]
  BY ScriptIs DEF RunScript
<1>4. CASE b.n = 11
  <2>1. answers' = << >>
    BY <1>4, LineRuns
  <2>2. /\ b'.at = "main"
        /\ b' = [at |-> b'.at, op |-> b'.op, q |-> b'.q, n |-> b'.n, guard |-> b'.guard]
    BY <1>3, <1>4 DEF Main
  <2>3. CallInv'
    BY <2>1, <2>2 DEF CallInv
  <2> QED
    BY <1>1, <1>2, <2>3 DEF BenchInv
<1>5. CASE b.n # 11
  <2>1. answers' = Owed(b.n + 1, b.q)
    BY <1>5, LineRuns
  <2>2. /\ b'.at = "script" /\ b'.n = b.n + 1 /\ b'.q = b.q
        /\ b' = [at |-> b'.at, op |-> b'.op, q |-> b'.q, n |-> b'.n, guard |-> b'.guard]
    BY <1>1, <1>3, <1>5
  <2>3. Owed(b.n, b.q)' = Owed(b.n + 1, b.q)
    BY <1>2, <2>2 DEF Owed
  <2>4. b'.n \in 1..11
    BY <1>1, <1>5, <2>2
  <2>5. CallInv'
    BY <1>1, <2>1, <2>2, <2>3, <2>4 DEF CallInv
  <2> QED
    BY <1>1, <1>2, <2>5 DEF BenchInv
<1> QED
  BY <1>4, <1>5

(***************************************************************************)
(* The invariant holds at reset and is kept by every step.                 *)
(***************************************************************************)
LEMMA BenchStart == TbInit => BenchInv
<1> SUFFICES ASSUME TbInit PROVE BenchInv
  OBVIOUS
<1>1. RamInv
  <2>1. /\ skid_q = << >> /\ answers = << >> /\ rif_q = FALSE /\ port \in {"d", "i", "f"}
        /\ mem \in [Words -> WordContents]
    BY DEF TbInit, D!RamInit, D!RamReset, D!Contents, WordContents
  <2>2. RamTypes
    <3>1. skid_q \in Seq(WordContents)
      BY <2>1, EmptySeq
    <3>2. rif_q \in BOOLEAN /\ ~rif_q
      BY <2>1
    <3> QED
      BY <2>1, <3>1, <3>2 DEF RamTypes
  <2>3. D!AnswersExact
    BY <2>1 DEF D!AnswersExact
  <2>4. Len(answers) <= Capacity
    BY <2>1 DEF Capacity
  <2> QED
    BY <2>2, <2>3, <2>4 DEF RamInv
<1>2. CallInv
  <2>1. /\ b.at = "main" /\ answers = << >>
        /\ b = [at |-> b.at, op |-> b.op, q |-> b.q, n |-> b.n, guard |-> b.guard]
    BY DEF TbInit, Main, D!RamInit, D!RamReset
  <2> QED
    BY <2>1 DEF CallInv
<1> QED
  BY <1>1, <1>2 DEF TbInit, BenchInv

\* Every step keeps the bench and the RAM in order.
LEMMA BenchStep == BenchInv /\ [TbNext]_tbVars => BenchInv'
<1> SUFFICES ASSUME BenchInv, [TbNext]_tbVars PROVE BenchInv'
  OBVIOUS
<1>1. CASE UNCHANGED tbVars
  BY <1>1 DEF tbVars, ramVars, BenchInv, RamInv, RamTypes, D!AnswersExact, Capacity, CallInv,
              Calling, IsRequest, WordContents, Owed
<1>2. ASSUME Steady, ~bfm, Anyone PROVE BenchInv'
  <2>1. PICK rr \in BOOLEAN, q \in D!Requests : IsRequest(q) /\ tick(q, rr)
    BY <1>2, AnyoneTicks DEF BenchInv
  <2>2. RamInv'
    BY <1>2, <2>1, TickKeepsRam DEF BenchInv, Steady
  <2> QED
    BY <1>2, <2>2 DEF BenchInv, Steady, Anyone
<1>3. ASSUME Steady, bfm,
             \/ CallBfm \/ Launch \/ Await \/ Hold \/ Accept \/ Probe \/ Drain
             \/ StartScript \/ RunScript
      PROVE  BenchInv'
  BY <1>3, CallStep, LaunchStep, AwaitStep, HoldStep, AcceptStep, ProbeStep, DrainStep,
     StartStep, ScriptStep
<1> QED
  BY <1>1, <1>2, <1>3 DEF TbNext, Steady

\* They are in order in every reachable state.
LEMMA BenchAlways == TbSpec => []BenchInv
BY BenchStart, BenchStep, PTL DEF TbSpec

(***************************************************************************)
(* In each configuration of native_ram.sv the FIFO never overflows, and    *)
(* FIFO and landing register hold exactly the answers owed for the         *)
(* accepted reads, in order, none lost, repeated or touched by a later     *)
(* write.                                                                  *)
(***************************************************************************)
THEOREM RamAnswersExact == TbSpec => []RamExact
<1>1. BenchInv => RamExact
  <2> SUFFICES ASSUME BenchInv PROVE RamExact
    OBVIOUS
  <2>1. /\ RamInv /\ port \in {"d", "i", "f"} /\ skid_q \in Seq(WordContents) /\ rif_q \in BOOLEAN
        /\ answers = skid_q \o (IF rif_q THEN <<rd_d_q>> ELSE << >>)
        /\ Len(answers) <= Capacity
    BY DEF BenchInv, RamInv, RamTypes, D!AnswersExact
  <2>2. Len(answers) = Len(skid_q) + (IF rif_q THEN 1 ELSE 0)
    <3>1. CASE rif_q
      BY <2>1, <3>1, ConcatOne DEF RamInv, RamTypes
    <3>2. CASE ~rif_q
      <4>1. answers = skid_q
        BY <2>1, <3>2
      <4> QED
        BY <2>1, <3>2, <4>1
    <3> QED
      BY <3>1, <3>2
  <2> QED
    BY <2>1, <2>2 DEF RamExact, Capacity, D!RamRoom, I!RamRoom, F!RamRoom,
       D!AnswersExact, I!AnswersExact, F!AnswersExact
<1> QED
  BY <1>1, BenchAlways, PTL

(***************************************************************************)
(* No check of native_mem_tb.cpp and native_ram64_tb.cpp fails and no      *)
(* guard of theirs runs out, for every order of their calls and all words, *)
(* lanes, values and delays: RVALID is held while RREADY is low, a full    *)
(* skid refuses, and a refused or read-only write leaves no trace.         *)
(***************************************************************************)
THEOREM BenchesPass == TbSpec => []BenchPasses
<1>1. BenchInv => BenchPasses
  BY DEF BenchInv, BenchPasses
<1> QED
  BY <1>1, BenchAlways, PTL
=============================================================================
