--------------------------- MODULE MonitorProofs ----------------------------
(***************************************************************************)
(* Proofs about two programs and the C library the benchmarks link, each   *)
(* for every size of its buffers and everything that can be typed or       *)
(* asked of it:                                                            *)
(*                                                                         *)
(*   YarvMon (sim/sw/yarvmon/yarvmon.c) does what a line means;            *)
(*   the SHA-256 shell (sim/sw/sha256) compresses exactly the padding of   *)
(*   the standard;                                                         *)
(*   strcpy, memcpy, memset and malloc (sim/sw/dhrystone/dhry_portme.c)    *)
(*   write the bytes and hand out the blocks they promise, and printf      *)
(*   (sim/sw/common/ee_printf.c) sends the text its format means.          *)
(***************************************************************************)

EXTENDS YarvMon, Sha256, CLib, Induction, SequenceTheorems

(***************************************************************************)
(* YarvMon.                                                                *)
(*                                                                         *)
(* The meaning of a line is a recursive function of its characters;        *)
(* Induction gives it its defining equation. The invariant says how far    *)
(* the monitor is along it: between two tokens it has done what the        *)
(* characters before y mean (SkipInv), inside a number it has done what    *)
(* they mean without that number (NumberInv, ActInv), and inside a block   *)
(* it has shown the bytes up to the current address.                       *)
(***************************************************************************)
\* The modes of the interpreter, what a line may start from, and what a part of it
\* may mean.
Modes == {"XAM", "STOR", "BLOCK"}
Starts == [xam : Addrs, st_addr : Addrs, dmem : [Addrs -> Bytes],
           shown : Seq(Addrs \X Bytes), ran : Seq(Addrs)]
Meanings == [xam : Addrs, st_addr : Addrs, dmem : [Addrs -> Bytes],
             shown : Seq(Addrs \X Bytes), ran : Seq(Addrs), mode : Modes, over : BOOLEAN]

\* Types.
StateOK ==
  /\ xam \in Addrs /\ st_addr \in Addrs /\ dmem \in [Addrs -> Bytes]
  /\ shown \in Seq(Addrs \X Bytes) /\ ran \in Seq(Addrs)

MonTypeOK ==
  /\ image = "yarvmon"
  /\ pc \in {"reset", "prompt", "get_line", "skip", "number"} \cup Modes
  /\ in_buf \in Seq(Chars) /\ screen = in_buf /\ Len(in_buf) < IN_BUF_SIZE
  /\ StateOK /\ before \in Starts
  /\ mode \in Modes /\ hex_val \in Addrs /\ digits \in Nat /\ y \in Nat

\* The monitor has done what m means, and goes on in its mode.
Agrees(m) ==
  /\ xam = m.xam /\ st_addr = m.st_addr /\ dmem = m.dmem /\ shown = m.shown /\ ran = m.ran
  /\ mode = m.mode /\ ~m.over

\* The first n bytes of a block of m, with their addresses.
BlockFrom(m, n) == [k \in 1..n |-> <<(m.xam + k - 1) % AddrMod,
                                    m.dmem[(m.xam + k - 1) % AddrMod]>>]

\* The monitor has shown the first n bytes of the block of m, and comes to the next.
ShownUpTo(m, n) ==
  /\ xam = (m.xam + n) % AddrMod /\ st_addr = m.st_addr /\ dmem = m.dmem /\ ran = m.ran
  /\ mode = m.mode /\ ~m.over
  /\ shown = m.shown \o BlockFrom(m, n)

\* What the line means up to y, without a number that ends there.
MeansSoFar == MeansUpTo(in_buf, before)[y]

\* y is at the end of the number hex_val.
NumberRead == IsDigitAt(in_buf, y) /\ hex_val = NumbersIn(in_buf)[y]
DigitsEnd == y = Len(in_buf) \/ in_buf[y + 1] \notin Digits

\* Between two tokens, the monitor has done what the line means up to y.
SkipInv ==
  pc = "skip" => /\ Agrees(Ended(in_buf, MeansSoFar, y))
                 /\ IsDigitAt(in_buf, y) => DigitsEnd
\* Before the first digit likewise; behind it the monitor has yet to act on the
\* number.
NumberInv ==
  pc = "number" =>
    IF digits = 0 THEN /\ Agrees(Ended(in_buf, MeansSoFar, y)) /\ hex_val = 0
                       /\ y < Len(in_buf) /\ in_buf[y + 1] \notin {Dot, Colon, Blank, Run}
                       /\ IsDigitAt(in_buf, y) => DigitsEnd
    ELSE Agrees(MeansSoFar) /\ NumberRead
\* Before the monitor acts on a number, or inside the block that it ends.
ActInv ==
  pc \in Modes =>
    /\ mode = pc /\ NumberRead /\ DigitsEnd
    /\ pc # "BLOCK" => Agrees(MeansSoFar)
    /\ pc = "BLOCK" => \E n \in 0..(hex_val - MeansSoFar.xam) % AddrMod : ShownUpTo(MeansSoFar, n)

\* A line starts from the state as it is, and y is in the line.
PlaceInv ==
  /\ pc = "get_line" => before = MonState
  /\ pc \in {"skip", "number"} \cup Modes => y <= Len(in_buf)

\* The inductive invariant.
MonInv ==
  /\ MonTypeOK /\ PlaceInv
  /\ SkipInv /\ NumberInv /\ ActInv
  /\ LineObeyed

(***************************************************************************)
(* The recursive functions of the model.                                   *)
(***************************************************************************)
\* power follows its definition.
LEMMA PowerFacts ==
  /\ power[0] = 1
  /\ \A n \in Nat : power[n] \in Nat \ {0} /\ power[n + 1] = BASE * power[n]
<1>0. BASE \in Nat \ {0}
  BY MonAssumption
<1> DEFINE P(f) == f = [n \in Nat |-> IF n = 0 THEN 1 ELSE BASE * f[n - 1]]
           S == Nat \ {0}
           g == [n \in Nat |-> [u \in S |-> BASE * u]]
<1>1. 1 \in S /\ g \in [Nat -> [S -> S]] /\ \A n \in Nat, u \in S : g[n][u] = BASE * u
  BY <1>0
<1> HIDE DEF g, S
<1>2. PICK f : IsRecursion(f, S, 1, g)
  BY <1>1, RecursionExists
<1>3. \A n \in Nat : f[n] \in S /\ f[n + 1] = BASE * f[n]
  BY <1>1, <1>2 DEF IsRecursion
<1>4. ASSUME NEW n \in Nat, n # 0 PROVE f[n] = BASE * f[n - 1]
  <2>1. n - 1 \in Nat /\ (n - 1) + 1 = n
    BY <1>4
  <2> QED
    BY <1>3, <2>1
<1>5. \E h : P(h)
  BY <1>2, <1>4 DEF IsRecursion
<1>6. power = CHOOSE h : P(h)
  BY DEF power
<1>7. P(power)
  BY <1>5, <1>6
<1>8. power[0] = 1
  BY <1>7
<1>9. ASSUME NEW n \in Nat PROVE power[n + 1] = BASE * power[n]
  <2>1. power[n + 1] = IF n + 1 = 0 THEN 1 ELSE BASE * power[(n + 1) - 1]
    BY <1>7
  <2> QED
    BY <2>1
<1> DEFINE T == {n \in Nat : power[n] \in S}
<1>10. 0 \in T
  BY <1>1, <1>8
<1>11. ASSUME NEW n \in Nat, n \in T PROVE n + 1 \in T
  BY <1>0, <1>9, <1>11 DEF S
<1> HIDE DEF T
<1>12. \A n \in Nat : n \in T
  BY <1>10, <1>11, SetInduction
<1> QED
  BY <1>8, <1>9, <1>12 DEF T, S

\* There are addresses and bytes, and 0 is one of either.
LEMMA MonSizes ==
  /\ AddrMod \in Nat /\ AddrMod > 0 /\ 0 \in Addrs /\ Addrs \subseteq Nat
  /\ BASE \in Nat /\ BASE > 1 /\ BASE * BASE \in Nat /\ BASE * BASE > 0 /\ 0 \in Bytes
  /\ IN_BUF_SIZE \in Nat /\ IN_BUF_SIZE > 1
<1>1. BASE \in Nat /\ BASE > 1 /\ DIGITS \in Nat /\ IN_BUF_SIZE \in Nat /\ IN_BUF_SIZE > 1
  BY MonAssumption
<1>2. AddrMod \in Nat /\ AddrMod > 0
  BY <1>1, PowerFacts DEF AddrMod
<1>3. BASE * BASE \in Nat /\ BASE * BASE > 0
  BY <1>1
<1> QED
  BY <1>1, <1>2, <1>3 DEF Addrs, Bytes

\* A number cut to an address or to a byte.
LEMMA MonWraps == \A u \in Int : u % AddrMod \in Addrs /\ u % (BASE * BASE) \in Bytes
<1>1. \A w \in Nat : w > 0 => \A u \in Int : u % w \in 0..w-1
  OBVIOUS
<1> QED
  BY <1>1, MonSizes DEF Addrs, Bytes

\* A digit is not one of the other characters.
LEMMA CharKinds ==
  /\ Digits \subseteq Nat
  /\ {Dot, Colon, Blank, Run, Other} \cap Digits = {}
  /\ Chars = Digits \cup {Dot, Colon, Blank, Run, Other}
BY MonSizes DEF Digits, Chars, Dot, Colon, Blank, Run, Other

\* The numbers of a line: each character by the one before it.
LEMMA NumbersFollow ==
  ASSUME NEW s \in Seq(Chars)
  PROVE  /\ NumbersIn(s) \in [0..Len(s) -> Addrs] /\ NumbersIn(s)[0] = 0
         /\ \A k \in 1..Len(s) :
              NumbersIn(s)[k] = IF s[k] \in Digits
                                THEN (NumbersIn(s)[k-1] * BASE + s[k]) % AddrMod ELSE 0
<1> DEFINE P(f) == f = [k \in 0..Len(s) |->
                          IF k = 0 THEN 0
                          ELSE IF s[k] \in Digits THEN (f[k-1] * BASE + s[k]) % AddrMod ELSE 0]
           g == [k \in 1..Len(s) |-> [u \in Addrs |->
                   IF s[k] \in Digits THEN (u * BASE + s[k]) % AddrMod ELSE 0]]
<1>1. ASSUME NEW k \in 1..Len(s), NEW u \in Addrs
      PROVE  /\ g[k][u] = IF s[k] \in Digits THEN (u * BASE + s[k]) % AddrMod ELSE 0
             /\ (IF s[k] \in Digits THEN (u * BASE + s[k]) % AddrMod ELSE 0) \in Addrs
  <2>1. s[k] \in Digits => u * BASE + s[k] \in Int
    <3>1. u \in Nat /\ BASE \in Nat /\ (s[k] \in Digits => s[k] \in Nat)
      BY MonSizes, CharKinds
    <3>2. \A a, c \in Nat : a * c \in Nat
      OBVIOUS
    <3> QED
      BY <3>1, <3>2
  <2>2. (IF s[k] \in Digits THEN (u * BASE + s[k]) % AddrMod ELSE 0) \in Addrs
    BY <2>1, MonSizes, MonWraps
  <2> QED
    BY <2>2
<1>2. g \in [1..Len(s) -> [Addrs -> Addrs]]
  BY <1>1
<1> HIDE DEF g
<1>3. PICK f : IsFiniteRecursion(f, Addrs, Len(s), 0, g)
  <2>1. 0 \in Addrs /\ Len(s) \in Nat
    BY MonSizes
  <2> QED
    BY <1>2, <2>1, FiniteRecursion
<1>4. ASSUME NEW k \in 1..Len(s) PROVE k - 1 \in 0..Len(s) /\ f[k - 1] \in Addrs
  BY <1>3 DEF IsFiniteRecursion
<1>5. P(f)
  BY <1>1, <1>3, <1>4 DEF IsFiniteRecursion
<1>6. NumbersIn(s) = CHOOSE h : P(h)
  BY DEF NumbersIn
<1>7. P(NumbersIn(s))
  BY <1>5, <1>6
<1> DEFINE N_ == NumbersIn(s)
<1> HIDE DEF N_
<1>8. N_[0] = 0 /\ DOMAIN N_ = 0..Len(s)
  BY <1>7 DEF N_
<1>9. \A k \in 1..Len(s) :
        N_[k] = IF s[k] \in Digits THEN (N_[k-1] * BASE + s[k]) % AddrMod ELSE 0
  BY <1>7, SMTT(40) DEF N_
<1> DEFINE T == {k \in 0..Len(s) : N_[k] \in Addrs}
<1>10. 0 \in T
  BY <1>8, MonSizes
<1>11. ASSUME NEW k \in 1..Len(s), k - 1 \in T PROVE k \in T
  BY <1>1, <1>9, <1>11
<1> HIDE DEF T
<1>12. \A k \in 0..Len(s) : k \in T
  BY <1>10, <1>11, FiniteInduction, Len(s) \in Nat
<1>13. \A k \in 0..Len(s) : N_[k] \in Addrs
  BY <1>12 DEF T
<1>14. N_ \in [0..Len(s) -> Addrs]
  BY <1>7, <1>13 DEF N_
<1> QED
  BY <1>8, <1>9, <1>14 DEF N_

\* The bytes of a block are what can be shown.
LEMMA BlockType ==
  ASSUME NEW m \in Meanings, NEW n \in Nat
  PROVE  BlockFrom(m, n) \in Seq(Addrs \X Bytes) /\ Len(BlockFrom(m, n)) = n
<1>1. m.xam \in Nat /\ m.dmem \in [Addrs -> Bytes]
  BY MonSizes DEF Meanings
<1>2. ASSUME NEW k \in 1..n
      PROVE  <<(m.xam + k - 1) % AddrMod, m.dmem[(m.xam + k - 1) % AddrMod]>> \in Addrs \X Bytes
  <2>1. m.xam + k - 1 \in Int
    BY <1>1
  <2>2. (m.xam + k - 1) % AddrMod \in Addrs
    BY <2>1, MonWraps
  <2> QED
    BY <1>1, <2>2
<1> QED
  BY <1>2 DEF BlockFrom

\* What UpTo shows is a block that ends with b.
LEMMA UpToIsBlock ==
  ASSUME NEW m \in Meanings, NEW n \in Addrs
  PROVE  LET r == UpTo(m.xam, n)
         IN  [k \in DOMAIN r |-> <<r[k], m.dmem[r[k]]>>]
               = BlockFrom(m, ((n - m.xam) % AddrMod) + 1)
<1> DEFINE r == UpTo(m.xam, n)  w == ((n - m.xam) % AddrMod) + 1
<1>1. r = [k \in 1..w |-> (m.xam + k - 1) % AddrMod]
  BY DEF UpTo
<1> HIDE DEF r, w
<1>2. DOMAIN r = 1..w /\ \A k \in 1..w : r[k] = (m.xam + k - 1) % AddrMod
  BY <1>1
<1>3. [k \in DOMAIN r |-> <<r[k], m.dmem[r[k]]>>] = BlockFrom(m, w)
  BY <1>2 DEF BlockFrom
<1> QED
  BY <1>3 DEF r, w

\* A character other than a digit gives a meaning from a meaning; it does nothing
\* once the line is over.
LEMMA CharMeaning ==
  ASSUME NEW m \in Meanings, NEW c \in {Dot, Colon, Blank, Run, Other}
  PROVE  CharMeans(m, c) \in Meanings /\ (m.over => CharMeans(m, c) = m)
<1>1. CASE m.over \/ c = Blank
  <2>1. CharMeans(m, c) = m
    BY <1>1 DEF CharMeans, Dot, Colon, Blank, Run, Other
  <2> QED
    BY <2>1
<1>2. CASE ~m.over /\ c = Dot
  <2>1. CharMeans(m, c) = [m EXCEPT !.mode = "BLOCK"]
    BY <1>2 DEF CharMeans, Dot, Colon, Blank, Run, Other
  <2> QED
    BY <1>2, <2>1 DEF Meanings, Modes
<1>3. CASE ~m.over /\ c = Colon
  <2>1. CharMeans(m, c) = [m EXCEPT !.mode = "STOR"]
    BY <1>3 DEF CharMeans, Dot, Colon, Blank, Run, Other
  <2> QED
    BY <1>3, <2>1 DEF Meanings, Modes
<1>4. CASE ~m.over /\ c = Run
  <2>1. CharMeans(m, c) = [m EXCEPT !.ran = Append(m.ran, m.xam), !.over = TRUE]
    BY <1>4 DEF CharMeans, Dot, Colon, Blank, Run, Other
  <2>2. Append(m.ran, m.xam) \in Seq(Addrs)
    BY DEF Meanings
  <2> QED
    BY <1>4, <2>1, <2>2 DEF Meanings
<1>5. CASE ~m.over /\ c = Other
  <2>1. CharMeans(m, c) = [m EXCEPT !.over = TRUE]
    BY <1>5 DEF CharMeans, Dot, Colon, Blank, Run, Other
  <2> QED
    BY <1>5, <2>1 DEF Meanings
<1> QED
  BY <1>1, <1>2, <1>3, <1>4, <1>5

\* What a number means, by the mode.
LEMMA NumberCases ==
  ASSUME NEW m \in Meanings, NEW n \in Addrs
  PROVE  /\ m.over => NumberMeans(m, n) = m
         /\ ~m.over /\ m.mode = "XAM" =>
              NumberMeans(m, n) = [m EXCEPT !.xam = n, !.st_addr = n,
                                            !.shown = Append(m.shown, <<n, m.dmem[n]>>)]
         /\ ~m.over /\ m.mode = "STOR" =>
              NumberMeans(m, n) = [m EXCEPT
                !.dmem = [m.dmem EXCEPT ![m.st_addr] = n % (BASE * BASE)],
                !.st_addr = (m.st_addr + 1) % AddrMod]
         /\ ~m.over /\ m.mode = "BLOCK" =>
              NumberMeans(m, n) = [m EXCEPT
                !.shown = m.shown \o BlockFrom(m, ((n - m.xam) % AddrMod) + 1),
                !.xam = n, !.mode = "XAM"]
<1>1. m.over => NumberMeans(m, n) = m
  BY DEF NumberMeans
<1>2. ~m.over /\ m.mode = "XAM" =>
        NumberMeans(m, n) = [m EXCEPT !.xam = n, !.st_addr = n,
                                      !.shown = Append(m.shown, <<n, m.dmem[n]>>)]
  BY DEF NumberMeans
<1>3. ~m.over /\ m.mode = "STOR" =>
        NumberMeans(m, n) = [m EXCEPT
          !.dmem = [m.dmem EXCEPT ![m.st_addr] = n % (BASE * BASE)],
          !.st_addr = (m.st_addr + 1) % AddrMod]
  BY DEF NumberMeans
<1>4. ASSUME ~m.over, m.mode = "BLOCK"
      PROVE  NumberMeans(m, n) = [m EXCEPT
               !.shown = m.shown \o BlockFrom(m, ((n - m.xam) % AddrMod) + 1),
               !.xam = n, !.mode = "XAM"]
  <2> DEFINE r == UpTo(m.xam, n)
  <2>1. NumberMeans(m, n) = [m EXCEPT
          !.shown = m.shown \o [k \in DOMAIN r |-> <<r[k], m.dmem[r[k]]>>],
          !.xam = n, !.mode = "XAM"]
    BY <1>4 DEF NumberMeans
  <2>2. [k \in DOMAIN r |-> <<r[k], m.dmem[r[k]]>>] = BlockFrom(m, ((n - m.xam) % AddrMod) + 1)
    BY UpToIsBlock
  <2> QED
    BY <2>1, <2>2
<1> QED
  BY <1>1, <1>2, <1>3, <1>4

\* A number gives a meaning from a meaning.
LEMMA NumberMeaning ==
  ASSUME NEW m \in Meanings, NEW n \in Addrs
  PROVE  NumberMeans(m, n) \in Meanings
<1>0. m.mode \in Modes /\ m.over \in BOOLEAN /\ m.dmem \in [Addrs -> Bytes]
      /\ m.shown \in Seq(Addrs \X Bytes) /\ m.st_addr \in Nat /\ m.xam \in Nat /\ n \in Nat
  BY MonSizes DEF Meanings
<1>1. CASE m.over
  BY <1>1, NumberCases
<1>2. CASE ~m.over /\ m.mode = "XAM"
  <2>1. Append(m.shown, <<n, m.dmem[n]>>) \in Seq(Addrs \X Bytes)
    BY <1>0
  <2> QED
    <3>1. NumberMeans(m, n) = [m EXCEPT !.xam = n, !.st_addr = n,
                                        !.shown = Append(m.shown, <<n, m.dmem[n]>>)]
      BY <1>2, NumberCases
    <3> QED
      BY <2>1, <3>1 DEF Meanings
<1>3. CASE ~m.over /\ m.mode = "STOR"
  <2>1. n % (BASE * BASE) \in Bytes /\ (m.st_addr + 1) % AddrMod \in Addrs
    BY <1>0, MonWraps
  <2>2. [m.dmem EXCEPT ![m.st_addr] = n % (BASE * BASE)] \in [Addrs -> Bytes]
    BY <1>0, <2>1
  <2> QED
    <3>1. NumberMeans(m, n) = [m EXCEPT
            !.dmem = [m.dmem EXCEPT ![m.st_addr] = n % (BASE * BASE)],
            !.st_addr = (m.st_addr + 1) % AddrMod]
      BY <1>3, NumberCases
    <3> QED
      BY <2>1, <2>2, <3>1 DEF Meanings
<1>4. CASE ~m.over /\ m.mode = "BLOCK"
  <2> DEFINE w == ((n - m.xam) % AddrMod) + 1
  <2>1. w \in Nat
    <3>1. n - m.xam \in Int
      BY <1>0
    <3>2. (n - m.xam) % AddrMod \in Nat
      BY <3>1, MonWraps, MonSizes
    <3> QED
      BY <3>2
  <2> HIDE DEF w
  <2>2. m.shown \o BlockFrom(m, w) \in Seq(Addrs \X Bytes)
    BY <1>0, <2>1, BlockType
  <2>3. NumberMeans(m, n) = [m EXCEPT !.shown = m.shown \o BlockFrom(m, w),
                                      !.xam = n, !.mode = "XAM"]
    BY <1>4, NumberCases DEF w
  <2> QED
    BY <2>2, <2>3 DEF Meanings, Modes
<1> QED
  BY <1>0, <1>1, <1>2, <1>3, <1>4 DEF Modes

\* The end of a line at k gives a meaning from a meaning.
LEMMA EndedMeaning ==
  ASSUME NEW s \in Seq(Chars), NEW m \in Meanings, NEW k \in 0..Len(s)
  PROVE  Ended(s, m, k) \in Meanings /\ (m.over => Ended(s, m, k) = m)
<1>1. NumbersIn(s)[k] \in Addrs
  BY NumbersFollow
<1> QED
  BY <1>1, NumberMeaning, NumberCases DEF Ended

\* What the line means before its first character.
MeansFirst(from) ==
  [xam |-> from.xam, st_addr |-> from.st_addr, dmem |-> from.dmem,
   shown |-> from.shown, ran |-> from.ran, mode |-> "XAM", over |-> FALSE]

\* What one more character makes of it.
MeansThen(s, m, k) == IF s[k] \in Digits THEN m ELSE CharMeans(Ended(s, m, k-1), s[k])

\* One more character gives a meaning, the same one once the line is over.
LEMMA MeansThenType ==
  ASSUME NEW s \in Seq(Chars), NEW k \in 1..Len(s), NEW m \in Meanings
  PROVE  MeansThen(s, m, k) \in Meanings /\ (m.over => MeansThen(s, m, k) = m)
<1>1. k - 1 \in 0..Len(s) /\ s[k] \in Chars
  OBVIOUS
<1> DEFINE e == Ended(s, m, k-1)
<1>2. e \in Meanings /\ (m.over => e = m)
  BY <1>1, EndedMeaning
<1> HIDE DEF e
<1>3. s[k] \notin Digits => s[k] \in {Dot, Colon, Blank, Run, Other}
  BY <1>1, CharKinds
<1> QED
  BY <1>2, <1>3, CharMeaning DEF MeansThen, e

\* The meanings of a line: each character by the one before it.
LEMMA MeansFollow ==
  ASSUME NEW s \in Seq(Chars), NEW from \in Starts
  PROVE  /\ MeansUpTo(s, from) \in [0..Len(s) -> Meanings]
         /\ MeansUpTo(s, from)[0] = MeansFirst(from)
         /\ \A k \in 1..Len(s) :
              MeansUpTo(s, from)[k] = MeansThen(s, MeansUpTo(s, from)[k-1], k)
<1> DEFINE P(f) == f = [k \in 0..Len(s) |->
                          IF k = 0 THEN MeansFirst(from)
                          ELSE IF s[k] \in Digits THEN f[k-1]
                          ELSE CharMeans(Ended(s, f[k-1], k-1), s[k])]
           g == [k \in 1..Len(s) |-> [u \in Meanings |-> MeansThen(s, u, k)]]
           L == Len(s)
<1>1. L \in Nat /\ g \in [1..L -> [Meanings -> Meanings]]
  BY MeansThenType
<1>2. \A k \in 1..L, u \in Meanings : g[k][u] = MeansThen(s, u, k)
  OBVIOUS
<1>3. MeansFirst(from) \in Meanings
  BY DEF MeansFirst, Meanings, Starts, Modes
<1> HIDE DEF g
<1>4. PICK f : IsFiniteRecursion(f, Meanings, L, MeansFirst(from), g)
  <2> HIDE DEF L
  <2> QED
    BY <1>1, <1>3, FiniteRecursion
<1>5. ASSUME NEW k \in 1..L PROVE k - 1 \in 0..L /\ f[k - 1] \in Meanings
  BY <1>1, <1>4 DEF IsFiniteRecursion
<1>6. \A k \in 1..L : f[k] = MeansThen(s, f[k-1], k)
  BY <1>2, <1>4, <1>5 DEF IsFiniteRecursion
<1>7. P(f)
  BY <1>4, <1>6 DEF MeansThen, IsFiniteRecursion
<1>8. MeansUpTo(s, from) = CHOOSE h : P(h)
  BY DEF MeansUpTo, MeansFirst
<1>9. P(MeansUpTo(s, from))
  BY <1>7, <1>8
<1> DEFINE M_ == MeansUpTo(s, from)
<1> HIDE DEF M_
<1>10. M_[0] = MeansFirst(from) /\ DOMAIN M_ = 0..L
  BY <1>9 DEF M_
<1>11. \A k \in 1..L : M_[k] = MeansThen(s, M_[k-1], k)
  <2> TAKE k \in 1..L
  <2>1. k \in 0..Len(s) /\ k # 0
    OBVIOUS
  <2>2. M_ = [j \in 0..Len(s) |-> IF j = 0 THEN MeansFirst(from)
                                  ELSE IF s[j] \in Digits THEN M_[j-1]
                                  ELSE CharMeans(Ended(s, M_[j-1], j-1), s[j])]
    BY <1>9 DEF M_
  <2>3. M_[k] = IF s[k] \in Digits THEN M_[k-1] ELSE CharMeans(Ended(s, M_[k-1], k-1), s[k])
    BY <2>1, <2>2
  <2> QED
    BY <2>3 DEF MeansThen
<1> DEFINE T == {k \in 0..L : M_[k] \in Meanings}
<1>12. 0 \in T
  BY <1>1, <1>3, <1>10
<1>13. ASSUME NEW k \in 1..L, k - 1 \in T PROVE k \in T
  BY <1>11, <1>13, MeansThenType
<1>14. \A k \in 0..L : k \in T
  <2> HIDE DEF T, L
  <2> QED
    BY <1>1, <1>12, <1>13, FiniteInduction
<1>15. M_ \in [0..L -> Meanings]
  <2>1. \A k \in 0..L : M_[k] \in Meanings
    BY <1>14
  <2> QED
    BY <1>9, <2>1 DEF M_
<1> QED
  BY <1>10, <1>11, <1>15 DEF M_

\* Once the line is over, what it means is settled.
LEMMA OverSettles ==
  ASSUME NEW s \in Seq(Chars), NEW from \in Starts, NEW k \in 0..Len(s),
         MeansUpTo(s, from)[k].over
  PROVE  LineMeans(s, from) = MeansUpTo(s, from)[k]
<1> DEFINE M_ == MeansUpTo(s, from)
           L == Len(s)
           T == {j \in Nat : k <= j /\ j <= L => M_[j] = M_[k]}
<1>1. /\ \A j \in 0..L : M_[j] \in Meanings
      /\ \A j \in 1..L : M_[j] = MeansThen(s, M_[j-1], j)
      /\ L \in Nat
  BY MeansFollow
<1> HIDE DEF M_
<1>2. 0 \in T
  OBVIOUS
<1>3. ASSUME NEW j \in Nat, j \in T PROVE j + 1 \in T
  <2> SUFFICES ASSUME k <= j + 1, j + 1 <= L PROVE M_[j + 1] = M_[k]
    OBVIOUS
  <2>1. CASE k = j + 1
    BY <2>1
  <2>2. CASE k <= j
    <3>1. M_[j] = M_[k] /\ j + 1 \in 1..L /\ (j + 1) - 1 = j /\ j \in 0..L
      BY <1>1, <1>3, <2>2
    <3>2. M_[j].over
      BY <3>1 DEF M_
    <3>3. MeansThen(s, M_[j], j + 1) = M_[j]
      BY <1>1, <3>1, <3>2, MeansThenType
    <3> QED
      BY <1>1, <3>1, <3>3
  <2> QED
    BY <2>1, <2>2
<1>4. \A j \in Nat : j \in T
  <2> HIDE DEF T
  <2> QED
    BY <1>2, <1>3, SetInduction
<1>5. M_[L] = M_[k]
  BY <1>1, <1>4
<1>6. M_[L] \in Meanings /\ M_[L].over /\ L \in 0..L
  BY <1>1, <1>5 DEF M_
<1>7. Ended(s, M_[L], L) = M_[L]
  BY <1>6, EndedMeaning
<1> QED
  BY <1>5, <1>7 DEF LineMeans, M_

(***************************************************************************)
(* The steps of the monitor.                                               *)
(***************************************************************************)
\* What the line means up to y is a meaning.
LEMMA SoFarType ==
  ASSUME MonTypeOK, y <= Len(in_buf)
  PROVE  /\ MeansSoFar \in Meanings /\ NumbersIn(in_buf)[y] \in Addrs
         /\ Ended(in_buf, MeansSoFar, y) \in Meanings
<1>1. in_buf \in Seq(Chars) /\ before \in Starts /\ y \in 0..Len(in_buf)
  BY DEF MonTypeOK
<1>2. MeansSoFar \in Meanings
  BY <1>1, MeansFollow DEF MeansSoFar
<1>3. NumbersIn(in_buf)[y] \in Addrs
  BY <1>1, NumbersFollow
<1> QED
  BY <1>1, <1>2, <1>3, EndedMeaning

\* One character more.
LEMMA NextChar ==
  ASSUME MonTypeOK, y < Len(in_buf)
  PROVE  /\ y + 1 \in 0..Len(in_buf) /\ in_buf[y + 1] \in Chars
         /\ in_buf[y + 1] \in Digits =>
              /\ MeansUpTo(in_buf, before)[y + 1] = MeansSoFar
              /\ NumbersIn(in_buf)[y + 1] = (NumbersIn(in_buf)[y] * BASE + in_buf[y + 1]) % AddrMod
              /\ IsDigitAt(in_buf, y + 1)
         /\ in_buf[y + 1] \notin Digits =>
              /\ MeansUpTo(in_buf, before)[y + 1]
                   = CharMeans(Ended(in_buf, MeansSoFar, y), in_buf[y + 1])
              /\ ~IsDigitAt(in_buf, y + 1)
<1>1. /\ in_buf \in Seq(Chars) /\ before \in Starts /\ y \in Nat
      /\ y + 1 \in 1..Len(in_buf) /\ (y + 1) - 1 = y /\ y + 1 > 0
  BY DEF MonTypeOK
<1>2. MeansUpTo(in_buf, before)[y + 1] = MeansThen(in_buf, MeansSoFar, y + 1)
  BY <1>1, MeansFollow DEF MeansSoFar
<1>3. NumbersIn(in_buf)[y + 1] = IF in_buf[y + 1] \in Digits
                                 THEN (NumbersIn(in_buf)[y] * BASE + in_buf[y + 1]) % AddrMod
                                 ELSE 0
  BY <1>1, NumbersFollow
<1> QED
  BY <1>1, <1>2, <1>3 DEF MeansThen, IsDigitAt

\* The reset state.
LEMMA MonInvInit == image = "yarvmon" /\ Boot /\ MonInit => MonInv
<1> SUFFICES ASSUME image = "yarvmon", Boot, MonInit PROVE MonInv
  OBVIOUS
<1>1. StateOK
  <2>1. \A a \in Addrs : a % (BASE * BASE) \in Bytes
    BY MonSizes, MonWraps
  <2> QED
    BY <2>1, MonSizes DEF MonInit, StateOK
<1>2. before \in Starts
  BY <1>1 DEF MonInit, MonState, Starts, StateOK
<1>3. MonTypeOK
  BY <1>1, <1>2, MonSizes DEF MonInit, Boot, MonTypeOK, Modes
<1>4. pc = "reset"
  BY DEF Boot
<1> QED
  BY <1>3, <1>4 DEF MonInv, PlaceInv, SkipInv, NumberInv, ActInv, LineObeyed, Modes, MonTypeOK

\* A new prompt: the line starts from the state as it is.
LEMMA PromptStep == MonInv /\ Prompt /\ UNCHANGED image => MonInv'
<1> SUFFICES ASSUME MonInv, Prompt, UNCHANGED image PROVE MonInv'
  OBVIOUS
<1>1. /\ pc' = "get_line" /\ in_buf' = << >> /\ screen' = << >> /\ shown' = << >> /\ ran' = << >>
      /\ before' = [MonState EXCEPT !.shown = << >>, !.ran = << >>]
      /\ UNCHANGED <<xam, st_addr, y, mode, hex_val, digits, dmem, keys, image>>
  BY DEF Prompt
<1>2. StateOK'
  BY <1>1 DEF MonInv, MonTypeOK, StateOK
<1>3. before' = MonState'
  BY <1>1 DEF MonState
<1>4. before' \in Starts
  BY <1>2, <1>3 DEF MonState, Starts, StateOK
<1>5. MonTypeOK'
  BY <1>1, <1>2, <1>4, MonSizes DEF MonInv, MonTypeOK
<1> QED
  BY <1>1, <1>3, <1>5 DEF MonInv, PlaceInv, SkipInv, NumberInv, ActInv, LineObeyed, Modes,
     MonTypeOK

\* A sequence without its last element.
LEMMA FrontShorter ==
  ASSUME NEW S, NEW s \in Seq(S), s # << >>
  PROVE  SubSeq(s, 1, Len(s) - 1) \in Seq(S) /\ Len(SubSeq(s, 1, Len(s) - 1)) = Len(s) - 1
<1>1. PICK lo, hi : lo = 1 /\ hi = Len(s) - 1
  OBVIOUS
<1>2. Len(s) \in Nat \ {0}
  BY EmptySeq
<1>3. lo \in Int /\ hi \in Int /\ \A i \in lo..hi : s[i] \in S
  BY <1>1, <1>2
<1>4. /\ SubSeq(s, lo, hi) \in Seq(S)
      /\ Len(SubSeq(s, lo, hi)) = IF lo <= hi THEN hi - lo + 1 ELSE 0
  BY <1>3, SubSeqProperties
<1> QED
  BY <1>1, <1>2, <1>4

\* A key of the user: the screen follows the buffer, and Return starts the line.
LEMMA get_lineStep == MonInv /\ get_line /\ UNCHANGED image => MonInv'
<1> SUFFICES ASSUME MonInv, get_line, UNCHANGED image PROVE MonInv'
  OBVIOUS
<1>1. /\ pc = "get_line"
      /\ UNCHANGED <<xam, st_addr, hex_val, digits, dmem, shown, ran, before, image>>
  BY DEF get_line
<1>2. before = MonState /\ before' = MonState' /\ StateOK'
  BY <1>1 DEF MonInv, PlaceInv, MonState, MonTypeOK, StateOK
<1>3. CASE pc' = "skip" /\ y' = 0 /\ mode' = "XAM" /\ UNCHANGED <<in_buf, screen>>
  <2>1. MonTypeOK'
    BY <1>1, <1>2, <1>3 DEF MonInv, MonTypeOK, Modes
  <2>2. ~IsDigitAt(in_buf, 0)'
    BY DEF IsDigitAt
  <2>3. MeansSoFar' = MeansFirst(before)
    BY <1>1, <1>3, MeansFollow DEF MeansSoFar, MonInv, MonTypeOK
  <2>4. Ended(in_buf, MeansSoFar, y)' = MeansFirst(before)
    BY <1>3, <2>2, <2>3 DEF Ended
  <2>5. Agrees(Ended(in_buf, MeansSoFar, y))'
    BY <1>1, <1>2, <1>3, <2>4 DEF Agrees, MeansFirst, MonState
  <2>6. SkipInv'
    BY <1>3, <2>2, <2>5 DEF SkipInv
  <2> QED
    BY <1>3, <2>1, <2>6 DEF MonInv, PlaceInv, NumberInv, ActInv, LineObeyed, Modes, MonTypeOK
<1>4. CASE /\ UNCHANGED <<pc, y, mode>> /\ in_buf' \in Seq(Chars) /\ screen' = in_buf'
           /\ Len(in_buf') < IN_BUF_SIZE
  <2>1. MonTypeOK'
    BY <1>1, <1>2, <1>4 DEF MonInv, MonTypeOK, Modes
  <2> QED
    BY <1>1, <1>2, <1>4, <2>1
       DEF MonInv, PlaceInv, SkipInv, NumberInv, ActInv, LineObeyed, Modes, MonTypeOK
<1>5. in_buf \in Seq(Chars) /\ screen = in_buf /\ Len(in_buf) < IN_BUF_SIZE
  BY DEF MonInv, MonTypeOK
<1>6. PICK c \in Keys :
        \/ /\ c = Return /\ pc' = "skip" /\ y' = 0 /\ mode' = "XAM"
           /\ UNCHANGED <<in_buf, screen>>
        \/ /\ c = Erase /\ EraseKey /\ UNCHANGED <<pc, y, mode>>
        \/ /\ c \in Chars /\ StoreKey(c) /\ UNCHANGED <<pc, y, mode>>
  BY DEF get_line
<1>7. CASE EraseKey /\ UNCHANGED <<pc, y, mode>>
  <2>1. CASE in_buf = << >>
    BY <1>4, <1>5, <1>7, <2>1 DEF EraseKey
  <2>2. CASE in_buf # << >>
    <3>1. in_buf' = SubSeq(in_buf, 1, Len(in_buf) - 1) /\ screen' = in_buf'
      BY <1>5, <1>7, <2>2 DEF EraseKey, Front
    <3>2. Len(in_buf) \in Nat \ {0} /\ IN_BUF_SIZE \in Nat
      BY <1>5, <2>2, MonSizes, EmptySeq
    <3>3. in_buf' \in Seq(Chars) /\ Len(in_buf') = Len(in_buf) - 1
      BY <1>5, <2>2, <3>1, FrontShorter
    <3> QED
      BY <1>4, <1>5, <1>7, <3>1, <3>2, <3>3
  <2> QED
    BY <2>1, <2>2
<1>8. CASE c \in Chars /\ StoreKey(c) /\ UNCHANGED <<pc, y, mode>>
  <2>1. CASE Len(in_buf) >= IN_BUF_SIZE - 1
    BY <1>4, <1>5, <1>8, <2>1 DEF StoreKey
  <2>2. CASE Len(in_buf) < IN_BUF_SIZE - 1
    <3>1. in_buf' = Append(in_buf, c) /\ screen' = in_buf'
      BY <1>5, <1>8, <2>2, MonSizes DEF StoreKey
    <3>2. in_buf' \in Seq(Chars) /\ Len(in_buf') = Len(in_buf) + 1
      BY <1>5, <1>8, <3>1
    <3> QED
      BY <1>4, <1>5, <1>8, <2>2, <3>1, <3>2, MonSizes
  <2> QED
    BY <1>5, <2>1, <2>2, MonSizes
<1> QED
  BY <1>3, <1>6, <1>7, <1>8

\* What the steps of the interpreter leave alone.
LEMMA InterpreterKeeps ==
  ASSUME MonInv, yarvmon, UNCHANGED image, StateOK', mode' \in Modes, hex_val' \in Addrs,
         digits' \in Nat, y' \in Nat,
         pc' \in {"prompt", "skip", "number"} \cup Modes
  PROVE  /\ MonTypeOK' /\ UNCHANGED <<in_buf, before>>
         /\ MeansSoFar' = MeansUpTo(in_buf, before)[y']
<1>1. UNCHANGED <<in_buf, screen, before>>
  BY DEF yarvmon, SkipDelimiters, ReadNumber, Deposit, ExamineBlock, Examine
<1> QED
  BY <1>1 DEF MonInv, MonTypeOK, MeansSoFar

\* A line that is worked through, or over, has been obeyed.
LEMMA LineDone ==
  ASSUME MonTypeOK', UNCHANGED <<in_buf, before>>, pc' = "prompt", NEW m,
         LineMeans(in_buf, before) = m,
         xam' = m.xam, st_addr' = m.st_addr, dmem' = m.dmem, shown' = m.shown, ran' = m.ran
  PROVE  MonInv'
BY DEF MonInv, PlaceInv, SkipInv, NumberInv, ActInv, LineObeyed, Modes, MonTypeOK

\* The pass over delimiters and modes.
LEMMA SkipStep == MonInv /\ SkipDelimiters /\ UNCHANGED image => MonInv'
<1> SUFFICES ASSUME MonInv, SkipDelimiters, UNCHANGED image PROVE MonInv'
  OBVIOUS
<1> DEFINE E == Ended(in_buf, MeansSoFar, y)  c == in_buf[y + 1]
<1>1. /\ MonTypeOK /\ y \in Nat /\ y <= Len(in_buf) /\ Len(in_buf) \in Nat
      /\ in_buf \in Seq(Chars) /\ before \in Starts /\ StateOK
  BY DEF MonInv, MonTypeOK, PlaceInv, SkipDelimiters
<1>2. Agrees(E) /\ (IsDigitAt(in_buf, y) => DigitsEnd)
  BY DEF MonInv, SkipInv, SkipDelimiters
<1>3. E \in Meanings /\ MeansSoFar \in Meanings
  BY <1>1, SoFarType
<1>4. UNCHANGED <<in_buf, xam, st_addr, dmem, shown, screen, keys, before>> /\ yarvmon
  BY DEF SkipDelimiters, yarvmon
<1> HIDE DEF E
<1>5. CASE EndOfLine /\ pc' = "prompt" /\ UNCHANGED <<y, mode, ran, hex_val, digits>>
  <2>1. StateOK'
    BY <1>1, <1>4, <1>5 DEF StateOK
  <2>2. MonTypeOK'
    BY <1>4, <1>5, <2>1, InterpreterKeeps DEF MonInv, MonTypeOK
  <2>3. LineMeans(in_buf, before) = E
    BY <1>1, <1>5 DEF LineMeans, EndOfLine, E, MeansSoFar
  <2> QED
    BY <1>2, <1>4, <1>5, <2>2, <2>3, LineDone DEF Agrees
<1>6. CASE ~EndOfLine
  <2>1. y < Len(in_buf) /\ y + 1 \in Nat /\ y + 1 \in 0..Len(in_buf)
    BY <1>1, <1>6 DEF EndOfLine
  <2> DEFINE M1 == MeansUpTo(in_buf, before)[y + 1]
  <2>2. c \notin Digits => M1 = CharMeans(E, c) /\ ~IsDigitAt(in_buf, y + 1)
    BY <1>1, <2>1, NextChar DEF E
  <2> HIDE DEF M1
  <2>3. CASE /\ c \in {Dot, Colon, Blank} /\ y' = y + 1
             /\ mode' = CASE c = Dot -> "BLOCK" [] c = Colon -> "STOR" [] OTHER -> mode
             /\ UNCHANGED <<pc, ran, hex_val, digits>>
    <3>1. StateOK' /\ mode' \in Modes /\ pc' = "skip"
      BY <1>1, <1>4, <2>3 DEF StateOK, Modes, MonTypeOK, SkipDelimiters
    <3>2. MonTypeOK' /\ MeansSoFar' = M1
      BY <1>4, <2>1, <2>3, <3>1, InterpreterKeeps DEF MonInv, MonTypeOK, M1
    <3>3. M1 = CharMeans(E, c) /\ ~IsDigitAt(in_buf, y + 1)
      BY <2>2, <2>3, CharKinds
    <3>4. Ended(in_buf, MeansSoFar, y)' = M1
      BY <1>4, <2>3, <3>2, <3>3 DEF Ended
    <3>5. /\ M1.xam = E.xam /\ M1.st_addr = E.st_addr /\ M1.dmem = E.dmem /\ M1.shown = E.shown
          /\ M1.ran = E.ran /\ M1.mode = mode' /\ ~M1.over
      <4>1. ~E.over /\ mode = E.mode
        BY <1>2 DEF Agrees
      <4>2. CASE c = Dot
        <5>1. M1 = [E EXCEPT !.mode = "BLOCK"] /\ mode' = "BLOCK"
          BY <2>3, <3>3, <4>1, <4>2 DEF CharMeans, Dot, Colon, Blank, Run, Other
        <5> QED
          BY <1>3, <4>1, <5>1 DEF Meanings
      <4>3. CASE c = Colon
        <5>1. M1 = [E EXCEPT !.mode = "STOR"] /\ mode' = "STOR"
          BY <2>3, <3>3, <4>1, <4>3 DEF CharMeans, Dot, Colon, Blank, Run, Other
        <5> QED
          BY <1>3, <4>1, <5>1 DEF Meanings
      <4>4. CASE c = Blank
        BY <1>3, <2>3, <3>3, <4>1, <4>4 DEF CharMeans, Meanings, Dot, Colon, Blank, Run, Other
      <4> QED
        BY <2>3, <4>2, <4>3, <4>4
    <3>6. Agrees(Ended(in_buf, MeansSoFar, y))'
      BY <1>2, <1>4, <2>3, <3>4, <3>5 DEF Agrees
    <3>7. SkipInv'
      BY <1>4, <2>3, <3>3, <3>6 DEF SkipInv, IsDigitAt
    <3> QED
      BY <1>4, <2>1, <2>3, <3>1, <3>2, <3>7
         DEF MonInv, PlaceInv, NumberInv, ActInv, LineObeyed, Modes, MonTypeOK
  <2>4. CASE /\ c = Run /\ ran' = Append(ran, xam) /\ y' = Len(in_buf) /\ pc' = "prompt"
             /\ UNCHANGED <<mode, hex_val, digits>>
    <3>1. StateOK'
      BY <1>1, <1>4, <2>4 DEF StateOK
    <3>2. MonTypeOK'
      BY <1>1, <1>4, <2>4, <3>1, InterpreterKeeps DEF MonInv, MonTypeOK
    <3>3. M1 = CharMeans(E, c)
      BY <2>2, <2>4, CharKinds
    <3>4. M1 = [E EXCEPT !.ran = Append(E.ran, E.xam), !.over = TRUE]
      BY <1>2, <2>4, <3>3 DEF CharMeans, Agrees, Dot, Colon, Blank, Run, Other
    <3>5. /\ M1.over /\ M1.xam = xam' /\ M1.st_addr = st_addr' /\ M1.dmem = dmem'
          /\ M1.shown = shown' /\ M1.ran = ran'
      BY <1>2, <1>3, <1>4, <2>4, <3>4 DEF Agrees, Meanings
    <3>6. LineMeans(in_buf, before) = M1
      BY <1>1, <2>1, <3>5, OverSettles DEF M1
    <3> QED
      BY <1>4, <2>4, <3>2, <3>5, <3>6, LineDone
  <2>5. CASE /\ c \notin {Dot, Colon, Blank, Run} /\ hex_val' = 0 /\ digits' = 0
             /\ pc' = "number" /\ UNCHANGED <<y, mode, ran>>
    <3>1. StateOK'
      BY <1>1, <1>4, <2>5 DEF StateOK
    <3>2. MonTypeOK' /\ MeansSoFar' = MeansSoFar
      BY <1>1, <1>4, <2>5, <3>1, MonSizes, InterpreterKeeps DEF MonInv, MonTypeOK, MeansSoFar
    <3>3. NumberInv'
      BY <1>2, <1>4, <2>1, <2>5, <3>2 DEF NumberInv, Agrees, DigitsEnd, E
    <3> QED
      BY <1>1, <1>4, <2>5, <3>2, <3>3
         DEF MonInv, PlaceInv, SkipInv, ActInv, LineObeyed, Modes, MonTypeOK
  <2> QED
    BY <1>6, <2>3, <2>4, <2>5 DEF SkipDelimiters, cur
<1> QED
  BY <1>5, <1>6 DEF SkipDelimiters

\* A digit more, or the end of the number.
LEMMA ReadStep == MonInv /\ ReadNumber /\ UNCHANGED image => MonInv'
<1> SUFFICES ASSUME MonInv, ReadNumber, UNCHANGED image PROVE MonInv'
  OBVIOUS
<1> DEFINE E == Ended(in_buf, MeansSoFar, y)  c == in_buf[y + 1]
<1>1. /\ MonTypeOK /\ y \in Nat /\ y <= Len(in_buf) /\ Len(in_buf) \in Nat /\ digits \in Nat
      /\ in_buf \in Seq(Chars) /\ before \in Starts /\ StateOK /\ pc = "number"
  BY DEF MonInv, MonTypeOK, PlaceInv, ReadNumber
<1>2. IF digits = 0 THEN /\ Agrees(E) /\ hex_val = 0
                         /\ y < Len(in_buf) /\ c \notin {Dot, Colon, Blank, Run}
                         /\ IsDigitAt(in_buf, y) => DigitsEnd
      ELSE Agrees(MeansSoFar) /\ NumberRead
  BY DEF MonInv, NumberInv, ReadNumber
<1>3. E \in Meanings /\ MeansSoFar \in Meanings /\ NumbersIn(in_buf)[y] \in Addrs
  BY <1>1, SoFarType
<1>4. UNCHANGED <<in_buf, xam, st_addr, mode, dmem, shown, ran, screen, keys, before>> /\ yarvmon
  BY DEF ReadNumber, yarvmon
<1>5. StateOK' /\ mode' \in Modes
  BY <1>1, <1>4 DEF StateOK, MonTypeOK
<1> HIDE DEF E
<1>6. CASE ~EndOfLine /\ c \in Digits
  <2>1. y < Len(in_buf) /\ y + 1 \in Nat /\ y + 1 <= Len(in_buf)
    BY <1>1, <1>6 DEF EndOfLine
  <2>2. /\ hex_val' = (hex_val * BASE + c) % AddrMod
        /\ digits' = digits + 1 /\ y' = y + 1 /\ pc' = "number"
    BY <1>1, <1>6 DEF ReadNumber, cur
  <2>3. Agrees(MeansSoFar) /\ hex_val = NumbersIn(in_buf)[y]
    <3>1. CASE digits = 0
      <4>1. ~IsDigitAt(in_buf, y)
        BY <1>2, <1>6, <2>1, <3>1 DEF DigitsEnd
      <4>2. NumbersIn(in_buf)[y] = 0
        BY <1>1, <4>1, NumbersFollow DEF IsDigitAt
      <4>3. E = MeansSoFar
        BY <4>1 DEF E, Ended
      <4> QED
        BY <1>2, <3>1, <4>2, <4>3
    <3>2. CASE digits # 0
      BY <1>2, <3>2 DEF NumberRead
    <3> QED
      BY <3>1, <3>2
  <2>4. /\ MeansUpTo(in_buf, before)[y + 1] = MeansSoFar
        /\ NumbersIn(in_buf)[y + 1] = (NumbersIn(in_buf)[y] * BASE + c) % AddrMod
        /\ IsDigitAt(in_buf, y + 1)
    BY <1>1, <1>6, <2>1, NextChar
  <2>5. hex_val' = NumbersIn(in_buf)[y + 1] /\ hex_val' \in Addrs
    <3>1. y + 1 \in 0..Len(in_buf)
      BY <1>1, <2>1
    <3>2. NumbersIn(in_buf)[y + 1] \in Addrs
      BY <1>1, <3>1, NumbersFollow
    <3> QED
      BY <2>2, <2>3, <2>4, <3>2
  <2>6. MonTypeOK' /\ MeansSoFar' = MeansSoFar
    BY <1>1, <1>4, <1>5, <2>1, <2>2, <2>4, <2>5, InterpreterKeeps
  <2>7. Agrees(MeansSoFar)' /\ digits' # 0
    BY <1>1, <1>4, <2>2, <2>3, <2>6 DEF Agrees
  <2>8. NumberInv'
    BY <1>4, <2>2, <2>4, <2>5, <2>7 DEF NumberInv, NumberRead, IsDigitAt
  <2> QED
    BY <1>4, <2>1, <2>2, <2>6, <2>8
       DEF MonInv, PlaceInv, SkipInv, ActInv, LineObeyed, Modes, MonTypeOK
<1>7. CASE EndOfLine \/ c \notin Digits
  <2>1. pc' = (IF digits = 0 THEN "prompt" ELSE mode) /\ UNCHANGED <<hex_val, digits, y>>
    BY <1>7 DEF ReadNumber, cur
  <2>2. MonTypeOK' /\ MeansSoFar' = MeansSoFar
    BY <1>1, <1>4, <1>5, <2>1, InterpreterKeeps DEF MonTypeOK, MeansSoFar
  <2>3. CASE digits = 0
    <3> DEFINE M1 == MeansUpTo(in_buf, before)[y + 1]
    <3>1. c = Other /\ y < Len(in_buf) /\ y + 1 \in 0..Len(in_buf)
      BY <1>1, <1>2, <1>7, <2>3, NextChar, CharKinds DEF EndOfLine
    <3>2. M1 = CharMeans(E, c)
      BY <1>1, <3>1, NextChar, CharKinds DEF E
    <3> HIDE DEF M1
    <3>3. M1 = [E EXCEPT !.over = TRUE]
      BY <1>2, <2>3, <3>1, <3>2 DEF CharMeans, Agrees, Dot, Colon, Blank, Run, Other
    <3>4. /\ M1.over /\ M1.xam = xam' /\ M1.st_addr = st_addr' /\ M1.dmem = dmem'
          /\ M1.shown = shown' /\ M1.ran = ran'
      BY <1>2, <1>3, <1>4, <2>3, <3>3 DEF Agrees, Meanings
    <3>5. LineMeans(in_buf, before) = M1
      BY <1>1, <3>1, <3>4, OverSettles DEF M1
    <3> QED
      BY <1>4, <2>1, <2>2, <2>3, <3>4, <3>5, LineDone
  <2>4. CASE digits # 0
    <3>1. Agrees(MeansSoFar) /\ NumberRead /\ pc' = mode /\ mode \in Modes
      BY <1>2, <1>4, <1>5, <2>1, <2>4
    <3>2. DigitsEnd
      BY <1>1, <1>7 DEF DigitsEnd, EndOfLine
    <3>3. NumberRead' /\ DigitsEnd' /\ Agrees(MeansSoFar)'
      BY <1>4, <2>1, <2>2, <3>1, <3>2 DEF NumberRead, DigitsEnd, Agrees, IsDigitAt
    <3>4. mode = "BLOCK" =>
            \E n \in 0..(hex_val' - MeansSoFar'.xam) % AddrMod : ShownUpTo(MeansSoFar, n)'
      <4> SUFFICES ASSUME mode = "BLOCK"
                   PROVE  \E n \in 0..(hex_val' - MeansSoFar'.xam) % AddrMod :
                            ShownUpTo(MeansSoFar, n)'
        OBVIOUS
      <4> DEFINE m == MeansSoFar'
      <4>1. m \in Meanings /\ m.xam \in Nat /\ m.shown \in Seq(Addrs \X Bytes) /\ m.xam < AddrMod
        BY <1>3, <2>2, MonSizes DEF Meanings, Addrs
      <4>2. hex_val' - m.xam \in Int
        BY <2>2, <4>1, MonSizes DEF MonTypeOK
      <4>3. (hex_val' - m.xam) % AddrMod \in Nat
        BY <4>2, MonWraps, MonSizes
      <4>4. 0 \in 0..(hex_val' - m.xam) % AddrMod
        BY <4>3
      <4> DEFINE x == m.xam
      <4>5a. x \in Nat /\ x < AddrMod /\ AddrMod \in Nat
        BY <4>1, MonSizes
      <4>5b. (m.xam + 0) % AddrMod = m.xam
        <5> HIDE DEF x
        <5>1. (x + 0) % AddrMod = x
          BY <4>5a
        <5> QED
          BY <5>1 DEF x
      <4>5c. BlockFrom(m, 0) = << >>
        BY DEF BlockFrom
      <4>5. BlockFrom(m, 0) = << >> /\ (m.xam + 0) % AddrMod = m.xam
        BY <4>5b, <4>5c
      <4>6. m.shown \o << >> = m.shown
        BY <4>1
      <4> HIDE DEF m
      <4>7. ShownUpTo(MeansSoFar, 0)'
        BY <3>3, <4>5, <4>6 DEF ShownUpTo, Agrees, m
      <4> QED
        BY <4>4, <4>7 DEF m
    <3>5. ActInv'
      BY <1>4, <3>1, <3>3, <3>4 DEF ActInv, Modes
    <3> QED
      BY <1>1, <1>4, <2>1, <2>2, <3>1, <3>5
         DEF MonInv, PlaceInv, SkipInv, NumberInv, LineObeyed, Modes, MonTypeOK
  <2> QED
    BY <2>3, <2>4
<1> QED
  BY <1>6, <1>7

\* Remainders of the sums and differences of two addresses.
LEMMA AddrWraps ==
  ASSUME NEW u \in Int, -AddrMod < u, u < 2 * AddrMod
  PROVE  u % AddrMod = IF u < 0 THEN u + AddrMod ELSE IF u < AddrMod THEN u ELSE u - AddrMod
<1>1. PICK w : w = AddrMod /\ w \in Nat /\ w > 0
  BY MonSizes
<1>2. CASE u < 0
  <2>1. u + w \in 0..w-1 /\ u = w * (-1) + (u + w)
    BY <1>1, <1>2
  <2>2. u % w = u + w
    BY <1>1, <2>1, Z3
  <2> QED
    BY <1>1, <1>2, <2>2
<1>3. CASE u >= 0 /\ u < w
  <2>1. u % w = u
    BY <1>1, <1>3, Z3
  <2> QED
    BY <1>1, <1>3, <2>1
<1>4. CASE u >= w
  <2>1. u - w \in 0..w-1 /\ u = w * 1 + (u - w)
    BY <1>1, <1>4
  <2>2. u % w = u - w
    BY <1>1, <2>1, Z3
  <2> QED
    BY <1>1, <1>4, <2>2
<1> QED
  BY <1>1, <1>2, <1>3, <1>4

\* The block from a reaches h at its last byte and not before, and goes on by one.
LEMMA BlockEnd ==
  ASSUME NEW a \in Addrs, NEW h \in Addrs, NEW n \in 0..(h - a) % AddrMod
  PROVE  /\ (a + n) % AddrMod \in Addrs /\ (h - a) % AddrMod \in Nat
         /\ (a + n) % AddrMod = h <=> n = (h - a) % AddrMod
         /\ (((a + n) % AddrMod) + 1) % AddrMod = (a + (n + 1)) % AddrMod
<1>1. PICK w : w = AddrMod /\ w \in Nat /\ w > 0
  BY MonSizes
<1>2. a \in Nat /\ h \in Nat /\ a < w /\ h < w
  BY <1>1 DEF Addrs
<1>3. (h - a) % w = IF h < a THEN (h - a) + w ELSE h - a
  BY <1>1, <1>2, AddrWraps
<1>4. n \in Nat /\ n < w /\ n <= (h - a) % w
  BY <1>1, <1>2, <1>3
<1>5. (a + n) % w = IF a + n < w THEN a + n ELSE (a + n) - w
  BY <1>1, <1>2, <1>4, AddrWraps
<1>6. (a + n) % w \in Nat /\ (a + n) % w < w
  BY <1>1, <1>2, <1>4, <1>5
<1>7. (((a + n) % w) + 1) % w = IF ((a + n) % w) + 1 < w THEN ((a + n) % w) + 1 ELSE 0
  <2>1. PICK x : x = (a + n) % w
    OBVIOUS
  <2>2. x + 1 \in Int /\ -w < x + 1 /\ x + 1 < 2 * w /\ x \in Nat /\ x < w
    BY <1>1, <1>6, <2>1
  <2>3. (x + 1) % w = IF x + 1 < w THEN x + 1 ELSE 0
    BY <1>1, <2>2, AddrWraps
  <2> QED
    BY <2>1, <2>3
<1>8. (a + (n + 1)) % w = IF a + (n + 1) < w THEN a + (n + 1) ELSE (a + (n + 1)) - w
  <2>1. PICK x : x = a + (n + 1)
    OBVIOUS
  <2>2. x \in Int /\ -w < x /\ x < 2 * w /\ ~(x < 0)
    BY <1>1, <1>2, <1>4, <2>1
  <2>3. x % w = IF x < w THEN x ELSE x - w
    BY <1>1, <2>2, AddrWraps
  <2> QED
    BY <2>1, <2>3
<1>9. (a + n) % w = h <=> n = (h - a) % w
  BY <1>1, <1>2, <1>3, <1>4, <1>5
<1>10. (((a + n) % w) + 1) % w = (a + (n + 1)) % w
  BY <1>1, <1>2, <1>4, <1>5, <1>7, <1>8
<1>11. (a + n) % w \in Addrs /\ (h - a) % w \in Nat
  BY <1>1, <1>2, <1>3, <1>6 DEF Addrs
<1> QED
  BY <1>1, <1>9, <1>10, <1>11

\* An element behind two sequences is behind the second.
LEMMA AppendBehind ==
  ASSUME NEW S, NEW s \in Seq(S), NEW t \in Seq(S), NEW e \in S
  PROVE  Append(s \o t, e) = s \o Append(t, e)
<1>1. Append(s \o t, e) \in Seq(S) /\ s \o Append(t, e) \in Seq(S) /\ s \o t \in Seq(S)
  OBVIOUS
<1>2. /\ Len(Append(s \o t, e)) = Len(s) + Len(t) + 1
      /\ Len(s \o Append(t, e)) = Len(s) + Len(t) + 1
  OBVIOUS
<1>3. \A i \in 1..Len(s) + Len(t) + 1 : Append(s \o t, e)[i] = (s \o Append(t, e))[i]
  OBVIOUS
<1> QED
  BY <1>1, <1>2, <1>3, SeqEqual

\* One byte more of a block.
LEMMA BlockMore ==
  ASSUME NEW m \in Meanings, NEW n \in Nat
  PROVE  Append(m.shown \o BlockFrom(m, n),
                <<(m.xam + n) % AddrMod, m.dmem[(m.xam + n) % AddrMod]>>)
           = m.shown \o BlockFrom(m, n + 1)
<1> DEFINE e == <<(m.xam + n) % AddrMod, m.dmem[(m.xam + n) % AddrMod]>>
           B == BlockFrom(m, n)  C == BlockFrom(m, n + 1)
<1>1. /\ m.shown \in Seq(Addrs \X Bytes) /\ B \in Seq(Addrs \X Bytes) /\ Len(B) = n
      /\ C \in Seq(Addrs \X Bytes) /\ Len(C) = n + 1
  BY BlockType DEF Meanings
<1>2. m.xam \in Nat
  BY MonSizes DEF Meanings
<1>3. (m.xam + (n + 1)) - 1 = m.xam + n
  BY <1>2
<1>4. C[n + 1] = e
  BY <1>3 DEF BlockFrom
<1>5. \A k \in 1..n : C[k] = B[k]
  BY DEF BlockFrom
<1>6. e \in Addrs \X Bytes
  BY <1>1, <1>4
<1> HIDE DEF e, B, C
<1>7. Append(B, e) = C
  <2>1. Append(B, e) \in Seq(Addrs \X Bytes) /\ Len(Append(B, e)) = n + 1
    BY <1>1, <1>6
  <2>2. \A k \in 1..n + 1 : Append(B, e)[k] = C[k]
    BY <1>1, <1>4, <1>5
  <2> QED
    BY <1>1, <2>1, <2>2, SeqEqual
<1>8. Append(m.shown \o B, e) = m.shown \o Append(B, e)
  <2>1. PICK S : S = Addrs \X Bytes
    OBVIOUS
  <2>2. PICK s : s = m.shown
    OBVIOUS
  <2>3. s \in Seq(S) /\ B \in Seq(S) /\ e \in S
    BY <1>1, <1>6, <2>1, <2>2
  <2>4. Append(s \o B, e) = s \o Append(B, e)
    BY <2>3, AppendBehind, SMTT(40)
  <2> QED
    BY <2>2, <2>4
<1> QED
  BY <1>7, <1>8 DEF e, B, C

\* What was done is what the number means: the monitor goes on behind it.
LEMMA NumberDone ==
  ASSUME MonInv, pc \in Modes, yarvmon, UNCHANGED <<image, y, hex_val, digits>>,
         StateOK', mode' \in Modes, pc' = "skip",
         NEW e, NumberMeans(MeansSoFar, hex_val) = e,
         xam' = e.xam, st_addr' = e.st_addr, dmem' = e.dmem, shown' = e.shown, ran' = e.ran,
         mode' = e.mode, ~e.over
  PROVE  MonInv'
<1>1. MonTypeOK /\ y \in Nat /\ hex_val \in Addrs /\ digits \in Nat /\ y <= Len(in_buf)
  BY DEF MonInv, MonTypeOK, PlaceInv
<1>2. NumberRead /\ DigitsEnd
  BY DEF MonInv, ActInv
<1>3. MonTypeOK' /\ UNCHANGED <<in_buf, before>> /\ MeansSoFar' = MeansSoFar
  BY <1>1, InterpreterKeeps DEF MeansSoFar
<1>4. Ended(in_buf, MeansSoFar, y)' = e
  BY <1>2, <1>3 DEF Ended, NumberRead, IsDigitAt
<1>5. Agrees(Ended(in_buf, MeansSoFar, y))'
  BY <1>4 DEF Agrees
<1>6. DigitsEnd'
  BY <1>2, <1>3 DEF DigitsEnd
<1> QED
  BY <1>1, <1>3, <1>5, <1>6
     DEF MonInv, PlaceInv, SkipInv, NumberInv, ActInv, LineObeyed, Modes, MonTypeOK

\* What holds when the monitor acts on a number.
LEMMA ActHolds ==
  ASSUME MonInv, pc \in Modes
  PROVE  /\ MeansSoFar \in Meanings /\ hex_val \in Addrs /\ StateOK /\ mode = pc
         /\ pc # "BLOCK" => Agrees(MeansSoFar)
         /\ pc = "BLOCK" => \E n \in 0..(hex_val - MeansSoFar.xam) % AddrMod :
                              ShownUpTo(MeansSoFar, n)
<1>1. MonTypeOK /\ y <= Len(in_buf) /\ ActInv
  BY DEF MonInv, PlaceInv
<1>2. MeansSoFar \in Meanings
  BY <1>1, SoFarType
<1> QED
  BY <1>1, <1>2 DEF ActInv, MonTypeOK

\* A number in store mode.
LEMMA DepositStep == MonInv /\ Deposit /\ UNCHANGED image => MonInv'
<1> SUFFICES ASSUME MonInv, Deposit, UNCHANGED image PROVE MonInv'
  OBVIOUS
<1> DEFINE m == MeansSoFar  b == hex_val % (BASE * BASE)
<1>1. /\ pc = "STOR" /\ dmem' = [dmem EXCEPT ![st_addr] = b]
      /\ st_addr' = (st_addr + 1) % AddrMod /\ pc' = "skip" /\ yarvmon
      /\ UNCHANGED <<in_buf, xam, y, mode, hex_val, digits, shown, ran, screen, keys, before>>
  BY DEF Deposit, yarvmon
<1>2. m \in Meanings /\ hex_val \in Addrs /\ StateOK /\ mode = "STOR" /\ Agrees(m) /\ pc \in Modes
  BY <1>1, ActHolds DEF Modes
<1>3. b \in Bytes /\ (st_addr + 1) % AddrMod \in Addrs
  BY <1>2, MonWraps, MonSizes DEF StateOK
<1>4. StateOK'
  BY <1>1, <1>2, <1>3 DEF StateOK
<1> HIDE DEF m
<1> DEFINE e == [m EXCEPT !.dmem = [m.dmem EXCEPT ![m.st_addr] = b],
                          !.st_addr = (m.st_addr + 1) % AddrMod]
<1>5. NumberMeans(m, hex_val) = e
  <2>1. ~m.over /\ m.mode = "STOR"
    BY <1>2 DEF Agrees
  <2> QED
    BY <1>2, <2>1, NumberCases
<1>6. /\ e.xam = m.xam /\ e.st_addr = (m.st_addr + 1) % AddrMod
      /\ e.dmem = [m.dmem EXCEPT ![m.st_addr] = b] /\ e.shown = m.shown /\ e.ran = m.ran
      /\ e.mode = m.mode /\ e.over = m.over
  BY <1>2 DEF Meanings
<1> HIDE DEF e, b
<1>7. /\ xam' = e.xam /\ st_addr' = e.st_addr /\ dmem' = e.dmem /\ shown' = e.shown
      /\ ran' = e.ran /\ mode' = e.mode /\ ~e.over
  BY <1>1, <1>2, <1>6 DEF Agrees
<1> QED
  BY <1>1, <1>2, <1>4, <1>5, <1>7, NumberDone DEF m, Modes

\* A number in examine mode.
LEMMA ExamineStep == MonInv /\ Examine /\ UNCHANGED image => MonInv'
<1> SUFFICES ASSUME MonInv, Examine, UNCHANGED image PROVE MonInv'
  OBVIOUS
<1> DEFINE m == MeansSoFar
<1>1. /\ pc = "XAM" /\ xam' = hex_val /\ st_addr' = hex_val
      /\ shown' = Append(shown, <<hex_val, dmem[hex_val]>>) /\ pc' = "skip" /\ yarvmon
      /\ UNCHANGED <<in_buf, y, mode, hex_val, digits, dmem, ran, screen, keys, before>>
  BY DEF Examine, yarvmon
<1>2. m \in Meanings /\ hex_val \in Addrs /\ StateOK /\ mode = "XAM" /\ Agrees(m) /\ pc \in Modes
  BY <1>1, ActHolds DEF Modes
<1>3. Append(shown, <<hex_val, dmem[hex_val]>>) \in Seq(Addrs \X Bytes)
  BY <1>2 DEF StateOK
<1>4. StateOK'
  BY <1>1, <1>2, <1>3 DEF StateOK
<1> HIDE DEF m
<1> DEFINE e == [m EXCEPT !.xam = hex_val, !.st_addr = hex_val,
                          !.shown = Append(m.shown, <<hex_val, m.dmem[hex_val]>>)]
<1>5. NumberMeans(m, hex_val) = e
  <2>1. ~m.over /\ m.mode = "XAM"
    BY <1>2 DEF Agrees
  <2> QED
    BY <1>2, <2>1, NumberCases
<1>6. /\ e.xam = hex_val /\ e.st_addr = hex_val /\ e.dmem = m.dmem
      /\ e.shown = Append(m.shown, <<hex_val, m.dmem[hex_val]>>) /\ e.ran = m.ran
      /\ e.mode = m.mode /\ e.over = m.over
  BY <1>2 DEF Meanings
<1> HIDE DEF e
<1>7. /\ xam' = e.xam /\ st_addr' = e.st_addr /\ dmem' = e.dmem /\ shown' = e.shown
      /\ ran' = e.ran /\ mode' = e.mode /\ ~e.over
  BY <1>1, <1>2, <1>6 DEF Agrees
<1> QED
  BY <1>1, <1>2, <1>4, <1>5, <1>7, NumberDone DEF m, Modes

\* One byte of a block: the last one, when the address is the number, or one before it.
LEMMA ExamineBlockStep == MonInv /\ ExamineBlock /\ UNCHANGED image => MonInv'
<1> SUFFICES ASSUME MonInv, ExamineBlock, UNCHANGED image PROVE MonInv'
  OBVIOUS
<1> DEFINE m == MeansSoFar  d == (hex_val - m.xam) % AddrMod
<1>1. /\ pc = "BLOCK" /\ shown' = Append(shown, <<xam, dmem[xam]>>) /\ yarvmon
      /\ IF xam = hex_val THEN pc' = "skip" /\ mode' = "XAM" /\ UNCHANGED xam
         ELSE xam' = (xam + 1) % AddrMod /\ UNCHANGED <<pc, mode>>
      /\ UNCHANGED <<in_buf, st_addr, y, hex_val, digits, dmem, ran, screen, keys, before>>
  BY DEF ExamineBlock, yarvmon
<1>2. m \in Meanings /\ hex_val \in Addrs /\ StateOK /\ mode = "BLOCK" /\ pc \in Modes
  BY <1>1, ActHolds DEF Modes
<1>3. PICK n \in 0..d : ShownUpTo(m, n)
  BY <1>1, <1>2, ActHolds
<1>4. m.xam \in Addrs /\ d \in Nat /\ n \in Nat
  <2>1. m.xam \in Addrs
    BY <1>2 DEF Meanings
  <2> QED
    BY <1>2, <1>3, <2>1, BlockEnd
<1>5. xam = (m.xam + n) % AddrMod /\ (xam = hex_val <=> n = d)
      /\ (xam + 1) % AddrMod = (m.xam + (n + 1)) % AddrMod
  BY <1>2, <1>3, <1>4, BlockEnd DEF ShownUpTo
<1> HIDE DEF m, d
<1>6. shown' = m.shown \o BlockFrom(m, n + 1)
  BY <1>1, <1>2, <1>3, <1>4, <1>5, BlockMore DEF ShownUpTo
<1>7. shown' \in Seq(Addrs \X Bytes)
  BY <1>1, <1>2 DEF StateOK
<1>8. CASE xam = hex_val
  <2>1. n = d /\ pc' = "skip" /\ mode' = "XAM" /\ xam' = hex_val
    BY <1>1, <1>5, <1>8
  <2>2. StateOK'
    BY <1>1, <1>2, <1>7, <2>1 DEF StateOK
  <2> DEFINE e == [m EXCEPT !.shown = m.shown \o BlockFrom(m, d + 1),
                            !.xam = hex_val, !.mode = "XAM"]
  <2>3. NumberMeans(m, hex_val) = e
    <3>1. ~m.over /\ m.mode = "BLOCK"
      BY <1>2, <1>3 DEF ShownUpTo
    <3>2. NumberMeans(m, hex_val) = [m EXCEPT
            !.shown = m.shown \o BlockFrom(m, ((hex_val - m.xam) % AddrMod) + 1),
            !.xam = hex_val, !.mode = "XAM"]
      BY <1>2, <3>1, NumberCases
    <3> QED
      BY <3>2 DEF d
  <2>4. /\ e.xam = hex_val /\ e.st_addr = m.st_addr /\ e.dmem = m.dmem
        /\ e.shown = m.shown \o BlockFrom(m, d + 1) /\ e.ran = m.ran
        /\ e.mode = "XAM" /\ e.over = m.over
    BY <1>2 DEF Meanings
  <2> HIDE DEF e
  <2>5. /\ xam' = e.xam /\ st_addr' = e.st_addr /\ dmem' = e.dmem /\ shown' = e.shown
        /\ ran' = e.ran /\ mode' = e.mode /\ ~e.over
    BY <1>1, <1>3, <1>6, <2>1, <2>4 DEF ShownUpTo
  <2> QED
    BY <1>1, <1>2, <2>1, <2>2, <2>3, <2>5, NumberDone DEF m, Modes
<1>9. CASE xam # hex_val
  <2>1. n # d /\ xam' = (m.xam + (n + 1)) % AddrMod /\ pc' = "BLOCK" /\ mode' = mode
    BY <1>1, <1>5, <1>9
  <2>2. xam' \in Addrs
    <3>1. xam + 1 \in Int
      BY <1>2, MonSizes DEF StateOK
    <3> QED
      BY <1>1, <1>9, <3>1, MonWraps
  <2>3. StateOK'
    BY <1>1, <1>2, <1>7, <2>2 DEF StateOK
  <2>4. /\ MonTypeOK' /\ UNCHANGED <<in_buf, before>> /\ MeansSoFar' = m
        /\ y <= Len(in_buf) /\ NumberRead /\ DigitsEnd
    <3>1. y \in Nat /\ digits \in Nat /\ y <= Len(in_buf) /\ NumberRead /\ DigitsEnd
      BY <1>2 DEF MonInv, MonTypeOK, PlaceInv, ActInv
    <3> QED
      BY <1>1, <1>2, <2>1, <2>3, <3>1, InterpreterKeeps DEF m, MeansSoFar, Modes
  <2>5. n + 1 \in 0..d
    BY <1>3, <1>4, <2>1
  <2>6. (hex_val' - MeansSoFar'.xam) % AddrMod = d
    BY <1>1, <2>4 DEF d
  <2>7. ShownUpTo(MeansSoFar, n + 1)'
    BY <1>1, <1>3, <1>6, <2>1, <2>4 DEF ShownUpTo
  <2>8. NumberRead' /\ DigitsEnd'
    BY <1>1, <2>4 DEF NumberRead, DigitsEnd, IsDigitAt
  <2>9. \E j \in 0..(hex_val' - MeansSoFar'.xam) % AddrMod : ShownUpTo(MeansSoFar, j)'
    BY <2>5, <2>6, <2>7
  <2>10. ActInv'
    BY <1>2, <2>1, <2>8, <2>9 DEF ActInv
  <2> QED
    BY <1>1, <2>1, <2>4, <2>10
       DEF MonInv, PlaceInv, SkipInv, NumberInv, LineObeyed, Modes, MonTypeOK
<1> QED
  BY <1>8, <1>9

\* Every step of the monitor keeps the invariant.
LEMMA MonInvNext == MonInv /\ [MonNext]_<<image, pc, monVars>> => MonInv'
<1> SUFFICES ASSUME MonInv, [MonNext]_<<image, pc, monVars>> PROVE MonInv'
  OBVIOUS
<1>1. CASE UNCHANGED <<image, pc, monVars>>
  BY <1>1, ZenonT(60) DEF monVars, MonInv, MonTypeOK, StateOK, PlaceInv, SkipInv, NumberInv, ActInv,
     LineObeyed,
     MonState, Agrees, ShownUpTo, MeansSoFar, NumberRead, DigitsEnd
<1>2. CASE MonNext
  <2>1. UNCHANGED image /\ (Prompt \/ get_line \/ yarvmon)
    BY <1>2 DEF MonNext, Linked
  <2> QED
    BY <2>1, PromptStep, get_lineStep, SkipStep, ReadStep, DepositStep, ExamineStep,
       ExamineBlockStep DEF yarvmon
<1> QED
  BY <1>1, <1>2

\* Whatever is typed, erased or dropped at the limit of the buffer, and whatever
\* the size of the buffer, the number of digits of an address and their base: when
\* the monitor has worked through a line, it has done what the line means.
THEOREM MonitorObeysLine == MonSpec => []LineObeyed
<1>1. image = "yarvmon" /\ Boot /\ MonInit => MonInv
  BY MonInvInit
<1>2. MonInv /\ [MonNext]_<<image, pc, monVars>> => MonInv'
  BY MonInvNext
<1>3. MonInv => LineObeyed
  BY DEF MonInv
<1> QED
  BY <1>1, <1>2, <1>3, PTL DEF MonSpec

-----------------------------------------------------------------------------
(***************************************************************************)
(* The SHA-256 shell.                                                      *)
(*                                                                         *)
(* The invariant names, for each statement of sha256, how many bytes of    *)
(* the padded message have been compressed and where the block at hand     *)
(* goes on; a call of sha256_transform changes neither.                    *)
(***************************************************************************)
\* The bytes that are hashed, up to the length.
MsgByte(i) == IF i <= len THEN input[i] ELSE IF i = len + 1 THEN 128 ELSE 0

\* What has been compressed is the first n bytes; the block at hand goes on there.
FedUpTo(n) == fed \in Seq(Nat) /\ Len(fed) = n /\ \A i \in 1..n : fed[i] = MsgByte(i)
BlockFollows(n) ==
  block \in Seq(Nat) /\ Len(block) = 64 /\ \A i \in 1..64 : block[i] = MsgByte(n + i)

\* The statement of sha256 that is under way or called sha256_transform.
ShaAt == IF pc \in {"schedule", "round"} THEN after ELSE pc

\* Where the block with the length begins.
LastStart == 64 * (len \div 64) + (IF NoRoom THEN 64 ELSE 0)

\* How far the message has been compressed, by the statement.
ShaInv ==
  /\ image = "sha256" /\ input \in Seq(Nat) /\ sha_screen = input /\ len < INPUT_MAX
  /\ sha_blk \in Nat
  /\ ShaAt \in {"reset", "key", "blocks", "pad", "length", "print"}
  /\ ShaAt \in {"reset", "key"} => fed = << >> /\ sha_blk = 0
  /\ ShaAt = "blocks" => sha_blk <= len \div 64 /\ FedUpTo(64 * sha_blk)
  /\ ShaAt = "pad" => FedUpTo(64 * (len \div 64)) /\ BlockFollows(64 * (len \div 64))
  /\ ShaAt = "length" => FedUpTo(LastStart) /\ BlockFollows(LastStart)
  /\ ShaAt = "print" => fed = Padded(input)

\* A length in blocks of 64.
LEMMA Blocks64 ==
  ASSUME NEW n \in Nat
  PROVE  n \div 64 \in Nat /\ n % 64 \in 0..63 /\ n = 64 * (n \div 64) + (n % 64)
OBVIOUS

\* u is s with t behind it.
Joined(s, t, u) ==
  /\ u \in Seq(Nat) /\ Len(u) = Len(s) + Len(t)
  /\ \A i \in 1..Len(s) : u[i] = s[i]
  /\ \A i \in 1..Len(t) : u[Len(s) + i] = t[i]

\* Concatenation, element by element.
LEMMA JoinedIs == \A s, t \in Seq(Nat) : Joined(s, t, s \o t)
<1> SUFFICES ASSUME NEW s \in Seq(Nat), NEW t \in Seq(Nat) PROVE Joined(s, t, s \o t)
  OBVIOUS
<1>1. s \o t \in Seq(Nat) /\ Len(s \o t) = Len(s) + Len(t)
  OBVIOUS
<1>2. \A i \in 1..Len(s) : (s \o t)[i] = s[i]
  OBVIOUS
<1>3. ASSUME NEW i \in 1..Len(t) PROVE (s \o t)[Len(s) + i] = t[i]
  <2>1. Len(s) + i \in 1..Len(s) + Len(t) /\ Len(s) + i > Len(s) /\ (Len(s) + i) - Len(s) = i
    OBVIOUS
  <2> QED
    BY <2>1, ConcatProperties
<1> QED
  BY <1>1, <1>2, <1>3 DEF Joined

\* The length of the text.
LEMMA TextLen == ASSUME input \in Seq(Nat) PROVE len \in Nat /\ \A i \in 1..len : input[i] \in Nat
BY DEF len

\* The part of the text from lo on.
LEMMA PartOfText ==
  ASSUME input \in Seq(Nat), NEW lo \in Nat, NEW hi \in Nat, 0 < lo, lo <= hi + 1, hi <= len
  PROVE  /\ SubSeq(input, lo, hi) \in Seq(Nat) /\ Len(SubSeq(input, lo, hi)) = hi - lo + 1
         /\ \A i \in 1..hi-lo+1 : SubSeq(input, lo, hi)[i] = input[lo + i - 1]
<1>1. \A i \in lo..hi : input[i] \in Nat
  BY TextLen
<1>2. lo \in Int /\ hi \in Int
  OBVIOUS
<1>3. /\ SubSeq(input, lo, hi) \in Seq(Nat)
      /\ Len(SubSeq(input, lo, hi)) = IF lo <= hi THEN hi - lo + 1 ELSE 0
      /\ \A i \in 1..hi-lo+1 : SubSeq(input, lo, hi)[i] = input[lo + i - 1]
  BY <1>1, <1>2, SubSeqProperties
<1> QED
  BY <1>3

\* A block that goes on where the compressed bytes end.
LEMMA FedMore ==
  ASSUME NEW n \in Nat, FedUpTo(n), NEW bb \in Seq(Nat), Len(bb) = 64,
         \A i \in 1..64 : bb[i] = MsgByte(n + i), UNCHANGED input, Joined(fed, bb, fed')
  PROVE  FedUpTo(n + 64)'
<1>1. fed \in Seq(Nat) /\ Len(fed) = n /\ \A i \in 1..n : fed[i] = MsgByte(i)
  BY DEF FedUpTo
<1>2. /\ fed' \in Seq(Nat) /\ Len(fed') = n + 64
      /\ \A i \in 1..n : fed'[i] = fed[i]
      /\ \A k \in 1..64 : fed'[n + k] = bb[k]
  BY <1>1 DEF Joined
<1>3. ASSUME NEW i \in 1..n + 64 PROVE fed'[i] = MsgByte(i)
  <2>1. CASE i <= n
    BY <1>1, <1>2, <2>1
  <2>2. CASE i > n
    <3>1. i - n \in 1..64 /\ i = n + (i - n)
      BY <2>2
    <3>2. PICK k \in 1..64 : i = n + k
      BY <3>1
    <3>3. fed'[n + k] = bb[k] /\ bb[k] = MsgByte(n + k)
      BY <1>2
    <3> QED
      BY <3>2, <3>3
  <2> QED
    BY <2>1, <2>2
<1>4. \A i \in 1..n + 64 : MsgByte(i)' = MsgByte(i)
  BY DEF MsgByte, len
<1> QED
  BY <1>2, <1>3, <1>4 DEF FedUpTo

\* Zeros.
LEMMA ZerosFacts ==
  ASSUME NEW n \in Nat
  PROVE  Zeros(n) \in Seq(Nat) /\ Len(Zeros(n)) = n /\ \A i \in 1..n : Zeros(n)[i] = 0
BY DEF Zeros

\* t is s, the mark behind it and z zeros.
IsMarked(s, z, t) ==
  /\ t \in Seq(Nat) /\ Len(t) = Len(s) + 1 + z
  /\ \A i \in 1..Len(s) : t[i] = s[i]
  /\ t[Len(s) + 1] = 128
  /\ \A i \in Len(s)+2..Len(s)+1+z : t[i] = 0

\* A text or its tail, the mark behind it and zeros.
LEMMA Marked ==
  ASSUME NEW s \in Seq(Nat), NEW z \in Nat
  PROVE  IsMarked(s, z, s \o <<128>> \o Zeros(z))
<1> DEFINE p == s \o <<128>>  t == p \o Zeros(z)
<1>1. /\ p \in Seq(Nat) /\ Len(p) = Len(s) + 1 /\ Len(s) \in Nat
      /\ \A i \in 1..Len(s) : p[i] = s[i]
      /\ p[Len(s) + 1] = 128
  <2>1. PICK o : o = <<128>>
    OBVIOUS
  <2>2. o \in Seq(Nat) /\ Len(o) = 1 /\ o[1] = 128
    BY <2>1
  <2>3. Joined(s, o, p)
    BY <2>1, <2>2, JoinedIs
  <2>4. 1 \in 1..Len(o)
    BY <2>2
  <2> HIDE DEF p
  <2> QED
    BY <2>2, <2>3, <2>4 DEF Joined
<1>2. Zeros(z) \in Seq(Nat) /\ Len(Zeros(z)) = z /\ \A i \in 1..z : Zeros(z)[i] = 0
  BY ZerosFacts
<1> HIDE DEF p
<1>3a. Joined(p, Zeros(z), t)
  BY <1>1, <1>2, JoinedIs
<1> HIDE DEF t
<1>3. /\ t \in Seq(Nat) /\ Len(t) = Len(p) + z
      /\ \A i \in 1..Len(p) : t[i] = p[i]
      /\ \A i \in 1..z : t[Len(p) + i] = 0
  BY <1>2, <1>3a DEF Joined
<1>4. ASSUME NEW i \in Len(s)+2..Len(s)+1+z PROVE t[i] = 0
  <2>1. i - Len(p) \in 1..z /\ Len(p) + (i - Len(p)) = i
    BY <1>1
  <2> QED
    BY <1>3, <2>1
<1>5. IsMarked(s, z, t)
  BY <1>1, <1>3, <1>4 DEF IsMarked
<1> QED
  BY <1>5 DEF t, p

\* Where the length stands in the padded message: in the last eight bytes of a block.
LEMMA LastStartIs ==
  ASSUME input \in Seq(Nat)
  PROVE  /\ LastStart \in Nat /\ (55 - len) % 64 \in Nat
         /\ len + 1 + ((55 - len) % 64) = LastStart + 56
<1>1. PICK q \in Nat, r \in 0..63 : q = len \div 64 /\ r = len % 64 /\ len = 64 * q + r /\ len \in Nat
  BY TextLen, Blocks64
<1>2. (55 - len) % 64 = IF r >= 56 THEN 119 - r ELSE 55 - r
  BY <1>1
<1> QED
  BY <1>1, <1>2 DEF LastStart, NoRoom

\* The padded message, byte by byte: the text, the mark, zeros and the length.
LEMMA PaddedIs ==
  ASSUME input \in Seq(Nat)
  PROVE  /\ Padded(input) \in Seq(Nat) /\ Len(Padded(input)) = LastStart + 64
         /\ \A i \in 1..LastStart + 56 : Padded(input)[i] = MsgByte(i)
         /\ \A k \in 1..8 : Padded(input)[LastStart + 56 + k] =
              IF k < 5 THEN 0 ELSE ((8 * len) \div 256^(8 - k)) % 256
<1> DEFINE z == (55 - len) % 64
           t == input \o <<128>> \o Zeros(z)
           L(k) == IF k < 5 THEN 0 ELSE ((8 * len) \div 256^(8 - k)) % 256
           ll == [k \in 1..8 |-> L(k)]
<1>1. Padded(input) = t \o ll
  BY DEF Padded, len
<1>2. /\ z \in Nat /\ len + 1 + z = LastStart + 56 /\ LastStart \in Nat /\ len \in Nat
      /\ Len(input) = len
  BY LastStartIs, TextLen DEF len
<1>3. ll \in Seq(Nat) /\ Len(ll) = 8 /\ \A k \in 1..8 : ll[k] = L(k)
  <2>1. ASSUME NEW k \in 1..8 PROVE L(k) \in Nat
    <3>1. CASE k < 5
      BY <3>1
    <3>2. CASE k >= 5
      <4>1. 256^(8 - k) \in Nat /\ 256^(8 - k) > 0
        <5>1. 8 - k = 0 \/ 8 - k = 1 \/ 8 - k = 2 \/ 8 - k = 3
          BY <3>2
        <5>2. PICK h : h = 8 - k
          OBVIOUS
        <5>3. 256^0 = 1 /\ 256^1 = 256 /\ 256^2 = 65536 /\ 256^3 = 16777216
          OBVIOUS
        <5>4. 256^h = 256^0 \/ 256^h = 256^1 \/ 256^h = 256^2 \/ 256^h = 256^3
          BY <5>1, <5>2, ZenonT(60)
        <5>5. PICK w : w = 256^h
          OBVIOUS
        <5>6. w = 1 \/ w = 256 \/ w = 65536 \/ w = 16777216
          BY <5>3, <5>4, <5>5
        <5>7. w \in Nat /\ w > 0
          BY <5>6
        <5> QED
          BY <5>2, <5>5, <5>7
      <4>2. PICK w \in Nat : w = 256^(8 - k) /\ w > 0
        BY <4>1
      <4>3. (8 * len) \div w \in Nat
        BY <1>2, <4>2
      <4>4. ((8 * len) \div w) % 256 \in Nat
        BY <4>3
      <4> QED
        BY <3>2, <4>2, <4>4
    <3> QED
      BY <3>1, <3>2
  <2> HIDE DEF L
  <2> QED
    BY <2>1
<1> HIDE DEF z, ll, L
<1>4. /\ t \in Seq(Nat) /\ Len(t) = len + 1 + z
      /\ \A i \in 1..len : t[i] = input[i]
      /\ t[len + 1] = 128
      /\ \A i \in len+2..len+1+z : t[i] = 0
  <2>1. IsMarked(input, z, t)
    BY <1>2, Marked
  <2> HIDE DEF t
  <2> QED
    BY <1>2, <2>1 DEF IsMarked
<1>5. ASSUME NEW i \in 1..LastStart + 56 PROVE t[i] = MsgByte(i)
  <2> HIDE DEF t
  <2> QED
    BY <1>2, <1>4 DEF MsgByte
<1>6. Joined(t, ll, Padded(input))
  BY <1>1, <1>3, <1>4, JoinedIs
<1> HIDE DEF t
<1>7. /\ Padded(input) \in Seq(Nat) /\ Len(Padded(input)) = LastStart + 64
      /\ \A i \in 1..LastStart + 56 : Padded(input)[i] = MsgByte(i)
      /\ \A k \in 1..8 : Padded(input)[LastStart + 56 + k] = L(k)
  <2> DEFINE p == Padded(input)
  <2>1. /\ p \in Seq(Nat) /\ Len(p) = Len(t) + 8
        /\ \A i \in 1..Len(t) : p[i] = t[i]
        /\ \A k \in 1..8 : p[Len(t) + k] = ll[k]
    BY <1>3, <1>6 DEF Joined
  <2> HIDE DEF p
  <2>2. Len(t) = LastStart + 56
    BY <1>2, <1>4
  <2>3. /\ p \in Seq(Nat) /\ Len(p) = LastStart + 64
        /\ \A i \in 1..LastStart + 56 : p[i] = MsgByte(i)
        /\ \A k \in 1..8 : p[LastStart + 56 + k] = L(k)
    <3>1. p \in Seq(Nat) /\ Len(p) = LastStart + 64
      BY <1>2, <2>1, <2>2
    <3>2. \A i \in 1..LastStart + 56 : p[i] = MsgByte(i)
      BY <1>5, <2>1, <2>2
    <3>3. \A k \in 1..8 : p[LastStart + 56 + k] = L(k)
      BY <1>3, <2>1, <2>2
    <3> QED
      BY <3>1, <3>2, <3>3
  <2> QED
    BY <2>3 DEF p
<1> QED
  BY <1>7 DEF L

\* A complete block of the text.
LEMMA FullBlock ==
  ASSUME input \in Seq(Nat), NEW q \in Nat, q < len \div 64
  PROVE  LET bb == SubSeq(input, 64 * q + 1, 64 * q + 64)
         IN  bb \in Seq(Nat) /\ Len(bb) = 64 /\ \A i \in 1..64 : bb[i] = MsgByte(64 * q + i)
<1>1. PICK lo, hi : lo = 64 * q + 1 /\ hi = 64 * q + 64
  OBVIOUS
<1>2. len \in Nat
  BY TextLen
<1>3. lo \in Nat /\ hi \in Nat /\ 0 < lo /\ lo <= hi + 1 /\ hi <= len /\ hi - lo + 1 = 64
  <2>1. 64 * q + 64 <= len
    BY <1>2, Blocks64
  <2> QED
    BY <1>1, <2>1
<1> DEFINE bb == SubSeq(input, lo, hi)
<1>4. bb \in Seq(Nat) /\ Len(bb) = 64 /\ \A i \in 1..64 : bb[i] = input[lo + i - 1]
  <2>1. /\ bb \in Seq(Nat) /\ Len(bb) = hi - lo + 1
        /\ \A i \in 1..hi-lo+1 : bb[i] = input[lo + i - 1]
    BY <1>3, PartOfText, ZenonT(60)
  <2> QED
    BY <1>3, <2>1
<1> HIDE DEF bb
<1>5. ASSUME NEW i \in 1..64 PROVE bb[i] = MsgByte(64 * q + i)
  <2>1. lo + i - 1 = 64 * q + i /\ 64 * q + i <= len
    BY <1>1, <1>2, <1>3
  <2> QED
    BY <1>4, <2>1 DEF MsgByte
<1> QED
  BY <1>1, <1>4, <1>5 DEF bb

\* The rest of the text, the mark and zeros.
LEMMA TailBlock ==
  ASSUME input \in Seq(Nat), NEW q \in Nat, q = len \div 64
  PROVE  LET bb == SubSeq(input, 64 * q + 1, len) \o <<128>> \o Zeros(63 - (len % 64))
         IN  bb \in Seq(Nat) /\ Len(bb) = 64 /\ \A i \in 1..64 : bb[i] = MsgByte(64 * q + i)
<1>1. PICK r \in 0..63 : r = len % 64 /\ len = 64 * q + r /\ len \in Nat
  BY TextLen, Blocks64
<1>2. PICK lo : lo = 64 * q + 1
  OBVIOUS
<1>3. lo \in Nat /\ 0 < lo /\ lo <= len + 1 /\ len <= len /\ len - lo + 1 = r /\ 63 - r \in Nat
  BY <1>1, <1>2
<1> DEFINE s == SubSeq(input, lo, len)  bb == s \o <<128>> \o Zeros(63 - r)
<1>4. s \in Seq(Nat) /\ Len(s) = r /\ \A i \in 1..r : s[i] = input[lo + i - 1]
  BY <1>1, <1>3, PartOfText, ZenonT(60)
<1>5. IsMarked(s, 63 - r, bb)
  <2> HIDE DEF s
  <2> QED
    BY <1>3, <1>4, Marked
<1> HIDE DEF s, bb
<1>6. /\ bb \in Seq(Nat) /\ Len(bb) = 64
      /\ \A i \in 1..r : bb[i] = s[i]
      /\ bb[r + 1] = 128
      /\ \A i \in r+2..64 : bb[i] = 0
  <2>1. Len(s) + 1 + (63 - r) = 64 /\ Len(s) + 1 = r + 1 /\ Len(s) + 2 = r + 2
    BY <1>1, <1>4
  <2>2. /\ bb \in Seq(Nat) /\ Len(bb) = Len(s) + 1 + (63 - r)
        /\ \A i \in 1..Len(s) : bb[i] = s[i]
        /\ bb[Len(s) + 1] = 128
        /\ \A i \in Len(s)+2..Len(s)+1+(63-r) : bb[i] = 0
    BY <1>5 DEF IsMarked
  <2> QED
    BY <1>4, <2>1, <2>2
<1>7. ASSUME NEW i \in 1..64 PROVE bb[i] = MsgByte(64 * q + i)
  <2>1. CASE i <= r
    <3>1. lo + i - 1 = 64 * q + i /\ 64 * q + i <= len /\ i \in 1..r
      BY <1>1, <1>2, <2>1
    <3> QED
      BY <1>4, <1>6, <3>1, SMTT(40) DEF MsgByte
  <2>2. CASE i = r + 1
    <3>1. 64 * q + i = len + 1 /\ ~(len + 1 <= len)
      BY <1>1, <2>2
    <3> QED
      BY <1>6, <2>2, <3>1 DEF MsgByte
  <2>3. CASE i > r + 1
    <3>1. ~(64 * q + i <= len) /\ 64 * q + i # len + 1 /\ i \in r+2..64
      BY <1>1, <2>3
    <3> QED
      BY <1>6, <3>1 DEF MsgByte
  <2> QED
    BY <1>1, <2>1, <2>2, <2>3
<1> QED
  BY <1>1, <1>2, <1>6, <1>7, ZenonT(60) DEF bb, s

\* A block that goes on at n.
LEMMA BlockIs ==
  ASSUME NEW n \in Nat, UNCHANGED input, block' \in Seq(Nat), Len(block') = 64,
         \A i \in 1..64 : block'[i] = MsgByte(n + i)
  PROVE  BlockFollows(n)'
<1>1. ASSUME NEW k PROVE MsgByte(k)' = MsgByte(k)
  BY DEF MsgByte, len
<1> QED
  BY <1>1, Zenon DEF BlockFollows

\* A block that is left as it is.
LEMMA BlockKept ==
  ASSUME NEW n \in Nat, BlockFollows(n), UNCHANGED <<input, block>>
  PROVE  BlockFollows(n)'
<1>1. block' \in Seq(Nat) /\ Len(block') = 64 /\ \A i \in 1..64 : block'[i] = MsgByte(n + i)
  BY DEF BlockFollows
<1> QED
  BY <1>1, BlockIs

\* The reset state.
LEMMA ShaInvInit == image = "sha256" /\ Boot /\ ShaInit => ShaInv
<1> SUFFICES ASSUME image = "sha256", Boot, ShaInit PROVE ShaInv
  OBVIOUS
<1>1. input = << >> /\ input \in Seq(Nat) /\ len = 0 /\ INPUT_MAX \in Nat /\ INPUT_MAX > 0
  BY ShaAssumption, EmptySeq DEF ShaInit, len
<1>2. ShaAt = "reset"
  BY DEF Boot, ShaAt
<1> QED
  BY <1>1, <1>2 DEF ShaInv, ShaInit

\* The editor: the screen follows the buffer.
LEMMA EditStep == ShaInv /\ (Banner \/ EnterKey \/ BackKey \/ TypeKey) /\ UNCHANGED image => ShaInv'
<1> SUFFICES ASSUME ShaInv, Banner \/ EnterKey \/ BackKey \/ TypeKey, UNCHANGED image PROVE ShaInv'
  OBVIOUS
<1>1. UNCHANGED <<fed, sha_blk>>
  BY DEF Banner, EnterKey, BackKey, TypeKey, shaVars, hashVars
<1>2. fed = << >> /\ sha_blk = 0 /\ image = "sha256"
  BY DEF ShaInv, ShaAt, Banner, EnterKey, BackKey, TypeKey
<1>3. input \in Seq(Nat) /\ sha_screen = input /\ len < INPUT_MAX /\ len \in Nat /\ INPUT_MAX \in Nat
  BY TextLen, ShaAssumption DEF ShaInv
<1>4. CASE Banner \/ EnterKey
  <2>1. UNCHANGED input /\ pc' \in {"key", "blocks"} /\ UNCHANGED len
    BY <1>4 DEF Banner, EnterKey, shaVars, len
  <2>2. sha_screen' = input'
    BY <1>3, <1>4, <2>1 DEF Banner, EnterKey, shaVars, len
  <2>3. ShaAt' = pc'
    BY <2>1 DEF ShaAt
  <2>4. FedUpTo(64 * sha_blk)' /\ sha_blk' <= len' \div 64
    <3>1. 0 <= len \div 64
      BY <1>3
    <3>2. fed' = << >> /\ 64 * sha_blk' = 0 /\ sha_blk' = 0
      BY <1>1, <1>2
    <3>3. fed' \in Seq(Nat) /\ Len(fed') = 0
      BY <3>2, EmptySeq
    <3> QED
      BY <2>1, <3>1, <3>2, <3>3 DEF FedUpTo
  <2> QED
    BY <1>1, <1>2, <1>3, <2>1, <2>2, <2>3, <2>4 DEF ShaInv
<1>5. CASE BackKey \/ TypeKey
  <2>1. pc = "key" /\ pc' = "key" /\ ShaAt' = "key"
    BY <1>5 DEF BackKey, TypeKey, ShaAt
  <2>2. input' \in Seq(Nat) /\ sha_screen' = input' /\ Len(input') < INPUT_MAX
    <3>1. CASE UNCHANGED <<input, sha_screen>>
      BY <1>3, <3>1 DEF len
    <3>2. CASE len > 0 /\ input' = Front(input) /\ sha_screen' = Front(sha_screen)
      <4>1. input # << >>
        BY <3>2, EmptySeq DEF len
      <4>2. input' = SubSeq(input, 1, Len(input) - 1) /\ sha_screen' = input'
        BY <1>3, <3>2 DEF Front
      <4>3. input' \in Seq(Nat) /\ Len(input') = Len(input) - 1
        BY <1>3, <4>1, <4>2, FrontShorter
      <4> QED
        BY <1>3, <4>2, <4>3 DEF len
    <3>3. ASSUME NEW c, Printable(c), len < INPUT_MAX - 1, input' = Append(input, c),
                 sha_screen' = Append(sha_screen, c)
          PROVE  input' \in Seq(Nat) /\ sha_screen' = input' /\ Len(input') < INPUT_MAX
      <4>1. c \in Nat
        BY <3>3 DEF Printable
      <4> QED
        BY <1>3, <3>3, <4>1 DEF len
    <3> QED
      BY <1>5, <3>1, <3>2, <3>3 DEF BackKey, TypeKey, CharKey
  <2> QED
    BY <1>1, <1>2, <2>1, <2>2 DEF ShaInv, len
<1> QED
  BY <1>4, <1>5

\* The text and its editor stay as they are while the line is hashed.
LEMMA HashKeeps ==
  ASSUME ShaInv, sha256, UNCHANGED image
  PROVE  /\ UNCHANGED <<input, sha_screen>> /\ UNCHANGED <<len, LastStart, Padded(input)>>
         /\ image' = "sha256" /\ input' \in Seq(Nat) /\ sha_screen' = input' /\ len' < INPUT_MAX
         /\ input \in Seq(Nat) /\ len \in Nat /\ sha_blk \in Nat
         /\ \A n \in Int : UNCHANGED MsgByte(n)
<1>1. UNCHANGED <<input, sha_screen>>
  BY DEF sha256, FullBlocks, PadBlock, LengthBlock, ScheduleWord, Round
<1>2. input \in Seq(Nat) /\ sha_screen = input /\ len < INPUT_MAX /\ image = "sha256" /\ sha_blk \in Nat
  BY DEF ShaInv
<1>3. UNCHANGED <<len, LastStart, Padded(input)>>
  BY <1>1 DEF len, LastStart, NoRoom, Padded
<1>4. \A n \in Int : UNCHANGED MsgByte(n)
  BY <1>1 DEF MsgByte, len
<1> QED
  BY <1>1, <1>2, <1>3, <1>4, TextLen

\* Complete blocks of the text, and then its tail.
LEMMA FullBlocksStep == ShaInv /\ FullBlocks /\ UNCHANGED image => ShaInv'
<1> SUFFICES ASSUME ShaInv, FullBlocks, UNCHANGED image PROVE ShaInv'
  OBVIOUS
<1>1. sha256 /\ pc = "blocks" /\ ShaAt = "blocks"
  BY DEF sha256, FullBlocks, ShaAt
<1>2. sha_blk \in Nat /\ sha_blk <= len \div 64 /\ FedUpTo(64 * sha_blk) /\ fed \in Seq(Nat)
  BY <1>1 DEF ShaInv, FedUpTo
<1>3. len \in Nat /\ input \in Seq(Nat) /\ UNCHANGED input /\ UNCHANGED len
  BY <1>1, HashKeeps
<1>4. CASE sha_blk < len \div 64
  <2> DEFINE bb == SubSeq(input, 64 * sha_blk + 1, 64 * sha_blk + 64)
  <2>1. fed' = fed \o bb /\ sha_blk' = sha_blk + 1 /\ ShaAt' = "blocks"
    BY <1>4 DEF FullBlocks, sha256_transform, ShaAt
  <2>2. bb \in Seq(Nat) /\ Len(bb) = 64 /\ \A i \in 1..64 : bb[i] = MsgByte(64 * sha_blk + i)
    BY <1>2, <1>3, <1>4, FullBlock
  <2> HIDE DEF bb
  <2>3. Joined(fed, bb, fed')
    BY <1>2, <2>1, <2>2, JoinedIs
  <2>4. PICK n \in Nat : n = 64 * sha_blk
    BY <1>2
  <2>5. FedUpTo(n) /\ \A i \in 1..64 : bb[i] = MsgByte(n + i)
    BY <1>2, <2>2, <2>4
  <2>6. FedUpTo(n + 64)'
    BY <1>3, <2>2, <2>3, <2>5, FedMore
  <2>7. n + 64 = 64 * sha_blk'
    BY <1>2, <2>1, <2>4
  <2>8. FedUpTo(64 * sha_blk)' /\ sha_blk' \in Nat /\ sha_blk' <= len' \div 64
    BY <1>2, <1>3, <1>4, <2>1, <2>6, <2>7 DEF FedUpTo
  <2> QED
    BY <1>1, <2>1, <2>8, HashKeeps DEF ShaInv
<1>5. CASE ~(sha_blk < len \div 64)
  <2>1. sha_blk = len \div 64
    BY <1>2, <1>3, <1>5
  <2> DEFINE bb == SubSeq(input, 64 * sha_blk + 1, len) \o <<128>> \o Zeros(63 - (len % 64))
  <2>2. block' = bb /\ ShaAt' = "pad" /\ UNCHANGED <<fed, sha_blk>>
    BY <1>5 DEF FullBlocks, ShaAt
  <2>3. bb \in Seq(Nat) /\ Len(bb) = 64 /\ \A i \in 1..64 : bb[i] = MsgByte(64 * sha_blk + i)
    BY <1>2, <1>3, <2>1, TailBlock
  <2> HIDE DEF bb
  <2>4. \A n \in Int : MsgByte(n)' = MsgByte(n)
    BY <1>1, HashKeeps
  <2>5. FedUpTo(64 * (len \div 64))' /\ BlockFollows(64 * (len \div 64))'
    <3>1. PICK n \in Nat : n = 64 * sha_blk
      BY <1>2
    <3>2. 64 * (len \div 64)' = n
      BY <1>3, <2>1, <3>1
    <3>3. FedUpTo(n)'
      BY <1>2, <2>2, <2>4, <3>1 DEF FedUpTo
    <3>4. BlockFollows(n)'
      BY <1>3, <2>2, <2>3, <3>1, BlockIs
    <3> QED
      BY <3>2, <3>3, <3>4 DEF FedUpTo, BlockFollows
  <2> QED
    BY <1>1, <1>2, <2>2, <2>5, HashKeeps DEF ShaInv
<1> QED
  BY <1>4, <1>5

\* The tail goes out when it has no room for the length.
LEMMA PadBlockStep == ShaInv /\ PadBlock /\ UNCHANGED image => ShaInv'
<1> SUFFICES ASSUME ShaInv, PadBlock, UNCHANGED image PROVE ShaInv'
  OBVIOUS
<1>1. sha256 /\ pc = "pad" /\ ShaAt = "pad" /\ UNCHANGED sha_blk
  BY DEF sha256, PadBlock, ShaAt
<1>2. /\ len \in Nat /\ input \in Seq(Nat) /\ UNCHANGED <<input, len, LastStart>> /\ sha_blk \in Nat
      /\ \A n \in Int : MsgByte(n)' = MsgByte(n)
  BY <1>1, HashKeeps
<1>3. PICK n \in Nat : n = 64 * (len \div 64)
  BY <1>2, Blocks64
<1>4. FedUpTo(n) /\ BlockFollows(n)
  BY <1>1, <1>3 DEF ShaInv
<1>5. fed \in Seq(Nat) /\ block \in Seq(Nat) /\ Len(block) = 64 /\ \A i \in 1..64 : block[i] = MsgByte(n + i)
  BY <1>4 DEF FedUpTo, BlockFollows
<1>6. CASE NoRoom
  <2>1. fed' = fed \o block /\ block' = Zeros(64) /\ ShaAt' = "length"
    BY <1>6 DEF PadBlock, sha256_transform, ShaAt
  <2>2. LastStart' = n + 64
    BY <1>2, <1>3, <1>6 DEF LastStart
  <2>3. Joined(fed, block, fed')
    BY <1>5, <2>1, JoinedIs
  <2>4. FedUpTo(n + 64)'
    BY <1>2, <1>4, <1>5, <2>3, FedMore
  <2>5. block' \in Seq(Nat) /\ Len(block') = 64 /\ \A i \in 1..64 : block'[i] = 0
    BY <2>1, ZerosFacts
  <2>6. ASSUME NEW i \in 1..64 PROVE MsgByte((n + 64) + i)' = 0
    <3>1. len < n + 64
      BY <1>2, <1>3, Blocks64
    <3>2. ~((n + 64) + i <= len) /\ (n + 64) + i # len + 1 /\ (n + 64) + i \in Int
      BY <1>2, <3>1
    <3>3. MsgByte((n + 64) + i) = 0
      BY <3>2 DEF MsgByte
    <3> QED
      BY <1>2, <3>2, <3>3
  <2>7. BlockFollows(n + 64)'
    BY <2>5, <2>6 DEF BlockFollows
  <2>8. FedUpTo(LastStart)' /\ BlockFollows(LastStart)'
    BY <2>2, <2>4, <2>7 DEF FedUpTo, BlockFollows
  <2> QED
    BY <1>1, <1>2, <2>1, <2>8, HashKeeps DEF ShaInv
<1>7. CASE ~NoRoom
  <2>1. UNCHANGED <<fed, block>> /\ ShaAt' = "length"
    BY <1>7 DEF PadBlock, ShaAt
  <2>2. LastStart' = n
    BY <1>2, <1>3, <1>7 DEF LastStart
  <2>3. FedUpTo(n)' /\ BlockFollows(n)'
    <3>1. FedUpTo(n)'
      BY <1>2, <1>4, <2>1 DEF FedUpTo
    <3> QED
      BY <1>2, <1>4, <2>1, <3>1, BlockKept
  <2>4. FedUpTo(LastStart)' /\ BlockFollows(LastStart)'
    BY <2>2, <2>3 DEF FedUpTo, BlockFollows
  <2> QED
    BY <1>1, <1>2, <2>1, <2>4, HashKeeps DEF ShaInv
<1> QED
  BY <1>6, <1>7

\* The last block, with the length: the message is complete.
LEMMA LengthBlockStep == ShaInv /\ LengthBlock /\ UNCHANGED image => ShaInv'
<1> SUFFICES ASSUME ShaInv, LengthBlock, UNCHANGED image PROVE ShaInv'
  OBVIOUS
<1> DEFINE LL(i) == ((len * 8) \div 256^(64 - i)) % 256
           full == [i \in 1..64 |-> IF i < 57 THEN block[i] ELSE IF i < 61 THEN 0 ELSE LL(i)]
<1>1. sha256 /\ pc = "length" /\ ShaAt = "length" /\ UNCHANGED sha_blk
  BY DEF sha256, LengthBlock, ShaAt
<1>2. /\ len \in Nat /\ input \in Seq(Nat) /\ UNCHANGED <<input, Padded(input)>> /\ sha_blk \in Nat
      /\ LastStart \in Nat
  BY <1>1, HashKeeps, LastStartIs
<1>3. FedUpTo(LastStart) /\ BlockFollows(LastStart)
  BY <1>1 DEF ShaInv
<1>4. fed' = fed \o full /\ ShaAt' = "print"
  BY DEF LengthBlock, sha256_transform, ShaAt
<1> DEFINE n == LastStart  p == Padded(input)
<1>5. /\ p \in Seq(Nat) /\ Len(p) = n + 64
      /\ \A i \in 1..n + 56 : p[i] = MsgByte(i)
      /\ \A k \in 1..8 : p[n + 56 + k] = IF k < 5 THEN 0 ELSE ((8 * len) \div 256^(8 - k)) % 256
  BY <1>2, PaddedIs
<1> HIDE DEF n, p
<1>6. ASSUME NEW i \in 1..64 PROVE full[i] = p[n + i]
  <2>1. CASE i < 57
    <3>1. n + i \in 1..n + 56 /\ full[i] = block[i]
      BY <1>2, <2>1 DEF n
    <3> QED
      BY <1>3, <1>5, <3>1, ZenonT(60) DEF BlockFollows, n
  <2>2. CASE i >= 57
    <3>1. PICK k \in 1..8 : i = 56 + k
      <4>1. i - 56 \in 1..8 /\ i = 56 + (i - 56)
        BY <2>2
      <4> QED
        BY <4>1
    <3>2. n + i = n + 56 + k /\ 64 - i = 8 - k /\ len * 8 = 8 * len /\ (i < 61 <=> k < 5) /\ ~(i < 57)
      BY <1>2, <3>1 DEF n
    <3>3. LL(i) = ((8 * len) \div 256^(8 - k)) % 256
      BY <3>2
    <3>4. full[i] = IF i < 61 THEN 0 ELSE LL(i)
      BY <3>2
    <3> DEFINE lk == ((8 * len) \div 256^(8 - k)) % 256
    <3>5. p[n + 56 + k] = IF k < 5 THEN 0 ELSE lk
      BY <1>5
    <3>6. LL(i) = lk
      BY <3>3
    <3> HIDE DEF full, LL, lk
    <3> QED
      BY <3>2, <3>4, <3>5, <3>6
  <2> QED
    BY <2>1, <2>2
<1>7. \A i \in 1..64 : n + i \in 1..n + 64
  BY <1>2 DEF n
<1>8. full \in Seq(Nat) /\ Len(full) = 64
  <2>1. \A i \in 1..64 : full[i] \in Nat
    <3> HIDE DEF full
    <3>1. \A j \in 1..n + 64 : p[j] \in Nat
      <4>1. p \in Seq(Nat) /\ Len(p) = n + 64
        BY <1>5
      <4> QED
        BY <4>1
    <3>2. ASSUME NEW i \in 1..64 PROVE full[i] \in Nat
      <4>1. full[i] = p[n + i] /\ n + i \in 1..n + 64
        BY <1>6, <1>7
      <4> QED
        BY <3>1, <4>1
    <3> QED
      BY <3>2
  <2> QED
    BY <2>1
<1> HIDE DEF full
<1>9. Joined(fed, full, fed') /\ fed \in Seq(Nat) /\ Len(fed) = n /\ \A i \in 1..n : fed[i] = MsgByte(i)
  BY <1>3, <1>4, <1>8, JoinedIs DEF FedUpTo, n
<1>10. /\ fed' \in Seq(Nat) /\ Len(fed') = n + 64
       /\ \A i \in 1..n : fed'[i] = fed[i]
       /\ \A i \in 1..64 : fed'[n + i] = full[i]
  BY <1>8, <1>9 DEF Joined
<1>11. ASSUME NEW i \in 1..n + 64 PROVE fed'[i] = p[i]
  <2>0. n \in Nat
    BY <1>2 DEF n
  <2>1. CASE i <= n
    <3>1. i \in 1..n /\ i \in 1..n + 56
      BY <2>0, <2>1
    <3> QED
      BY <1>5, <1>9, <1>10, <3>1
  <2>2. CASE i > n
    <3>1. i - n \in 1..64 /\ i = n + (i - n)
      BY <2>0, <2>2
    <3>2. PICK k \in 1..64 : i = n + k
      BY <3>1
    <3> QED
      BY <1>6, <1>10, <3>2
  <2> QED
    BY <2>0, <2>1, <2>2
<1>12. fed' = p
  BY <1>5, <1>10, <1>11, SeqEqual
<1> QED
  BY <1>1, <1>2, <1>4, <1>12, HashKeeps DEF ShaInv, p

\* The compression function leaves the message alone.
LEMMA TransformStep == ShaInv /\ (ScheduleWord \/ Round) /\ UNCHANGED image => ShaInv'
<1> SUFFICES ASSUME ShaInv, ScheduleWord \/ Round, UNCHANGED image PROVE ShaInv'
  OBVIOUS
<1>1. sha256 /\ UNCHANGED <<fed, sha_blk, block, after>>
  BY DEF sha256, ScheduleWord, Round
<1>2. pc \in {"schedule", "round"} /\ (pc' \in {"schedule", "round"} \/ pc' = after)
  BY DEF ScheduleWord, Round
<1>3. ShaAt' = ShaAt
  BY <1>1, <1>2 DEF ShaAt
<1>4. /\ UNCHANGED <<input, len, LastStart, Padded(input)>> /\ \A n \in Int : MsgByte(n)' = MsgByte(n)
      /\ len \in Nat /\ sha_blk \in Nat /\ input \in Seq(Nat) /\ LastStart \in Nat
  BY <1>1, HashKeeps, LastStartIs
<1>5. \A n \in Nat : FedUpTo(n) => FedUpTo(n)'
  BY <1>1, <1>4 DEF FedUpTo
<1>6. \A n \in Nat : BlockFollows(n) => BlockFollows(n)'
  BY <1>1, <1>4, BlockKept
<1>7. 64 * sha_blk \in Nat /\ 64 * (len \div 64) \in Nat
  BY <1>4
<1>8. /\ FedUpTo(64 * sha_blk) => FedUpTo(64 * sha_blk)'
      /\ FedUpTo(64 * (len \div 64)) => FedUpTo(64 * (len \div 64))'
      /\ FedUpTo(LastStart) => FedUpTo(LastStart)'
  BY <1>1, <1>4, <1>5, <1>7 DEF FedUpTo
<1>9. /\ BlockFollows(64 * (len \div 64)) => BlockFollows(64 * (len \div 64))'
      /\ BlockFollows(LastStart) => BlockFollows(LastStart)'
  BY <1>1, <1>4, <1>6, <1>7 DEF BlockFollows
<1> QED
  BY <1>1, <1>3, <1>4, <1>8, <1>9, HashKeeps DEF ShaInv

\* The digest is out: a new line.
LEMMA print_digestStep == ShaInv /\ print_digest /\ UNCHANGED image => ShaInv'
<1> SUFFICES ASSUME ShaInv, print_digest, UNCHANGED image PROVE ShaInv'
  OBVIOUS
<1>1. input' = << >> /\ sha_screen' = << >> /\ fed' = << >> /\ sha_blk' = 0 /\ pc' = "key"
  BY DEF print_digest
<1>2. input' \in Seq(Nat) /\ len' = 0 /\ 0 < INPUT_MAX
  BY <1>1, EmptySeq, ShaAssumption DEF len
<1>3. ShaAt' = "key"
  BY <1>1 DEF ShaAt
<1> QED
  BY <1>1, <1>2, <1>3 DEF ShaInv

\* Every step of the SHA-256 monitor keeps the invariant.
LEMMA ShaInvNext == ShaInv /\ [ShaNext]_<<image, pc, shaVars>> => ShaInv'
<1> SUFFICES ASSUME ShaInv, [ShaNext]_<<image, pc, shaVars>> PROVE ShaInv'
  OBVIOUS
<1>1. CASE UNCHANGED <<image, pc, shaVars>>
  <2>1. UNCHANGED <<image, pc, input, sha_screen, fed, sha_blk, block, after>>
    BY <1>1 DEF shaVars, hashVars
  <2>2. UNCHANGED <<ShaAt, len, LastStart, Padded(input)>>
    BY <2>1 DEF ShaAt, LastStart, NoRoom, len, Padded
  <2>3. ASSUME NEW k PROVE MsgByte(k)' = MsgByte(k)
    BY <2>1 DEF MsgByte, len
  <2>4. /\ FedUpTo(64 * sha_blk) => FedUpTo(64 * sha_blk)'
        /\ FedUpTo(64 * (len \div 64)) => FedUpTo(64 * (len \div 64))'
        /\ FedUpTo(LastStart) => FedUpTo(LastStart)'
    BY <2>1, <2>2, <2>3 DEF FedUpTo
  <2>5. /\ BlockFollows(64 * (len \div 64)) => BlockFollows(64 * (len \div 64))'
        /\ BlockFollows(LastStart) => BlockFollows(LastStart)'
    BY <2>1, <2>2, <2>3, Zenon DEF BlockFollows
  <2> QED
    BY <2>1, <2>2, <2>4, <2>5 DEF ShaInv
<1>2. CASE ShaNext
  BY <1>2, EditStep, FullBlocksStep, PadBlockStep, LengthBlockStep, TransformStep, print_digestStep
     DEF ShaNext, Linked, sha256
<1> QED
  BY <1>1, <1>2

\* For every size of the buffer and every text that can be typed, erased and
\* retyped: what is compressed for a line is that line padded by the standard,
\* wherever its end falls in a block, and the line is what the terminal shows.
THEOREM PaddingIsStandard == ShaSpec => []PaddingExact
<1>1. image = "sha256" /\ Boot /\ ShaInit => ShaInv
  BY ShaInvInit
<1>2. ShaInv /\ [ShaNext]_<<image, pc, shaVars>> => ShaInv'
  BY ShaInvNext
<1>3. ShaInv => PaddingExact
  BY DEF ShaInv, ShaAt, PaddingExact
<1> QED
  BY <1>1, <1>2, <1>3, PTL DEF ShaSpec

-----------------------------------------------------------------------------
(***************************************************************************)
(* The C library.                                                          *)
(*                                                                         *)
(* The test of a word for a zero byte is exact: the borrow of a lower byte *)
(* can only set the bit of a byte that is 1 when some lower byte is 0.     *)
(* The invariant says how many bytes of the call under way are done        *)
(* (CopyInv), and that every block ends below the part of the heap still   *)
(* free (HeapInv).                                                         *)
(***************************************************************************)
\* The contents of memory, and memory with n bytes at d set to x.
Memories == [0..RAM-1 -> 0..BYTE-1]
Filled(m, d, n, x) == [a \in 0..RAM-1 |-> IF a \in d..d+n-1 THEN x ELSE m[a]]

\* The sizes of the library.
LEMMA LibSizes ==
  /\ RAM \in Nat /\ RAM > 0 /\ RAM % 4 = 0 /\ BYTE \in Nat /\ BYTE > 0
  /\ BYTE = 2 * (BYTE \div 2) /\ BYTE \div 2 \in Nat /\ BYTE \div 2 > 0
  /\ HEAP_BYTES \in Nat /\ HEAP_BYTES % 4 = 0
<1>1. RAM \in Nat /\ RAM > 0 /\ BYTE \in Nat /\ BYTE > 0 /\ HEAP_BYTES \in Nat
      /\ RAM % 4 = 0 /\ BYTE % 2 = 0 /\ HEAP_BYTES % 4 = 0
  BY CLibAssumption
<1> QED
  BY <1>1

\* The borrows of the subtraction of 0x01010101.
Borrow(w, k) ==
  IF k = 0 THEN FALSE
  ELSE IF k = 1 THEN w[0] = 0
  ELSE IF k = 2 THEN w[1] = 0 \/ (w[1] = 1 /\ w[0] = 0)
  ELSE IF k = 3 THEN w[2] = 0 \/ (w[2] = 1 /\ (w[1] = 0 \/ (w[1] = 1 /\ w[0] = 0)))
  ELSE w[3] = 0 \/ (w[3] = 1 /\ (w[2] = 0 \/ (w[2] = 1 /\ (w[1] = 0 \/ (w[1] = 1 /\ w[0] = 0)))))

\* What a borrow takes from a byte.
Taken1(w, k) == IF Borrow(w, k) THEN 1 ELSE 0

\* The test of one byte of the word.
ZeroHit(w, k) ==
  /\ (w[k] - 1 - Taken1(w, k)) % BYTE >= BYTE \div 2
  /\ w[k] < BYTE \div 2

\* HAS_ZERO_BYTE tests each byte with its borrow.
LEMMA HasZeroIs ==
  ASSUME NEW w \in [0..3 -> 0..BYTE-1]
  PROVE  HAS_ZERO_BYTE(w) <=> \E k \in 0..3 : ZeroHit(w, k)
<1> DEFINE P(g) == g = [k \in 0..4 |-> k > 0 /\ w[k-1] < 1 + (IF g[k-1] THEN 1 ELSE 0)]
           f == [k \in 0..4 |-> Borrow(w, k)]
           h == CHOOSE g : P(g)
<1>0. w[0] \in Nat /\ w[1] \in Nat /\ w[2] \in Nat /\ w[3] \in Nat
  BY LibSizes
<1>1. /\ ~Borrow(w, 0) /\ (Borrow(w, 1) <=> w[0] < 1 + 0)
      /\ Borrow(w, 2) <=> w[1] < 1 + (IF Borrow(w, 1) THEN 1 ELSE 0)
      /\ Borrow(w, 3) <=> w[2] < 1 + (IF Borrow(w, 2) THEN 1 ELSE 0)
      /\ Borrow(w, 4) <=> w[3] < 1 + (IF Borrow(w, 3) THEN 1 ELSE 0)
  BY <1>0 DEF Borrow
<1>2. ASSUME NEW k \in 0..4
      PROVE  Borrow(w, k) <=> (k > 0 /\ w[k-1] < 1 + (IF Borrow(w, k-1) THEN 1 ELSE 0))
  <2>1. k = 0 \/ k = 1 \/ k = 2 \/ k = 3 \/ k = 4
    OBVIOUS
  <2> QED
    BY <1>1, <2>1
<1>3. f \in [0..4 -> BOOLEAN] /\ \A k \in 0..4 : f[k] <=> Borrow(w, k)
  BY DEF Borrow
<1> HIDE DEF f
<1>4. P(f)
  <2>1. ASSUME NEW k \in 0..4
        PROVE  f[k] = (k > 0 /\ w[k-1] < 1 + (IF f[k-1] THEN 1 ELSE 0))
    <3>1. CASE k = 0
      BY <1>2, <1>3, <3>1
    <3>2. CASE k > 0
      <4>1. k - 1 \in 0..4
        BY <3>2
      <4> QED
        BY <1>2, <1>3, <3>2, <4>1
    <3> QED
      BY <3>1, <3>2
  <2> QED
    BY <1>3, <2>1
<1>5. P(h)
  BY <1>4
<1>6. HAS_ZERO_BYTE(w) <=> \E k \in 0..3 :
        /\ (w[k] - 1 - (IF h[k] THEN 1 ELSE 0)) % BYTE >= BYTE \div 2
        /\ w[k] < BYTE \div 2
  BY DEF HAS_ZERO_BYTE
<1> HIDE DEF h
<1>7. ASSUME NEW k \in 0..4
      PROVE  h[k] = (k > 0 /\ w[k-1] < 1 + (IF h[k-1] THEN 1 ELSE 0))
  BY <1>5
<1>8. /\ h[0] <=> Borrow(w, 0)
      /\ h[1] <=> Borrow(w, 1)
      /\ h[2] <=> Borrow(w, 2)
      /\ h[3] <=> Borrow(w, 3)
  <2>0. /\ 1 - 1 = 0 /\ 2 - 1 = 1 /\ 3 - 1 = 2 /\ 1 > 0 /\ 2 > 0 /\ 3 > 0 /\ ~(0 > 0)
        /\ 0 \in 0..4 /\ 1 \in 0..4 /\ 2 \in 0..4 /\ 3 \in 0..4
    OBVIOUS
  <2>1. ~h[0]
    BY <1>7, <2>0
  <2>2. h[1] <=> w[0] < 1 + (IF h[0] THEN 1 ELSE 0)
    <3>1. h[1] = (1 > 0 /\ w[1-1] < 1 + (IF h[1-1] THEN 1 ELSE 0))
      BY <1>7, <2>0
    <3> QED
      BY <2>0, <3>1
  <2>3. h[2] <=> w[1] < 1 + (IF h[1] THEN 1 ELSE 0)
    <3>1. h[2] = (2 > 0 /\ w[2-1] < 1 + (IF h[2-1] THEN 1 ELSE 0))
      BY <1>7, <2>0
    <3> QED
      BY <2>0, <3>1
  <2>4. h[3] <=> w[2] < 1 + (IF h[2] THEN 1 ELSE 0)
    <3>1. h[3] = (3 > 0 /\ w[3-1] < 1 + (IF h[3-1] THEN 1 ELSE 0))
      BY <1>7, <2>0
    <3> QED
      BY <2>0, <3>1
  <2>5. h[1] <=> Borrow(w, 1)
    BY <1>1, <2>1, <2>2
  <2>6. h[2] <=> Borrow(w, 2)
    BY <1>1, <2>3, <2>5
  <2>7. h[3] <=> Borrow(w, 3)
    BY <1>1, <2>4, <2>6
  <2> QED
    BY <1>1, <2>1, <2>5, <2>6, <2>7
<1>9. ASSUME NEW k \in 0..3 PROVE (IF h[k] THEN 1 ELSE 0) = Taken1(w, k)
  <2>1. k = 0 \/ k = 1 \/ k = 2 \/ k = 3
    OBVIOUS
  <2> QED
    BY <1>8, <2>1 DEF Taken1
<1> QED
  BY <1>6, <1>9 DEF ZeroHit

\* A byte hits exactly when it is zero, or its borrow came to a one.
LEMMA HitIs ==
  ASSUME NEW x \in 0..BYTE-1, NEW b1 \in {0, 1}
  PROVE  /\ ((x - 1 - b1) % BYTE >= BYTE \div 2 /\ x < BYTE \div 2) => x = 0 \/ b1 = 1
         /\ x = 0 /\ b1 = 0 => (x - 1 - b1) % BYTE >= BYTE \div 2 /\ x < BYTE \div 2
<1>1. PICK hb \in Nat : hb = BYTE \div 2 /\ BYTE = 2 * hb /\ hb > 0
  BY LibSizes
<1>2. CASE x > 0 /\ b1 = 0
  <2>1. x - 1 - b1 \in Nat /\ x - 1 - b1 < BYTE /\ BYTE \in Nat
    BY <1>1, <1>2, LibSizes
  <2>2. (x - 1 - b1) % BYTE = x - 1 - b1
    BY <2>1, Z3
  <2> QED
    BY <1>1, <1>2, <2>2
<1>3. CASE x = 0 /\ b1 = 0
  <2>1. x - 1 - b1 = -1
    BY <1>3
  <2>2. (-1) % BYTE = BYTE - 1
    BY LibSizes, Z3
  <2> QED
    BY <1>1, <1>3, <2>1, <2>2
<1> QED
  BY <1>2, <1>3, LibSizes

\* The trick of strcpy is exact: it finds a zero byte if and only if there is one.
LEMMA HasZeroExact ==
  ASSUME NEW w \in [0..3 -> 0..BYTE-1]
  PROVE  HAS_ZERO_BYTE(w) <=> \E k \in 0..3 : w[k] = 0
<1>0. w[0] \in Nat /\ w[1] \in Nat /\ w[2] \in Nat /\ w[3] \in Nat
  BY LibSizes
<1>1. \A k \in 0..3 : w[k] \in 0..BYTE-1 /\ Taken1(w, k) \in {0, 1}
  BY DEF Taken1
<1>2. ASSUME NEW k \in 0..3, ZeroHit(w, k) PROVE \E j \in 0..3 : w[j] = 0
  <2>1. w[k] = 0 \/ Taken1(w, k) = 1
    BY <1>1, <1>2, HitIs DEF ZeroHit
  <2>2. Taken1(w, k) = 1 => w[0] = 0 \/ w[1] = 0 \/ w[2] = 0 \/ w[3] = 0
    BY DEF Taken1, Borrow
  <2> QED
    BY <2>1, <2>2
<1>3. ASSUME NEW k \in 0..3, w[k] = 0, \A j \in 0..k-1 : w[j] # 0 PROVE ZeroHit(w, k)
  <2>1. ~Borrow(w, k)
    <3>1. k = 0 \/ k = 1 \/ k = 2 \/ k = 3
      OBVIOUS
    <3>2. CASE k = 0
      BY <3>2 DEF Borrow
    <3>3. CASE k = 1
      BY <1>3, <3>3 DEF Borrow
    <3>4. CASE k = 2
      BY <1>3, <3>4 DEF Borrow
    <3>5. CASE k = 3
      BY <1>3, <3>5 DEF Borrow
    <3> QED
      BY <3>1, <3>2, <3>3, <3>4, <3>5
  <2>2. Taken1(w, k) = 0
    BY <2>1 DEF Taken1
  <2> QED
    BY <1>1, <1>3, <2>2, HitIs DEF ZeroHit
<1>4. ASSUME NEW k \in 0..3, w[k] = 0 PROVE \E j \in 0..3 : ZeroHit(w, j)
  <2>1. k = 0 \/ k = 1 \/ k = 2 \/ k = 3
    OBVIOUS
  <2>2. CASE w[0] = 0
    BY <1>3, <2>2
  <2>3. CASE w[0] # 0 /\ w[1] = 0
    <3>1. \A j \in 0..1-1 : w[j] # 0
      BY <2>3
    <3> QED
      BY <1>3, <2>3, <3>1
  <2>4. CASE w[0] # 0 /\ w[1] # 0 /\ w[2] = 0
    <3>1. \A j \in 0..2-1 : j = 0 \/ j = 1
      OBVIOUS
    <3>2. \A j \in 0..2-1 : w[j] # 0
      BY <2>4, <3>1
    <3> QED
      BY <1>3, <2>4, <3>2
  <2>5. CASE w[0] # 0 /\ w[1] # 0 /\ w[2] # 0 /\ w[3] = 0
    <3>1. \A j \in 0..3-1 : j = 0 \/ j = 1 \/ j = 2
      OBVIOUS
    <3>2. \A j \in 0..3-1 : w[j] # 0
      BY <2>5, <3>1
    <3> QED
      BY <1>3, <2>5, <3>2
  <2> QED
    BY <1>4, <2>1, <2>2, <2>3, <2>4, <2>5
<1> QED
  BY <1>2, <1>4, HasZeroIs

\* The length of a string is the place of its terminator.
LEMMA StrLenIs ==
  ASSUME NEW m, NEW a \in Nat, NEW n \in 0..RAM-1, IsString(m, a, n)
  PROVE  StrLen(m, a) = n
<1>1. StrLen(m, a) \in 0..RAM-1 /\ IsString(m, a, StrLen(m, a))
  BY DEF StrLen
<1> DEFINE j == StrLen(m, a)
<1> HIDE DEF j
<1>2. j \in 0..RAM-1 /\ IsString(m, a, j)
  BY <1>1 DEF j
<1>3. j \in Nat /\ n \in Nat
  BY <1>2, LibSizes
<1>4. ~(j < n)
  <2>1. j < n => j \in 0..n-1
    BY <1>3
  <2> QED
    BY <1>2, <2>1 DEF IsString
<1>5. ~(n < j)
  <2>1. n < j => n \in 0..j-1
    BY <1>3
  <2> QED
    BY <1>2, <2>1 DEF IsString
<1> QED
  BY <1>3, <1>4, <1>5 DEF j

\* The n bytes at s are the same in both memories.
SameAt(r, m, s, n) == \A i \in 0..n-1 : r[s + i] = m[s + i]

\* Copied keeps a memory a memory and leaves the source alone.
LEMMA CopiedFacts ==
  ASSUME NEW m \in Memories, NEW d \in Nat, NEW s \in Nat, NEW n \in Nat, Apart(d, s, n),
         NEW k \in Nat, k <= n
  PROVE  Copied(m, d, s, k) \in Memories /\ SameAt(Copied(m, d, s, k), m, s, n)
<1>0. RAM \in Nat /\ d + n <= RAM /\ s + n <= RAM /\ (d + n <= s \/ s + n <= d)
  BY LibSizes DEF Apart
<1>1. ASSUME NEW a \in 0..RAM-1
      PROVE  (IF a \in d..d+k-1 THEN m[s + a - d] ELSE m[a]) \in 0..BYTE-1
  <2>1. a \in d..d+k-1 => s + a - d \in 0..RAM-1
    BY <1>0
  <2> QED
    BY <2>1 DEF Memories
<1>2. Copied(m, d, s, k) \in Memories
  BY <1>1 DEF Copied, Memories
<1>3. ASSUME NEW i \in 0..n-1 PROVE Copied(m, d, s, k)[s + i] = m[s + i]
  <2>1. s + i \in 0..RAM-1 /\ s + i \notin d..d+k-1
    BY <1>0
  <2> QED
    BY <2>1 DEF Copied
<1> QED
  BY <1>2, <1>3 DEF SameAt

\* One byte more.
LEMMA CopyOne ==
  ASSUME NEW m \in Memories, NEW d \in Nat, NEW s \in Nat, NEW n \in Nat, Apart(d, s, n),
         NEW k \in 0..n-1, NEW r, r = Copied(m, d, s, k)
  PROVE  r[s + k] = m[s + k] /\ [r EXCEPT ![d + k] = r[s + k]] = Copied(m, d, s, k + 1)
<1>0. RAM \in Nat /\ d + n <= RAM /\ k \in Nat /\ k <= n
  BY LibSizes DEF Apart
<1>1. r \in Memories /\ r[s + k] = m[s + k]
  <2>1. Copied(m, d, s, k) \in Memories /\ SameAt(Copied(m, d, s, k), m, s, n)
    BY <1>0, CopiedFacts
  <2> QED
    BY <2>1 DEF SameAt
<1>2. DOMAIN r = 0..RAM-1 /\ d + k \in 0..RAM-1
  BY <1>0, <1>1 DEF Memories
<1> DEFINE p == [r EXCEPT ![d + k] = r[s + k]]  q == Copied(m, d, s, k + 1)
<1>3. ASSUME NEW a \in 0..RAM-1 PROVE p[a] = q[a]
  <2>1. CASE a = d + k
    <3>1. p[a] = m[s + k]
      BY <1>1, <1>2, <2>1
    <3>2. a \in d..d+(k+1)-1 /\ s + a - d = s + k
      BY <1>0, <2>1
    <3>3. q[a] = m[s + a - d]
      BY <3>2 DEF Copied
    <3> QED
      BY <3>1, <3>2, <3>3
  <2>2. CASE a # d + k
    <3>1. p[a] = r[a]
      BY <1>2, <2>2
    <3>2. a \in d..d+(k+1)-1 <=> a \in d..d+k-1
      BY <1>0, <2>2
    <3> QED
      BY <3>1, <3>2 DEF Copied
  <2> QED
    BY <2>1, <2>2
<1>4. q = [a \in 0..RAM-1 |-> q[a]]
  BY DEF Copied
<1>6. p = [a \in 0..RAM-1 |-> p[a]]
  <2>1. p \in [0..RAM-1 -> 0..BYTE-1]
    <3>1. r \in [0..RAM-1 -> 0..BYTE-1] /\ r[s + k] \in 0..BYTE-1
      <4>1. s + k \in 0..RAM-1 
        BY <1>0 DEF Apart
      <4> QED
        BY <1>1, <4>1 DEF Memories
    <3> QED
      BY <3>1
  <2> HIDE DEF p
  <2> QED
    BY <2>1
<1> HIDE DEF p, q
<1>5. p = q
  BY <1>3, <1>4, <1>6
<1> QED
  BY <1>1, <1>5 DEF p, q

\* Memory with the word at s copied to d.
WordCopied(r, d, s) == [a \in 0..RAM-1 |-> IF a \in d..d+3 THEN r[s + a - d] ELSE r[a]]

\* One word more.
LEMMA CopyWord ==
  ASSUME NEW m \in Memories, NEW d \in Nat, NEW s \in Nat, NEW n \in Nat, Apart(d, s, n),
         NEW k \in Nat, k + 4 <= n, NEW r, r = Copied(m, d, s, k)
  PROVE  WordCopied(r, d + k, s + k) = Copied(m, d, s, k + 4)
<1>0. RAM \in Nat /\ d + n <= RAM /\ k <= n
  BY LibSizes DEF Apart
<1>1. r \in Memories /\ \A i \in 0..n-1 : r[s + i] = m[s + i]
  <2>1. Copied(m, d, s, k) \in Memories /\ SameAt(Copied(m, d, s, k), m, s, n)
    BY <1>0, CopiedFacts
  <2> QED
    BY <2>1 DEF SameAt
<1>2. ASSUME NEW a \in 0..RAM-1
      PROVE  (IF a \in d+k..d+k+3 THEN r[s + k + a - (d + k)] ELSE r[a])
               = (IF a \in d..d+(k+4)-1 THEN m[s + a - d] ELSE m[a])
  <2>1. CASE a \in d+k..d+k+3
    <3>1. /\ a \in d..d+(k+4)-1 /\ a - d \in 0..n-1 /\ s + a - d = s + (a - d)
          /\ s + k + a - (d + k) = s + (a - d)
      BY <1>0, <2>1
    <3> QED
      BY <1>1, <2>1, <3>1
  <2>2. CASE a \notin d+k..d+k+3
    <3>1. a \in d..d+(k+4)-1 <=> a \in d..d+k-1
      BY <1>0, <2>2
    <3> QED
      BY <2>2, <3>1 DEF Copied
  <2> QED
    BY <2>1, <2>2
<1> QED
  BY <1>2 DEF Copied, WordCopied

\* One byte more of a block of equal ones.
LEMMA FillOne ==
  ASSUME NEW m \in Memories, NEW d \in Nat, NEW k \in Nat, d + k < RAM, NEW x,
         NEW r, r = Filled(m, d, k, x)
  PROVE  [r EXCEPT ![d + k] = x] = Filled(m, d, k + 1, x)
<1>0. RAM \in Nat /\ d + k \in 0..RAM-1
  BY LibSizes
<1> DEFINE p == [r EXCEPT ![d + k] = x]  q == Filled(m, d, k + 1, x)
<1>2. DOMAIN r = 0..RAM-1
  BY DEF Filled
<1>3. ASSUME NEW a \in 0..RAM-1 PROVE p[a] = q[a]
  <2>1. CASE a = d + k
    <3>1. p[a] = x
      BY <1>0, <1>2, <2>1
    <3>2. a \in d..d+(k+1)-1
      BY <1>0, <2>1
    <3> QED
      BY <3>1, <3>2 DEF Filled
  <2>2. CASE a # d + k
    <3>1. p[a] = r[a]
      BY <1>2, <2>2
    <3>2. a \in d..d+(k+1)-1 <=> a \in d..d+k-1
      BY <1>0, <2>2
    <3> QED
      BY <3>1, <3>2 DEF Filled
  <2> QED
    BY <2>1, <2>2
<1>4. p = [a \in 0..RAM-1 |-> p[a]] /\ q = [a \in 0..RAM-1 |-> q[a]]
  BY <1>2 DEF Filled
<1> HIDE DEF p, q
<1>5. p = q
  BY <1>3, <1>4
<1> QED
  BY <1>5 DEF p, q

\* Nothing copied, nothing filled.
LEMMA CopiedNone ==
  ASSUME NEW m \in Memories, NEW d \in Nat, NEW s \in Nat, NEW x
  PROVE  Copied(m, d, s, 0) = m /\ Filled(m, d, 0, x) = m
<1>1. \A a \in 0..RAM-1 : a \notin d..d+0-1
  BY LibSizes
<1>2. m = [a \in 0..RAM-1 |-> m[a]]
  BY DEF Memories
<1> QED
  BY <1>1, <1>2 DEF Copied, Filled

(***************************************************************************)
(* The invariant: how far the call under way has come.                     *)
(***************************************************************************)
\* The length of the string a strcpy copies.
SrcLen == StrLen(call.ram, call.src)

\* k bytes of the string are copied, and k bytes of a block copied or filled.
StringCopied(k) ==
  /\ k \in Nat /\ k <= SrcLen /\ dst = call.dst + k /\ src = call.src + k
  /\ ram = Copied(call.ram, call.dst, call.src, k)
BlockCopied(k) ==
  /\ k \in Nat /\ k <= call.n /\ dst = call.dst + k /\ src = call.src + k /\ left = call.n - k
  /\ ram = Copied(call.ram, call.dst, call.src, k)
BlockFilled(k) ==
  /\ k \in Nat /\ k <= call.n /\ dst = call.dst + k /\ left = call.n - k
  /\ ram = Filled(call.ram, call.dst, k, call.c)

\* What the call under way leaves in memory when it returns.
Finished ==
  /\ call.f = "strcpy" => ram = Copied(call.ram, call.dst, call.src, SrcLen + 1)
  /\ call.f = "memcpy" => ram = Copied(call.ram, call.dst, call.src, call.n)
  /\ call.f = "memset" => ram = Filled(call.ram, call.dst, call.n, call.c)

\* Where each function is while it runs.
InStrcpy == call \in Calls /\ call.f = "strcpy" /\ \E k \in Nat : StringCopied(k)
InMemcpy == call \in Calls /\ call.f = "memcpy" /\ \E k \in Nat : BlockCopied(k)
InMemset == call \in Calls /\ call.f = "memset" /\ \E k \in Nat : BlockFilled(k)
InMalloc == call \in Calls /\ call.f = "malloc"
InPrintf == call \in Calls /\ call.f = "printf"

StrcpyStates == {"strcpy", "align", "words", "bytes"}
PrintfStates == {"printf", "width", "l", "digits", "pad", "emit"}

CopyInv ==
  /\ ~unaligned
  /\ pc \in StrcpyStates => InStrcpy
  /\ pc = "align" => dst % 4 = src % 4
  /\ pc = "words" => dst % 4 = 0 /\ src % 4 = 0
  /\ pc = "memcpy" => InMemcpy
  /\ pc = "memset" => InMemset
  /\ pc = "malloc" => InMalloc
  /\ pc \in PrintfStates => InPrintf
  /\ pc = "returned" => Finished

HeapInv ==
  /\ heap_used \in Nat /\ heap_used % 4 = 0 /\ heap_used <= HEAP_BYTES
  /\ blocks \in Seq([at : Nat, size : Nat])
  /\ BlocksDisjoint
  /\ \A k \in DOMAIN blocks : blocks[k].at + blocks[k].size <= heap_used

\* What a legal strcpy is given.
LEMMA LegalStrcpy ==
  ASSUME NEW c \in Calls, c.f = "strcpy"
  PROVE  /\ c.ram \in Memories /\ c.dst \in Nat /\ c.src \in Nat
         /\ {"ram", "dst", "src"} \subseteq DOMAIN c
         /\ StrLen(c.ram, c.src) \in 0..RAM-1
         /\ IsString(c.ram, c.src, StrLen(c.ram, c.src))
         /\ Apart(c.dst, c.src, StrLen(c.ram, c.src) + 1)
<1>1. Legal(c)
  BY CallsLegal
<1>2. c.ram \in Memories /\ c.dst \in Nat /\ c.src \in Nat /\ {"ram", "dst", "src"} \subseteq DOMAIN c
  BY <1>1 DEF Legal, Memories
<1>3. PICK n \in 0..RAM-1 : IsString(c.ram, c.src, n) /\ Apart(c.dst, c.src, n + 1)
  BY <1>1 DEF Legal
<1>4. StrLen(c.ram, c.src) = n
  BY <1>2, <1>3, StrLenIs
<1> QED
  BY <1>2, <1>3, <1>4

\* What a legal memcpy and a legal memset are given.
LEMMA LegalMem ==
  ASSUME NEW c \in Calls, c.f \in {"memcpy", "memset"}
  PROVE  /\ c.ram \in Memories /\ c.dst \in Nat /\ c.n \in Nat
         /\ {"ram", "dst", "n"} \subseteq DOMAIN c
         /\ c.f = "memcpy" => "src" \in DOMAIN c /\ c.src \in Nat /\ Apart(c.dst, c.src, c.n)
         /\ c.f = "memset" => c.dst + c.n <= RAM
<1>1. Legal(c)
  BY CallsLegal
<1> QED
  BY <1>1 DEF Legal, Memories

\* The initial states.
LEMMA LibInvInit == Boot /\ LibInit => CopyInv /\ HeapInv
<1> SUFFICES ASSUME Boot, LibInit PROVE CopyInv /\ HeapInv
  OBVIOUS
<1>1. CopyInv
  BY DEF Boot, LibInit, CopyInv, StrcpyStates, PrintfStates
<1>2. DOMAIN blocks = {}
  BY DEF LibInit
<1> QED
  BY <1>1, <1>2, LibSizes DEF LibInit, HeapInv, BlocksDisjoint

(***************************************************************************)
(* The steps.                                                              *)
(***************************************************************************)
\* A call is made.
LEMMA CallStep == CopyInv /\ HeapInv /\ Call => CopyInv' /\ HeapInv'
<1> SUFFICES ASSUME CopyInv, HeapInv, Call PROVE CopyInv' /\ HeapInv'
  OBVIOUS
<1>0. UNCHANGED <<heap_used, blocks, unaligned>>
  BY DEF Call, heapVars
<1>1. PICK c \in Calls :
        /\ call' = c /\ pc' = c.f
        /\ ram' = IF "ram" \in DOMAIN c THEN c.ram ELSE ram
        /\ dst' = IF "dst" \in DOMAIN c THEN c.dst ELSE 0
        /\ src' = IF "src" \in DOMAIN c THEN c.src ELSE 0
        /\ left' = IF "n" \in DOMAIN c THEN c.n ELSE 0
  BY DEF Call
<1>2. HeapInv'
  BY <1>0 DEF HeapInv, BlocksDisjoint
<1>3. c.f \in {"strcpy", "memcpy", "memset", "malloc", "printf"}
  BY CallsLegal DEF Legal
<1>4. ASSUME c.f = "strcpy" PROVE StringCopied(0)'
  <2>1. /\ c.ram \in Memories /\ c.dst \in Nat /\ c.src \in Nat
        /\ {"ram", "dst", "src"} \subseteq DOMAIN c /\ StrLen(c.ram, c.src) \in 0..RAM-1
    BY <1>4, LegalStrcpy
  <2>2. ram' = c.ram /\ dst' = c.dst /\ src' = c.src
    BY <1>1, <2>1
  <2>3. Copied(c.ram, c.dst, c.src, 0) = c.ram
    BY <2>1, CopiedNone
  <2> QED
    BY <1>1, <2>1, <2>2, <2>3 DEF StringCopied, SrcLen
<1>5. ASSUME c.f = "memcpy" PROVE BlockCopied(0)'
  <2>1. /\ c.ram \in Memories /\ c.dst \in Nat /\ c.src \in Nat /\ c.n \in Nat
        /\ {"ram", "dst", "src", "n"} \subseteq DOMAIN c
    BY <1>5, LegalMem
  <2>2. ram' = c.ram /\ dst' = c.dst /\ src' = c.src /\ left' = c.n
    BY <1>1, <2>1
  <2>3. Copied(c.ram, c.dst, c.src, 0) = c.ram
    BY <2>1, CopiedNone
  <2> QED
    BY <1>1, <2>1, <2>2, <2>3 DEF BlockCopied
<1>6. ASSUME c.f = "memset" PROVE BlockFilled(0)'
  <2>1. /\ c.ram \in Memories /\ c.dst \in Nat /\ c.n \in Nat
        /\ {"ram", "dst", "n"} \subseteq DOMAIN c
    BY <1>6, LegalMem
  <2>2. ram' = c.ram /\ dst' = c.dst /\ left' = c.n
    BY <1>1, <2>1
  <2>3. Filled(c.ram, c.dst, 0, c.c) = c.ram
    BY <2>1, CopiedNone
  <2> QED
    BY <1>1, <2>1, <2>2, <2>3 DEF BlockFilled
<1>7. /\ c.f = "strcpy" => InStrcpy'
      /\ c.f = "memcpy" => InMemcpy'
      /\ c.f = "memset" => InMemset'
  BY <1>1, <1>4, <1>5, <1>6 DEF InStrcpy, InMemcpy, InMemset
<1>8. (c.f = "malloc" => InMalloc') /\ (c.f = "printf" => InPrintf')
  BY <1>1 DEF InMalloc, InPrintf
<1>9. ~unaligned'
  BY <1>0 DEF CopyInv
<1>10. pc' = c.f
  BY <1>1
<1> QED
  BY <1>2, <1>3, <1>7, <1>8, <1>9, <1>10 DEF CopyInv, StrcpyStates, PrintfStates

\* A call has returned.
LEMMA ReturnStep == CopyInv /\ HeapInv /\ ReturnFrom => CopyInv' /\ HeapInv'
<1> SUFFICES ASSUME CopyInv, HeapInv, ReturnFrom PROVE CopyInv' /\ HeapInv'
  OBVIOUS
<1>1. UNCHANGED <<heap_used, blocks, unaligned>> /\ pc' = "caller"
  BY DEF ReturnFrom, heapVars
<1>2. HeapInv'
  BY <1>1 DEF HeapInv, BlocksDisjoint
<1> QED
  BY <1>1, <1>2 DEF CopyInv, StrcpyStates, PrintfStates

\* strcpy chooses between words and bytes.
LEMMA strcpyStep == CopyInv /\ strcpy => CopyInv'
<1> SUFFICES ASSUME CopyInv, strcpy PROVE CopyInv'
  OBVIOUS
<1>1. UNCHANGED <<call, ram, dst, src, unaligned>>
  BY DEF strcpy, memVars
<1>2. InStrcpy'
  <2>1. InStrcpy
    BY DEF CopyInv, strcpy, StrcpyStates
  <2> QED
    BY <1>1, <2>1 DEF InStrcpy, StringCopied, SrcLen
<1>3. pc' \in {"align", "bytes"} /\ (pc' = "align" => dst' % 4 = src' % 4)
  BY <1>1 DEF strcpy
<1>4. ~unaligned'
  BY <1>1 DEF CopyInv
<1> QED
  BY <1>2, <1>3, <1>4 DEF CopyInv, StrcpyStates, PrintfStates

\* One byte of a string: the terminator is the last one copied.
LEMMA StringByte ==
  ASSUME call \in Calls, call.f = "strcpy", NEW k \in Nat, StringCopied(k), CopyByte, call' = call
  PROVE  /\ ram[src] = 0 => Finished'
         /\ ram[src] # 0 => StringCopied(k + 1)'
<1> DEFINE c == call
           n == StrLen(c.ram, c.src)
<1>1. /\ c.ram \in Memories /\ c.dst \in Nat /\ c.src \in Nat
      /\ n \in 0..RAM-1 /\ IsString(c.ram, c.src, n) /\ Apart(c.dst, c.src, n + 1)
  BY LegalStrcpy
<1>2. k <= n /\ dst = c.dst + k /\ src = c.src + k /\ ram = Copied(c.ram, c.dst, c.src, k)
  BY DEF StringCopied, SrcLen
<1>3. ram' = [ram EXCEPT ![c.dst + k] = ram[c.src + k]] /\ dst' = dst + 1 /\ src' = src + 1
  BY <1>2 DEF CopyByte
<1>4. n + 1 \in Nat /\ k \in 0..(n + 1)-1 /\ n \in Nat
  BY <1>1, <1>2, LibSizes
<1>5. c' = c /\ n' = n
  OBVIOUS
<1> HIDE DEF n, c
<1>6. /\ ram[c.src + k] = c.ram[c.src + k]
      /\ [ram EXCEPT ![c.dst + k] = ram[c.src + k]] = Copied(c.ram, c.dst, c.src, k + 1)
  BY <1>1, <1>2, <1>4, CopyOne
<1>7. ram' = Copied(c.ram, c.dst, c.src, k + 1)
  BY <1>3, <1>6
<1>8. c.ram[c.src + k] = 0 <=> k = n
  BY <1>1, <1>2, <1>4 DEF IsString
<1>9. ASSUME ram[src] = 0 PROVE Finished'
  <2>1. k = n
    BY <1>2, <1>6, <1>8, <1>9
  <2> QED
    BY <1>5, <1>7, <2>1 DEF Finished, SrcLen, n, c
<1>10. ASSUME ram[src] # 0 PROVE StringCopied(k + 1)'
  <2>1. k # n
    BY <1>2, <1>6, <1>8, <1>10
  <2>2. k + 1 \in Nat /\ k + 1 <= n /\ dst' = c.dst + (k + 1) /\ src' = c.src + (k + 1)
    BY <1>1, <1>2, <1>3, <1>4, <2>1
  <2> QED
    BY <1>5, <1>7, <2>2 DEF StringCopied, SrcLen, n, c
<1> QED
  BY <1>9, <1>10

\* The byte passes of strcpy: up to a word, and to the end.
LEMMA BytesStep ==
  ASSUME CopyInv, pc \in {"align", "bytes"}, CopyByte, call' = call, unaligned' = unaligned,
         pc' = IF ram[src] = 0 THEN "returned" ELSE pc
  PROVE  CopyInv'
<1>1. call \in Calls /\ call.f = "strcpy" /\ \E k \in Nat : StringCopied(k)
  BY DEF CopyInv, StrcpyStates, InStrcpy
<1>2. PICK k \in Nat : StringCopied(k)
  BY <1>1
<1>3. (ram[src] = 0 => Finished') /\ (ram[src] # 0 => StringCopied(k + 1)')
  BY <1>1, <1>2, StringByte
<1>4. ram[src] # 0 => InStrcpy'
  BY <1>1, <1>2, <1>3 DEF InStrcpy
<1>5. dst \in Nat /\ src \in Nat
  BY <1>1, <1>2, LegalStrcpy DEF StringCopied
<1>6. pc = "align" => dst' % 4 = src' % 4
  <2>1. pc = "align" => dst % 4 = src % 4
    BY DEF CopyInv
  <2> QED
    BY <1>5, <2>1 DEF CopyByte
<1>7. ~unaligned'
  BY DEF CopyInv
<1> QED
  BY <1>3, <1>4, <1>6, <1>7 DEF CopyInv, StrcpyStates, PrintfStates

\* A byte up to a word boundary, or the boundary.
LEMMA AlignStep == CopyInv /\ AlignPass => CopyInv'
<1> SUFFICES ASSUME CopyInv, AlignPass PROVE CopyInv'
  OBVIOUS
<1>1. pc = "align" /\ call' = call /\ unaligned' = unaligned
  BY DEF AlignPass
<1>2. CASE src % 4 # 0
  BY <1>1, <1>2, BytesStep DEF AlignPass
<1>3. CASE src % 4 = 0
  <2>1. pc' = "words" /\ UNCHANGED <<ram, dst, src>>
    BY <1>3 DEF AlignPass
  <2>2. dst' % 4 = 0 /\ src' % 4 = 0
    BY <1>1, <1>3, <2>1 DEF CopyInv
  <2>3. InStrcpy'
    <3>1. InStrcpy
      BY <1>1 DEF CopyInv, StrcpyStates
    <3> QED
      BY <1>1, <2>1, <3>1 DEF InStrcpy, StringCopied, SrcLen
  <2>4. ~unaligned'
    BY <1>1 DEF CopyInv
  <2> QED
    BY <2>1, <2>2, <2>3, <2>4 DEF CopyInv, StrcpyStates, PrintfStates
<1> QED
  BY <1>2, <1>3

\* A word of the string: it lies in memory, and it is copied whole only if the
\* terminator is not in it.
LEMMA WordStep == CopyInv /\ WordPass => CopyInv'
<1> SUFFICES ASSUME CopyInv, WordPass PROVE CopyInv'
  OBVIOUS
<1>1. call \in Calls /\ call.f = "strcpy" /\ InStrcpy /\ \E k \in Nat : StringCopied(k)
  BY DEF CopyInv, StrcpyStates, InStrcpy, WordPass
<1>2. PICK k \in Nat : StringCopied(k)
  BY <1>1
<1>3. pc = "words" /\ dst % 4 = 0 /\ src % 4 = 0 /\ ~unaligned /\ call' = call
  BY DEF CopyInv, WordPass
<1>4. ~unaligned'
  BY <1>3 DEF WordPass
<1> DEFINE c == call
           n == StrLen(c.ram, c.src)
<1>5. /\ c.ram \in Memories /\ c.dst \in Nat /\ c.src \in Nat
      /\ n \in 0..RAM-1 /\ IsString(c.ram, c.src, n) /\ Apart(c.dst, c.src, n + 1)
  BY <1>1, LegalStrcpy
<1>6. k <= n /\ dst = c.dst + k /\ src = c.src + k /\ ram = Copied(c.ram, c.dst, c.src, k)
  BY <1>2 DEF StringCopied, SrcLen
<1>7. n \in Nat /\ n + 1 \in Nat /\ RAM \in Nat /\ RAM % 4 = 0 /\ src \in Nat /\ dst \in Nat
  BY <1>5, <1>6, LibSizes
<1>8. c' = c /\ n' = n
  BY <1>3
<1>11. c.dst \in Nat /\ c.src \in Nat
  BY <1>5
<1>12. k <= n /\ dst = c.dst + k /\ src = c.src + k
  BY <1>6
<1> HIDE DEF n, c
<1>9. CASE HAS_ZERO_BYTE(WordAt(src))
  <2>1. pc' = "bytes" /\ UNCHANGED <<ram, dst, src>>
    BY <1>9 DEF WordPass
  <2>2. InStrcpy'
    BY <1>1, <1>3, <2>1 DEF InStrcpy, StringCopied, SrcLen
  <2> QED
    BY <1>4, <2>1, <2>2 DEF CopyInv, StrcpyStates, PrintfStates
<1>10. CASE ~HAS_ZERO_BYTE(WordAt(src))
  <2>1. /\ ram' = [a \in 0..RAM-1 |-> IF a \in dst..dst+3 THEN ram[src + a - dst] ELSE ram[a]]
        /\ dst' = dst + 4 /\ src' = src + 4 /\ pc' = "words"
    BY <1>3, <1>10 DEF WordPass
  <2>2. Copied(c.ram, c.dst, c.src, k) \in Memories
        /\ SameAt(Copied(c.ram, c.dst, c.src, k), c.ram, c.src, n + 1)
    BY <1>5, <1>6, <1>7, CopiedFacts
  <2>3. ram \in Memories /\ SameAt(ram, c.ram, c.src, n + 1)
    BY <1>6, <2>2
  <2>4. src + n - k < RAM /\ src < RAM
    BY <1>5, <1>6, <1>7 DEF IsString
  <2>5. src + 3 < RAM
    BY <1>3, <1>7, <2>4
  <2>6. WordAt(src) \in [0..3 -> 0..BYTE-1]
    <3>1. ASSUME NEW i \in 0..3 PROVE ram[src + i] \in 0..BYTE-1
      <4>1. src + i \in 0..RAM-1
        BY <1>7, <2>5
      <4> QED
        BY <2>3, <4>1 DEF Memories
    <3> QED
      BY <3>1 DEF WordAt
  <2>7. \A i \in 0..3 : WordAt(src)[i] # 0
    BY <1>10, <2>6, HasZeroExact
  <2>8. \A i \in 0..3 : ram[src + i] # 0
    BY <2>7 DEF WordAt
  <2>9. k + 4 <= n
    <3>1. SUFFICES ASSUME k + 4 > n PROVE FALSE
      BY <1>7
    <3>2. n - k \in 0..3 /\ n \in 0..(n + 1)-1 /\ src + (n - k) = c.src + n
      BY <1>7, <1>11, <1>12, <3>1
    <3>3. ram[c.src + n] # 0
      BY <2>8, <3>2
    <3>4. ram[c.src + n] = c.ram[c.src + n]
      BY <2>3, <3>2 DEF SameAt
    <3> QED
      BY <1>5, <3>3, <3>4 DEF IsString
  <2>10. k + 4 <= n + 1
    BY <1>7, <2>9
  <2>11. WordCopied(ram, c.dst + k, c.src + k) = Copied(c.ram, c.dst, c.src, k + 4)
    BY <1>5, <1>6, <1>7, <2>10, CopyWord
  <2>12. ram' = Copied(c.ram, c.dst, c.src, k + 4)
    BY <1>12, <2>1, <2>11 DEF WordCopied
  <2>13. k + 4 \in Nat /\ dst' = c.dst + (k + 4) /\ src' = c.src + (k + 4)
    <3>1. dst' = dst + 4 /\ src' = src + 4
      BY <2>1
    <3> QED
      BY <1>11, <1>12, <3>1
  <2>14. StringCopied(k + 4)'
    BY <1>8, <2>9, <2>12, <2>13 DEF StringCopied, SrcLen, n, c
  <2>15. InStrcpy'
    BY <1>1, <1>3, <2>13, <2>14 DEF InStrcpy
  <2>16. dst' % 4 = 0 /\ src' % 4 = 0
    BY <1>3, <1>7, <2>1
  <2> QED
    BY <1>4, <2>1, <2>15, <2>16 DEF CopyInv, StrcpyStates, PrintfStates
<1> QED
  BY <1>9, <1>10

\* A byte up to the terminator.
LEMMA ByteStep == CopyInv /\ BytePass => CopyInv'
  BY BytesStep DEF BytePass

\* One byte of memcpy.
LEMMA BlockByte ==
  ASSUME call \in Calls, call.f = "memcpy", NEW k \in Nat, BlockCopied(k), call' = call, left # 0,
         ram' = [ram EXCEPT ![dst] = ram[src]], dst' = dst + 1, src' = src + 1, left' = left - 1
  PROVE  BlockCopied(k + 1)'
<1> DEFINE c == call
<1>1. c.ram \in Memories /\ c.dst \in Nat /\ c.src \in Nat /\ c.n \in Nat /\ Apart(c.dst, c.src, c.n)
  BY LegalMem
<1>2. ram = Copied(c.ram, c.dst, c.src, k)
  BY DEF BlockCopied
<1>3. k <= c.n /\ dst = c.dst + k /\ src = c.src + k /\ left = c.n - k
  BY DEF BlockCopied
<1>4. ram' = [ram EXCEPT ![c.dst + k] = ram[c.src + k]]
  BY <1>3
<1>5. c' = c
  OBVIOUS
<1> HIDE DEF c
<1>6. c.dst \in Nat /\ c.src \in Nat /\ c.n \in Nat
  BY <1>1
<1>7. k \in 0..c.n-1
  BY <1>3, <1>6
<1>8. [ram EXCEPT ![c.dst + k] = ram[c.src + k]] = Copied(c.ram, c.dst, c.src, k + 1)
  BY <1>1, <1>2, <1>7, CopyOne
<1>9. /\ k + 1 \in Nat /\ k + 1 <= c.n /\ dst' = c.dst + (k + 1) /\ src' = c.src + (k + 1)
      /\ left' = c.n - (k + 1)
  BY <1>3, <1>6, <1>7
<1> QED
  BY <1>4, <1>5, <1>8, <1>9 DEF BlockCopied, c

\* One byte of memset.
LEMMA FillByte ==
  ASSUME call \in Calls, call.f = "memset", NEW k \in Nat, BlockFilled(k), call' = call, left # 0,
         ram' = [ram EXCEPT ![dst] = call.c], dst' = dst + 1, left' = left - 1
  PROVE  BlockFilled(k + 1)'
<1> DEFINE c == call
<1>1. c.ram \in Memories /\ c.dst \in Nat /\ c.n \in Nat /\ c.dst + c.n <= RAM
  BY LegalMem
<1>2. ram = Filled(c.ram, c.dst, k, c.c)
  BY DEF BlockFilled
<1>3. k <= c.n /\ dst = c.dst + k /\ left = c.n - k
  BY DEF BlockFilled
<1>4. ram' = [ram EXCEPT ![c.dst + k] = c.c]
  BY <1>3
<1>5. c' = c
  OBVIOUS
<1> HIDE DEF c
<1>6. c.dst \in Nat /\ c.n \in Nat /\ c.dst + c.n <= RAM /\ RAM \in Nat
  BY <1>1, LibSizes
<1>7. c.dst + k < RAM /\ k < c.n
  BY <1>3, <1>6
<1>8. [ram EXCEPT ![c.dst + k] = c.c] = Filled(c.ram, c.dst, k + 1, c.c)
  BY <1>1, <1>2, <1>7, FillOne
<1>9. k + 1 \in Nat /\ k + 1 <= c.n /\ dst' = c.dst + (k + 1) /\ left' = c.n - (k + 1)
  BY <1>3, <1>6, <1>7
<1> QED
  BY <1>4, <1>5, <1>8, <1>9 DEF BlockFilled, c

\* One pass of memcpy or memset, or its end.
LEMMA MemStep == CopyInv /\ MemPass => CopyInv'
<1> SUFFICES ASSUME CopyInv, MemPass PROVE CopyInv'
  OBVIOUS
<1>1. call' = call /\ unaligned' = unaligned /\ pc \in {"memcpy", "memset"}
  BY DEF MemPass
<1>2. ~unaligned'
  BY <1>1 DEF CopyInv
<1>3. CASE pc = "memcpy"
  <2>1. call \in Calls /\ call.f = "memcpy" /\ \E k \in Nat : BlockCopied(k)
    BY <1>3 DEF CopyInv, InMemcpy
  <2>2. PICK k \in Nat : BlockCopied(k)
    BY <2>1
  <2>3. CASE left = 0
    <3>1. ram' = ram /\ pc' = "returned"
      BY <2>3 DEF MemPass
    <3>2. k = call.n
      BY <2>1, <2>2, <2>3, LegalMem DEF BlockCopied
    <3>3. Finished'
      BY <1>1, <2>1, <2>2, <3>1, <3>2 DEF Finished, BlockCopied
    <3> QED
      BY <1>2, <3>1, <3>3 DEF CopyInv, StrcpyStates, PrintfStates
  <2>4. CASE left # 0
    <3>1. /\ ram' = [ram EXCEPT ![dst] = ram[src]] /\ dst' = dst + 1 /\ src' = src + 1
          /\ left' = left - 1 /\ pc' = "memcpy"
      BY <1>3, <2>4 DEF MemPass
    <3>2. BlockCopied(k + 1)'
      BY <1>1, <2>1, <2>2, <2>4, <3>1, BlockByte
    <3>3. InMemcpy'
      BY <1>1, <2>1, <3>2 DEF InMemcpy
    <3> QED
      BY <1>2, <3>1, <3>3 DEF CopyInv, StrcpyStates, PrintfStates
  <2> QED
    BY <2>3, <2>4
<1>4. CASE pc = "memset"
  <2>1. call \in Calls /\ call.f = "memset" /\ \E k \in Nat : BlockFilled(k)
    BY <1>4 DEF CopyInv, InMemset
  <2>2. PICK k \in Nat : BlockFilled(k)
    BY <2>1
  <2>3. CASE left = 0
    <3>1. ram' = ram /\ pc' = "returned"
      BY <2>3 DEF MemPass
    <3>2. k = call.n
      BY <2>1, <2>2, <2>3, LegalMem DEF BlockFilled
    <3>3. Finished'
      BY <1>1, <2>1, <2>2, <3>1, <3>2 DEF Finished, BlockFilled
    <3> QED
      BY <1>2, <3>1, <3>3 DEF CopyInv, StrcpyStates, PrintfStates
  <2>4. CASE left # 0
    <3>1. /\ ram' = [ram EXCEPT ![dst] = call.c] /\ dst' = dst + 1
          /\ left' = left - 1 /\ pc' = "memset"
      BY <1>4, <2>4 DEF MemPass
    <3>2. BlockFilled(k + 1)'
      BY <1>1, <2>1, <2>2, <2>4, <3>1, FillByte
    <3>3. InMemset'
      BY <1>1, <2>1, <3>2 DEF InMemset
    <3> QED
      BY <1>2, <3>1, <3>3 DEF CopyInv, StrcpyStates, PrintfStates
  <2> QED
    BY <2>3, <2>4
<1> QED
  BY <1>1, <1>3, <1>4

\* A sum below the modulus does not wrap.
LEMMA NoWrap == ASSUME NEW m \in Nat, NEW x \in Nat, x < m PROVE x % m = x
OBVIOUS

\* The rounded size of a legal request is a whole number of words, no less than what
\* was asked, and its sum with a mark inside the heap does not wrap.
LEMMA RoundedIs ==
  ASSUME NEW n \in Nat, n + 3 + HEAP_BYTES < LONG
  PROVE  /\ Rounded(n) \in Nat /\ Rounded(n) % 4 = 0 /\ n <= Rounded(n)
         /\ \A h \in 0..HEAP_BYTES : (h + Rounded(n)) % LONG = h + Rounded(n)
<1>0. LONG \in Nat /\ HEAP_BYTES \in Nat /\ n + 3 < LONG
  BY CLibAssumption
<1>1. (n + 3) % LONG = n + 3
  BY <1>0, NoWrap
<1>2. Rounded(n) = ((n + 3) \div 4) * 4
  BY <1>1 DEF Rounded
<1>3. (n + 3) \div 4 \in Nat /\ n <= ((n + 3) \div 4) * 4 /\ ((n + 3) \div 4) * 4 <= n + 3
  OBVIOUS
<1>4. \A j \in Nat : j * 4 \in Nat /\ (j * 4) % 4 = 0
  OBVIOUS
<1>5. ASSUME NEW h \in 0..HEAP_BYTES PROVE (h + Rounded(n)) % LONG = h + Rounded(n)
  <2>1. h + Rounded(n) \in Nat /\ h + Rounded(n) < LONG
    BY <1>0, <1>2, <1>3
  <2> QED
    BY <1>0, <2>1, NoWrap
<1> QED
  BY <1>2, <1>3, <1>4, <1>5

\* malloc returns without touching memory.
LEMMA mallocCopyStep == CopyInv /\ malloc => CopyInv'
<1> SUFFICES ASSUME CopyInv, malloc PROVE CopyInv'
  OBVIOUS
<1>1. UNCHANGED <<call, unaligned>> /\ pc' = "returned" /\ call.f = "malloc"
  BY DEF malloc, memVars, CopyInv, InMalloc
<1> QED
  BY <1>1 DEF CopyInv, StrcpyStates, PrintfStates, Finished

\* A new block lies above the others and inside the heap, or there is none.
LEMMA mallocHeapStep == CopyInv /\ HeapInv /\ malloc => HeapInv'
<1> SUFFICES ASSUME CopyInv, HeapInv, malloc PROVE HeapInv'
  OBVIOUS
<1>1. call.n \in Nat /\ call.n + 3 + HEAP_BYTES < LONG
  <2>1. call \in Calls /\ call.f = "malloc"
    BY DEF malloc, CopyInv, InMalloc
  <2>2. Legal(call)
    BY <2>1, CallsLegal
  <2> QED
    BY <2>1, <2>2 DEF Legal
<1>2. CASE UNCHANGED heapVars
  BY <1>2 DEF heapVars, HeapInv, BlocksDisjoint
<1>3. CASE ~UNCHANGED heapVars
  <2> DEFINE n == Rounded(call.n)
             b == [at |-> heap_used, size |-> call.n]
  <2>1. heap_used + n <= HEAP_BYTES /\ blocks' = Append(blocks, b) /\ heap_used' = heap_used + n
    <3>1. /\ ~((heap_used + n) % LONG > HEAP_BYTES) /\ blocks' = Append(blocks, b)
          /\ heap_used' = (heap_used + n) % LONG
      BY <1>3 DEF malloc
    <3>2. n \in Nat /\ HEAP_BYTES \in Nat /\ heap_used \in Nat /\ heap_used \in 0..HEAP_BYTES
      <4>1. HEAP_BYTES \in Nat /\ heap_used \in Nat /\ heap_used <= HEAP_BYTES
        BY LibSizes DEF HeapInv
      <4>2. n \in Nat
        BY <1>1, RoundedIs
      <4> QED
        BY <4>1, <4>2
    <3>3. (heap_used + n) % LONG = heap_used + n
      BY <1>1, <3>2, RoundedIs
    <3> QED
      BY <3>1, <3>2, <3>3
  <2>2. n \in Nat /\ n % 4 = 0 /\ call.n <= n
    BY <1>1, RoundedIs
  <2>3. b \in [at : Nat, size : Nat] /\ b.at = heap_used /\ b.size = call.n
    BY <1>1 DEF HeapInv
  <2> HIDE DEF n, b
  <2>4. heap_used \in Nat /\ heap_used % 4 = 0 /\ HEAP_BYTES \in Nat
    BY LibSizes DEF HeapInv
  <2>5. heap_used' \in Nat /\ heap_used' % 4 = 0 /\ heap_used' <= HEAP_BYTES
    <3>1. heap_used' = heap_used + n /\ heap_used + n <= HEAP_BYTES
      BY <2>1
    <3> QED
      BY <2>2, <2>4, <3>1
  <2>6. blocks \in Seq([at : Nat, size : Nat])
    BY DEF HeapInv
  <2>7. /\ blocks' \in Seq([at : Nat, size : Nat]) /\ Len(blocks') = Len(blocks) + 1
        /\ Len(blocks) \in Nat /\ DOMAIN blocks = 1..Len(blocks) /\ DOMAIN blocks' = 1..Len(blocks')
        /\ \A i \in 1..Len(blocks) : blocks'[i] = blocks[i]
        /\ blocks'[Len(blocks) + 1] = b
    BY <2>1, <2>3, <2>6
  <2>8. ASSUME NEW i \in DOMAIN blocks
        PROVE  /\ blocks[i].at \in Nat /\ blocks[i].size \in Nat /\ blocks'[i] = blocks[i]
               /\ blocks[i].at % 4 = 0 /\ blocks[i].at + blocks[i].size <= HEAP_BYTES
               /\ blocks[i].at + blocks[i].size <= heap_used
    <3>0. i \in 1..Len(blocks)
      BY <2>7
    <3>1. blocks[i] \in [at : Nat, size : Nat]
      BY <2>6, <3>0, ElementOfSeq
    <3>2. blocks[i].at \in Nat /\ blocks[i].size \in Nat
      BY <3>1
    <3> QED
      BY <2>7, <3>2 DEF HeapInv, BlocksDisjoint
  <2>9. ASSUME NEW i \in DOMAIN blocks, NEW j \in 1..i-1
        PROVE  blocks'[j].at + blocks'[j].size <= blocks'[i].at
    <3>1. j \in 1..Len(blocks)
      BY <2>7
    <3> QED
      BY <2>7, <2>8, <3>1 DEF HeapInv, BlocksDisjoint
  <2>10. ASSUME NEW i \in DOMAIN blocks'
         PROVE  /\ blocks'[i].at % 4 = 0 /\ blocks'[i].at + blocks'[i].size <= HEAP_BYTES
                /\ blocks'[i].at + blocks'[i].size <= heap_used'
                /\ \A j \in 1..i-1 : blocks'[j].at + blocks'[j].size <= blocks'[i].at
    <3>1. CASE i \in DOMAIN blocks
      <4>1. blocks'[i] = blocks[i] /\ blocks[i].at + blocks[i].size <= heap_used
            /\ blocks[i].at \in Nat /\ blocks[i].size \in Nat
            /\ blocks[i].at % 4 = 0 /\ blocks[i].at + blocks[i].size <= HEAP_BYTES
        BY <2>8, <3>1
      <4>2. heap_used <= heap_used'
        BY <2>1, <2>2, <2>4
      <4>3. blocks[i].at + blocks[i].size <= heap_used'
        BY <2>4, <2>5, <4>1, <4>2
      <4> QED
        BY <2>9, <3>1, <4>1, <4>3
    <3>2. CASE i = Len(blocks) + 1
      <4>1. blocks'[i].at = heap_used /\ blocks'[i].size = call.n
        BY <2>3, <2>7, <3>2
      <4>2. heap_used + call.n <= heap_used' /\ heap_used + call.n <= HEAP_BYTES
        <5>1. call.n \in Nat
          BY <1>1
        <5> QED
          BY <2>1, <2>2, <2>4, <5>1
      <4>3. ASSUME NEW j \in 1..i-1 PROVE blocks'[j].at + blocks'[j].size <= heap_used
        <5>1. j \in DOMAIN blocks
          BY <2>7, <3>2
        <5> QED
          BY <2>8, <5>1
      <4> QED
        BY <2>4, <4>1, <4>2, <4>3
    <3> QED
      BY <2>7, <3>1, <3>2
  <2> QED
    BY <2>5, <2>7, <2>10 DEF HeapInv, BlocksDisjoint
<1> QED
  BY <1>2, <1>3

\* printf touches neither the memory of the copies nor the heap.
LEMMA PrintfStep ==
  CopyInv /\ (printf \/ Modifier \/ Directive \/ Digit \/ Pad \/ Emit) => CopyInv'
<1> SUFFICES ASSUME CopyInv, printf \/ Modifier \/ Directive \/ Digit \/ Pad \/ Emit PROVE CopyInv'
  OBVIOUS
<1>1. UNCHANGED <<call, memVars>> /\ pc \in PrintfStates
  BY DEF printf, Modifier, Directive, Digit, Pad, Emit, PrintfStates
<1>2. pc' \in PrintfStates \union {"returned"}
  BY <1>1 DEF printf, Modifier, Directive, Digit, Pad, Emit, PrintfStates
<1>3. call \in Calls /\ call.f = "printf" /\ ~unaligned
  BY <1>1 DEF CopyInv, InPrintf
<1>4. call' = call /\ ~unaligned'
  BY <1>1, <1>3 DEF memVars
<1>5. InPrintf' /\ Finished'
  BY <1>3, <1>4 DEF InPrintf, Finished
<1> QED
  BY <1>2, <1>4, <1>5 DEF CopyInv, StrcpyStates, PrintfStates

\* Every step of the library keeps both invariants.
LEMMA LibInvNext ==
  CopyInv /\ HeapInv /\ [LibNext]_<<image, pc, libVars>> => CopyInv' /\ HeapInv'
<1> SUFFICES ASSUME CopyInv, HeapInv, [LibNext]_<<image, pc, libVars>> PROVE CopyInv' /\ HeapInv'
  OBVIOUS
<1>1. CASE UNCHANGED <<image, pc, libVars>>
  <2>1. UNCHANGED <<pc, call, ram, dst, src, left, unaligned, heap_used, blocks>>
    BY <1>1 DEF libVars, memVars, heapVars
  <2>2. HeapInv'
    BY <2>1 DEF HeapInv, BlocksDisjoint
  <2>3. /\ InStrcpy => InStrcpy'
        /\ InMemcpy => InMemcpy'
        /\ InMemset => InMemset'
    BY <2>1 DEF InStrcpy, InMemcpy, InMemset, StringCopied, BlockCopied, BlockFilled, SrcLen
  <2>4. /\ InMalloc => InMalloc'
        /\ InPrintf => InPrintf'
        /\ Finished => Finished'
    BY <2>1 DEF InMalloc, InPrintf, Finished, SrcLen
  <2> QED
    BY <2>1, <2>2, <2>3, <2>4 DEF CopyInv
<1>2. CASE LibNext
  <2>1. \/ Call \/ ReturnFrom
        \/ strcpy \/ AlignPass \/ WordPass \/ BytePass \/ MemPass \/ malloc
        \/ printf \/ Modifier \/ Directive \/ Digit \/ Pad \/ Emit
    BY <1>2 DEF LibNext
  <2>2. CASE Call \/ ReturnFrom
    BY <2>2, CallStep, ReturnStep
  <2>3. CASE malloc
    BY <2>3, mallocCopyStep, mallocHeapStep
  <2>4. CASE \/ strcpy \/ AlignPass \/ WordPass \/ BytePass \/ MemPass
             \/ printf \/ Modifier \/ Directive \/ Digit \/ Pad \/ Emit
    <3>1. CopyInv'
      BY <2>4, strcpyStep, AlignStep, WordStep, ByteStep, MemStep, PrintfStep
    <3>2. UNCHANGED <<heap_used, blocks>>
      BY <2>4 DEF strcpy, AlignPass, WordPass, BytePass, MemPass, printf, Modifier, Directive,
                  Digit, Pad, Emit, heapVars
    <3>3. HeapInv'
      BY <3>2 DEF HeapInv, BlocksDisjoint
    <3> QED
      BY <3>1, <3>3
  <2> QED
    BY <2>1, <2>2, <2>3, <2>4
<1> QED
  BY <1>1, <1>2

-----------------------------------------------------------------------------
(***************************************************************************)
(* printf.                                                                 *)
(*                                                                         *)
(* ReadUpTo says what a format means, character by character, and DigitsOf *)
(* what a number's digits are, from the first. The invariant (PrintInv)    *)
(* says that what is printed, followed by what the digits, the zeros and   *)
(* the buffer at hand still stand for, is the meaning of the format as far *)
(* as it is read (TextAt).                                                 *)
(***************************************************************************)
\* The digits are characters, and so is what put_char sends.
LEMMA HexFacts == \A d \in 1..16 : hex[d] \in Char
  BY CharAssumption

\* Characters that are sent beside those of the format.
LEMMA OtherChars == "cr" \in Char /\ "nl" \in Char /\ "-" \in Char /\ "%" \in Char /\ "0" \in Char
<1>1. "0" = hex[1]
  BY DEF hex
<1> QED
  BY <1>1, CharAssumption

\* What put_char sends, and the value of a digit.
LEMMA CharFacts ==
  /\ \A c \in Char : put_char(c) \in Seq(Char)
  /\ \A c \in Char : IsDigit(c) => NumberOf(c) \in Nat
<1>1. \A c \in Char : put_char(c) \in Seq(Char)
  BY OtherChars DEF put_char
<1>2. ASSUME NEW c \in Char, IsDigit(c) PROVE NumberOf(c) \in Nat
  <2>1. PICK d \in 1..10 : hex[d] = c
    BY <1>2 DEF IsDigit
  <2>2. d - 1 \in 0..15 /\ hex[(d - 1) + 1] = c
    BY <2>1
  <2> HIDE DEF hex
  <2>3. NumberOf(c) \in 0..15
    BY <2>2 DEF NumberOf
  <2> QED
    BY <2>3
<1> QED
  BY <1>1, <1>2

\* Division by a base.
LEMMA BaseDivision ==
  ASSUME NEW b \in {10, 16}, NEW m \in Nat
  PROVE  /\ m \div b \in Nat /\ m % b \in 0..b-1 /\ (m % b) + 1 \in 1..16
         /\ m < b => m \div b = 0 /\ m % b = m /\ m + 1 \in 1..16
         /\ m >= b => m \div b < m /\ m \div b # 0
<1>1. CASE b = 10
  BY <1>1
<1>2. CASE b = 16
  BY <1>2
<1> QED
  BY <1>1, <1>2

\* The digits of a number have their defining equation: the digits of its quotient,
\* and its last one.
LEMMA DigitsFollow ==
  ASSUME NEW b \in {10, 16}, NEW m \in Nat
  PROVE  /\ DigitsOf(m, b) \in Seq(Char)
         /\ m < b => DigitsOf(m, b) = <<hex[(m % b) + 1]>>
         /\ m >= b => DigitsOf(m, b) = Append(DigitsOf(m \div b, b), hex[(m % b) + 1])
<1> DEFINE Txt == Seq(Char)
           first(n) == <<hex[n + 1]>>
           more(t, n) == Append(t, hex[(n % b) + 1])
           half(n) == n \div b
           P(f) == f = [n \in Nat |-> IF n < b THEN first(n) ELSE more(f[half(n)], n)]
           S == [Nat -> Txt]
           step(u) == [n \in Nat |-> IF n < b THEN first(n) ELSE more(u[half(n)], n)]
           g == [k \in Nat |-> [u \in S |-> step(u)]]
           z == [n \in Nat |-> << >>]
<1>1. \A n \in Nat : half(n) \in Nat /\ (n >= b => half(n) < n)
  BY BaseDivision
<1>2. \A n \in Nat : n < b => first(n) \in Txt
  <2> SUFFICES ASSUME NEW n \in Nat, n < b PROVE first(n) \in Txt
    OBVIOUS
  <2>1. hex[n + 1] \in Char
    BY HexFacts, BaseDivision
  <2>2. ASSUME NEW x \in Char PROVE <<x>> \in Seq(Char)
    OBVIOUS
  <2> QED
    BY <2>1, <2>2
<1>3. \A n \in Nat, t \in Txt : more(t, n) \in Txt
  <2> SUFFICES ASSUME NEW n \in Nat, NEW t \in Txt PROVE more(t, n) \in Txt
    OBVIOUS
  <2>1. hex[(n % b) + 1] \in Char
    BY HexFacts, BaseDivision
  <2>2. ASSUME NEW x \in Char PROVE Append(t, x) \in Seq(Char)
    OBVIOUS
  <2> QED
    BY <2>1, <2>2
<1>4. DigitsOf(m, b) = (CHOOSE h : P(h))[m] /\ DigitsOf(half(m), b) = (CHOOSE h : P(h))[half(m)]
  BY DEF DigitsOf
<1>5. b \in Nat /\ z \in S
  OBVIOUS
<1>6. m < b => first(m) = <<hex[(m % b) + 1]>>
  BY BaseDivision
<1>7. more(DigitsOf(half(m), b), m) = Append(DigitsOf(m \div b, b), hex[(m % b) + 1])
  OBVIOUS
<1> HIDE DEF Txt, first, more, half, z
<1>8. ASSUME NEW u \in S PROVE step(u) \in S
  BY <1>1, <1>2, <1>3
<1>9. g \in [Nat -> [S -> S]] /\ \A k \in Nat, u \in S : g[k][u] = step(u)
  BY <1>8
<1>10. \A u \in S, n \in Nat : step(u)[n] = IF n < b THEN first(n) ELSE more(u[half(n)], n)
  OBVIOUS
<1> HIDE DEF S, g, step
<1>11. PICK r : IsRecursion(r, S, z, g)
  BY <1>5, <1>9, RecursionExists
<1>12. ASSUME NEW k \in Nat
       PROVE  /\ r[k] \in S
              /\ \A n \in Nat : r[k + 1][n] = IF n < b THEN first(n) ELSE more(r[k][half(n)], n)
  <2>1. r[k] \in S /\ r[k + 1] = g[k][r[k]]
    BY <1>11 DEF IsRecursion
  <2> QED
    BY <1>9, <1>10, <2>1
<1> DEFINE h == [n \in Nat |-> r[n + 1][n]]
           T == {k \in Nat : \A j \in 0..k : \A n \in 0..j-1 : r[j][n] = h[n]}
<1>13. 0 \in T
  OBVIOUS
<1>14. ASSUME NEW k \in Nat, k \in T PROVE k + 1 \in T
  <2>1. ASSUME NEW n \in 0..k PROVE r[k + 1][n] = h[n]
    <3>0. n \in Nat /\ h[n] = r[n + 1][n]
      OBVIOUS
    <3>1. CASE n < b
      BY <1>12, <3>0, <3>1
    <3>2. CASE n >= b
      <4>1. half(n) \in 0..n-1 /\ half(n) \in 0..k-1 /\ n \in 0..k /\ k \in 0..k /\ half(n) \in Nat
        BY <1>1, <1>5, <3>0, <3>2
      <4>2. r[n][half(n)] = h[half(n)] /\ r[k][half(n)] = h[half(n)]
        BY <1>14, <4>1
      <4>3. r[n + 1][n] = more(r[n][half(n)], n) /\ r[k + 1][n] = more(r[k][half(n)], n)
        BY <1>12, <1>5, <3>0, <3>2
      <4> QED
        BY <3>0, <4>2, <4>3
    <3> QED
      BY <1>5, <3>1, <3>2
  <2>2. ASSUME NEW j \in 0..k+1, NEW n \in 0..j-1 PROVE r[j][n] = h[n]
    <3>1. CASE j = k + 1
      BY <2>1, <3>1
    <3>2. CASE j \in 0..k
      BY <1>14, <3>2
    <3> QED
      BY <3>1, <3>2
  <2> QED
    BY <2>2
<1> HIDE DEF T
<1>15. \A k \in Nat : k \in T
  BY <1>13, <1>14, SetInduction
<1>16. ASSUME NEW n \in Nat PROVE h[n] = IF n < b THEN first(n) ELSE more(h[half(n)], n)
  <2>1. h[n] = IF n < b THEN first(n) ELSE more(r[n][half(n)], n)
    BY <1>12
  <2>2. ASSUME n >= b PROVE r[n][half(n)] = h[half(n)]
    <3>1. half(n) \in 0..n-1 /\ n \in 0..n /\ n \in T
      BY <1>1, <1>15, <2>2
    <3> QED
      BY <3>1 DEF T
  <2> QED
    BY <1>5, <2>1, <2>2
<1>17. P(h)
  BY <1>16
<1> DEFINE d == CHOOSE f : P(f)
<1>18. P(d)
  BY <1>17
<1>19. \A n \in Nat : d[n] = IF n < b THEN first(n) ELSE more(d[half(n)], n)
  BY <1>18
<1> HIDE DEF d
<1> DEFINE U == {k \in Nat : \A n \in 0..k : d[n] \in Txt}
<1>20. 0 \in U
  <2>1. \A n \in 0..0 : n \in Nat /\ n < b
    OBVIOUS
  <2> QED
    BY <1>2, <1>19, <2>1
<1>21. ASSUME NEW k \in Nat, k \in U PROVE k + 1 \in U
  <2>1. ASSUME NEW n \in 0..k+1 PROVE d[n] \in Txt
    <3>1. CASE n < b
      BY <1>2, <1>19, <3>1
    <3>2. CASE n >= b
      <4>1. half(n) \in 0..k /\ n \in Nat
        BY <1>1, <1>5, <3>2
      <4> QED
        BY <1>3, <1>5, <1>19, <1>21, <3>2, <4>1
    <3> QED
      BY <1>5, <3>1, <3>2
  <2> QED
    BY <2>1
<1> HIDE DEF U
<1>22. \A k \in Nat : k \in U
  BY <1>20, <1>21, SetInduction
<1>23. d[m] \in Txt
  <2>1. m \in 0..m /\ m \in U
    BY <1>22
  <2> QED
    BY <2>1 DEF U
<1>24. DigitsOf(m, b) = d[m] /\ DigitsOf(half(m), b) = d[half(m)]
  BY <1>4 DEF d
<1>25. d[m] = IF m < b THEN first(m) ELSE more(d[half(m)], m)
  BY <1>19
<1>26. m >= b => ~(m < b)
  BY <1>5
<1> QED
  BY <1>6, <1>7, <1>23, <1>24, <1>25, <1>26 DEF Txt

\* What put_str sends is a text.
LEMMA PutStrType ==
  ASSUME NEW s \in Seq(Char)
  PROVE  put_str(s) \in Seq(Char)
<1> DEFINE t == [k \in DOMAIN s |-> put_char(s[k])]
           n == Len(s)
           S == Seq(Char)
<1>1. n \in Nat /\ DOMAIN s = 1..n /\ \A k \in 1..n : s[k] \in Char
  BY ElementOfSeq
<1>2. \A k \in 1..n : t[k] \in S
  BY <1>1, CharFacts
<1>3. t \in Seq(S) /\ Len(t) = n
  <2>1. t \in [1..n -> S]
    BY <1>1, <1>2
  <2> HIDE DEF t, n, S
  <2> QED
    BY <1>1, <2>1
<1>4. put_str(s) = FlattenSeq(t)
  BY DEF put_str
<1> HIDE DEF t, n
<1>5. CASE n = 0
  <2>1. FlattenSeq(t) = t
    BY <1>3, <1>5 DEF FlattenSeq
  <2>2. t = << >>
    BY <1>3, <1>5
  <2> QED
    BY <1>4, <2>1, <2>2
<1>6. CASE n # 0
  <2> DEFINE P(f) == f = [k \in 1..n |-> IF k = 1 THEN t[k] ELSE f[k-1] \o t[k]]
             g == [k \in 1..n |-> [u \in S |-> IF k = 1 THEN t[k] ELSE u \o t[k]]]
  <2>1. ASSUME NEW k \in 1..n, NEW u \in S PROVE (IF k = 1 THEN t[k] ELSE u \o t[k]) \in S
    BY <1>2
  <2>2. g \in [1..n -> [S -> S]]
    BY <2>1
  <2>3. \A k \in 1..n, u \in S : g[k][u] = IF k = 1 THEN t[k] ELSE u \o t[k]
    OBVIOUS
  <2>4. << >> \in S
    OBVIOUS
  <2> HIDE DEF g, S
  <2>5. PICK f : IsFiniteRecursion(f, S, n, << >>, g)
    BY <1>1, <2>2, <2>4, FiniteRecursion
  <2>6. ASSUME NEW k \in 1..n PROVE f[k] = IF k = 1 THEN t[k] ELSE f[k - 1] \o t[k]
    <3>1. k - 1 \in 0..n
      BY <1>1
    <3>2. f[k - 1] \in S /\ f[k] = g[k][f[k - 1]]
      BY <2>5, <3>1 DEF IsFiniteRecursion
    <3> QED
      BY <2>3, <3>2
  <2> DEFINE h == [k \in 1..n |-> f[k]]
  <2>7. ASSUME NEW k \in 1..n PROVE h[k] = IF k = 1 THEN t[k] ELSE h[k-1] \o t[k]
    <3>1. k # 1 => k - 1 \in 1..n
      BY <1>1
    <3> QED
      BY <2>6, <3>1
  <2>8. P(h)
    BY <2>7
  <2> DEFINE d == CHOOSE j : P(j)
  <2>9. P(d)
    BY <2>8
  <2>10. \A k \in 1..n : d[k] = IF k = 1 THEN t[k] ELSE d[k-1] \o t[k]
    BY <2>9
  <2>11. FlattenSeq(t) = d[n]
    BY <1>3, <1>6 DEF FlattenSeq
  <2> HIDE DEF d
  <2> DEFINE T == {k \in 0..n : k = 0 \/ d[k] \in S}
  <2>12. 0 \in T
    BY <1>1
  <2>13. ASSUME NEW k \in 1..n, k - 1 \in T PROVE k \in T
    <3>1. CASE k = 1
      BY <1>2, <2>10, <3>1
    <3>2. CASE k # 1
      <4>1. d[k - 1] \in S
        BY <2>13, <3>2
      <4>2. d[k - 1] \o t[k] \in S
        BY <2>1, <3>2, <4>1
      <4> QED
        BY <2>10, <3>2, <4>2
    <3> QED
      BY <3>1, <3>2
  <2> HIDE DEF T
  <2>14. \A k \in 0..n : k \in T
    BY <1>1, <2>12, <2>13, FiniteInduction
  <2>15. d[n] \in S
    <3>1. n \in 0..n
      BY <1>1
    <3> QED
      BY <1>6, <2>14, <3>1 DEF T
  <2> QED
    BY <1>4, <2>11, <2>15 DEF S
<1> QED
  BY <1>5, <1>6

\* Leading zeros.
Noughts(k) == [j \in 1..k |-> "0"]

\* There are as many as asked for, or none.
LEMMA NoughtsType ==
  ASSUME NEW k \in Int
  PROVE  /\ Noughts(k) \in Seq(Char) /\ Len(Noughts(k)) = (IF k > 0 THEN k ELSE 0)
         /\ \A j \in 1..k : Noughts(k)[j] = "0"
<1>1. CASE k > 0
  <2>1. k \in Nat /\ Noughts(k) \in [1..k -> Char]
    BY <1>1, OtherChars DEF Noughts
  <2>2. Noughts(k) \in Seq(Char) /\ Len(Noughts(k)) = k
    BY <2>1
  <2> QED
    BY <1>1, <2>2 DEF Noughts
<1>2. CASE ~(k > 0)
  <2>1. 1..k = {}
    BY <1>2
  <2>2. Noughts(k) = << >>
    BY <2>1 DEF Noughts
  <2> QED
    BY <1>2, <2>1, <2>2
<1> QED
  BY <1>1, <1>2

\* A numeral is a text: zeros and the digits.
LEMMA NumeralIs ==
  ASSUME NEW n \in Nat, NEW b \in {10, 16}, NEW w \in Nat
  PROVE  /\ Numeral(n, b, w) = Noughts(w - Len(DigitsOf(n, b))) \o DigitsOf(n, b)
         /\ Numeral(n, b, w) \in Seq(Char)
<1>1. Numeral(n, b, w) = Noughts(w - Len(DigitsOf(n, b))) \o DigitsOf(n, b)
  BY DEF Numeral, Noughts
<1>2. DigitsOf(n, b) \in Seq(Char)
  BY DigitsFollow
<1>3. w - Len(DigitsOf(n, b)) \in Int
  BY <1>2
<1>4. Noughts(w - Len(DigitsOf(n, b))) \in Seq(Char)
  BY <1>3, NoughtsType
<1> QED
  BY <1>1, <1>2, <1>4

(***************************************************************************)
(* What a format means.                                                    *)
(***************************************************************************)
\* The sign, the magnitude, the base and the field of a number.
Minus(c, x) == c = "d" /\ Negative(x.n)
Magnitude(c, x) == IF Minus(c, x) THEN LONG - x.n ELSE x.n
BaseOf(c) == IF c = "x" THEN 16 ELSE 10
Field(w, b) == IF w < BufOf(b) THEN w ELSE BufOf(b)

\* The magnitude of a long is one that the buffers hold.
LEMMA MagnitudeFits ==
  ASSUME NEW c, NEW x \in Arguments, NEW w \in Nat
  PROVE  /\ Magnitude(c, x) \in Nat /\ BaseOf(c) \in {10, 16} /\ Field(w, BaseOf(c)) \in Nat
         /\ Len(DigitsOf(Magnitude(c, x), BaseOf(c))) <= BufOf(BaseOf(c))
<1>1. LONG \in Nat /\ LONG > 1 /\ DEC_BUF \in Nat /\ HEX_BUF \in Nat
  BY CLibAssumption
<1>2. x.n \in 0..LONG-1
  BY DEF Arguments
<1>3. Magnitude(c, x) \in 0..LONG-1
  <2>1. CASE Minus(c, x)
    <3>1. x.n >= LONG \div 2
      BY <2>1 DEF Minus, Negative
    <3>2. LONG \div 2 >= 1
      BY <1>1
    <3>3. LONG - x.n \in 0..LONG-1
      BY <1>1, <1>2, <3>1, <3>2
    <3> QED
      BY <2>1, <3>3 DEF Magnitude
  <2>2. CASE ~Minus(c, x)
    BY <1>2, <2>2 DEF Magnitude
  <2> QED
    BY <2>1, <2>2
<1>4. BaseOf(c) \in {10, 16} /\ BufOf(BaseOf(c)) \in Nat
  BY <1>1 DEF BaseOf, BufOf
<1>5. Field(w, BaseOf(c)) \in Nat
  BY <1>4 DEF Field
<1>6. Len(DigitsOf(Magnitude(c, x), BaseOf(c))) <= BufOf(BaseOf(c))
  BY <1>3, DigitsFit DEF BaseOf, BufOf
<1> QED
  BY <1>1, <1>3, <1>4, <1>5, <1>6

\* What a letter makes of its argument, by the letter.
LEMMA ConvertedIs ==
  ASSUME NEW c \in Char, NEW x \in Arguments, NEW w \in Nat
  PROVE  /\ Converted(c, x, w) \in Seq(Char)
         /\ c \in {"d", "u", "x"} =>
              Converted(c, x, w) = (IF Minus(c, x) THEN <<"-">> ELSE << >>)
                                     \o Numeral(Magnitude(c, x), BaseOf(c), Field(w, BaseOf(c)))
         /\ c = "s" => Converted(c, x, w) = put_str(x.s)
         /\ c = "c" => Converted(c, x, w) = put_char(x.c)
         /\ c = "%" => Converted(c, x, w) = <<"%">>
         /\ c \notin {"d", "u", "x", "s", "c", "%"} => Converted(c, x, w) = << >>
<1>1. CASE c \in {"d", "u", "x"}
  <2>1. Converted(c, x, w) = (IF Minus(c, x) THEN <<"-">> ELSE << >>)
                               \o Numeral(Magnitude(c, x), BaseOf(c), Field(w, BaseOf(c)))
    BY <1>1 DEF Converted, Minus, Magnitude, BaseOf, Field
  <2>2. (IF Minus(c, x) THEN <<"-">> ELSE << >>) \in Seq(Char)
    BY OtherChars
  <2>3. Numeral(Magnitude(c, x), BaseOf(c), Field(w, BaseOf(c))) \in Seq(Char)
    BY MagnitudeFits, NumeralIs
  <2>4. \A p, q \in Seq(Char) : p \o q \in Seq(Char)
    OBVIOUS
  <2>5. Converted(c, x, w) \in Seq(Char)
    BY <2>1, <2>2, <2>3, <2>4
  <2> QED
    BY <1>1, <2>1, <2>5
<1>2. CASE c \notin {"d", "u", "x"}
  <2>1. /\ c = "s" => Converted(c, x, w) = put_str(x.s)
        /\ c = "c" => Converted(c, x, w) = put_char(x.c)
        /\ c = "%" => Converted(c, x, w) = <<"%">>
        /\ c \notin {"s", "c", "%"} => Converted(c, x, w) = << >>
    BY <1>2 DEF Converted
  <2>2. put_str(x.s) \in Seq(Char) /\ put_char(x.c) \in Seq(Char)
    <3>1. x.s \in Seq(Char) /\ x.c \in Char
      BY DEF Arguments
    <3> QED
      BY <3>1, PutStrType, CharFacts
  <2>3. <<"%">> \in Seq(Char) /\ << >> \in Seq(Char)
    BY OtherChars
  <2>4. Converted(c, x, w) \in Seq(Char)
    BY <2>1, <2>2, <2>3
  <2> QED
    BY <1>2, <2>1, <2>4
<1> QED
  BY <1>1, <1>2

\* How far a format can have been read.
Reads == [at : {"text", "width", "l"}, width : Nat, used : Nat, text : Seq(Char)]

\* The argument the letter of a directive takes, after what r has read.
ArgumentAt(r, a) == IF r.used < Len(a) THEN a[r.used + 1] ELSE NoArgument

\* It is an argument, even where the format asks for more than there are.
LEMMA ArgumentType ==
  ASSUME NEW r \in Reads, NEW a \in Seq(Arguments)
  PROVE  ArgumentAt(r, a) \in Arguments
<1>1. NoArgument \in Arguments
  BY OtherChars, CLibAssumption DEF NoArgument, Arguments
<1>2. r.used < Len(a) => r.used + 1 \in 1..Len(a)
  BY DEF Reads
<1> QED
  BY <1>1, <1>2, ElementOfSeq DEF ArgumentAt

\* Reading one more character, by the place in the format.
LEMMA ReadCharIs ==
  ASSUME NEW r \in Reads, NEW c \in Char, NEW a \in Seq(Arguments)
  PROVE  /\ ReadChar(r, c, a) \in Reads
         /\ r.at = "text" /\ c = "%" => ReadChar(r, c, a) = [r EXCEPT !.at = "width", !.width = 0]
         /\ r.at = "text" /\ c # "%" => ReadChar(r, c, a) = [r EXCEPT !.text = r.text \o put_char(c)]
         /\ r.at = "width" /\ IsDigit(c) =>
              ReadChar(r, c, a) = [r EXCEPT !.width = r.width * 10 + NumberOf(c)]
         /\ r.at # "text" /\ ~(r.at = "width" /\ IsDigit(c)) /\ c = "l" =>
              ReadChar(r, c, a) = [r EXCEPT !.at = "l"]
         /\ r.at # "text" /\ ~(r.at = "width" /\ IsDigit(c)) /\ c # "l" =>
              ReadChar(r, c, a) = [r EXCEPT !.at = "text",
                                            !.text = r.text \o Converted(c, ArgumentAt(r, a), r.width),
                                            !.used = IF TakesArgument(c) THEN r.used + 1 ELSE r.used]
<1>0. /\ r.at \in {"text", "width", "l"} /\ r.width \in Nat /\ r.used \in Nat /\ r.text \in Seq(Char)
      /\ r = [at |-> r.at, width |-> r.width, used |-> r.used, text |-> r.text]
  BY DEF Reads
<1>1. \A p, q \in Seq(Char) : p \o q \in Seq(Char)
  OBVIOUS
<1>2. CASE r.at = "text" /\ c = "%"
  <2>1. ReadChar(r, c, a) = [r EXCEPT !.at = "width", !.width = 0]
    BY <1>2 DEF ReadChar
  <2>2. [r EXCEPT !.at = "width", !.width = 0] \in Reads
    BY DEF Reads
  <2> QED
    BY <1>2, <2>1, <2>2
<1>3. CASE r.at = "text" /\ c # "%"
  <2>1. ReadChar(r, c, a) = [r EXCEPT !.text = r.text \o put_char(c)]
    BY <1>3 DEF ReadChar
  <2>2. PICK t \in Seq(Char) : t = r.text \o put_char(c)
    BY <1>0, <1>1, CharFacts
  <2>3. [r EXCEPT !.text = t] \in Reads
    BY DEF Reads
  <2> QED
    BY <1>3, <2>1, <2>2, <2>3
<1>4. CASE r.at = "width" /\ IsDigit(c)
  <2>1. ReadChar(r, c, a) = [r EXCEPT !.width = r.width * 10 + NumberOf(c)]
    BY <1>4 DEF ReadChar
  <2>2. PICK w \in Nat : w = r.width * 10 + NumberOf(c)
    BY <1>0, <1>4, CharFacts
  <2>3. [r EXCEPT !.width = w] \in Reads
    BY DEF Reads
  <2> QED
    BY <1>4, <2>1, <2>2, <2>3
<1>5. CASE r.at # "text" /\ ~(r.at = "width" /\ IsDigit(c)) /\ c = "l"
  <2>1. ReadChar(r, c, a) = [r EXCEPT !.at = "l"]
    BY <1>5 DEF ReadChar
  <2>2. [r EXCEPT !.at = "l"] \in Reads
    BY DEF Reads
  <2> QED
    BY <1>5, <2>1, <2>2
<1>6. CASE r.at # "text" /\ ~(r.at = "width" /\ IsDigit(c)) /\ c # "l"
  <2> DEFINE t == r.text \o Converted(c, ArgumentAt(r, a), r.width)
             u == IF TakesArgument(c) THEN r.used + 1 ELSE r.used
  <2>1. ReadChar(r, c, a) = [r EXCEPT !.at = "text", !.text = t, !.used = u]
    BY <1>6 DEF ReadChar, ArgumentAt
  <2>2. t \in Seq(Char)
    BY <1>0, <1>1, ArgumentType, ConvertedIs
  <2>3. u \in Nat
    BY <1>0
  <2> HIDE DEF t, u
  <2>4. [r EXCEPT !.at = "text", !.text = t, !.used = u] \in Reads
    BY <2>2, <2>3 DEF Reads
  <2> QED
    BY <1>6, <2>1, <2>4 DEF t, u
<1> QED
  BY <1>0, <1>2, <1>3, <1>4, <1>5, <1>6

\* Reading a format goes on from one character to the next.
LEMMA ReadFollows ==
  ASSUME NEW f \in Seq(Char), NEW a \in Seq(Arguments)
  PROVE  /\ \A k \in 0..Len(f) : ReadUpTo(f, a)[k] \in Reads
         /\ ReadUpTo(f, a)[0] = [at |-> "text", width |-> 0, used |-> 0, text |-> << >>]
         /\ \A k \in 1..Len(f) : ReadUpTo(f, a)[k] = ReadChar(ReadUpTo(f, a)[k-1], f[k], a)
<1> DEFINE n == Len(f)
           z == [at |-> "text", width |-> 0, used |-> 0, text |-> << >>]
           P(h) == h = [k \in 0..n |-> IF k = 0 THEN z ELSE ReadChar(h[k-1], f[k], a)]
           g == [k \in 1..n |-> [u \in Reads |-> ReadChar(u, f[k], a)]]
<1>1. n \in Nat /\ \A k \in 1..n : f[k] \in Char
  BY ElementOfSeq
<1>2. z \in Reads
  BY DEF Reads
<1>3. ReadUpTo(f, a) = CHOOSE h : P(h)
  BY DEF ReadUpTo
<1> HIDE DEF n, z
<1>4. ASSUME NEW k \in 1..n, NEW u \in Reads PROVE ReadChar(u, f[k], a) \in Reads
  BY <1>1, ReadCharIs
<1>5. g \in [1..n -> [Reads -> Reads]]
  BY <1>4
<1>6. \A k \in 1..n, u \in Reads : g[k][u] = ReadChar(u, f[k], a)
  OBVIOUS
<1> HIDE DEF g
<1>7. PICK q : IsFiniteRecursion(q, Reads, n, z, g)
  BY <1>1, <1>2, <1>5, FiniteRecursion
<1>8. ASSUME NEW k \in 0..n PROVE q[k] = IF k = 0 THEN z ELSE ReadChar(q[k-1], f[k], a)
  <2>1. CASE k = 0
    BY <1>7, <2>1 DEF IsFiniteRecursion
  <2>2. CASE k # 0
    <3>1. k \in 1..n /\ k - 1 \in 0..n
      BY <1>1, <2>2
    <3>2. q[k - 1] \in Reads /\ q[k] = g[k][q[k - 1]]
      BY <1>7, <3>1 DEF IsFiniteRecursion
    <3> QED
      BY <1>6, <2>2, <3>1, <3>2
  <2> QED
    BY <2>1, <2>2
<1>9. P(q)
  BY <1>7, <1>8 DEF IsFiniteRecursion
<1> DEFINE d == CHOOSE h : P(h)
<1>10. P(d)
  BY <1>9
<1>11. \A k \in 0..n : d[k] = IF k = 0 THEN z ELSE ReadChar(d[k-1], f[k], a)
  BY <1>10
<1> HIDE DEF d
<1>12. d[0] = z
  BY <1>1, <1>11
<1>13. ASSUME NEW k \in 1..n PROVE d[k] = ReadChar(d[k-1], f[k], a)
  <2>1. k \in 0..n /\ k # 0
    BY <1>1
  <2> QED
    BY <1>11, <2>1
<1> DEFINE T == {k \in 0..n : d[k] \in Reads}
<1>14. 0 \in T
  BY <1>1, <1>2, <1>12
<1>15. ASSUME NEW k \in 1..n, k - 1 \in T PROVE k \in T
  BY <1>4, <1>13, <1>15
<1> HIDE DEF T
<1>16. \A k \in 0..n : k \in T
  BY <1>1, <1>14, <1>15, FiniteInduction
<1>17. \A k \in 0..n : d[k] \in Reads
  BY <1>16 DEF T
<1>18. ReadUpTo(f, a) = d
  BY <1>3 DEF d
<1> QED
  BY <1>12, <1>13, <1>17, <1>18 DEF n, z

(***************************************************************************)
(* Texts.                                                                  *)
(***************************************************************************)
\* The reverse of a text is a text.
LEMMA ReverseIs ==
  ASSUME NEW p \in Seq(Char)
  PROVE  /\ Reverse(p) \in Seq(Char) /\ Len(Reverse(p)) = Len(p)
         /\ \A i \in 1..Len(p) : Reverse(p)[i] = p[(Len(p) - i) + 1]
<1>1. Len(p) \in Nat /\ \A i \in 1..Len(p) : p[i] \in Char
  BY ElementOfSeq
<1>2. \A i \in 1..Len(p) : p[(Len(p) - i) + 1] \in Char
  BY <1>1
<1>3. Reverse(p) \in [1..Len(p) -> Char]
  BY <1>2 DEF Reverse
<1>4. Reverse(p) \in Seq(Char) /\ Len(Reverse(p)) = Len(p)
  BY <1>1, <1>3
<1> QED
  BY <1>4 DEF Reverse

\* A text of one character.
LEMMA OneChar ==
  ASSUME NEW e \in Char
  PROVE  <<e>> \in Seq(Char) /\ Len(<<e>>) = 1 /\ <<e>>[1] = e
  OBVIOUS

\* A character moves from the end of one text to the front of the next.
LEMMA JoinAppend ==
  ASSUME NEW p \in Seq(Char), NEW q \in Seq(Char), NEW e \in Char
  PROVE  Append(p, e) \o q = p \o (<<e>> \o q)
<1>1. Append(p, e) = p \o <<e>>
  BY AppendIsConcat
<1>2. <<e>> \in Seq(Char)
  BY OneChar
<1> QED
  BY <1>1, <1>2, ConcatAssociative

\* The last character of a text is the first of its reverse.
LEMMA ReverseAppend ==
  ASSUME NEW p \in Seq(Char), NEW e \in Char
  PROVE  Reverse(Append(p, e)) = <<e>> \o Reverse(p)
<1> DEFINE n == Len(p)
           s == Append(p, e)
           l == Reverse(s)
           r == <<e>> \o Reverse(p)
<1>1. /\ n \in Nat /\ s \in Seq(Char) /\ Len(s) = n + 1
      /\ \A i \in 1..n : s[i] = p[i]
      /\ s[n + 1] = e
  BY AppendProperties
<1>2. Reverse(p) \in Seq(Char) /\ Len(Reverse(p)) = n /\ \A i \in 1..n : Reverse(p)[i] = p[(n - i) + 1]
  BY ReverseIs
<1> HIDE DEF s
<1>3. l \in Seq(Char) /\ Len(l) = n + 1 /\ \A i \in 1..(n + 1) : l[i] = s[((n + 1) - i) + 1]
  BY <1>1, ReverseIs
<1>4. /\ r \in Seq(Char) /\ Len(r) = 1 + n
      /\ \A i \in 1..(1 + n) : r[i] = IF i <= 1 THEN e ELSE Reverse(p)[i - 1]
  <2>1. <<e>> \in Seq(Char) /\ Len(<<e>>) = 1 /\ <<e>>[1] = e
    BY OneChar
  <2>2. /\ r \in Seq(Char) /\ Len(r) = 1 + n
        /\ \A i \in 1..(1 + n) : r[i] = IF i <= 1 THEN <<e>>[i] ELSE Reverse(p)[i - 1]
    BY <1>2, <2>1, ConcatProperties
  <2>3. \A i \in 1..(1 + n) : i <= 1 => <<e>>[i] = e
    BY <1>1, <2>1
  <2> QED
    BY <2>2, <2>3
<1> HIDE DEF l, r, n
<1>5. ASSUME NEW i \in 1..(n + 1) PROVE l[i] = r[i]
  <2>1. CASE i = 1
    <3>1. ((n + 1) - i) + 1 = n + 1 /\ i <= 1 /\ i \in 1..(1 + n)
      BY <1>1, <2>1
    <3> QED
      BY <1>1, <1>3, <1>4, <3>1
  <2>2. CASE i # 1
    <3>1. /\ i - 1 \in 1..n /\ ~(i <= 1) /\ i \in 1..(1 + n)
          /\ ((n + 1) - i) + 1 \in 1..n /\ (n - (i - 1)) + 1 = ((n + 1) - i) + 1
      BY <1>1, <2>2
    <3>2. l[i] = p[((n + 1) - i) + 1]
      BY <1>1, <1>3, <3>1
    <3>3. r[i] = p[(n - (i - 1)) + 1]
      BY <1>2, <1>4, <3>1
    <3> QED
      BY <3>1, <3>2, <3>3
  <2> QED
    BY <2>1, <2>2
<1>6. Len(l) = Len(r) /\ \A i \in 1..Len(l) : l[i] = r[i]
  BY <1>1, <1>3, <1>4, <1>5
<1>7. l = r
  BY <1>3, <1>4, <1>6, SeqEqual
<1> QED
  BY <1>7 DEF l, r, s

\* The same of a text that is not empty.
LEMMA ReverseFront ==
  ASSUME NEW p \in Seq(Char), p # << >>
  PROVE  /\ Last(p) \in Char /\ Front(p) \in Seq(Char) /\ Len(Front(p)) = Len(p) - 1
         /\ Reverse(p) = <<Last(p)>> \o Reverse(Front(p))
<1>1. PICK s \in Seq(Char), e \in Char : p = Append(s, e)
  BY SequenceEmptyOrAppend
<1>2. Len(p) = Len(s) + 1 /\ p[Len(s) + 1] = e /\ Len(s) \in Nat /\ \A i \in 1..Len(s) : p[i] = s[i] /\ s[i] \in Char
  BY <1>1, AppendProperties, ElementOfSeq
<1>3. Last(p) = e
  BY <1>2 DEF Last
<1>4. Front(p) = s
  <2>1. Front(p) = SubSeq(p, 1, Len(s))
    BY <1>2 DEF Front
  <2>2. \A i \in 1..Len(s) : p[i] \in Char
    BY <1>2
  <2>3. 1 \in Int /\ Len(s) \in Int
    BY <1>2
  <2>4. /\ SubSeq(p, 1, Len(s)) \in Seq(Char)
        /\ Len(SubSeq(p, 1, Len(s))) = IF 1 <= Len(s) THEN Len(s) - 1 + 1 ELSE 0
        /\ \A i \in 1..(Len(s) - 1 + 1) : SubSeq(p, 1, Len(s))[i] = p[1 + i - 1]
    BY <2>2, <2>3, SubSeqProperties
  <2> DEFINE t == SubSeq(p, 1, Len(s))
  <2>5. t \in Seq(Char) /\ Len(t) = Len(s)
    BY <1>2, <2>4
  <2>6. \A i \in 1..Len(t) : t[i] = s[i]
    BY <1>2, <2>4, <2>5
  <2> HIDE DEF t
  <2>7. t = s
    BY <2>5, <2>6, SeqEqual
  <2> QED
    BY <2>1, <2>7 DEF t
<1>5. Reverse(p) = <<e>> \o Reverse(s)
  BY <1>1, ReverseAppend
<1> QED
  BY <1>2, <1>3, <1>4, <1>5

\* A leading zero is the last zero before the rest.
LEMMA NoughtMore ==
  ASSUME NEW k \in Nat, k > 0, NEW q \in Seq(Char)
  PROVE  Noughts(k) \o q = Noughts(k - 1) \o (<<"0">> \o q)
<1>1. k - 1 \in Nat /\ k \in Int /\ k - 1 \in Int
  OBVIOUS
<1>2. /\ Noughts(k) \in Seq(Char) /\ Len(Noughts(k)) = k
      /\ \A j \in 1..k : Noughts(k)[j] = "0"
  BY <1>1, NoughtsType
<1>3. /\ Noughts(k - 1) \in Seq(Char) /\ Len(Noughts(k - 1)) = k - 1
      /\ \A j \in 1..(k - 1) : Noughts(k - 1)[j] = "0"
  <2>1. Len(Noughts(k - 1)) = IF k - 1 > 0 THEN k - 1 ELSE 0
    BY <1>1, NoughtsType
  <2>2. Len(Noughts(k - 1)) = k - 1
    BY <1>1, <2>1
  <2> QED
    BY <1>1, <2>2, NoughtsType
<1> DEFINE a == Noughts(k)
           b == Noughts(k - 1)
           s == Append(b, "0")
<1> HIDE DEF a, b
<1>4. a \in Seq(Char) /\ Len(a) = k /\ \A j \in 1..k : a[j] = "0"
  BY <1>2 DEF a
<1>5. b \in Seq(Char) /\ Len(b) = k - 1 /\ \A j \in 1..(k - 1) : b[j] = "0"
  BY <1>3 DEF b
<1>6. "0" \in Char
  BY OtherChars
<1>7. s \in Seq(Char) /\ Len(s) = Len(b) + 1 /\ s[Len(b) + 1] = "0" /\ \A j \in 1..Len(b) : s[j] = b[j]
  BY <1>5, <1>6, AppendProperties
<1> HIDE DEF s
<1>8. \A j \in 1..Len(a) : a[j] = s[j]
  <2> SUFFICES ASSUME NEW j \in 1..Len(a) PROVE a[j] = s[j]
    OBVIOUS
  <2>1. j \in 1..k
    BY <1>4
  <2>2. CASE j = k
    BY <1>1, <1>4, <1>5, <1>7, <2>2
  <2>3. CASE j # k
    <3>1. j \in 1..(k - 1) /\ j \in 1..Len(b)
      BY <1>1, <1>5, <2>1, <2>3
    <3> QED
      BY <1>4, <1>5, <1>7, <2>1, <3>1
  <2> QED
    BY <2>2, <2>3
<1>9. Len(a) = Len(s)
  BY <1>1, <1>4, <1>5, <1>7
<1>10. a = s
  BY <1>4, <1>7, <1>8, <1>9, SeqEqual
<1>11. s \o q = b \o (<<"0">> \o q)
  BY <1>5, <1>6, JoinAppend DEF s
<1> QED
  BY <1>10, <1>11 DEF a, b

\* s is what follows the first k elements of t.
IsRest(s, t, k) ==
  k \in Nat /\ k <= Len(t) /\ Len(s) = Len(t) - k /\ \A i \in 1..Len(s) : s[i] = t[k + i]

\* What follows one element more.
LEMMA RestTail ==
  ASSUME NEW S, NEW t \in Seq(S), NEW s \in Seq(S), NEW k, IsRest(s, t, k), s # << >>
  PROVE  /\ Tail(s) \in Seq(S) /\ IsRest(Tail(s), t, k + 1)
         /\ k + 1 \in 1..Len(t) /\ Head(s) = t[k + 1] /\ s[1] = t[k + 1] /\ s[1] \in S /\ k < Len(t)
<1>1. /\ Len(s) \in Nat /\ Len(s) > 0 /\ Len(t) \in Nat /\ k \in Nat /\ k <= Len(t) /\ Len(s) = Len(t) - k
      /\ \A i \in 1..Len(s) : s[i] = t[k + i]
  BY EmptySeq, LenProperties DEF IsRest
<1>2. Tail(s) \in Seq(S) /\ Len(Tail(s)) = Len(s) - 1 /\ \A i \in 1..Len(Tail(s)) : Tail(s)[i] = s[i + 1]
  BY HeadTailProperties
<1>3. 1 \in 1..Len(s) /\ k + 1 \in 1..Len(t) /\ k < Len(t)
  BY <1>1
<1>4. s[1] = t[k + 1] /\ s[1] \in S /\ Head(s) = s[1]
  BY <1>1, <1>3, ElementOfSeq
<1>5. ASSUME NEW i \in 1..Len(Tail(s)) PROVE Tail(s)[i] = t[(k + 1) + i]
  <2>1. i + 1 \in 1..Len(s) /\ k + (i + 1) = (k + 1) + i
    BY <1>1, <1>2
  <2>2. Tail(s)[i] = s[i + 1]
    BY <1>2
  <2>3. s[i + 1] = t[k + (i + 1)]
    BY <1>1, <2>1
  <2> QED
    BY <2>1, <2>2, <2>3
<1>6. IsRest(Tail(s), t, k + 1)
  BY <1>1, <1>2, <1>3, <1>5 DEF IsRest
<1> QED
  BY <1>2, <1>3, <1>4, <1>6

(***************************************************************************)
(* The invariant of printf.                                                *)
(***************************************************************************)
\* The format of the call under way, read up to character k.
ReadTo(k) == ReadUpTo(call.fmt, call.args)[k]

\* Text t with zeros up to the field of the number at hand.
ToWidth(t) == Noughts(Field(width, base) - Len(t)) \o t

\* Types.
PrintTypeOK ==
  /\ width \in Nat /\ v \in Nat /\ base \in {10, 16} /\ buf \in Seq(Char) /\ out \in Seq(Char)

\* The characters and the arguments that are left, after k characters.
LeftAt(k) ==
  /\ fmt \in Seq(Char) /\ args \in Seq(Arguments)
  /\ IsRest(fmt, call.fmt, k) /\ IsRest(args, call.args, ReadTo(k).used)

\* What is printed, together with what is still to come of a number, is the text.
TextAt(k) ==
  /\ pc = "printf" => ReadTo(k).at = "text" /\ ReadTo(k).text = out
  /\ pc \in {"width", "l"} =>
       ReadTo(k).at = pc /\ ReadTo(k).width = width /\ ReadTo(k).text = out
  /\ pc = "digits" =>
       /\ ReadTo(k).at = "text"
       /\ ReadTo(k).text = out \o ToWidth(DigitsOf(v, base) \o Reverse(buf))
       /\ Len(DigitsOf(v, base)) + Len(buf) <= BufSize
  /\ pc = "pad" => ReadTo(k).at = "text" /\ ReadTo(k).text = out \o ToWidth(Reverse(buf))
  /\ pc = "emit" => ReadTo(k).at = "text" /\ ReadTo(k).text = out \o Reverse(buf)

PrintInv ==
  /\ PrintTypeOK
  /\ pc \notin {"digits", "pad", "emit"} => buf = << >>
  /\ Len(buf) <= BufSize
  /\ pc \in PrintfStates => InPrintf /\ \E k \in Nat : LeftAt(k) /\ TextAt(k)
  /\ pc = "returned" /\ call.f = "printf" => out = Meant(call.spec)

\* What a legal printf is given.
LEMMA LegalPrintf ==
  ASSUME NEW c \in Calls, c.f = "printf"
  PROVE  /\ c.fmt \in Seq(Char) /\ c.args \in Seq(Arguments) /\ {"fmt", "args"} \subseteq DOMAIN c
         /\ \A k \in 0..Len(c.fmt) : ReadUpTo(c.fmt, c.args)[k].used <= Len(c.args)
         /\ ReadUpTo(c.fmt, c.args)[Len(c.fmt)].text = Meant(c.spec)
<1>1. Legal(c)
  BY CallsLegal
<1> QED
  BY <1>1 DEF Legal

\* The buffers have a size.
LEMMA BufSizes == \A b \in {10, 16} : BufOf(b) \in Nat
  BY CLibAssumption DEF BufOf

\* The next character of the format, and what reading it does.
LEMMA Reading ==
  ASSUME call \in Calls, call.f = "printf", fmt \in Seq(Char), NEW k \in Nat, IsRest(fmt, call.fmt, k),
         fmt # << >>
  PROVE  /\ ReadTo(k) \in Reads /\ ReadTo(k + 1) \in Reads /\ fmt[1] \in Char
         /\ ReadTo(k + 1) = ReadChar(ReadTo(k), fmt[1], call.args)
         /\ ReadTo(k + 1).used <= Len(call.args) /\ ReadTo(k).used <= Len(call.args)
         /\ Tail(fmt) \in Seq(Char) /\ IsRest(Tail(fmt), call.fmt, k + 1)
<1>1. call.fmt \in Seq(Char) /\ call.args \in Seq(Arguments)
  BY LegalPrintf
<1>2. \A j \in 0..Len(call.fmt) : ReadUpTo(call.fmt, call.args)[j].used <= Len(call.args)
  BY LegalPrintf
<1>3. /\ Tail(fmt) \in Seq(Char) /\ IsRest(Tail(fmt), call.fmt, k + 1)
      /\ k + 1 \in 1..Len(call.fmt) /\ fmt[1] = call.fmt[k + 1] /\ fmt[1] \in Char
  BY <1>1, RestTail
<1>4. k \in 0..Len(call.fmt) /\ k + 1 \in 0..Len(call.fmt) /\ (k + 1) - 1 = k
  BY <1>3
<1>5. /\ \A j \in 0..Len(call.fmt) : ReadUpTo(call.fmt, call.args)[j] \in Reads
      /\ \A j \in 1..Len(call.fmt) :
           ReadUpTo(call.fmt, call.args)[j]
             = ReadChar(ReadUpTo(call.fmt, call.args)[j-1], call.fmt[j], call.args)
  BY <1>1, ReadFollows
<1>6. ReadTo(k) \in Reads /\ ReadTo(k + 1) \in Reads
  BY <1>4, <1>5 DEF ReadTo
<1>7. ReadTo(k + 1) = ReadChar(ReadTo(k), call.fmt[k + 1], call.args)
  BY <1>3, <1>4, <1>5 DEF ReadTo
<1>8. ReadTo(k + 1).used <= Len(call.args) /\ ReadTo(k).used <= Len(call.args)
  BY <1>2, <1>4 DEF ReadTo
<1> QED
  BY <1>3, <1>6, <1>7, <1>8

(***************************************************************************)
(* The steps of printf.                                                    *)
(***************************************************************************)
\* A printf under way.
LEMMA Printing ==
  ASSUME PrintInv, pc \in PrintfStates
  PROVE  /\ call \in Calls /\ call.f = "printf" /\ call.args \in Seq(Arguments)
         /\ \E k \in Nat : LeftAt(k) /\ TextAt(k)
<1>1. call \in Calls /\ call.f = "printf" /\ \E k \in Nat : LeftAt(k) /\ TextAt(k)
  BY DEF PrintInv, InPrintf
<1> QED
  BY <1>1, LegalPrintf

\* What a step of printf that is not its return must keep.
LEMMA PrintingOn ==
  ASSUME call \in Calls, call.f = "printf", call' = call, pc' \in PrintfStates, PrintTypeOK',
         pc' \notin {"digits", "pad", "emit"} => buf' = << >>, Len(buf') <= BufSize',
         NEW k \in Nat, LeftAt(k)', TextAt(k)'
  PROVE  PrintInv'
<1>1. InPrintf'
  BY DEF InPrintf
<1>2. pc' # "returned"
  BY DEF PrintfStates
<1> QED
  BY <1>1, <1>2 DEF PrintInv

\* One character, the "%" of a directive, or the end of the format.
LEMMA printfStep == PrintInv /\ printf => PrintInv'
<1> SUFFICES ASSUME PrintInv, printf PROVE PrintInv'
  OBVIOUS
<1>1. /\ pc = "printf" /\ UNCHANGED <<call, args, v, base, buf>>
      /\ buf = << >> /\ PrintTypeOK /\ Len(buf) <= BufSize
  BY DEF printf, PrintInv
<1>2. call \in Calls /\ call.f = "printf" /\ call.args \in Seq(Arguments)
  BY <1>1, Printing DEF PrintfStates
<1>3. PICK k \in Nat : LeftAt(k) /\ TextAt(k)
  BY <1>1, Printing DEF PrintfStates
<1>4. ReadTo(k).at = "text" /\ ReadTo(k).text = out
  BY <1>1, <1>3 DEF TextAt
<1>5. /\ fmt \in Seq(Char) /\ args \in Seq(Arguments)
      /\ IsRest(fmt, call.fmt, k) /\ IsRest(args, call.args, ReadTo(k).used)
  BY <1>3 DEF LeftAt
<1>6. CASE fmt = << >>
  <2>1. pc' = "returned" /\ UNCHANGED <<out, width>>
    BY <1>6 DEF printf
  <2>2. call.fmt \in Seq(Char) /\ ReadUpTo(call.fmt, call.args)[Len(call.fmt)].text = Meant(call.spec)
    BY <1>2, LegalPrintf
  <2>3. k = Len(call.fmt)
    <3>1. Len(fmt) = 0
      BY <1>6
    <3>2. Len(fmt) = Len(call.fmt) - k /\ Len(call.fmt) \in Nat
      BY <1>5, <2>2, LenProperties DEF IsRest
    <3> QED
      BY <3>1, <3>2
  <2>4. out = Meant(call.spec)
    BY <1>4, <2>2, <2>3 DEF ReadTo
  <2>5. out' = Meant(call'.spec)
    BY <1>1, <2>1, <2>4
  <2>6. PrintTypeOK' /\ Len(buf') <= BufSize' /\ buf' = << >>
    BY <1>1, <2>1 DEF PrintTypeOK, BufSize
  <2> QED
    BY <2>1, <2>5, <2>6 DEF PrintInv, PrintfStates
<1>7. CASE fmt # << >>
  <2>1. /\ ReadTo(k) \in Reads /\ fmt[1] \in Char
        /\ ReadTo(k + 1) = ReadChar(ReadTo(k), fmt[1], call.args)
        /\ Tail(fmt) \in Seq(Char) /\ IsRest(Tail(fmt), call.fmt, k + 1)
    BY <1>2, <1>5, <1>7, Reading
  <2>2. fmt' = Tail(fmt)
    BY <1>7 DEF printf
  <2>3. ReadTo(k + 1)' = ReadTo(k + 1)
    BY <1>1 DEF ReadTo
  <2>4. CASE fmt[1] = "%"
    <3>1. width' = 0 /\ pc' = "width" /\ UNCHANGED out
      BY <1>7, <2>4 DEF printf, IsNext
    <3>2. ReadTo(k + 1) = [ReadTo(k) EXCEPT !.at = "width", !.width = 0]
      <4>1. PICK r \in Reads, c \in Char : r = ReadTo(k) /\ c = fmt[1]
        BY <2>1
      <4>2. r.at = "text" /\ c = "%"
        BY <1>4, <2>4, <4>1
      <4>3. r.at = "text" /\ c = "%" =>
              ReadChar(r, c, call.args) = [r EXCEPT !.at = "width", !.width = 0]
        BY <1>2, ReadCharIs, ZenonT(60)
      <4> QED
        BY <2>1, <4>1, <4>2, <4>3
    <3>3. /\ ReadTo(k + 1).at = "width" /\ ReadTo(k + 1).width = 0
          /\ ReadTo(k + 1).used = ReadTo(k).used /\ ReadTo(k + 1).text = out
      BY <1>4, <2>1, <3>2 DEF Reads
    <3>4. LeftAt(k + 1)'
      BY <1>1, <1>5, <2>1, <2>2, <2>3, <3>3 DEF LeftAt
    <3>5. TextAt(k + 1)'
      BY <2>3, <3>1, <3>3 DEF TextAt
    <3>6. PrintTypeOK' /\ Len(buf') <= BufSize' /\ buf' = << >>
      BY <1>1, <3>1 DEF PrintTypeOK, BufSize
    <3>7. pc' \in PrintfStates /\ k + 1 \in Nat
      BY <3>1 DEF PrintfStates
    <3> QED
      BY <1>1, <1>2, <3>4, <3>5, <3>6, <3>7, PrintingOn
  <2>5. CASE fmt[1] # "%"
    <3>1. out' = out \o put_char(fmt[1]) /\ UNCHANGED <<pc, width>>
      BY <1>7, <2>5 DEF printf, IsNext
    <3>2. ReadTo(k + 1) = [ReadTo(k) EXCEPT !.text = ReadTo(k).text \o put_char(fmt[1])]
      BY <1>2, <1>4, <2>1, <2>5, ReadCharIs
    <3>3. /\ ReadTo(k + 1).at = "text"
          /\ ReadTo(k + 1).used = ReadTo(k).used /\ ReadTo(k + 1).text = out'
      BY <1>4, <2>1, <3>1, <3>2 DEF Reads
    <3>4. LeftAt(k + 1)'
      BY <1>1, <1>5, <2>1, <2>2, <2>3, <3>3 DEF LeftAt
    <3>5. TextAt(k + 1)'
      BY <1>1, <2>3, <3>1, <3>3 DEF TextAt
    <3>6. out' \in Seq(Char)
      <4>1. put_char(fmt[1]) \in Seq(Char) /\ out \in Seq(Char)
        BY <1>1, <2>1, CharFacts DEF PrintTypeOK
      <4> QED
        BY <3>1, <4>1, ConcatProperties
    <3>7. PrintTypeOK' /\ Len(buf') <= BufSize' /\ buf' = << >>
      BY <1>1, <3>1, <3>6 DEF PrintTypeOK, BufSize
    <3>8. pc' \in PrintfStates /\ k + 1 \in Nat
      BY <1>1, <3>1 DEF PrintfStates
    <3> QED
      BY <1>1, <1>2, <3>4, <3>5, <3>7, <3>8, PrintingOn
  <2> QED
    BY <2>4, <2>5
<1> QED
  BY <1>6, <1>7

\* One digit of the width, or one l.
LEMMA ModifierStep == PrintInv /\ Modifier => PrintInv'
<1> SUFFICES ASSUME PrintInv, Modifier PROVE PrintInv'
  OBVIOUS
<1>1. /\ pc \in {"width", "l"} /\ UNCHANGED <<call, args, v, base, buf, out>> /\ fmt # << >>
      /\ buf = << >> /\ PrintTypeOK /\ Len(buf) <= BufSize /\ fmt' = Tail(fmt)
  BY DEF Modifier, PrintInv
<1>2. call \in Calls /\ call.f = "printf" /\ call.args \in Seq(Arguments)
  BY <1>1, Printing DEF PrintfStates
<1>3. PICK k \in Nat : LeftAt(k) /\ TextAt(k)
  BY <1>1, Printing DEF PrintfStates
<1>4. ReadTo(k).at = pc /\ ReadTo(k).width = width /\ ReadTo(k).text = out
  BY <1>1, <1>3 DEF TextAt
<1>5. /\ fmt \in Seq(Char) /\ args \in Seq(Arguments)
      /\ IsRest(fmt, call.fmt, k) /\ IsRest(args, call.args, ReadTo(k).used)
  BY <1>3 DEF LeftAt
<1>6. /\ ReadTo(k) \in Reads /\ fmt[1] \in Char
      /\ ReadTo(k + 1) = ReadChar(ReadTo(k), fmt[1], call.args)
      /\ Tail(fmt) \in Seq(Char) /\ IsRest(Tail(fmt), call.fmt, k + 1)
  BY <1>1, <1>2, <1>5, Reading
<1>7. ReadTo(k + 1)' = ReadTo(k + 1)
  BY <1>1 DEF ReadTo
<1>8. /\ pc' \in {"width", "l"} /\ width' \in Nat
      /\ ReadTo(k + 1).at = pc' /\ ReadTo(k + 1).width = width'
      /\ ReadTo(k + 1).used = ReadTo(k).used /\ ReadTo(k + 1).text = out
  <2>1. CASE pc = "width" /\ IsDigit(fmt[1]) /\ width' = width * 10 + NumberOf(fmt[1]) /\ pc' = pc
    <3>1. ReadTo(k + 1) = [ReadTo(k) EXCEPT !.width = ReadTo(k).width * 10 + NumberOf(fmt[1])]
      <4>1. PICK r \in Reads, c \in Char : r = ReadTo(k) /\ c = fmt[1]
        BY <1>6
      <4>2. r.at = "width" /\ IsDigit(c)
        BY <1>4, <2>1, <4>1
      <4>3. r.at = "width" /\ IsDigit(c) =>
              ReadChar(r, c, call.args) = [r EXCEPT !.width = r.width * 10 + NumberOf(c)]
        BY <1>2, ReadCharIs, ZenonT(60)
      <4> QED
        BY <1>6, <4>1, <4>2, <4>3
    <3>2. NumberOf(fmt[1]) \in Nat /\ width \in Nat
      BY <1>1, <1>6, <2>1, CharFacts DEF PrintTypeOK
    <3>3. width' \in Nat
      BY <2>1, <3>2
    <3>4. ReadTo(k + 1) = [ReadTo(k) EXCEPT !.width = width']
      BY <1>4, <2>1, <3>1
    <3> QED
      BY <1>4, <1>6, <2>1, <3>3, <3>4 DEF Reads
  <2>2. CASE fmt[1] = "l" /\ pc' = "l" /\ UNCHANGED width
    <3>1. ~IsDigit(fmt[1])
      BY <2>2 DEF IsDigit, hex
    <3>2. ReadTo(k + 1) = [ReadTo(k) EXCEPT !.at = "l"]
      BY <1>1, <1>2, <1>4, <1>6, <2>2, <3>1, ReadCharIs
    <3>3. width' \in Nat
      BY <1>1, <2>2 DEF PrintTypeOK
    <3> QED
      BY <1>4, <1>6, <2>2, <3>2, <3>3 DEF Reads
  <2> QED
    BY <2>1, <2>2 DEF Modifier
<1>9. LeftAt(k + 1)'
  BY <1>1, <1>5, <1>6, <1>7, <1>8 DEF LeftAt
<1>10. TextAt(k + 1)'
  BY <1>1, <1>7, <1>8 DEF TextAt
<1>11. PrintTypeOK' /\ Len(buf') <= BufSize' /\ buf' = << >>
  BY <1>1, <1>8 DEF PrintTypeOK, BufSize
<1>12. pc' \in PrintfStates /\ k + 1 \in Nat
  BY <1>8 DEF PrintfStates
<1> QED
  BY <1>1, <1>2, <1>9, <1>10, <1>11, <1>12, PrintingOn

\* The argument of a directive is the next one that is left.
LEMMA ArgumentNext ==
  ASSUME NEW a \in Seq(Arguments), NEW s \in Seq(Arguments), NEW r \in Reads,
         IsRest(s, a, r.used), r.used + 1 <= Len(a)
  PROVE  /\ Head(s) = ArgumentAt(r, a) /\ Head(s) \in Arguments
         /\ Tail(s) \in Seq(Arguments) /\ IsRest(Tail(s), a, r.used + 1)
<1>1. r.used \in Nat /\ Len(a) \in Nat /\ Len(s) = Len(a) - r.used
  BY LenProperties DEF Reads, IsRest
<1>2. Len(s) > 0 /\ r.used < Len(a)
  BY <1>1
<1>3. s # << >>
  BY <1>2, EmptySeq
<1>4. Tail(s) \in Seq(Arguments) /\ IsRest(Tail(s), a, r.used + 1) /\ Head(s) = a[r.used + 1]
  BY <1>3, RestTail
<1>5. Head(s) \in Arguments
  BY <1>3, HeadTailProperties
<1> QED
  BY <1>2, <1>4, <1>5 DEF ArgumentAt

\* The parts of a number's text: sign, zeros, digits.
LEMMA NumberBegins ==
  ASSUME NEW c \in {"d", "u", "x"}, c \in Char, NEW x \in Arguments, NEW w \in Nat, NEW t \in Seq(Char)
  PROVE  t \o Converted(c, x, w)
           = (IF Minus(c, x) THEN Append(t, "-") ELSE t)
               \o (Noughts(Field(w, BaseOf(c)) - Len(DigitsOf(Magnitude(c, x), BaseOf(c))))
                     \o DigitsOf(Magnitude(c, x), BaseOf(c)))
<1> DEFINE sign == IF Minus(c, x) THEN <<"-">> ELSE << >>
           n == Numeral(Magnitude(c, x), BaseOf(c), Field(w, BaseOf(c)))
<1>1. Magnitude(c, x) \in Nat /\ BaseOf(c) \in {10, 16} /\ Field(w, BaseOf(c)) \in Nat
  BY MagnitudeFits
<1>2. /\ n = Noughts(Field(w, BaseOf(c)) - Len(DigitsOf(Magnitude(c, x), BaseOf(c))))
               \o DigitsOf(Magnitude(c, x), BaseOf(c))
      /\ n \in Seq(Char)
  BY <1>1, NumeralIs
<1>3. Converted(c, x, w) = sign \o n
  BY ConvertedIs
<1> HIDE DEF n
<1>4. CASE Minus(c, x)
  <2>1. sign = <<"-">> /\ "-" \in Char
    BY <1>4, OtherChars
  <2>2. Append(t, "-") \o n = t \o (<<"-">> \o n)
    BY <1>2, <2>1, JoinAppend
  <2> QED
    BY <1>2, <1>3, <1>4, <2>1, <2>2
<1>5. CASE ~Minus(c, x)
  <2>1. sign = << >>
    BY <1>5
  <2>2. << >> \o n = n
    BY <1>2, ConcatEmptySeq
  <2> QED
    BY <1>2, <1>3, <1>5, <2>1, <2>2
<1> QED
  BY <1>4, <1>5

\* The empty text changes nothing.
LEMMA EmptyText ==
  /\ Reverse(<< >>) = << >>
  /\ \A t \in Seq(Char) : t \o << >> = t /\ << >> \o t = t
<1>1. << >> \in Seq(Char) /\ Len(<< >>) = 0
  BY EmptySeq
<1>2. Reverse(<< >>) \in Seq(Char) /\ Len(Reverse(<< >>)) = 0
  BY <1>1, ReverseIs
<1> QED
  BY <1>2, EmptySeq, ConcatEmptySeq

\* The letter of a directive.
LEMMA DirectiveStep == PrintInv /\ Directive => PrintInv'
<1> SUFFICES ASSUME PrintInv, Directive PROVE PrintInv'
  OBVIOUS
<1>1. /\ pc \in {"width", "l"} /\ UNCHANGED <<call, width>> /\ fmt # << >> /\ fmt' = Tail(fmt)
      /\ fmt[1] # "l" /\ (pc = "width" => ~IsDigit(fmt[1]))
  BY DEF Directive
<1>2. buf = << >> /\ PrintTypeOK /\ Len(buf) <= BufSize
  BY <1>1 DEF PrintInv
<1>3. call \in Calls /\ call.f = "printf" /\ call.args \in Seq(Arguments)
  BY <1>1, Printing DEF PrintfStates
<1>4. PICK k \in Nat : LeftAt(k) /\ TextAt(k)
  BY <1>1, Printing DEF PrintfStates
<1>5. ReadTo(k).at = pc /\ ReadTo(k).width = width /\ ReadTo(k).text = out
  BY <1>1, <1>4 DEF TextAt
<1>6. /\ fmt \in Seq(Char) /\ args \in Seq(Arguments)
      /\ IsRest(fmt, call.fmt, k) /\ IsRest(args, call.args, ReadTo(k).used)
  BY <1>4 DEF LeftAt
<1>7. /\ ReadTo(k) \in Reads /\ fmt[1] \in Char
      /\ ReadTo(k + 1) = ReadChar(ReadTo(k), fmt[1], call.args) /\ ReadTo(k + 1).used <= Len(call.args)
      /\ Tail(fmt) \in Seq(Char) /\ IsRest(Tail(fmt), call.fmt, k + 1)
  BY <1>1, <1>3, <1>6, Reading
<1>8. ReadTo(k + 1)' = ReadTo(k + 1)
  BY <1>1 DEF ReadTo
<1>9. PICK r \in Reads, c \in Char, a \in Seq(Arguments) : r = ReadTo(k) /\ c = fmt[1] /\ a = call.args
  BY <1>3, <1>7
<1>10. r.at # "text" /\ ~(r.at = "width" /\ IsDigit(c)) /\ c # "l"
  BY <1>1, <1>5, <1>9
<1>11. r.at # "text" /\ ~(r.at = "width" /\ IsDigit(c)) /\ c # "l" =>
         ReadChar(r, c, a) = [r EXCEPT !.at = "text",
                                       !.text = r.text \o Converted(c, ArgumentAt(r, a), r.width),
                                       !.used = IF TakesArgument(c) THEN r.used + 1 ELSE r.used]
  BY ReadCharIs, ZenonT(60)
<1> DEFINE x == ArgumentAt(r, a)
<1>12. /\ ReadTo(k + 1).at = "text" /\ ReadTo(k + 1).text = out \o Converted(c, x, width)
       /\ ReadTo(k + 1).used = IF TakesArgument(c) THEN r.used + 1 ELSE r.used
  <2>1. ReadTo(k + 1) = [r EXCEPT !.at = "text",
                                  !.text = r.text \o Converted(c, x, r.width),
                                  !.used = IF TakesArgument(c) THEN r.used + 1 ELSE r.used]
    BY <1>7, <1>9, <1>10, <1>11
  <2>2. r.text = out /\ r.width = width
    BY <1>5, <1>9
  <2> HIDE DEF x
  <2> QED
    BY <2>1, <2>2 DEF Reads
<1>13. x \in Arguments
  BY ArgumentType
<1>14. TakesArgument(c) =>
         Head(args) = x /\ Tail(args) \in Seq(Arguments) /\ IsRest(Tail(args), a, r.used + 1)
  BY <1>6, <1>7, <1>9, <1>12, ArgumentNext
<1> HIDE DEF x
<1>15. width \in Nat /\ out \in Seq(Char)
  BY <1>2 DEF PrintTypeOK
<1>16. k + 1 \in Nat
  OBVIOUS
<1>17. ASSUME c \in {"d", "u", "x"} PROVE PrintInv'
  <2>1. TakesArgument(c)
    BY <1>17 DEF TakesArgument
  <2>2. /\ v' = IF Minus(c, x) THEN LONG - x.n ELSE x.n
        /\ out' = IF Minus(c, x) THEN Append(out, "-") ELSE out
        /\ base' = IF c = "x" THEN 16 ELSE 10
        /\ buf' = << >> /\ args' = Tail(args) /\ pc' = "digits"
    BY <1>9, <1>14, <1>17, <2>1 DEF Directive, Minus
  <2>3. v' = Magnitude(c, x) /\ base' = BaseOf(c)
    BY <2>2 DEF Magnitude, BaseOf
  <2>4. /\ Magnitude(c, x) \in Nat /\ BaseOf(c) \in {10, 16}
        /\ Len(DigitsOf(Magnitude(c, x), BaseOf(c))) <= BufOf(BaseOf(c))
    BY <1>13, <1>15, MagnitudeFits
  <2>5. DigitsOf(v', base') \in Seq(Char)
    BY <2>3, <2>4, DigitsFollow
  <2>6. LeftAt(k + 1)'
    BY <1>1, <1>7, <1>8, <1>9, <1>12, <1>14, <2>1, <2>2 DEF LeftAt
  <2>7. out \o Converted(c, x, width)
          = out' \o (Noughts(Field(width, base') - Len(DigitsOf(v', base'))) \o DigitsOf(v', base'))
    <3>1. out \o Converted(c, x, width)
            = (IF Minus(c, x) THEN Append(out, "-") ELSE out)
                \o (Noughts(Field(width, BaseOf(c)) - Len(DigitsOf(Magnitude(c, x), BaseOf(c))))
                      \o DigitsOf(Magnitude(c, x), BaseOf(c)))
      BY <1>13, <1>15, <1>17, NumberBegins
    <3> QED
      BY <2>2, <2>3, <3>1
  <2>8. DigitsOf(v', base') \o Reverse(buf') = DigitsOf(v', base')
    BY <2>2, <2>5, EmptyText
  <2>9. ReadTo(k + 1)'.text = out' \o ToWidth(DigitsOf(v, base) \o Reverse(buf))'
    BY <1>1, <1>8, <1>12, <2>7, <2>8 DEF ToWidth
  <2>10. Len(DigitsOf(v', base')) + Len(buf') <= BufOf(base')
    <3>1. Len(buf') = 0 /\ Len(DigitsOf(v', base')) \in Nat
      BY <2>2, <2>5, EmptySeq, LenProperties
    <3>2. Len(DigitsOf(v', base')) + 0 = Len(DigitsOf(v', base'))
      BY <3>1
    <3> QED
      BY <2>3, <2>4, <3>1, <3>2
  <2>11. TextAt(k + 1)'
    BY <1>8, <1>12, <2>2, <2>9, <2>10 DEF TextAt, BufSize
  <2>12. out' \in Seq(Char)
    BY <1>15, <2>2, OtherChars, AppendProperties
  <2>13. PrintTypeOK'
    BY <1>1, <1>15, <2>2, <2>3, <2>4, <2>12, EmptySeq DEF PrintTypeOK
  <2>14. Len(buf') <= BufSize'
    BY <2>2, <2>3, <2>4, BufSizes, EmptySeq DEF BufSize
  <2>15. pc' \in PrintfStates /\ pc' = "digits"
    BY <2>2 DEF PrintfStates
  <2> QED
    BY <1>1, <1>3, <1>16, <2>6, <2>11, <2>13, <2>14, <2>15, PrintingOn
<1>18. ASSUME c \notin {"d", "u", "x"} PROVE PrintInv'
  <2>1. pc' = "printf" /\ UNCHANGED <<v, base, buf>>
    BY <1>9, <1>18 DEF Directive
  <2>2. /\ Converted(c, x, width) \in Seq(Char)
        /\ c = "s" => Converted(c, x, width) = put_str(x.s)
        /\ c = "c" => Converted(c, x, width) = put_char(x.c)
        /\ c = "%" => Converted(c, x, width) = <<"%">>
        /\ c \notin {"s", "c", "%"} => Converted(c, x, width) = << >>
    BY <1>13, <1>15, <1>18, ConvertedIs
  <2>3. out' = out \o Converted(c, x, width)
    <3>1. CASE c \in {"s", "c"}
      <4>1. TakesArgument(c)
        BY <3>1 DEF TakesArgument
      <4>2. /\ c = "s" => out' = out \o put_str(x.s)
            /\ c = "c" => out' = out \o put_char(x.c)
        BY <1>9, <1>14, <3>1, <4>1 DEF Directive
      <4> QED
        BY <2>2, <3>1, <4>2
    <3>2. CASE c = "%"
      <4>1. out' = Append(out, "%")
        BY <1>9, <3>2 DEF Directive
      <4>2. Append(out, "%") = out \o <<"%">>
        BY <1>15, OtherChars, AppendIsConcat
      <4> QED
        BY <2>2, <3>2, <4>1, <4>2
    <3>3. CASE c \notin {"s", "c", "%"}
      <4>1. out' = out
        BY <1>9, <1>18, <3>3 DEF Directive
      <4> QED
        BY <1>15, <2>2, <3>3, <4>1, EmptyText
    <3> QED
      BY <3>1, <3>2, <3>3
  <2>4. args' \in Seq(Arguments) /\ IsRest(args', a, ReadTo(k + 1).used)
    <3>1. CASE c \in {"s", "c"}
      <4>1. TakesArgument(c)
        BY <3>1 DEF TakesArgument
      <4>2. args' = Tail(args)
        BY <1>9, <3>1 DEF Directive
      <4> QED
        BY <1>12, <1>14, <4>1, <4>2
    <3>2. CASE c \notin {"s", "c"}
      <4>1. ~TakesArgument(c)
        BY <1>18, <3>2 DEF TakesArgument
      <4>2. args' = args
        BY <1>9, <1>18, <3>2 DEF Directive
      <4> QED
        BY <1>6, <1>9, <1>12, <4>1, <4>2
    <3> QED
      BY <3>1, <3>2
  <2>5. LeftAt(k + 1)'
    BY <1>1, <1>7, <1>8, <1>9, <2>4 DEF LeftAt
  <2>6. TextAt(k + 1)'
    BY <1>8, <1>12, <2>1, <2>3 DEF TextAt
  <2>7. out' \in Seq(Char)
    BY <1>15, <2>2, <2>3, ConcatProperties
  <2>8. PrintTypeOK' /\ Len(buf') <= BufSize' /\ buf' = << >>
    BY <1>1, <1>2, <2>1, <2>7 DEF PrintTypeOK, BufSize
  <2>9. pc' \in PrintfStates
    BY <2>1 DEF PrintfStates
  <2> QED
    BY <1>1, <1>3, <1>16, <2>5, <2>6, <2>8, <2>9, PrintingOn
<1> QED
  BY <1>17, <1>18

\* One digit.
LEMMA DigitStep == PrintInv /\ Digit => PrintInv'
<1> SUFFICES ASSUME PrintInv, Digit PROVE PrintInv'
  OBVIOUS
<1> DEFINE d == hex[(v % base) + 1]
<1>1. /\ pc = "digits" /\ UNCHANGED <<call, fmt, args, width, base, out>>
      /\ buf' = Append(buf, d) /\ v' = v \div base /\ pc' = IF v \div base = 0 THEN "pad" ELSE pc
  BY DEF Digit
<1>2. PrintTypeOK /\ Len(buf) <= BufSize
  BY DEF PrintInv
<1>3. call \in Calls /\ call.f = "printf"
  BY <1>1, Printing DEF PrintfStates
<1>4. PICK k \in Nat : LeftAt(k) /\ TextAt(k)
  BY <1>1, Printing DEF PrintfStates
<1>5. /\ ReadTo(k).at = "text" /\ ReadTo(k).text = out \o ToWidth(DigitsOf(v, base) \o Reverse(buf))
      /\ Len(DigitsOf(v, base)) + Len(buf) <= BufSize
  BY <1>1, <1>4 DEF TextAt
<1>6. /\ v \in Nat /\ base \in {10, 16} /\ buf \in Seq(Char) /\ BufSize \in Nat
      /\ Len(buf) \in Nat /\ Reverse(buf) \in Seq(Char)
  BY <1>2, BufSizes, ReverseIs, LenProperties DEF PrintTypeOK, BufSize
<1>7. /\ v \div base \in Nat /\ (v % base) + 1 \in 1..16
      /\ v < base => v \div base = 0
      /\ v >= base => v \div base # 0
  BY <1>6, BaseDivision
<1>8. d \in Char
  BY <1>7, HexFacts
<1>9. /\ v < base => DigitsOf(v, base) = <<d>>
      /\ v >= base => DigitsOf(v, base) = Append(DigitsOf(v \div base, base), d)
  BY <1>6, DigitsFollow
<1>10. DigitsOf(v \div base, base) \in Seq(Char)
  BY <1>6, <1>7, DigitsFollow
<1> HIDE DEF d
<1>11. /\ Reverse(buf') = <<d>> \o Reverse(buf) /\ buf' \in Seq(Char) /\ Len(buf') = Len(buf) + 1
  BY <1>1, <1>6, <1>8, ReverseAppend, AppendProperties
<1>12. ReadTo(k)' = ReadTo(k) /\ BufSize' = BufSize /\ \A t : ToWidth(t)' = ToWidth(t)
  BY <1>1 DEF ReadTo, BufSize, ToWidth
<1>13. LeftAt(k)'
  BY <1>1, <1>4, <1>12 DEF LeftAt
<1>14. PrintTypeOK'
  BY <1>1, <1>2, <1>7, <1>11 DEF PrintTypeOK
<1>15. CASE v < base
  <2>1. pc' = "pad"
    BY <1>1, <1>7, <1>15
  <2>2. DigitsOf(v, base) \o Reverse(buf) = Reverse(buf')
    BY <1>9, <1>11, <1>15
  <2>3. Len(DigitsOf(v, base)) = 1
    BY <1>8, <1>9, <1>15, OneChar
  <2>4. Len(buf') <= BufSize'
    BY <1>5, <1>6, <1>11, <1>12, <2>3
  <2>5. ReadTo(k)'.text = out' \o ToWidth(Reverse(buf))'
    BY <1>1, <1>5, <1>12, <2>2 DEF ToWidth
  <2>6. TextAt(k)'
    BY <1>5, <1>12, <2>1, <2>5 DEF TextAt
  <2>7. pc' \in PrintfStates
    BY <2>1 DEF PrintfStates
  <2> QED
    BY <1>1, <1>3, <1>13, <1>14, <2>1, <2>4, <2>6, <2>7, PrintingOn
<1>16. CASE v >= base
  <2>1. pc' = "digits"
    BY <1>1, <1>7, <1>16
  <2>2. DigitsOf(v, base) \o Reverse(buf) = DigitsOf(v', base') \o Reverse(buf')
    <3>1. Append(DigitsOf(v \div base, base), d) \o Reverse(buf)
            = DigitsOf(v \div base, base) \o (<<d>> \o Reverse(buf))
      BY <1>6, <1>8, <1>10, JoinAppend
    <3> QED
      BY <1>1, <1>9, <1>11, <1>16, <3>1
  <2>3. Len(DigitsOf(v, base)) = Len(DigitsOf(v', base')) + 1 /\ Len(DigitsOf(v', base')) \in Nat
    <3>1. /\ Len(Append(DigitsOf(v \div base, base), d)) = Len(DigitsOf(v \div base, base)) + 1
          /\ Len(DigitsOf(v \div base, base)) \in Nat
      BY <1>8, <1>10, AppendProperties, LenProperties
    <3> QED
      BY <1>1, <1>9, <1>16, <3>1
  <2>4. Len(DigitsOf(v', base')) + Len(buf') <= BufSize'
    BY <1>5, <1>6, <1>11, <1>12, <2>3
  <2>5. Len(buf') <= BufSize'
    BY <1>6, <1>11, <1>12, <2>3, <2>4
  <2>6. ReadTo(k)'.text = out' \o ToWidth(DigitsOf(v, base) \o Reverse(buf))'
    BY <1>1, <1>5, <1>12, <2>2 DEF ToWidth
  <2>7. TextAt(k)'
    BY <1>5, <1>12, <2>1, <2>4, <2>6 DEF TextAt
  <2>8. pc' \in PrintfStates
    BY <2>1 DEF PrintfStates
  <2> QED
    BY <1>1, <1>3, <1>13, <1>14, <2>1, <2>5, <2>7, <2>8, PrintingOn
<1> QED
  BY <1>6, <1>15, <1>16

\* One zero, or the width is reached.
LEMMA PadStep == PrintInv /\ Pad => PrintInv'
<1> SUFFICES ASSUME PrintInv, Pad PROVE PrintInv'
  OBVIOUS
<1>1. pc = "pad" /\ UNCHANGED <<call, fmt, args, width, v, base, out>>
  BY DEF Pad
<1>2. PrintTypeOK /\ Len(buf) <= BufSize
  BY DEF PrintInv
<1>3. call \in Calls /\ call.f = "printf"
  BY <1>1, Printing DEF PrintfStates
<1>4. PICK k \in Nat : LeftAt(k) /\ TextAt(k)
  BY <1>1, Printing DEF PrintfStates
<1>5. ReadTo(k).at = "text" /\ ReadTo(k).text = out \o ToWidth(Reverse(buf))
  BY <1>1, <1>4 DEF TextAt
<1>6. /\ width \in Nat /\ base \in {10, 16} /\ buf \in Seq(Char) /\ BufSize \in Nat
      /\ Len(buf) \in Nat /\ Reverse(buf) \in Seq(Char) /\ Len(Reverse(buf)) = Len(buf)
  BY <1>2, BufSizes, ReverseIs, LenProperties DEF PrintTypeOK, BufSize
<1>7. ReadTo(k)' = ReadTo(k) /\ BufSize' = BufSize
  BY <1>1 DEF ReadTo, BufSize
<1>8. LeftAt(k)'
  BY <1>1, <1>4, <1>7 DEF LeftAt
<1> DEFINE field == Field(width, base)
<1>9. field \in Nat /\ (Len(buf) < field <=> PadMore)
  BY <1>6 DEF Field, PadMore, BufSize
<1>10. /\ ToWidth(Reverse(buf)) = Noughts(field - Len(buf)) \o Reverse(buf)
       /\ ToWidth(Reverse(buf))' = Noughts(field - Len(Reverse(buf'))) \o Reverse(buf')
  BY <1>1, <1>6 DEF ToWidth
<1> HIDE DEF field
<1>11. CASE PadMore
  <2>1. buf' = Append(buf, "0") /\ pc' = "pad"
    BY <1>1, <1>11 DEF Pad
  <2>2. /\ buf' \in Seq(Char) /\ Len(buf') = Len(buf) + 1 /\ Reverse(buf') = <<"0">> \o Reverse(buf)
        /\ Len(Reverse(buf')) = Len(buf) + 1
    <3>1. /\ buf' \in Seq(Char) /\ Len(buf') = Len(buf) + 1 /\ Reverse(buf') = <<"0">> \o Reverse(buf)
      BY <1>6, <2>1, OtherChars, ReverseAppend, AppendProperties
    <3> QED
      BY <3>1, ReverseIs
  <2>3. Len(buf') <= BufSize'
    <3>1. Len(buf) < BufSize
      BY <1>11 DEF PadMore
    <3> QED
      BY <1>6, <1>7, <2>2, <3>1
  <2>4. field - Len(buf) \in Nat /\ field - Len(buf) > 0
        /\ (field - Len(buf)) - 1 = field - (Len(buf) + 1)
    BY <1>6, <1>9, <1>11
  <2>5. Noughts(field - Len(buf)) \o Reverse(buf)
          = Noughts((field - Len(buf)) - 1) \o (<<"0">> \o Reverse(buf))
    BY <1>6, <2>4, NoughtMore
  <2>6. ToWidth(Reverse(buf))' = ToWidth(Reverse(buf))
    BY <1>10, <2>2, <2>4, <2>5
  <2>7. TextAt(k)'
    BY <1>1, <1>5, <1>7, <2>1, <2>6 DEF TextAt
  <2>8. PrintTypeOK' /\ pc' \in PrintfStates
    BY <1>1, <1>2, <2>1, <2>2 DEF PrintTypeOK, PrintfStates
  <2> QED
    BY <1>1, <1>3, <1>8, <2>1, <2>3, <2>7, <2>8, PrintingOn
<1>12. CASE ~PadMore
  <2>1. buf' = buf /\ pc' = "emit"
    BY <1>1, <1>12 DEF Pad
  <2>2. field - Len(buf) \in Int /\ ~(field - Len(buf) > 0)
    BY <1>6, <1>9, <1>12
  <2>3. Noughts(field - Len(buf)) = << >>
    <3>1. Noughts(field - Len(buf)) \in Seq(Char) /\ Len(Noughts(field - Len(buf))) = 0
      BY <2>2, NoughtsType
    <3> QED
      BY <3>1, EmptySeq
  <2>4. ToWidth(Reverse(buf)) = Reverse(buf)
    BY <1>6, <1>10, <2>3, EmptyText
  <2>5. TextAt(k)'
    BY <1>1, <1>5, <1>7, <2>1, <2>4 DEF TextAt
  <2>6. PrintTypeOK' /\ pc' \in PrintfStates /\ Len(buf') <= BufSize'
    BY <1>1, <1>2, <1>7, <2>1 DEF PrintTypeOK, PrintfStates
  <2> QED
    BY <1>1, <1>3, <1>8, <2>1, <2>5, <2>6, PrintingOn
<1> QED
  BY <1>11, <1>12

\* One character of a number is sent, or all of them are.
LEMMA EmitStep == PrintInv /\ Emit => PrintInv'
<1> SUFFICES ASSUME PrintInv, Emit PROVE PrintInv'
  OBVIOUS
<1>1. pc = "emit" /\ UNCHANGED <<call, fmt, args, width, v, base>>
  BY DEF Emit
<1>2. PrintTypeOK /\ Len(buf) <= BufSize
  BY DEF PrintInv
<1>3. call \in Calls /\ call.f = "printf"
  BY <1>1, Printing DEF PrintfStates
<1>4. PICK k \in Nat : LeftAt(k) /\ TextAt(k)
  BY <1>1, Printing DEF PrintfStates
<1>5. ReadTo(k).at = "text" /\ ReadTo(k).text = out \o Reverse(buf)
  BY <1>1, <1>4 DEF TextAt
<1>6. /\ out \in Seq(Char) /\ base \in {10, 16} /\ buf \in Seq(Char) /\ BufSize \in Nat /\ Len(buf) \in Nat
  BY <1>2, BufSizes, LenProperties DEF PrintTypeOK, BufSize
<1>7. ReadTo(k)' = ReadTo(k) /\ BufSize' = BufSize
  BY <1>1 DEF ReadTo, BufSize
<1>8. CASE buf = << >>
  <2>1. pc' = "printf" /\ UNCHANGED <<buf, out>>
    BY <1>8 DEF Emit
  <2>2. ReadTo(k).text = out
    BY <1>5, <1>6, <1>8, EmptyText
  <2>3. LeftAt(k)'
    BY <1>1, <1>4, <1>7 DEF LeftAt
  <2>4. TextAt(k)'
    BY <1>5, <1>7, <2>1, <2>2 DEF TextAt
  <2>5. PrintTypeOK' /\ pc' \in PrintfStates /\ Len(buf') <= BufSize' /\ buf' = << >>
    BY <1>1, <1>2, <1>7, <1>8, <2>1 DEF PrintTypeOK, PrintfStates
  <2> QED
    BY <1>1, <1>3, <2>3, <2>4, <2>5, PrintingOn
<1>9. CASE buf # << >>
  <2>1. pc' = "emit" /\ out' = Append(out, Last(buf)) /\ buf' = Front(buf)
    BY <1>1, <1>9 DEF Emit
  <2>2. /\ Last(buf) \in Char /\ Front(buf) \in Seq(Char) /\ Len(Front(buf)) = Len(buf) - 1
        /\ Reverse(buf) = <<Last(buf)>> \o Reverse(Front(buf))
    BY <1>6, <1>9, ReverseFront
  <2>3. Reverse(Front(buf)) \in Seq(Char)
    BY <2>2, ReverseIs
  <2>4. Append(out, Last(buf)) \o Reverse(Front(buf)) = out \o (<<Last(buf)>> \o Reverse(Front(buf)))
    BY <1>6, <2>2, <2>3, JoinAppend
  <2>5. ReadTo(k)'.text = out' \o Reverse(buf')
    BY <1>5, <1>7, <2>1, <2>2, <2>4
  <2>6. LeftAt(k)'
    BY <1>1, <1>4, <1>7 DEF LeftAt
  <2>7. TextAt(k)'
    BY <1>5, <1>7, <2>1, <2>5 DEF TextAt
  <2>8. out' \in Seq(Char)
    BY <1>6, <2>1, <2>2, AppendProperties
  <2>9. Len(buf') <= BufSize'
    BY <1>2, <1>6, <1>7, <2>1, <2>2
  <2>10. PrintTypeOK' /\ pc' \in PrintfStates
    BY <1>1, <1>2, <2>1, <2>2, <2>8 DEF PrintTypeOK, PrintfStates
  <2> QED
    BY <1>1, <1>3, <2>1, <2>6, <2>7, <2>9, <2>10, PrintingOn
<1> QED
  BY <1>8, <1>9

(***************************************************************************)
(* The other steps.                                                        *)
(***************************************************************************)
\* The initial states.
LEMMA PrintInvInit == Boot /\ LibInit => PrintInv
<1> SUFFICES ASSUME Boot, LibInit PROVE PrintInv
  OBVIOUS
<1>1. pc \notin PrintfStates /\ pc # "returned" /\ buf = << >>
  BY DEF Boot, LibInit, PrintfStates
<1>2. PrintTypeOK
  BY EmptySeq DEF LibInit, PrintTypeOK
<1>3. Len(buf) <= BufSize
  BY <1>1, <1>2, BufSizes, EmptySeq DEF BufSize, PrintTypeOK
<1> QED
  BY <1>1, <1>2, <1>3 DEF PrintInv

\* A call: nothing is read yet, and nothing printed.
LEMMA PrintCallStep == PrintInv /\ Call => PrintInv'
<1> SUFFICES ASSUME Call PROVE PrintInv'
  OBVIOUS
<1>1. PICK c \in Calls :
        /\ call' = c /\ pc' = c.f
        /\ fmt' = IF "fmt" \in DOMAIN c THEN c.fmt ELSE << >>
        /\ args' = IF "args" \in DOMAIN c THEN c.args ELSE << >>
  BY DEF Call
<1>2. width' = 0 /\ v' = 0 /\ base' = 10 /\ buf' = << >> /\ out' = << >>
  BY DEF Call
<1>3. PrintTypeOK'
  BY <1>2, EmptySeq DEF PrintTypeOK
<1>4. Len(buf') <= BufSize'
  BY <1>2, BufSizes, EmptySeq DEF BufSize
<1>5. c.f \in {"strcpy", "memcpy", "memset", "malloc", "printf"}
  BY CallsLegal DEF Legal
<1>6. ASSUME c.f = "printf" PROVE InPrintf' /\ LeftAt(0)' /\ TextAt(0)'
  <2>1. c.fmt \in Seq(Char) /\ c.args \in Seq(Arguments) /\ {"fmt", "args"} \subseteq DOMAIN c
    BY <1>6, LegalPrintf
  <2>2. fmt' = c.fmt /\ args' = c.args
    BY <1>1, <2>1
  <2>3. ReadUpTo(c.fmt, c.args)[0] = [at |-> "text", width |-> 0, used |-> 0, text |-> << >>]
    BY <2>1, ReadFollows
  <2>4. ReadTo(0)' = [at |-> "text", width |-> 0, used |-> 0, text |-> << >>]
    BY <1>1, <2>3 DEF ReadTo
  <2>5. \A S : \A s \in Seq(S) : IsRest(s, s, 0)
    BY LenProperties DEF IsRest
  <2>6. LeftAt(0)'
    BY <1>1, <2>1, <2>2, <2>4, <2>5 DEF LeftAt
  <2>7. TextAt(0)'
    BY <1>1, <1>2, <1>6, <2>4 DEF TextAt
  <2> QED
    BY <1>1, <1>6, <2>6, <2>7 DEF InPrintf
<1>7. pc' \in PrintfStates => c.f = "printf"
  BY <1>1, <1>5 DEF PrintfStates
<1>8. pc' # "returned"
  BY <1>1, <1>5
<1> QED
  BY <1>2, <1>3, <1>4, <1>6, <1>7, <1>8 DEF PrintInv

\* A call has returned.
LEMMA PrintReturnStep == PrintInv /\ ReturnFrom => PrintInv'
<1> SUFFICES ASSUME ReturnFrom PROVE PrintInv'
  OBVIOUS
<1>1. pc' = "caller" /\ width' = 0 /\ v' = 0 /\ base' = 10 /\ buf' = << >> /\ out' = << >>
  BY DEF ReturnFrom
<1>2. PrintTypeOK'
  BY <1>1, EmptySeq DEF PrintTypeOK
<1>3. Len(buf') <= BufSize'
  BY <1>1, BufSizes, EmptySeq DEF BufSize
<1> QED
  BY <1>1, <1>2, <1>3 DEF PrintInv, PrintfStates

\* The steps of the other functions leave printf's state alone, and the call they
\* return from is their own.
LEMMA PrintOtherStep ==
  PrintInv /\ CopyInv /\ (strcpy \/ AlignPass \/ WordPass \/ BytePass \/ MemPass \/ malloc) => PrintInv'
<1> SUFFICES ASSUME PrintInv, CopyInv,
                    strcpy \/ AlignPass \/ WordPass \/ BytePass \/ MemPass \/ malloc
             PROVE  PrintInv'
  OBVIOUS
<1>1. UNCHANGED <<call, fmtVars>> /\ pc \in StrcpyStates \union {"memcpy", "memset", "malloc"}
  BY DEF strcpy, AlignPass, WordPass, BytePass, MemPass, malloc, StrcpyStates
<1>2. pc' \in StrcpyStates \union {"memcpy", "memset", "malloc", "returned"}
  BY DEF strcpy, AlignPass, WordPass, BytePass, MemPass, malloc, StrcpyStates
<1>3. call.f # "printf"
  BY <1>1 DEF CopyInv, StrcpyStates, InStrcpy, InMemcpy, InMemset, InMalloc
<1>4. UNCHANGED <<width, v, base, buf, out>>
  BY <1>1 DEF fmtVars
<1>5. buf = << >>
  BY <1>1 DEF PrintInv, StrcpyStates
<1>6. PrintTypeOK' /\ Len(buf') <= BufSize' /\ buf' = << >>
  BY <1>4, <1>5 DEF PrintInv, PrintTypeOK, BufSize
<1>7. pc' \notin PrintfStates
  BY <1>2 DEF StrcpyStates, PrintfStates
<1> QED
  BY <1>1, <1>3, <1>6, <1>7 DEF PrintInv

\* Every step of the library keeps the invariant of printf.
LEMMA PrintInvNext == PrintInv /\ CopyInv /\ [LibNext]_<<image, pc, libVars>> => PrintInv'
<1> SUFFICES ASSUME PrintInv, CopyInv, [LibNext]_<<image, pc, libVars>> PROVE PrintInv'
  OBVIOUS
<1>1. CASE UNCHANGED <<image, pc, libVars>>
  <2>1. UNCHANGED <<pc, call, fmt, args, width, v, base, buf, out>>
    BY <1>1 DEF libVars, fmtVars
  <2>2. \A k : LeftAt(k)' = LeftAt(k) /\ TextAt(k)' = TextAt(k)
    BY <2>1 DEF LeftAt, TextAt, ReadTo, ToWidth, BufSize
  <2>3. PrintTypeOK' = PrintTypeOK /\ BufSize' = BufSize /\ InPrintf' = InPrintf
    BY <2>1 DEF PrintTypeOK, BufSize, InPrintf
  <2> QED
    BY <2>1, <2>2, <2>3 DEF PrintInv
<1>2. CASE LibNext
  <2>1. \/ Call \/ ReturnFrom
        \/ strcpy \/ AlignPass \/ WordPass \/ BytePass \/ MemPass \/ malloc
        \/ printf \/ Modifier \/ Directive \/ Digit \/ Pad \/ Emit
    BY <1>2 DEF LibNext
  <2> QED
    BY <2>1, PrintCallStep, PrintReturnStep, PrintOtherStep, printfStep, ModifierStep, DirectiveStep,
       DigitStep, PadStep, EmitStep
<1> QED
  BY <1>1, <1>2

\* For every memory, every heap and every legal call: the copies write exactly what
\* they promise, the blocks of the heap are disjoint, and printf sends the text its
\* format and its arguments mean - signs, padding and line ends included - without
\* running over its digit buffers (dhry_portme.c:79, 106-116; ee_printf.c:36-70).
THEOREM LibraryIsExact == LibrarySpec => []LibraryExact
<1>1. Boot /\ LibInit => CopyInv /\ HeapInv /\ PrintInv
  BY LibInvInit, PrintInvInit
<1>2. CopyInv /\ HeapInv /\ PrintInv /\ [LibNext]_<<image, pc, libVars>>
        => CopyInv' /\ HeapInv' /\ PrintInv'
  BY LibInvNext, PrintInvNext
<1>3. CopyInv /\ HeapInv /\ PrintInv => LibraryExact
  BY DEF CopyInv, CopiesExact, Finished, Filled, SrcLen, HeapInv, PrintInv, PrintfExact, LibraryExact
<1> QED
  BY <1>1, <1>2, <1>3, PTL DEF LibrarySpec
=============================================================================
