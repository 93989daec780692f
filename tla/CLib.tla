-------------------------------- MODULE CLib --------------------------------
(***************************************************************************)
(* The C library the benchmarks link: strcpy, memcpy, memset and malloc of *)
(* sim/sw/dhrystone/dhry_portme.c (the two mem functions are the same in   *)
(* sim/sw/coremark/core_portme.c) and printf of sim/sw/common/ee_printf.c. *)
(* A caller makes one call after another; one step is one pass of a loop.  *)
(*                                                                         *)
(* Memory is an array of bytes with BYTE values (256), in words of four.   *)
(* A long has LONG values (2^32), a character is one of Char.              *)
(***************************************************************************)
EXTENDS Integers, Sequences, SequencesExt, Image

CONSTANTS
  RAM, BYTE,               \* bytes of memory, values of a byte
  LONG, DEC_BUF, HEX_BUF,  \* values of a long; sizes of the two digit buffers
  HEAP_BYTES,
  Char,                    \* the characters
  Calls                    \* the calls the caller may make

ASSUME CLibAssumption ==
  /\ {RAM, BYTE, LONG, DEC_BUF, HEX_BUF, HEAP_BYTES} \subseteq Nat \ {0}
  /\ RAM % 4 = 0 /\ BYTE % 2 = 0 /\ HEAP_BYTES % 4 = 0 /\ LONG % 4 = 0
  /\ HEAP_BYTES < LONG

VARIABLES
  ram, call,        \* memory; the call under way, with what its caller knows
  dst, src, left,   \* pointers and byte count of the loop
  heap_used, blocks,      \* malloc; history: [at, size] of each block
  fmt, args, width, v,    \* printf: format and arguments to go, number at hand
  base, buf, out,         \* its base and digits, last first; what is printed
  unaligned               \* history: a word access was not aligned

memVars == <<ram, dst, src, left, unaligned>>
heapVars == <<heap_used, blocks>>
fmtVars == <<fmt, args, width, v, base, buf, out>>
libVars == <<call, memVars, heapVars, fmtVars>>

NoCall == [f |-> "none"]

LibInit ==
  /\ ram = [a \in 0..RAM-1 |-> 1] /\ call = NoCall
  /\ dst = 0 /\ src = 0 /\ left = 0 /\ unaligned = FALSE
  /\ heap_used = 0 /\ blocks = << >>
  /\ fmt = << >> /\ args = << >> /\ width = 0 /\ v = 0 /\ base = 10 /\ buf = << >> /\ out = << >>

\* The caller fills memory as it likes and calls.
Call ==
  /\ pc \in {"reset", "caller"}
  /\ \E c \in Calls :
       /\ heap_used = 0 \/ c.f = "malloc"   \* bound: the heap is exercised on its own
       /\ call' = c /\ pc' = c.f
       /\ ram' = IF "ram" \in DOMAIN c THEN c.ram ELSE ram
       /\ dst' = IF "dst" \in DOMAIN c THEN c.dst ELSE 0
       /\ src' = IF "src" \in DOMAIN c THEN c.src ELSE 0
       /\ left' = IF "n" \in DOMAIN c THEN c.n ELSE 0
       /\ fmt' = IF "fmt" \in DOMAIN c THEN c.fmt ELSE << >>
       /\ args' = IF "args" \in DOMAIN c THEN c.args ELSE << >>
  /\ width' = 0 /\ v' = 0 /\ base' = 10 /\ buf' = << >> /\ out' = << >>
  /\ UNCHANGED <<heapVars, unaligned>>

\* The call has returned and its locals are gone; the caller has looked at the
\* result.
ReturnFrom ==
  /\ pc = "returned" /\ pc' = "caller" /\ call' = NoCall
  /\ ram' = [a \in 0..RAM-1 |-> 1] /\ dst' = 0 /\ src' = 0 /\ left' = 0
  /\ fmt' = << >> /\ args' = << >> /\ width' = 0 /\ v' = 0 /\ base' = 10 /\ buf' = << >> /\ out' = << >>
  /\ UNCHANGED <<unaligned, heapVars>>

(***************************************************************************)
(* strcpy.                                                                 *)
(***************************************************************************)
CopyByte ==
  /\ ram' = [ram EXCEPT ![dst] = ram[src]]
  /\ dst' = dst + 1 /\ src' = src + 1

strcpy ==
  /\ pc = "strcpy" /\ pc' = IF dst % 4 = src % 4 THEN "align" ELSE "bytes"
  /\ UNCHANGED <<call, memVars, heapVars, fmtVars>>

AlignPass ==
  /\ pc = "align"
  /\ IF src % 4 # 0
     THEN CopyByte /\ pc' = IF ram[src] = 0 THEN "returned" ELSE pc
     ELSE pc' = "words" /\ UNCHANGED <<ram, dst, src>>
  /\ UNCHANGED <<call, left, unaligned, heapVars, fmtVars>>

WordAt(a) == [k \in 0..3 |-> ram[a + k]]

\* ((w) - 0x01010101u) & ~(w) & 0x80808080u: byte k of the difference is
\* w[k] - 1 less the borrow of the bytes below; its top bit counts if that of
\* w[k] is clear.
HAS_ZERO_BYTE(w) ==
  LET borrow[k \in 0..4] == k > 0 /\ w[k-1] < 1 + (IF borrow[k-1] THEN 1 ELSE 0)
  IN  \E k \in 0..3 :
        /\ (w[k] - 1 - (IF borrow[k] THEN 1 ELSE 0)) % BYTE >= BYTE \div 2
        /\ w[k] < BYTE \div 2

\* Mutant: the word is stored before it is tested.
WordPass_early ==
  /\ pc = "words" /\ unaligned' = (unaligned \/ src % 4 # 0 \/ dst % 4 # 0)
  /\ ram' = [a \in 0..RAM-1 |-> IF a \in dst..dst+3 THEN ram[src + a - dst] ELSE ram[a]]
  /\ IF HAS_ZERO_BYTE(WordAt(src))
     THEN pc' = "bytes" /\ UNCHANGED <<dst, src>>
     ELSE dst' = dst + 4 /\ src' = src + 4 /\ UNCHANGED pc
  /\ UNCHANGED <<call, left, heapVars, fmtVars>>

WordPass ==
  /\ pc = "words" /\ unaligned' = (unaligned \/ src % 4 # 0 \/ dst % 4 # 0)
  /\ IF HAS_ZERO_BYTE(WordAt(src))
     THEN pc' = "bytes" /\ UNCHANGED <<ram, dst, src>>
     ELSE /\ ram' = [a \in 0..RAM-1 |-> IF a \in dst..dst+3 THEN ram[src + a - dst] ELSE ram[a]]
          /\ dst' = dst + 4 /\ src' = src + 4 /\ UNCHANGED pc
  /\ UNCHANGED <<call, left, heapVars, fmtVars>>

BytePass ==
  /\ pc = "bytes" /\ CopyByte /\ pc' = IF ram[src] = 0 THEN "returned" ELSE pc
  /\ UNCHANGED <<call, left, unaligned, heapVars, fmtVars>>

(***************************************************************************)
(* memcpy and memset: while (n--).                                         *)
(***************************************************************************)
MemPass ==
  /\ pc \in {"memcpy", "memset"}
  /\ IF left = 0 THEN pc' = "returned" /\ UNCHANGED <<ram, dst, src, left>>
     ELSE /\ ram' = [ram EXCEPT ![dst] = IF pc = "memset" THEN call.c ELSE ram[src]]
          /\ dst' = dst + 1 /\ src' = IF pc = "memset" THEN src ELSE src + 1
          /\ left' = left - 1 /\ UNCHANGED pc
  /\ UNCHANGED <<call, unaligned, heapVars, fmtVars>>

(***************************************************************************)
(* malloc: sizes are rounded up to words and never given back.  Both sums  *)
(* are those of an unsigned long.                                          *)
(***************************************************************************)
Rounded(n) == (((n + 3) % LONG) \div 4) * 4

malloc ==
  /\ pc = "malloc" /\ pc' = "returned"
  /\ LET n == Rounded(call.n)
     IN  IF (heap_used + n) % LONG > HEAP_BYTES THEN UNCHANGED heapVars
         ELSE /\ blocks' = Append(blocks, [at |-> heap_used, size |-> call.n])
              /\ heap_used' = (heap_used + n) % LONG
  /\ UNCHANGED <<call, memVars, fmtVars>>

(***************************************************************************)
(* printf.                                                                 *)
(***************************************************************************)
hex == <<"0", "1", "2", "3", "4", "5", "6", "7", "8", "9", "a", "b", "c", "d", "e", "f">>
NumberOf(c) == CHOOSE d \in 0..15 : hex[d + 1] = c
IsDigit(c) == c \in {hex[d] : d \in 1..10}
IsNext(c) == fmt # << >> /\ fmt[1] = c

\* What put_char sends for a character.
put_char(c) == IF c = "nl" THEN <<"cr", "nl">> ELSE <<c>>
put_str(s) == FlattenSeq([k \in DOMAIN s |-> put_char(s[k])])

\* One character of the format that is not "%", or the "%" of a directive.
printf ==
  /\ pc = "printf"
  /\ IF fmt = << >> THEN pc' = "returned" /\ UNCHANGED <<fmt, out, width>>
     ELSE /\ fmt' = Tail(fmt)
          /\ IF IsNext("%") THEN width' = 0 /\ pc' = "width" /\ UNCHANGED out
             ELSE out' = out \o put_char(fmt[1]) /\ UNCHANGED <<pc, width>>
  /\ UNCHANGED <<call, memVars, heapVars, args, v, base, buf>>

\* One digit of the width, or one l.
Modifier ==
  /\ pc \in {"width", "l"} /\ fmt # << >>
  /\ \/ /\ pc = "width" /\ IsDigit(fmt[1])
        /\ width' = width * 10 + NumberOf(fmt[1]) /\ UNCHANGED pc
     \/ /\ fmt[1] = "l" /\ pc' = "l" /\ UNCHANGED width
  /\ fmt' = Tail(fmt)
  /\ UNCHANGED <<call, memVars, heapVars, args, v, base, buf, out>>

Negative(n) == n >= LONG \div 2

\* The letter of the directive.  put_dec of a negative number sends its sign and
\* goes on with the magnitude.
Directive ==
  /\ pc \in {"width", "l"} /\ fmt # << >> /\ fmt[1] # "l"
  /\ pc = "width" => ~IsDigit(fmt[1])
  /\ fmt' = Tail(fmt)
  /\ LET c == fmt[1]  a == Head(args)
     IN  \/ /\ c \in {"d", "u", "x"}
            /\ v' = IF c = "d" /\ Negative(a.n) THEN LONG - a.n ELSE a.n
            /\ out' = IF c = "d" /\ Negative(a.n) THEN Append(out, "-") ELSE out
            /\ base' = IF c = "x" THEN 16 ELSE 10
            /\ buf' = << >> /\ args' = Tail(args) /\ pc' = "digits"
         \/ /\ c = "s" /\ out' = out \o put_str(a.s) /\ args' = Tail(args)
            /\ pc' = "printf" /\ UNCHANGED <<v, base, buf>>
         \/ /\ c = "c" /\ out' = out \o put_char(a.c) /\ args' = Tail(args)
            /\ pc' = "printf" /\ UNCHANGED <<v, base, buf>>
         \/ /\ c = "%" /\ out' = Append(out, "%") /\ pc' = "printf"
            /\ UNCHANGED <<args, v, base, buf>>
         \/ /\ c \notin {"d", "u", "x", "s", "c", "%"} /\ pc' = "printf"
            /\ UNCHANGED <<args, v, base, buf, out>>
  /\ UNCHANGED <<call, memVars, heapVars, width>>

BufOf(b) == IF b = 16 THEN HEX_BUF ELSE DEC_BUF
BufSize == BufOf(base)

\* put_dec and put_hex: digits from the last, zeros up to the width or the size
\* of the buffer, and out they go from the first.
Digit ==
  /\ pc = "digits" /\ buf' = Append(buf, hex[(v % base) + 1]) /\ v' = v \div base
  /\ pc' = IF v \div base = 0 THEN "pad" ELSE pc
  /\ UNCHANGED <<call, memVars, heapVars, fmt, args, width, base, out>>

PadMore == Len(buf) < width /\ Len(buf) < BufSize

Pad ==
  /\ pc = "pad"
  /\ IF PadMore THEN buf' = Append(buf, "0") /\ UNCHANGED pc
     ELSE pc' = "emit" /\ UNCHANGED buf
  /\ UNCHANGED <<call, memVars, heapVars, fmt, args, width, v, base, out>>

Emit ==
  /\ pc = "emit"
  /\ IF buf = << >> THEN pc' = "printf" /\ UNCHANGED <<buf, out>>
     ELSE out' = Append(out, Last(buf)) /\ buf' = Front(buf) /\ UNCHANGED pc
  /\ UNCHANGED <<call, memVars, heapVars, fmt, args, width, v, base>>

LibNext ==
  /\ Linked("library")
  /\ \/ Call \/ ReturnFrom
     \/ strcpy \/ AlignPass \/ WordPass \/ BytePass \/ MemPass \/ malloc
     \/ printf \/ Modifier \/ Directive \/ Digit \/ Pad \/ Emit
-----------------------------------------------------------------------------
(***************************************************************************)
(* What C asks of a caller: memory of its own, a source that is            *)
(* terminated, two places that do not overlap, the arguments a format asks *)
(* for, and a format that does not end inside a directive.  malloc asks    *)
(* for more: a size beyond which its sums would wrap gets a pointer and    *)
(* not the 0 of a full heap.  The callers ask for one record.              *)
(***************************************************************************)
IsString(m, a, n) == a + n < RAM /\ m[a + n] = 0 /\ \A k \in 0..n-1 : m[a + k] # 0
Apart(d, s, n) == d + n <= RAM /\ s + n <= RAM /\ (d + n <= s \/ s + n <= d)

\* The digits of a number in base b, and the number with at least w digits.
DigitsOf(n, b) ==
  LET digitsOf[m \in Nat] == IF m < b THEN <<hex[m + 1]>>
                             ELSE Append(digitsOf[m \div b], hex[(m % b) + 1])
  IN  digitsOf[n]
Numeral(n, b, w) == [k \in 1..(w - Len(DigitsOf(n, b))) |-> "0"] \o DigitsOf(n, b)

\* A long has no more digits than the buffers hold.
ASSUME DigitsFit ==
  \A n \in 0..LONG-1 : Len(DigitsOf(n, 10)) <= DEC_BUF /\ Len(DigitsOf(n, 16)) <= HEX_BUF

\* What a directive prints: call.spec says what the caller meant by it.
Rendered(p) ==
  CASE p.kind = "d" -> (IF p.n < 0 THEN <<"-">> ELSE << >>)
                         \o Numeral(IF p.n < 0 THEN -p.n ELSE p.n, 10, p.width)
    [] p.kind = "u" -> Numeral(p.n, 10, p.width)
    [] p.kind = "x" -> Numeral(p.n, 16, p.width)
    [] p.kind = "text" -> p.s
Meant(spec) == FlattenSeq([k \in DOMAIN spec |-> Rendered(spec[k])])

ASSUME CharAssumption == {hex[d] : d \in 1..16} \cup {"cr", "nl", "-", "%"} \subseteq Char

\* An argument as a long, as a string and as a character: a directive takes one.
Arguments == [n : 0..LONG-1, s : Seq(Char), c : Char]
NoArgument == [n |-> 0, s |-> << >>, c |-> "0"]
TakesArgument(c) == c \in {"d", "u", "x", "s", "c"}

\* What the letter of a directive makes of its argument, in a field of w.
Converted(c, x, w) ==
  LET minus == c = "d" /\ Negative(x.n)
      b == IF c = "x" THEN 16 ELSE 10
      field == IF w < BufOf(b) THEN w ELSE BufOf(b)
  IN  CASE c \in {"d", "u", "x"} ->
             (IF minus THEN <<"-">> ELSE << >>)
               \o Numeral(IF minus THEN LONG - x.n ELSE x.n, b, field)
        [] c = "s" -> put_str(x.s)
        [] c = "c" -> put_char(x.c)
        [] c = "%" -> <<"%">>
        [] OTHER -> << >>

\* Format f with arguments a, read up to character k: where in a directive, its
\* width so far, the arguments used and the text.
ReadChar(r, c, a) ==
  IF r.at = "text" THEN IF c = "%" THEN [r EXCEPT !.at = "width", !.width = 0]
                        ELSE [r EXCEPT !.text = @ \o put_char(c)]
  ELSE IF r.at = "width" /\ IsDigit(c) THEN [r EXCEPT !.width = @ * 10 + NumberOf(c)]
  ELSE IF c = "l" THEN [r EXCEPT !.at = "l"]
  ELSE LET x == IF r.used < Len(a) THEN a[r.used + 1] ELSE NoArgument
       IN  [r EXCEPT !.at = "text", !.text = @ \o Converted(c, x, r.width),
                     !.used = IF TakesArgument(c) THEN @ + 1 ELSE @]
ReadUpTo(f, a) ==
  LET read[k \in 0..Len(f)] ==
        IF k = 0 THEN [at |-> "text", width |-> 0, used |-> 0, text |-> << >>]
        ELSE ReadChar(read[k-1], f[k], a)
  IN  read

Legal(c) ==
  /\ c.f \in {"strcpy", "memcpy", "memset", "malloc", "printf"}
  /\ c.f \in {"strcpy", "memcpy", "memset"} =>
       /\ {"ram", "dst"} \subseteq DOMAIN c
       /\ c.ram \in [0..RAM-1 -> 0..BYTE-1] /\ c.dst \in Nat
  /\ c.f \in {"strcpy", "memcpy"} => "src" \in DOMAIN c /\ c.src \in Nat
  /\ c.f \in {"memcpy", "memset", "malloc"} => "n" \in DOMAIN c /\ c.n \in Nat
  /\ c.f = "strcpy" =>
       \E n \in 0..RAM-1 : IsString(c.ram, c.src, n) /\ Apart(c.dst, c.src, n + 1)
  /\ c.f = "memcpy" => Apart(c.dst, c.src, c.n)
  /\ c.f = "memset" => c.c \in 0..BYTE-1 /\ c.dst + c.n <= RAM
  /\ c.f = "malloc" => c.n + 3 + HEAP_BYTES < LONG
  /\ c.f = "printf" =>
       /\ {"fmt", "args", "spec"} \subseteq DOMAIN c
       /\ c.fmt \in Seq(Char) /\ c.args \in Seq(Arguments)
       /\ LET read == ReadUpTo(c.fmt, c.args)
          IN  /\ \A k \in 0..Len(c.fmt) : read[k].used <= Len(c.args)
              /\ read[Len(c.fmt)].at = "text"
              /\ read[Len(c.fmt)].text = Meant(c.spec)

ASSUME CallsLegal == \A c \in Calls : Legal(c)

(***************************************************************************)
(* What the calls promise.                                                 *)
(***************************************************************************)
\* The length of the string at a, and the bytes a call leaves at d.
StrLen(m, a) == CHOOSE n \in 0..RAM-1 : IsString(m, a, n)
Copied(m, d, s, n) == [a \in 0..RAM-1 |-> IF a \in d..d+n-1 THEN m[s + a - d] ELSE m[a]]

\* strcpy, memcpy and memset leave exactly the bytes they promise, at every
\* alignment of the two pointers and every place of the terminator: nothing
\* past it is written, and no word access is misaligned, which would trap
\* (dhry_portme.c:106-116).
CopiesExact ==
  /\ ~unaligned
  /\ pc = "returned" =>
       CASE call.f = "strcpy" ->
              ram = Copied(call.ram, call.dst, call.src, StrLen(call.ram, call.src) + 1)
         [] call.f = "memcpy" -> ram = Copied(call.ram, call.dst, call.src, call.n)
         [] call.f = "memset" ->
              ram = [a \in 0..RAM-1 |-> IF a \in call.dst..call.dst+call.n-1 THEN call.c
                                        ELSE call.ram[a]]
         [] OTHER -> TRUE

\* Blocks of the heap are word-aligned, disjoint and inside it, whatever was asked
\* for and refused before (dhry_portme.c:79, 94-97).
BlocksDisjoint ==
  \A k \in DOMAIN blocks :
    /\ blocks[k].at % 4 = 0 /\ blocks[k].at + blocks[k].size <= HEAP_BYTES
    /\ \A l \in 1..k-1 : blocks[l].at + blocks[l].size <= blocks[k].at

\* printf prints the numbers it is given, signs, padding and line ends included,
\* for the smallest and the largest numbers and for widths beyond its buffers,
\* which it never overruns (ee_printf.c:36-70).
PrintfExact ==
  /\ Len(buf) <= BufSize
  /\ pc = "returned" /\ call.f = "printf" =>
       out = Meant(call.spec)

\* The library keeps its promises to the benchmarks: copies, heap and printed
\* text (dhry_portme.c:79, 106-116; ee_printf.c:36-70).
LibraryExact == image = "library" => CopiesExact /\ BlocksDisjoint /\ PrintfExact

LibrarySpec == image = "library" /\ Boot /\ LibInit /\ [][LibNext]_<<image, pc, libVars>>
=============================================================================
