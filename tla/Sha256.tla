------------------------------- MODULE Sha256 -------------------------------
(***************************************************************************)
(* The SHA-256 monitor sim/sw/sha256/sha256.c: a line editor over the      *)
(* UART, the padding of the line into 64-byte blocks, and the compression  *)
(* function.  One step is one key of the user or one pass of a loop.       *)
(*                                                                         *)
(* A 32-bit word is the set of the positions of its ones, so that rotation,*)
(* exclusive or and addition modulo 2^32 are set operations; a byte is a   *)
(* number.                                                                 *)
(***************************************************************************)
EXTENDS Integers, Sequences, SequencesExt, Image

CONSTANTS
  INPUT_MAX,
  Texts,      \* what the user may be typing: sequences of character codes
  EnterAt     \* bound: lengths at which the user presses Enter

ASSUME ShaAssumption == INPUT_MAX \in Nat \ {0, 1} /\ EnterAt \subseteq Nat

(***************************************************************************)
(* Words.                                                                  *)
(***************************************************************************)
Word == SUBSET (0..31)

\* The word with these two halves, and the word of one byte shifted left.
Bits(hi, lo) ==
  {b \in 0..31 : (IF b < 16 THEN lo \div 2^b ELSE hi \div 2^(b - 16)) % 2 = 1}
ByteAt(v, shift) == {b \in shift..shift+7 : (v \div 2^(b - shift)) % 2 = 1}

xor(a, b) == (a \ b) \cup (b \ a)
rotr32(x, n) == {(b - n) % 32 : b \in x}
shr(x, n) == {b - n : b \in {c \in x : c >= n}}

\* Addition modulo 2^32: a carry comes into a bit that some lower bit generates
\* it for and all bits between propagate it to.
carry(a, b) ==
  {k \in 1..31 : \E j \in (a \cap b) \cap (0..k-1) : j+1..k-1 \subseteq a \cup b}
add(a, b) == xor(xor(a, b), carry(a, b))

ch(x, y, z) == xor(x \cap y, z \ x)
maj(x, y, z) == xor(xor(x \cap y, x \cap z), y \cap z)
big_sigma0(x) == xor(xor(rotr32(x, 2), rotr32(x, 13)), rotr32(x, 22))
big_sigma1(x) == xor(xor(rotr32(x, 6), rotr32(x, 11)), rotr32(x, 25))
small_sigma0(x) == xor(xor(rotr32(x, 7), rotr32(x, 18)), shr(x, 3))
small_sigma1(x) == xor(xor(rotr32(x, 17), rotr32(x, 19)), shr(x, 10))

K == <<
  Bits(\h428a, \h2f98), Bits(\h7137, \h4491), Bits(\hb5c0, \hfbcf),
  Bits(\he9b5, \hdba5), Bits(\h3956, \hc25b), Bits(\h59f1, \h11f1),
  Bits(\h923f, \h82a4), Bits(\hab1c, \h5ed5), Bits(\hd807, \haa98),
  Bits(\h1283, \h5b01), Bits(\h2431, \h85be), Bits(\h550c, \h7dc3),
  Bits(\h72be, \h5d74), Bits(\h80de, \hb1fe), Bits(\h9bdc, \h06a7),
  Bits(\hc19b, \hf174), Bits(\he49b, \h69c1), Bits(\hefbe, \h4786),
  Bits(\h0fc1, \h9dc6), Bits(\h240c, \ha1cc), Bits(\h2de9, \h2c6f),
  Bits(\h4a74, \h84aa), Bits(\h5cb0, \ha9dc), Bits(\h76f9, \h88da),
  Bits(\h983e, \h5152), Bits(\ha831, \hc66d), Bits(\hb003, \h27c8),
  Bits(\hbf59, \h7fc7), Bits(\hc6e0, \h0bf3), Bits(\hd5a7, \h9147),
  Bits(\h06ca, \h6351), Bits(\h1429, \h2967), Bits(\h27b7, \h0a85),
  Bits(\h2e1b, \h2138), Bits(\h4d2c, \h6dfc), Bits(\h5338, \h0d13),
  Bits(\h650a, \h7354), Bits(\h766a, \h0abb), Bits(\h81c2, \hc92e),
  Bits(\h9272, \h2c85), Bits(\ha2bf, \he8a1), Bits(\ha81a, \h664b),
  Bits(\hc24b, \h8b70), Bits(\hc76c, \h51a3), Bits(\hd192, \he819),
  Bits(\hd699, \h0624), Bits(\hf40e, \h3585), Bits(\h106a, \ha070),
  Bits(\h19a4, \hc116), Bits(\h1e37, \h6c08), Bits(\h2748, \h774c),
  Bits(\h34b0, \hbcb5), Bits(\h391c, \h0cb3), Bits(\h4ed8, \haa4a),
  Bits(\h5b9c, \hca4f), Bits(\h682e, \h6ff3), Bits(\h748f, \h82ee),
  Bits(\h78a5, \h636f), Bits(\h84c8, \h7814), Bits(\h8cc7, \h0208),
  Bits(\h90be, \hfffa), Bits(\ha450, \h6ceb), Bits(\hbef9, \ha3f7),
  Bits(\hc671, \h78f2) >>

H_INIT == <<
  Bits(\h6a09, \he667), Bits(\hbb67, \hae85), Bits(\h3c6e, \hf372),
  Bits(\ha54f, \hf53a), Bits(\h510e, \h527f), Bits(\h9b05, \h688c),
  Bits(\h1f83, \hd9ab), Bits(\h5be0, \hcd19) >>

VARIABLES
  input,         \* the first len characters of the buffer
  sha_H,         \* the hash state
  sha_blk,       \* complete blocks of the message done so far
  block,         \* the block being built for the tail of the message
  W, abcdefgh,   \* sha256_transform: the schedule so far, the working variables
  round,         \* and the rounds done
  after,         \* the statement behind the call of sha256_transform
  fed,           \* history: the bytes given to sha256_transform for this line
  sha_screen     \* the line as the terminal shows it

hashVars == <<sha_H, sha_blk, block, W, abcdefgh, round, after, fed>>
shaVars == <<input, sha_screen, hashVars>>

len == Len(input)
Zeros(n) == [k \in 1..n |-> 0]

ShaInit ==
  /\ input = << >> /\ sha_screen = << >>
  /\ sha_H = H_INIT /\ sha_blk = 0 /\ block = << >> /\ fed = << >>
  /\ W = << >> /\ abcdefgh = << >> /\ round = 0 /\ after = "none"

(***************************************************************************)
(* sha256_transform: sixteen big-endian words, the schedule one word per   *)
(* step, the rounds one per step, the sum.                                 *)
(***************************************************************************)
BigEndian(b, n) ==
  ByteAt(b[4*n - 3], 24) \cup ByteAt(b[4*n - 2], 16) \cup
  ByteAt(b[4*n - 1], 8) \cup ByteAt(b[4*n], 0)

sha256_transform(b, next) ==
  /\ W' = [n \in 1..16 |-> BigEndian(b, n)] /\ fed' = fed \o b
  /\ after' = next /\ pc' = "schedule"

ScheduleWord ==
  LET n == Len(W) + 1
  IN  /\ pc = "schedule"
      /\ IF n <= 64
         THEN /\ W' = Append(W, add(add(small_sigma1(W[n-2]), W[n-7]),
                                    add(small_sigma0(W[n-15]), W[n-16])))
              /\ UNCHANGED <<pc, abcdefgh, round>>
         ELSE pc' = "round" /\ abcdefgh' = sha_H /\ round' = 0 /\ UNCHANGED W
      /\ UNCHANGED <<input, sha_screen, sha_H, sha_blk, block, after, fed>>

\* Mutant: the rounds stop one short.
LastRound_short == 63

LastRound == 64

Round ==
  LET a == abcdefgh[1]  b == abcdefgh[2]  c == abcdefgh[3]  d == abcdefgh[4]
      e == abcdefgh[5]  f == abcdefgh[6]  g == abcdefgh[7]  h == abcdefgh[8]
      T1 == add(add(h, big_sigma1(e)), add(ch(e, f, g), add(K[round+1], W[round+1])))
      T2 == add(big_sigma0(a), maj(a, b, c))
  IN  /\ pc = "round"
      /\ IF round < LastRound
         THEN /\ abcdefgh' = <<add(T1, T2), a, b, c, add(d, T1), e, f, g>>
              /\ round' = round + 1 /\ UNCHANGED <<pc, sha_H, W>>
         ELSE /\ sha_H' = [n \in 1..8 |-> add(sha_H[n], abcdefgh[n])]
              /\ pc' = after /\ W' = << >> /\ abcdefgh' = << >> /\ round' = 0
      /\ UNCHANGED <<input, sha_screen, sha_blk, block, after, fed>>

(***************************************************************************)
(* sha256 and the shell.                                                   *)
(***************************************************************************)
Banner ==
  /\ pc = "reset" /\ pc' = "key" /\ UNCHANGED shaVars

\* Enter: hash the line unless it is empty.
EnterKey ==
  /\ pc = "key" /\ len \in EnterAt
  /\ IF len # 0 THEN pc' = "blocks" /\ UNCHANGED sha_screen
     ELSE sha_screen' = << >> /\ UNCHANGED pc
  /\ UNCHANGED <<input, hashVars>>

\* Backspace or DEL.
BackKey ==
  /\ pc = "key"
  /\ IF len > 0 THEN input' = Front(input) /\ sha_screen' = Front(sha_screen)
     ELSE UNCHANGED <<input, sha_screen>>
  /\ UNCHANGED <<pc, hashVars>>

Printable(c) == c \in 32..126

CharKey(c) ==
  IF Printable(c) /\ len < INPUT_MAX - 1
  THEN input' = Append(input, c) /\ sha_screen' = Append(sha_screen, c)
  ELSE UNCHANGED <<input, sha_screen>>

\* The user types on along one of the texts, or a character that is ignored.
TypeKey ==
  /\ pc = "key"
  /\ \E t \in Texts :
       /\ len < Len(t) /\ SubSeq(t, 1, len) = input
       /\ \E c \in {t[len + 1], 27} : CharKey(c)
  /\ UNCHANGED <<pc, hashVars>>

\* One complete block, or the tail: its bytes, 0x80 and zeros.
FullBlocks ==
  /\ pc = "blocks"
  /\ IF sha_blk < len \div 64
     THEN /\ sha256_transform(SubSeq(input, 64 * sha_blk + 1, 64 * sha_blk + 64), "blocks")
          /\ sha_blk' = sha_blk + 1 /\ UNCHANGED block
     ELSE /\ block' = SubSeq(input, 64 * sha_blk + 1, len) \o <<128>> \o Zeros(63 - (len % 64))
          /\ pc' = "pad" /\ UNCHANGED <<W, fed, after, sha_blk>>
  /\ UNCHANGED <<input, sha_screen, sha_H, abcdefgh, round>>

NoRoom == len % 64 >= 56

\* No room for the length: this block goes out and an empty one takes its place.
PadBlock ==
  /\ pc = "pad"
  /\ IF NoRoom THEN sha256_transform(block, "length") /\ block' = Zeros(64)
     ELSE pc' = "length" /\ UNCHANGED <<W, fed, after, block>>
  /\ UNCHANGED <<input, sha_screen, sha_H, sha_blk, abcdefgh, round>>

\* The length in bits, big endian, in the last eight bytes; the four high ones
\* are zero, since a line has less than 2^29 bytes.
LengthBlock ==
  LET full == [n \in 1..64 |-> IF n < 57 THEN block[n]
                               ELSE IF n < 61 THEN 0 ELSE ((len * 8) \div 256^(64 - n)) % 256]
  IN  /\ pc = "length" /\ sha256_transform(full, "print") /\ block' = full
      /\ UNCHANGED <<input, sha_screen, sha_H, sha_blk, abcdefgh, round>>

\* The digest goes out, the line is empty and the locals of sha256 are gone.
print_digest ==
  /\ pc = "print" /\ pc' = "key"
  /\ input' = << >> /\ sha_screen' = << >>
  /\ sha_H' = H_INIT /\ sha_blk' = 0 /\ block' = << >> /\ fed' = << >> /\ after' = "none"
  /\ UNCHANGED <<W, abcdefgh, round>>

sha256 == FullBlocks \/ PadBlock \/ LengthBlock \/ ScheduleWord \/ Round

ShaNext ==
  /\ Linked("sha256")
  /\ Banner \/ EnterKey \/ BackKey \/ TypeKey \/ sha256 \/ print_digest
-----------------------------------------------------------------------------
(***************************************************************************)
(* The standard: a message is followed by a one bit, by as few zeros as    *)
(* make it a multiple of 512 bits with its 64-bit length, and the length.  *)
(***************************************************************************)
Padded(m) ==
  LET z == (55 - Len(m)) % 64
  IN  m \o <<128>> \o Zeros(z) \o
      [n \in 1..8 |-> IF n < 5 THEN 0 ELSE ((8 * Len(m)) \div 256^(8 - n)) % 256]

\* The digest of "hello" as the program's header gives it.
Hello == <<104, 101, 108, 108, 111>>
HelloDigest == <<
  Bits(\h2cf2, \h4dba), Bits(\h5fb0, \ha30e), Bits(\h26e8, \h3b2a),
  Bits(\hc5b9, \he29e), Bits(\h1b16, \h1e5c), Bits(\h1fa7, \h425e),
  Bits(\h7304, \h3362), Bits(\h938b, \h9824) >>

\* When a line is hashed, the bytes compressed are those of the message padded
\* by the standard, at every length around the block boundaries; and the line
\* hashed is the one the terminal shows (sha256.c:241, 366-376).
PaddingExact ==
  /\ sha_screen = input /\ len < INPUT_MAX
  /\ pc = "print" => fed = Padded(input)

\* The message is padded by the standard, and the digest of the example in the
\* header is the one given there (sha256.c:12, 241, 366-376).
DigestExact ==
  image = "sha256" =>
    /\ PaddingExact
    /\ pc = "print" /\ input = Hello => sha_H = HelloDigest

ShaSpec == image = "sha256" /\ Boot /\ ShaInit /\ [][ShaNext]_<<image, pc, shaVars>>
=============================================================================
