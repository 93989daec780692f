------------------------------ MODULE YarvMon -------------------------------
(***************************************************************************)
(* The monitor sim/sw/yarvmon/yarvmon.c: a line editor over the UART, and  *)
(* an interpreter for lines that examine, deposit and run.  One step is    *)
(* one key of the user or one pass of a loop of the interpreter.           *)
(*                                                                         *)
(* A digit has BASE values (16) and an address DIGITS digits (8); the rest *)
(* of the arithmetic follows: addresses wrap at BASE^DIGITS and a byte has *)
(* two digits.  A character that is a digit is its value; the others are   *)
(* negative.  The terminal shows the line being edited; what the           *)
(* interpreter prints is the sequence of the addresses and bytes it shows, *)
(* newlines and address prefixes left out.                                 *)
(***************************************************************************)
EXTENDS Integers, Sequences, SequencesExt, Image

CONSTANTS
  IN_BUF_SIZE,
  BASE, DIGITS,
  KeysMax           \* bound: keys the user presses

ASSUME MonAssumption ==
  {IN_BUF_SIZE, BASE, DIGITS, KeysMax} \subseteq Nat \ {0, 1}

\* BASE^n, as a function: facts about ^ are out of the reach of the provers.
power[n \in Nat] == IF n = 0 THEN 1 ELSE BASE * power[n - 1]

\* An unsigned long has AddrMod values.
AddrMod == power[DIGITS]
Addrs == 0..AddrMod-1
Bytes == 0..BASE*BASE-1
Digits == 0..BASE-1

Dot == -1
Colon == -2
Blank == -3
Run == -4
Other == -5
Chars == Digits \cup {Dot, Colon, Blank, Run, Other}
Erase == -6
Return == -7
Keys == Chars \cup {Erase, Return}

VARIABLES
  in_buf,          \* the first idx characters of the buffer
  xam, st_addr,    \* last examined address, current store address
  y, mode, hex_val, digits,
  dmem,            \* the bytes the LSU reaches
  shown,           \* history: <<address, byte>> printed for this line
  ran,             \* history: addresses called for this line
  screen,          \* the line as the terminal shows it
  keys,            \* keys pressed so far
  before           \* history: what the line started from

monVars == <<in_buf, xam, st_addr, y, mode, hex_val, digits, dmem, shown, ran, screen, keys,
             before>>

MonState == [xam |-> xam, st_addr |-> st_addr, dmem |-> dmem, shown |-> shown, ran |-> ran]

\* A memory whose bytes differ, so that it shows which one is read.
MonInit ==
  /\ in_buf = << >> /\ xam = 0 /\ st_addr = 0
  /\ y = 0 /\ mode = "XAM" /\ hex_val = 0 /\ digits = 0
  /\ dmem = [a \in Addrs |-> a % (BASE * BASE)]
  /\ shown = << >> /\ ran = << >> /\ screen = << >> /\ keys = 0
  /\ before = MonState

\* The banner, or the end of the line before: a new prompt.
Prompt ==
  /\ pc \in {"reset", "prompt"} /\ pc' = "get_line"
  /\ in_buf' = << >> /\ screen' = << >> /\ shown' = << >> /\ ran' = << >>
  /\ before' = [MonState EXCEPT !.shown = << >>, !.ran = << >>]
  /\ UNCHANGED <<xam, st_addr, y, mode, hex_val, digits, dmem, keys>>

\* Backspace: the last character goes, in the buffer and by "\b \b" on the screen.
EraseKey ==
  IF in_buf = << >> THEN UNCHANGED <<in_buf, screen>>
  ELSE in_buf' = Front(in_buf) /\ screen' = Front(screen)

\* Any other character, unless the buffer is full.
StoreKey(c) ==
  IF Len(in_buf) >= IN_BUF_SIZE - 1 THEN UNCHANGED <<in_buf, screen>>
  ELSE in_buf' = Append(in_buf, c) /\ screen' = Append(screen, c)

get_line ==
  /\ pc = "get_line" /\ keys < KeysMax /\ keys' = keys + 1
  /\ \E c \in Keys :
       \/ /\ c = Return /\ pc' = "skip" /\ y' = 0 /\ mode' = "XAM"
          /\ UNCHANGED <<in_buf, screen>>
       \/ /\ c = Erase /\ EraseKey /\ UNCHANGED <<pc, y, mode>>
       \/ /\ c \in Chars /\ StoreKey(c) /\ UNCHANGED <<pc, y, mode>>
  /\ UNCHANGED <<xam, st_addr, hex_val, digits, dmem, shown, ran, before>>

cur == in_buf[y + 1]
EndOfLine == y >= Len(in_buf)

\* One pass of the loop that skips delimiters and takes mode characters.
SkipDelimiters ==
  /\ pc = "skip"
  /\ \/ /\ EndOfLine /\ pc' = "prompt" /\ UNCHANGED <<y, mode, ran, hex_val, digits>>
     \/ /\ ~EndOfLine /\ cur \in {Dot, Colon, Blank}
        /\ y' = y + 1
        /\ mode' = CASE cur = Dot -> "BLOCK" [] cur = Colon -> "STOR" [] OTHER -> mode
        /\ UNCHANGED <<pc, ran, hex_val, digits>>
     \/ /\ ~EndOfLine /\ cur = Run
        /\ ran' = Append(ran, xam) /\ y' = Len(in_buf) /\ pc' = "prompt"
        /\ UNCHANGED <<mode, hex_val, digits>>
     \/ /\ ~EndOfLine /\ cur \notin {Dot, Colon, Blank, Run}
        /\ hex_val' = 0 /\ digits' = 0 /\ pc' = "number"
        /\ UNCHANGED <<y, mode, ran>>
  /\ UNCHANGED <<in_buf, xam, st_addr, dmem, shown, screen, keys, before>>

\* One digit, or the end of the number: no digit at all is a syntax error.
ReadNumber ==
  /\ pc = "number"
  /\ IF ~EndOfLine /\ cur \in Digits
     THEN /\ hex_val' = (hex_val * BASE + cur) % AddrMod
          /\ digits' = digits + 1 /\ y' = y + 1 /\ UNCHANGED pc
     ELSE /\ pc' = IF digits = 0 THEN "prompt" ELSE mode
          /\ UNCHANGED <<hex_val, digits, y>>
  /\ UNCHANGED <<in_buf, xam, st_addr, mode, dmem, shown, ran, screen, keys, before>>

Deposit ==
  /\ pc = "STOR"
  /\ dmem' = [dmem EXCEPT ![st_addr] = hex_val % (BASE * BASE)]
  /\ st_addr' = (st_addr + 1) % AddrMod /\ pc' = "skip"
  /\ UNCHANGED <<in_buf, xam, y, mode, hex_val, digits, shown, ran, screen, keys, before>>

\* Mutant: the mode survives the block.
ExamineBlock_sticky ==
  /\ pc = "BLOCK"
  /\ shown' = Append(shown, <<xam, dmem[xam]>>)
  /\ IF xam = hex_val
     THEN pc' = "skip" /\ UNCHANGED <<mode, xam>>
     ELSE xam' = (xam + 1) % AddrMod /\ UNCHANGED <<pc, mode>>
  /\ UNCHANGED <<in_buf, st_addr, y, hex_val, digits, dmem, ran, screen, keys, before>>

\* One byte of the block: the end is tested after the byte, by equality.
ExamineBlock ==
  /\ pc = "BLOCK"
  /\ shown' = Append(shown, <<xam, dmem[xam]>>)
  /\ IF xam = hex_val
     THEN pc' = "skip" /\ mode' = "XAM" /\ UNCHANGED xam
     ELSE xam' = (xam + 1) % AddrMod /\ UNCHANGED <<pc, mode>>
  /\ UNCHANGED <<in_buf, st_addr, y, hex_val, digits, dmem, ran, screen, keys, before>>

Examine ==
  /\ pc = "XAM"
  /\ xam' = hex_val /\ st_addr' = hex_val
  /\ shown' = Append(shown, <<hex_val, dmem[hex_val]>>) /\ pc' = "skip"
  /\ UNCHANGED <<in_buf, y, mode, hex_val, digits, dmem, ran, screen, keys, before>>

yarvmon == SkipDelimiters \/ ReadNumber \/ Deposit \/ ExamineBlock \/ Examine

MonNext == Linked("yarvmon") /\ (Prompt \/ get_line \/ yarvmon)
-----------------------------------------------------------------------------
(***************************************************************************)
(* What a line means.  A meaning m has the addresses, the memory, what was *)
(* shown and run, the mode and whether the line is over.                   *)
(***************************************************************************)
\* The addresses from a to b, going up and wrapping.
UpTo(a, b) == [k \in 1..((b - a) % AddrMod) + 1 |-> (a + k - 1) % AddrMod]

\* A character that is no digit.
CharMeans(m, c) ==
  CASE m.over \/ c = Blank -> m
    [] ~m.over /\ c = Dot -> [m EXCEPT !.mode = "BLOCK"]
    [] ~m.over /\ c = Colon -> [m EXCEPT !.mode = "STOR"]
    [] ~m.over /\ c = Run -> [m EXCEPT !.ran = Append(@, m.xam), !.over = TRUE]
    [] ~m.over /\ c = Other -> [m EXCEPT !.over = TRUE]

\* A complete number.
NumberMeans(m, n) ==
  CASE m.over -> m
    [] ~m.over /\ m.mode = "XAM" ->
         [m EXCEPT !.xam = n, !.st_addr = n, !.shown = Append(@, <<n, m.dmem[n]>>)]
    [] ~m.over /\ m.mode = "STOR" ->
         [m EXCEPT !.dmem = [@ EXCEPT ![m.st_addr] = n % (BASE * BASE)],
                   !.st_addr = (@ + 1) % AddrMod]
    [] ~m.over /\ m.mode = "BLOCK" ->
         LET r == UpTo(m.xam, n)
         IN  [m EXCEPT !.shown = @ \o [k \in DOMAIN r |-> <<r[k], m.dmem[r[k]]>>],
                       !.xam = n, !.mode = "XAM"]

\* For each character of s, the number that ends with it: 0 if it is no digit.
NumbersIn(s) ==
  LET n[k \in 0..Len(s)] == IF k = 0 THEN 0
                            ELSE IF s[k] \in Digits THEN (n[k-1] * BASE + s[k]) % AddrMod
                            ELSE 0
  IN  n

IsDigitAt(s, k) == k > 0 /\ s[k] \in Digits

\* m is what the first k characters of s mean without a number that ends there:
\* what they mean if the line ends there, too.
Ended(s, m, k) == IF IsDigitAt(s, k) THEN NumberMeans(m, NumbersIn(s)[k]) ELSE m

\* What the first k characters mean, without a number that ends there.
MeansUpTo(s, from) ==
  LET start == [xam |-> from.xam, st_addr |-> from.st_addr, dmem |-> from.dmem,
                shown |-> from.shown, ran |-> from.ran, mode |-> "XAM", over |-> FALSE]
      m[k \in 0..Len(s)] == IF k = 0 THEN start
                            ELSE IF s[k] \in Digits THEN m[k-1]
                            ELSE CharMeans(Ended(s, m[k-1], k-1), s[k])
  IN  m

LineMeans(s, from) == Ended(s, MeansUpTo(s, from)[Len(s)], Len(s))

\* When a line has been worked through, the memory, the two addresses and what
\* was shown and run are what the line means, token by token, and the line is
\* what the terminal shows, whatever was typed, erased or dropped at the limit
\* of the buffer (yarvmon.c:67-74, 97-150).
LineObeyed ==
  image = "yarvmon" =>
    /\ screen = in_buf /\ Len(in_buf) < IN_BUF_SIZE
    /\ pc = "prompt" => LET m == LineMeans(in_buf, before)
                        IN  /\ xam = m.xam /\ st_addr = m.st_addr /\ dmem = m.dmem
                            /\ shown = m.shown /\ ran = m.ran

MonSpec == image = "yarvmon" /\ Boot /\ MonInit /\ [][MonNext]_<<image, pc, monVars>>
=============================================================================
