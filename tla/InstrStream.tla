----------------------------- MODULE InstrStream -----------------------------
(***************************************************************************)
(* What the front end promises to execute.  It hands over, in program      *)
(* order and one at a time, the instructions found by parsing the memory   *)
(* from the last redirect target (or from the target of an instruction     *)
(* predicted taken): each exactly once, with its own PC and its own        *)
(* halfwords.  When the parse leaves the implemented memory it hands over  *)
(* one access fault for the first halfword that cannot be fetched, and     *)
(* nothing after it until the next redirect.                               *)
(***************************************************************************)
EXTENDS Integers, Sequences

CONSTANTS
  ADDR_SPACE, IMEM_BYTES,   \* all addresses, and those that can be fetched
  Targets, BOOT_ADDR

VARIABLES
  prog,   \* halfword address -> opens a 32-bit instruction?
  next,   \* where the stream stands
  de      \* what execute sees

streamVars == <<prog, next, de>>

Unfetchable(a) == a >= IMEM_BYTES
Plus(a, n) == (a + n) % ADDR_SPACE

\* An instruction whose second half cannot be fetched is, for the stream,
\* the fault at that half.
Settle(a) ==
  IF ~Unfetchable(a) /\ prog[a] /\ Unfetchable(Plus(a, 2)) THEN Plus(a, 2) ELSE a

Size(a) == IF prog[a] THEN 4 ELSE 2
Halves(a) == IF prog[a] THEN <<a, Plus(a, 2)>> ELSE <<a>>

Empty == de.valid = FALSE

StreamInit == next = Settle(BOOT_ADDR) /\ Empty

\* The instruction at next is handed over; the stream goes on behind it, or
\* at the target execute is told it was predicted to jump to.
HandOver ==
  /\ ~(de.valid /\ de.fault)
  /\ ~Unfetchable(next)
  /\ de'.valid /\ ~de'.fault
  /\ de'.pc = next
  /\ de'.halves = Halves(next)
  /\ next' = Settle(IF de'.taken THEN de'.target ELSE Plus(next, Size(next)))

\* The fault at next is handed over; what follows is unspecified.
HandOverFault ==
  /\ ~(de.valid /\ de.fault)
  /\ Unfetchable(next)
  /\ de'.valid /\ de'.fault /\ de'.pc = next
  /\ next' \in 0 .. ADDR_SPACE - 1

\* Nothing new, and execute is done with what it had.
Gap == ~(de.valid /\ de.fault) /\ ~de'.valid /\ next' = next

\* Execute redirects: the instruction it saw is gone, and so is the stream.
StreamFlush == ~de'.valid /\ \E t \in Targets : next' = Settle(t)

\* Execute keeps what it has.  Behind a fault the stream may drift.
Keep == de' = de /\ (next' = next \/ (de.valid /\ de.fault))

StreamNext ==
  /\ prog' = prog
  /\ HandOver \/ HandOverFault \/ Gap \/ StreamFlush \/ Keep

StreamSpec == StreamInit /\ [][StreamNext]_streamVars
=============================================================================
