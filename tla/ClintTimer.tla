----------------------------- MODULE ClintTimer -----------------------------
(***************************************************************************)
(* The machine timer (utils/clint_timer.sv): a free-running counter of two *)
(* words of H values each, a compare register written one word at a time,  *)
(* and a compare pipelined over two stages.  One step is one clock edge;   *)
(* its input is the word the bus commits in that cycle: << >> or           *)
(* <<[half, val]>>.  The bus side of the slave is in PeriBus.              *)
(*                                                                         *)
(* Software moves the deadline at any time, with the three stores the      *)
(* module's header prescribes: all ones to the high word, the low word,    *)
(* the high word.  armed is the deadline in force: << >> from the first of *)
(* these stores to the last.  due_q and due_qq are history variables: what *)
(* the interrupt should be, one and two edges later.                       *)
(***************************************************************************)
EXTENDS Integers, Sequences

CONSTANT H   \* values of a word (2^32 in the RTL)

ASSUME ClintAssumption == H \in Nat /\ H > 1

TimerWords == 0..H-1
Times == 0..H*H-1

VARIABLES
  mtime_q, mtimecmp_q,          \* counter; compare [hi, lo]
  ge_hi_q, eq_hi_q, ge_lo_q,    \* stage 1
  mtip_q,                       \* stage 2
  armed, next,                  \* software: deadline in force, deadline being set
  step,                         \* software: next store of the sequence
  due_q, due_qq                 \* history

timerRegs == <<mtime_q, mtimecmp_q, ge_hi_q, eq_hi_q, ge_lo_q, mtip_q>>
timerVars == <<timerRegs, armed, next, step, due_q, due_qq>>

mtime_hi == mtime_q \div H
mtime_lo == mtime_q % H

TimerInit ==
  /\ mtime_q = 0 /\ mtimecmp_q = [hi |-> H - 1, lo |-> H - 1]
  /\ ge_hi_q = FALSE /\ eq_hi_q = FALSE /\ ge_lo_q = FALSE /\ mtip_q = FALSE
  /\ armed = <<H * H - 1>> /\ next = 0 /\ step = 1
  /\ due_q = FALSE /\ due_qq = FALSE

ge_lo == mtime_lo >= mtimecmp_q.lo

Count == mtime_q' = (mtime_q + 1) % (H * H)

\* Mutant: stage 2 takes the low compare of the next cycle.
Compare_skewed ==
  /\ ge_hi_q' = (mtime_hi > mtimecmp_q.hi)
  /\ eq_hi_q' = (mtime_hi = mtimecmp_q.hi)
  /\ ge_lo_q' = ge_lo
  /\ mtip_q' = (ge_hi_q \/ (eq_hi_q /\ ge_lo))

Compare ==
  /\ ge_hi_q' = (mtime_hi > mtimecmp_q.hi)
  /\ eq_hi_q' = (mtime_hi = mtimecmp_q.hi)
  /\ ge_lo_q' = ge_lo
  /\ mtip_q' = (ge_hi_q \/ (eq_hi_q /\ ge_lo_q))

\* The bus commits a word; a write to the counter is ignored.
Commit(w) ==
  mtimecmp_q' = IF w = << >> \/ w[1].half = "mtime" THEN mtimecmp_q
                ELSE [mtimecmp_q EXCEPT ![w[1].half] = w[1].val]

Clock(w) ==
  /\ Count /\ Compare /\ Commit(w)
  /\ due_q' = (armed # << >> /\ mtime_q >= armed[1])
  /\ due_qq' = due_q

Word(half, val) == <<[half |-> half, val |-> val]>>

Quiet ==
  /\ Clock(<< >>)
  /\ UNCHANGED <<armed, next, step>>

\* A store to the read-only counter.
StrayStore ==
  /\ \E v \in TimerWords : Clock(Word("mtime", v))
  /\ UNCHANGED <<armed, next, step>>

Disarm ==
  /\ step = 1
  /\ Clock(Word("hi", H - 1))
  /\ next' \in Times
  /\ armed' = << >> /\ step' = 2

SetLow ==
  /\ step = 2
  /\ Clock(Word("lo", next % H))
  /\ step' = 3
  /\ UNCHANGED <<armed, next>>

SetHigh ==
  /\ step = 3
  /\ Clock(Word("hi", next \div H))
  /\ armed' = <<next>> /\ step' = 1
  /\ UNCHANGED next

TimerNext == Quiet \/ StrayStore \/ Disarm \/ SetLow \/ SetHigh

TimerSpec == TimerInit /\ [][TimerNext]_timerVars

(***************************************************************************)
(* Properties                                                              *)
(***************************************************************************)
\* The interrupt is exactly the 64-bit compare with the deadline in force,
\* two edges late: no skew between the halves of the compare while the low
\* word of the counter wraps, and no pulse while the deadline is rewritten
\* word by word.  (The high word of the counter reaches all ones after 2^64
\* cycles less one word; two edges ago it had not.)
DeadlineExact == (mtime_q >= 2 /\ mtime_hi < H - 1) => mtip_q = due_qq
=============================================================================
