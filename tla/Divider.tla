------------------------------ MODULE Divider -------------------------------
(***************************************************************************)
(* The divider of the ALU (core/alu.sv): restoring division of magnitudes, *)
(* one quotient bit per cycle, the sign put back at the end.  One step is  *)
(* one clock edge.  A word is a number below 2^XLEN; div_rem_q is its two  *)
(* halves.  Execute holds the operation and its operands while it waits.   *)
(***************************************************************************)
EXTENDS Integers

CONSTANT XLEN

ASSUME DividerAssumption == XLEN \in Nat /\ XLEN > 1

VARIABLES
  alu_op, operand_a, operand_b,   \* the instruction in D/E
  div_state_q, div_cnt_q, div_a_q, div_divisor_q, div_neg_q, div_bz_q,
  div_rem_q                       \* [rem, quot]

divVars == <<alu_op, operand_a, operand_b, div_state_q, div_cnt_q, div_a_q, div_divisor_q,
             div_neg_q, div_bz_q, div_rem_q>>

\* 2^n, as a function: facts about ^ are out of the reach of the provers.
pow2[n \in Nat] == IF n = 0 THEN 1 ELSE 2 * pow2[n - 1]

Modulus == pow2[XLEN]
WordsX == 0..Modulus-1
DivOps == {"DIV", "DIVU", "REM", "REMU"}
IsSigned(op) == op \in {"DIV", "REM"}
Msb(x) == x >= Modulus \div 2
Neg(x) == (-x) % Modulus
abs(op, x) == IF IsSigned(op) /\ Msb(x) THEN Neg(x) ELSE x

DivInit ==
  /\ alu_op = "DIV" /\ operand_a = 0 /\ operand_b = 0
  /\ div_state_q = "DIV_IDLE" /\ div_cnt_q = 0 /\ div_a_q = 0 /\ div_divisor_q = 0
  /\ div_neg_q = FALSE /\ div_bz_q = FALSE /\ div_rem_q = [rem |-> 0, quot |-> 0]

\* Mutant: the sign of a quotient does not look for a zero divisor.
result_sign_unguarded(op, a, b) ==
  (op = "DIV" /\ Msb(a) # Msb(b)) \/ (op = "REM" /\ Msb(a))

result_sign(op, a, b) ==
  (op = "DIV" /\ Msb(a) # Msb(b) /\ b # 0) \/ (op = "REM" /\ Msb(a))

Launch_div(op, a, b) ==
  /\ div_state_q = "DIV_IDLE" /\ div_state_q' = "DIV_RUN" /\ div_cnt_q' = 0
  /\ alu_op' = op /\ operand_a' = a /\ operand_b' = b
  /\ div_a_q' = abs(op, a) /\ div_divisor_q' = abs(op, b)
  /\ div_neg_q' = result_sign(op, a, b) /\ div_bz_q' = (b = 0)
  /\ div_rem_q' = [rem |-> 0, quot |-> abs(op, a)]

\* The pair one place to the left; the bit that leaves the top is dropped.
shifted == [rem |-> (2 * div_rem_q.rem + (2 * div_rem_q.quot) \div Modulus) % Modulus,
            quot |-> (2 * div_rem_q.quot) % Modulus]

ShiftSubtract ==
  /\ div_state_q = "DIV_RUN"
  /\ div_rem_q' = IF shifted.rem >= div_divisor_q
                  THEN [rem |-> shifted.rem - div_divisor_q, quot |-> shifted.quot + 1]
                  ELSE shifted
  /\ IF div_cnt_q = XLEN - 1
     THEN div_state_q' = "DIV_DONE" /\ UNCHANGED div_cnt_q
     ELSE div_cnt_q' = div_cnt_q + 1 /\ UNCHANGED div_state_q
  /\ UNCHANGED <<alu_op, operand_a, operand_b, div_a_q, div_divisor_q, div_neg_q, div_bz_q>>

EndDivision ==
  /\ div_state_q = "DIV_DONE" /\ div_state_q' = "DIV_IDLE"
  /\ UNCHANGED <<alu_op, operand_a, operand_b, div_cnt_q, div_a_q, div_divisor_q, div_neg_q,
                 div_bz_q, div_rem_q>>

div_take_rem == alu_op \in {"REM", "REMU"}
div_mag == IF div_bz_q THEN (IF div_take_rem THEN div_a_q ELSE Modulus - 1)
           ELSE (IF div_take_rem THEN div_rem_q.rem ELSE div_rem_q.quot)
div_result == IF div_neg_q THEN Neg(div_mag) ELSE div_mag

DivNext ==
  \/ \E op \in DivOps, a, b \in WordsX : Launch_div(op, a, b)
  \/ ShiftSubtract
  \/ EndDivision

DivSpec == DivInit /\ [][DivNext]_divVars
-----------------------------------------------------------------------------
(***************************************************************************)
(* The M extension: truncating division, and its two special cases.        *)
(***************************************************************************)
IntOf(op, x) == IF IsSigned(op) /\ Msb(x) THEN x - Modulus ELSE x
AbsInt(n) == IF n < 0 THEN -n ELSE n
Quotient(n, d) == LET q == AbsInt(n) \div AbsInt(d) IN IF (n < 0) # (d < 0) THEN -q ELSE q

Expected(op, a, b) ==
  LET n == IntOf(op, a)  d == IntOf(op, b)
      q == IF d = 0 THEN -1 ELSE Quotient(n, d)
      r == IF d = 0 THEN n ELSE n - d * Quotient(n, d)
  IN  (IF op \in {"DIV", "DIVU"} THEN q ELSE r) % Modulus

\* The result is the one the M extension defines for every operand, division by
\* zero and the overflow of the most negative number included: the bit the
\* shift drops is never needed, and the one sign flop serves all four
\* operations (alu.sv:277-289, 331-345, 420-431).
DividerExact ==
  /\ div_state_q = "DIV_DONE" => div_result = Expected(alu_op, operand_a, operand_b)
  /\ div_state_q = "DIV_RUN" => ~Msb(div_rem_q.rem)
=============================================================================
