------------------------------- MODULE CsrFile -------------------------------
(***************************************************************************)
(* The machine-mode trap state: the part of core/csr_regfile.sv that traps *)
(* and interrupts depend on, with the combinational core/trap_unit.sv that *)
(* resolves them.                                                          *)
(*                                                                         *)
(* Data abstraction.  mstatus, mie and mip are sets of their one bits, so  *)
(* csrrs / csrrc are union and difference; MPP is always M and left out.   *)
(* A PC counts instructions.  mtvec is set up once by software and is a    *)
(* constant; mcause and mtval are written together with mepc and read by   *)
(* nothing in the core, so they are left out.                              *)
(***************************************************************************)
EXTENDS Integers

CONSTANTS
  PC_SPACE,         \* number of program counters
  Sources,          \* interrupt sources considered, among MEI, MSI, MTI
  MTVEC_BASE,       \* mtvec.BASE
  MTVEC_VECTORED,   \* mtvec.MODE is vectored
  INT_CODE          \* exception code of each source (11, 3, 7 in the code)

ASSUME CsrAssumption ==
  /\ PC_SPACE \in Nat \ {0}
  /\ Sources \subseteq {"MEI", "MSI", "MTI"}
  /\ MTVEC_BASE \in 0 .. PC_SPACE - 1
  /\ MTVEC_VECTORED \in BOOLEAN
  /\ INT_CODE \in [Sources -> Nat]

VARIABLES
  mstatus,      \* subset of {"MIE", "MPIE"}
  mie,          \* sources enabled
  mip,          \* sources pending: the lines, one cycle late
  mepc,
  csr_rdata_q   \* registered read port

csrVars == <<mstatus, mie, mip, mepc, csr_rdata_q>>

MStatusBits == {"MIE", "MPIE"}
Pcs == 0 .. PC_SPACE - 1
PcPlus(pc, n) == (pc + n) % PC_SPACE

(***************************************************************************)
(* trap_unit.sv: the pending interrupt, its cause, and the trap targets.   *)
(***************************************************************************)
int_pending == "MIE" \in mstatus /\ mie \cap mip # {}

int_cause ==
  IF "MEI" \in mie \cap mip THEN "MEI"
  ELSE IF "MSI" \in mie \cap mip THEN "MSI" ELSE "MTI"

trap_target == MTVEC_BASE
int_target ==
  IF MTVEC_VECTORED THEN PcPlus(MTVEC_BASE, INT_CODE[int_cause]) ELSE MTVEC_BASE

\* mstatus on trap entry and on mret.
mstatus_entry == IF "MIE" \in mstatus THEN {"MPIE"} ELSE {}
mstatus_mret == {"MPIE"} \cup (IF "MPIE" \in mstatus THEN {"MIE"} ELSE {})

(***************************************************************************)
(* csr_regfile.sv.  A CSR instruction c is [reg, fn, src]; the value it    *)
(* writes is computed from the registered read of the cycle before.        *)
(***************************************************************************)
CsrValue(reg) == IF reg = "mstatus" THEN mstatus ELSE IF reg = "mie" THEN mie ELSE {}

csr_new(c) ==
  CASE c.fn = "rw" -> c.src
    [] c.fn = "rs" -> csr_rdata_q \cup c.src
    [] c.fn = "rc" -> csr_rdata_q \ c.src

\* Set and clear forms with a zero source do not write.
csr_we(c) == c.fn = "rw" \/ c.src # {}

\* What every cycle does: mip follows the lines, and the read port registers
\* the CSR addressed by the instruction in D/E.  A read of mepc only goes to
\* a general register and is not told apart from one of no CSR.
CsrTick(lines, reg) ==
  /\ mip' = lines
  /\ csr_rdata_q' = CsrValue(reg)

CsrHold == UNCHANGED <<mstatus, mie, mepc>>
CsrEntry(pc) == mstatus' = mstatus_entry /\ mepc' = pc /\ UNCHANGED mie
CsrMret == mstatus' = mstatus_mret /\ UNCHANGED <<mie, mepc>>
CsrWrite(c) ==
  /\ mstatus' = IF c.reg = "mstatus" /\ csr_we(c) THEN csr_new(c) ELSE mstatus
  /\ mie' = IF c.reg = "mie" /\ csr_we(c) THEN csr_new(c) ELSE mie
  /\ mepc' = IF c.reg = "mepc" /\ csr_we(c) THEN csr_new(c) ELSE mepc

CsrReset ==
  /\ mstatus = {}
  /\ mie = {}
  /\ mip = {}
  /\ mepc = 0
  /\ csr_rdata_q = {}
=============================================================================
