------------------------- MODULE ExecuteStageProofs -------------------------
(***************************************************************************)
(* Proofs about ExecuteStage, for every PC space, set of interrupt         *)
(* sources, trap vector, set of CSR accesses and setting of LSU_LIVE_LOAD. *)
(*                                                                         *)
(* StageInv carries the properties that do not depend on the program: who  *)
(* owns a wait state, what is on the buses, which faults can be where.     *)
(* OrderInv says where the program counter of the instruction in D/E and   *)
(* of the stream behind it stand; it is inductive on top of StageInv, and  *)
(* only where no wfi directly follows a wfi (WFI_PAIRS = FALSE).           *)
(* WatchInv is what the simulation harness of SimHarness, which samples    *)
(* the stage around every edge, relies on.                                 *)
(***************************************************************************)
EXTENDS SimHarness, SequenceTheorems, TLAPS

\* StateHasOwner without the part that depends on the program.
Owned ==
  /\ ex_state_q \in {"EX_MEM_LAUNCH", "EX_MEM_WAIT", "EX_MEM_TRAP"} =>
       /\ is_mem_op /\ mem_q.own
       /\ mem_q.peri = de.ins.peri /\ mem_q.mis = de.ins.mis
  /\ ex_state_q = "EX_DIV_BUSY" => is("div")
  /\ ex_state_q = "EX_CSR_WAIT" =>
       is("csr") /\ csr_rdata_q = CsrValue(de.ins.csr.reg)
  /\ ex_state_q # "EX_IDLE" => ~wfi_halt_q

\* Only an aligned load waits for an answer; a misaligned access sits in the
\* one state from which its trap is raised.
FaultsPlaced ==
  /\ ex_state_q = "EX_MEM_WAIT" => is("load") /\ ~mem_q.mis
  /\ ex_state_q = "EX_MEM_TRAP" => LSU_LIVE_LOAD /\ mem_q.mis
  /\ ex_state_q = "EX_MEM_LAUNCH" /\ LSU_LIVE_LOAD => ~mem_q.mis

\* The instruction in D/E has reached a slave only if it waits for its data.
BusSoFar ==
  bus = IF ex_state_q = "EX_MEM_WAIT" THEN <<[port |-> lsu_port, we |-> FALSE]>>
        ELSE << >>

StageInv == ExecTypeOK /\ Owned /\ FaultsPlaced /\ BusSoFar /\ AccessesExact

OrderInv ==
  /\ de.valid => de.pc = arch_pc
  /\ next_pc = IF ~de.valid THEN arch_pc
               ELSE IF de.pred THEN de.ptarget ELSE pc_link
  /\ de.pred => is("branch")
  /\ wfi_halt_q => ~is("wfi")
  /\ HaltIsCurrent

(***************************************************************************)
(* Types.                                                                  *)
(***************************************************************************)
\* Program counters wrap within the PC space.
LEMMA PcRange ==
  ASSUME NEW pc \in Nat, NEW n \in Nat
  PROVE  PcPlus(pc, n) \in Pcs
BY CsrAssumption DEF PcPlus, Pcs

\* What the program hands over: only memory ops are misaligned, and only CSR
\* ops name a CSR, one that its source operand fits.
LEMMA InsFacts ==
  ASSUME NEW ins \in Instructions
  PROVE  /\ ins.op \in {"alu", "div", "branch", "exc", "mret", "wfi", "load", "store", "csr"}
         /\ ins.peri \in BOOLEAN /\ ins.mis \in BOOLEAN
         /\ ins.mis => ins.op \in {"load", "store"}
         /\ ins.op = "csr" => ins.csr \in CsrOps
         /\ ins.op # "csr" => ins.csr = NoCsr
<1>1. CASE ins \in {Plain(op) : op \in {"alu", "div", "branch", "exc", "mret", "wfi"}}
  <2>1. PICK op \in {"alu", "div", "branch", "exc", "mret", "wfi"} : ins = Plain(op)
    BY <1>1
  <2> QED
    BY <2>1 DEF Plain
<1>2. CASE ins \in {MemIns(op, p, m) : op \in {"load", "store"}, p \in BOOLEAN, m \in BOOLEAN}
  <2>1. PICK op \in {"load", "store"}, p \in BOOLEAN, m \in BOOLEAN : ins = MemIns(op, p, m)
    BY <1>2
  <2>2. ins = [op |-> op, peri |-> p, mis |-> m, csr |-> NoCsr]
    BY <2>1 DEF MemIns, Plain
  <2> QED
    BY <2>2
<1>3. CASE ins \in {CsrIns(c) : c \in CsrOps}
  <2>1. PICK c \in CsrOps : ins = CsrIns(c)
    BY <1>3
  <2>2. ins = [op |-> "csr", peri |-> FALSE, mis |-> FALSE, csr |-> c]
    BY <2>1 DEF CsrIns, Plain
  <2> QED
    BY <2>2
<1> QED
  BY <1>1, <1>2, <1>3 DEF Instructions

\* The two plain instructions are instructions.
LEMMA PlainIsIns ==
  Plain("alu") \in Instructions /\ Plain("branch") \in Instructions
BY DEF Instructions

\* A bubble is a D/E register that holds nothing.
LEMMA BubbleType ==
  /\ Bubble \in [valid: BOOLEAN, pc: Pcs, ins: Instructions, pred: BOOLEAN, ptarget: Pcs]
  /\ ~Bubble.valid /\ ~Bubble.pred
BY PlainIsIns, CsrAssumption DEF Bubble, Pcs

\* What the wires at the boundary carry.
LEMMA InputFacts ==
  ASSUME NEW i \in Inputs
  PROVE  /\ i.rvalid \subseteq read_owed
         /\ i.divdone \in BOOLEAN /\ i.taken \in BOOLEAN
         /\ i.target \in Pcs /\ i.lines \subseteq Sources
<1>1. {0} \subseteq Pcs
  BY CsrAssumption DEF Pcs
<1> QED
  BY <1>1 DEF Inputs

\* The PCs a redirect may load.
LEMMA TargetTypes ==
  ASSUME ExecTypeOK
  PROVE  /\ trap_target \in Pcs
         /\ int_pending => int_target \in Pcs
         /\ trap_mepc \in Pcs /\ pc_link \in Pcs
<1>1. trap_target \in Pcs
  BY CsrAssumption DEF trap_target, Pcs
<1>2. ASSUME int_pending PROVE int_target \in Pcs
  <2>1. int_cause \in Sources
    <3>1. PICK c \in mie \cap mip : TRUE
      BY <1>2 DEF int_pending
    <3>2. c \in {"MEI", "MSI", "MTI"} /\ mie \cap mip \subseteq Sources
      BY <3>1, CsrAssumption DEF ExecTypeOK
    <3> QED
      BY <3>1, <3>2 DEF int_cause
  <2>2. INT_CODE[int_cause] \in Nat /\ MTVEC_BASE \in Nat
    BY <2>1, CsrAssumption
  <2>3. PcPlus(MTVEC_BASE, INT_CODE[int_cause]) \in Pcs
    BY <2>2, PcRange
  <2> QED
    BY <2>3, <1>1 DEF int_target, trap_target
<1>3. de.pc \in Pcs /\ wfi_next_pc_q \in Pcs /\ de.pc \in Nat
  BY CsrAssumption DEF ExecTypeOK, Pcs
<1> QED
  BY <1>1, <1>2, <1>3, PcRange DEF trap_mepc, pc_link

(***************************************************************************)
(* What the wires do, given the invariant.                                 *)
(***************************************************************************)
\* The kinds of instruction exclude each other, and an empty D/E means EX_IDLE.
LEMMA StateFacts ==
  ASSUME StageInv
  PROVE  /\ ex_state_q \in States
         /\ de.valid \in BOOLEAN /\ wfi_halt_q \in BOOLEAN
         /\ mem_q.peri \in BOOLEAN /\ mem_q.mis \in BOOLEAN /\ mem_q.own \in BOOLEAN
         /\ de.ins \in Instructions
         /\ ~de.valid => idle
         /\ wfi_halt_q => idle
BY DEF StageInv, ExecTypeOK, Owned, idle, is_mem_op, is, States

\* A memory op in EX_IDLE neither traps nor retires, and nothing is accepted
\* from EX_IDLE but an aligned D-mem load.
LEMMA IdleFacts ==
  ASSUME StageInv, idle, NEW i \in Inputs
  PROVE  /\ ~misaligned_trap /\ ~captured_drive /\ ~captured_hs(i)
         /\ mem_req_pending => ~trap_redirect_req /\ ~retires(i)
         /\ dmem_load_drive => mem_req_pending
         /\ bus = << >> /\ read_owed = {} /\ rready = {}
<1>1. ~misaligned_trap /\ ~captured_drive /\ ~captured_hs(i)
  BY DEF idle, misaligned_trap, captured_drive, captured_hs
<1>2. ASSUME mem_req_pending PROVE ~trap_redirect_req /\ ~retires(i)
  <2>1. de.valid /\ de.ins.op \in {"load", "store"} /\ ~wfi_halt_q
    BY <1>2 DEF mem_req_pending, is_mem_op, is
  <2>2. ~trap_redirect_req
    BY <1>1, <2>1 DEF trap_redirect_req, sync_trap_req, mret_req, take_interrupt,
      normal_int_eligible, is_mem_op, is
  <2>3. ~mem_op_done(i)
    BY <1>1 DEF idle, mem_op_done, mem_done, store_done
  <2> QED
    BY <2>1, <2>2, <2>3 DEF retires, result_ready, is_mem_op, is
<1>3. dmem_load_drive => mem_req_pending
  BY DEF dmem_load_drive
<1>4. bus = << >> /\ read_owed = {} /\ rready = {}
  BY DEF StageInv, BusSoFar, AccessesExact, ReadsOwed, rready, idle
<1> QED
  BY <1>1, <1>2, <1>3, <1>4

\* Outside EX_IDLE the owner of the state is in D/E, no freeze is on, and no
\* request is raised but the misaligned trap.
LEMMA BusyFacts ==
  ASSUME StageInv, ~idle, NEW i \in Inputs
  PROVE  /\ de.valid /\ ~wfi_halt_q /\ ~freeze
         /\ ~mem_req_pending /\ ~dmem_load_drive /\ ~dmem_load_hs(i)
         /\ ~alu_start /\ ~csr_start /\ ~wfi_retire
         /\ ~mret_req /\ ~take_interrupt
         /\ trap_redirect_req <=> misaligned_trap
         /\ ex_state_q \in {"EX_MEM_LAUNCH", "EX_MEM_WAIT", "EX_MEM_TRAP"} =>
              de.ins.op \in {"load", "store"}
<1>1. /\ ex_state_q \in States \ {"EX_IDLE"}
      /\ de.valid /\ ~wfi_halt_q
  BY StateFacts DEF idle
<1>2. ~freeze
  BY <1>1 DEF freeze, wfi_stall
<1>3. /\ ~mem_req_pending /\ ~dmem_load_drive /\ ~dmem_load_hs(i)
      /\ ~alu_start /\ ~csr_start /\ ~wfi_retire /\ ~mret_req
  BY DEF mem_req_pending, dmem_load_drive, dmem_load_hs, alu_start, csr_start, wfi_retire,
    mret_req
<1>4. ~take_interrupt
  BY <1>1 DEF take_interrupt, normal_int_eligible
<1>5. trap_redirect_req <=> misaligned_trap
  BY <1>3, <1>4 DEF trap_redirect_req, sync_trap_req
<1>6. ex_state_q \in {"EX_MEM_LAUNCH", "EX_MEM_WAIT", "EX_MEM_TRAP"} =>
        de.ins.op \in {"load", "store"}
  BY DEF StageInv, Owned, is_mem_op, is
<1> QED
  BY <1>1, <1>2, <1>3, <1>4, <1>5, <1>6

(***************************************************************************)
(* An instruction leaves D/E from a cycle after which the stage is idle    *)
(* and owes no data; it has made exactly the accesses it is due.           *)
(***************************************************************************)
LEMMA DepartureIsClean ==
  ASSUME StageInv, NEW i \in Inputs, trap_redirect_req \/ retires(i)
  PROVE  /\ next_state(i) = "EX_IDLE"
         /\ (read_owed \ (i.rvalid \cap rready)) \cup launched_reads(i) = {}
         /\ trap_redirect_req => bus \o accept(i) = << >>
         /\ retires(i) => bus \o accept(i) \in AccessesOf(de.ins)
<1>1. CASE idle
  <2>1. ~mem_req_pending /\ ~dmem_load_drive /\ ~dmem_load_hs(i) /\ ~captured_hs(i)
    BY <1>1, IdleFacts DEF dmem_load_hs
  <2>2. ~alu_start /\ ~csr_start /\ ~mem_capture /\ ~mem_misaligned_launch
    BY <1>1, <2>1 DEF alu_start, csr_start, mem_capture, mem_misaligned_launch, retires,
      result_ready, is_mem_op, is, idle, csr_ready
  <2>3. next_state(i) = "EX_IDLE"
    BY <1>1, <2>1, <2>2 DEF next_state, idle
  <2>4. launched_reads(i) = {} /\ accept(i) = << >>
    BY <2>1 DEF launched_reads, accept
  <2>5. ASSUME retires(i) PROVE AccessesOf(de.ins) = {<< >>}
    <3>1. ~is_mem_op /\ ~is("exc") /\ de.valid
      BY <1>1, <2>1, <2>5, IdleFacts DEF retires, result_ready, mem_op_done, mem_done,
        store_done, idle, trap_redirect_req, sync_trap_req
    <3> QED
      BY <3>1, StateFacts, InsFacts DEF AccessesOf, is_mem_op, is
  <2> QED
    BY <1>1, <2>3, <2>4, <2>5, IdleFacts
<1>2. CASE ex_state_q = "EX_MEM_LAUNCH"
  <2>1. /\ ~idle /\ de.ins.op \in {"load", "store"} /\ de.valid /\ ~dmem_load_hs(i)
        /\ trap_redirect_req <=> misaligned_trap
    BY <1>2, BusyFacts DEF idle
  <2>2. bus = << >> /\ read_owed = {}
    BY <1>2 DEF StageInv, BusSoFar, AccessesExact, ReadsOwed
  <2>3. CASE misaligned_trap
    <3>1. ~captured_hs(i) /\ ~retires(i)
      BY <2>1, <2>3 DEF captured_hs, captured_drive, retires
    <3>2. launched_reads(i) = {} /\ accept(i) = << >>
      BY <2>1, <3>1 DEF launched_reads, accept
    <3> QED
      BY <1>2, <2>2, <2>3, <3>1, <3>2 DEF next_state, idle
  <2>4. CASE ~misaligned_trap
    <3>1. retires(i) /\ ~trap_redirect_req
      BY <2>1, <2>4
    <3>2. is("store") /\ ~is("load") /\ captured_hs(i)
      BY <1>2, <2>1, <3>1 DEF retires, result_ready, is_mem_op, is, mem_op_done, mem_done,
        store_done
    <3>3. ~de.ins.mis /\ mem_q.peri = de.ins.peri
      BY <1>2, <2>1, <2>4 DEF StageInv, Owned, FaultsPlaced, misaligned_trap
    <3>4. accept(i) = <<[port |-> IF de.ins.peri THEN "p" ELSE "d", we |-> TRUE]>>
      BY <2>1, <3>2, <3>3 DEF accept, lsu_port
    <3>5. accept(i) \in AccessesOf(de.ins)
      BY <3>2, <3>3, <3>4 DEF AccessesOf, is
    <3>6. bus \o accept(i) = accept(i)
      BY <2>2, <3>4
    <3> QED
      BY <1>2, <2>1, <2>2, <2>4, <3>1, <3>2, <3>5, <3>6 DEF next_state, idle, launched_reads
  <2> QED
    BY <2>3, <2>4
<1>3. CASE ex_state_q = "EX_MEM_WAIT"
  <2>1. /\ ~idle /\ de.valid /\ ~dmem_load_hs(i) /\ ~captured_hs(i)
        /\ trap_redirect_req <=> misaligned_trap
    BY <1>3, BusyFacts DEF idle, captured_hs, captured_drive
  <2>2. retires(i) /\ ~trap_redirect_req
    BY <1>3, <2>1 DEF misaligned_trap
  <2>3. is("load") /\ ~de.ins.mis /\ mem_q.peri = de.ins.peri
    BY <1>3 DEF StageInv, Owned, FaultsPlaced
  <2>4. mem_done(i)
    BY <2>2, <2>3 DEF retires, result_ready, is_mem_op, mem_op_done
  <2>5. /\ read_owed = {lsu_port} /\ rready = {lsu_port}
        /\ bus = <<[port |-> lsu_port, we |-> FALSE]>>
    BY <1>3, <2>3 DEF StageInv, AccessesExact, ReadsOwed, rready, BusSoFar
  <2>6. launched_reads(i) = {} /\ accept(i) = << >>
    BY <2>1 DEF launched_reads, accept
  <2>7. (read_owed \ (i.rvalid \cap rready)) \cup launched_reads(i) = {}
    BY <2>4, <2>5, <2>6 DEF mem_done
  <2>8. bus \in AccessesOf(de.ins)
    BY <2>3, <2>5 DEF AccessesOf, is, lsu_port
  <2>9. bus \o accept(i) = bus
    BY <2>5, <2>6
  <2> QED
    BY <1>3, <2>2, <2>4, <2>7, <2>8, <2>9 DEF next_state, idle
<1>4. CASE ex_state_q = "EX_MEM_TRAP"
  <2>1. /\ ~idle /\ de.valid /\ ~dmem_load_hs(i) /\ ~captured_hs(i)
        /\ trap_redirect_req <=> misaligned_trap
    BY <1>4, BusyFacts DEF idle, captured_hs, captured_drive
  <2>2. misaligned_trap
    BY <1>4, <2>1 DEF misaligned_trap, StageInv, FaultsPlaced
  <2>3. ~retires(i)
    BY <2>1, <2>2 DEF retires
  <2>4. launched_reads(i) = {} /\ accept(i) = << >> /\ bus = << >> /\ read_owed = {}
    BY <1>4, <2>1 DEF launched_reads, accept, StageInv, BusSoFar, AccessesExact, ReadsOwed
  <2> QED
    BY <1>4, <2>3, <2>4 DEF next_state, idle
<1>5. CASE ex_state_q = "EX_DIV_BUSY"
  <2>1. /\ ~idle /\ ~dmem_load_hs(i) /\ ~captured_hs(i)
        /\ trap_redirect_req <=> misaligned_trap
    BY <1>5, BusyFacts DEF idle, captured_hs, captured_drive
  <2>2. retires(i) /\ ~trap_redirect_req /\ is("div")
    BY <1>5, <2>1 DEF misaligned_trap, StageInv, Owned
  <2>3. launched_reads(i) = {} /\ accept(i) = << >> /\ bus = << >> /\ read_owed = {}
    BY <1>5, <2>1 DEF launched_reads, accept, StageInv, BusSoFar, AccessesExact, ReadsOwed
  <2>4. AccessesOf(de.ins) = {<< >>}
    BY <2>2, StateFacts, InsFacts DEF AccessesOf, is
  <2> QED
    BY <1>5, <2>2, <2>3, <2>4 DEF next_state, idle, retires, result_ready, is_mem_op, is
<1>6. CASE ex_state_q = "EX_CSR_WAIT"
  <2>1. /\ ~idle /\ ~dmem_load_hs(i) /\ ~captured_hs(i)
        /\ trap_redirect_req <=> misaligned_trap
    BY <1>6, BusyFacts DEF idle, captured_hs, captured_drive
  <2>2. retires(i) /\ ~trap_redirect_req /\ is("csr")
    BY <1>6, <2>1 DEF misaligned_trap, StageInv, Owned
  <2>3. launched_reads(i) = {} /\ accept(i) = << >> /\ bus = << >> /\ read_owed = {}
    BY <1>6, <2>1 DEF launched_reads, accept, StageInv, BusSoFar, AccessesExact, ReadsOwed
  <2>4. AccessesOf(de.ins) = {<< >>}
    BY <2>2, StateFacts, InsFacts DEF AccessesOf, is
  <2> QED
    BY <1>6, <2>2, <2>3, <2>4 DEF next_state, idle
<1> QED
  BY <1>1, <1>2, <1>3, <1>4, <1>5, <1>6, StateFacts DEF States, idle

(***************************************************************************)
(* Without a trap or an interrupt the stall holds decode exactly while the *)
(* instruction in D/E is not done: none is dropped, none runs twice.       *)
(***************************************************************************)
LEMMA StallExact ==
  ASSUME StageInv, NEW i \in Inputs, ~trap_redirect_req, de.valid
  PROVE  retires(i) <=> ~stall_o(i)
<1>1. CASE idle /\ wfi_halt_q
  <2>1. ~int_pending
    <3>1. ~sync_trap_req /\ ~mret_req /\ ~take_interrupt
      BY DEF trap_redirect_req
    <3> QED
      BY <1>1, <3>1 DEF take_interrupt
  <2> QED
    BY <1>1, <2>1 DEF retires, stall_o, freeze, wfi_stall
<1>2. CASE idle /\ ~wfi_halt_q
  <2>1. ~freeze /\ ~wfi_stall
    BY <1>2 DEF freeze, wfi_stall
  <2>2. ~captured_hs(i) /\ ~store_done(i) /\ ~mem_done(i)
    BY <1>2, IdleFacts DEF store_done, mem_done, idle
  <2>3. stall_o(i) <=> is("div") \/ is_mem_op \/ is("csr")
    BY <1>2, <2>1, <2>2 DEF stall_o, alu_start, csr_start, mem_req_pending, idle
  <2>4. result_ready(i) <=> ~is("div") /\ ~is_mem_op /\ ~is("csr")
    BY <1>2, <2>2 DEF result_ready, mem_op_done, csr_ready, idle
  <2> QED
    BY <2>1, <2>3, <2>4 DEF retires
<1>3. CASE ~idle
  <2>1. /\ ~wfi_halt_q /\ ~freeze /\ ~wfi_stall
        /\ ~mem_req_pending /\ ~alu_start /\ ~csr_start /\ ~misaligned_trap
        /\ ex_state_q \in {"EX_MEM_LAUNCH", "EX_MEM_WAIT", "EX_MEM_TRAP"} =>
             de.ins.op \in {"load", "store"}
    BY <1>3, BusyFacts DEF freeze
  <2>2. CASE ex_state_q = "EX_MEM_LAUNCH"
    BY <2>1, <2>2 DEF retires, result_ready, is_mem_op, is, mem_op_done, mem_done, store_done,
      stall_o
  <2>3. CASE ex_state_q = "EX_MEM_WAIT"
    <3>1. is("load")
      BY <2>3 DEF StageInv, FaultsPlaced
    <3> QED
      BY <2>1, <2>3, <3>1 DEF retires, result_ready, is_mem_op, mem_op_done, stall_o
  <2>4. CASE ex_state_q = "EX_MEM_TRAP"
    BY <2>1, <2>4 DEF misaligned_trap, StageInv, FaultsPlaced
  <2>5. CASE ex_state_q = "EX_DIV_BUSY"
    BY <2>1, <2>5 DEF retires, result_ready, is_mem_op, is, stall_o, StageInv, Owned
  <2>6. CASE ex_state_q = "EX_CSR_WAIT"
    BY <2>1, <2>6 DEF retires, result_ready, is_mem_op, is, stall_o, StageInv, Owned, csr_ready
  <2> QED
    BY <1>3, <2>2, <2>3, <2>4, <2>5, <2>6, StateFacts DEF States, idle
<1> QED
  BY <1>1, <1>2, <1>3

\* An empty D/E does nothing.
LEMMA EmptyIdles ==
  ASSUME StageInv, NEW i \in Inputs, ~de.valid
  PROVE  /\ idle /\ next_state(i) = "EX_IDLE"
         /\ ~retires(i) /\ ~mispredict(i) /\ ~wfi_retire
         /\ (read_owed \ (i.rvalid \cap rready)) \cup launched_reads(i) = {}
         /\ bus \o accept(i) = << >>
<1>1. idle
  BY StateFacts
<1>2. /\ ~retires(i) /\ ~mispredict(i) /\ ~wfi_retire
      /\ ~mem_req_pending /\ ~dmem_load_drive /\ ~dmem_load_hs(i)
      /\ ~alu_start /\ ~csr_start /\ ~mem_capture /\ ~mem_misaligned_launch
  BY DEF retires, mispredict, cf_resolving, wfi_retire, mem_req_pending, dmem_load_drive,
    dmem_load_hs, alu_start, csr_start, mem_capture, mem_misaligned_launch, is_mem_op, is
<1>3. bus = << >> /\ read_owed = {} /\ ~captured_hs(i)
  BY <1>1, IdleFacts
<1>4. launched_reads(i) = {} /\ accept(i) = << >>
  BY <1>2, <1>3 DEF launched_reads, accept
<1>5. next_state(i) = "EX_IDLE"
  BY <1>1, <1>2 DEF next_state, idle
<1> QED
  BY <1>1, <1>2, <1>3, <1>4, <1>5

\* A branch that redirects is one that retires.
LEMMA MispredictRetires ==
  ASSUME NEW i \in Inputs, mispredict(i)
  PROVE  retires(i) /\ ~trap_redirect_req /\ is("branch")
BY DEF mispredict, cf_resolving, retires, result_ready, is_mem_op, is

(***************************************************************************)
(* The registers that every edge updates keep their types.                 *)
(***************************************************************************)
LEMMA TickTypes ==
  ASSUME StageInv, NEW i \in Inputs, Tick(i)
  PROVE  /\ mip' \subseteq Sources
         /\ csr_rdata_q' \subseteq MStatusBits \cup Sources
         /\ ex_state_q' \in States
         /\ mem_q' \in [peri: BOOLEAN, mis: BOOLEAN, own: BOOLEAN]
         /\ wfi_halt_q' \in BOOLEAN /\ wfi_next_pc_q' \in Pcs
<1>1. mip' \subseteq Sources
  BY InputFacts DEF Tick, CsrTick
<1>2. csr_rdata_q' \subseteq MStatusBits \cup Sources
  BY DEF Tick, CsrTick, CsrValue, StageInv, ExecTypeOK
<1>3. ex_state_q' \in States
  <2>1. next_state(i) \in States
    BY StateFacts DEF next_state, States, idle
  <2> QED
    BY <2>1 DEF Tick
<1>4. mem_q' \in [peri: BOOLEAN, mis: BOOLEAN, own: BOOLEAN]
  <2>1. de.ins.peri \in BOOLEAN /\ de.ins.mis \in BOOLEAN
    BY StateFacts, InsFacts
  <2>2. mem_q' = next_mem_q(i)
    BY DEF Tick
  <2>3. CASE mem_req_pending
    BY <2>1, <2>2, <2>3 DEF next_mem_q
  <2>4. CASE ~mem_req_pending
    <3>1. mem_q' = [mem_q EXCEPT !.own = @ /\ stall_o(i) /\ ~trap_redirect_req]
      BY <2>2, <2>4 DEF next_mem_q
    <3>2. (mem_q.own /\ stall_o(i) /\ ~trap_redirect_req) \in BOOLEAN
      BY Zenon
    <3>3. mem_q \in [peri: BOOLEAN, mis: BOOLEAN, own: BOOLEAN]
      BY DEF StageInv, ExecTypeOK
    <3> QED
      BY <3>1, <3>2, <3>3
  <2> QED
    BY <2>3, <2>4
<1>5. wfi_halt_q' \in BOOLEAN
  <2>1. next_wfi_halt \in BOOLEAN
    BY Zenon DEF next_wfi_halt
  <2> QED
    BY <2>1 DEF Tick
<1>6. wfi_next_pc_q' \in Pcs
  BY TargetTypes DEF Tick, StageInv, ExecTypeOK
<1> QED
  BY <1>1, <1>2, <1>3, <1>4, <1>5, <1>6

DERegister == [valid: BOOLEAN, pc: Pcs, ins: Instructions, pred: BOOLEAN, ptarget: Pcs]

\* What decode leaves in D/E is in range.
LEMMA DecodeTypes ==
  ASSUME StageInv, NEW i \in Inputs, Decode(i)
  PROVE  de' \in DERegister /\ next_pc' \in Pcs
<1>1. /\ de \in DERegister /\ next_pc \in Pcs /\ Bubble \in DERegister
      /\ 0 \in Pcs /\ Plain("branch") \in Instructions
  BY BubbleType, PlainIsIns, CsrAssumption DEF StageInv, ExecTypeOK, DERegister, Pcs
<1>2. ASSUME NEW ins \in Instructions, NEW pred \in BOOLEAN, NEW t \in Pcs,
             HandOver(ins, pred, t)
      PROVE  de' \in DERegister /\ next_pc' \in Pcs
  <2>1. PcPlus(next_pc, 1) \in Pcs
    BY <1>1, PcRange, CsrAssumption DEF Pcs
  <2> QED
    BY <1>1, <1>2, <2>1 DEF HandOver, DERegister
<1> QED
  BY <1>1, <1>2 DEF Decode, Gap

\* What the slaves take at an edge is a row of at most one access.
LEMMA AcceptType ==
  ASSUME NEW i
  PROVE  accept(i) \in Seq(Accesses)
<1>1. [port |-> "d", we |-> FALSE] \in Accesses
  BY DEF Accesses, Ports
<1>2. [port |-> lsu_port, we |-> is("store")] \in Accesses
  <2>1. is("store") \in BOOLEAN
    BY Zenon DEF is
  <2> QED
    BY <2>1 DEF Accesses, Ports, lsu_port
<1> QED
  BY <1>1, <1>2 DEF accept

\* The histories stay in range, whether the instruction leaves or stays.
LEMMA HistoryTypes ==
  ASSUME StageInv, NEW i \in Inputs,
         Stays(i) \/ \E how \in {"commit", "trap", "int"} : Leaves(i, how)
  PROVE  /\ bus' \in Seq(Accesses)
         /\ left'.how \in {"none", "commit", "trap", "int"}
         /\ left'.bus \in Seq(Accesses)
<1>1. bus \o accept(i) \in Seq(Accesses) /\ << >> \in Seq(Accesses)
  BY AcceptType DEF StageInv, ExecTypeOK
<1>2. CASE Stays(i)
  BY <1>1, <1>2 DEF Stays, NobodyLeft
<1>3. ASSUME NEW how \in {"commit", "trap", "int"}, Leaves(i, how)
      PROVE  /\ bus' = << >> /\ left'.how = how
             /\ left'.bus = bus \o accept(i)
  BY <1>3 DEF Leaves
<1> QED
  BY <1>1, <1>2, <1>3

\* A CSR write stores a value the register can hold: what it modifies is the
\* register's own value, read a cycle ago.
LEMMA CsrTypes ==
  ASSUME StageInv, NEW i \in Inputs,
         \/ CsrHold
         \/ CsrEntry(trap_mepc)
         \/ CsrMret
         \/ ex_state_q = "EX_CSR_WAIT" /\ CsrWrite(de.ins.csr)
  PROVE  mstatus' \subseteq MStatusBits /\ mie' \subseteq Sources /\ mepc' \in Pcs
<1>1. mstatus \subseteq MStatusBits /\ mie \subseteq Sources /\ mepc \in Pcs
  BY DEF StageInv, ExecTypeOK
<1>2. CASE CsrHold
  BY <1>1, <1>2 DEF CsrHold
<1>3. CASE CsrEntry(trap_mepc)
  BY <1>1, <1>3, TargetTypes DEF CsrEntry, mstatus_entry, MStatusBits, StageInv
<1>4. CASE CsrMret
  BY <1>1, <1>4 DEF CsrMret, mstatus_mret, MStatusBits
<1>5. CASE ex_state_q = "EX_CSR_WAIT" /\ CsrWrite(de.ins.csr)
  <2> DEFINE c == de.ins.csr
  <2>1. c \in CsrOps /\ csr_rdata_q = CsrValue(c.reg)
    BY <1>5, StateFacts, InsFacts DEF StageInv, Owned, is
  <2>2. /\ c.reg = "mstatus" =>
             c.fn \in {"rw", "rs", "rc"} /\ c.src \subseteq MStatusBits
        /\ c.reg = "mie" => c.fn \in {"rw", "rs", "rc"} /\ c.src \subseteq Sources
        /\ c.reg = "mepc" => c.fn = "rw" /\ c.src \in Pcs
    BY <2>1, ExecAssumption DEF MStatusBits, Pcs
  <2>3. mstatus' \subseteq MStatusBits
    <3>1. CASE c.reg = "mstatus" /\ csr_we(c)
      <4>1. mstatus' = csr_new(c) /\ csr_rdata_q = mstatus
        BY <1>5, <3>1, <2>1 DEF CsrWrite, CsrValue
      <4> QED
        BY <4>1, <3>1, <2>2, <1>1 DEF csr_new
    <3>2. CASE ~(c.reg = "mstatus" /\ csr_we(c))
      BY <1>5, <3>2, <1>1 DEF CsrWrite
    <3> QED
      BY <3>1, <3>2
  <2>4. mie' \subseteq Sources
    <3>1. CASE c.reg = "mie" /\ csr_we(c)
      <4>1. mie' = csr_new(c) /\ csr_rdata_q = mie
        BY <1>5, <3>1, <2>1 DEF CsrWrite, CsrValue
      <4> QED
        BY <4>1, <3>1, <2>2, <1>1 DEF csr_new
    <3>2. CASE ~(c.reg = "mie" /\ csr_we(c))
      BY <1>5, <3>2, <1>1 DEF CsrWrite
    <3> QED
      BY <3>1, <3>2
  <2>5. mepc' \in Pcs
    <3>1. CASE c.reg = "mepc" /\ csr_we(c)
      <4>1. mepc' = csr_new(c)
        BY <1>5, <3>1 DEF CsrWrite
      <4> QED
        BY <4>1, <3>1, <2>2 DEF csr_new
    <3>2. CASE ~(c.reg = "mepc" /\ csr_we(c))
      BY <1>5, <3>2, <1>1 DEF CsrWrite
    <3> QED
      BY <3>1, <3>2
  <2> QED
    BY <2>3, <2>4, <2>5
<1> QED
  BY <1>2, <1>3, <1>4, <1>5

(***************************************************************************)
(* The edge preserves StageInv: first where an instruction leaves D/E.     *)
(***************************************************************************)
LEMMA DepartureStep ==
  ASSUME StageInv, NEW i \in Inputs, Tick(i), trap_redirect_req \/ retires(i),
         NEW how \in {"commit", "trap", "int"}, Leaves(i, how),
         how = "commit" => bus \o accept(i) \in AccessesOf(de.ins),
         how # "commit" => bus \o accept(i) = << >>
  PROVE  Owned' /\ FaultsPlaced' /\ BusSoFar' /\ AccessesExact'
<1>1. ex_state_q' = "EX_IDLE" /\ read_owed' = {}
  BY DepartureIsClean DEF Tick
<1>2. left'.bus \in left'.due
  BY DEF Leaves
<1>3. bus' = << >>
  BY DEF Leaves
<1> QED
  BY <1>1, <1>2, <1>3 DEF Owned, FaultsPlaced, BusSoFar, AccessesExact, ReadsOwed

\* Then where the instruction in D/E, if there is one, stays.
LEMMA WaitStep ==
  ASSUME StageInv, NEW i \in Inputs, Wait(i)
  PROVE  Owned' /\ FaultsPlaced' /\ BusSoFar' /\ AccessesExact'
<1> USE DEF Wait
<1>0. left'.bus \in left'.due
  BY DEF Stays, NobodyLeft
<1>1. CASE ~de.valid
  <2>1. ex_state_q' = "EX_IDLE" /\ read_owed' = {} /\ bus' = << >>
    BY <1>1, EmptyIdles DEF Tick, Stays
  <2> QED
    BY <1>0, <2>1 DEF Owned, FaultsPlaced, BusSoFar, AccessesExact, ReadsOwed
<1>2. CASE de.valid
  <2>1. stall_o(i) /\ de' = de
    <3>1. stall_o(i)
      BY <1>2, StallExact
    <3> QED
      BY <3>1 DEF Decode
  <2>2. /\ ex_state_q' = next_state(i) /\ mem_q' = next_mem_q(i)
        /\ wfi_halt_q' = next_wfi_halt
        /\ read_owed' = (read_owed \ (i.rvalid \cap rready)) \cup launched_reads(i)
        /\ csr_rdata_q' = CsrValue(de.ins.csr.reg)
        /\ bus' = bus \o accept(i)
        /\ UNCHANGED <<mstatus, mie, mepc>>
    BY <1>2 DEF Tick, CsrTick, CsrHold, Stays
  <2>3. CASE idle
    <3>1. bus = << >> /\ read_owed = {} /\ ~captured_hs(i)
      BY <2>3, IdleFacts
    <3>2. CASE mem_req_pending
      <4>1. /\ de.ins.op \in {"load", "store"} /\ is_mem_op /\ ~wfi_halt_q
            /\ ~alu_start /\ ~csr_start /\ ~wfi_retire
        BY <3>2 DEF mem_req_pending, is_mem_op, is, alu_start, csr_start, wfi_retire
      <4>2. mem_q' = [peri |-> de.ins.peri, mis |-> de.ins.mis, own |-> TRUE]
        BY <2>2, <3>2 DEF next_mem_q
      <4>3. ~wfi_halt_q' /\ is_mem_op'
        BY <2>1, <2>2, <4>1 DEF next_wfi_halt, is_mem_op, is
      <4>4. CASE mem_misaligned_launch
        <5>1. LSU_LIVE_LOAD /\ de.ins.mis /\ ~dmem_load_hs(i)
          BY <4>4 DEF mem_misaligned_launch, dmem_load_hs, dmem_load_drive
        <5>2. ex_state_q' = "EX_MEM_TRAP" /\ bus' = << >> /\ read_owed' = {}
          BY <2>2, <2>3, <3>1, <4>1, <4>4, <5>1 DEF next_state, idle, launched_reads, accept
        <5> QED
          BY <1>0, <2>1, <4>2, <4>3, <5>1, <5>2
            DEF Owned, FaultsPlaced, BusSoFar, AccessesExact, ReadsOwed
      <4>5. CASE mem_capture
        <5>1. /\ LSU_LIVE_LOAD => ~de.ins.mis
              /\ ~dmem_load_hs(i) /\ ~mem_misaligned_launch
          BY <4>5 DEF mem_capture, mem_misaligned_launch, dmem_load_hs
        <5>2. ex_state_q' = "EX_MEM_LAUNCH" /\ bus' = << >> /\ read_owed' = {}
          BY <2>2, <2>3, <3>1, <4>1, <4>5, <5>1 DEF next_state, idle, launched_reads, accept
        <5> QED
          BY <1>0, <2>1, <4>2, <4>3, <5>1, <5>2
            DEF Owned, FaultsPlaced, BusSoFar, AccessesExact, ReadsOwed
      <4>6. CASE dmem_load_hs(i)
        <5>1. /\ is("load") /\ ~de.ins.mis /\ ~de.ins.peri
              /\ ~mem_misaligned_launch /\ ~mem_capture
          BY <4>6 DEF dmem_load_hs, dmem_load_drive, mem_misaligned_launch, mem_capture
        <5>2. /\ ex_state_q' = "EX_MEM_WAIT" /\ read_owed' = {"d"}
              /\ bus' = <<[port |-> "d", we |-> FALSE]>>
          <6>1. accept(i) = <<[port |-> "d", we |-> FALSE]>>
            BY <4>6 DEF accept
          <6>2. bus' = <<[port |-> "d", we |-> FALSE]>>
            BY <2>2, <3>1, <6>1
          <6> QED
            BY <2>2, <2>3, <3>1, <4>1, <4>6, <5>1, <6>2 DEF next_state, idle, launched_reads
        <5>3. is("load")' /\ lsu_port' = "d"
          BY <2>1, <4>2, <5>1 DEF is, lsu_port
        <5> QED
          BY <1>0, <2>1, <4>2, <4>3, <5>1, <5>2, <5>3
            DEF Owned, FaultsPlaced, BusSoFar, AccessesExact, ReadsOwed
      <4>7. CASE ~mem_misaligned_launch /\ ~mem_capture /\ ~dmem_load_hs(i)
        <5>1. ex_state_q' = "EX_IDLE" /\ bus' = << >> /\ read_owed' = {}
          BY <2>2, <2>3, <3>1, <4>1, <4>7 DEF next_state, idle, launched_reads, accept
        <5> QED
          BY <1>0, <5>1 DEF Owned, FaultsPlaced, BusSoFar, AccessesExact, ReadsOwed
      <4> QED
        BY <4>4, <4>5, <4>6, <4>7
    <3>3. CASE ~mem_req_pending
      <4>1. ~mem_misaligned_launch /\ ~mem_capture /\ ~dmem_load_hs(i)
        BY <3>3 DEF mem_misaligned_launch, mem_capture, dmem_load_hs, dmem_load_drive
      <4>2. bus' = << >> /\ read_owed' = {}
        BY <2>2, <3>1, <4>1 DEF launched_reads, accept
      <4>3. alu_start \/ csr_start => ~wfi_halt_q'
        <5>1. ASSUME alu_start \/ csr_start PROVE ~wfi_retire
          BY <5>1 DEF alu_start, csr_start, wfi_retire, is
        <5>2. ASSUME alu_start \/ csr_start, wfi_halt_q PROVE int_pending
          BY <5>2 DEF alu_start, csr_start, freeze, wfi_stall
        <5> QED
          BY <2>2, <5>1, <5>2 DEF next_wfi_halt
      <4>4. CASE alu_start
        <5>1. ex_state_q' = "EX_DIV_BUSY" /\ is("div")'
          BY <2>1, <2>2, <2>3, <4>4 DEF next_state, idle, alu_start, is
        <5> QED
          BY <1>0, <4>2, <4>3, <4>4, <5>1
            DEF Owned, FaultsPlaced, BusSoFar, AccessesExact, ReadsOwed
      <4>5. CASE csr_start
        <5>1. ~alu_start
          BY <4>5 DEF alu_start, csr_start, is
        <5>2. ex_state_q' = "EX_CSR_WAIT" /\ is("csr")'
          BY <2>1, <2>2, <2>3, <4>1, <4>5, <5>1 DEF next_state, idle, csr_start, is
        <5>3. csr_rdata_q' = CsrValue(de.ins.csr.reg)'
          BY <2>1, <2>2 DEF CsrValue
        <5> QED
          BY <1>0, <4>2, <4>3, <4>5, <5>2, <5>3
            DEF Owned, FaultsPlaced, BusSoFar, AccessesExact, ReadsOwed
      <4>6. CASE ~alu_start /\ ~csr_start
        <5>1. ex_state_q' = "EX_IDLE"
          BY <2>2, <2>3, <4>1, <4>6 DEF next_state, idle
        <5> QED
          BY <1>0, <4>2, <5>1 DEF Owned, FaultsPlaced, BusSoFar, AccessesExact, ReadsOwed
      <4> QED
        BY <4>4, <4>5, <4>6
    <3> QED
      BY <3>2, <3>3
  <2>4. CASE ex_state_q = "EX_MEM_LAUNCH"
    <3>1. /\ ~wfi_halt_q /\ ~mem_req_pending /\ ~dmem_load_hs(i) /\ ~wfi_retire
          /\ ~misaligned_trap /\ de.ins.op \in {"load", "store"}
      BY <2>4, BusyFacts DEF idle
    <3>2. /\ is_mem_op /\ mem_q.own /\ mem_q.peri = de.ins.peri /\ mem_q.mis = de.ins.mis
          /\ bus = << >> /\ read_owed = {} /\ ~mem_q.mis
      BY <1>2, <2>4, <3>1 DEF StageInv, Owned, FaultsPlaced, BusSoFar, AccessesExact,
        ReadsOwed, misaligned_trap
    <3>3. mem_q' = mem_q
      <4>1. mem_q' = [mem_q EXCEPT !.own = @ /\ stall_o(i) /\ ~trap_redirect_req]
        BY <2>2, <3>1 DEF next_mem_q
      <4>2. (mem_q.own /\ stall_o(i) /\ ~trap_redirect_req) = mem_q.own
        BY <2>1, StateFacts, Zenon
      <4> QED
        BY <4>1, <4>2 DEF StageInv, ExecTypeOK
    <3>4. ~wfi_halt_q' /\ is_mem_op' /\ lsu_port' = lsu_port
      BY <2>1, <2>2, <3>1, <3>2, <3>3 DEF next_wfi_halt, is_mem_op, is, lsu_port
    <3>5. CASE captured_hs(i)
      <4>1. is("load") /\ ~is("store")
        BY <1>2, <2>1, <2>4, <3>1, <3>5, StallExact DEF retires, result_ready, is_mem_op, is,
          mem_op_done, store_done, freeze, wfi_stall
      <4>2. /\ ex_state_q' = "EX_MEM_WAIT" /\ read_owed' = {lsu_port}
            /\ bus' = <<[port |-> lsu_port, we |-> FALSE]>>
        <5>1. accept(i) = <<[port |-> lsu_port, we |-> FALSE]>>
          <6>1. is("store") = FALSE
            BY <4>1, Zenon DEF is
          <6> QED
            BY <3>1, <3>5, <6>1 DEF accept
        <5> QED
          BY <2>2, <2>4, <3>1, <3>2, <3>5, <4>1, <5>1 DEF next_state, idle, launched_reads
      <4>3. is("load")'
        BY <2>1, <4>1 DEF is
      <4> QED
        BY <1>0, <2>1, <3>2, <3>3, <3>4, <4>2, <4>3
          DEF Owned, FaultsPlaced, BusSoFar, AccessesExact, ReadsOwed
    <3>6. CASE ~captured_hs(i)
      <4>1. ex_state_q' = "EX_MEM_LAUNCH" /\ read_owed' = {} /\ bus' = << >>
        BY <2>2, <2>4, <3>1, <3>2, <3>6 DEF next_state, idle, launched_reads, accept
      <4> QED
        BY <1>0, <2>1, <3>2, <3>3, <3>4, <4>1
          DEF Owned, FaultsPlaced, BusSoFar, AccessesExact, ReadsOwed
    <3> QED
      BY <3>5, <3>6
  <2>5. CASE ex_state_q = "EX_MEM_WAIT"
    <3>1. /\ ~wfi_halt_q /\ ~mem_req_pending /\ ~dmem_load_hs(i) /\ ~wfi_retire
          /\ ~captured_hs(i)
      BY <2>5, BusyFacts DEF idle, captured_hs, captured_drive
    <3>2. /\ is("load") /\ ~mem_q.mis
          /\ mem_q.own /\ mem_q.peri = de.ins.peri /\ mem_q.mis = de.ins.mis
          /\ bus = <<[port |-> lsu_port, we |-> FALSE]>>
          /\ read_owed = {lsu_port} /\ rready = {lsu_port}
      BY <2>5 DEF StageInv, Owned, FaultsPlaced, BusSoFar, AccessesExact, ReadsOwed, rready
    <3>3. mem_q' = mem_q
      <4>1. mem_q' = [mem_q EXCEPT !.own = @ /\ stall_o(i) /\ ~trap_redirect_req]
        BY <2>2, <3>1 DEF next_mem_q
      <4>2. (mem_q.own /\ stall_o(i) /\ ~trap_redirect_req) = mem_q.own
        BY <2>1, StateFacts, Zenon
      <4> QED
        BY <4>1, <4>2 DEF StageInv, ExecTypeOK
    <3>4. ~mem_done(i)
      BY <1>2, <2>1, <3>2, StallExact, BusyFacts, <2>5 DEF retires, result_ready, is_mem_op,
        mem_op_done, idle
    <3>5. ~wfi_halt_q' /\ is("load")' /\ is_mem_op' /\ lsu_port' = lsu_port
      BY <2>1, <2>2, <3>1, <3>2, <3>3 DEF next_wfi_halt, is_mem_op, is, lsu_port
    <3>6. ex_state_q' = "EX_MEM_WAIT" /\ read_owed' = {lsu_port} /\ bus' = bus
      <4>1. read_owed' = {lsu_port}
        BY <2>2, <2>5, <3>1, <3>2, <3>4 DEF mem_done, launched_reads
      <4>2. accept(i) = << >>
        BY <3>1 DEF accept
      <4>3. bus' = bus
        BY <2>2, <3>2, <4>2
      <4> QED
        BY <2>2, <2>5, <3>4, <4>1, <4>3 DEF next_state, idle
    <3> QED
      BY <1>0, <2>1, <3>2, <3>3, <3>5, <3>6
        DEF Owned, FaultsPlaced, BusSoFar, AccessesExact, ReadsOwed
  <2>6. ex_state_q # "EX_MEM_TRAP"
    BY <1>2 DEF trap_redirect_req, sync_trap_req, misaligned_trap, StageInv, FaultsPlaced
  <2>7. CASE ex_state_q = "EX_DIV_BUSY"
    <3>1. /\ ~wfi_halt_q /\ ~dmem_load_hs(i) /\ ~wfi_retire /\ ~captured_hs(i)
      BY <2>7, BusyFacts DEF idle, captured_hs, captured_drive
    <3>2. is("div") /\ bus = << >> /\ read_owed = {}
      BY <2>7 DEF StageInv, Owned, BusSoFar, AccessesExact, ReadsOwed
    <3>3. ~wfi_halt_q' /\ is("div")'
      BY <2>1, <2>2, <3>1, <3>2 DEF next_wfi_halt, is
    <3>4. /\ ex_state_q' \in {"EX_IDLE", "EX_DIV_BUSY"}
          /\ read_owed' = {} /\ bus' = << >>
      BY <2>2, <2>7, <3>1, <3>2 DEF next_state, idle, launched_reads, accept
    <3> QED
      BY <1>0, <3>3, <3>4 DEF Owned, FaultsPlaced, BusSoFar, AccessesExact, ReadsOwed
  <2>8. ex_state_q # "EX_CSR_WAIT"
    BY <1>2, BusyFacts DEF retires, result_ready, is_mem_op, is, csr_ready, StageInv, Owned, idle
  <2> QED
    BY <2>3, <2>4, <2>5, <2>6, <2>7, <2>8, StateFacts DEF States, idle
<1> QED
  BY <1>1, <1>2

(***************************************************************************)
(* StageInv is inductive: one step per action.                             *)
(***************************************************************************)
LEMMA StageInit == ExecInit => StageInv
<1> SUFFICES ASSUME ExecInit PROVE StageInv
  OBVIOUS
<1> USE DEF ExecInit
<1>1. ExecTypeOK
  <2>1. 0 \in Pcs /\ << >> \in Seq(Accesses)
    BY CsrAssumption DEF Pcs
  <2>2. /\ left.how \in {"none", "commit", "trap", "int"}
        /\ left.bus \in Seq(Accesses)
    BY <2>1 DEF NobodyLeft
  <2> QED
    BY <2>1, <2>2, BubbleType DEF ExecTypeOK, CsrReset, States
<1>2. Owned /\ FaultsPlaced /\ BusSoFar
  BY DEF Owned, FaultsPlaced, BusSoFar
<1>3. AccessesExact
  BY DEF AccessesExact, ReadsOwed, NobodyLeft
<1> QED
  BY <1>1, <1>2, <1>3 DEF StageInv

\* The parts of the type invariant, put together.
LEMMA TypesStep ==
  ASSUME StageInv, NEW i \in Inputs, Tick(i),
         mstatus' \subseteq MStatusBits /\ mie' \subseteq Sources /\ mepc' \in Pcs,
         de' \in DERegister /\ next_pc' \in Pcs, arch_pc' \in Pcs,
         Stays(i) \/ \E how \in {"commit", "trap", "int"} : Leaves(i, how)
  PROVE  ExecTypeOK'
<1>1. read_owed' \subseteq Ports
  BY DEF Tick, launched_reads, lsu_port, Ports, StageInv, ExecTypeOK
<1>2. /\ bus' \in Seq(Accesses)
      /\ left'.how \in {"none", "commit", "trap", "int"}
      /\ left'.bus \in Seq(Accesses)
  BY HistoryTypes
<1> QED
  BY <1>1, <1>2, TickTypes DEF ExecTypeOK, DERegister

\* Every edge keeps the invariant of the stage.
LEMMA StageStep ==
  ASSUME StageInv, [ExecNext]_exVars
  PROVE  StageInv'
<1>0. Bubble \in DERegister /\ arch_pc \in Pcs /\ PcPlus(arch_pc, 1) \in Pcs
  <2>1. arch_pc \in Pcs
    BY DEF StageInv, ExecTypeOK
  <2>2. arch_pc \in Nat
    BY <2>1, CsrAssumption DEF Pcs
  <2> QED
    BY <2>1, <2>2, BubbleType, PcRange DEF DERegister
<1>1. ASSUME NEW i \in Inputs, SyncTrap(i) PROVE StageInv'
  <2>1. trap_redirect_req /\ bus \o accept(i) = << >>
    BY <1>1, DepartureIsClean DEF SyncTrap, trap_redirect_req
  <2>2. Owned' /\ FaultsPlaced' /\ BusSoFar' /\ AccessesExact'
    BY <1>1, <2>1, DepartureStep DEF SyncTrap
  <2>3. mstatus' \subseteq MStatusBits /\ mie' \subseteq Sources /\ mepc' \in Pcs
    BY <1>1, CsrTypes DEF SyncTrap
  <2>4. ExecTypeOK'
    BY <1>0, <1>1, <2>3, TargetTypes, TypesStep DEF SyncTrap, Flush, StageInv
  <2> QED
    BY <2>2, <2>4 DEF StageInv
<1>2. ASSUME NEW i \in Inputs, Interrupt(i) PROVE StageInv'
  <2>1. trap_redirect_req /\ int_pending /\ bus \o accept(i) = << >>
    BY <1>2, DepartureIsClean DEF Interrupt, trap_redirect_req, take_interrupt
  <2>2. Owned' /\ FaultsPlaced' /\ BusSoFar' /\ AccessesExact'
    BY <1>2, <2>1, DepartureStep DEF Interrupt
  <2>3. mstatus' \subseteq MStatusBits /\ mie' \subseteq Sources /\ mepc' \in Pcs
    BY <1>2, CsrTypes DEF Interrupt
  <2>4. ExecTypeOK'
    BY <1>0, <1>2, <2>1, <2>3, TargetTypes, TypesStep DEF Interrupt, Flush, StageInv
  <2> QED
    BY <2>2, <2>4 DEF StageInv
<1>3. ASSUME NEW i \in Inputs, Mret(i) PROVE StageInv'
  <2>1. trap_redirect_req /\ bus \o accept(i) = << >>
    BY <1>3, DepartureIsClean DEF Mret, trap_redirect_req
  <2>2. AccessesOf(de.ins) = {<< >>}
    BY <1>3, StateFacts, InsFacts DEF Mret, mret_req, is, AccessesOf
  <2>3. Owned' /\ FaultsPlaced' /\ BusSoFar' /\ AccessesExact'
    BY <1>3, <2>1, <2>2, DepartureStep DEF Mret
  <2>4. mstatus' \subseteq MStatusBits /\ mie' \subseteq Sources /\ mepc' \in Pcs
    BY <1>3, CsrTypes DEF Mret
  <2>5. mepc \in Pcs
    BY DEF StageInv, ExecTypeOK
  <2>6. ExecTypeOK'
    BY <1>0, <1>3, <2>4, <2>5, TypesStep DEF Mret, Flush
  <2> QED
    BY <2>3, <2>6 DEF StageInv
<1>4. ASSUME NEW i \in Inputs, Mispredict(i) PROVE StageInv'
  <2>1. retires(i) /\ bus \o accept(i) \in AccessesOf(de.ins)
    BY <1>4, MispredictRetires, DepartureIsClean DEF Mispredict
  <2>2. Owned' /\ FaultsPlaced' /\ BusSoFar' /\ AccessesExact'
    BY <1>4, <2>1, DepartureStep DEF Mispredict
  <2>3. mstatus' \subseteq MStatusBits /\ mie' \subseteq Sources /\ mepc' \in Pcs
    BY <1>4, CsrTypes DEF Mispredict
  <2>4. branch_addr(i) \in Pcs /\ i.target \in Pcs
    BY InputFacts, TargetTypes DEF branch_addr, StageInv
  <2>5. ExecTypeOK'
    BY <1>0, <1>4, <2>3, <2>4, TypesStep DEF Mispredict, Flush
  <2> QED
    BY <2>2, <2>5 DEF StageInv
<1>5. ASSUME NEW i \in Inputs, Retire(i) PROVE StageInv'
  <2>1. retires(i) /\ bus \o accept(i) \in AccessesOf(de.ins)
    BY <1>5, DepartureIsClean DEF Retire
  <2>2. Owned' /\ FaultsPlaced' /\ BusSoFar' /\ AccessesExact'
    BY <1>5, <2>1, DepartureStep DEF Retire
  <2>3. mstatus' \subseteq MStatusBits /\ mie' \subseteq Sources /\ mepc' \in Pcs
    <3>1. is("csr") => ex_state_q = "EX_CSR_WAIT"
      BY <2>1 DEF retires, result_ready, is_mem_op, is, csr_ready
    <3> QED
      BY <1>5, <3>1, CsrTypes DEF Retire
  <2>4. de' \in DERegister /\ next_pc' \in Pcs
    BY <1>5, DecodeTypes DEF Retire
  <2>5. arch_pc' \in Pcs
    BY <1>0, <1>5, InputFacts DEF Retire
  <2>6. ExecTypeOK'
    BY <1>5, <2>3, <2>4, <2>5, TypesStep DEF Retire
  <2> QED
    BY <2>2, <2>6 DEF StageInv
<1>6. ASSUME NEW i \in Inputs, Wait(i) PROVE StageInv'
  <2>1. Owned' /\ FaultsPlaced' /\ BusSoFar' /\ AccessesExact'
    BY <1>6, WaitStep
  <2>2. mstatus' \subseteq MStatusBits /\ mie' \subseteq Sources /\ mepc' \in Pcs
    BY <1>6, CsrTypes DEF Wait
  <2>3. de' \in DERegister /\ next_pc' \in Pcs
    BY <1>6, DecodeTypes DEF Wait
  <2>4. ExecTypeOK'
    BY <1>0, <1>6, <2>2, <2>3, TypesStep DEF Wait
  <2> QED
    BY <2>1, <2>4 DEF StageInv
<1>7. CASE UNCHANGED exVars
  BY <1>7 DEF exVars, csrVars, execVars, StageInv, ExecTypeOK, Owned, FaultsPlaced, BusSoFar,
    AccessesExact, ReadsOwed, is_mem_op, is, CsrValue, lsu_port
<1> QED
  BY <1>1, <1>2, <1>3, <1>4, <1>5, <1>6, <1>7 DEF ExecNext

(***************************************************************************)
(* Program order.  Whatever completes, traps or is interrupted, the next   *)
(* instruction of the stream is the next one of the program; with a wfi    *)
(* behind a wfi the second one would move wfi_next_pc_q while it is still  *)
(* frozen, which is why ~WFI_PAIRS is assumed.                             *)
(***************************************************************************)
\* After a redirect D/E is empty and the stream stands at the redirect's PC.
LEMMA FlushOrder ==
  ASSUME StageInv, OrderInv, NEW i \in Inputs, Tick(i), NEW t, Flush(t), arch_pc' = t,
         trap_redirect_req \/ mispredict(i)
  PROVE  OrderInv'
<1>1. ~wfi_halt_q'
  <2>1. ~wfi_retire
    BY MispredictRetires DEF wfi_retire, is
  <2>2. wfi_halt_q => int_pending
    <3>1. ASSUME wfi_halt_q, ~int_pending PROVE FALSE
      <4>1. freeze /\ idle
        BY <3>1, StateFacts DEF freeze, wfi_stall
      <4>2. ~mispredict(i) /\ ~mret_req /\ ~take_interrupt /\ ~sync_trap_req
        BY <3>1, <4>1, IdleFacts DEF mispredict, cf_resolving, mret_req, take_interrupt,
          sync_trap_req
      <4> QED
        BY <4>2 DEF trap_redirect_req
    <3> QED
      BY <3>1
  <2> QED
    BY <2>1, <2>2 DEF Tick, next_wfi_halt
<1>2. ~de'.valid /\ ~de'.pred /\ next_pc' = arch_pc'
  BY BubbleType DEF Flush
<1> QED
  BY <1>1, <1>2 DEF OrderInv, HaltIsCurrent, is

\* An instruction handed over, or a gap, behind one that is done with.
LEMMA DecodeOrder ==
  ASSUME StageInv, OrderInv, ~WFI_PAIRS, NEW i \in Inputs, Decode(i), ~stall_o(i),
         arch_pc' = next_pc
  PROVE  /\ de'.valid => de'.pc = arch_pc'
         /\ next_pc' = IF ~de'.valid THEN arch_pc'
                       ELSE IF de'.pred THEN de'.ptarget ELSE PcPlus(de'.pc, 1)
         /\ de'.pred => is("branch")'
         /\ is("wfi")' => ~wfi_halt_q /\ ~is("wfi")
<1>1. CASE Gap
  BY <1>1, BubbleType DEF Gap, is
<1>2. ASSUME NEW ins \in Instructions, HandOver(ins, FALSE, 0)
      PROVE  /\ de'.valid /\ ~de'.pred /\ de'.pc = next_pc
             /\ next_pc' = PcPlus(next_pc, 1)
             /\ is("wfi")' => ~wfi_halt_q /\ ~is("wfi")
  <2>1. de' = [valid |-> TRUE, pc |-> next_pc, ins |-> ins, pred |-> FALSE, ptarget |-> 0]
    BY <1>2 DEF HandOver
  <2>2. is("wfi")' => ~wfi_halt_q /\ ~is("wfi")
    BY <1>2, <2>1 DEF HandOver, MayFollow, is
  <2> QED
    BY <1>2, <2>1, <2>2 DEF HandOver
<1>3. ASSUME NEW t \in Pcs, HandOver(Plain("branch"), TRUE, t)
      PROVE  /\ de'.valid /\ de'.pred /\ de'.pc = next_pc /\ de'.ptarget = t
             /\ next_pc' = t
             /\ is("branch")' /\ ~is("wfi")'
  BY <1>3 DEF HandOver, Plain, is
<1> QED
  BY <1>1, <1>2, <1>3 DEF Decode

\* A halt without a trap or an interrupt freezes the stage.
LEMMA HaltFreezes ==
  ASSUME StageInv, NEW i \in Inputs, ~trap_redirect_req, wfi_halt_q
  PROVE  stall_o(i) /\ next_state(i) = "EX_IDLE"
<1>1. freeze /\ stall_o(i) /\ idle
  BY StateFacts DEF freeze, stall_o, wfi_stall, trap_redirect_req, take_interrupt
<1>2. /\ ~mem_req_pending /\ ~alu_start /\ ~csr_start
      /\ ~mem_misaligned_launch /\ ~mem_capture /\ ~dmem_load_hs(i)
  BY <1>1 DEF mem_req_pending, alu_start, csr_start, mem_misaligned_launch, mem_capture,
    dmem_load_hs, dmem_load_drive
<1> QED
  BY <1>1, <1>2 DEF next_state, idle

\* Every edge keeps the order of completion, if no wfi follows a wfi.
LEMMA OrderStep ==
  ASSUME StageInv, OrderInv, ~WFI_PAIRS, [ExecNext]_exVars
  PROVE  OrderInv'
<1>1. ASSUME NEW i \in Inputs, SyncTrap(i) PROVE OrderInv'
  BY <1>1, FlushOrder DEF SyncTrap, trap_redirect_req
<1>2. ASSUME NEW i \in Inputs, Interrupt(i) PROVE OrderInv'
  BY <1>2, FlushOrder DEF Interrupt, trap_redirect_req
<1>3. ASSUME NEW i \in Inputs, Mret(i) PROVE OrderInv'
  BY <1>3, FlushOrder DEF Mret, trap_redirect_req
<1>4. ASSUME NEW i \in Inputs, Mispredict(i) PROVE OrderInv'
  <2>1. de.valid /\ de.pc = arch_pc
    BY <1>4, MispredictRetires DEF Mispredict, is, OrderInv
  <2>2. arch_pc' = branch_addr(i)
    BY <1>4, <2>1 DEF Mispredict, branch_addr, pc_link
  <2> QED
    BY <1>4, <2>2, FlushOrder DEF Mispredict
<1>5. ASSUME NEW i \in Inputs, Retire(i) PROVE OrderInv'
  <2>1. de.valid /\ ~trap_redirect_req /\ ~freeze /\ ~stall_o(i)
    BY <1>5, StallExact DEF Retire, retires
  <2>2. ~wfi_halt_q
    BY <2>1 DEF freeze, wfi_stall, trap_redirect_req, take_interrupt
  <2>3. arch_pc' = next_pc
    <3>1. CASE is("branch")
      <4>1. de.pred = i.taken /\ (de.pred => i.target = de.ptarget)
        <5>1. de.pred \in BOOLEAN /\ i.taken \in BOOLEAN
          BY InputFacts DEF StageInv, ExecTypeOK
        <5> QED
          BY <1>5, <2>1, <3>1, <5>1 DEF Retire, mispredict, cf_resolving
      <4> QED
        BY <1>5, <2>1, <3>1, <4>1 DEF Retire, OrderInv, pc_link
    <3>2. CASE ~is("branch")
      BY <1>5, <2>1, <3>2 DEF Retire, OrderInv, pc_link
    <3> QED
      BY <3>1, <3>2
  <2>4. /\ de'.valid => de'.pc = arch_pc'
        /\ next_pc' = IF ~de'.valid THEN arch_pc'
                      ELSE IF de'.pred THEN de'.ptarget ELSE PcPlus(de'.pc, 1)
        /\ de'.pred => is("branch")'
        /\ is("wfi")' => ~wfi_halt_q /\ ~is("wfi")
    BY <1>5, <2>1, <2>3, DecodeOrder DEF Retire
  <2>5. wfi_halt_q' => is("wfi")
    BY <1>5, <2>2 DEF Retire, Tick, next_wfi_halt, wfi_retire
  <2>6. wfi_halt_q' => wfi_next_pc_q' = arch_pc' /\ idle'
    <3>1. ASSUME wfi_halt_q' PROVE wfi_next_pc_q' = pc_link /\ is("wfi")
      BY <1>5, <2>2, <3>1 DEF Retire, Tick, next_wfi_halt, wfi_retire
    <3>2. ASSUME wfi_halt_q' PROVE arch_pc' = pc_link
      BY <1>5, <2>1, <3>1, <3>2 DEF Retire, OrderInv, pc_link, is
    <3>3. idle'
      BY <1>5, DepartureIsClean DEF Retire, Tick, idle
    <3> QED
      BY <3>1, <3>2, <3>3
  <2> QED
    BY <2>4, <2>5, <2>6 DEF OrderInv, HaltIsCurrent, pc_link
<1>6. ASSUME NEW i \in Inputs, Wait(i) PROVE OrderInv'
  <2>1. /\ ~trap_redirect_req /\ ~retires(i) /\ arch_pc' = arch_pc /\ Decode(i)
        /\ wfi_halt_q' = next_wfi_halt /\ ex_state_q' = next_state(i)
        /\ wfi_next_pc_q' = IF wfi_retire THEN pc_link ELSE wfi_next_pc_q
    BY <1>6 DEF Wait, Tick
  <2>2. ~wfi_retire
    <3>1. ASSUME wfi_retire PROVE retires(i)
      <4>1. is("wfi") /\ ~wfi_halt_q
        BY <3>1 DEF wfi_retire, OrderInv
      <4> QED
        BY <2>1, <4>1 DEF retires, freeze, wfi_stall, result_ready, is_mem_op, is
    <3> QED
      BY <2>1, <3>1
  <2>3. wfi_halt_q' => wfi_halt_q
    BY <2>1, <2>2 DEF next_wfi_halt
  <2>4. HaltIsCurrent'
    <3>1. ASSUME wfi_halt_q' PROVE wfi_next_pc_q' = arch_pc' /\ idle'
      BY <2>1, <2>2, <2>3, <3>1, HaltFreezes DEF OrderInv, HaltIsCurrent, idle
    <3> QED
      BY <3>1 DEF HaltIsCurrent
  <2>5. CASE stall_o(i)
    <3>1. de' = de /\ next_pc' = next_pc
      BY <2>1, <2>5 DEF Decode
    <3> QED
      BY <2>1, <2>3, <2>4, <3>1 DEF OrderInv, is, pc_link
  <2>6. CASE ~stall_o(i)
    <3>1. ~de.valid /\ ~wfi_halt_q
      BY <2>1, <2>6, StallExact, HaltFreezes
    <3>2. arch_pc' = next_pc
      BY <2>1, <3>1 DEF OrderInv
    <3> QED
      BY <2>1, <2>3, <2>4, <2>6, <3>1, <3>2, DecodeOrder DEF OrderInv, pc_link
  <2> QED
    BY <2>5, <2>6
<1>7. CASE UNCHANGED exVars
  BY <1>7 DEF exVars, csrVars, execVars, OrderInv, HaltIsCurrent, is, pc_link, idle
<1> QED
  BY <1>1, <1>2, <1>3, <1>4, <1>5, <1>6, <1>7 DEF ExecNext

(***************************************************************************)
(* Theorems.                                                               *)
(***************************************************************************)
LEMMA StageInvariant == ExecSpec => []StageInv
<1>1. StageInv /\ [ExecNext]_exVars => StageInv'
  BY StageStep
<1> QED
  BY StageInit, <1>1, PTL DEF ExecSpec

\* Every register of the execute stage and of the CSR file keeps its type;
\* in particular every PC stays in the PC space and a read-modify-write of
\* mstatus or mie never mixes in bits of the other.
THEOREM ExecTypes == ExecSpec => []ExecTypeOK
<1>1. StageInv => ExecTypeOK
  BY DEF StageInv
<1> QED
  BY StageInvariant, <1>1, PTL

\* Bus accesses are exact: for every program, an instruction retires having
\* reached the slave its address selects once, and one that traps or is
\* interrupted having reached none; no answer is ever left over.
THEOREM ExecAccessesExact == ExecSpec => []AccessesExact
<1>1. StageInv => AccessesExact
  BY DEF StageInv
<1> QED
  BY StageInvariant, <1>1, PTL

\* An exception in D/E stays there until it traps: no interrupt, mret or WFI
\* wake takes its place.
THEOREM ExecFaultNeverPasses == ExecSpec => FaultNeverPasses
<1>1. ASSUME StageInv, [ExecNext]_exVars
      PROVE  [is("exc") => (de' = de \/ left'.how = "trap")]_exVars
  <2> SUFFICES ASSUME is("exc"), ExecNext PROVE de' = de \/ left'.how = "trap"
    BY <1>1
  <2>0. StageInv
    BY <1>1
  <2>1. de.valid /\ de.ins.op = "exc" /\ idle
    BY <2>0, StateFacts DEF is, StageInv, Owned, is_mem_op, idle, States
  <2>2. ASSUME NEW i \in Inputs, SyncTrap(i) PROVE left'.how = "trap"
    BY <2>2 DEF SyncTrap, Leaves
  <2>3. ASSUME NEW i \in Inputs, Interrupt(i) PROVE FALSE
    <3>1. int_pending /\ ~sync_trap_req
      BY <2>3 DEF Interrupt, take_interrupt
    <3> QED
      BY <2>1, <3>1 DEF sync_trap_req, is, freeze, wfi_stall
  <2>4. ASSUME NEW i \in Inputs, Mret(i) \/ Mispredict(i) PROVE FALSE
    BY <2>1, <2>4 DEF Mret, mret_req, Mispredict, mispredict, cf_resolving, is
  <2>5. ASSUME NEW i \in Inputs, Retire(i) PROVE FALSE
    BY <2>1, <2>5 DEF Retire, retires, trap_redirect_req, sync_trap_req, is
  <2>6. ASSUME NEW i \in Inputs, Wait(i) PROVE de' = de
    <3>1. stall_o(i)
      BY <2>0, <2>1, <2>6, StallExact DEF Wait
    <3> QED
      BY <2>6, <3>1 DEF Wait, Decode
  <2> QED
    BY <2>2, <2>3, <2>4, <2>5, <2>6 DEF ExecNext
<1> QED
  BY StageInvariant, <1>1, PTL DEF ExecSpec, FaultNeverPasses

\* The order of completion is right in every reachable state.
LEMMA OrderInvariant ==
  ASSUME ~WFI_PAIRS
  PROVE  ExecSpec => []OrderInv
<1>1. ExecInit => OrderInv
  BY BubbleType DEF ExecInit, OrderInv, HaltIsCurrent, is
<1>2. StageInv /\ OrderInv /\ [ExecNext]_exVars => OrderInv'
  BY OrderStep
<1> QED
  BY StageInvariant, <1>1, <1>2, PTL DEF ExecSpec

\* Every wait state has its owner in D/E, and a WFI halt belongs to the last
\* WFI, for every program in which no wfi directly follows a wfi.
THEOREM ExecStateHasOwner ==
  ASSUME ~WFI_PAIRS
  PROVE  ExecSpec => []StateHasOwner
<1>1. StageInv /\ OrderInv => StateHasOwner
  BY DEF StageInv, Owned, OrderInv, StateHasOwner
<1> QED
  BY StageInvariant, OrderInvariant, <1>1, PTL

\* Traps are precise, for every program in which no wfi directly follows a
\* wfi: instructions complete in program order, and a trap or an interrupt
\* saves the PC of the first one that has not completed.
THEOREM ExecPreciseTraps ==
  ASSUME ~WFI_PAIRS
  PROVE  ExecSpec => PreciseTraps
<1>1. ASSUME StageInv, OrderInv, [ExecNext]_exVars
      PROVE  [ /\ left'.how = "commit" => de.pc = arch_pc
               /\ left'.how \in {"trap", "int"} => mepc' = arch_pc ]_exVars
  <2> SUFFICES ASSUME ExecNext
               PROVE  /\ left'.how = "commit" => de.pc = arch_pc
                      /\ left'.how \in {"trap", "int"} => mepc' = arch_pc
    BY <1>1
  <2>0. StageInv /\ OrderInv
    BY <1>1
  <2>1. ASSUME trap_redirect_req PROVE trap_mepc = arch_pc
    <3>1. ~wfi_halt_q => de.valid
      BY <2>1 DEF trap_redirect_req, sync_trap_req, misaligned_trap, mret_req, take_interrupt,
        normal_int_eligible, is
    <3> QED
      BY <2>0, <3>1 DEF trap_mepc, OrderInv, HaltIsCurrent
  <2>2. ASSUME NEW i \in Inputs, SyncTrap(i) \/ Interrupt(i)
        PROVE  left'.how \in {"trap", "int"} /\ mepc' = arch_pc
    <3>1. trap_redirect_req /\ mepc' = trap_mepc
      BY <2>2 DEF SyncTrap, Interrupt, trap_redirect_req, CsrEntry
    <3>2. left'.how \in {"trap", "int"}
      BY <2>2 DEF SyncTrap, Interrupt, Leaves
    <3> QED
      BY <2>1, <3>1, <3>2
  <2>3. ASSUME NEW i \in Inputs, Mret(i) \/ Mispredict(i) \/ Retire(i)
        PROVE  left'.how = "commit" /\ de.pc = arch_pc
    <3>1. de.valid
      BY <2>3 DEF Mret, mret_req, Mispredict, mispredict, cf_resolving, Retire, retires, is
    <3>2. left'.how = "commit"
      BY <2>3 DEF Mret, Mispredict, Retire, Leaves
    <3> QED
      BY <2>0, <3>1, <3>2 DEF OrderInv
  <2>4. ASSUME NEW i \in Inputs, Wait(i) PROVE left'.how = "none"
    BY <2>4 DEF Wait, Stays, NobodyLeft
  <2> QED
    BY <2>2, <2>3, <2>4 DEF ExecNext
<1> QED
  BY StageInvariant, OrderInvariant, <1>1, PTL DEF ExecSpec, PreciseTraps

-----------------------------------------------------------------------------
(***************************************************************************)
(* The harness.  A counter is right because the wire it counts is high in  *)
(* exactly one cycle of an instruction that completes.  The remembered     *)
(* wires (pv) never hide a second event: the cycle behind an alu_start or  *)
(* a csr_start is in the wait state it leads to, and the cycle behind a    *)
(* redirect has nothing in D/E.  A WFI that has seen its interrupt is on   *)
(* for one more cycle.                                                     *)
(***************************************************************************)
CountersExact ==
  off = [loads |-> 0, stores |-> 0, divs |-> Ones(ex_state_q = "EX_DIV_BUSY"),
         csrs |-> Ones(ex_state_q = "EX_CSR_WAIT"), redirects |-> 0, resolved |-> 0]

WiresRemembered ==
  /\ pv \in [div: BOOLEAN, csr: BOOLEAN, redir: BOOLEAN]
  /\ pv.div => ex_state_q = "EX_DIV_BUSY"
  /\ pv.csr => ex_state_q = "EX_CSR_WAIT"
  /\ pv.redir => ~de.valid /\ ~wfi_halt_q /\ post_redirect

WakeWatched ==
  /\ wfi.seen \in BOOLEAN
  /\ wfi.seen => wfi_halt_q /\ int_pending
  /\ wfi.since = Ones(wfi.seen)
  /\ wfi.fail # "stuck"

WatchInv == CountersExact /\ WiresRemembered /\ WakeWatched

\* How an edge ends, read off the wires.
LEMMA EdgeOutcome ==
  ASSUME StageInv, NEW i \in Inputs, Edge(i)
  PROVE  /\ Tick(i)
         /\ ex_valid <=> retires(i) \/ mret_req
         /\ left'.how \in {"trap", "int"} <=> sync_trap_req \/ take_interrupt
         /\ branch_valid(i) => ~de'.valid
<1>1. retires(i) => ~trap_redirect_req
  BY DEF retires
<1>2. mret_req => ~sync_trap_req /\ ~take_interrupt
  BY DEF mret_req, sync_trap_req, take_interrupt, misaligned_trap, is, idle
<1>3. CASE SyncTrap(i)
  BY <1>1, <1>2, <1>3, BubbleType DEF SyncTrap, Leaves, ex_valid, trap_redirect_req, Flush
<1>4. CASE Interrupt(i)
  BY <1>1, <1>2, <1>4, BubbleType DEF Interrupt, Leaves, ex_valid, trap_redirect_req, Flush
<1>5. CASE Mret(i)
  BY <1>1, <1>2, <1>5, BubbleType DEF Mret, Leaves, ex_valid, Flush
<1>6. CASE Mispredict(i)
  BY <1>6, MispredictRetires, BubbleType DEF Mispredict, Leaves, ex_valid, trap_redirect_req,
     Flush
<1>7. CASE Retire(i)
  BY <1>1, <1>7 DEF Retire, Leaves, ex_valid, trap_redirect_req, branch_valid
<1>8. CASE Wait(i)
  BY <1>8, MispredictRetires DEF Wait, Stays, NobodyLeft, ex_valid, trap_redirect_req,
     branch_valid
<1> QED
  BY <1>3, <1>4, <1>5, <1>6, <1>7, <1>8 DEF Edge

\* A load or store completes in the cycle its last handshake is seen, and a
\* branch in the cycle it resolves.
LEMMA MemoryCounted ==
  ASSUME StageInv, NEW i \in Inputs, Edge(i)
  PROVE  /\ mem_done(i) <=> ex_valid /\ is("load")
         /\ store_done(i) <=> ex_valid /\ is("store")
         /\ cf_resolving <=> ex_valid /\ is("branch")
         /\ branch_valid(i) <=> Redirected(i)
<1>1. /\ ex_valid <=> retires(i) \/ mret_req
      /\ left'.how \in {"trap", "int"} <=> sync_trap_req \/ take_interrupt
      /\ mret_req => is("mret")
  BY EdgeOutcome DEF mret_req
<1>2. mem_done(i) <=> ex_valid /\ is("load")
  <2>1. ASSUME mem_done(i) PROVE retires(i) /\ is("load")
    <3>1. ex_state_q = "EX_MEM_WAIT" /\ ~idle /\ is("load")
      BY <2>1 DEF mem_done, idle, StageInv, FaultsPlaced
    <3>2. ~freeze /\ ~trap_redirect_req /\ de.valid
      BY <3>1, BusyFacts DEF misaligned_trap
    <3> QED
      BY <2>1, <3>1, <3>2 DEF retires, result_ready, is_mem_op, mem_op_done
  <2>2. ASSUME retires(i), is("load") PROVE mem_done(i)
    BY <2>2 DEF retires, result_ready, is_mem_op, mem_op_done
  <2>3. is("load") => ~is("mret")
    BY DEF is
  <2> QED
    BY <1>1, <2>1, <2>2, <2>3
<1>3. store_done(i) <=> ex_valid /\ is("store")
  <2>0. is("store") => ~is("mret") /\ ~is("load")
    BY DEF is
  <2>1. ASSUME store_done(i) PROVE retires(i) /\ is("store")
    <3>1. is("store") /\ captured_drive /\ ~idle /\ ~misaligned_trap
      BY <2>1 DEF store_done, captured_hs, captured_drive, idle
    <3>2. ~freeze /\ ~trap_redirect_req /\ de.valid
      BY <3>1, BusyFacts
    <3> QED
      BY <2>0, <2>1, <3>1, <3>2 DEF retires, result_ready, is_mem_op, mem_op_done
  <2>2. ASSUME retires(i), is("store") PROVE store_done(i)
    BY <2>0, <2>2 DEF retires, result_ready, is_mem_op, mem_op_done
  <2> QED
    BY <1>1, <2>0, <2>1, <2>2
<1>4. cf_resolving <=> ex_valid /\ is("branch")
  <2>1. is("branch") => ~is("mret") /\ ~is_mem_op /\ ~is("csr") /\ ~is("div")
    BY DEF is, is_mem_op
  <2>2. is("branch") => (cf_resolving <=> retires(i))
    BY <2>1 DEF cf_resolving, retires, result_ready, is
  <2> QED
    BY <1>1, <2>1, <2>2 DEF cf_resolving
<1>5. branch_valid(i) <=> Redirected(i)
  <2>1. retires(i) /\ is("mret") => FALSE
    <3>1. ASSUME retires(i), is("mret") PROVE mret_req
      <4>1. idle
        BY <3>1, StateFacts DEF StageInv, Owned, is, is_mem_op, States, idle
      <4> QED
        BY <3>1, <4>1 DEF retires, mret_req
    <3> QED
      BY <3>1 DEF retires, trap_redirect_req
  <2>2. mispredict(i) => retires(i)
    BY MispredictRetires
  <2> QED
    BY <1>1, <2>1, <2>2 DEF branch_valid, Redirected, trap_redirect_req
<1> QED
  BY <1>2, <1>3, <1>4, <1>5

\* A divide is under way from its start to its completion, a CSR access in the
\* one cycle behind its start.
LEMMA WaitsCounted ==
  ASSUME StageInv, NEW i \in Inputs, Edge(i)
  PROVE  /\ alu_start => idle /\ ex_state_q' = "EX_DIV_BUSY"
         /\ csr_start => idle /\ ex_state_q' = "EX_CSR_WAIT"
         /\ ex_valid /\ is("div") => ex_state_q = "EX_DIV_BUSY"
         /\ ex_state_q = "EX_DIV_BUSY" =>
              (ex_state_q' = "EX_DIV_BUSY" <=> ~(ex_valid /\ is("div")))
         /\ ex_state_q' = "EX_DIV_BUSY" => alu_start \/ ex_state_q = "EX_DIV_BUSY"
         /\ ex_valid /\ is("csr") <=> ex_state_q = "EX_CSR_WAIT"
         /\ ex_state_q' = "EX_CSR_WAIT" => csr_start
<1>1. /\ ex_valid <=> retires(i) \/ mret_req
      /\ mret_req => is("mret")
      /\ ex_state_q' = next_state(i) /\ ex_state_q \in States
      /\ i.divdone \in BOOLEAN
  BY EdgeOutcome, StateFacts, InputFacts DEF mret_req, Tick
<1>2. alu_start => idle /\ ex_state_q' = "EX_DIV_BUSY"
  BY <1>1 DEF alu_start, next_state, idle
<1>3. csr_start => idle /\ ex_state_q' = "EX_CSR_WAIT"
  <2>1. csr_start => /\ idle /\ ~alu_start /\ ~mem_misaligned_launch /\ ~mem_capture
                     /\ ~dmem_load_hs(i)
    BY DEF csr_start, alu_start, mem_misaligned_launch, mem_capture, dmem_load_hs,
       dmem_load_drive, mem_req_pending, is_mem_op, is
  <2> QED
    BY <1>1, <2>1 DEF next_state, idle
<1>4. is("div") => ~is("mret") /\ ~is_mem_op /\ ~is("csr")
  BY DEF is, is_mem_op
<1>5. is("csr") => ~is("mret") /\ ~is_mem_op
  BY DEF is, is_mem_op
<1>6. ex_valid /\ is("div") => ex_state_q = "EX_DIV_BUSY" /\ i.divdone
  BY <1>1, <1>4 DEF retires, result_ready
<1>7. ASSUME ex_state_q = "EX_DIV_BUSY"
      PROVE  ex_state_q' = "EX_DIV_BUSY" <=> ~(ex_valid /\ is("div"))
  <2>1. ~idle /\ is("div")
    BY <1>7 DEF idle, StageInv, Owned
  <2>2. ~freeze /\ ~trap_redirect_req /\ de.valid
    BY <1>7, <2>1, BusyFacts DEF misaligned_trap
  <2>3. retires(i) <=> i.divdone
    BY <1>4, <1>7, <2>1, <2>2 DEF retires, result_ready
  <2>4. ex_state_q' = IF i.divdone THEN "EX_IDLE" ELSE "EX_DIV_BUSY"
    BY <1>1, <1>7 DEF next_state, idle
  <2> QED
    BY <1>1, <1>4, <2>1, <2>3, <2>4
<1>8. ex_state_q' = "EX_DIV_BUSY" => alu_start \/ ex_state_q = "EX_DIV_BUSY"
  BY <1>1 DEF next_state
<1>9. ex_state_q' = "EX_CSR_WAIT" => csr_start
  BY <1>1 DEF next_state
<1>10. ex_valid /\ is("csr") <=> ex_state_q = "EX_CSR_WAIT"
  <2>1. ex_valid /\ is("csr") => ex_state_q = "EX_CSR_WAIT"
    BY <1>1, <1>5 DEF retires, result_ready, csr_ready
  <2>2. ASSUME ex_state_q = "EX_CSR_WAIT" PROVE retires(i) /\ is("csr")
    <3>1. ~idle /\ is("csr")
      BY <2>2 DEF idle, StageInv, Owned
    <3>2. ~freeze /\ ~trap_redirect_req /\ de.valid
      BY <2>2, <3>1, BusyFacts DEF misaligned_trap
    <3> QED
      BY <1>5, <2>2, <3>1, <3>2 DEF retires, result_ready, csr_ready
  <2> QED
    BY <1>1, <2>1, <2>2
<1> QED
  BY <1>2, <1>3, <1>6, <1>7, <1>8, <1>9, <1>10

\* The counters stay exact.
LEMMA CountStep ==
  ASSUME StageInv, CountersExact, WiresRemembered, NEW i \in Inputs, Edge(i), CountEvents(i)
  PROVE  CountersExact'
<1> DEFINE div0 == Ones(ex_state_q = "EX_DIV_BUSY")
           csr0 == Ones(ex_state_q = "EX_CSR_WAIT")
<1>1. \A x \in BOOLEAN : Ones(x) \in {0, 1} /\ 0 + Ones(x) - Ones(x) = 0
  BY DEF Ones
<1>2. Ones(mem_done(i)) = Ones(ex_valid /\ is("load"))
  BY MemoryCounted DEF Ones
<1>3. Ones(store_done(i)) = Ones(ex_valid /\ is("store"))
  BY MemoryCounted DEF Ones
<1>4. Ones(cf_resolving) = Ones(ex_valid /\ is("branch"))
  BY MemoryCounted DEF Ones
<1>5. Ones(branch_valid(i) /\ ~pv.redir) = Ones(Redirected(i))
  <2>1. branch_valid(i) => ~pv.redir
    BY DEF WiresRemembered, branch_valid, mispredict, cf_resolving, trap_redirect_req,
       sync_trap_req, misaligned_trap, mret_req, take_interrupt, normal_int_eligible, is
  <2> QED
    BY <2>1, MemoryCounted DEF Ones
<1>6. div0 + Ones(alu_start /\ ~pv.div) - Ones(ex_valid /\ is("div"))
        = Ones(ex_state_q' = "EX_DIV_BUSY")
  <2>1. alu_start => ~pv.div /\ ex_state_q # "EX_DIV_BUSY"
    BY DEF WiresRemembered, alu_start, idle
  <2> QED
    BY <2>1, WaitsCounted DEF Ones
<1>7. csr0 + Ones(csr_start /\ ~pv.csr) - Ones(ex_valid /\ is("csr"))
        = Ones(ex_state_q' = "EX_CSR_WAIT")
  <2>1. csr_start => ~pv.csr /\ ex_state_q # "EX_CSR_WAIT"
    BY DEF WiresRemembered, csr_start, idle
  <2> QED
    BY <2>1, WaitsCounted DEF Ones
<1>8. \A x : Ones(x) \in {0, 1}
  BY DEF Ones
<1>9. /\ off.loads = 0 /\ off.stores = 0 /\ off.divs = div0 /\ off.csrs = csr0
      /\ off.redirects = 0 /\ off.resolved = 0
  BY DEF CountersExact
<1>10. off' = [loads |-> 0 + Ones(mem_done(i)) - Ones(ex_valid /\ is("load")),
               stores |-> 0 + Ones(store_done(i)) - Ones(ex_valid /\ is("store")),
               divs |-> div0 + Ones(alu_start /\ ~pv.div) - Ones(ex_valid /\ is("div")),
               csrs |-> csr0 + Ones(csr_start /\ ~pv.csr) - Ones(ex_valid /\ is("csr")),
               redirects |-> 0 + Ones(branch_valid(i) /\ ~pv.redir) - Ones(Redirected(i)),
               resolved |-> 0 + Ones(cf_resolving) - Ones(ex_valid /\ is("branch"))]
  BY <1>9 DEF CountEvents
<1> HIDE DEF div0, csr0
<1>11. \A a, b \in {0, 1} : a = b => 0 + a - b = 0
  OBVIOUS
<1>12. /\ 0 + Ones(mem_done(i)) - Ones(ex_valid /\ is("load")) = 0
       /\ 0 + Ones(store_done(i)) - Ones(ex_valid /\ is("store")) = 0
       /\ 0 + Ones(branch_valid(i) /\ ~pv.redir) - Ones(Redirected(i)) = 0
       /\ 0 + Ones(cf_resolving) - Ones(ex_valid /\ is("branch")) = 0
  BY <1>2, <1>3, <1>4, <1>5, <1>8, <1>11
<1> QED
  BY <1>6, <1>7, <1>10, <1>12 DEF CountersExact

\* The remembered wires lead to where they say.
LEMMA RememberStep ==
  ASSUME StageInv, NEW i \in Inputs, Edge(i), CountEvents(i), ChargeCycle(i)
  PROVE  WiresRemembered'
<1>1. /\ pv' = [div |-> alu_start, csr |-> csr_start, redir |-> branch_valid(i)]
      /\ post_redirect' = next_post_redirect(i)
  BY DEF CountEvents, ChargeCycle
<1>2. alu_start \in BOOLEAN /\ csr_start \in BOOLEAN /\ branch_valid(i) \in BOOLEAN
  BY DEF alu_start, csr_start, branch_valid, mispredict, trap_redirect_req
<1>3. ASSUME branch_valid(i) PROVE ~de'.valid /\ ~wfi_halt_q' /\ post_redirect'
  <2>1. ~de'.valid /\ wfi_halt_q' = next_wfi_halt
    BY <1>3, EdgeOutcome DEF Tick
  <2>2. ~wfi_retire
    BY <1>3 DEF branch_valid, wfi_retire, mispredict, cf_resolving, is
  <2>3. wfi_halt_q => int_pending
    <3>1. wfi_halt_q => idle
      BY StateFacts
    <3> QED
      BY <1>3, <3>1 DEF branch_valid, mispredict, cf_resolving, trap_redirect_req, sync_trap_req,
         misaligned_trap, mret_req, take_interrupt, freeze, wfi_stall, idle
  <2>4. post_redirect'
    BY <1>1, <1>3 DEF next_post_redirect
  <2> QED
    BY <2>1, <2>2, <2>3, <2>4 DEF next_wfi_halt
<1>4. /\ alu_start => ex_state_q' = "EX_DIV_BUSY"
      /\ csr_start => ex_state_q' = "EX_CSR_WAIT"
  BY WaitsCounted
<1> QED
  BY <1>1, <1>2, <1>3, <1>4 DEF WiresRemembered

\* A halt that has seen its interrupt ends with the next edge.
LEMMA WatchStep ==
  ASSUME StageInv, WakeWatched, NEW i \in Inputs, Edge(i), WatchWfi, WFI_STUCK_N > 0
  PROVE  WakeWatched'
<1>1. wfi_halt_q' = next_wfi_halt
  BY EdgeOutcome DEF Tick
<1>2. wfi.seen => ~wfi_halt_q'
  <2>1. wfi_halt_q /\ int_pending => trap_redirect_req
    BY DEF trap_redirect_req, take_interrupt
  <2> QED
    BY <1>1, <2>1 DEF WakeWatched, next_wfi_halt, wfi_retire
<1>3. CASE ~wfi_halt_q'
  <2>1. wfi' = [held |-> 0, since |-> 0, seen |-> FALSE, fail |-> wfi.fail]
    BY <1>3 DEF WatchWfi
  <2> QED
    BY <2>1 DEF WakeWatched, Ones
<1>4. CASE wfi_halt_q'
  <2> DEFINE seen == wfi.seen \/ int_pending'
             held == AtMost(wfi.held + 1, WFI_HALT_N + 1)
             since == IF seen THEN AtMost(wfi.since + 1, WFI_STUCK_N + 1) ELSE wfi.since
  <2>1. wfi.seen = FALSE /\ wfi.since = 0 /\ wfi.fail # "stuck"
    BY <1>2, <1>4 DEF WakeWatched, Ones
  <2>2. since = Ones(seen) /\ ~(seen /\ since > WFI_STUCK_N)
    BY <2>1, HarnessAssumption DEF AtMost, Ones
  <2>3. seen <=> int_pending'
    BY <2>1
  <2>4. seen \in BOOLEAN
    BY <2>1 DEF int_pending
  <2>5. /\ wfi'.seen = seen /\ wfi'.since = since
        /\ wfi'.fail = CASE wfi.fail # "none" -> wfi.fail
                [] wfi.fail = "none" /\ seen /\ since > WFI_STUCK_N -> "stuck"
                [] wfi.fail = "none" /\ ~(seen /\ since > WFI_STUCK_N) ->
                     IF held > WFI_HALT_N THEN "unwoken" ELSE "none"
    BY <1>4 DEF WatchWfi
  <2> HIDE DEF seen, held, since
  <2>6. wfi'.fail # "stuck"
    BY <2>1, <2>2, <2>5
  <2> QED
    BY <1>4, <2>2, <2>3, <2>4, <2>5, <2>6 DEF WakeWatched
<1> QED
  BY <1>3, <1>4

\* The six conditions the harness looks at first.
HeldByExecute(i) ==
  \/ mem_running(i)
  \/ (mem_bus_drive \/ mem_capture) /\ ~store_done(i)
  \/ misaligned_trap
  \/ div_running(i) \/ alu_start
  \/ csr_start
  \/ wfi_stall

\* Execute stalls exactly when one of them holds, if no load is launched from
\* EX_IDLE, and the instruction each stands for is in D/E.
LEMMA StallsSeen ==
  ASSUME StageInv, ~LSU_LIVE_LOAD, NEW i \in Inputs
  PROVE  /\ HeldByExecute(i) <=> stall_o(i)
         /\ mem_running(i) => is("load")
         /\ mem_bus_drive \/ mem_capture \/ misaligned_trap => is_mem_op
         /\ div_running(i) \/ alu_start => is("div")
         /\ csr_start => is("csr")
<1>1. /\ ~mem_misaligned_launch /\ ~dmem_load_drive /\ (mem_capture <=> mem_req_pending)
      /\ ex_state_q # "EX_MEM_TRAP"
      /\ mem_bus_drive <=> captured_drive
      /\ ex_state_q = "EX_MEM_LAUNCH" => de.valid /\ is_mem_op
      /\ misaligned_trap => ex_state_q = "EX_MEM_LAUNCH"
      /\ mem_req_pending => is_mem_op /\ idle
  BY DEF mem_misaligned_launch, dmem_load_drive, mem_capture, mem_bus_drive, StageInv,
     FaultsPlaced, Owned, is_mem_op, is, misaligned_trap, mem_req_pending
<1>2. /\ store_done(i) => captured_drive
      /\ captured_drive => ex_state_q = "EX_MEM_LAUNCH"
      /\ ex_state_q = "EX_MEM_LAUNCH" => (captured_drive <=> ~misaligned_trap)
  BY <1>1 DEF store_done, captured_hs, captured_drive
<1>3. HeldByExecute(i) <=> stall_o(i)
  BY <1>1, <1>2 DEF HeldByExecute, stall_o, mem_running, div_running
<1>4. mem_running(i) => is("load")
  BY DEF mem_running, StageInv, FaultsPlaced
<1>5. div_running(i) \/ alu_start => is("div")
  BY DEF div_running, alu_start, StageInv, Owned
<1>6. csr_start => is("csr")
  BY DEF csr_start
<1> QED
  BY <1>1, <1>2, <1>3, <1>4, <1>5, <1>6

\* The cause of a cycle is the first of the twelve whose condition holds.
LEMMA FirstCause ==
  ASSUME NEW i, NEW fe
  PROVE  LET c == sc_this(i, fe)
         IN  \/ c = "load_wait" /\ mem_running(i)
             \/ c = "lsu_launch" /\ (mem_bus_drive \/ mem_capture) /\ ~store_done(i)
             \/ c = "lsu_mistrap" /\ misaligned_trap
             \/ c = "div" /\ (div_running(i) \/ alu_start)
             \/ c = "csr" /\ csr_start
             \/ c = "wfi" /\ wfi_stall
             \/ ~HeldByExecute(i) /\ c \in {"rvc_hold", "rvc_span", "redirect"}
             \/ ~HeldByExecute(i) /\ ~post_redirect /\ c \in {"imem", "dec_bubble", "other"}
<1> DEFINE launching == (mem_bus_drive \/ mem_capture) /\ ~store_done(i)
           dividing == div_running(i) \/ alu_start
           cs == Causes(i, fe)
           First(k) == k \in DOMAIN cs /\ cs[k][2] /\ \A j \in 1 .. k-1 : ~cs[j][2]
           k0 == CHOOSE k \in DOMAIN cs : cs[k][2] /\ \A j \in 1 .. k-1 : ~cs[j][2]
<1>1. DOMAIN cs = 1 .. 12
  BY DEF Causes
<1>2. cs[1] = <<"load_wait", mem_running(i)>>
  BY DEF Causes
<1>3. cs[2] = <<"lsu_launch", launching>>
  BY DEF Causes
<1>4. cs[3] = <<"lsu_mistrap", misaligned_trap>>
  BY DEF Causes
<1>5. cs[4] = <<"div", dividing>>
  BY DEF Causes
<1>6. cs[5] = <<"csr", csr_start>>
  BY DEF Causes
<1>7. cs[6] = <<"wfi", wfi_stall>>
  BY DEF Causes
<1>8. cs[7] = <<"rvc_hold", fe = "rvc_hold">>
  BY DEF Causes
<1>9. cs[8] = <<"rvc_span", fe = "rvc_span">>
  BY DEF Causes
<1>10. cs[9] = <<"redirect", post_redirect>>
  BY DEF Causes
<1>11. cs[10] = <<"imem", fe = "imem">>
  BY DEF Causes
<1>12. cs[11] = <<"dec_bubble", fe = "dec_bubble">>
  BY DEF Causes
<1>13. cs[12] = <<"other", TRUE>>
  BY DEF Causes
<1> HIDE DEF cs, launching, dividing
<1>14. /\ cs[1][1] = "load_wait" /\ (cs[1][2] <=> mem_running(i))
       /\ cs[2][1] = "lsu_launch"
       /\ (cs[2][2] <=> launching)
       /\ cs[3][1] = "lsu_mistrap" /\ (cs[3][2] <=> misaligned_trap)
       /\ cs[4][1] = "div" /\ (cs[4][2] <=> dividing)
       /\ cs[5][1] = "csr" /\ (cs[5][2] <=> csr_start)
       /\ cs[6][1] = "wfi" /\ (cs[6][2] <=> wfi_stall)
  <2>1. cs[1][1] = "load_wait" /\ (cs[1][2] <=> mem_running(i))
    BY <1>2
  <2>2. cs[2][1] = "lsu_launch" /\ (cs[2][2] <=> launching)
    BY <1>3
  <2>3. cs[3][1] = "lsu_mistrap" /\ (cs[3][2] <=> misaligned_trap)
    BY <1>4
  <2>4. cs[4][1] = "div" /\ (cs[4][2] <=> dividing)
    BY <1>5
  <2>5. cs[5][1] = "csr" /\ (cs[5][2] <=> csr_start)
    BY <1>6
  <2>6. cs[6][1] = "wfi" /\ (cs[6][2] <=> wfi_stall)
    BY <1>7
  <2> QED
    BY <2>1, <2>2, <2>3, <2>4, <2>5, <2>6
<1>15. /\ cs[7][1] = "rvc_hold" /\ cs[8][1] = "rvc_span"
       /\ cs[9][1] = "redirect" /\ (cs[9][2] <=> post_redirect)
       /\ cs[10][1] = "imem" /\ cs[11][1] = "dec_bubble"
       /\ cs[12][1] = "other" /\ cs[12][2]
  BY <1>8, <1>9, <1>10, <1>11, <1>12, <1>13
<1>16. \E k \in DOMAIN cs : First(k)
  <2> DEFINE T == {k \in 1 .. 12 : cs[k][2]}
  <2>1. 12 \in T
    BY <1>15
  <2>2. T \subseteq Nat /\ T # {}
    BY <2>1
  <2>3. \E k \in T : \A j \in T : k <= j
    BY <2>1, <2>2
  <2>4. PICK k \in T : \A j \in T : k <= j
    BY <2>3
  <2>5. First(k)
    BY <1>1, <2>4
  <2> QED
    BY <1>1, <2>4, <2>5
<1>17. First(k0)
  BY <1>16
<1>18. sc_this(i, fe) = cs[k0][1]
  BY DEF sc_this, cs
<1> HIDE DEF k0
<1>19. k0 \in 1 .. 12 /\ cs[k0][2] /\ \A j \in 1 .. 12 : j < k0 => ~cs[j][2]
  BY <1>1, <1>17
<1>20. k0 >= 7 => ~HeldByExecute(i)
  <2>1. k0 >= 7 => ~cs[1][2] /\ ~cs[2][2] /\ ~cs[3][2] /\ ~cs[4][2] /\ ~cs[5][2] /\ ~cs[6][2]
    BY <1>19
  <2> QED
    BY <1>14, <2>1 DEF HeldByExecute, launching, dividing
<1>21. k0 >= 10 => ~post_redirect
  BY <1>15, <1>19
<1>22. CASE k0 \in 1 .. 6
  <2>1. k0 \in {1, 2, 3, 4, 5, 6}
    BY <1>22
  <2> QED
    BY <2>1, <1>14, <1>18, <1>19 DEF launching, dividing
<1>23. CASE k0 \in 7 .. 9
  <2>1. k0 \in {7, 8, 9} /\ k0 >= 7
    BY <1>23
  <2> QED
    BY <2>1, <1>15, <1>18, <1>20
<1>24. CASE k0 \in 10 .. 12
  <2>1. k0 \in {10, 11, 12} /\ k0 >= 7 /\ k0 >= 10
    BY <1>24
  <2> QED
    BY <2>1, <1>15, <1>18, <1>20, <1>21
<1>25. k0 \in 1 .. 6 \/ k0 \in 7 .. 9 \/ k0 \in 10 .. 12
  BY <1>19
<1> QED
  BY <1>22, <1>23, <1>24, <1>25

\* No cycle is charged to the wrong cause.
LEMMA ChargedRight ==
  ASSUME StageInv, WiresRemembered, ~LSU_LIVE_LOAD, NEW i \in Inputs, NEW fe
  PROVE  RightlyCharged(i, sc_this(i, fe))
<1> DEFINE c == sc_this(i, fe)
<1>1. \/ c = "load_wait" /\ mem_running(i)
      \/ c = "lsu_launch" /\ (mem_bus_drive \/ mem_capture) /\ ~store_done(i)
      \/ c = "lsu_mistrap" /\ misaligned_trap
      \/ c = "div" /\ (div_running(i) \/ alu_start)
      \/ c = "csr" /\ csr_start
      \/ c = "wfi" /\ wfi_stall
      \/ ~HeldByExecute(i) /\ c \in {"rvc_hold", "rvc_span", "redirect"}
      \/ ~HeldByExecute(i) /\ ~post_redirect /\ c \in {"imem", "dec_bubble", "other"}
  BY FirstCause
<1>2. /\ HeldByExecute(i) <=> stall_o(i)
      /\ mem_running(i) => is("load")
      /\ mem_bus_drive \/ mem_capture \/ misaligned_trap => is_mem_op
      /\ div_running(i) \/ alu_start => is("div")
      /\ csr_start => is("csr")
  BY StallsSeen
<1> HIDE DEF c
<1>3. (c \in ExecuteCauses) <=> HeldByExecute(i)
  BY <1>1 DEF ExecuteCauses, HeldByExecute
<1>4. c \in ExecuteCauses \ {"wfi"} => de.valid /\ de.ins.op \in Holders(c)
  <2>1. CASE c = "load_wait"
    BY <1>1, <1>2, <2>1 DEF Holders, is
  <2>2. CASE c \in {"lsu_launch", "lsu_mistrap"}
    BY <1>1, <1>2, <2>2 DEF Holders, is, is_mem_op
  <2>3. CASE c = "div"
    BY <1>1, <1>2, <2>3 DEF Holders, is
  <2>4. CASE c = "csr"
    BY <1>1, <1>2, <2>4 DEF Holders, is
  <2> QED
    BY <2>1, <2>2, <2>3, <2>4 DEF ExecuteCauses
<1>5. ASSUME pv.redir PROVE c \in {"rvc_hold", "rvc_span", "redirect"}
  <2>1. ~de.valid /\ ~wfi_halt_q /\ post_redirect
    BY <1>5 DEF WiresRemembered
  <2>2. ~(c \in ExecuteCauses \ {"wfi"}) /\ ~wfi_stall
    BY <1>4, <2>1 DEF wfi_stall
  <2> QED
    BY <1>1, <2>1, <2>2 DEF ExecuteCauses
<1> QED
  BY <1>2, <1>3, <1>4, <1>5 DEF RightlyCharged, c

\* The harness only watches: its steps are edges of the stage.
LEMMA SimIsExec ==
  ASSUME [SimNext]_simVars
  PROVE  [ExecNext]_exVars
BY DEF SimNext, simVars, Edge, ExecNext

\* Every edge keeps what the harness relies on.
LEMMA WatchInvStep ==
  ASSUME StageInv, WatchInv, WFI_STUCK_N > 0, [SimNext]_simVars
  PROVE  WatchInv'
<1>1. ASSUME NEW i \in Inputs, Edge(i), Observe(i) PROVE WatchInv'
  BY <1>1, CountStep, RememberStep, WatchStep DEF Observe, WatchInv
<1>2. CASE UNCHANGED simVars
  BY <1>2 DEF simVars, harnessVars, exVars, csrVars, execVars, WatchInv, CountersExact,
     WiresRemembered, WakeWatched, Ones, int_pending
<1> QED
  BY <1>1, <1>2 DEF SimNext

\* What the harness knows in every reachable state, for both settings of
\* LSU_LIVE_LOAD.
LEMMA WatchInvariant ==
  ASSUME WFI_STUCK_N > 0
  PROVE  SimSpec => []StageInv /\ []WatchInv
<1>1. ExecInit /\ HarnessInit => StageInv /\ WatchInv
  <2> SUFFICES ASSUME ExecInit, HarnessInit PROVE WatchInv
    BY StageInit
  <2>1. ex_state_q = "EX_IDLE"
    BY DEF ExecInit
  <2>2. CountersExact
    BY <2>1 DEF HarnessInit, CountersExact, Ones
  <2>3. WiresRemembered /\ WakeWatched
    BY DEF HarnessInit, WiresRemembered, WakeWatched, Ones
  <2> QED
    BY <2>2, <2>3 DEF WatchInv
<1>2. StageInv /\ [SimNext]_simVars => StageInv'
  BY SimIsExec, StageStep
<1>3. StageInv /\ WatchInv /\ [SimNext]_simVars => WatchInv'
  BY WatchInvStep
<1> QED
  BY <1>1, <1>2, <1>3, PTL DEF SimSpec

\* The harness counts every load, store, divide, CSR access, branch and
\* redirect of the core once, and its check for a stuck WFI never fires, with
\* and without loads that launch from EX_IDLE.
THEOREM HarnessCounts ==
  ASSUME WFI_STUCK_N > 0
  PROVE  SimSpec => [](CountersExact /\ wfi.fail # "stuck")
<1>1. WatchInv => CountersExact /\ wfi.fail # "stuck"
  BY DEF WatchInv, WakeWatched
<1> QED
  BY WatchInvariant, <1>1, PTL

\* The report of a run is true, for every program, where every access is
\* captured (LSU_LIVE_LOAD clear): the counters are exact, every cycle without
\* a retirement is charged to what held the pipe, and no WFI is called stuck.
THEOREM HarnessIsExact ==
  ASSUME WFI_STUCK_N > 0, ~LSU_LIVE_LOAD
  PROVE  SimSpec => []HarnessExact
<1>1. ExecInit /\ HarnessInit => CyclesCharged
  BY DEF HarnessInit, CyclesCharged
<1>2. ASSUME StageInv, WatchInv, CyclesCharged, [SimNext]_simVars
      PROVE  CyclesCharged'
  <2>1. CASE UNCHANGED simVars
    BY <1>2, <2>1 DEF simVars, harnessVars, CyclesCharged
  <2>2. ASSUME NEW i \in Inputs, Observe(i) PROVE CyclesCharged'
    <3>1. \A fe \in FrontEnds : RightlyCharged(i, sc_this(i, fe))
      BY <1>2, ChargedRight DEF WatchInv
    <3>2. misplaced' = (misplaced \/ \E fe \in FrontEnds :
                          ~ex_valid /\ ~RightlyCharged(i, sc_this(i, fe)))
      BY <2>2 DEF Observe, ChargeCycle
    <3> QED
      BY <1>2, <3>1, <3>2 DEF CyclesCharged
  <2> QED
    BY <1>2, <2>1, <2>2 DEF SimNext
<1>3. WatchInv /\ CyclesCharged => HarnessExact
  BY DEF WatchInv, CountersExact, WakeWatched, HarnessExact
<1> QED
  BY WatchInvariant, <1>1, <1>2, <1>3, PTL DEF SimSpec
=============================================================================
