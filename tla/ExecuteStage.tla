---------------------------- MODULE ExecuteStage ----------------------------
(***************************************************************************)
(* The execute stage (core/execute_stage.sv): the EX FSM with the          *)
(* load/store unit, the divider and CSR wait states, branch resolution,    *)
(* precise traps, interrupts, mret and WFI, over the CSRs of CsrFile.      *)
(*                                                                         *)
(* One step is one clock edge.  Its inputs i are                           *)
(*   ready    the data ports ("d" D-mem, "p" peri) with wready high        *)
(*   rvalid   the data ports with rvalid high                              *)
(*   divdone  the divider's result_valid                                   *)
(*   taken, target   what the operands make of the branch in D/E           *)
(*   lines    the interrupt lines                                          *)
(*                                                                         *)
(* Data abstraction.  An instruction is its class: op, for a memory op     *)
(* whether its effective address is in the peri half (peri) and misaligned *)
(* (mis), and for a CSR op the access (csr).  The registered request       *)
(* (mem_addr_q, mem_wdata_q, mem_wstrb_q, mem_is_peri_q) is mem_q, which   *)
(* keeps the two address-derived bits and, as history, whether it still    *)
(* belongs to the instruction in D/E.                                      *)
(*                                                                         *)
(* The front end is the instruction stream of InstrStream: in program      *)
(* order, one at a time, possibly with gaps, from the last redirect or     *)
(* prediction.  What stands at a PC is not fixed: it is drawn when the     *)
(* instruction is handed over, which covers every program.                 *)
(***************************************************************************)
EXTENDS CsrFile, Sequences

CONSTANTS
  LSU_LIVE_LOAD,   \* may an aligned D-mem load launch from EX_IDLE?
  CsrOps,          \* the CSR accesses considered
  WFI_PAIRS        \* may a wfi directly follow a wfi in the program?

ASSUME ExecAssumption ==
  /\ LSU_LIVE_LOAD \in BOOLEAN
  /\ WFI_PAIRS \in BOOLEAN
  /\ CsrOps \subseteq
       [reg: {"mstatus"}, fn: {"rw", "rs", "rc"}, src: SUBSET {"MIE", "MPIE"}]
       \cup [reg: {"mie"}, fn: {"rw", "rs", "rc"}, src: SUBSET Sources]
       \cup [reg: {"mepc"}, fn: {"rw"}, src: 0 .. PC_SPACE - 1]

VARIABLES
  ex_state_q,
  mem_q,            \* the registered request: [peri, mis, own]
  wfi_halt_q,
  wfi_next_pc_q,
  de,               \* the D/E register: [valid, pc, ins, pred, ptarget]
  next_pc,          \* where the instruction stream stands
  read_owed,        \* ports that owe the data of an accepted read
  arch_pc,          \* history: PC of the next instruction to complete
  bus,              \* history: accesses the instruction in D/E made so far
  left              \* history: how an instruction left D/E in the last step

execVars == <<ex_state_q, mem_q, wfi_halt_q, wfi_next_pc_q>>
exVars == <<csrVars, execVars, de, next_pc, read_owed, arch_pc, bus, left>>

NoCsr == [reg |-> "none", fn |-> "rw", src |-> {}]
Plain(op) == [op |-> op, peri |-> FALSE, mis |-> FALSE, csr |-> NoCsr]
MemIns(op, p, m) == [Plain(op) EXCEPT !.peri = p, !.mis = m]
CsrIns(c) == [Plain("csr") EXCEPT !.csr = c]

\* alu stands for every single-cycle op, exc for every decode exception
\* (illegal, ecall, ebreak, instruction access fault).
Instructions ==
  {Plain(op) : op \in {"alu", "div", "branch", "exc", "mret", "wfi"}}
  \cup {MemIns(op, p, m) : op \in {"load", "store"}, p \in BOOLEAN, m \in BOOLEAN}
  \cup {CsrIns(c) : c \in CsrOps}

Bubble == [valid |-> FALSE, pc |-> 0, ins |-> Plain("alu"), pred |-> FALSE, ptarget |-> 0]

is(op) == de.valid /\ de.ins.op = op
is_mem_op == is("load") \/ is("store")
idle == ex_state_q = "EX_IDLE"

pc_link == PcPlus(de.pc, 1)

(***************************************************************************)
(* WFI freeze and trap triggers.                                           *)
(***************************************************************************)
wfi_stall == wfi_halt_q /\ ~int_pending
freeze == wfi_stall

\* Mutant: the memory op behind a waking WFI is not held back.
mem_req_pending_wake == is_mem_op /\ idle /\ ~freeze

mem_req_pending == is_mem_op /\ idle /\ ~freeze /\ ~wfi_halt_q

misaligned_trap ==
  IF LSU_LIVE_LOAD THEN de.valid /\ ex_state_q = "EX_MEM_TRAP"
  ELSE de.valid /\ ex_state_q = "EX_MEM_LAUNCH" /\ mem_q.mis

sync_trap_req == (is("exc") /\ ~freeze /\ idle) \/ misaligned_trap

mret_req == is("mret") /\ ~freeze /\ idle

normal_int_eligible ==
  de.valid /\ ~is("wfi") /\ ~is("exc") /\ ~is_mem_op /\ idle /\ ~freeze

\* Mutant: an interrupt outranks the exception in D/E.
take_interrupt_first ==
  int_pending /\ ~mret_req /\ (normal_int_eligible \/ wfi_halt_q \/ is("exc"))

\* Mutant: an interrupt is taken from a WFI only.
take_interrupt_wfi_only ==
  int_pending /\ ~sync_trap_req /\ ~mret_req /\ wfi_halt_q

take_interrupt ==
  int_pending /\ ~sync_trap_req /\ ~mret_req /\ (normal_int_eligible \/ wfi_halt_q)

trap_redirect_req == sync_trap_req \/ mret_req \/ take_interrupt

\* Mutant: the WFI wake saves the PC of whatever is in D/E.
trap_mepc_de == de.pc

trap_mepc == IF wfi_halt_q THEN wfi_next_pc_q ELSE de.pc

wfi_retire == is("wfi") /\ idle /\ ~trap_redirect_req

next_wfi_halt == wfi_retire \/ (wfi_halt_q /\ ~int_pending)

(***************************************************************************)
(* Load/store unit.                                                        *)
(***************************************************************************)
mem_misaligned_launch == LSU_LIVE_LOAD /\ mem_req_pending /\ de.ins.mis

dmem_load_drive ==
  LSU_LIVE_LOAD /\ mem_req_pending /\ ~de.ins.mis /\ ~de.ins.peri /\ is("load")

mem_capture == mem_req_pending /\ ~dmem_load_drive /\ ~mem_misaligned_launch

\* Mutant: a captured misaligned access is driven while it traps.
captured_drive_misaligned == ex_state_q = "EX_MEM_LAUNCH" /\ de.valid

captured_drive == ex_state_q = "EX_MEM_LAUNCH" /\ de.valid /\ ~misaligned_trap

\* The port the registered target bit selects.
lsu_port == IF mem_q.peri THEN "p" ELSE "d"

dmem_load_hs(i) == dmem_load_drive /\ "d" \in i.ready
captured_hs(i) == captured_drive /\ lsu_port \in i.ready

\* Mutant: the answer is awaited on the D-mem port whatever the target was.
mem_done_dmem(i) == ex_state_q = "EX_MEM_WAIT" /\ "d" \in i.rvalid

mem_done(i) == ex_state_q = "EX_MEM_WAIT" /\ lsu_port \in i.rvalid
store_done(i) == captured_hs(i) /\ is("store")
mem_op_done(i) == IF is("load") THEN mem_done(i) ELSE store_done(i)

\* The access a slave accepts at this edge: its port, and whether it writes.
accept(i) ==
  IF dmem_load_hs(i) THEN <<[port |-> "d", we |-> FALSE]>>
  ELSE IF captured_hs(i) THEN <<[port |-> lsu_port, we |-> is("store")]>>
  ELSE << >>

launched_reads(i) ==
  IF dmem_load_hs(i) THEN {"d"}
  ELSE IF captured_hs(i) /\ is("load") THEN {lsu_port} ELSE {}

\* The port whose read data is taken.
rready == IF ex_state_q = "EX_MEM_WAIT" /\ is("load") THEN {lsu_port} ELSE {}

(***************************************************************************)
(* FSM, stall and retirement.                                              *)
(***************************************************************************)
alu_start == is("div") /\ idle /\ ~freeze /\ ~trap_redirect_req
\* Mutant: a CSR op starts although it is being squashed.
csr_start_squashed == is("csr") /\ idle /\ ~freeze

csr_start == is("csr") /\ idle /\ ~freeze /\ ~trap_redirect_req
csr_ready == ex_state_q = "EX_CSR_WAIT"

stall_o(i) ==
  \/ alu_start
  \/ ex_state_q = "EX_DIV_BUSY" /\ ~i.divdone
  \/ (mem_req_pending \/ ex_state_q = "EX_MEM_LAUNCH") /\ ~store_done(i)
  \/ ex_state_q = "EX_MEM_TRAP"
  \/ ex_state_q = "EX_MEM_WAIT" /\ ~mem_done(i)
  \/ csr_start
  \/ wfi_stall

next_state(i) ==
  CASE idle ->
         IF alu_start THEN "EX_DIV_BUSY"
         ELSE IF mem_misaligned_launch THEN "EX_MEM_TRAP"
         ELSE IF mem_capture THEN "EX_MEM_LAUNCH"
         ELSE IF dmem_load_hs(i) THEN "EX_MEM_WAIT"
         ELSE IF csr_start THEN "EX_CSR_WAIT" ELSE "EX_IDLE"
    [] ex_state_q = "EX_MEM_LAUNCH" ->
         IF misaligned_trap THEN "EX_IDLE"
         ELSE IF captured_hs(i)
              THEN (IF is("load") THEN "EX_MEM_WAIT" ELSE "EX_IDLE")
              ELSE "EX_MEM_LAUNCH"
    [] ex_state_q = "EX_DIV_BUSY" ->
         IF i.divdone THEN "EX_IDLE" ELSE "EX_DIV_BUSY"
    [] ex_state_q = "EX_MEM_WAIT" ->
         IF mem_done(i) THEN "EX_IDLE" ELSE "EX_MEM_WAIT"
    [] OTHER -> "EX_IDLE"   \* EX_CSR_WAIT, EX_MEM_TRAP

result_ready(i) ==
  IF is_mem_op THEN mem_op_done(i)
  ELSE IF is("csr") THEN csr_ready
  ELSE is("div") => (ex_state_q = "EX_DIV_BUSY" /\ i.divdone)

retires(i) == de.valid /\ ~freeze /\ result_ready(i) /\ ~trap_redirect_req

(***************************************************************************)
(* Branch resolution against the prediction decode acted on.               *)
(***************************************************************************)
cf_resolving == is("branch") /\ ~freeze /\ ~trap_redirect_req

mispredict(i) ==
  /\ cf_resolving
  /\ (de.pred # i.taken) \/ (de.pred /\ i.taken /\ i.target # de.ptarget)

branch_addr(i) == IF i.taken THEN i.target ELSE pc_link

(***************************************************************************)
(* The clock edge, in parts.                                               *)
(***************************************************************************)
\* Decode keeps D/E, or hands over the instruction at next_pc, or nothing.
\* A prediction is made only for control flow; what follows an exception
\* is never used.
MayFollow(ins) ==
  ins.op = "wfi" => (WFI_PAIRS \/ ~(wfi_halt_q \/ is("wfi")))

HandOver(ins, pred, t) ==
  /\ MayFollow(ins)
  /\ de' = [valid |-> TRUE, pc |-> next_pc, ins |-> ins, pred |-> pred, ptarget |-> t]
  /\ next_pc' = IF pred THEN t ELSE PcPlus(next_pc, 1)

Gap == de' = Bubble /\ UNCHANGED next_pc

Decode(i) ==
  \/ stall_o(i) /\ UNCHANGED <<de, next_pc>>
  \/ ~stall_o(i) /\ Gap
  \/ ~stall_o(i) /\ \E ins \in Instructions : HandOver(ins, FALSE, 0)
  \/ ~stall_o(i) /\ \E t \in Pcs : HandOver(Plain("branch"), TRUE, t)

Flush(t) == de' = Bubble /\ next_pc' = t

\* The registered request; it belongs to D/E until D/E moves on.
next_mem_q(i) ==
  IF mem_req_pending THEN [peri |-> de.ins.peri, mis |-> de.ins.mis, own |-> TRUE]
  ELSE [mem_q EXCEPT !.own = @ /\ stall_o(i) /\ ~trap_redirect_req]

\* The registers that every edge updates.
Tick(i) ==
  /\ CsrTick(i.lines, IF de.valid THEN de.ins.csr.reg ELSE "none")
  /\ ex_state_q' = next_state(i)
  /\ mem_q' = next_mem_q(i)
  /\ wfi_halt_q' = next_wfi_halt
  /\ wfi_next_pc_q' = IF wfi_retire THEN pc_link ELSE wfi_next_pc_q
  /\ read_owed' = (read_owed \ (i.rvalid \cap rready)) \cup launched_reads(i)

\* The accesses an instruction may retire with; none if it must trap.
AccessesOf(ins) ==
  IF ins.op = "exc" \/ ins.mis THEN {}
  ELSE IF ins.op \in {"load", "store"}
  THEN {<<[port |-> IF ins.peri THEN "p" ELSE "d", we |-> ins.op = "store"]>>}
  ELSE {<< >>}

\* History: nothing leaves D/E, or its instruction leaves with the accesses
\* it made.
NobodyLeft == [how |-> "none", due |-> {<< >>}, bus |-> << >>]
Stays(i) ==
  /\ left' = NobodyLeft
  /\ bus' = bus \o accept(i)
Leaves(i, how) ==
  /\ left' = [how |-> how, bus |-> bus \o accept(i),
              due |-> IF how = "commit" THEN AccessesOf(de.ins) ELSE {<< >>}]
  /\ bus' = << >>

(***************************************************************************)
(* One action per thing that can happen at an edge.                        *)
(***************************************************************************)
SyncTrap(i) ==
  /\ sync_trap_req
  /\ Tick(i)
  /\ CsrEntry(trap_mepc)
  /\ Flush(trap_target)
  /\ arch_pc' = trap_target
  /\ Leaves(i, "trap")

Interrupt(i) ==
  /\ take_interrupt
  /\ Tick(i)
  /\ CsrEntry(trap_mepc)
  /\ Flush(int_target)
  /\ arch_pc' = int_target
  /\ Leaves(i, "int")

Mret(i) ==
  /\ mret_req
  /\ Tick(i)
  /\ CsrMret
  /\ Flush(mepc)
  /\ arch_pc' = mepc
  /\ Leaves(i, "commit")

\* A branch that must redirect.
Mispredict(i) ==
  /\ mispredict(i)
  /\ Tick(i)
  /\ CsrHold
  /\ Flush(branch_addr(i))
  /\ arch_pc' = IF i.taken THEN i.target ELSE PcPlus(arch_pc, 1)
  /\ Leaves(i, "commit")

\* Any other instruction that retires, a correctly predicted branch included.
Retire(i) ==
  /\ retires(i)
  /\ ~mispredict(i)
  /\ Tick(i)
  /\ IF is("csr") THEN CsrWrite(de.ins.csr) ELSE CsrHold
  /\ Decode(i)
  /\ arch_pc' = IF is("branch") /\ i.taken THEN i.target ELSE PcPlus(arch_pc, 1)
  /\ Leaves(i, "commit")

\* No instruction completes.
Wait(i) ==
  /\ ~trap_redirect_req
  /\ ~retires(i)
  /\ Tick(i)
  /\ CsrHold
  /\ Decode(i)
  /\ UNCHANGED arch_pc
  /\ Stays(i)

(***************************************************************************)
(* Inputs, given only where some wire reads them: a slave answers only a   *)
(* read it owes, and never in the cycle that accepts it.                   *)
(***************************************************************************)
Ports == {"d", "p"}
Inputs ==
  [ready: IF dmem_load_drive \/ captured_drive THEN SUBSET Ports ELSE {{}},
   rvalid: SUBSET read_owed,
   divdone: IF ex_state_q = "EX_DIV_BUSY" THEN BOOLEAN ELSE {FALSE},
   taken: IF cf_resolving THEN BOOLEAN ELSE {FALSE},
   target: IF cf_resolving THEN Pcs ELSE {0},
   lines: SUBSET Sources]

ExecInit ==
  /\ CsrReset
  /\ ex_state_q = "EX_IDLE"
  /\ mem_q = [peri |-> FALSE, mis |-> FALSE, own |-> FALSE]
  /\ wfi_halt_q = FALSE
  /\ wfi_next_pc_q = 0
  /\ de = Bubble
  /\ next_pc = 0
  /\ read_owed = {}
  /\ arch_pc = 0
  /\ bus = << >>
  /\ left = NobodyLeft

ExecNext ==
  \/ \E i \in Inputs : SyncTrap(i)
  \/ \E i \in Inputs : Interrupt(i)
  \/ \E i \in Inputs : Mret(i)
  \/ \E i \in Inputs : Mispredict(i)
  \/ \E i \in Inputs : Retire(i)
  \/ \E i \in Inputs : Wait(i)

ExecSpec == ExecInit /\ [][ExecNext]_exVars

-----------------------------------------------------------------------------
States == {"EX_IDLE", "EX_MEM_LAUNCH", "EX_MEM_TRAP", "EX_DIV_BUSY",
           "EX_MEM_WAIT", "EX_CSR_WAIT"}
Accesses == [port: Ports, we: BOOLEAN]

\* Types of the registers and of the histories.
ExecTypeOK ==
  /\ mstatus \subseteq MStatusBits /\ mie \subseteq Sources /\ mip \subseteq Sources
  /\ mepc \in Pcs
  /\ csr_rdata_q \subseteq MStatusBits \cup Sources
  /\ ex_state_q \in States
  /\ mem_q \in [peri: BOOLEAN, mis: BOOLEAN, own: BOOLEAN]
  /\ wfi_halt_q \in BOOLEAN /\ wfi_next_pc_q \in Pcs
  /\ de \in [valid: BOOLEAN, pc: Pcs, ins: Instructions, pred: BOOLEAN, ptarget: Pcs]
  /\ next_pc \in Pcs /\ arch_pc \in Pcs
  /\ read_owed \subseteq Ports
  /\ bus \in Seq(Accesses)
  /\ left.how \in {"none", "commit", "trap", "int"}
  /\ left.bus \in Seq(Accesses)

(***************************************************************************)
(* Precise traps.  Instructions complete exactly in program order, and a   *)
(* trap or an interrupt, wherever it strikes -- between two instructions,  *)
(* in the extra cycle of a misaligned access, on a WFI wake with another   *)
(* instruction already in D/E -- saves the PC of the first instruction     *)
(* that has not completed.                                                 *)
(***************************************************************************)
PreciseTraps ==
  [][ /\ left'.how = "commit" => de.pc = arch_pc
      /\ left'.how \in {"trap", "int"} => mepc' = arch_pc ]_exVars

\* A WFI halt never outlives its WFI: while it is on, no trap has been entered
\* since and the wake PC is that of the next instruction.
HaltIsCurrent == wfi_halt_q => wfi_next_pc_q = arch_pc /\ idle

\* A read is owed exactly while a load waits for it, by the port it waits on.
ReadsOwed ==
  read_owed = IF ex_state_q = "EX_MEM_WAIT" /\ is("load") THEN {lsu_port} ELSE {}

(***************************************************************************)
(* Bus accesses are exact.  A load or store that retires was accepted once,*)
(* by the slave its address selects; an instruction that traps or is       *)
(* squashed by an interrupt reached no slave, so its re-execution cannot   *)
(* repeat a side effect; an exception or a misaligned access never retires;*)
(* and a response of the other port can neither retire a load nor be left  *)
(* behind for the next one.                                                *)
(***************************************************************************)
AccessesExact == left.bus \in left.due /\ ReadsOwed

(***************************************************************************)
(* Every multi-cycle state has its owner in D/E (the assertions on the LSU *)
(* states in execute_stage.sv): the instruction is still there, the        *)
(* registered request is its own, no WFI freeze is on -- a trap raised     *)
(* from EX_MEM_TRAP under a freeze would be lost -- and the CSR value read *)
(* a cycle ago is still the current one, so the read-modify-write loses no *)
(* update.  A WFI halt belongs to the last WFI: one left on in a trap      *)
(* handler would freeze the pipe with interrupts masked, the deadlock      *)
(* described at wfi_halt_d.                                                *)
(***************************************************************************)
StateHasOwner ==
  /\ ex_state_q \in {"EX_MEM_LAUNCH", "EX_MEM_WAIT", "EX_MEM_TRAP"} =>
       /\ is_mem_op /\ mem_q.own
       /\ mem_q.peri = de.ins.peri /\ mem_q.mis = de.ins.mis
  /\ ex_state_q = "EX_DIV_BUSY" => is("div")
  /\ ex_state_q = "EX_CSR_WAIT" =>
       is("csr") /\ csr_rdata_q = CsrValue(de.ins.csr.reg)
  /\ ex_state_q # "EX_IDLE" => ~wfi_halt_q
  /\ HaltIsCurrent

(***************************************************************************)
(* What the front end relies on: an exception in D/E is held until it      *)
(* traps, also when a WFI wake, an interrupt or an mret competes with it.  *)
(***************************************************************************)
FaultNeverPasses ==
  [][ is("exc") => (de' = de \/ left'.how = "trap") ]_exVars

(***************************************************************************)
(* Fairness.  The clock keeps running (every step is one edge), the slaves *)
(* and the divider do not refuse for ever, the front end does not starve   *)
(* execute, and a program does not consist of memory accesses and mrets    *)
(* only.                                                                   *)
(***************************************************************************)
Edge(i) ==
  SyncTrap(i) \/ Interrupt(i) \/ Mret(i) \/ Mispredict(i) \/ Retire(i) \/ Wait(i)

EdgeObliging ==
  \E i \in Inputs :
    /\ dmem_load_drive \/ captured_drive => i.ready = Ports
    /\ i.rvalid = read_owed
    /\ ex_state_q = "EX_DIV_BUSY" => i.divdone
    /\ Edge(i)

EdgeOrdinary == EdgeObliging /\ de'.valid /\ de'.ins.op \in {"alu", "branch", "div"}

ExecLive == ExecSpec /\ WF_exVars(EdgeObliging) /\ SF_exVars(EdgeOrdinary)

(***************************************************************************)
(* An enabled pending interrupt is taken, unless software masks it or the  *)
(* source withdraws it; no stall, wait state or WFI wake can hold it off.  *)
(***************************************************************************)
InterruptTaken == int_pending ~> ~int_pending

(***************************************************************************)
(* Execute never hangs: instructions keep leaving it, or it sits in a WFI  *)
(* for which no enabled interrupt is pending.                              *)
(***************************************************************************)
Progress == []<>(left.how # "none" \/ wfi_stall)
=============================================================================
