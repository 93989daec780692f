# A TLA+ model of the yarv-uc core

yarv-uc is a microcontroller around a three-stage, in-order RV32IMAC core in
SystemVerilog (`src/src/rtl`), with a Verilator harness, test benches and the
programs it runs in C and C++ (`src/sim`).  This directory holds TLA+ modules for
the parts of it that keep state and race with each other, TLC configurations that
check them on small instances, and TLAPS proofs of what matters most for every
instance.  Paths below are relative to the repository root.

One step of a hardware model is **one clock edge**.  Combinational wires are
operators over the registers and the inputs sampled at that edge, and keep the
names they have in the source (`bus_issue`, `take_fault`, `wfi_retire` ...).
Concurrency here is that of hardware: every register updates at the same edge,
and what interleaves are the *inputs* of that edge -- a redirect, a stall, a
response, a ready, an interrupt line.  TLC explores every combination.

One step of a program's model is **one pass of a loop, one call or one access to
shared state**, so that an interrupt, a key or a peripheral's step falls between
any two of them.  C names are kept the same way.

## 1. Inventory

| Component | Source | State | Operations per edge | Talks to |
|---|---|---|---|---|
| Fetch stage | `core/fetch_stage.sv` | `pc_q`, `req_pc_q`, `inflight_q`, `stale_q`, `redir_launched_q`, instruction buffer | redirect (execute, predicted), issue a read, accept / drop / split a response, push a fault entry, pop one or two | I-mem (native request), decode (head, head+1, stall, pop2), execute (redirect) |
| Instruction buffer | same | depth-8 ring, `head_q`, `tail_q`, `count_q` | push 0..2, pop 0..2, clear | part of fetch |
| Native RAM | `utils/native_ram.sv` | array, landing register, skid FIFO | accept read / write, land, store, pop | fetch (I-mem), LSU (D-mem) |
| Decode stage | `core/decode_stage.sv` | RVC hold buffer, D/E register | select source, stitch, stash, predict, stall, flush | fetch, predictor, register file, execute |
| Branch predictor | `core/branch_predictor.sv` | PHT, GHR, return-address stack | lookup at push, train, push / pop RAS | fetch, decode, execute |
| Execute stage | `core/execute_stage.sv` | EX FSM, LSU request registers, WFI halt, wake PC | launch / wait for memory, divide, CSR read-modify-write, resolve branch, trap, interrupt, mret, WFI | decode, D-mem, peripheral port, CSRs, trap unit |
| ALU / divider | `core/alu.sv` | divider FSM, shift register | start, iterate, done | execute |
| Trap unit | `core/trap_unit.sv` | none | pending / cause, target, mstatus stacking | execute, CSRs |
| CSR file | `core/csr_regfile.sv` | machine CSRs, registered read | read, write, trap entry, mret, count | execute, trap unit, interrupt lines |
| Register file | `core/reg_file.sv` | 31 registers | write, read | decode, execute |
| AXI bridge | `bus/axi4_lite_master_bridge.sv` | 7-state FSM, request latch | accept, retry AW / W / AR, return R / B | LSU peripheral port, crossbar |
| Crossbars | `bus/axi4_lite_xbar*.sv` | busy and select per direction, error terminator | route, terminate unmapped | bridge, peripherals |
| MSIP, CLINT timer, UART, AXI RAM | `utils/*.sv` | registers, counters, FIFOs | register read / write, raise interrupt | crossbar, CSRs |
| Simulation harness | `sim/sim_main.cpp` | event counters, stall histogram, redirect flag, WFI watch | sample wires before and registers after each edge, count, charge, watch | every stage (reads only) |
| UART stimulus | same, `UartRxDriver` | position in string, frame, gap | drive one line level per cycle, hold off while the FIFO is full | UART receive pin |
| RAM benches | `sim/hw/native_mem_tb`, `native_ram64_tb` | shadow memory, failure count | bus calls with held RREADY and time-outs | native RAM |
| UART oracle | `sim/sw/peri/uart_echo/uart_echo.c`, `sw/common/uart.h` | counters shared with its trap handler | poll, enable, spin, sleep, echo from the handler | UART, MSIP, CSRs, WFI |
| YarvMon | `sim/sw/yarvmon/yarvmon.c` | line buffer, examine and store address | edit a line, parse it, examine, deposit, run | UART, memory |
| SHA-256 shell | `sim/sw/sha256/sha256.c` | line, hash state, block | edit a line, hash, print | UART |
| Quicksort | `sim/sw/quicksort/main.c` | array, stack | fill, sort, verify | memory |
| C library | `sim/sw/common/ee_printf.c`, `dhrystone/dhry_portme.c` | heap mark, digit buffer | printf, strcpy, memset, memcpy, malloc | benchmarks |
| Benchmark ports | `coremark/core_portme.c`, `dhrystone/dhry_portme.c` | begin and end times, mtvec | time a region, report, restart or park on a trap | mcycle, traps |
| CoreMark list kernel | `coremark/eembc/core_list_join.c` | linked list in a static block | build, find, reverse, sort, remove, undo | -- |
| CPU top, board top | `core/rv32imac_zicsr_zifencei.sv`, `core/top_module.sv` | none | wiring, parameters | all |

The behaviours that are hard here, and what correctness means for each:

* **Redirects racing the fetch pipeline.**  A redirect kills reads in flight,
  may launch one of its own in the same cycle, and meets a response, a push and
  a pop in that cycle.  Correct: the words handed to decode are exactly the
  program from the last target on, each once, stamped with its own PC.
* **Room accounting.**  Reads reserve buffer space before their answers exist;
  `available` is unsigned.  Correct: no overflow, and every answer is taken.
* **Variable-length parse.**  16- and 32-bit instructions, spanning words,
  through a one-halfword stash, under stalls, faults and predictions.
  Correct: decode implements the parse of the memory.
* **Precise traps.**  Exceptions, misaligned accesses, mret, interrupts and WFI
  wake compete.  Correct: instructions complete in order, `mepc` is the first
  one that did not complete, a squashed instruction has touched no slave.
* **Multi-cycle execute states.**  Loads, stores, divides and CSR accesses span
  cycles in which D/E, the halt flag or a CSR might change under them.
* **Liveness.**  Interrupts are accepted at few points; WFI freezes the pipe.
* **A main loop and its trap handler.**  They share counters, the UART and its
  FIFOs, and stores to peripherals complete late.  Correct: bytes are echoed
  once and in order, what the program prints of its probes is true, and it ends.
* **Observers.**  The harness infers events from wires and a stimulus infers room
  from a flag.  Correct: counts and causes are those of the instructions that
  completed; a paced string never overruns.
* **Boundaries in the C code.**  A padding that just fits, a terminator anywhere
  in a word, a counter that wraps in the timed region, a heap that is just full,
  a list cut and mended around a sort in place.

`PROJECT.json` lists the hazards at their lines with the properties that
cover them.

## 2. Modules

| Module | Models | Kind |
|---|---|---|
| `FetchStage` | all of `fetch_stage.sv`, buffer as a queue, any in-order memory | component |
| `NativeRam` | `native_ram.sv`, both instantiations | component |
| `FetchUnit` | `FetchStage` wired to a `NativeRam` as in `top_module.sv` | composition |
| `FetchQueue` | what the instruction buffer promises | abstract |
| `FetchBuffer` | the ring as built; refines `FetchQueue` | component |
| `DecodeStage` | parse, stash, fault priority, D/E of `decode_stage.sv` | component |
| `InstrStream` | what the front end promises to execute | abstract |
| `FrontEnd` | `FetchUnit` + `DecodeStage`; refines `InstrStream` | composition |
| `CsrFile` | trap state of `csr_regfile.sv` with `trap_unit.sv` | component |
| `ExecuteStage` | `execute_stage.sv` over `CsrFile`, fed by an instruction stream | component |
| `PeriPort` | what the LSU is promised on its peripheral port | abstract |
| `PeriBus` | `axi4_lite_master_bridge.sv`, `axi4_lite_xbar_3.sv` and three slaves; refines `PeriPort` | composition |
| `ClintTimer` | counter and compare of `clint_timer.sv`, with the software that moves the deadline | component |
| `Uart` | all of `axi4_lite_uart.sv` | component |
| `UartLine` | `Uart` with a bus master and a serial line | composition |
| `UartRxDriver` | `UartLine` with the harness's stimulus at the far end, or the loop | composition |
| `Divider` | the iterative divider of `alu.sv` | component |
| `BranchPredictor` | `branch_predictor.sv` | component |
| `RamBench` | the three builds of `NativeRam` under any master or under the two benches | composition |
| `LeafUnits` | ring, timer, divider, predictor and RAM side by side | for one run |
| `SimHarness` | the main loop of `sim_main.cpp` around `ExecuteStage` | composition |
| `Image` | `start.S` and what the programs share: which is loaded, the statement next | component |
| `UartEcho` | `uart_echo.c` and `uart.h`, with the interrupts and peripherals they meet | composition |
| `YarvMon`, `Sha256`, `Quicksort`, `CLib`, `BenchPort`, `CoreList` | the programs of those names | components |
| `Firmware` | the image is one of these programs | for one run |
| `MC*` | constants for TLC | model checking |
| `FrontEndProofs` | theorems of `FetchStage`, `FetchUnit` and `FrontEnd` | proofs |
| `ExecuteStageProofs` | theorems of `ExecuteStage` and `SimHarness` | proofs |
| `PeriBusProofs` | theorems of `PeriBus` | proofs |
| `LeafUnitsProofs` | theorems of `FetchBuffer`, `ClintTimer`, `BranchPredictor`, `Divider`, `NativeRam` and `RamBench` | proofs |
| `UartProofs` | theorems of `Uart`, `UartLine` and `UartRxDriver` | proofs |
| `FirmwareProofs` | theorems of `UartEcho`, `Quicksort`, `BenchPort` and `CoreList` | proofs |
| `MonitorProofs` | theorems of `YarvMon`, `Sha256` and `CLib` | proofs |
| `Induction` | induction and recursion over the natural numbers, in a form the provers can use | proofs |

**FetchStage.**  A 64-bit block and a 32-bit word are named by their byte
address, so a buffer entry says which word was *really* read next to the PC it
is *stamped* with; the two differ if the code goes wrong.  `Redirect` is the
`if (redirect)` branch and `Advance` the `else` branch of the next-state block;
`BusUpdate` is the code below both.  `owed` is a history variable: the reads
the memory still has to answer, and whether the last redirect left them alive.
The memory answers in order after any delay; decode pops two only when it sees
two.

**NativeRam.**  `RamCycle` is the sequential block; `skid_q` with `count_q` is
a sequence.  `answers` is a history of the words accepted reads are owed.

**FetchUnit** replaces the arbitrary memory by the real one and shows that it is
a special case (`UnitImplementsFetch`).  The single PC register `req_pc_q` is
correct only with this memory, so `StampsTrue` belongs here.

**DecodeStage.**  A halfword is its address, and `prog` says which halfwords open
a 32-bit instruction.  Whether an instruction is a predicted-taken jump, and
to where, is an input: any instruction may be one.  A direction bit is named by
the halfword it was looked up for.

**FrontEnd** lets execute stall or redirect at any edge, except that it never
lets an access fault pass (which `ExecuteStage` shows: `FaultNeverPasses`).
`InstrStream` parses the memory from the last target; the refinement mapping
reads its position off the stash, the buffer, the reads in flight and `pc_q`,
in this order.

**ExecuteStage.**  An instruction is its class.  What stands at a PC is drawn
when it is handed over, so one run covers every program, loops with changing
code included.  Slaves accept and answer at any time.  Each edge is one of
`SyncTrap`, `Interrupt`, `Mret`, `Mispredict`, `Retire` and `Wait`; their guards
are the wires of the same meaning and exclude each other.  `arch_pc` (next
instruction to complete), `bus` (accesses of the instruction in D/E) and `left`
(how an instruction left) are histories.  `stall_i` of execute is tied to 0 in
the CPU top and is left out.  mtvec is a constant: software sets it up
once.  mcause and mtval are written with mepc and read by nothing in the core.

**PeriBus.**  A slave is the handshake that `msip_peri.sv`, `clint_timer.sv`,
`axi4_lite_uart.sv` and `axi4_lite_ram.sv` write alike: two held write phases,
one pending B, one pending R.  The decode-error terminator of the crossbar is
the fourth port, `NoMatch`.  In each cycle the slaves may refuse phases and
delay a commit as they like, which includes the UART's hold and reaches every
state of the bridge.  The refinement mapping reads the access under way off the
bridge's state and latch, and "performed" off the answer that some port holds.

**ClintTimer.**  A word has `H` values instead of 2^32.  The three stores of the
sequence in the module's header come at any time, with stray stores to the
read-only counter between them.

**Uart, UartLine.**  Both engines run bit by bit, with `NBITS` data bits; a
pointer has its wrap bit.  `UartLine` adds a master that behaves as the bus bridge
and a line that sends the UART's own output back to it, with single-cycle pulses
while there is nothing to send.  Its histories are the bytes still to come back
(`owed`), the bytes received and unread (`waiting`), a loss since the last read
(`lost`), the divisor last written (`written`) and for how long the write at hand
has waited (`held`).

**UartRxDriver.**  The far end of the line is the loop, or the driver, paced or
free; `Rest`, `StartFrame` and `Ship` are the three ways out of its `step`.

**Divider.**  Operation and operands are drawn at the start and held, as execute
holds them.  A word has `XLEN` bits; the registers are those of the source, with
the double-width `div_rem_q` as its two halves.  The reference is signed integer
division rounded to zero with the ISA's answers for a zero divisor and overflow.

**BranchPredictor.**  An index is the set of its one bits, so that the exclusive
or of PC and history is a symmetric difference.  `callers` is the unbounded
stack of return addresses the circular one approximates.  A call and a return are
not trained in one cycle: execute tells them apart by the destination register.

**RamBench.**  Each bus call of the benches is a sequence of edges with its
guard; the scripts' calls come in any order, with any word, lane and delay.  A
read's value is compared with a shadow memory, as the expected values of the
scripts are.

**SimHarness.**  A counter is kept as its difference from the number of
instructions of its kind that have completed, so the state space stays finite.
What decode and fetch show is arbitrary: it matters only as a competing cause.

**UartEcho.**  `pc` names the statement that runs next; a string is one token on
the line.  A store is posted and delays the next peripheral access; the CPU takes
an interrupt at the latest in front of an instruction that is not a memory access,
which is what `ExecuteStage` shows.  `stray` lets one fetch of main return garbage
again and again, the fault the handler's fourth-bad-trap exit is for; `Strays` says at
which statements.  Until `uart_echo.c:270` `mtvec` is 0 from reset, so a trap in one of
the statements of `Unvectored` does not enter the handler but starts the program again
at `_start`.  The peripherals with their FIFOs and the counters, which are in `.data`,
stay as they are; a byte read and not yet echoed is forgotten and noted in `lost`.  Each
start chooses `stray` anew, so a fault may go away with the restart or come for ever.
The run tries strays before the polled read, with a byte in hand, at the write of
`mtvec` itself, behind it, and behind the verdict.

Comments in `link.ld:38`, `uart_echo.c:52` and `quicksort/main.c:22,43` say that nothing
clears `.bss`; `start.S:24-41` does, and the modules follow the code.  It makes no
difference to these two programs, whose state is in `.data`.

**YarvMon.**  A digit has `BASE` values and an address `DIGITS` digits; everything
else (wrap of addresses, bytes of two digits) follows.  The reference meaning of a
line, `LineMeans`, works token by token on the whole line.

**Sha256** has the real width.  The digest of one text is compared with the
published one; the padding and the blocks fed with the standard's, for every length
on either side of a boundary.

**CLib.**  A caller makes one call after another.  `Legal` is what C asks of it: memory
of its own, a terminated source, places that do not overlap, an argument for every
directive, a format that means what the caller meant by it and does not end inside a
directive (the code would read past its terminator), and of `malloc` a size that keeps
`n + 3 + HEAP_BYTES` below the range of a long.  The two sums of `malloc` are those of
the code, modulo that range (`dhry_portme.c:94-95`): beyond the bound they wrap, and the
code hands out memory the heap does not have where it should return 0.  The run asks for
the largest size that is legal, and Dhrystone for two records.  What a format means
is `ReadUpTo`, a function along its characters; a number's digits are `DigitsOf`, from
the first, where the code makes them from the last.  `DigitsFit` asks that the digits
of a long fit the two buffers.  TLC evaluates `CallsLegal` and `DigitsFit` for the
calls and the sizes of the run.

**CLib, BenchPort, CoreList, Quicksort** take the sizes of bytes, words, buffers
and arrays as constants; the arithmetic is that of the source modulo those.  Of
`CoreList`, `ListAssumption` says that a rebuild value is a byte and that the indices of
the items stay below the tail's, 0x7fff.  `IndexItems` gives the items distinct indices
other than the head's, 0: in the 2000 bytes of the default build the pattern of
`core_list_init` does so for the seeds 0, 0x3415 and 8 of a performance, a validation and
a profile run.  With 6000 bytes and seed 8 two items share an index; that build is not
covered.

## 3. Runs

| Run | Question |
|---|---|
| `fetch_unit` | On the real memory, does fetch keep its room accounting and stale count, take every response, and is the stream of words complete, in order and correctly stamped, with `EXEC_REDIR_INCYCLE` set? Is the real memory a case of the arbitrary one of `FetchStage`? |
| `front_end` | Do fetch, memory and decode implement the instruction stream, with the right prediction bit, without starving execute, in the default build (`EXEC_REDIR_INCYCLE` clear)? |
| `execute_live_load` | Are traps precise, bus accesses exact, and does every wait state and every halt have its owner, with `LSU_LIVE_LOAD` set? |
| `execute_captured_live` | With `LSU_LIVE_LOAD` clear, are the accesses exact, is a pending interrupt taken, does execute keep going, and is the harness's report of it true? |
| `uart_loopback` | Is every frame on the line the oldest byte written, while the divisor changes and both FIFOs fill; is a held write bounded; is the receive ring the queue of unread bytes, with overruns exact? And does the harness's stimulus deliver its string, paced or not? |
| `peri_bus` | Do bridge, crossbar and slaves implement the peripheral port, leave nothing behind, and end every access? |
| `leaf_units` | Is the ring a queue, the timer interrupt the delayed full compare, the divider the ISA's division, the predictor's stack the newest callers and its pair lookup the single one, the RAM exact in its three builds, and do its benches pass? |
| `firmware` | Do the programs do what they are for, from every input in the bounds and with interrupts anywhere? |
| `execute_wfi_pair` | (violation) Are traps precise when a wfi directly follows a wfi? |
| `uart_baud` | (violation) Does every BAUDDIV write take effect, as the header says? |
| `harness_live_load` | (violation) Is every stall of execute charged to execute, as the comment says? |
| `uart_echo_sleep` | (violation) Does the UART oracle always write its result marker? |

`leaf_units` and `firmware` each hold several systems that share no state: a
variable that never changes says which one a behaviour is of, and each branch is
explored in full.

What the violation runs show:

* `wfi_retire` does not look at `freeze`.  With two wfi in a row the second,
  frozen in D/E, overwrites the wake PC of the first, and the interrupt resumes
  behind an instruction that never completed.  All other runs of execute exclude
  a wfi directly behind a wfi (`WFI_PAIRS = FALSE`) so that this one pattern does
  not hide others.
* A BAUDDIV write that commits in the one cycle in which an earlier pending
  divisor is applied loses its pending bit: `axi4_lite_uart.sv:352` clears it
  after line 341 has set it.  The divisor in `div_pending_q` is then never
  applied, though the header says a write takes effect once both engines are
  idle.  Two writes during one frame, the second of which falls on the idle
  cycle behind it, are enough.
* With `LSU_LIVE_LOAD` the issue cycle of a misaligned D-mem load neither drives
  the bus nor captures, which are the two wires the harness looks at
  (`sim_main.cpp:499`).  The cycle, a stall of execute, goes to another bucket.
  With `LSU_LIVE_LOAD` clear every access is captured and the charge is exact,
  which `HarnessExact` shows.
* `uart_echo.c:388` tests `irq_chars` and executes wfi.  If the interrupt of the
  last byte falls in between, the handler counts it, the wfi sleeps for ever and
  the marker the header promises is not written.  `EchoServed`, that every byte is
  echoed, holds nevertheless: its exceptions are a byte in hand at a restart, a program
  that has ended or is parked on a fault, and one that faults before it comes to read,
  again after every restart.

### Bounds

* Fetch: 8 buffer slots as built; an I-mem of 2 to 4 blocks in an address space
  of twice to eight times that, so that the last implemented block, the first
  unfetchable one and the wrap of the PC occur.  Behaviour depends on an
  address only through its offset in the block and these boundaries.
* RAM: two words of two lanes of two values, RREADY held low for up to 3 cycles;
  addresses matter only as same or different.  The guard of the benches is the
  real 20 cycles.
* Buffer: real depth, two distinguishable entries.
* Front end: all 256 programs of a 16-byte I-mem (8 halfwords), targets aligned,
  on an upper halfword, on the last one, and outside; all are even.  The longest
  interplay is a stitch over three words, which fits.
* Execute: four PCs (two of program, the trap vector and an interrupt vector),
  one interrupt source, CSR operations that set, clear, restore and nest.  The
  liveness run uses one PC, because its properties do not mention PCs.
* Peripheral bus: two registers in one window, one in another, one unmapped
  address, two values: same and other register, same and other port.
* Timer: words of four values; the counter passes every carry and wraps.
* Divider: all operands of 4 bits, which include zero, the most negative value,
  -1 and every carry out of the partial remainder.
* Predictor: 2-bit indices (all counters and histories), a stack of two with three
  return addresses: it fills, overwrites its oldest and runs empty.
* Harness: the limits of the two WFI checks are 1 and 3 cycles, so that both are
  within reach.
* UART stimulus: a string of four bytes for FIFOs of two, so that a paced string
  must wait.
* UART oracle: phases of two bytes, five bytes from the user (one more than both
  phases take), a transmit FIFO of one entry and a receive FIFO of two, so that
  stores are held and bytes overrun; a spin limit of 2, which the interrupt must
  beat.  `uart_echo_sleep` has room for all bytes, so that none is lost.
* YarvMon: six keys over a five-character buffer, base 2 and three-digit addresses:
  every line of at most four characters, overflow and erasure among them.
* SHA-256: lengths on each side of the padding and block boundaries, 0 to 127, for
  two texts; real width.
* Quicksort: every array of 5 entries over 3 values.
* C library: every string of up to 5 characters at every alignment of source and
  destination; every value of an 8-bit long in each format; sequences of calls of
  malloc until the heap of 20 bytes is full.
* Benchmark ports: words of 64 values, three iterations of 0 to 12 cycles, counters
  that come up next to their wrap, up to two traps anywhere.
* List kernel: five cells (head, tail and three items), two rebuild values, the
  smallest and the largest result of the other kernels and one between, 3 searches.
* UART: bytes of two bits, FIFOs of two entries (the smallest the pointers
  allow), divisors 1 and 2 (an even and an odd bit length).  A divisor of 0
  is left out: one clock per bit cannot be sampled half way.  `uart_loopback`
  starts with 2, may change to 1 at any time, and reads RXDATA between writes or
  not at all, so that the receive FIFO also overruns; `uart_baud` changes the
  divisor both ways.

### Fairness

`ExecLive` assumes, on top of the clock: (a) weak fairness of edges at which the
slaves accept and answer and the divider finishes (the native RAM does so within
a cycle, the divider within 34, the peripherals answer every request); (b) strong
fairness of edges that bring an ordinary instruction into D/E: the front end
does not starve execute (`NeverDry`), and a program does not consist only of
memory accesses, CSR accesses and mrets.  (b) is needed: `normal_int_eligible`
excludes memory operations, so a program of nothing but loads is never
interrupted.

`BusLive` assumes that again and again there is an edge at which the LSU is ready
and no slave refuses: the LSU holds `rready` while it waits, and the only refusal
in the SoC, the UART's, ends by itself.  The UART needs
no fairness: that a held write ends is stated as a bound in cycles, in
`NothingVanishes`.

`SimSpec` assumes what `ExecLive` does; the harness adds nothing that may stop.

`EchoFairness` assumes weak fairness of the core, of the posted store and of the
transmitter: they are clocked and never stop.  The user may stop at any time, so
`Receive` has no fairness, and both liveness properties of the program speak only
of bytes that have arrived.

## 4. Proofs

Eight modules hold the theorems.  Each proves its component's properties for every
value of the constants that the named assumptions of the component allow, from an
inductive invariant that TLC has checked on the instance of the run before it was
proved.  A property that a theorem states is the one that a run checks, by name.

| Component | Theorems | For every |
|---|---|---|
| fetch, any memory (`FrontEndProofs`) | `FetchInvariant`, `BufferRoom`, `StaleCountExact`, `NeverRefuses` | depth 2 to 16, address space, memory size, targets, `EXEC_REDIR_INCYCLE` |
| fetch on its memory (`FrontEndProofs`) | `UnitInvariant`, `EntriesStampedTruly`, `StreamIsContiguous`, `UnitRefinesFetch` | the same |
| front end (`FrontEndProofs`) | `FrontRefinesStream`, `PredictionsAreOwn`, `FrontNeverDry` | the same, every program, even targets; the last one for a depth of at least 6 |
| execute (`ExecuteStageProofs`) | `ExecTypes`, `ExecAccessesExact`, `ExecFaultNeverPasses`; `ExecStateHasOwner`, `ExecPreciseTraps` without wfi pairs | PC space, sources, vectors, CSR accesses, `LSU_LIVE_LOAD` |
| harness (`ExecuteStageProofs`) | `HarnessCounts`; `HarnessIsExact` with `LSU_LIVE_LOAD` clear | the same, `WFI_STUCK_N` above 0 |
| peripheral bus (`PeriBusProofs`) | `BusQuiescent`, `BusRefinesPort` | register map, values, refusals |
| RAM and benches (`LeafUnitsProofs`) | `RamAnswersExact`, `BenchesPass` | words, lanes, values, delays, time-out |
| ring, timer, predictor (`LeafUnitsProofs`) | `RingRefinesQueue`, `TimerDeadlineExact`, `PredictorIsExact` | depth, word size, index width, stack depth |
| divider (`LeafUnitsProofs`) | `DividerIsExact` | word size, operation, operands |
| UART and stimulus (`UartProofs`) | `ReceivedIsQueue`, `AnswerIsOldest`; `FramesCarryBytes`, `BytesArrive`, `PacedNeverOverruns` without divisor 0 | FIFO depths, bits per byte, divisors, strings |
| UART oracle (`FirmwareProofs`) | `ProbesReportTruth`, `EchoKeepsOrder` | FIFO depths, bytes per phase, time-out, place of a stray fetch |
| quicksort (`FirmwareProofs`) | `QuicksortSorts` | array length and values |
| benchmark ports (`FirmwareProofs`) | `ReportsAreTrue` | clock, word size, iterations and their length, within `BenchAssumption` |
| list kernel (`FirmwareProofs`) | `ListIsRestored` | block size, data, results of the other kernels, passes of the find loop |
| YarvMon (`MonitorProofs`) | `MonitorObeysLine` | buffer size, base, digits of an address, lines |
| SHA-256 shell (`MonitorProofs`) | `PaddingIsStandard` | buffer size, texts |
| C library (`MonitorProofs`) | `LibraryIsExact` | memory, byte, long, buffer and heap size, legal calls |

**Fetch, any memory.**  `FetchInv == FetchTypeOK /\ RoomInv /\ StaleExact`.  Why the
conjunction: room is preserved by a response only if a response arrives only for a
read counted in `inflight_q` (that is `StaleExact`'s `Len(owed) = inflight_q`), and
`available` is the true room only while it does not wrap (`RoomInv`, with depth
below 32); `StaleExact` needs the types.  The argument: `LaunchFacts` -- a launch
happens only with two free slots beside everything reserved; `BusUpdateFacts` -- the
launch part of the edge keeps counters and history in step; `PushFacts` -- what is
pushed fits in what the response gives back; `RedirectStep` and `AdvanceStep` --
each kind of edge preserves the invariant.

**Fetch on its memory.**  `UnitInv` adds to `FetchInv` why the one register
`req_pc_q` is enough to stamp answers: fetch never refuses an answer, so the skid
FIFO stays empty, at most one read is owed and `req_pc_q` names it, no read is ever
stale, and `redir_launched_q` is up only while the read of a redirect's own cycle
is in flight (`MemInv`, `OwedInv`).  `StreamInv` then says that the buffered words
follow each other and lead to the read in flight or to `pc_q`.  By
`UnitRefinesFetch` the theorems of `FetchStage` hold for the real memory too.

**Front end.**  `FrontInv` is `UnitInv` with `HoldInv`: the halfword in the hold
buffer carries its own PC and direction bit, and the head of the buffer -- or what
will become it -- goes on right behind it.  `HeadMoves` shows that the head moves
only by what decode pops, however the memory answers; `Presented` and `Consumed`
that the instruction decode presents is the one the parse stands at and that the
parse moves by its size.  Each action is then one step of `InstrStream`.
`FrontAssumption` takes targets to be even: execute clears bit 0 of a jalr target
and everything else is even by construction, except an odd `mepc`, which only
software can write and which is left out.  For `NeverDry`, `SupplyInv` counts the
cycles without an instruction against what the buffer, the hold buffer and the read
in flight can still deliver.  It is inductive only if a cycle that takes two entries
still leaves room to launch the next read, which six entries guarantee (the core is
built with eight).

**Execute.**  `StageInv` is independent of the program: types, the owner of every
wait state (`Owned`), where a misaligned access can be (`FaultsPlaced`), what the
instruction in D/E has done on the buses so far (`BusSoFar`) and `AccessesExact`
itself.  The main lemmas say that an instruction leaves only from a cycle behind
which the stage is idle and owes nothing (`DepartureIsClean`), and that the stall
wire is high exactly while the instruction in D/E is not done (`StallExact`).
`OrderInv`, on top, relates D/E, the instruction stream and the wake PC to the
next instruction to complete.  It needs that no wfi directly follows a wfi: without
that assumption the property is false, as `execute_wfi_pair` shows.

**Harness.**  `WatchInv`: each counter is exact because the wire it counts is high in
exactly one cycle of an instruction that completes; the wires remembered from the
cycle before never hide a second event, because that cycle leads to the wait state
or empties D/E; and a halt that has seen its interrupt is over with the next edge,
so that any limit above 0 for the stuck check is enough.  The charge of cycles is
exact only with `LSU_LIVE_LOAD` clear (`harness_live_load` shows why); the counters
are exact in both builds.

**Peripheral bus.**  `BusShape` says for each of the seven states of the bridge
which selects the crossbar has latched and what the one port concerned holds; every
other port is empty.  Every edge is then one step of `PeriPort` or none.

**RAM and benches.**  Skid FIFO and landing register together are the queue of the
answers owed; an edge is a step of that queue (`PortShows`, `TickIs`).  `CallInv` adds
where a bench is in its call and what it is owed there.

**Ring, timer, predictor.**  The ring's tail is `count_q` slots ahead of its head, so
a write port only hits a free slot.  The timer's two registered stages decide against
the deadline in force one and two edges late, also between the three stores of the
update sequence, where the compare register is parked at its maximum.  The slots
below the stack pointer, going round, are the newest callers.

**Induction.**  The induction theorems of the library take an operator as a parameter,
which no installed prover instantiates; the one that speaks of a set, that a non-empty
subset of a well-founded order has a minimal member, they can use.  `Induction` gets
from it induction over a set of naturals (`SetInduction`, `FiniteInduction`) and the
defining equation of a function that is recursive over the naturals or over a prefix
of them (`RecursionExists`, `FiniteRecursion`).  Powers, the digits of a number, what a
line or a format means, what a sequence is without its strings are such functions in
the models.

**Divider.**  After c of `XLEN` cycles the top c bits of the dividend, a number hi, are
divided: hi is the quotient so far times the divisor plus the remainder, the
remainder is below the divisor, and the rest of the dividend stands above the quotient
in the same register (`Divided`).  Signs, a zero divisor and the overflow of the most
negative number are a matter of the final selection (`ResultExact`).

**UART.**  `InStep`: the receiver's cycle counter keeps its distance to the sender's
for the whole frame, and has sampled a bit or not according to which is ahead; with
it the bits sampled so far are those of the byte in flight.  The rings hold the rest
of the bytes owed and unread.  `HeldInv` bounds a held write by what is left of the
frame being sent.  A divisor of 0 is excluded where frames are concerned, since a bit
of one cycle has no middle to sample; the receive queue is exact with it too.

**UART oracle.**  `CtlInv` follows the software interrupt from the store to MSIP to the
drained store that takes it back, by where main is and where the handler is; without
the place of main at the time of the trap `ProbesTrue` is not inductive.  For
`EchoInOrder` the tokens on the line, in the TX FIFO and on the bus are one sequence,
and every step appends to it or moves along it; no trap into the handler finds a byte
in hand, because the handler is installed behind the polled phase.  A restart takes the
byte in hand out of both sides of the equation: `WithoutOne`, that no other byte goes
with it, holds because what the user sends are rising numbers and what is left of a
rising sequence rises (`WithoutRises`).

**Quicksort.**  The frames of the calls under way are tied to each other: each range
lies in the part its caller has still to sort, since the call began entries have only
changed places inside that range, and every pivot in place stays between the smaller
and the larger entries.  The depth of the recursion bounds the length of a range, so
that no call is made on a range outside the array.

**Benchmark ports.**  The tick counter wraps; the
invariant relates it to the cycles the region really took, which `BenchAssumption`
keeps below one turn of the counter.  The rates are division with rest.

**List kernel.**  The state is read as the sequence of cells in list order, which stays
a permutation of the cells handed out.  Inside a merge that sequence has three parts:
the merged cells, the rest of the first run, and the rest of the list, which begins with
the second run; to take a cell of the second run is to bring it forward past the first.
Two neighbours are in order, and both have been compared since the pass began, except
where a run of this pass or of the one before ends, and those places are multiples of
the run length.  A pass with a single merge therefore leaves the list sorted, every
cache filled or rebuilt.  As the indices are distinct, only one sequence is sorted by
them (`SortedUnique`): the list after the last sort is the one `core_list_init` made,
and it begins at the head.  Between removal and undo the third cell is out of the
sequence (`CutInv`).

**YarvMon.**  The meaning of a line is a recursive function along its characters.
`MonInv` says where the monitor is on it: between tokens it has done what the
characters before `y` mean, in a number what they mean without that number, in a
block it has shown the addresses up to the current one, which may have wrapped.

**SHA-256 shell.**  `ShaInv` says for each statement of `sha256` how many bytes of the
padded message have been compressed and that the block at hand goes on there; a call of
`sha256_transform` changes neither.

**C library.**  `HasZeroExact`: the test of a word for a zero byte is exact, because a
borrow reaches a byte that is 1 only if a byte below it is 0.  With it a word is
copied only if the terminator lies behind it, and since memory ends at a word boundary
the aligned read stays inside memory though it may pass the terminator.  `CopyInv`
counts the bytes of the call that are done; `HeapInv` keeps every block below the free
part of the heap, and `NoWrap` that the sums of a legal `malloc` stay below the range of
a long.  For printf, `PrintInv` says that what is sent so far, followed by
what is still to come of the number at hand -- its digits, its zeros, the buffer read
backwards -- is the text `ReadUpTo` gives for the characters read (`TextAt`), and that
the arguments left are those it has not used (`LeftAt`).  The digits still to make and
those in the buffer are together no more than it holds; a width beyond it is cut to it
by the code, and so by `ReadUpTo`.  The only assumptions on callers and sizes are
`CallsLegal` and `DigitsFit`.

## 5. Only model-checked

* Liveness (`InterruptTaken`, `Progress`, `EveryAccessEnds`, `EchoServed`): the proof
  system does not reason about fairness.
* `DigestExact`: that the digest of a text is the published one is a computation on
  that text, which only an evaluation settles; the part about padding and blocks,
  for every text, is `PaddingIsStandard`.

## 6. Not modelled

* Field decoding, `c_expand`, immediates, the combinational ALU and the multiplier,
  the register file and its forwarding, load/store alignment: data paths without
  control.
* Performance counters, mcause, mtval: written, and read by software only.
* `FrontEnd` and `ExecuteStage` as one machine: each is checked against any
  behaviour of the other that its own run shows possible; their product is out of
  TLC's reach.
* The 1-to-2 crossbar and the AXI RAM's array: not instantiated in the SoC.
* Clocks, PLL, pins, the SDRAM IP: vendor parts and wiring.
* Of the harness: logs, tables, trace files, memory images, the park detection that
  ends a run; `ram_tb` and `uart_tb`, whose scripts are cases of what `peri_bus` and
  `uart_loopback` explore.
* CoreMark's matrix and state kernels, checksums and self-check, and Dhrystone's
  body: vendored, straight computation whose result is compared with a published
  value.  `print_array` of quicksort and the build option `UART_TX_PACED`, off by default.
* The instruction probes under `sim/sw/isa`, `sim/sw/intr` and `sim/sw/compliance`:
  they test what single instructions compute.

## 7. Plan

All components in reach are modelled.  Every safety invariant and action property that a
run checks is proved, but for `DigestExact`; what section 5 lists is out of the
prover's reach.
