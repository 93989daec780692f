--------------------------- MODULE FirmwareProofs ---------------------------
(***************************************************************************)
(* Programs of sim/sw, each for every value of its constants: the UART     *)
(* oracle reports its probes truly and echoes in order, quicksort sorts,   *)
(* the benchmark ports report what they measured, and the list kernel of   *)
(* CoreMark gives back the list it was called with.                        *)
(***************************************************************************)

EXTENDS UartEcho, Quicksort, BenchPort, CoreList, Induction, SequenceTheorems, FiniteSetTheorems

(***************************************************************************)
(* The UART oracle (sim/sw/peri/uart_echo). ProbesTrue needs to know where *)
(* main was when the trap that is being handled came: CtlInv follows the   *)
(* software interrupt from the store to MSIP to the drained store that     *)
(* takes it back, by the place of main and of the handler.                 *)
(*                                                                         *)
(* EchoInOrder then needs of the control only that a trap into the handler *)
(* never finds a byte in hand. The tokens handed over, on the line, in the *)
(* TX FIFO and on the bus, are one sequence; a step appends to it or moves *)
(* along it. Without, what is left of it with some entries dropped, is a   *)
(* recursive function: BytesIn drops the strings. A restart drops the byte *)
(* in hand from what was accepted, and WithoutOne says that no other goes  *)
(* with it, since the bytes of the user are rising numbers.                *)
(***************************************************************************)

\* The statements of main, by what the software interrupt and the environment call
\* have done before them.
UpToEcall == {"reset", "banner", "walk", "getc", "echo", "irqmsg", "ctrl", "mtvec", "mtvecmsg",
              "mipspin", "mipmsg", "ecall"}
UpToMask == UpToEcall \cup {"trapmsg", "mask"}
Arming == {"msip", "msipread", "msipmsg", "enable"}
Waiting == {"spin", "spincount", "unmsie"}
Late == {"msimsg", "meie", "mst2msg", "chars", "bad", "branch", "wfi", "halt", "disable", "ctrl0",
         "mark", "donemsg", "park"}
Main == UpToMask \cup Arming \cup Waiting \cup Late
\* The statements of the handler, by the cause it is in.
HandlerAt ==
  [MSI |-> {"h_H", "h_cause", "h_msip", "h_msi_count", "h_X", "mret"},
   ecall |-> {"h_H", "h_cause", "h_ecall", "h_X", "mret"},
   MEI |-> {"h_H", "h_cause", "h_status", "h_rxdata", "h_echo", "h_count", "h_X", "mret"},
   illegal |-> {"h_H", "h_cause", "h_bad", "h_parkmsg", "h_park", "h_X", "mret"}]

\* Where main is: its own statement, or the one the trap came from.
MainPc == IF InHandler THEN mepc ELSE pc
\* The statements that wait for TX_READY.
Putc == DOMAIN PrintThen \cup {"echo", "h_echo"}
\* No store to the MSIP register is under way; what that register is about to be.
NoMsip == posted # << >> => posted[1].reg # "MSIP"
Becoming(v) == IF NoMsip THEN msip = v ELSE posted[1].val = v

\* Types of flags, of counters and of the store under way.
FlagsOK ==
  /\ rdy \in BOOLEAN /\ saved_rdy \in BOOLEAN /\ MIE \in BOOLEAN /\ MPIE \in BOOLEAN
  /\ mie \subseteq {"MEI", "MSI"} /\ bad_cause \in BOOLEAN
  /\ msip \in BOOLEAN /\ result \in {"none", "BAD", "GOOD"}
CountsOK == irq_chars \in Nat /\ bad_traps \in Nat /\ msi_count \in Nat /\ sync_traps \in Nat
PostedOK == posted # << >> /\ posted[1].reg = "MSIP" => posted[1].val \in BOOLEAN
EchoTypeOK == FlagsOK /\ CountsOK /\ PostedOK
\* A trap came from a statement of main that can trap, with the interrupt enable that
\* statement has; a uart_putc that has seen TX_READY is still at it.
ControlInv ==
  /\ MainPc \in Main
  /\ InHandler => /\ cause \in DOMAIN HandlerAt /\ pc \in HandlerAt[cause]
                  /\ ~MIE /\ mepc \notin Unvectored
  /\ MainPc \in UpToMask \cup Arming => IF InHandler THEN ~MPIE ELSE ~MIE
  /\ MainPc \in Waiting => IF InHandler THEN MPIE ELSE MIE
  /\ InHandler /\ cause \in {"MEI", "MSI"} => MPIE
  /\ rdy => pc \in Putc
  /\ InHandler /\ saved_rdy => mepc \in Putc
  /\ InHandler /\ cause = "illegal" => mepc = stray
  /\ InHandler /\ cause = "ecall" =>
       ~saved_rdy /\ mepc = IF pc \in {"h_X", "mret"} THEN "trapmsg" ELSE "ecall"
\* msi_count, mie and the MSIP register by the place of main: the software interrupt
\* comes once, between opening and closing its enable, and its store has drained
\* before the handler returns.
MsiInv ==
  /\ MainPc \in UpToMask \cup {"msip"} => msi_count = 0 /\ ~msip /\ NoMsip
  /\ MainPc \in UpToMask \cup Late => "MSI" \notin mie
  /\ MainPc \in Arming \cup Waiting => mie = {"MSI"}
  /\ MainPc = "msipread" => msi_count = 0 /\ Becoming(TRUE)
  /\ MainPc \in {"msipmsg", "enable"} => msi_count = 0 /\ msip /\ NoMsip
  /\ InHandler /\ cause = "MSI" =>
       /\ mepc \in Waiting
       /\ pc \in {"h_H", "h_cause", "h_msip"} => msi_count = 0 /\ msip /\ NoMsip
       /\ pc = "h_msi_count" => msi_count = 0 /\ Becoming(FALSE)
       /\ pc = "h_X" => msi_count = 1 /\ Becoming(FALSE) /\ (rdy => NoMsip)
       /\ pc = "mret" => msi_count = 1 /\ ~msip /\ NoMsip
  /\ MainPc \in Waiting /\ ~(InHandler /\ cause = "MSI") =>
       NoMsip /\ msi_count = (IF msip THEN 0 ELSE 1)
  /\ MainPc \in Late => msi_count = 1
\* The environment call was counted once behind it, and a verdict names what was
\* counted.
ResultInv ==
  /\ sync_traps = IF MainPc \in UpToEcall THEN 0 ELSE 1
  /\ result # "none" => MainPc \in {"donemsg", "park"}
  /\ result = "GOOD" => irq_chars >= PHASE_CHARS /\ (bad_cause => stray \in {"donemsg", "park"})

CtlInv == EchoTypeOK /\ ControlInv /\ MsiInv /\ ResultInv

\* A store to TXDATA is on the bus.
OnBus == posted # << >> /\ posted[1].reg = "TXDATA"
\* main or the handler has a byte in hand.
HoldsByte == pc \in {"echo", "h_echo"}
\* The entries of a sequence; each is higher than those before it.
Entries(s) == {s[n] : n \in 1..Len(s)}
Rising(s) == \A m, n \in 1..Len(s) : m < n => s[m] < s[n]
\* What travels is a sequence of numbers, a byte is not the mark of a string, and the
\* user's bytes are told apart by their numbers.
OrderTypes ==
  /\ rx \in Seq(Nat) /\ tx \in Seq(Nat) /\ line \in Seq(Nat) /\ accepted \in Seq(Nat)
  /\ unsent \in Int /\ sent \in Nat /\ byte \in Nat
  /\ \A n \in 1..Len(rx) : rx[n] # 0
  /\ OnBus => posted[1].val \in Nat
  /\ Rising(accepted) /\ Entries(accepted) \subseteq 1..sent /\ lost \subseteq 1..sent
\* The byte in hand came from the FIFO.
HandInv ==
  /\ HoldsByte => byte # 0
  /\ pc = "h_rxdata" => rx # << >>
OrderInv == OrderTypes /\ HandInv /\ EchoInOrder

\* The reset state satisfies the control invariant.
LEMMA CtlInvInit == EchoInit /\ Boot => CtlInv
<1> SUFFICES ASSUME EchoInit, Boot PROVE CtlInv
  OBVIOUS
<1> USE DEF MainPc, InHandler, Main, UpToMask, UpToEcall, Arming, Waiting, Late
<1>1. EchoTypeOK
  BY DEF EchoInit, EchoTypeOK, FlagsOK, CountsOK, PostedOK
<1>2. ControlInv
  BY DEF EchoInit, Boot, ControlInv
<1>3. MsiInv
  BY DEF EchoInit, Boot, MsiInv, NoMsip
<1>4. ResultInv
  BY DEF EchoInit, Boot, ResultInv
<1> QED
  BY <1>1, <1>2, <1>3, <1>4 DEF CtlInv

\* The start of main keeps the control invariant.
LEMMA StartCtl == CtlInv /\ Start => CtlInv'
<1> SUFFICES ASSUME CtlInv, Start PROVE CtlInv'
  OBVIOUS
<1> USE DEF MainPc, InHandler, Main, UpToMask, UpToEcall, Arming, Waiting, Late
<1>0. pc = "reset"
  BY DEF Start, At
<1>1. FlagsOK'
  BY <1>0 DEF CtlInv, EchoTypeOK, FlagsOK, Start, Goto, core, regs, bus, counters, peri
<1>2. CountsOK'
  BY <1>0 DEF CtlInv, EchoTypeOK, CountsOK, Start, Goto, core, regs, bus, counters, peri
<1>3. PostedOK'
  BY <1>0 DEF CtlInv, EchoTypeOK, PostedOK, Start, Goto, core, regs, bus, counters, peri
<1>4. ControlInv'
  BY <1>0 DEF CtlInv, EchoTypeOK, FlagsOK, CountsOK, PostedOK, ControlInv, HandlerAt, Putc,
     PrintThen, Start, Goto, core, regs, bus, counters, peri
<1>5. MsiInv'
  BY <1>0 DEF CtlInv, EchoTypeOK, FlagsOK, CountsOK, PostedOK, MsiInv, ControlInv, HandlerAt,
     NoMsip, Becoming, Start, Goto, core, regs, bus, counters, peri
<1>6. ResultInv'
  BY <1>0 DEF CtlInv, EchoTypeOK, FlagsOK, CountsOK, PostedOK, ResultInv, ControlInv,
     HandlerAt, Start, Goto, core, regs, bus, counters, peri
<1> QED
  BY <1>1, <1>2, <1>3, <1>4, <1>5, <1>6 DEF CtlInv, EchoTypeOK

\* The walk over the CSR bits keeps the control invariant.
LEMMA csr_bit_walkCtl == CtlInv /\ csr_bit_walk => CtlInv'
<1> SUFFICES ASSUME CtlInv, csr_bit_walk PROVE CtlInv'
  OBVIOUS
<1> USE DEF MainPc, InHandler, Main, UpToMask, UpToEcall, Arming, Waiting, Late
<1>0. pc = "walk"
  BY DEF csr_bit_walk, At
<1>1. FlagsOK'
  BY <1>0 DEF CtlInv, EchoTypeOK, FlagsOK, csr_bit_walk, At, Goto, regs, bus, counters, peri,
     user
<1>2. CountsOK'
  BY <1>0 DEF CtlInv, EchoTypeOK, CountsOK, csr_bit_walk, At, Goto, regs, bus, counters, peri,
     user
<1>3. PostedOK'
  BY <1>0 DEF CtlInv, EchoTypeOK, PostedOK, csr_bit_walk, At, Goto, regs, bus, counters, peri,
     user
<1>4. ControlInv'
  BY <1>0 DEF CtlInv, EchoTypeOK, FlagsOK, CountsOK, PostedOK, ControlInv, HandlerAt, Putc,
     PrintThen, csr_bit_walk, At, Goto, regs, bus, counters, peri, user
<1>5. MsiInv'
  BY <1>0 DEF CtlInv, EchoTypeOK, FlagsOK, CountsOK, PostedOK, MsiInv, ControlInv, HandlerAt,
     NoMsip, Becoming, csr_bit_walk, At, Goto, regs, bus, counters, peri, user
<1>6. ResultInv'
  BY <1>0 DEF CtlInv, EchoTypeOK, FlagsOK, CountsOK, PostedOK, ResultInv, ControlInv,
     HandlerAt, csr_bit_walk, At, Goto, regs, bus, counters, peri, user
<1> QED
  BY <1>1, <1>2, <1>3, <1>4, <1>5, <1>6 DEF CtlInv, EchoTypeOK

\* The polled echo keeps the control invariant.
LEMMA PollPhaseCtl == CtlInv /\ PollPhase => CtlInv'
<1> SUFFICES ASSUME CtlInv, PollPhase PROVE CtlInv'
  OBVIOUS
<1> USE DEF MainPc, InHandler, Main, UpToMask, UpToEcall, Arming, Waiting, Late
<1>1. CASE pc = "getc"
  <2>1. FlagsOK'
    BY <1>1 DEF CtlInv, EchoTypeOK, FlagsOK, PollPhase, At, PeriRead, uart_getc, core, bus,
       counters, user
  <2>2. CountsOK'
    BY <1>1 DEF CtlInv, EchoTypeOK, CountsOK, PollPhase, At, PeriRead, uart_getc, core, bus,
       counters, user
  <2>3. PostedOK'
    BY <1>1 DEF CtlInv, EchoTypeOK, PostedOK, PollPhase, At, PeriRead, uart_getc, core, bus,
       counters, user
  <2>4. ControlInv'
    BY <1>1 DEF CtlInv, EchoTypeOK, FlagsOK, CountsOK, PostedOK, ControlInv, HandlerAt, Putc,
       PrintThen, PollPhase, At, PeriRead, uart_getc, core, bus, counters, user
  <2>5. MsiInv'
    BY <1>1 DEF CtlInv, EchoTypeOK, FlagsOK, CountsOK, PostedOK, MsiInv, ControlInv,
       HandlerAt, NoMsip, Becoming, PollPhase, At, PeriRead, uart_getc, core, bus, counters,
       user
  <2>6. ResultInv'
    BY <1>1 DEF CtlInv, EchoTypeOK, FlagsOK, CountsOK, PostedOK, ResultInv, ControlInv,
       HandlerAt, PollPhase, At, PeriRead, uart_getc, core, bus, counters, user
  <2> QED
    BY <2>1, <2>2, <2>3, <2>4, <2>5, <2>6 DEF CtlInv, EchoTypeOK
<1>2. CASE pc = "echo"
  <2>1. FlagsOK'
    BY <1>2 DEF CtlInv, EchoTypeOK, FlagsOK, PollPhase, At, Post, PeriRead, uart_putc, core,
       bus, counters, peri, user
  <2>2. CountsOK'
    BY <1>2 DEF CtlInv, EchoTypeOK, CountsOK, PollPhase, At, Post, PeriRead, uart_putc, core,
       bus, counters, peri, user
  <2>3. PostedOK'
    BY <1>2 DEF CtlInv, EchoTypeOK, PostedOK, PollPhase, At, Post, PeriRead, uart_putc, core,
       bus, counters, peri, user
  <2>4. ControlInv'
    BY <1>2 DEF CtlInv, EchoTypeOK, FlagsOK, CountsOK, PostedOK, ControlInv, HandlerAt, Putc,
       PrintThen, PollPhase, At, Post, PeriRead, uart_putc, core, bus, counters, peri, user
  <2>5. MsiInv'
    BY <1>2 DEF CtlInv, EchoTypeOK, FlagsOK, CountsOK, PostedOK, MsiInv, ControlInv,
       HandlerAt, NoMsip, Becoming, PollPhase, At, Post, PeriRead, uart_putc, core, bus,
       counters, peri, user
  <2>6. ResultInv'
    BY <1>2 DEF CtlInv, EchoTypeOK, FlagsOK, CountsOK, PostedOK, ResultInv, ControlInv,
       HandlerAt, PollPhase, At, Post, PeriRead, uart_putc, core, bus, counters, peri, user
  <2> QED
    BY <2>1, <2>2, <2>3, <2>4, <2>5, <2>6 DEF CtlInv, EchoTypeOK
<1> QED
  BY <1>1, <1>2 DEF PollPhase, At

\* Setting up the external interrupt keeps the control invariant.
LEMMA ArmExternalCtl == CtlInv /\ ArmExternal => CtlInv'
<1> SUFFICES ASSUME CtlInv, ArmExternal PROVE CtlInv'
  OBVIOUS
<1> USE DEF MainPc, InHandler, Main, UpToMask, UpToEcall, Arming, Waiting, Late
<1>1. CASE pc = "ctrl"
  <2>1. FlagsOK'
    BY <1>1 DEF CtlInv, EchoTypeOK, FlagsOK, ArmExternal, At, Goto, Post, core, regs,
       counters, peri, user
  <2>2. CountsOK'
    BY <1>1 DEF CtlInv, EchoTypeOK, CountsOK, ArmExternal, At, Goto, Post, core, regs,
       counters, peri, user
  <2>3. PostedOK'
    BY <1>1 DEF CtlInv, EchoTypeOK, PostedOK, ArmExternal, At, Goto, Post, core, regs,
       counters, peri, user
  <2>4. ControlInv'
    BY <1>1 DEF CtlInv, EchoTypeOK, FlagsOK, CountsOK, PostedOK, ControlInv, HandlerAt, Putc,
       PrintThen, ArmExternal, At, Goto, Post, core, regs, counters, peri, user
  <2>5. MsiInv'
    BY <1>1 DEF CtlInv, EchoTypeOK, FlagsOK, CountsOK, PostedOK, MsiInv, ControlInv,
       HandlerAt, NoMsip, Becoming, ArmExternal, At, Goto, Post, core, regs, counters, peri,
       user
  <2>6. ResultInv'
    BY <1>1 DEF CtlInv, EchoTypeOK, FlagsOK, CountsOK, PostedOK, ResultInv, ControlInv,
       HandlerAt, ArmExternal, At, Goto, Post, core, regs, counters, peri, user
  <2> QED
    BY <2>1, <2>2, <2>3, <2>4, <2>5, <2>6 DEF CtlInv, EchoTypeOK
<1>2. CASE pc = "mtvec"
  <2>1. FlagsOK'
    BY <1>2 DEF CtlInv, EchoTypeOK, FlagsOK, ArmExternal, At, Goto, regs, bus, counters, peri,
       user
  <2>2. CountsOK'
    BY <1>2 DEF CtlInv, EchoTypeOK, CountsOK, ArmExternal, At, Goto, regs, bus, counters,
       peri, user
  <2>3. PostedOK'
    BY <1>2 DEF CtlInv, EchoTypeOK, PostedOK, ArmExternal, At, Goto, regs, bus, counters,
       peri, user
  <2>4. ControlInv'
    BY <1>2 DEF CtlInv, EchoTypeOK, FlagsOK, CountsOK, PostedOK, ControlInv, HandlerAt, Putc,
       PrintThen, ArmExternal, At, Goto, regs, bus, counters, peri, user
  <2>5. MsiInv'
    BY <1>2 DEF CtlInv, EchoTypeOK, FlagsOK, CountsOK, PostedOK, MsiInv, ControlInv,
       HandlerAt, NoMsip, Becoming, ArmExternal, At, Goto, regs, bus, counters, peri, user
  <2>6. ResultInv'
    BY <1>2 DEF CtlInv, EchoTypeOK, FlagsOK, CountsOK, PostedOK, ResultInv, ControlInv,
       HandlerAt, ArmExternal, At, Goto, regs, bus, counters, peri, user
  <2> QED
    BY <2>1, <2>2, <2>3, <2>4, <2>5, <2>6 DEF CtlInv, EchoTypeOK
<1>3. CASE pc = "mipspin"
  <2>1. FlagsOK'
    BY <1>3 DEF CtlInv, EchoTypeOK, FlagsOK, ArmExternal, At, Goto, core, regs, bus, counters,
       peri, user
  <2>2. CountsOK'
    BY <1>3 DEF CtlInv, EchoTypeOK, CountsOK, ArmExternal, At, Goto, core, regs, bus,
       counters, peri, user
  <2>3. PostedOK'
    BY <1>3 DEF CtlInv, EchoTypeOK, PostedOK, ArmExternal, At, Goto, core, regs, bus,
       counters, peri, user
  <2>4. ControlInv'
    BY <1>3 DEF CtlInv, EchoTypeOK, FlagsOK, CountsOK, PostedOK, ControlInv, HandlerAt, Putc,
       PrintThen, ArmExternal, At, Goto, core, regs, bus, counters, peri, user
  <2>5. MsiInv'
    BY <1>3 DEF CtlInv, EchoTypeOK, FlagsOK, CountsOK, PostedOK, MsiInv, ControlInv,
       HandlerAt, NoMsip, Becoming, ArmExternal, At, Goto, core, regs, bus, counters, peri,
       user
  <2>6. ResultInv'
    BY <1>3 DEF CtlInv, EchoTypeOK, FlagsOK, CountsOK, PostedOK, ResultInv, ControlInv,
       HandlerAt, ArmExternal, At, Goto, core, regs, bus, counters, peri, user
  <2> QED
    BY <2>1, <2>2, <2>3, <2>4, <2>5, <2>6 DEF CtlInv, EchoTypeOK
<1> QED
  BY <1>1, <1>2, <1>3 DEF ArmExternal, At

\* The environment call keeps the control invariant.
LEMMA EcallProbeCtl == CtlInv /\ EcallProbe => CtlInv'
<1> SUFFICES ASSUME CtlInv, EcallProbe PROVE CtlInv'
  OBVIOUS
<1> USE DEF MainPc, InHandler, Main, UpToMask, UpToEcall, Arming, Waiting, Late
<1>0. pc = "ecall"
  BY DEF EcallProbe, At
<1>1. FlagsOK'
  BY <1>0 DEF CtlInv, EchoTypeOK, FlagsOK, EcallProbe, At, Enter, TrapVector, Unvectored, regs, bus, counters, peri,
     user
<1>2. CountsOK'
  BY <1>0 DEF CtlInv, EchoTypeOK, CountsOK, EcallProbe, At, Enter, TrapVector, Unvectored, regs, bus, counters, peri,
     user
<1>3. PostedOK'
  BY <1>0 DEF CtlInv, EchoTypeOK, PostedOK, EcallProbe, At, Enter, TrapVector, Unvectored, regs, bus, counters, peri,
     user
<1>4. ControlInv'
  BY <1>0 DEF CtlInv, EchoTypeOK, FlagsOK, CountsOK, PostedOK, ControlInv, HandlerAt, Putc,
     PrintThen, EcallProbe, At, Enter, TrapVector, Unvectored, regs, bus, counters, peri, user
<1>5. MsiInv'
  BY <1>0 DEF CtlInv, EchoTypeOK, FlagsOK, CountsOK, PostedOK, MsiInv, ControlInv, HandlerAt,
     NoMsip, Becoming, EcallProbe, At, Enter, TrapVector, Unvectored, regs, bus, counters, peri, user
<1>6. ResultInv'
  BY <1>0 DEF CtlInv, EchoTypeOK, FlagsOK, CountsOK, PostedOK, ResultInv, ControlInv,
     HandlerAt, EcallProbe, At, Enter, TrapVector, Unvectored, regs, bus, counters, peri, user
<1> QED
  BY <1>1, <1>2, <1>3, <1>4, <1>5, <1>6 DEF CtlInv, EchoTypeOK

\* Raising the software interrupt keeps the control invariant.
LEMMA SoftwareInterruptCtl == CtlInv /\ SoftwareInterrupt => CtlInv'
<1> SUFFICES ASSUME CtlInv, SoftwareInterrupt PROVE CtlInv'
  OBVIOUS
<1> USE DEF MainPc, InHandler, Main, UpToMask, UpToEcall, Arming, Waiting, Late
<1>1. CASE pc = "mask"
  <2>1. FlagsOK'
    BY <1>1 DEF CtlInv, EchoTypeOK, FlagsOK, SoftwareInterrupt, At, Goto, regs, bus, counters,
       peri, user
  <2>2. CountsOK'
    BY <1>1 DEF CtlInv, EchoTypeOK, CountsOK, SoftwareInterrupt, At, Goto, regs, bus,
       counters, peri, user
  <2>3. PostedOK'
    BY <1>1 DEF CtlInv, EchoTypeOK, PostedOK, SoftwareInterrupt, At, Goto, regs, bus,
       counters, peri, user
  <2>4. ControlInv'
    BY <1>1 DEF CtlInv, EchoTypeOK, FlagsOK, CountsOK, PostedOK, ControlInv, HandlerAt, Putc,
       PrintThen, SoftwareInterrupt, At, Goto, regs, bus, counters, peri, user
  <2>5. MsiInv'
    BY <1>1 DEF CtlInv, EchoTypeOK, FlagsOK, CountsOK, PostedOK, MsiInv, ControlInv,
       HandlerAt, NoMsip, Becoming, SoftwareInterrupt, At, Goto, regs, bus, counters, peri,
       user
  <2>6. ResultInv'
    BY <1>1 DEF CtlInv, EchoTypeOK, FlagsOK, CountsOK, PostedOK, ResultInv, ControlInv,
       HandlerAt, SoftwareInterrupt, At, Goto, regs, bus, counters, peri, user
  <2> QED
    BY <2>1, <2>2, <2>3, <2>4, <2>5, <2>6 DEF CtlInv, EchoTypeOK
<1>2. CASE pc = "msip"
  <2>1. FlagsOK'
    BY <1>2 DEF CtlInv, EchoTypeOK, FlagsOK, SoftwareInterrupt, At, Goto, Post, core, regs,
       counters, peri, user
  <2>2. CountsOK'
    BY <1>2 DEF CtlInv, EchoTypeOK, CountsOK, SoftwareInterrupt, At, Goto, Post, core, regs,
       counters, peri, user
  <2>3. PostedOK'
    <3>1. posted' = <<[reg |-> "MSIP", val |-> TRUE]>>
      BY <1>2 DEF SoftwareInterrupt, At, Post
    <3>2. posted'[1].val = TRUE
      BY <3>1
    <3> QED
      BY <3>2 DEF PostedOK
  <2>4. ControlInv'
    BY <1>2 DEF CtlInv, EchoTypeOK, FlagsOK, CountsOK, PostedOK, ControlInv, HandlerAt, Putc,
       PrintThen, SoftwareInterrupt, At, Goto, Post, core, regs, counters, peri, user
  <2>5. MsiInv'
    BY <1>2 DEF CtlInv, EchoTypeOK, FlagsOK, CountsOK, PostedOK, MsiInv, ControlInv,
       HandlerAt, NoMsip, Becoming, SoftwareInterrupt, At, Goto, Post, core, regs, counters,
       peri, user
  <2>6. ResultInv'
    BY <1>2 DEF CtlInv, EchoTypeOK, FlagsOK, CountsOK, PostedOK, ResultInv, ControlInv,
       HandlerAt, SoftwareInterrupt, At, Goto, Post, core, regs, counters, peri, user
  <2> QED
    BY <2>1, <2>2, <2>3, <2>4, <2>5, <2>6 DEF CtlInv, EchoTypeOK
<1>3. CASE pc = "msipread"
  <2>1. FlagsOK'
    BY <1>3 DEF CtlInv, EchoTypeOK, FlagsOK, SoftwareInterrupt, At, Goto, PeriRead, core,
       regs, bus, counters, peri, user
  <2>2. CountsOK'
    BY <1>3 DEF CtlInv, EchoTypeOK, CountsOK, SoftwareInterrupt, At, Goto, PeriRead, core,
       regs, bus, counters, peri, user
  <2>3. PostedOK'
    BY <1>3 DEF CtlInv, EchoTypeOK, PostedOK, SoftwareInterrupt, At, Goto, PeriRead, core,
       regs, bus, counters, peri, user
  <2>4. ControlInv'
    BY <1>3 DEF CtlInv, EchoTypeOK, FlagsOK, CountsOK, PostedOK, ControlInv, HandlerAt, Putc,
       PrintThen, SoftwareInterrupt, At, Goto, PeriRead, core, regs, bus, counters, peri, user
  <2>5. MsiInv'
    BY <1>3 DEF CtlInv, EchoTypeOK, FlagsOK, CountsOK, PostedOK, MsiInv, ControlInv,
       HandlerAt, NoMsip, Becoming, SoftwareInterrupt, At, Goto, PeriRead, core, regs, bus,
       counters, peri, user
  <2>6. ResultInv'
    BY <1>3 DEF CtlInv, EchoTypeOK, FlagsOK, CountsOK, PostedOK, ResultInv, ControlInv,
       HandlerAt, SoftwareInterrupt, At, Goto, PeriRead, core, regs, bus, counters, peri, user
  <2> QED
    BY <2>1, <2>2, <2>3, <2>4, <2>5, <2>6 DEF CtlInv, EchoTypeOK
<1>4. CASE pc = "enable"
  <2>1. FlagsOK'
    BY <1>4 DEF CtlInv, EchoTypeOK, FlagsOK, SoftwareInterrupt, At, Goto, regs, bus, counters,
       peri, user
  <2>2. CountsOK'
    BY <1>4 DEF CtlInv, EchoTypeOK, CountsOK, SoftwareInterrupt, At, Goto, regs, bus,
       counters, peri, user
  <2>3. PostedOK'
    BY <1>4 DEF CtlInv, EchoTypeOK, PostedOK, SoftwareInterrupt, At, Goto, regs, bus,
       counters, peri, user
  <2>4. ControlInv'
    BY <1>4 DEF CtlInv, EchoTypeOK, FlagsOK, CountsOK, PostedOK, ControlInv, HandlerAt, Putc,
       PrintThen, SoftwareInterrupt, At, Goto, regs, bus, counters, peri, user
  <2>5. MsiInv'
    BY <1>4 DEF CtlInv, EchoTypeOK, FlagsOK, CountsOK, PostedOK, MsiInv, ControlInv,
       HandlerAt, NoMsip, Becoming, SoftwareInterrupt, At, Goto, regs, bus, counters, peri,
       user
  <2>6. ResultInv'
    BY <1>4 DEF CtlInv, EchoTypeOK, FlagsOK, CountsOK, PostedOK, ResultInv, ControlInv,
       HandlerAt, SoftwareInterrupt, At, Goto, regs, bus, counters, peri, user
  <2> QED
    BY <2>1, <2>2, <2>3, <2>4, <2>5, <2>6 DEF CtlInv, EchoTypeOK
<1> QED
  BY <1>1, <1>2, <1>3, <1>4 DEF SoftwareInterrupt, At

\* The bounded wait for the software interrupt keeps the control invariant.
LEMMA SpinLoopCtl == CtlInv /\ SpinLoop => CtlInv'
<1> SUFFICES ASSUME CtlInv, SpinLoop PROVE CtlInv'
  OBVIOUS
<1> USE DEF MainPc, InHandler, Main, UpToMask, UpToEcall, Arming, Waiting, Late
<1>1. CASE pc = "spin"
  <2>1. FlagsOK'
    BY <1>1 DEF CtlInv, EchoTypeOK, FlagsOK, SpinLoop, At, Goto, core, regs, bus, counters,
       peri, user
  <2>2. CountsOK'
    BY <1>1 DEF CtlInv, EchoTypeOK, CountsOK, SpinLoop, At, Goto, core, regs, bus, counters,
       peri, user
  <2>3. PostedOK'
    BY <1>1 DEF CtlInv, EchoTypeOK, PostedOK, SpinLoop, At, Goto, core, regs, bus, counters,
       peri, user
  <2>4. ControlInv'
    BY <1>1 DEF CtlInv, EchoTypeOK, FlagsOK, CountsOK, PostedOK, ControlInv, HandlerAt, Putc,
       PrintThen, SpinLoop, At, Goto, core, regs, bus, counters, peri, user
  <2>5. MsiInv'
    BY <1>1 DEF CtlInv, EchoTypeOK, FlagsOK, CountsOK, PostedOK, MsiInv, ControlInv,
       HandlerAt, NoMsip, Becoming, SpinLoop, At, Goto, core, regs, bus, counters, peri, user
  <2>6. ResultInv'
    BY <1>1 DEF CtlInv, EchoTypeOK, FlagsOK, CountsOK, PostedOK, ResultInv, ControlInv,
       HandlerAt, SpinLoop, At, Goto, core, regs, bus, counters, peri, user
  <2> QED
    BY <2>1, <2>2, <2>3, <2>4, <2>5, <2>6 DEF CtlInv, EchoTypeOK
<1>2. CASE pc = "spincount"
  <2>1. FlagsOK'
    BY <1>2 DEF CtlInv, EchoTypeOK, FlagsOK, SpinLoop, At, Goto, core, bus, counters, peri,
       user
  <2>2. CountsOK'
    BY <1>2 DEF CtlInv, EchoTypeOK, CountsOK, SpinLoop, At, Goto, core, bus, counters, peri,
       user
  <2>3. PostedOK'
    BY <1>2 DEF CtlInv, EchoTypeOK, PostedOK, SpinLoop, At, Goto, core, bus, counters, peri,
       user
  <2>4. ControlInv'
    BY <1>2 DEF CtlInv, EchoTypeOK, FlagsOK, CountsOK, PostedOK, ControlInv, HandlerAt, Putc,
       PrintThen, SpinLoop, At, Goto, core, bus, counters, peri, user
  <2>5. MsiInv'
    BY <1>2 DEF CtlInv, EchoTypeOK, FlagsOK, CountsOK, PostedOK, MsiInv, ControlInv,
       HandlerAt, NoMsip, Becoming, SpinLoop, At, Goto, core, bus, counters, peri, user
  <2>6. ResultInv'
    BY <1>2 DEF CtlInv, EchoTypeOK, FlagsOK, CountsOK, PostedOK, ResultInv, ControlInv,
       HandlerAt, SpinLoop, At, Goto, core, bus, counters, peri, user
  <2> QED
    BY <2>1, <2>2, <2>3, <2>4, <2>5, <2>6 DEF CtlInv, EchoTypeOK
<1>3. CASE pc = "unmsie"
  <2>1. FlagsOK'
    BY <1>3 DEF CtlInv, EchoTypeOK, FlagsOK, SpinLoop, At, Goto, regs, bus, counters, peri,
       user
  <2>2. CountsOK'
    BY <1>3 DEF CtlInv, EchoTypeOK, CountsOK, SpinLoop, At, Goto, regs, bus, counters, peri,
       user
  <2>3. PostedOK'
    BY <1>3 DEF CtlInv, EchoTypeOK, PostedOK, SpinLoop, At, Goto, regs, bus, counters, peri,
       user
  <2>4. ControlInv'
    <3>1. ~rdy /\ MIE /\ mie = {"MSI"} /\ msi_count = IF msip THEN 0 ELSE 1
      BY <1>3 DEF CtlInv, EchoTypeOK, FlagsOK, ControlInv, MsiInv, Putc, PrintThen
    <3>2. ~IntPending
      BY <1>3, <3>1 DEF SpinLoop, At, MayRun, MemoryFirst, NotTaken
    <3>3. ~msip
      BY <3>1, <3>2 DEF IntPending, Pending
    <3>4. msi_count = 1
      BY <3>1, <3>3
    <3>5. /\ mie' = mie \ {"MSI"} /\ pc' = "msimsg" /\ UNCHANGED <<rdy, saved_rdy, mepc, cause, MIE, MPIE, stray>>
      BY <1>3, <3>4 DEF SpinLoop, At, Goto, user
    <3> QED
      BY <1>3, <3>1, <3>5 DEF CtlInv, ControlInv, HandlerAt, Putc, PrintThen
  <2>5. MsiInv'
    BY <1>3 DEF CtlInv, EchoTypeOK, FlagsOK, CountsOK, PostedOK, MsiInv, ControlInv,
       HandlerAt, NoMsip, Becoming, SpinLoop, At, Goto, regs, bus, counters, peri, user
  <2>6. ResultInv'
    BY <1>3 DEF CtlInv, EchoTypeOK, FlagsOK, CountsOK, PostedOK, ResultInv, ControlInv,
       HandlerAt, SpinLoop, At, Goto, regs, bus, counters, peri, user
  <2> QED
    BY <2>1, <2>2, <2>3, <2>4, <2>5, <2>6 DEF CtlInv, EchoTypeOK
<1> QED
  BY <1>1, <1>2, <1>3 DEF SpinLoop, At

\* Opening to the external interrupt keeps the control invariant.
LEMMA ExternalInterruptCtl == CtlInv /\ ExternalInterrupt => CtlInv'
<1> SUFFICES ASSUME CtlInv, ExternalInterrupt PROVE CtlInv'
  OBVIOUS
<1> USE DEF MainPc, InHandler, Main, UpToMask, UpToEcall, Arming, Waiting, Late
<1>0. pc = "meie"
  BY DEF ExternalInterrupt, At
<1>1. FlagsOK'
  BY <1>0 DEF CtlInv, EchoTypeOK, FlagsOK, ExternalInterrupt, At, Goto, regs, bus, counters,
     peri, user
<1>2. CountsOK'
  BY <1>0 DEF CtlInv, EchoTypeOK, CountsOK, ExternalInterrupt, At, Goto, regs, bus, counters,
     peri, user
<1>3. PostedOK'
  BY <1>0 DEF CtlInv, EchoTypeOK, PostedOK, ExternalInterrupt, At, Goto, regs, bus, counters,
     peri, user
<1>4. ControlInv'
  BY <1>0 DEF CtlInv, EchoTypeOK, FlagsOK, CountsOK, PostedOK, ControlInv, HandlerAt, Putc,
     PrintThen, ExternalInterrupt, At, Goto, regs, bus, counters, peri, user
<1>5. MsiInv'
  BY <1>0 DEF CtlInv, EchoTypeOK, FlagsOK, CountsOK, PostedOK, MsiInv, ControlInv, HandlerAt,
     NoMsip, Becoming, ExternalInterrupt, At, Goto, regs, bus, counters, peri, user
<1>6. ResultInv'
  BY <1>0 DEF CtlInv, EchoTypeOK, FlagsOK, CountsOK, PostedOK, ResultInv, ControlInv,
     HandlerAt, ExternalInterrupt, At, Goto, regs, bus, counters, peri, user
<1> QED
  BY <1>1, <1>2, <1>3, <1>4, <1>5, <1>6 DEF CtlInv, EchoTypeOK

\* The loop around wfi keeps the control invariant.
LEMMA SleepLoopCtl == CtlInv /\ SleepLoop => CtlInv'
<1> SUFFICES ASSUME CtlInv, SleepLoop PROVE CtlInv'
  OBVIOUS
<1> USE DEF MainPc, InHandler, Main, UpToMask, UpToEcall, Arming, Waiting, Late
<1>1. CASE pc = "chars"
  <2>1. FlagsOK'
    BY <1>1 DEF CtlInv, EchoTypeOK, FlagsOK, SleepLoop, At, Goto, core, regs, bus, counters,
       peri, user
  <2>2. CountsOK'
    BY <1>1 DEF CtlInv, EchoTypeOK, CountsOK, SleepLoop, At, Goto, core, regs, bus, counters,
       peri, user
  <2>3. PostedOK'
    BY <1>1 DEF CtlInv, EchoTypeOK, PostedOK, SleepLoop, At, Goto, core, regs, bus, counters,
       peri, user
  <2>4. ControlInv'
    BY <1>1 DEF CtlInv, EchoTypeOK, FlagsOK, CountsOK, PostedOK, ControlInv, HandlerAt, Putc,
       PrintThen, SleepLoop, At, Goto, core, regs, bus, counters, peri, user
  <2>5. MsiInv'
    BY <1>1 DEF CtlInv, EchoTypeOK, FlagsOK, CountsOK, PostedOK, MsiInv, ControlInv,
       HandlerAt, NoMsip, Becoming, SleepLoop, At, Goto, core, regs, bus, counters, peri, user
  <2>6. ResultInv'
    BY <1>1 DEF CtlInv, EchoTypeOK, FlagsOK, CountsOK, PostedOK, ResultInv, ControlInv,
       HandlerAt, SleepLoop, At, Goto, core, regs, bus, counters, peri, user
  <2> QED
    BY <2>1, <2>2, <2>3, <2>4, <2>5, <2>6 DEF CtlInv, EchoTypeOK
<1>2. CASE pc = "bad"
  <2>1. FlagsOK'
    BY <1>2 DEF CtlInv, EchoTypeOK, FlagsOK, SleepLoop, At, Goto, core, regs, bus, counters,
       peri, user
  <2>2. CountsOK'
    BY <1>2 DEF CtlInv, EchoTypeOK, CountsOK, SleepLoop, At, Goto, core, regs, bus, counters,
       peri, user
  <2>3. PostedOK'
    BY <1>2 DEF CtlInv, EchoTypeOK, PostedOK, SleepLoop, At, Goto, core, regs, bus, counters,
       peri, user
  <2>4. ControlInv'
    BY <1>2 DEF CtlInv, EchoTypeOK, FlagsOK, CountsOK, PostedOK, ControlInv, HandlerAt, Putc,
       PrintThen, SleepLoop, At, Goto, core, regs, bus, counters, peri, user
  <2>5. MsiInv'
    BY <1>2 DEF CtlInv, EchoTypeOK, FlagsOK, CountsOK, PostedOK, MsiInv, ControlInv,
       HandlerAt, NoMsip, Becoming, SleepLoop, At, Goto, core, regs, bus, counters, peri, user
  <2>6. ResultInv'
    BY <1>2 DEF CtlInv, EchoTypeOK, FlagsOK, CountsOK, PostedOK, ResultInv, ControlInv,
       HandlerAt, SleepLoop, At, Goto, core, regs, bus, counters, peri, user
  <2> QED
    BY <2>1, <2>2, <2>3, <2>4, <2>5, <2>6 DEF CtlInv, EchoTypeOK
<1>3. CASE pc = "branch"
  <2>1. FlagsOK'
    BY <1>3 DEF CtlInv, EchoTypeOK, FlagsOK, SleepLoop, At, Goto, core, regs, bus, counters,
       peri, user
  <2>2. CountsOK'
    BY <1>3 DEF CtlInv, EchoTypeOK, CountsOK, SleepLoop, At, Goto, core, regs, bus, counters,
       peri, user
  <2>3. PostedOK'
    BY <1>3 DEF CtlInv, EchoTypeOK, PostedOK, SleepLoop, At, Goto, core, regs, bus, counters,
       peri, user
  <2>4. ControlInv'
    BY <1>3 DEF CtlInv, EchoTypeOK, FlagsOK, CountsOK, PostedOK, ControlInv, HandlerAt, Putc,
       PrintThen, SleepLoop, At, Goto, core, regs, bus, counters, peri, user
  <2>5. MsiInv'
    BY <1>3 DEF CtlInv, EchoTypeOK, FlagsOK, CountsOK, PostedOK, MsiInv, ControlInv,
       HandlerAt, NoMsip, Becoming, SleepLoop, At, Goto, core, regs, bus, counters, peri, user
  <2>6. ResultInv'
    BY <1>3 DEF CtlInv, EchoTypeOK, FlagsOK, CountsOK, PostedOK, ResultInv, ControlInv,
       HandlerAt, SleepLoop, At, Goto, core, regs, bus, counters, peri, user
  <2> QED
    BY <2>1, <2>2, <2>3, <2>4, <2>5, <2>6 DEF CtlInv, EchoTypeOK
<1>4. CASE pc = "wfi"
  <2>0. UNCHANGED <<core, regs, counters, result, bus, peri, user>> /\ UNCHANGED <<rdy, saved_rdy>>
    BY <1>4 DEF SleepLoop, At, Goto
  <2>1. FlagsOK'
    <3>1. /\ rdy' = rdy /\ saved_rdy' = saved_rdy /\ MIE' = MIE /\ MPIE' = MPIE /\ mie' = mie
          /\ bad_cause' = bad_cause /\ msip' = msip /\ result' = result
      BY <2>0 DEF core, regs, bus, counters, peri, user
    <3>2. FlagsOK
      BY DEF CtlInv, EchoTypeOK
    <3> QED
      BY <3>1, <3>2 DEF FlagsOK
  <2>2. CountsOK'
    BY <1>4 DEF CtlInv, EchoTypeOK, CountsOK, SleepLoop, At, Goto, core, regs, bus, counters,
       peri, user
  <2>3. PostedOK'
    BY <1>4 DEF CtlInv, EchoTypeOK, PostedOK, SleepLoop, At, Goto, core, regs, bus, counters,
       peri, user
  <2>4. ControlInv'
    BY <1>4 DEF CtlInv, EchoTypeOK, FlagsOK, CountsOK, PostedOK, ControlInv, HandlerAt, Putc,
       PrintThen, SleepLoop, At, Goto, core, regs, bus, counters, peri, user
  <2>5. MsiInv'
    BY <1>4 DEF CtlInv, EchoTypeOK, FlagsOK, CountsOK, PostedOK, MsiInv, ControlInv,
       HandlerAt, NoMsip, Becoming, SleepLoop, At, Goto, core, regs, bus, counters, peri, user
  <2>6. ResultInv'
    BY <1>4 DEF CtlInv, EchoTypeOK, FlagsOK, CountsOK, PostedOK, ResultInv, ControlInv,
       HandlerAt, SleepLoop, At, Goto, core, regs, bus, counters, peri, user
  <2> QED
    BY <2>1, <2>2, <2>3, <2>4, <2>5, <2>6 DEF CtlInv, EchoTypeOK
<1> QED
  BY <1>1, <1>2, <1>3, <1>4 DEF SleepLoop, At

\* The verdict of main keeps the control invariant.
LEMMA ReportCtl == CtlInv /\ Report => CtlInv'
<1> SUFFICES ASSUME CtlInv, Report PROVE CtlInv'
  OBVIOUS
<1> USE DEF MainPc, InHandler, Main, UpToMask, UpToEcall, Arming, Waiting, Late
<1>1. CASE pc = "disable"
  <2>1. FlagsOK'
    BY <1>1 DEF CtlInv, EchoTypeOK, FlagsOK, Report, At, Goto, regs, bus, counters, peri, user
  <2>2. CountsOK'
    BY <1>1 DEF CtlInv, EchoTypeOK, CountsOK, Report, At, Goto, regs, bus, counters, peri, user
  <2>3. PostedOK'
    BY <1>1 DEF CtlInv, EchoTypeOK, PostedOK, Report, At, Goto, regs, bus, counters, peri, user
  <2>4. ControlInv'
    BY <1>1 DEF CtlInv, EchoTypeOK, FlagsOK, CountsOK, PostedOK, ControlInv, HandlerAt, Putc,
       PrintThen, Report, At, Goto, regs, bus, counters, peri, user
  <2>5. MsiInv'
    BY <1>1 DEF CtlInv, EchoTypeOK, FlagsOK, CountsOK, PostedOK, MsiInv, ControlInv,
       HandlerAt, NoMsip, Becoming, Report, At, Goto, regs, bus, counters, peri, user
  <2>6. ResultInv'
    BY <1>1 DEF CtlInv, EchoTypeOK, FlagsOK, CountsOK, PostedOK, ResultInv, ControlInv,
       HandlerAt, Report, At, Goto, regs, bus, counters, peri, user
  <2> QED
    BY <2>1, <2>2, <2>3, <2>4, <2>5, <2>6 DEF CtlInv, EchoTypeOK
<1>2. CASE pc = "ctrl0"
  <2>1. FlagsOK'
    BY <1>2 DEF CtlInv, EchoTypeOK, FlagsOK, Report, At, Goto, Post, core, regs, counters,
       peri, user
  <2>2. CountsOK'
    BY <1>2 DEF CtlInv, EchoTypeOK, CountsOK, Report, At, Goto, Post, core, regs, counters,
       peri, user
  <2>3. PostedOK'
    BY <1>2 DEF CtlInv, EchoTypeOK, PostedOK, Report, At, Goto, Post, core, regs, counters,
       peri, user
  <2>4. ControlInv'
    BY <1>2 DEF CtlInv, EchoTypeOK, FlagsOK, CountsOK, PostedOK, ControlInv, HandlerAt, Putc,
       PrintThen, Report, At, Goto, Post, core, regs, counters, peri, user
  <2>5. MsiInv'
    BY <1>2 DEF CtlInv, EchoTypeOK, FlagsOK, CountsOK, PostedOK, MsiInv, ControlInv,
       HandlerAt, NoMsip, Becoming, Report, At, Goto, Post, core, regs, counters, peri, user
  <2>6. ResultInv'
    BY <1>2 DEF CtlInv, EchoTypeOK, FlagsOK, CountsOK, PostedOK, ResultInv, ControlInv,
       HandlerAt, Report, At, Goto, Post, core, regs, counters, peri, user
  <2> QED
    BY <2>1, <2>2, <2>3, <2>4, <2>5, <2>6 DEF CtlInv, EchoTypeOK
<1>3. CASE pc = "mark"
  <2>1. FlagsOK'
    BY <1>3 DEF CtlInv, EchoTypeOK, FlagsOK, Report, At, Goto, core, regs, bus, counters,
       peri, user
  <2>2. CountsOK'
    BY <1>3 DEF CtlInv, EchoTypeOK, CountsOK, Report, At, Goto, core, regs, bus, counters,
       peri, user
  <2>3. PostedOK'
    BY <1>3 DEF CtlInv, EchoTypeOK, PostedOK, Report, At, Goto, core, regs, bus, counters,
       peri, user
  <2>4. ControlInv'
    BY <1>3 DEF CtlInv, EchoTypeOK, FlagsOK, CountsOK, PostedOK, ControlInv, HandlerAt, Putc,
       PrintThen, Report, At, Goto, core, regs, bus, counters, peri, user
  <2>5. MsiInv'
    BY <1>3 DEF CtlInv, EchoTypeOK, FlagsOK, CountsOK, PostedOK, MsiInv, ControlInv,
       HandlerAt, NoMsip, Becoming, Report, At, Goto, core, regs, bus, counters, peri, user
  <2>6. ResultInv'
    <3>1. /\ pc' = "donemsg" /\ UNCHANGED <<mepc, cause, irq_chars, sync_traps, bad_cause, stray>>
           /\ result' = IF bad_cause \/ irq_chars < PHASE_CHARS THEN "BAD" ELSE "GOOD"
      BY <1>3 DEF Report, At, Goto, core, counters, user
    <3>2. result' = "GOOD" => ~bad_cause /\ irq_chars >= PHASE_CHARS
      BY <3>1, EchoAssumption DEF CtlInv, EchoTypeOK, CountsOK
    <3> QED
      BY <1>3, <3>1, <3>2 DEF CtlInv, ResultInv
  <2> QED
    BY <2>1, <2>2, <2>3, <2>4, <2>5, <2>6 DEF CtlInv, EchoTypeOK
<1> QED
  BY <1>1, <1>2, <1>3 DEF Report, At

\* The handler looking at mcause keeps the control invariant.
LEMMA DispatchCauseCtl == CtlInv /\ DispatchCause => CtlInv'
<1> SUFFICES ASSUME CtlInv, DispatchCause PROVE CtlInv'
  OBVIOUS
<1> USE DEF MainPc, InHandler, Main, UpToMask, UpToEcall, Arming, Waiting, Late
<1>0. pc = "h_cause"
  BY DEF DispatchCause, At
<1>1. FlagsOK'
  BY <1>0 DEF CtlInv, EchoTypeOK, FlagsOK, DispatchCause, At, Goto, core, regs, bus, counters,
     peri, user
<1>2. CountsOK'
  BY <1>0 DEF CtlInv, EchoTypeOK, CountsOK, DispatchCause, At, Goto, core, regs, bus,
     counters, peri, user
<1>3. PostedOK'
  BY <1>0 DEF CtlInv, EchoTypeOK, PostedOK, DispatchCause, At, Goto, core, regs, bus,
     counters, peri, user
<1>4. ControlInv'
  BY <1>0 DEF CtlInv, EchoTypeOK, FlagsOK, CountsOK, PostedOK, ControlInv, HandlerAt, Putc,
     PrintThen, DispatchCause, At, Goto, core, regs, bus, counters, peri, user
<1>5. MsiInv'
  BY <1>0 DEF CtlInv, EchoTypeOK, FlagsOK, CountsOK, PostedOK, MsiInv, ControlInv, HandlerAt,
     NoMsip, Becoming, DispatchCause, At, Goto, core, regs, bus, counters, peri, user
<1>6. ResultInv'
  BY <1>0 DEF CtlInv, EchoTypeOK, FlagsOK, CountsOK, PostedOK, ResultInv, ControlInv,
     HandlerAt, DispatchCause, At, Goto, core, regs, bus, counters, peri, user
<1> QED
  BY <1>1, <1>2, <1>3, <1>4, <1>5, <1>6 DEF CtlInv, EchoTypeOK

\* The software interrupt of the handler keeps the control invariant.
LEMMA HandleMsiCtl == CtlInv /\ HandleMsi => CtlInv'
<1> SUFFICES ASSUME CtlInv, HandleMsi PROVE CtlInv'
  OBVIOUS
<1> USE DEF MainPc, InHandler, Main, UpToMask, UpToEcall, Arming, Waiting, Late
<1>1. CASE pc = "h_msip"
  <2>1. FlagsOK'
    BY <1>1 DEF CtlInv, EchoTypeOK, FlagsOK, HandleMsi, At, Goto, Post, core, regs, counters,
       peri, user
  <2>2. CountsOK'
    BY <1>1 DEF CtlInv, EchoTypeOK, CountsOK, HandleMsi, At, Goto, Post, core, regs, counters,
       peri, user
  <2>3. PostedOK'
    <3>1. posted' = <<[reg |-> "MSIP", val |-> FALSE]>>
      BY <1>1 DEF HandleMsi, At, Post
    <3>2. posted'[1].val = FALSE
      BY <3>1
    <3> QED
      BY <3>2 DEF PostedOK
  <2>4. ControlInv'
    BY <1>1 DEF CtlInv, EchoTypeOK, FlagsOK, CountsOK, PostedOK, ControlInv, HandlerAt, Putc,
       PrintThen, HandleMsi, At, Goto, Post, core, regs, counters, peri, user
  <2>5. MsiInv'
    <3>1. /\ pc' = "h_msi_count" /\ posted' = <<[reg |-> "MSIP", val |-> FALSE]>>
           /\ UNCHANGED <<rdy, mepc, cause, mie, msip, msi_count>>
      BY <1>1 DEF HandleMsi, At, Goto, Post, core, counters, peri
    <3>2. cause = "MSI" /\ mepc \in Waiting /\ msi_count = 0
      BY <1>1 DEF CtlInv, ControlInv, HandlerAt, MsiInv
    <3>3. posted' # << >> /\ posted'[1].reg = "MSIP" /\ posted'[1].val = FALSE
      BY <3>1
    <3>4. Becoming(FALSE)'
      BY <3>3 DEF Becoming, NoMsip
    <3> QED
      BY <1>1, <3>1, <3>2, <3>4 DEF CtlInv, MsiInv
  <2>6. ResultInv'
    BY <1>1 DEF CtlInv, EchoTypeOK, FlagsOK, CountsOK, PostedOK, ResultInv, ControlInv,
       HandlerAt, HandleMsi, At, Goto, Post, core, regs, counters, peri, user
  <2> QED
    BY <2>1, <2>2, <2>3, <2>4, <2>5, <2>6 DEF CtlInv, EchoTypeOK
<1>2. CASE pc = "h_msi_count"
  <2>1. FlagsOK'
    BY <1>2 DEF CtlInv, EchoTypeOK, FlagsOK, HandleMsi, At, Goto, core, regs, bus, peri, user
  <2>2. CountsOK'
    BY <1>2 DEF CtlInv, EchoTypeOK, CountsOK, HandleMsi, At, Goto, core, regs, bus, peri, user
  <2>3. PostedOK'
    BY <1>2 DEF CtlInv, EchoTypeOK, PostedOK, HandleMsi, At, Goto, core, regs, bus, peri, user
  <2>4. ControlInv'
    BY <1>2 DEF CtlInv, EchoTypeOK, FlagsOK, CountsOK, PostedOK, ControlInv, HandlerAt, Putc,
       PrintThen, HandleMsi, At, Goto, core, regs, bus, peri, user
  <2>5. MsiInv'
    <3>1. /\ pc' = "h_X" /\ msi_count' = msi_count + 1
           /\ UNCHANGED <<rdy, mepc, cause, mie, posted, msip>>
      BY <1>2 DEF HandleMsi, At, Goto, core, bus, peri
    <3>2. cause = "MSI" /\ ~rdy
      BY <1>2 DEF CtlInv, ControlInv, HandlerAt, Putc, PrintThen
    <3>3. msi_count = 0 /\ Becoming(FALSE) /\ mepc \in Waiting
      BY <1>2, <3>2 DEF CtlInv, MsiInv
    <3>4. msi_count' = 1 /\ Becoming(FALSE)'
      BY <3>1, <3>3 DEF Becoming, NoMsip
    <3> QED
      BY <1>2, <3>1, <3>2, <3>3, <3>4 DEF CtlInv, MsiInv
  <2>6. ResultInv'
    BY <1>2 DEF CtlInv, EchoTypeOK, FlagsOK, CountsOK, PostedOK, ResultInv, ControlInv,
       HandlerAt, HandleMsi, At, Goto, core, regs, bus, peri, user
  <2> QED
    BY <2>1, <2>2, <2>3, <2>4, <2>5, <2>6 DEF CtlInv, EchoTypeOK
<1> QED
  BY <1>1, <1>2 DEF HandleMsi, At

\* The environment call of the handler keeps the control invariant.
LEMMA HandleEcallCtl == CtlInv /\ HandleEcall => CtlInv'
<1> SUFFICES ASSUME CtlInv, HandleEcall PROVE CtlInv'
  OBVIOUS
<1> USE DEF MainPc, InHandler, Main, UpToMask, UpToEcall, Arming, Waiting, Late
<1>0. pc = "h_ecall"
  BY DEF HandleEcall, At
<1>1. FlagsOK'
  BY <1>0 DEF CtlInv, EchoTypeOK, FlagsOK, HandleEcall, At, Goto, Unvectored, regs, bus, peri, user
<1>2. CountsOK'
  BY <1>0 DEF CtlInv, EchoTypeOK, CountsOK, HandleEcall, At, Goto, Unvectored, regs, bus, peri, user
<1>3. PostedOK'
  BY <1>0 DEF CtlInv, EchoTypeOK, PostedOK, HandleEcall, At, Goto, Unvectored, regs, bus, peri, user
<1>4. ControlInv'
  BY <1>0 DEF CtlInv, EchoTypeOK, FlagsOK, CountsOK, PostedOK, ControlInv, HandlerAt, Putc,
     PrintThen, HandleEcall, At, Goto, Unvectored, regs, bus, peri, user
<1>5. MsiInv'
  BY <1>0 DEF CtlInv, EchoTypeOK, FlagsOK, CountsOK, PostedOK, MsiInv, ControlInv, HandlerAt,
     NoMsip, Becoming, HandleEcall, At, Goto, Unvectored, regs, bus, peri, user
<1>6. ResultInv'
  BY <1>0 DEF CtlInv, EchoTypeOK, FlagsOK, CountsOK, PostedOK, ResultInv, ControlInv,
     HandlerAt, HandleEcall, At, Goto, Unvectored, regs, bus, peri, user
<1> QED
  BY <1>1, <1>2, <1>3, <1>4, <1>5, <1>6 DEF CtlInv, EchoTypeOK

\* The unexpected cause of the handler keeps the control invariant.
LEMMA HandleBadCtl == CtlInv /\ HandleBad => CtlInv'
<1> SUFFICES ASSUME CtlInv, HandleBad PROVE CtlInv'
  OBVIOUS
<1> USE DEF MainPc, InHandler, Main, UpToMask, UpToEcall, Arming, Waiting, Late
<1>0. pc = "h_bad"
  BY DEF HandleBad, At
<1>1. FlagsOK'
  BY <1>0 DEF CtlInv, EchoTypeOK, FlagsOK, HandleBad, At, Goto, regs, bus, peri, user
<1>2. CountsOK'
  BY <1>0 DEF CtlInv, EchoTypeOK, CountsOK, HandleBad, At, Goto, regs, bus, peri, user
<1>3. PostedOK'
  BY <1>0 DEF CtlInv, EchoTypeOK, PostedOK, HandleBad, At, Goto, regs, bus, peri, user
<1>4. ControlInv'
  BY <1>0 DEF CtlInv, EchoTypeOK, FlagsOK, CountsOK, PostedOK, ControlInv, HandlerAt, Putc,
     PrintThen, HandleBad, At, Goto, regs, bus, peri, user
<1>5. MsiInv'
  BY <1>0 DEF CtlInv, EchoTypeOK, FlagsOK, CountsOK, PostedOK, MsiInv, ControlInv, HandlerAt,
     NoMsip, Becoming, HandleBad, At, Goto, regs, bus, peri, user
<1>6. ResultInv'
  BY <1>0 DEF CtlInv, EchoTypeOK, FlagsOK, CountsOK, PostedOK, ResultInv, ControlInv,
     HandlerAt, HandleBad, At, Goto, regs, bus, peri, user
<1> QED
  BY <1>1, <1>2, <1>3, <1>4, <1>5, <1>6 DEF CtlInv, EchoTypeOK

\* The external interrupt of the handler keeps the control invariant.
LEMMA HandleMeiCtl == CtlInv /\ HandleMei => CtlInv'
<1> SUFFICES ASSUME CtlInv, HandleMei PROVE CtlInv'
  OBVIOUS
<1> USE DEF MainPc, InHandler, Main, UpToMask, UpToEcall, Arming, Waiting, Late
<1>1. CASE pc = "h_status"
  <2>1. FlagsOK'
    BY <1>1 DEF CtlInv, EchoTypeOK, FlagsOK, HandleMei, At, Goto, PeriRead, core, regs, bus,
       counters, peri, user
  <2>2. CountsOK'
    BY <1>1 DEF CtlInv, EchoTypeOK, CountsOK, HandleMei, At, Goto, PeriRead, core, regs, bus,
       counters, peri, user
  <2>3. PostedOK'
    BY <1>1 DEF CtlInv, EchoTypeOK, PostedOK, HandleMei, At, Goto, PeriRead, core, regs, bus,
       counters, peri, user
  <2>4. ControlInv'
    BY <1>1 DEF CtlInv, EchoTypeOK, FlagsOK, CountsOK, PostedOK, ControlInv, HandlerAt, Putc,
       PrintThen, HandleMei, At, Goto, PeriRead, core, regs, bus, counters, peri, user
  <2>5. MsiInv'
    BY <1>1 DEF CtlInv, EchoTypeOK, FlagsOK, CountsOK, PostedOK, MsiInv, ControlInv,
       HandlerAt, NoMsip, Becoming, HandleMei, At, Goto, PeriRead, core, regs, bus, counters,
       peri, user
  <2>6. ResultInv'
    BY <1>1 DEF CtlInv, EchoTypeOK, FlagsOK, CountsOK, PostedOK, ResultInv, ControlInv,
       HandlerAt, HandleMei, At, Goto, PeriRead, core, regs, bus, counters, peri, user
  <2> QED
    BY <2>1, <2>2, <2>3, <2>4, <2>5, <2>6 DEF CtlInv, EchoTypeOK
<1>2. CASE pc = "h_rxdata"
  <2>1. FlagsOK'
    BY <1>2 DEF CtlInv, EchoTypeOK, FlagsOK, HandleMei, At, Goto, PeriRead, core, bus,
       counters, user
  <2>2. CountsOK'
    BY <1>2 DEF CtlInv, EchoTypeOK, CountsOK, HandleMei, At, Goto, PeriRead, core, bus,
       counters, user
  <2>3. PostedOK'
    BY <1>2 DEF CtlInv, EchoTypeOK, PostedOK, HandleMei, At, Goto, PeriRead, core, bus,
       counters, user
  <2>4. ControlInv'
    BY <1>2 DEF CtlInv, EchoTypeOK, FlagsOK, CountsOK, PostedOK, ControlInv, HandlerAt, Putc,
       PrintThen, HandleMei, At, Goto, PeriRead, core, bus, counters, user
  <2>5. MsiInv'
    BY <1>2 DEF CtlInv, EchoTypeOK, FlagsOK, CountsOK, PostedOK, MsiInv, ControlInv,
       HandlerAt, NoMsip, Becoming, HandleMei, At, Goto, PeriRead, core, bus, counters, user
  <2>6. ResultInv'
    BY <1>2 DEF CtlInv, EchoTypeOK, FlagsOK, CountsOK, PostedOK, ResultInv, ControlInv,
       HandlerAt, HandleMei, At, Goto, PeriRead, core, bus, counters, user
  <2> QED
    BY <2>1, <2>2, <2>3, <2>4, <2>5, <2>6 DEF CtlInv, EchoTypeOK
<1>3. CASE pc = "h_echo"
  <2>1. FlagsOK'
    BY <1>3 DEF CtlInv, EchoTypeOK, FlagsOK, HandleMei, At, Post, PeriRead, uart_putc, core,
       regs, bus, counters, peri, user
  <2>2. CountsOK'
    BY <1>3 DEF CtlInv, EchoTypeOK, CountsOK, HandleMei, At, Post, PeriRead, uart_putc, core,
       regs, bus, counters, peri, user
  <2>3. PostedOK'
    BY <1>3 DEF CtlInv, EchoTypeOK, PostedOK, HandleMei, At, Post, PeriRead, uart_putc, core,
       regs, bus, counters, peri, user
  <2>4. ControlInv'
    BY <1>3 DEF CtlInv, EchoTypeOK, FlagsOK, CountsOK, PostedOK, ControlInv, HandlerAt, Putc,
       PrintThen, HandleMei, At, Post, PeriRead, uart_putc, core, regs, bus, counters, peri,
       user
  <2>5. MsiInv'
    BY <1>3 DEF CtlInv, EchoTypeOK, FlagsOK, CountsOK, PostedOK, MsiInv, ControlInv,
       HandlerAt, NoMsip, Becoming, HandleMei, At, Post, PeriRead, uart_putc, core, regs, bus,
       counters, peri, user
  <2>6. ResultInv'
    BY <1>3 DEF CtlInv, EchoTypeOK, FlagsOK, CountsOK, PostedOK, ResultInv, ControlInv,
       HandlerAt, HandleMei, At, Post, PeriRead, uart_putc, core, regs, bus, counters, peri,
       user
  <2> QED
    BY <2>1, <2>2, <2>3, <2>4, <2>5, <2>6 DEF CtlInv, EchoTypeOK
<1>4. CASE pc = "h_count"
  <2>1. FlagsOK'
    BY <1>4 DEF CtlInv, EchoTypeOK, FlagsOK, HandleMei, At, Goto, core, regs, bus, peri, user
  <2>2. CountsOK'
    BY <1>4 DEF CtlInv, EchoTypeOK, CountsOK, HandleMei, At, Goto, core, regs, bus, peri, user
  <2>3. PostedOK'
    BY <1>4 DEF CtlInv, EchoTypeOK, PostedOK, HandleMei, At, Goto, core, regs, bus, peri, user
  <2>4. ControlInv'
    BY <1>4 DEF CtlInv, EchoTypeOK, FlagsOK, CountsOK, PostedOK, ControlInv, HandlerAt, Putc,
       PrintThen, HandleMei, At, Goto, core, regs, bus, peri, user
  <2>5. MsiInv'
    BY <1>4 DEF CtlInv, EchoTypeOK, FlagsOK, CountsOK, PostedOK, MsiInv, ControlInv,
       HandlerAt, NoMsip, Becoming, HandleMei, At, Goto, core, regs, bus, peri, user
  <2>6. ResultInv'
    <3>1. /\ pc' = "h_status" /\ irq_chars' = irq_chars + 1
           /\ UNCHANGED <<mepc, cause, sync_traps, bad_cause, result, stray>>
      BY <1>4 DEF HandleMei, At, Goto, core, user
    <3>2. irq_chars >= PHASE_CHARS => irq_chars' >= PHASE_CHARS
      BY <3>1, EchoAssumption DEF CtlInv, EchoTypeOK, CountsOK
    <3> QED
      BY <1>4, <3>1, <3>2 DEF CtlInv, ResultInv
  <2> QED
    BY <2>1, <2>2, <2>3, <2>4, <2>5, <2>6 DEF CtlInv, EchoTypeOK
<1> QED
  BY <1>1, <1>2, <1>3, <1>4 DEF HandleMei, At

\* The return from the trap keeps the control invariant.
LEMMA MretCtl == CtlInv /\ Mret => CtlInv'
<1> SUFFICES ASSUME CtlInv, Mret PROVE CtlInv'
  OBVIOUS
<1> USE DEF MainPc, InHandler, Main, UpToMask, UpToEcall, Arming, Waiting, Late
<1>0. pc = "mret"
  BY DEF Mret, At
<1>1. FlagsOK'
  BY <1>0 DEF CtlInv, EchoTypeOK, FlagsOK, Mret, At, regs, bus, counters, peri, user
<1>2. CountsOK'
  BY <1>0 DEF CtlInv, EchoTypeOK, CountsOK, Mret, At, regs, bus, counters, peri, user
<1>3. PostedOK'
  BY <1>0 DEF CtlInv, EchoTypeOK, PostedOK, Mret, At, regs, bus, counters, peri, user
<1>4. ControlInv'
  BY <1>0 DEF CtlInv, EchoTypeOK, FlagsOK, CountsOK, PostedOK, ControlInv, HandlerAt, Putc,
     PrintThen, Mret, At, regs, bus, counters, peri, user
<1>5. MsiInv'
  BY <1>0 DEF CtlInv, EchoTypeOK, FlagsOK, CountsOK, PostedOK, MsiInv, ControlInv, HandlerAt,
     NoMsip, Becoming, Mret, At, regs, bus, counters, peri, user
<1>6. ResultInv'
  BY <1>0 DEF CtlInv, EchoTypeOK, FlagsOK, CountsOK, PostedOK, ResultInv, ControlInv,
     HandlerAt, Mret, At, regs, bus, counters, peri, user
<1> QED
  BY <1>1, <1>2, <1>3, <1>4, <1>5, <1>6 DEF CtlInv, EchoTypeOK

\* Taking an interrupt keeps the control invariant.
LEMMA TakeInterruptCtl == CtlInv /\ TakeInterrupt => CtlInv'
<1> SUFFICES ASSUME CtlInv, TakeInterrupt PROVE CtlInv'
  OBVIOUS
<1> USE DEF MainPc, InHandler, Main, UpToMask, UpToEcall, Arming, Waiting, Late
<1>1. FlagsOK'
  BY EchoAssumption DEF CtlInv, EchoTypeOK, FlagsOK, TakeInterrupt, IntPending, Pending,
     NotTaken, Enter, TrapVector, Unvectored, regs, bus, counters, peri, user, Highest
<1>2. CountsOK'
  BY EchoAssumption DEF CtlInv, EchoTypeOK, CountsOK, TakeInterrupt, IntPending, Pending,
     NotTaken, Enter, TrapVector, Unvectored, regs, bus, counters, peri, user, Highest
<1>3. PostedOK'
  BY EchoAssumption DEF CtlInv, EchoTypeOK, PostedOK, TakeInterrupt, IntPending, Pending,
     NotTaken, Enter, TrapVector, Unvectored, regs, bus, counters, peri, user, Highest
<1>4. ControlInv'
  BY EchoAssumption DEF CtlInv, EchoTypeOK, FlagsOK, CountsOK, PostedOK, ControlInv,
     HandlerAt, Putc, PrintThen, TakeInterrupt, IntPending, Pending, NotTaken, Enter, TrapVector, Unvectored, regs,
     bus, counters, peri, user, Highest
<1>5. MsiInv'
  BY EchoAssumption DEF CtlInv, EchoTypeOK, FlagsOK, CountsOK, PostedOK, MsiInv, ControlInv,
     HandlerAt, NoMsip, Becoming, TakeInterrupt, IntPending, Pending, NotTaken, Enter, TrapVector, Unvectored, regs,
     bus, counters, peri, user, Highest
<1>6. ResultInv'
  BY EchoAssumption DEF CtlInv, EchoTypeOK, FlagsOK, CountsOK, PostedOK, ResultInv,
     ControlInv, HandlerAt, TakeInterrupt, IntPending, Pending, NotTaken, Enter, TrapVector, Unvectored, regs, bus,
     counters, peri, user, Highest
<1> QED
  BY <1>1, <1>2, <1>3, <1>4, <1>5, <1>6 DEF CtlInv, EchoTypeOK

\* A stray fetch keeps the control invariant.
LEMMA FaultCtl == CtlInv /\ Fault => CtlInv'
<1> SUFFICES ASSUME CtlInv, Fault PROVE CtlInv'
  OBVIOUS
<1> USE DEF MainPc, InHandler, Main, UpToMask, UpToEcall, Arming, Waiting, Late
<1>0. /\ cause' = "illegal" /\ mepc' = pc /\ MPIE' = MIE /\ MIE' = FALSE /\ pc' = TrapVector
      /\ saved_rdy' = rdy /\ rdy' = FALSE /\ stray = pc /\ ~InHandler
      /\ UNCHANGED <<mie, counters, result, posted, msip, stray>>
  BY DEF Fault, Enter, bus, peri
<1>1. FlagsOK'
  BY <1>0 DEF CtlInv, EchoTypeOK, FlagsOK, counters
<1>2. CountsOK'
  BY <1>0 DEF CtlInv, EchoTypeOK, CountsOK, counters
<1>3. PostedOK'
  BY <1>0 DEF CtlInv, EchoTypeOK, PostedOK
<1>4. CASE pc \in Unvectored
  <2>1. pc' = "reset" /\ pc \in UpToEcall
    BY <1>0, <1>4 DEF TrapVector, Unvectored
  <2>2. ControlInv'
    BY <1>0, <2>1 DEF CtlInv, EchoTypeOK, FlagsOK, ControlInv
  <2>3. MsiInv'
    BY <1>0, <2>1 DEF CtlInv, MsiInv, NoMsip, Becoming, counters
  <2>4. ResultInv'
    BY <1>0, <2>1 DEF CtlInv, ResultInv, counters
  <2> QED
    BY <1>1, <1>2, <1>3, <2>2, <2>3, <2>4 DEF CtlInv, EchoTypeOK
<1>5. CASE pc \notin Unvectored
  <2>1. pc' = "h_H"
    BY <1>0, <1>5 DEF TrapVector
  <2>2. ControlInv'
    BY <1>0, <1>5, <2>1 DEF CtlInv, EchoTypeOK, FlagsOK, ControlInv, HandlerAt, Putc, PrintThen
  <2>3. MsiInv'
    BY <1>0, <2>1 DEF CtlInv, MsiInv, NoMsip, Becoming, counters
  <2>4. ResultInv'
    BY <1>0, <2>1 DEF CtlInv, ResultInv, counters
  <2> QED
    BY <1>1, <1>2, <1>3, <2>2, <2>3, <2>4 DEF CtlInv, EchoTypeOK
<1> QED
  BY <1>4, <1>5

\* The posted store arriving keeps the control invariant.
LEMMA DrainCtl == CtlInv /\ Drain => CtlInv'
<1> SUFFICES ASSUME CtlInv, Drain PROVE CtlInv'
  OBVIOUS
<1> USE DEF MainPc, InHandler, Main, UpToMask, UpToEcall, Arming, Waiting, Late
<1>1. FlagsOK'
  <2>1. UNCHANGED <<rdy, saved_rdy, MIE, MPIE, mie, bad_cause, result>>
    BY DEF Drain, core, counters
  <2>2. msip' = IF posted[1].reg = "MSIP" THEN posted[1].val ELSE msip
    BY DEF Drain, Drained
  <2>3. msip \in BOOLEAN /\ (posted[1].reg = "MSIP" => posted[1].val \in BOOLEAN)
    BY DEF CtlInv, EchoTypeOK, FlagsOK, PostedOK, Drain
  <2>4. msip' \in BOOLEAN
    BY <2>2, <2>3
  <2> QED
    BY <2>1, <2>4 DEF CtlInv, EchoTypeOK, FlagsOK
<1>2. CountsOK'
  BY EchoAssumption DEF CtlInv, EchoTypeOK, CountsOK, Drain, core, regs, counters, user,
     Drained
<1>3. PostedOK'
  BY EchoAssumption DEF CtlInv, EchoTypeOK, PostedOK, Drain, core, regs, counters, user,
     Drained
<1>4. ControlInv'
  BY EchoAssumption DEF CtlInv, EchoTypeOK, FlagsOK, CountsOK, PostedOK, ControlInv,
     HandlerAt, Putc, PrintThen, Drain, core, regs, counters, user, Drained
<1>5. MsiInv'
  BY EchoAssumption DEF CtlInv, EchoTypeOK, FlagsOK, CountsOK, PostedOK, MsiInv, ControlInv,
     HandlerAt, NoMsip, Becoming, Drain, core, regs, counters, user, Drained
<1>6. ResultInv'
  BY EchoAssumption DEF CtlInv, EchoTypeOK, FlagsOK, CountsOK, PostedOK, ResultInv,
     ControlInv, HandlerAt, Drain, core, regs, counters, user, Drained
<1> QED
  BY <1>1, <1>2, <1>3, <1>4, <1>5, <1>6 DEF CtlInv, EchoTypeOK

\* A frame leaving keeps the control invariant.
LEMMA TransmitCtl == CtlInv /\ Transmit => CtlInv'
<1> SUFFICES ASSUME CtlInv, Transmit PROVE CtlInv'
  OBVIOUS
<1> USE DEF MainPc, InHandler, Main, UpToMask, UpToEcall, Arming, Waiting, Late
<1>1. FlagsOK'
  BY EchoAssumption DEF CtlInv, EchoTypeOK, FlagsOK, Transmit, core, regs, counters
<1>2. CountsOK'
  BY EchoAssumption DEF CtlInv, EchoTypeOK, CountsOK, Transmit, core, regs, counters
<1>3. PostedOK'
  BY EchoAssumption DEF CtlInv, EchoTypeOK, PostedOK, Transmit, core, regs, counters
<1>4. ControlInv'
  BY EchoAssumption DEF CtlInv, EchoTypeOK, FlagsOK, CountsOK, PostedOK, ControlInv,
     HandlerAt, Putc, PrintThen, Transmit, core, regs, counters
<1>5. MsiInv'
  BY EchoAssumption DEF CtlInv, EchoTypeOK, FlagsOK, CountsOK, PostedOK, MsiInv, ControlInv,
     HandlerAt, NoMsip, Becoming, Transmit, core, regs, counters
<1>6. ResultInv'
  BY EchoAssumption DEF CtlInv, EchoTypeOK, FlagsOK, CountsOK, PostedOK, ResultInv,
     ControlInv, HandlerAt, Transmit, core, regs, counters
<1> QED
  BY <1>1, <1>2, <1>3, <1>4, <1>5, <1>6 DEF CtlInv, EchoTypeOK

\* A byte arriving keeps the control invariant.
LEMMA ReceiveCtl == CtlInv /\ Receive => CtlInv'
<1> SUFFICES ASSUME CtlInv, Receive PROVE CtlInv'
  OBVIOUS
<1> USE DEF MainPc, InHandler, Main, UpToMask, UpToEcall, Arming, Waiting, Late
<1>1. FlagsOK'
  BY EchoAssumption DEF CtlInv, EchoTypeOK, FlagsOK, Receive, core, regs, bus, counters
<1>2. CountsOK'
  BY EchoAssumption DEF CtlInv, EchoTypeOK, CountsOK, Receive, core, regs, bus, counters
<1>3. PostedOK'
  BY EchoAssumption DEF CtlInv, EchoTypeOK, PostedOK, Receive, core, regs, bus, counters
<1>4. ControlInv'
  BY EchoAssumption DEF CtlInv, EchoTypeOK, FlagsOK, CountsOK, PostedOK, ControlInv,
     HandlerAt, Putc, PrintThen, Receive, core, regs, bus, counters
<1>5. MsiInv'
  BY EchoAssumption DEF CtlInv, EchoTypeOK, FlagsOK, CountsOK, PostedOK, MsiInv, ControlInv,
     HandlerAt, NoMsip, Becoming, Receive, core, regs, bus, counters
<1>6. ResultInv'
  BY EchoAssumption DEF CtlInv, EchoTypeOK, FlagsOK, CountsOK, PostedOK, ResultInv,
     ControlInv, HandlerAt, Receive, core, regs, bus, counters
<1> QED
  BY <1>1, <1>2, <1>3, <1>4, <1>5, <1>6 DEF CtlInv, EchoTypeOK

\* Printing a string keeps the control invariant.
LEMMA uart_putsCtl == CtlInv /\ uart_puts => CtlInv'
<1> SUFFICES ASSUME CtlInv, uart_puts PROVE CtlInv'
  OBVIOUS
<1> USE DEF MainPc, InHandler, Main, UpToMask, UpToEcall, Arming, Waiting, Late
<1>1. PICK l \in DOMAIN PrintThen :
        /\ At(l) /\ uart_putc(Text, PrintThen[l])
        /\ UNCHANGED <<core, regs, counters, result, peri, user>>
  BY DEF uart_puts
<1>2. l \in {"banner", "irqmsg", "mtvecmsg", "mipmsg", "trapmsg", "msipmsg", "msimsg", "timeoutmsg",
             "mst2msg", "donemsg", "h_H", "h_X", "h_parkmsg"} /\ pc = l
  BY <1>1 DEF PrintThen, At
<1>3. CASE ~rdy
  <2>1. FlagsOK'
    BY <1>1, <1>2, <1>3 DEF CtlInv, EchoTypeOK, FlagsOK, uart_putc, PeriRead, core, regs, bus,
       counters, peri, user
  <2>2. CountsOK'
    BY <1>1, <1>2, <1>3 DEF CtlInv, EchoTypeOK, CountsOK, uart_putc, PeriRead, core, regs,
       bus, counters, peri, user
  <2>3. PostedOK'
    BY <1>1, <1>2, <1>3 DEF CtlInv, EchoTypeOK, PostedOK, uart_putc, PeriRead, core, regs,
       bus, counters, peri, user
  <2>4. ControlInv'
    BY <1>1, <1>2, <1>3 DEF CtlInv, EchoTypeOK, FlagsOK, CountsOK, PostedOK, ControlInv,
       HandlerAt, Putc, PrintThen, uart_putc, PeriRead, core, regs, bus, counters, peri, user
  <2>5. MsiInv'
    BY <1>1, <1>2, <1>3 DEF CtlInv, EchoTypeOK, FlagsOK, CountsOK, PostedOK, MsiInv,
       ControlInv, HandlerAt, NoMsip, Becoming, uart_putc, PeriRead, core, regs, bus,
       counters, peri, user
  <2>6. ResultInv'
    BY <1>1, <1>2, <1>3 DEF CtlInv, EchoTypeOK, FlagsOK, CountsOK, PostedOK, ResultInv,
       ControlInv, HandlerAt, uart_putc, PeriRead, core, regs, bus, counters, peri, user
  <2> QED
    BY <2>1, <2>2, <2>3, <2>4, <2>5, <2>6 DEF CtlInv, EchoTypeOK
<1>4. CASE rdy
  <2>1. FlagsOK'
    BY <1>1, <1>2, <1>4 DEF CtlInv, EchoTypeOK, FlagsOK, uart_putc, Post, PrintThen, core,
       regs, bus, counters, peri, user
  <2>2. CountsOK'
    BY <1>1, <1>2, <1>4 DEF CtlInv, EchoTypeOK, CountsOK, uart_putc, Post, PrintThen, core,
       regs, bus, counters, peri, user
  <2>3. PostedOK'
    BY <1>1, <1>2, <1>4 DEF CtlInv, EchoTypeOK, PostedOK, uart_putc, Post, PrintThen, core,
       regs, bus, counters, peri, user
  <2>4. ControlInv'
    BY <1>1, <1>2, <1>4 DEF CtlInv, EchoTypeOK, FlagsOK, CountsOK, PostedOK, ControlInv,
       HandlerAt, Putc, PrintThen, uart_putc, Post, PrintThen, core, regs, bus, counters,
       peri, user
  <2>5. MsiInv'
    BY <1>1, <1>2, <1>4 DEF CtlInv, EchoTypeOK, FlagsOK, CountsOK, PostedOK, MsiInv,
       ControlInv, HandlerAt, NoMsip, Becoming, uart_putc, Post, PrintThen, core, regs, bus,
       counters, peri, user
  <2>6. ResultInv'
    BY <1>1, <1>2, <1>4 DEF CtlInv, EchoTypeOK, FlagsOK, CountsOK, PostedOK, ResultInv,
       ControlInv, HandlerAt, uart_putc, Post, PrintThen, core, regs, bus, counters, peri, user
  <2> QED
    BY <2>1, <2>2, <2>3, <2>4, <2>5, <2>6 DEF CtlInv, EchoTypeOK
<1> QED
  BY <1>3, <1>4

\* Every step of the program and of the peripherals keeps the control invariant.
LEMMA CtlInvNext == CtlInv /\ [EchoNext]_<<image, pc, echoVars>> => CtlInv'
<1> SUFFICES ASSUME CtlInv, [EchoNext]_<<image, pc, echoVars>> PROVE CtlInv'
  OBVIOUS
<1>1. CASE EchoNext
  BY <1>1, StartCtl, csr_bit_walkCtl, PollPhaseCtl, ArmExternalCtl, EcallProbeCtl,
     SoftwareInterruptCtl, SpinLoopCtl, ExternalInterruptCtl, SleepLoopCtl, ReportCtl,
     DispatchCauseCtl, HandleMsiCtl, HandleEcallCtl, HandleBadCtl, HandleMeiCtl, MretCtl,
     uart_putsCtl, TakeInterruptCtl, FaultCtl, DrainCtl, TransmitCtl, ReceiveCtl
     DEF EchoNext, Cpu, echo_main, trap_handler
<1>2. CASE UNCHANGED <<image, pc, echoVars>>
  BY <1>2 DEF CtlInv, EchoTypeOK, FlagsOK, CountsOK, PostedOK, ControlInv, MsiInv, ResultInv,
     MainPc, InHandler, NoMsip, Becoming, echoVars, core, regs, bus, counters, peri, user
<1> QED
  BY <1>1, <1>2

\* The control invariant says what the probes report.
LEMMA CtlInvProbes == CtlInv => ProbesTrue
<1> SUFFICES ASSUME CtlInv PROVE ProbesTrue
  OBVIOUS
<1> USE DEF MainPc, InHandler, Main, UpToMask, UpToEcall, Arming, Waiting, Late
<1>1. msi_count = 0 \/ msi_count = 1
  <2>1. CASE MainPc \in UpToMask \cup Arming \cup Late
    BY <2>1 DEF CtlInv, MsiInv
  <2>2. CASE MainPc \in Waiting /\ ~(InHandler /\ cause = "MSI")
    BY <2>2 DEF CtlInv, MsiInv
  <2>3. CASE MainPc \in Waiting /\ InHandler /\ cause = "MSI"
    <3>1. pc \in {"h_H", "h_cause", "h_msip", "h_msi_count", "h_X", "mret"}
      BY <2>3 DEF CtlInv, ControlInv, HandlerAt
    <3> QED
      BY <2>3, <3>1 DEF CtlInv, MsiInv
  <2> QED
    BY <2>1, <2>2, <2>3 DEF CtlInv, ControlInv
<1>2. pc # "timeoutmsg"
  BY DEF CtlInv, ControlInv
<1>3. result = "GOOD" => sync_traps = 1 /\ msi_count = 1
  BY DEF CtlInv, MsiInv, ResultInv
<1> QED
  BY <1>1, <1>2, <1>3 DEF ProbesTrue, CtlInv, ResultInv

\* For every phase length, FIFO depth, set of straying statements and number of user
\* bytes: one software interrupt is counted, the bounded wait never gives up, and the
\* pass marker is written only after both probes and the bytes of the phase.
THEOREM ProbesReportTruth == EchoSpec => []ProbesTrue
<1>1. image = "uart_echo" /\ Boot /\ EchoInit => CtlInv
  BY CtlInvInit
<1> QED
  BY <1>1, CtlInvNext, CtlInvProbes, PTL DEF EchoSpec

\* One entry more: it is left out or appended.
Taken(b, e, drop) == IF e \in drop THEN b ELSE Append(b, e)

\* f computes what is left of every prefix of s.
Collects(f, s, drop) ==
  /\ f[0] = << >>
  /\ \A n \in 0 .. Len(s) - 1 : f[n + 1] = Taken(f[n], s[n + 1], drop)

\* An entry more or less, the result is a sequence of numbers.
LEMMA TakenType ==
  ASSUME NEW b \in Seq(Nat), NEW e \in Nat, NEW drop PROVE Taken(b, e, drop) \in Seq(Nat)
BY DEF Taken

\* The recursive function inside Without exists: it collects, and ends in Without.
LEMMA WithoutCollected ==
  ASSUME NEW s \in Seq(Nat), NEW drop
  PROVE  \E f : /\ Collects(f, s, drop) /\ Without(s, drop) = f[Len(s)]
               /\ \A n \in 0..Len(s) : f[n] \in Seq(Nat)
<1> DEFINE P(f) == f = [n \in 0..Len(s) |-> IF n = 0 THEN << >>
                            ELSE IF s[n] \in drop THEN f[n-1] ELSE Append(f[n-1], s[n])]
           t(n) == IF n \in 1..Len(s) THEN s[n] ELSE 0
           g == [n \in Nat |-> [b \in Seq(Nat) |-> Taken(b, t(n + 1), drop)]]
<1>1. \A n \in Nat : t(n) \in Nat
  OBVIOUS
<1>2. g \in [Nat -> [Seq(Nat) -> Seq(Nat)]]
  <2> HIDE DEF t
  <2>1. \A n \in Nat : n + 1 \in Nat
    OBVIOUS
  <2>2. \A n \in Nat, b \in Seq(Nat) : Taken(b, t(n + 1), drop) \in Seq(Nat)
    BY <1>1, <2>1, TakenType
  <2> QED
    BY <2>2
<1>3. \A n \in Nat : \A b \in Seq(Nat) : g[n][b] = Taken(b, t(n + 1), drop)
  OBVIOUS
<1>4. << >> \in Seq(Nat) /\ Len(s) \in Nat
  OBVIOUS
<1> HIDE DEF g
<1>5. PICK h : IsRecursion(h, Seq(Nat), << >>, g)
  BY <1>2, <1>4, RecursionExists
<1>6. \A n \in Nat : h[n] \in Seq(Nat) /\ h[n + 1] = Taken(h[n], t(n + 1), drop)
  BY <1>3, <1>5 DEF IsRecursion
<1>7. h[0] = << >>
  BY <1>5 DEF IsRecursion
<1> DEFINE k == [n \in 0..Len(s) |-> h[n]]
<1>8. ASSUME NEW n \in 0..Len(s), n # 0
      PROVE  k[n] = IF s[n] \in drop THEN k[n-1] ELSE Append(k[n-1], s[n])
  <2>1. n - 1 \in Nat /\ (n - 1) + 1 = n /\ t(n) = s[n] /\ n - 1 \in 0..Len(s)
    BY <1>4, <1>8
  <2>2. h[n] = Taken(h[n - 1], s[n], drop)
    BY <1>6, <2>1
  <2> QED
    BY <2>1, <2>2 DEF Taken
<1>9. k = [n \in 0..Len(s) |-> k[n]] /\ k[0] = << >>
  BY <1>4, <1>7
<1> HIDE DEF k
<1>10. P(k)
  BY <1>8, <1>9
<1>11. Without(s, drop) = (CHOOSE f : P(f))[Len(s)]
  BY DEF Without
<1> DEFINE f == CHOOSE f : P(f)
<1>12. P(f)
  BY <1>10
<1> HIDE DEF f
<1>13. f[0] = << >>
  BY <1>4, <1>12
<1>14. ASSUME NEW n \in 0 .. Len(s) - 1 PROVE f[n + 1] = Taken(f[n], s[n + 1], drop)
  <2>1. n + 1 \in 0..Len(s) /\ n + 1 # 0 /\ (n + 1) - 1 = n
    BY <1>4
  <2>2. f[n + 1] = IF n + 1 = 0 THEN << >> ELSE IF s[n + 1] \in drop
                   THEN f[(n + 1) - 1] ELSE Append(f[(n + 1) - 1], s[n + 1])
    BY <1>12, <2>1
  <2> QED
    BY <2>1, <2>2 DEF Taken
<1>15. ASSUME NEW n \in 0 .. Len(s) PROVE f[n] \in Seq(Nat)
  <2> DEFINE T == {m \in Nat : m <= Len(s) => f[m] \in Seq(Nat)}
  <2>1. 0 \in T
    BY <1>4, <1>13
  <2>2. ASSUME NEW m \in Nat, m \in T PROVE m + 1 \in T
    <3> SUFFICES ASSUME m + 1 <= Len(s) PROVE f[m + 1] \in Seq(Nat)
      OBVIOUS
    <3>1. f[m] \in Seq(Nat) /\ m \in 0 .. Len(s) - 1 /\ s[m + 1] \in Nat
      BY <2>2, <1>4
    <3> QED
      BY <3>1, <1>14, TakenType
  <2> HIDE DEF T
  <2>3. \A m \in Nat : m \in T
    BY <2>1, <2>2, SetInduction
  <2> QED
    BY <2>3, <1>4 DEF T
<1>16. Without(s, drop) = f[Len(s)]
  BY <1>11 DEF f
<1> QED
  BY <1>13, <1>14, <1>15, <1>16 DEF Collects

\* s and t begin with the same n entries.
SamePrefix(s, t, n) ==
  /\ n \in Nat /\ Len(s) \in Nat /\ Len(t) \in Nat /\ n <= Len(s) /\ n <= Len(t)
  /\ \A m \in 1..n : s[m] = t[m]

\* Two sequences with a common prefix leave the same of it.
LEMMA CollectsUnique ==
  \A s, t, n, f, h, drop :
    SamePrefix(s, t, n) /\ Collects(f, s, drop) /\ Collects(h, t, drop) => f[n] = h[n]
<1> SUFFICES ASSUME NEW s, NEW t, NEW n, NEW f, NEW h, NEW drop,
                    SamePrefix(s, t, n), Collects(f, s, drop), Collects(h, t, drop)
             PROVE  f[n] = h[n]
  OBVIOUS
<1> USE DEF SamePrefix
<1> DEFINE T == {m \in Nat : m <= n => f[m] = h[m]}
<1>1. 0 \in T
  BY DEF Collects
<1>2. ASSUME NEW m \in Nat, m \in T PROVE m + 1 \in T
  <2> SUFFICES ASSUME m + 1 <= n PROVE f[m + 1] = h[m + 1]
    OBVIOUS
  <2>1. f[m] = h[m] /\ m \in 0 .. Len(s) - 1 /\ m \in 0 .. Len(t) - 1 /\ m + 1 \in 1..n
    BY <1>2
  <2>2. s[m + 1] = t[m + 1]
    BY <2>1
  <2> QED
    BY <2>1, <2>2 DEF Collects
<1> HIDE DEF T
<1>3. \A m \in Nat : m \in T
  BY <1>1, <1>2, SetInduction
<1> QED
  BY <1>3 DEF T

\* Nothing is left of the empty sequence.
LEMMA WithoutEmpty == ASSUME NEW drop PROVE Without(<< >>, drop) = << >>
<1>1. << >> \in Seq(Nat) /\ Len(<< >>) = 0
  OBVIOUS
<1> QED
  BY <1>1, WithoutCollected DEF Collects

\* What is left is a sequence.
LEMMA WithoutType == ASSUME NEW s \in Seq(Nat), NEW drop PROVE Without(s, drop) \in Seq(Nat)
<1>1. Len(s) \in 0..Len(s)
  OBVIOUS
<1> QED
  BY <1>1, WithoutCollected

\* One entry more.
LEMMA WithoutAppend ==
  ASSUME NEW s \in Seq(Nat), NEW e \in Nat, NEW drop
  PROVE  Without(Append(s, e), drop) = Taken(Without(s, drop), e, drop)
<1> DEFINE t == Append(s, e)
           n == Len(s)
<1>1. /\ t \in Seq(Nat) /\ Len(t) = n + 1 /\ t[n + 1] = e /\ n \in Nat
      /\ \A m \in 1..n : s[m] = t[m]
  OBVIOUS
<1> HIDE DEF t, n
<1>2. PICK f : Collects(f, s, drop) /\ Without(s, drop) = f[n]
  BY WithoutCollected DEF n
<1>3. PICK h : Collects(h, t, drop) /\ Without(t, drop) = h[n + 1]
  BY <1>1, WithoutCollected
<1>4. f[n] = h[n]
  <2>1. Len(s) = n /\ n <= Len(s) /\ n <= Len(t) /\ Len(t) \in Nat
    BY <1>1 DEF n
  <2>2. SamePrefix(s, t, n)
    BY <1>1, <2>1 DEF SamePrefix
  <2> QED
    BY <1>2, <1>3, <2>2, CollectsUnique
<1>5. n \in 0 .. Len(t) - 1
  BY <1>1
<1>6. h[n + 1] = Taken(h[n], e, drop)
  BY <1>1, <1>3, <1>5 DEF Collects
<1> QED
  BY <1>2, <1>3, <1>4, <1>6 DEF t

\* What stands before a new last entry of a rising sequence is lower.
LEMMA RisingAppend ==
  ASSUME NEW s \in Seq(Nat), NEW e \in Nat
  PROVE  /\ Rising(Append(s, e)) <=> Rising(s) /\ \A c \in Entries(s) : c < e
         /\ Entries(Append(s, e)) = Entries(s) \cup {e}
<1> DEFINE t == Append(s, e)
           n == Len(s)
<1>1. n \in Nat /\ Len(t) = n + 1 /\ t[n + 1] = e /\ \A m \in 1..n : t[m] = s[m] /\ s[m] \in Nat
  OBVIOUS
<1> HIDE DEF t, n
<1>2. Rising(t) => Rising(s) /\ \A c \in Entries(s) : c < e
  <2> SUFFICES ASSUME Rising(t) PROVE Rising(s) /\ \A c \in Entries(s) : c < e
    OBVIOUS
  <2>1. Rising(s)
    BY <1>1 DEF Rising, n
  <2>2. ASSUME NEW m \in 1..n PROVE s[m] < e
    <3>1. m \in 1..n + 1 /\ n + 1 \in 1..n + 1 /\ m < n + 1
      BY <1>1
    <3> QED
      BY <1>1, <3>1 DEF Rising
  <2> QED
    BY <2>1, <2>2 DEF Entries, n
<1>3. Rising(s) /\ (\A c \in Entries(s) : c < e) => Rising(t)
  <2> SUFFICES ASSUME Rising(s), \A c \in Entries(s) : c < e, NEW l \in 1..n + 1, NEW m \in 1..n + 1, l < m
               PROVE  t[l] < t[m]
    BY <1>1 DEF Rising
  <2>1. l \in 1..n /\ s[l] < e
    BY <1>1 DEF Entries, n
  <2>2. CASE m = n + 1
    BY <1>1, <2>1, <2>2
  <2>3. CASE m \in 1..n
    BY <1>1, <2>1, <2>3 DEF Rising, n
  <2> QED
    BY <1>1, <2>2, <2>3
<1>4. Entries(t) = Entries(s) \cup {e}
  <2>1. 1..n + 1 = (1..n) \cup {n + 1}
    BY <1>1
  <2>2. Entries(s) = {s[m] : m \in 1..n} /\ Entries(t) = {t[m] : m \in (1..n) \cup {n + 1}}
    BY <1>1, <2>1 DEF Entries, n
  <2> QED
    BY <1>1, <2>2
<1> QED
  BY <1>2, <1>3, <1>4 DEF t

\* Concatenation is associative.
LEMMA SeqAssoc == \A s, t, u \in Seq(Nat) : (s \o t) \o u = s \o (t \o u)
BY SMTT(40)

\* An element behind two sequences is behind the second.
LEMMA AppendConcat ==
  \A s, t \in Seq(Nat) : \A e \in Nat : Append(s \o t, e) = s \o Append(t, e)
<1> SUFFICES ASSUME NEW s \in Seq(Nat), NEW t \in Seq(Nat), NEW e \in Nat
             PROVE  Append(s \o t, e) = s \o Append(t, e)
  OBVIOUS
<1> DEFINE z == <<e>>
<1>1. z \in Seq(Nat)
  OBVIOUS
<1>5. \A x \in Seq(Nat) : Append(x, e) = x \o z
  BY AppendIsConcat
<1> HIDE DEF z
<1>2. s \o t \in Seq(Nat)
  OBVIOUS
<1>3. Append(s \o t, e) = (s \o t) \o z
  BY <1>2, <1>5
<1>4. Append(t, e) = t \o z
  BY <1>5
<1> QED
  <2>1. (s \o t) \o z = s \o (t \o z)
    BY <1>1, SeqAssoc
  <2> QED
    BY <1>3, <1>4, <2>1, Zenon

\* What holds of << >> and of Append(s, e) when of s holds of every sequence of numbers
\* in T: induction over sequences, for a set.
LEMMA AppendInduction ==
  ASSUME NEW T, << >> \in T,
         \A s \in Seq(Nat), e \in Nat : s \in T => Append(s, e) \in T
  PROVE  \A s \in Seq(Nat) : s \in T
<1> DEFINE Lens == {n \in Nat : \A s \in Seq(Nat) : Len(s) = n => s \in T}
<1>1. 0 \in Lens
  <2>1. ASSUME NEW s \in Seq(Nat), Len(s) = 0 PROVE s = << >>
    BY <2>1
  <2> QED
    BY <2>1
<1>2. ASSUME NEW n \in Nat, n \in Lens PROVE n + 1 \in Lens
  <2> SUFFICES ASSUME NEW s \in Seq(Nat), Len(s) = n + 1 PROVE s \in T
    OBVIOUS
  <2>1. s # << >>
    OBVIOUS
  <2>2. PICK u \in Seq(Nat), e \in Nat : s = Append(u, e)
    BY <2>1, SequenceEmptyOrAppend
  <2>3. Len(u) = n
    BY <2>2
  <2>4. u \in T
    BY <1>2, <2>3
  <2> QED
    BY <2>2, <2>4
<1> HIDE DEF Lens
<1>3. \A n \in Nat : n \in Lens
  BY <1>1, <1>2, SetInduction
<1>4. \A s \in Seq(Nat) : Len(s) \in Nat
  OBVIOUS
<1> QED
  BY <1>3, <1>4 DEF Lens

\* What is left of two sequences one behind the other.
LEMMA WithoutConcat ==
  ASSUME NEW drop
  PROVE  \A s, t \in Seq(Nat) : Without(s \o t, drop) = Without(s, drop) \o Without(t, drop)
<1> SUFFICES ASSUME NEW s \in Seq(Nat)
             PROVE  \A t \in Seq(Nat) : Without(s \o t, drop) = Without(s, drop) \o Without(t, drop)
  OBVIOUS
<1> DEFINE T == {t \in Seq(Nat) : Without(s \o t, drop) = Without(s, drop) \o Without(t, drop)}
<1>1. << >> \in T
  <2>1. s \o << >> = s /\ << >> \in Seq(Nat)
    OBVIOUS
  <2>2. Without(s, drop) \o << >> = Without(s, drop)
    BY WithoutType
  <2> QED
    BY <2>1, <2>2, WithoutEmpty
<1>2. ASSUME NEW u \in Seq(Nat), NEW e \in Nat, u \in T PROVE Append(u, e) \in T
  <2>1. s \o Append(u, e) = Append(s \o u, e) /\ s \o u \in Seq(Nat) /\ Append(u, e) \in Seq(Nat)
    BY AppendConcat
  <2>2. Without(s \o u, drop) = Without(s, drop) \o Without(u, drop)
    BY <1>2
  <2>3. Without(s \o Append(u, e), drop) = Taken(Without(s, drop) \o Without(u, drop), e, drop)
    <3>1. Without(Append(s \o u, e), drop) = Taken(Without(s \o u, drop), e, drop)
      BY <2>1, WithoutAppend
    <3> QED
      BY <2>1, <2>2, <3>1
  <2>4. Without(Append(u, e), drop) = Taken(Without(u, drop), e, drop)
    BY WithoutAppend
  <2>5. Without(s, drop) \in Seq(Nat) /\ Without(u, drop) \in Seq(Nat)
    BY WithoutType
  <2>6. ASSUME NEW x \in Seq(Nat), NEW y \in Seq(Nat)
        PROVE  Taken(x \o y, e, drop) = x \o Taken(y, e, drop)
    BY AppendConcat DEF Taken
  <2>7. Without(s \o Append(u, e), drop) = Without(s, drop) \o Without(Append(u, e), drop)
    BY <2>3, <2>4, <2>5, <2>6, ZenonT(60)
  <2> QED
    BY <2>1, <2>7
<1> HIDE DEF T
<1>3. \A t \in Seq(Nat) : t \in T
  BY <1>1, <1>2, AppendInduction
<1> QED
  BY <1>3 DEF T

\* A sequence with no entry to drop stays as it is.
LEMMA WithoutNone ==
  ASSUME NEW drop
  PROVE  \A s \in Seq(Nat) : (\A n \in 1..Len(s) : s[n] \notin drop) => Without(s, drop) = s
<1> DEFINE T == {s \in Seq(Nat) : (\A n \in 1..Len(s) : s[n] \notin drop) => Without(s, drop) = s}
<1>1. << >> \in T
  BY WithoutEmpty
<1>2. ASSUME NEW u \in Seq(Nat), NEW e \in Nat, u \in T PROVE Append(u, e) \in T
  <2> DEFINE t == Append(u, e)
  <2>0. t \in Seq(Nat)
    OBVIOUS
  <2> SUFFICES ASSUME \A n \in 1..Len(t) : t[n] \notin drop PROVE Without(t, drop) = t
    BY <2>0
  <2>1. Len(t) = Len(u) + 1 /\ t[Len(u) + 1] = e /\ Len(u) + 1 \in 1..Len(t)
    OBVIOUS
  <2>2. \A n \in 1..Len(u) : n \in 1..Len(t) /\ t[n] = u[n]
    OBVIOUS
  <2>3. e \notin drop /\ \A n \in 1..Len(u) : u[n] \notin drop
    BY <2>1, <2>2
  <2>4. Without(u, drop) = u
    BY <1>2, <2>3
  <2> QED
    BY <2>3, <2>4, WithoutAppend DEF Taken
<1> HIDE DEF T
<1>3. \A s \in Seq(Nat) : s \in T
  BY <1>1, <1>2, AppendInduction
<1> QED
  BY <1>3 DEF T

\* To drop two sets of entries is to drop the one, then the other.
LEMMA WithoutTwice ==
  ASSUME NEW d, NEW e
  PROVE  \A s \in Seq(Nat) : Without(s, d \cup e) = Without(Without(s, d), e)
<1> DEFINE T == {s \in Seq(Nat) : Without(s, d \cup e) = Without(Without(s, d), e)}
<1>1. << >> \in T
  BY WithoutEmpty
<1>2. ASSUME NEW u \in Seq(Nat), NEW c \in Nat, u \in T PROVE Append(u, c) \in T
  <2>1. Without(Append(u, c), d \cup e) = Taken(Without(u, d \cup e), c, d \cup e)
    BY WithoutAppend
  <2>2. Without(Append(u, c), d) = Taken(Without(u, d), c, d)
    BY WithoutAppend
  <2>3. Without(u, d) \in Seq(Nat)
    BY WithoutType
  <2>4. Without(Append(Without(u, d), c), e) = Taken(Without(Without(u, d), e), c, e)
    BY <2>3, WithoutAppend
  <2>5. Without(Append(u, c), d \cup e) = Without(Without(Append(u, c), d), e)
    BY <1>2, <2>1, <2>2, <2>4 DEF Taken
  <2> QED
    BY <2>5
<1> HIDE DEF T
<1>3. \A s \in Seq(Nat) : s \in T
  BY <1>1, <1>2, AppendInduction
<1> QED
  BY <1>3 DEF T

\* What is left of a rising sequence rises, and every entry of it was there before.
LEMMA WithoutRises ==
  ASSUME NEW drop
  PROVE  \A s \in Seq(Nat) : Rising(s) => /\ Rising(Without(s, drop))
                                          /\ Entries(Without(s, drop)) \subseteq Entries(s)
<1> DEFINE T == {s \in Seq(Nat) : Rising(s) => /\ Rising(Without(s, drop))
                                                /\ Entries(Without(s, drop)) \subseteq Entries(s)}
<1>1. << >> \in T
  BY WithoutEmpty DEF Rising
<1>2. ASSUME NEW u \in Seq(Nat), NEW e \in Nat, u \in T PROVE Append(u, e) \in T
  <2> DEFINE t == Append(u, e)
             w == Without(u, drop)
  <2> SUFFICES ASSUME Rising(t)
               PROVE  Rising(Without(t, drop)) /\ Entries(Without(t, drop)) \subseteq Entries(t)
    OBVIOUS
  <2>1. /\ Rising(u) /\ (\A c \in Entries(u) : c < e)
        /\ Entries(u) \subseteq Entries(t) /\ e \in Entries(t)
    BY RisingAppend
  <2>2. w \in Seq(Nat) /\ Rising(w) /\ Entries(w) \subseteq Entries(u)
    BY <1>2, <2>1, WithoutType
  <2>3. Without(t, drop) = Taken(w, e, drop)
    BY WithoutAppend
  <2> HIDE DEF t, w
  <2>4. Rising(Append(w, e)) /\ Entries(Append(w, e)) = Entries(w) \cup {e}
    BY <2>1, <2>2, RisingAppend
  <2> QED
    BY <2>1, <2>2, <2>3, <2>4 DEF Taken
<1> HIDE DEF T
<1>3. \A s \in Seq(Nat) : s \in T
  BY <1>1, <1>2, AppendInduction
<1> QED
  BY <1>3 DEF T

\* A rising sequence has an entry once: to drop it is to take it out.
LEMMA WithoutOne ==
  ASSUME NEW x \in Seq(Nat), NEW c \in Nat, NEW y \in Seq(Nat), Rising((x \o <<c>>) \o y)
  PROVE  Without((x \o <<c>>) \o y, {c}) = x \o y
<1> DEFINE s == (x \o <<c>>) \o y
           m == Len(x)
<1>1. m \in Nat /\ Len(s) = m + 1 + Len(y) /\ Len(y) \in Nat
  OBVIOUS
<1>2. s[m + 1] = c /\ m + 1 \in 1..Len(s)
  OBVIOUS
<1>3. \A n \in 1..m : s[n] = x[n] /\ n \in 1..Len(s)
  OBVIOUS
<1>4. \A n \in 1..Len(y) : s[m + 1 + n] = y[n] /\ m + 1 + n \in 1..Len(s)
  OBVIOUS
<1>5. \A n \in 1..Len(s) : s[n] \in Nat
  <2>1. s \in Seq(Nat)
    OBVIOUS
  <2> HIDE DEF s
  <2> QED
    BY <2>1
<1> HIDE DEF s, m
<1>6. \A n \in 1..Len(x) : x[n] \notin {c}
  <2> SUFFICES ASSUME NEW n \in 1..m PROVE s[n] # c
    BY <1>3 DEF m
  <2>1. s[n] < s[m + 1]
    BY <1>1, <1>2, <1>3 DEF Rising, s
  <2> QED
    BY <1>2, <1>3, <1>5, <2>1
<1>7. \A n \in 1..Len(y) : y[n] \notin {c}
  <2> SUFFICES ASSUME NEW n \in 1..Len(y) PROVE s[m + 1 + n] # c
    BY <1>4
  <2>1. m + 1 < m + 1 + n /\ m + 1 + n \in 1..Len(s)
    BY <1>1, <1>4
  <2>2. Rising(s)
    BY DEF s
  <2>3. s[m + 1] < s[m + 1 + n]
    BY <1>2, <2>1, <2>2 DEF Rising
  <2> QED
    BY <1>2, <1>5, <2>1, <2>3
<1>8. <<c>> \in Seq(Nat) /\ x \o <<c>> \in Seq(Nat) /\ <<c>> = Append(<< >>, c) /\ << >> \in Seq(Nat)
  OBVIOUS
<1>9. Without(<<c>>, {c}) = << >>
  <2>1. Without(Append(<< >>, c), {c}) = Taken(Without(<< >>, {c}), c, {c})
    BY <1>8, WithoutAppend
  <2> QED
    BY <1>8, <2>1, WithoutEmpty DEF Taken
<1>10. Without((x \o <<c>>) \o y, {c}) = (Without(x, {c}) \o Without(<<c>>, {c})) \o Without(y, {c})
  <2>1. \A u, v \in Seq(Nat) : Without(u \o v, {c}) = Without(u, {c}) \o Without(v, {c})
    BY WithoutConcat
  <2>2. Without((x \o <<c>>) \o y, {c}) = Without(x \o <<c>>, {c}) \o Without(y, {c})
    BY <1>8, <2>1
  <2>3. Without(x \o <<c>>, {c}) = Without(x, {c}) \o Without(<<c>>, {c})
    BY <1>8, <2>1
  <2> QED
    BY <2>2, <2>3
<1>11. Without(x, {c}) = x /\ Without(y, {c}) = y
  BY <1>6, <1>7, WithoutNone
<1> QED
  <2>1. x \o << >> = x
    OBVIOUS
  <2> QED
    BY <1>9, <1>10, <1>11, <2>1

\* No token has no bytes.
LEMMA BytesEmpty == BytesIn(<< >>) = << >>
BY WithoutEmpty DEF BytesIn

\* The bytes are a sequence.
LEMMA BytesType == ASSUME NEW s \in Seq(Nat) PROVE BytesIn(s) \in Seq(Nat)
BY WithoutType DEF BytesIn

\* One token more.
LEMMA BytesAppend ==
  ASSUME NEW s \in Seq(Nat), NEW e \in Nat
  PROVE  BytesIn(Append(s, e)) = IF IsByte(e) THEN Append(BytesIn(s), e) ELSE BytesIn(s)
BY WithoutAppend DEF BytesIn, Taken, IsByte

\* The bytes of two sequences one behind the other.
LEMMA BytesConcat ==
  \A s, t \in Seq(Nat) : BytesIn(s \o t) = BytesIn(s) \o BytesIn(t)
BY WithoutConcat DEF BytesIn

\* While the handed tokens, the byte in hand and what was accepted stay, so does the order.
LEMMA OrderKept ==
  ASSUME EchoInOrder, Handed' = Handed, InHand' = InHand, UNCHANGED <<unsent, rx, accepted, lost>>
  PROVE  EchoInOrder'
BY DEF EchoInOrder

\* The byte in hand is the same while byte and whether it is held are.
LEMMA InHandKept == ASSUME byte' = byte, HoldsByte' <=> HoldsByte PROVE InHand' = InHand
BY DEF InHand, HoldsByte

\* What was handed over is the same while the line, the FIFO and the bus are.
LEMMA HandedKept == ASSUME UNCHANGED <<line, tx, posted>> PROVE Handed' = Handed
BY DEF Handed

\* A step that touches none of the byte's places keeps the order.
LEMMA OrderQuiet ==
  ASSUME OrderInv, UNCHANGED <<line, tx, posted, unsent, rx, accepted, sent, lost, byte>>,
         HoldsByte' <=> HoldsByte, pc' # "h_rxdata"
  PROVE  OrderInv'
<1>1. Handed' = Handed /\ InHand' = InHand
  BY HandedKept, InHandKept
<1>2. EchoInOrder'
  BY <1>1, OrderKept DEF OrderInv
<1>3. OrderTypes'
  BY DEF OrderInv, OrderTypes, OnBus
<1> QED
  BY <1>2, <1>3 DEF OrderInv, HandInv

\* A store to another register than TXDATA keeps the order.
LEMMA OrderPost ==
  ASSUME OrderInv, NEW r, NEW v, Post(r, v), r # "TXDATA",
         UNCHANGED <<line, tx, rx, accepted, sent, lost, byte>>,
         HoldsByte' <=> HoldsByte, pc' # "h_rxdata"
  PROVE  OrderInv'
<1>1. posted = << >> /\ posted' = <<[reg |-> r, val |-> v]>> /\ unsent' = unsent
  BY DEF Post
<1>2. ~OnBus /\ ~OnBus'
  BY <1>1 DEF OnBus
<1>3. Handed' = Handed /\ InHand' = InHand
  BY <1>2, InHandKept DEF Handed, OnBus
<1>4. EchoInOrder'
  BY <1>1, <1>3, OrderKept DEF OrderInv
<1>5. OrderTypes'
  BY <1>1, <1>2 DEF OrderInv, OrderTypes
<1> QED
  BY <1>4, <1>5 DEF OrderInv, HandInv

\* Nothing handed over is not a number.
LEMMA HandedType == ASSUME OrderTypes PROVE Handed \in Seq(Nat)
BY DEF OrderTypes, Handed, OnBus

\* A store to TXDATA: the handed tokens grow by it.
LEMMA HandedGrows ==
  ASSUME OrderTypes, NEW v \in Nat, Post("TXDATA", v), UNCHANGED <<line, tx>>
  PROVE  Handed' = Append(Handed, v) /\ OnBus' /\ posted'[1].val = v
<1>1. posted = << >> /\ posted' = <<[reg |-> "TXDATA", val |-> v]>>
  BY DEF Post
<1>2. posted' # << >> /\ posted'[1].reg = "TXDATA" /\ posted'[1].val = v
  BY <1>1
<1>3. Handed' = (line \o tx) \o <<v>>
  BY <1>2 DEF Handed
<1>4. Handed = (line \o tx) \o << >>
  BY <1>1 DEF Handed
<1>5. line \o tx \in Seq(Nat)
  BY DEF OrderTypes
<1>6. Handed = line \o tx
  BY <1>4, <1>5
<1>7. Append(line \o tx, v) = (line \o tx) \o <<v>>
  BY <1>5, AppendIsConcat
<1> QED
  BY <1>2, <1>3, <1>6, <1>7 DEF OnBus

\* A string handed over: one token more that is no byte.
LEMMA OrderText ==
  ASSUME OrderInv, Post("TXDATA", Text),
         UNCHANGED <<line, tx, rx, accepted, sent, lost, byte>>,
         HoldsByte' <=> HoldsByte, pc' # "h_rxdata"
  PROVE  OrderInv'
<1>1. Text \in Nat /\ ~IsByte(Text) /\ unsent' = unsent + 1
  BY DEF Text, IsByte, Post
<1>2. Handed' = Append(Handed, Text) /\ OnBus' /\ posted'[1].val = Text
  BY <1>1, HandedGrows DEF OrderInv
<1>3. Handed \in Seq(Nat)
  BY HandedType DEF OrderInv
<1>4. BytesIn(Handed') = BytesIn(Handed) /\ Len(Handed') = Len(Handed) + 1
  BY <1>1, <1>2, <1>3, BytesAppend
<1>5. InHand' = InHand
  BY InHandKept
<1>6. BytesIn(Handed) \in Seq(Nat)
  BY <1>3, BytesType
<1>7. EchoInOrder'
  <2>1. unsent \in Int
    BY DEF OrderInv, OrderTypes
  <2>2. Without(accepted, lost)' = Without(accepted, lost)
    OBVIOUS
  <2> QED
    BY <1>1, <1>3, <1>4, <1>5, <1>6, <2>1, <2>2 DEF OrderInv, EchoInOrder
<1>8. OrderTypes'
  BY <1>1, <1>2 DEF OrderInv, OrderTypes
<1> QED
  BY <1>7, <1>8 DEF OrderInv, HandInv

\* The byte in hand handed over.
LEMMA OrderByte ==
  ASSUME OrderInv, Post("TXDATA", byte), HoldsByte, ~HoldsByte',
         UNCHANGED <<line, tx, rx, accepted, sent, lost, byte>>, pc' # "h_rxdata"
  PROVE  OrderInv'
<1>1. byte \in Nat /\ IsByte(byte) /\ unsent' = unsent
  BY DEF OrderInv, OrderTypes, HandInv, Text, IsByte, Post
<1>2. Handed' = Append(Handed, byte) /\ OnBus' /\ posted'[1].val = byte
  BY <1>1, HandedGrows DEF OrderInv
<1>3. Handed \in Seq(Nat)
  BY HandedType DEF OrderInv
<1>4. BytesIn(Handed') = Append(BytesIn(Handed), byte) /\ Len(Handed') = Len(Handed) + 1
  BY <1>1, <1>2, <1>3, BytesAppend
<1>5. InHand = <<byte>> /\ InHand' = << >>
  BY DEF InHand, HoldsByte
<1>6. BytesIn(Handed) \in Seq(Nat)
  BY <1>3, BytesType
<1>7. Append(BytesIn(Handed), byte) = BytesIn(Handed) \o <<byte>>
  BY <1>1, <1>6, AppendIsConcat
<1>8. BytesIn(Handed') = BytesIn(Handed) \o InHand /\ Len(BytesIn(Handed')) = Len(BytesIn(Handed)) + 1
  BY <1>4, <1>5, <1>6, <1>7, <1>1
<1>9. BytesIn(Handed') \o InHand' = BytesIn(Handed) \o InHand
  <2>1. BytesIn(Handed') \in Seq(Nat)
    BY <1>1, <1>4, <1>6
  <2> QED
    BY <1>5, <1>8, <2>1
<1>10. EchoInOrder'
  <2>1. unsent \in Int
    BY DEF OrderInv, OrderTypes
  <2>2. Without(accepted, lost)' = Without(accepted, lost)
    OBVIOUS
  <2> QED
    BY <1>1, <1>3, <1>4, <1>6, <1>8, <1>9, <2>1, <2>2 DEF OrderInv, EchoInOrder
<1>11. OrderTypes'
  BY <1>1, <1>2 DEF OrderInv, OrderTypes
<1> QED
  BY <1>10, <1>11 DEF OrderInv, HandInv

\* A byte read from the RX FIFO comes into hand.
LEMMA OrderPop ==
  ASSUME OrderInv, rx # << >>, byte' = Head(rx), rx' = Tail(rx), ~HoldsByte, HoldsByte',
         UNCHANGED <<line, tx, posted, unsent, accepted, lost, sent, lost>>, pc' # "h_rxdata"
  PROVE  OrderInv'
<1>1. rx \in Seq(Nat) /\ Head(rx) \in Nat /\ Tail(rx) \in Seq(Nat) /\ Head(rx) = rx[1]
  BY DEF OrderInv, OrderTypes
<1>2. /\ 1 \in 1..Len(rx) /\ Len(Tail(rx)) = Len(rx) - 1
      /\ \A n \in 1..Len(Tail(rx)) : Tail(rx)[n] = rx[n + 1] /\ n + 1 \in 1..Len(rx)
  BY <1>1
<1>3. InHand = << >> /\ InHand' = <<Head(rx)>> /\ Handed' = Handed
  BY HandedKept DEF InHand, HoldsByte
<1>4. BytesIn(Handed) \in Seq(Nat)
  BY HandedType, BytesType DEF OrderInv
<1>5. (BytesIn(Handed) \o << >>) \o rx = (BytesIn(Handed) \o <<Head(rx)>>) \o Tail(rx)
  <2> DEFINE x == BytesIn(Handed)
             y == <<Head(rx)>>
             z == Tail(rx)
  <2>1. x \in Seq(Nat) /\ y \in Seq(Nat) /\ z \in Seq(Nat)
    BY <1>1, <1>4
  <2>2. rx = y \o z
    BY <1>1
  <2>3. x \o << >> = x
    BY <1>4
  <2> HIDE DEF x, y, z
  <2>4. (x \o y) \o z = x \o (y \o z)
    BY <2>1, SeqAssoc
  <2> QED
    BY <2>2, <2>3, <2>4, Zenon DEF x, y, z
<1>6. EchoInOrder'
  BY <1>3, <1>5 DEF OrderInv, EchoInOrder
<1>7. OrderTypes'
  BY <1>1, <1>2 DEF OrderInv, OrderTypes, OnBus
<1>8. byte' # 0
  BY <1>1, <1>2 DEF OrderInv, OrderTypes
<1> QED
  BY <1>6, <1>7, <1>8 DEF OrderInv, HandInv

\* The posted store reaches its slave: what was on the bus is in the FIFO.
LEMMA DrainOrder == OrderInv /\ Drain => OrderInv'
<1> SUFFICES ASSUME OrderInv, Drain PROVE OrderInv'
  OBVIOUS
<1>1. /\ posted # << >> /\ posted' = << >>
      /\ tx' = IF posted[1].reg = "TXDATA" THEN Append(tx, posted[1].val) ELSE tx
      /\ UNCHANGED <<pc, mepc, byte, unsent, rx, sent, accepted, lost, line>>
  BY DEF Drain, Drained, core, regs, user
<1>2. line \in Seq(Nat) /\ tx \in Seq(Nat) /\ line \o tx \in Seq(Nat)
  BY DEF OrderInv, OrderTypes
<1>3. Handed' = (line \o tx') \o << >>
  BY <1>1 DEF Handed
<1>4. Handed' = Handed /\ tx' \in Seq(Nat)
  <2>1. CASE OnBus
    <3>1. posted[1].val \in Nat /\ tx' = Append(tx, posted[1].val)
      BY <1>1, <2>1 DEF OrderInv, OrderTypes, OnBus
    <3>2. tx' \in Seq(Nat)
      BY <1>2, <3>1
    <3>3. Handed' = line \o tx'
      BY <1>2, <1>3, <3>2
    <3>4. line \o tx' = Append(line \o tx, posted[1].val)
      BY <1>2, <3>1, AppendConcat
    <3>5. Append(line \o tx, posted[1].val) = (line \o tx) \o <<posted[1].val>>
      BY <1>2, <3>1, AppendIsConcat
    <3>6. Handed = (line \o tx) \o <<posted[1].val>>
      BY <2>1 DEF Handed, OnBus
    <3> QED
      BY <3>2, <3>3, <3>4, <3>5, <3>6
  <2>2. CASE ~OnBus
    <3>1. tx' = tx
      BY <1>1, <2>2 DEF OnBus
    <3>2. Handed = (line \o tx) \o << >>
      BY <2>2 DEF Handed, OnBus
    <3> QED
      BY <1>2, <1>3, <3>1, <3>2
  <2> QED
    BY <2>1, <2>2
<1>5. InHand' = InHand /\ (HoldsByte' <=> HoldsByte)
  BY <1>1, InHandKept DEF HoldsByte, InHandler
<1>6. EchoInOrder'
  BY <1>1, <1>4, <1>5, OrderKept DEF OrderInv
<1>7. OrderTypes'
  BY <1>1, <1>4 DEF OrderInv, OrderTypes, OnBus
<1> QED
  BY <1>1, <1>5, <1>6, <1>7 DEF OrderInv, HandInv

\* A frame leaves: a byte moves to the line, a string goes.
LEMMA TransmitOrder == OrderInv /\ Transmit => OrderInv'
<1> SUFFICES ASSUME OrderInv, Transmit PROVE OrderInv'
  OBVIOUS
<1>1. /\ tx # << >> /\ tx' = Tail(tx)
      /\ line' = IF IsByte(Head(tx)) THEN Append(line, Head(tx)) ELSE line
      /\ unsent' = IF IsByte(Head(tx)) THEN unsent ELSE unsent - 1
      /\ UNCHANGED <<pc, mepc, byte, posted, rx, sent, accepted, lost>>
  BY DEF Transmit, core, regs
<1> DEFINE b == IF OnBus THEN <<posted[1].val>> ELSE << >>
           y == <<Head(tx)>>
           z == Tail(tx)
<1>2. /\ line \in Seq(Nat) /\ tx \in Seq(Nat) /\ y \in Seq(Nat) /\ z \in Seq(Nat)
      /\ Head(tx) \in Nat /\ tx = y \o z
  BY <1>1 DEF OrderInv, OrderTypes
<1>3. b \in Seq(Nat)
  BY DEF OrderInv, OrderTypes
<1>4. Handed = (line \o tx) \o b /\ Handed' = (line' \o z) \o b
  BY <1>1 DEF Handed, OnBus
<1>5. y = Append(<< >>, Head(tx)) /\ << >> \in Seq(Nat) /\ Append(line, Head(tx)) = line \o y
  BY <1>2, AppendIsConcat
<1>6. Len(y) = 1
  OBVIOUS
<1> HIDE DEF b, y, z
<1>7. z \o b \in Seq(Nat) /\ y \o (z \o b) \in Seq(Nat)
  BY <1>2, <1>3
<1>8. Handed = line \o (y \o (z \o b))
  <2>1. (line \o tx) \o b = line \o (tx \o b)
    BY <1>2, <1>3, SeqAssoc, ZenonT(60)
  <2>2. (y \o z) \o b = y \o (z \o b)
    BY <1>2, <1>3, SeqAssoc, ZenonT(60)
  <2> QED
    BY <1>2, <1>4, <2>1, <2>2
<1>9. InHand' = InHand /\ (HoldsByte' <=> HoldsByte)
  BY <1>1, InHandKept DEF HoldsByte, InHandler
<1>10. CASE IsByte(Head(tx))
  <2>1. line' = line \o y /\ unsent' = unsent
    BY <1>1, <1>5, <1>10
  <2>2. Handed' = (line \o y) \o (z \o b)
    <3>1. line \o y \in Seq(Nat)
      BY <1>2
    <3>2. ((line \o y) \o z) \o b = (line \o y) \o (z \o b)
      BY <1>2, <1>3, <3>1, SeqAssoc, ZenonT(60)
    <3> QED
      BY <1>4, <2>1, <3>2
  <2>3. (line \o y) \o (z \o b) = line \o (y \o (z \o b))
    <3>1. line \in Seq(Nat) /\ y \in Seq(Nat) /\ z \o b \in Seq(Nat)
      BY <1>2, <1>7
    <3> QED
      BY <3>1, SeqAssoc
  <2>4. Handed' = Handed
    BY <1>8, <2>2, <2>3
  <2>5. EchoInOrder'
    BY <1>1, <1>9, <2>1, <2>4, OrderKept DEF OrderInv
  <2>6. OrderTypes'
    BY <1>1, <1>2, <2>1 DEF OrderInv, OrderTypes, OnBus, z
  <2> QED
    BY <1>1, <1>9, <2>5, <2>6 DEF OrderInv, HandInv
<1>11. CASE ~IsByte(Head(tx))
  <2>1. line' = line /\ unsent' = unsent - 1
    BY <1>1, <1>11
  <2>2. Handed' = line \o (z \o b)
    <3>1. (line \o z) \o b = line \o (z \o b)
      <4>1. line \in Seq(Nat) /\ z \in Seq(Nat) /\ b \in Seq(Nat)
        BY <1>2, <1>3
      <4> QED
        BY <4>1, SeqAssoc
    <3> QED
      BY <1>4, <2>1, <3>1
  <2>3. BytesIn(y) = << >>
    BY <1>2, <1>5, <1>11, BytesAppend, BytesEmpty, ZenonT(60)
  <2>4. /\ BytesIn(Handed) = BytesIn(line) \o BytesIn(y \o (z \o b))
        /\ BytesIn(y \o (z \o b)) = BytesIn(y) \o BytesIn(z \o b)
        /\ BytesIn(Handed') = BytesIn(line) \o BytesIn(z \o b)
    BY <1>2, <1>7, <1>8, <2>2, BytesConcat
  <2>5. BytesIn(z \o b) \in Seq(Nat)
    BY <1>7, BytesType
  <2>6. << >> \o BytesIn(z \o b) = BytesIn(z \o b)
    BY <2>5
  <2>7. BytesIn(Handed') = BytesIn(Handed)
    BY <2>3, <2>4, <2>6
  <2>8. Len(Handed) = Len(Handed') + 1 /\ Len(Handed') \in Nat
    <3>1. line \in Seq(Nat) /\ y \in Seq(Nat) /\ z \o b \in Seq(Nat) /\ y \o (z \o b) \in Seq(Nat)
      BY <1>2, <1>7
    <3>2. /\ Len(line \o (y \o (z \o b))) = Len(line) + Len(y \o (z \o b))
          /\ Len(y \o (z \o b)) = Len(y) + Len(z \o b)
          /\ Len(line \o (z \o b)) = Len(line) + Len(z \o b)
          /\ Len(line) \in Nat /\ Len(z \o b) \in Nat
      BY <3>1
    <3> QED
      BY <1>6, <1>8, <2>2, <3>2
  <2>9. BytesIn(Handed) \in Seq(Nat)
    BY HandedType, BytesType DEF OrderInv
  <2>10. EchoInOrder'
    <3>1. unsent \in Int
      BY DEF OrderInv, OrderTypes
    <3>2. Without(accepted, lost)' = Without(accepted, lost)
      BY <1>1
    <3> QED
      BY <1>1, <1>9, <2>1, <2>7, <2>8, <2>9, <3>1, <3>2 DEF OrderInv, EchoInOrder
  <2>11. OrderTypes'
    BY <1>1, <1>2, <2>1 DEF OrderInv, OrderTypes, OnBus, z
  <2> QED
    BY <1>1, <1>9, <2>10, <2>11 DEF OrderInv, HandInv
<1> QED
  BY <1>10, <1>11

\* A user byte arrives: accepted at the end of both, or lost.
LEMMA ReceiveOrder == OrderInv /\ Receive => OrderInv'
<1> SUFFICES ASSUME OrderInv, Receive PROVE OrderInv'
  OBVIOUS
<1>1. /\ sent' = sent + 1
      /\ \/ rx' = Append(rx, sent + 1) /\ accepted' = Append(accepted, sent + 1)
         \/ UNCHANGED <<rx, accepted>>
      /\ UNCHANGED <<pc, mepc, byte, posted, unsent, tx, line, lost>>
  BY DEF Receive, core, regs, bus
<1>2. rx \in Seq(Nat) /\ accepted \in Seq(Nat) /\ sent + 1 \in Nat /\ sent + 1 # 0 /\ byte \in Nat
  BY DEF OrderInv, OrderTypes
<1>3. InHand' = InHand /\ (HoldsByte' <=> HoldsByte) /\ Handed' = Handed
  BY <1>1, InHandKept, HandedKept DEF HoldsByte, InHandler
<1>4. EchoInOrder'
  <2>1. CASE UNCHANGED <<rx, accepted>>
    BY <1>1, <1>3, <2>1, OrderKept DEF OrderInv
  <2>2. CASE rx' = Append(rx, sent + 1) /\ accepted' = Append(accepted, sent + 1)
    <3> DEFINE x == BytesIn(Handed) \o InHand
    <3>1. BytesIn(Handed) \in Seq(Nat) /\ InHand \in Seq(Nat)
      BY <1>2, HandedType, BytesType DEF OrderInv, InHand
    <3>2. x \in Seq(Nat)
      BY <3>1
    <3>3. Without(accepted, lost) = x \o rx
      BY DEF OrderInv, EchoInOrder
    <3> HIDE DEF x
    <3>4. Append(x \o rx, sent + 1) = x \o Append(rx, sent + 1)
      BY <1>2, <3>2, AppendConcat
    <3>5. sent + 1 \notin lost
      BY <1>2 DEF OrderInv, OrderTypes
    <3>6. Without(Append(accepted, sent + 1), lost) = Append(Without(accepted, lost), sent + 1)
      BY <1>2, <3>5, WithoutAppend DEF Taken
    <3>7. Without(accepted', lost') = x \o rx'
      BY <1>1, <2>2, <3>3, <3>4, <3>6
    <3> QED
      BY <1>1, <1>3, <3>7 DEF OrderInv, EchoInOrder, x
  <2> QED
    BY <1>1, <2>1, <2>2
<1>5. /\ rx' \in Seq(Nat) /\ accepted' \in Seq(Nat) /\ \A n \in 1..Len(rx') : rx'[n] # 0
      /\ rx # << >> => rx' # << >>
  <2>1. CASE UNCHANGED <<rx, accepted>>
    BY <2>1 DEF OrderInv, OrderTypes
  <2>2. CASE rx' = Append(rx, sent + 1) /\ accepted' = Append(accepted, sent + 1)
    <3>1. rx' \in Seq(Nat) /\ accepted' \in Seq(Nat) /\ Len(rx') = Len(rx) + 1
      BY <1>2, <2>2
    <3>2. ASSUME NEW n \in 1..Len(rx') PROVE rx'[n] # 0
      <4>1. \A m \in 1..Len(rx) : rx[m] # 0
        BY DEF OrderInv, OrderTypes
      <4>2. n \in 1..Len(rx) \/ n = Len(rx) + 1
        BY <1>2, <3>1
      <4>3. CASE n = Len(rx) + 1
        BY <1>2, <2>2, <4>3
      <4>4. CASE n \in 1..Len(rx)
        <5>1. rx'[n] = rx[n]
          BY <1>2, <2>2, <4>4
        <5> QED
          BY <4>1, <4>4, <5>1
      <4> QED
        BY <4>2, <4>3, <4>4
    <3> QED
      BY <1>2, <3>1, <3>2
  <2> QED
    BY <1>1, <2>1, <2>2
<1>6. (Rising(accepted) /\ Entries(accepted) \subseteq 1..sent /\ lost \subseteq 1..sent)'
  <2>1. Rising(accepted) /\ Entries(accepted) \subseteq 1..sent /\ lost \subseteq 1..sent
    BY DEF OrderInv, OrderTypes
  <2>2. 1..sent \subseteq 1..sent + 1 /\ sent + 1 \in 1..sent + 1 /\ \A c \in 1..sent : c < sent + 1
    BY DEF OrderInv, OrderTypes
  <2>3. CASE UNCHANGED <<rx, accepted>>
    BY <1>1, <2>1, <2>2, <2>3
  <2>4. CASE rx' = Append(rx, sent + 1) /\ accepted' = Append(accepted, sent + 1)
    <3>1. Rising(accepted') /\ Entries(accepted') = Entries(accepted) \cup {sent + 1}
      BY <1>2, <2>1, <2>2, <2>4, RisingAppend
    <3> QED
      BY <1>1, <2>1, <2>2, <3>1
  <2> QED
    BY <1>1, <2>3, <2>4
<1>7. OrderTypes'
  BY <1>1, <1>2, <1>5, <1>6 DEF OrderInv, OrderTypes, OnBus
<1> QED
  BY <1>1, <1>3, <1>4, <1>5, <1>7 DEF OrderInv, HandInv

\* The start of main keeps the order of the bytes.
LEMMA StartOrder == ControlInv /\ OrderInv /\ Start => OrderInv'
<1> SUFFICES ASSUME ControlInv, OrderInv, Start PROVE OrderInv'
  OBVIOUS
<1>0. pc = "reset"
  BY DEF Start, At
<1>1. UNCHANGED <<line, tx, posted, unsent, rx, accepted, sent, lost, byte>> /\ pc' # "h_rxdata"
  BY <1>0 DEF Start, Goto, core, regs, bus, counters, peri
<1>2. HoldsByte' <=> HoldsByte
  BY <1>0 DEF HoldsByte, InHandler, Start, Goto, core, regs, bus, counters, peri
<1> QED
  BY <1>1, <1>2, OrderQuiet

\* The walk over the CSR bits keeps the order of the bytes.
LEMMA csr_bit_walkOrder == ControlInv /\ OrderInv /\ csr_bit_walk => OrderInv'
<1> SUFFICES ASSUME ControlInv, OrderInv, csr_bit_walk PROVE OrderInv'
  OBVIOUS
<1>0. pc = "walk"
  BY DEF csr_bit_walk, At
<1>1. UNCHANGED <<line, tx, posted, unsent, rx, accepted, sent, lost, byte>> /\ pc' # "h_rxdata"
  BY <1>0 DEF csr_bit_walk, At, Goto, regs, bus, counters, peri, user
<1>2. HoldsByte' <=> HoldsByte
  BY <1>0 DEF HoldsByte, InHandler, csr_bit_walk, At, Goto, regs, bus, counters, peri, user
<1> QED
  BY <1>1, <1>2, OrderQuiet

\* The polled echo keeps the order of the bytes.
LEMMA PollPhaseOrder == ControlInv /\ OrderInv /\ PollPhase => OrderInv'
<1> SUFFICES ASSUME ControlInv, OrderInv, PollPhase PROVE OrderInv'
  OBVIOUS
<1>1. CASE pc = "getc"
  <2>1. /\ rx # << >> /\ byte' = Head(rx) /\ rx' = Tail(rx) /\ pc' = "echo"
         /\ UNCHANGED <<line, tx, posted, unsent, accepted, lost, sent, lost>>
    BY <1>1 DEF PollPhase, At, PeriRead, uart_getc, core, bus, counters, user
  <2>2. ~HoldsByte /\ HoldsByte' /\ pc' # "h_rxdata"
    BY <1>1, <2>1 DEF HoldsByte, InHandler
  <2> QED
    BY <2>1, <2>2, OrderPop
<1>2. CASE pc = "echo"
  <2>1. UNCHANGED <<line, tx, rx, accepted, sent, lost, byte, mepc>> /\ HoldsByte
    BY <1>2 DEF PollPhase, At, core, regs, peri, user, HoldsByte
  <2>2. \/ rdy' = TRUE /\ UNCHANGED <<pc, saved_rdy, bus>>
        \/ Post("TXDATA", byte) /\ pc' \in {"getc", "irqmsg"}
    BY <1>2 DEF PollPhase, At, uart_putc
  <2>3. CASE UNCHANGED <<pc, bus>>
    BY <1>2, <2>1, <2>3, OrderQuiet DEF HoldsByte, InHandler, bus
  <2>4. CASE Post("TXDATA", byte) /\ pc' \in {"getc", "irqmsg"}
    BY <2>1, <2>4, OrderByte DEF HoldsByte, InHandler
  <2> QED
    BY <2>2, <2>3, <2>4
<1> QED
  BY <1>1, <1>2 DEF PollPhase, At

\* Setting up the external interrupt keeps the order of the bytes.
LEMMA ArmExternalOrder == ControlInv /\ OrderInv /\ ArmExternal => OrderInv'
<1> SUFFICES ASSUME ControlInv, OrderInv, ArmExternal PROVE OrderInv'
  OBVIOUS
<1>1. CASE pc = "ctrl"
  <2>1. UNCHANGED <<line, tx, rx, accepted, sent, lost, byte>> /\ Post("CTRL", TRUE) /\ pc' # "h_rxdata"
    BY <1>1 DEF ArmExternal, At, Goto, core, regs, counters, peri, user
  <2>2. HoldsByte' <=> HoldsByte
    BY <1>1 DEF HoldsByte, InHandler, ArmExternal, At, Goto, core, regs, counters, peri, user
  <2> QED
    BY <2>1, <2>2, OrderPost
<1>2. CASE pc = "mtvec"
  <2>1. UNCHANGED <<line, tx, posted, unsent, rx, accepted, sent, lost, byte>> /\ pc' # "h_rxdata"
    BY <1>2 DEF ArmExternal, At, Goto, regs, bus, counters, peri, user
  <2>2. HoldsByte' <=> HoldsByte
    BY <1>2 DEF HoldsByte, InHandler, ArmExternal, At, Goto, regs, bus, counters, peri, user
  <2> QED
    BY <2>1, <2>2, OrderQuiet
<1>3. CASE pc = "mipspin"
  <2>1. UNCHANGED <<line, tx, posted, unsent, rx, accepted, sent, lost, byte>> /\ pc' # "h_rxdata"
    BY <1>3 DEF ArmExternal, At, Goto, core, regs, bus, counters, peri, user
  <2>2. HoldsByte' <=> HoldsByte
    BY <1>3 DEF HoldsByte, InHandler, ArmExternal, At, Goto, core, regs, bus, counters, peri,
       user
  <2> QED
    BY <2>1, <2>2, OrderQuiet
<1> QED
  BY <1>1, <1>2, <1>3 DEF ArmExternal, At

\* The environment call keeps the order of the bytes.
LEMMA EcallProbeOrder == ControlInv /\ OrderInv /\ EcallProbe => OrderInv'
<1> SUFFICES ASSUME ControlInv, OrderInv, EcallProbe PROVE OrderInv'
  OBVIOUS
<1>0. pc = "ecall"
  BY DEF EcallProbe, At
<1>1. UNCHANGED <<line, tx, posted, unsent, rx, accepted, sent, lost, byte>> /\ pc' # "h_rxdata"
  BY <1>0 DEF EcallProbe, At, Enter, TrapVector, Unvectored, regs, bus, counters, peri, user
<1>2. HoldsByte' <=> HoldsByte
  BY <1>0 DEF HoldsByte, InHandler, EcallProbe, At, Enter, TrapVector, Unvectored, regs, bus, counters, peri, user
<1> QED
  BY <1>1, <1>2, OrderQuiet

\* Raising the software interrupt keeps the order of the bytes.
LEMMA SoftwareInterruptOrder == ControlInv /\ OrderInv /\ SoftwareInterrupt => OrderInv'
<1> SUFFICES ASSUME ControlInv, OrderInv, SoftwareInterrupt PROVE OrderInv'
  OBVIOUS
<1>1. CASE pc = "mask"
  <2>1. UNCHANGED <<line, tx, posted, unsent, rx, accepted, sent, lost, byte>> /\ pc' # "h_rxdata"
    BY <1>1 DEF SoftwareInterrupt, At, Goto, regs, bus, counters, peri, user
  <2>2. HoldsByte' <=> HoldsByte
    BY <1>1 DEF HoldsByte, InHandler, SoftwareInterrupt, At, Goto, regs, bus, counters, peri,
       user
  <2> QED
    BY <2>1, <2>2, OrderQuiet
<1>2. CASE pc = "msip"
  <2>1. UNCHANGED <<line, tx, rx, accepted, sent, lost, byte>> /\ Post("MSIP", TRUE) /\ pc' # "h_rxdata"
    BY <1>2 DEF SoftwareInterrupt, At, Goto, core, regs, counters, peri, user
  <2>2. HoldsByte' <=> HoldsByte
    BY <1>2 DEF HoldsByte, InHandler, SoftwareInterrupt, At, Goto, core, regs, counters, peri,
       user
  <2> QED
    BY <2>1, <2>2, OrderPost
<1>3. CASE pc = "msipread"
  <2>1. UNCHANGED <<line, tx, posted, unsent, rx, accepted, sent, lost, byte>> /\ pc' # "h_rxdata"
    BY <1>3 DEF SoftwareInterrupt, At, Goto, PeriRead, core, regs, bus, counters, peri, user
  <2>2. HoldsByte' <=> HoldsByte
    BY <1>3 DEF HoldsByte, InHandler, SoftwareInterrupt, At, Goto, PeriRead, core, regs, bus,
       counters, peri, user
  <2> QED
    BY <2>1, <2>2, OrderQuiet
<1>4. CASE pc = "enable"
  <2>1. UNCHANGED <<line, tx, posted, unsent, rx, accepted, sent, lost, byte>> /\ pc' # "h_rxdata"
    BY <1>4 DEF SoftwareInterrupt, At, Goto, regs, bus, counters, peri, user
  <2>2. HoldsByte' <=> HoldsByte
    BY <1>4 DEF HoldsByte, InHandler, SoftwareInterrupt, At, Goto, regs, bus, counters, peri,
       user
  <2> QED
    BY <2>1, <2>2, OrderQuiet
<1> QED
  BY <1>1, <1>2, <1>3, <1>4 DEF SoftwareInterrupt, At

\* The bounded wait for the software interrupt keeps the order of the bytes.
LEMMA SpinLoopOrder == ControlInv /\ OrderInv /\ SpinLoop => OrderInv'
<1> SUFFICES ASSUME ControlInv, OrderInv, SpinLoop PROVE OrderInv'
  OBVIOUS
<1>1. CASE pc = "spin"
  <2>1. UNCHANGED <<line, tx, posted, unsent, rx, accepted, sent, lost, byte>> /\ pc' # "h_rxdata"
    BY <1>1 DEF SpinLoop, At, Goto, core, regs, bus, counters, peri, user
  <2>2. HoldsByte' <=> HoldsByte
    BY <1>1 DEF HoldsByte, InHandler, SpinLoop, At, Goto, core, regs, bus, counters, peri, user
  <2> QED
    BY <2>1, <2>2, OrderQuiet
<1>2. CASE pc = "spincount"
  <2>1. UNCHANGED <<line, tx, posted, unsent, rx, accepted, sent, lost, byte>> /\ pc' # "h_rxdata"
    BY <1>2 DEF SpinLoop, At, Goto, core, bus, counters, peri, user
  <2>2. HoldsByte' <=> HoldsByte
    BY <1>2 DEF HoldsByte, InHandler, SpinLoop, At, Goto, core, bus, counters, peri, user
  <2> QED
    BY <2>1, <2>2, OrderQuiet
<1>3. CASE pc = "unmsie"
  <2>1. UNCHANGED <<line, tx, posted, unsent, rx, accepted, sent, lost, byte>> /\ pc' # "h_rxdata"
    BY <1>3 DEF SpinLoop, At, Goto, regs, bus, counters, peri, user
  <2>2. HoldsByte' <=> HoldsByte
    BY <1>3 DEF HoldsByte, InHandler, SpinLoop, At, Goto, regs, bus, counters, peri, user
  <2> QED
    BY <2>1, <2>2, OrderQuiet
<1> QED
  BY <1>1, <1>2, <1>3 DEF SpinLoop, At

\* Opening to the external interrupt keeps the order of the bytes.
LEMMA ExternalInterruptOrder == ControlInv /\ OrderInv /\ ExternalInterrupt => OrderInv'
<1> SUFFICES ASSUME ControlInv, OrderInv, ExternalInterrupt PROVE OrderInv'
  OBVIOUS
<1>0. pc = "meie"
  BY DEF ExternalInterrupt, At
<1>1. UNCHANGED <<line, tx, posted, unsent, rx, accepted, sent, lost, byte>> /\ pc' # "h_rxdata"
  BY <1>0 DEF ExternalInterrupt, At, Goto, regs, bus, counters, peri, user
<1>2. HoldsByte' <=> HoldsByte
  BY <1>0 DEF HoldsByte, InHandler, ExternalInterrupt, At, Goto, regs, bus, counters, peri,
     user
<1> QED
  BY <1>1, <1>2, OrderQuiet

\* The loop around wfi keeps the order of the bytes.
LEMMA SleepLoopOrder == ControlInv /\ OrderInv /\ SleepLoop => OrderInv'
<1> SUFFICES ASSUME ControlInv, OrderInv, SleepLoop PROVE OrderInv'
  OBVIOUS
<1>1. CASE pc = "chars"
  <2>1. UNCHANGED <<line, tx, posted, unsent, rx, accepted, sent, lost, byte>> /\ pc' # "h_rxdata"
    BY <1>1 DEF SleepLoop, At, Goto, core, regs, bus, counters, peri, user
  <2>2. HoldsByte' <=> HoldsByte
    BY <1>1 DEF HoldsByte, InHandler, SleepLoop, At, Goto, core, regs, bus, counters, peri,
       user
  <2> QED
    BY <2>1, <2>2, OrderQuiet
<1>2. CASE pc = "bad"
  <2>1. UNCHANGED <<line, tx, posted, unsent, rx, accepted, sent, lost, byte>> /\ pc' # "h_rxdata"
    BY <1>2 DEF SleepLoop, At, Goto, core, regs, bus, counters, peri, user
  <2>2. HoldsByte' <=> HoldsByte
    BY <1>2 DEF HoldsByte, InHandler, SleepLoop, At, Goto, core, regs, bus, counters, peri,
       user
  <2> QED
    BY <2>1, <2>2, OrderQuiet
<1>3. CASE pc = "branch"
  <2>1. UNCHANGED <<line, tx, posted, unsent, rx, accepted, sent, lost, byte>> /\ pc' # "h_rxdata"
    BY <1>3 DEF SleepLoop, At, Goto, core, regs, bus, counters, peri, user
  <2>2. HoldsByte' <=> HoldsByte
    BY <1>3 DEF HoldsByte, InHandler, SleepLoop, At, Goto, core, regs, bus, counters, peri,
       user
  <2> QED
    BY <2>1, <2>2, OrderQuiet
<1>4. CASE pc = "wfi"
  <2>1. UNCHANGED <<line, tx, posted, unsent, rx, accepted, sent, lost, byte>> /\ pc' # "h_rxdata"
    BY <1>4 DEF SleepLoop, At, Goto, core, regs, bus, counters, peri, user
  <2>2. HoldsByte' <=> HoldsByte
    BY <1>4 DEF HoldsByte, InHandler, SleepLoop, At, Goto, core, regs, bus, counters, peri,
       user
  <2> QED
    BY <2>1, <2>2, OrderQuiet
<1> QED
  BY <1>1, <1>2, <1>3, <1>4 DEF SleepLoop, At

\* The verdict of main keeps the order of the bytes.
LEMMA ReportOrder == ControlInv /\ OrderInv /\ Report => OrderInv'
<1> SUFFICES ASSUME ControlInv, OrderInv, Report PROVE OrderInv'
  OBVIOUS
<1>1. CASE pc = "disable"
  <2>1. UNCHANGED <<line, tx, posted, unsent, rx, accepted, sent, lost, byte>> /\ pc' # "h_rxdata"
    BY <1>1 DEF Report, At, Goto, regs, bus, counters, peri, user
  <2>2. HoldsByte' <=> HoldsByte
    BY <1>1 DEF HoldsByte, InHandler, Report, At, Goto, regs, bus, counters, peri, user
  <2> QED
    BY <2>1, <2>2, OrderQuiet
<1>2. CASE pc = "ctrl0"
  <2>1. UNCHANGED <<line, tx, rx, accepted, sent, lost, byte>> /\ Post("CTRL", FALSE) /\ pc' # "h_rxdata"
    BY <1>2 DEF Report, At, Goto, core, regs, counters, peri, user
  <2>2. HoldsByte' <=> HoldsByte
    BY <1>2 DEF HoldsByte, InHandler, Report, At, Goto, core, regs, counters, peri, user
  <2> QED
    BY <2>1, <2>2, OrderPost
<1>3. CASE pc = "mark"
  <2>1. UNCHANGED <<line, tx, posted, unsent, rx, accepted, sent, lost, byte>> /\ pc' # "h_rxdata"
    BY <1>3 DEF Report, At, Goto, core, regs, bus, counters, peri, user
  <2>2. HoldsByte' <=> HoldsByte
    BY <1>3 DEF HoldsByte, InHandler, Report, At, Goto, core, regs, bus, counters, peri, user
  <2> QED
    BY <2>1, <2>2, OrderQuiet
<1> QED
  BY <1>1, <1>2, <1>3 DEF Report, At

\* The handler looking at mcause keeps the order of the bytes.
LEMMA DispatchCauseOrder == ControlInv /\ OrderInv /\ DispatchCause => OrderInv'
<1> SUFFICES ASSUME ControlInv, OrderInv, DispatchCause PROVE OrderInv'
  OBVIOUS
<1>0. pc = "h_cause"
  BY DEF DispatchCause, At
<1>1. UNCHANGED <<line, tx, posted, unsent, rx, accepted, sent, lost, byte>> /\ pc' # "h_rxdata"
  BY <1>0 DEF DispatchCause, At, Goto, core, regs, bus, counters, peri, user
<1>2. HoldsByte' <=> HoldsByte
  BY <1>0 DEF HoldsByte, InHandler, DispatchCause, At, Goto, core, regs, bus, counters, peri,
     user
<1> QED
  BY <1>1, <1>2, OrderQuiet

\* The software interrupt of the handler keeps the order of the bytes.
LEMMA HandleMsiOrder == ControlInv /\ OrderInv /\ HandleMsi => OrderInv'
<1> SUFFICES ASSUME ControlInv, OrderInv, HandleMsi PROVE OrderInv'
  OBVIOUS
<1>1. CASE pc = "h_msip"
  <2>1. UNCHANGED <<line, tx, rx, accepted, sent, lost, byte>> /\ Post("MSIP", FALSE) /\ pc' # "h_rxdata"
    BY <1>1 DEF HandleMsi, At, Goto, core, regs, counters, peri, user
  <2>2. HoldsByte' <=> HoldsByte
    BY <1>1 DEF HoldsByte, InHandler, HandleMsi, At, Goto, core, regs, counters, peri, user
  <2> QED
    BY <2>1, <2>2, OrderPost
<1>2. CASE pc = "h_msi_count"
  <2>1. UNCHANGED <<line, tx, posted, unsent, rx, accepted, sent, lost, byte>> /\ pc' # "h_rxdata"
    BY <1>2 DEF HandleMsi, At, Goto, core, regs, bus, peri, user
  <2>2. HoldsByte' <=> HoldsByte
    BY <1>2 DEF HoldsByte, InHandler, HandleMsi, At, Goto, core, regs, bus, peri, user
  <2> QED
    BY <2>1, <2>2, OrderQuiet
<1> QED
  BY <1>1, <1>2 DEF HandleMsi, At

\* The environment call of the handler keeps the order of the bytes.
LEMMA HandleEcallOrder == ControlInv /\ OrderInv /\ HandleEcall => OrderInv'
<1> SUFFICES ASSUME ControlInv, OrderInv, HandleEcall PROVE OrderInv'
  OBVIOUS
<1>0. pc = "h_ecall"
  BY DEF HandleEcall, At
<1>1. UNCHANGED <<line, tx, posted, unsent, rx, accepted, sent, lost, byte>> /\ pc' # "h_rxdata"
  BY <1>0 DEF HandleEcall, At, Goto, regs, bus, peri, user
<1>2. HoldsByte' <=> HoldsByte
  BY <1>0 DEF HoldsByte, ControlInv, MainPc, InHandler, HandlerAt, HandleEcall, At, Goto,
     regs, bus, peri, user
<1> QED
  BY <1>1, <1>2, OrderQuiet

\* The unexpected cause of the handler keeps the order of the bytes.
LEMMA HandleBadOrder == ControlInv /\ OrderInv /\ HandleBad => OrderInv'
<1> SUFFICES ASSUME ControlInv, OrderInv, HandleBad PROVE OrderInv'
  OBVIOUS
<1>0. pc = "h_bad"
  BY DEF HandleBad, At
<1>1. UNCHANGED <<line, tx, posted, unsent, rx, accepted, sent, lost, byte>> /\ pc' # "h_rxdata"
  BY <1>0 DEF HandleBad, At, Goto, regs, bus, peri, user
<1>2. HoldsByte' <=> HoldsByte
  BY <1>0 DEF HoldsByte, InHandler, HandleBad, At, Goto, regs, bus, peri, user
<1> QED
  BY <1>1, <1>2, OrderQuiet

\* The external interrupt of the handler keeps the order of the bytes.
LEMMA HandleMeiOrder == ControlInv /\ OrderInv /\ HandleMei => OrderInv'
<1> SUFFICES ASSUME ControlInv, OrderInv, HandleMei PROVE OrderInv'
  OBVIOUS
<1>1. CASE pc = "h_status"
  <2>1. UNCHANGED <<line, tx, posted, unsent, rx, accepted, sent, lost, byte>>
    BY <1>1 DEF HandleMei, At, Goto, PeriRead, core, regs, bus, counters, peri, user
  <2>2. HoldsByte' <=> HoldsByte
    BY <1>1 DEF HoldsByte, InHandler, HandleMei, At, Goto, PeriRead, core, regs, bus,
       counters, peri, user
  <2>3. pc' = "h_rxdata" => rx # << >>
    BY <1>1 DEF HandleMei, At, Goto, PeriRead, core, regs, bus, counters, peri, user
  <2>4. Handed' = Handed /\ InHand' = InHand
    BY <2>1, <2>2, HandedKept, InHandKept
  <2>5. EchoInOrder'
    BY <2>1, <2>4, OrderKept DEF OrderInv
  <2>6. OrderTypes'
    BY <2>1 DEF OrderInv, OrderTypes, OnBus
  <2> QED
    BY <2>1, <2>2, <2>3, <2>5, <2>6 DEF OrderInv, HandInv
<1>2. CASE pc = "h_rxdata"
  <2>1. /\ byte' = Head(rx) /\ rx' = Tail(rx) /\ pc' = "h_echo"
         /\ UNCHANGED <<line, tx, posted, unsent, accepted, lost, sent, lost>>
    BY <1>2 DEF HandleMei, At, Goto, PeriRead, core, bus, counters, user
  <2>2. ~HoldsByte /\ HoldsByte' /\ pc' # "h_rxdata"
    BY <1>2, <2>1 DEF HoldsByte
  <2>3. rx # << >>
    BY <1>2 DEF OrderInv, HandInv
  <2> QED
    BY <2>1, <2>2, <2>3, OrderPop
<1>3. CASE pc = "h_echo"
  <2>1. UNCHANGED <<line, tx, rx, accepted, sent, lost, byte, mepc>> /\ HoldsByte
    BY <1>3 DEF HandleMei, At, core, regs, peri, user, HoldsByte
  <2>2. \/ rdy' = TRUE /\ UNCHANGED <<pc, saved_rdy, bus>>
        \/ Post("TXDATA", byte) /\ pc' = "h_count"
    BY <1>3 DEF HandleMei, At, uart_putc
  <2>3. CASE UNCHANGED <<pc, bus>>
    BY <1>3, <2>1, <2>3, OrderQuiet DEF HoldsByte, bus
  <2>4. CASE Post("TXDATA", byte) /\ pc' = "h_count"
    BY <2>1, <2>4, OrderByte DEF HoldsByte
  <2> QED
    BY <2>2, <2>3, <2>4
<1>4. CASE pc = "h_count"
  <2>1. UNCHANGED <<line, tx, posted, unsent, rx, accepted, sent, lost, byte>> /\ pc' # "h_rxdata"
    BY <1>4 DEF HandleMei, At, Goto, core, regs, bus, peri, user
  <2>2. HoldsByte' <=> HoldsByte
    BY <1>4 DEF HoldsByte, InHandler, HandleMei, At, Goto, core, regs, bus, peri, user
  <2> QED
    BY <2>1, <2>2, OrderQuiet
<1> QED
  BY <1>1, <1>2, <1>3, <1>4 DEF HandleMei, At

\* The return from the trap keeps the order of the bytes.
LEMMA MretOrder == ControlInv /\ OrderInv /\ Mret => OrderInv'
<1> SUFFICES ASSUME ControlInv, OrderInv, Mret PROVE OrderInv'
  OBVIOUS
<1>0. pc = "mret"
  BY DEF Mret, At
<1>1. UNCHANGED <<line, tx, posted, unsent, rx, accepted, sent, lost, byte>> /\ pc' # "h_rxdata"
  BY <1>0 DEF Mret, At, regs, bus, counters, peri, user, ControlInv, MainPc, InHandler, Main,
     UpToMask, UpToEcall, Arming, Waiting, Late
<1>2. HoldsByte' <=> HoldsByte
  BY <1>0 DEF HoldsByte, Unvectored, ControlInv, MainPc, InHandler, HandlerAt, Main, UpToMask, UpToEcall,
     Arming, Waiting, Late, Mret, At, regs, bus, counters, peri, user
<1> QED
  BY <1>1, <1>2, OrderQuiet

\* Taking an interrupt keeps the order of the bytes.
LEMMA TakeInterruptOrder == ControlInv /\ OrderInv /\ TakeInterrupt => OrderInv'
<1> SUFFICES ASSUME ControlInv, OrderInv, TakeInterrupt PROVE OrderInv'
  OBVIOUS
<1>1. ~InHandler /\ pc' = TrapVector /\ pc \notin Unvectored
  BY DEF TakeInterrupt, IntPending, Enter, ControlInv, MainPc, UpToMask, UpToEcall, Unvectored
<1>2. UNCHANGED <<line, tx, posted, unsent, rx, accepted, sent, lost, byte>> /\ pc' = "h_H"
  BY <1>1 DEF TakeInterrupt, Enter, TrapVector, Unvectored, regs, bus, peri
<1>3. HoldsByte' <=> HoldsByte
  BY <1>1, <1>2 DEF HoldsByte, InHandler, Unvectored
<1> QED
  BY <1>2, <1>3, OrderQuiet

\* A stray fetch keeps the order of the bytes: one at the echo of the polling loop
\* loses the byte in hand, another loses nothing.
LEMMA FaultOrder == ControlInv /\ OrderInv /\ Fault => OrderInv'
<1> SUFFICES ASSUME ControlInv, OrderInv, Fault PROVE OrderInv'
  OBVIOUS
<1>1. /\ UNCHANGED <<line, tx, posted, unsent, rx, accepted, sent, byte>>
      /\ lost' = IF pc = "echo" THEN lost \cup {byte} ELSE lost
      /\ pc' \in {"reset", "h_H"} /\ ~InHandler
  BY DEF Fault, Enter, TrapVector, regs, bus, peri
<1>2. ~HoldsByte' /\ pc' # "h_rxdata"
  BY <1>1 DEF HoldsByte
<1>3. CASE pc # "echo"
  <2>1. ~HoldsByte
    BY <1>1, <1>3 DEF HoldsByte, InHandler
  <2> QED
    BY <1>1, <1>2, <1>3, <2>1, OrderQuiet
<1>4. CASE pc = "echo"
  <2> DEFINE x == BytesIn(Handed)
             left == Without(accepted, lost)
  <2>1. /\ x \in Seq(Nat) /\ rx \in Seq(Nat) /\ byte \in Nat /\ accepted \in Seq(Nat)
        /\ Rising(accepted) /\ Entries(accepted) \subseteq 1..sent /\ lost \subseteq 1..sent
    BY HandedType, BytesType DEF OrderInv, OrderTypes
  <2>2. InHand = <<byte>> /\ InHand' = << >>
    BY <1>1, <1>4 DEF InHand
  <2>3. left = (x \o <<byte>>) \o rx
    BY <2>2 DEF OrderInv, EchoInOrder
  <2>4. Rising(left) /\ Entries(left) \subseteq Entries(accepted)
    BY <2>1, WithoutRises
  <2> HIDE DEF x
  <2>5. Without(left, {byte}) = x \o rx
    BY <2>1, <2>3, <2>4, WithoutOne
  <2>6. byte \in 1..sent
    <3>1. Len(x) + 1 \in 1..Len((x \o <<byte>>) \o rx) /\ ((x \o <<byte>>) \o rx)[Len(x) + 1] = byte
      BY <2>1
    <3>2. byte \in Entries(left)
      BY <2>3, <3>1 DEF Entries
    <3> QED
      BY <2>1, <2>4, <3>2
  <2>7. Without(accepted', lost') = (x \o << >>) \o rx
    <3>1. x \o << >> = x
      BY <2>1
    <3>2. Without(accepted, lost \cup {byte}) = Without(left, {byte})
      BY <2>1, WithoutTwice
    <3> QED
      BY <1>1, <1>4, <2>5, <3>1, <3>2
  <2>8. EchoInOrder'
    <3>1. Handed' = Handed
      BY <1>1, HandedKept
    <3> QED
      BY <1>1, <2>2, <2>7, <3>1 DEF OrderInv, EchoInOrder, x
  <2>9. OrderTypes'
    BY <1>1, <1>4, <2>1, <2>6 DEF OrderInv, OrderTypes, OnBus
  <2> QED
    BY <1>2, <2>8, <2>9 DEF OrderInv, HandInv
<1> QED
  BY <1>3, <1>4

\* Strings: a poll that succeeds changes nothing, a store hands over one token.
LEMMA uart_putsOrder == ControlInv /\ OrderInv /\ uart_puts => OrderInv'
<1> SUFFICES ASSUME ControlInv, OrderInv, uart_puts PROVE OrderInv'
  OBVIOUS
<1>1. PICK l \in DOMAIN PrintThen :
        /\ At(l) /\ uart_putc(Text, PrintThen[l])
        /\ UNCHANGED <<core, regs, counters, result, peri, user>>
  BY DEF uart_puts
<1>2. pc \in {"banner", "irqmsg", "mtvecmsg", "mipmsg", "trapmsg", "msipmsg", "msimsg", "timeoutmsg",
              "mst2msg", "donemsg", "h_H", "h_X", "h_parkmsg"} /\ pc = l
  BY <1>1 DEF PrintThen, At
<1>3. UNCHANGED <<line, tx, rx, accepted, sent, lost, byte, mepc>>
  BY <1>1 DEF core, regs, peri, user
<1>4. \/ UNCHANGED <<pc, bus>>
      \/ Post("TXDATA", Text) /\ pc' = PrintThen[pc]
  BY <1>1, <1>2 DEF uart_putc
<1>5. CASE UNCHANGED <<pc, bus>>
  BY <1>2, <1>3, <1>5, OrderQuiet DEF HoldsByte, InHandler, bus
<1>6. CASE Post("TXDATA", Text) /\ pc' = PrintThen[pc]
  <2>1. (HoldsByte' <=> HoldsByte) /\ pc' # "h_rxdata"
    BY <1>2, <1>3, <1>6 DEF HoldsByte, InHandler, PrintThen
  <2> QED
    BY <1>3, <1>6, <2>1, OrderText
<1> QED
  BY <1>4, <1>5, <1>6

\* At reset nothing has come and nothing has gone.
LEMMA OrderInvInit == EchoInit /\ Boot => OrderInv
<1> SUFFICES ASSUME EchoInit, Boot PROVE OrderInv
  OBVIOUS
<1>1. OrderTypes
  BY DEF EchoInit, OrderTypes, OnBus, Rising, Entries
<1>2. HandInv
  BY DEF EchoInit, Boot, HandInv, HoldsByte, InHandler
<1>3. Handed = << >> /\ InHand = << >>
  BY DEF EchoInit, Boot, Handed, InHand, InHandler
<1>4. EchoInOrder
  BY <1>3, BytesEmpty, WithoutEmpty DEF EchoInit, EchoInOrder
<1> QED
  BY <1>1, <1>2, <1>4 DEF OrderInv

\* Every step keeps the order.
LEMMA OrderInvNext ==
  CtlInv /\ OrderInv /\ [EchoNext]_<<image, pc, echoVars>> => OrderInv'
<1> SUFFICES ASSUME ControlInv, OrderInv, [EchoNext]_<<image, pc, echoVars>> PROVE OrderInv'
  BY DEF CtlInv
<1>1. CASE EchoNext
  BY <1>1, StartOrder, csr_bit_walkOrder, PollPhaseOrder, ArmExternalOrder, EcallProbeOrder,
     SoftwareInterruptOrder, SpinLoopOrder, ExternalInterruptOrder, SleepLoopOrder,
     ReportOrder,
     DispatchCauseOrder, HandleMsiOrder, HandleEcallOrder, HandleBadOrder, HandleMeiOrder,
     MretOrder, uart_putsOrder, TakeInterruptOrder, FaultOrder, DrainOrder, TransmitOrder,
     ReceiveOrder
     DEF EchoNext, Cpu, echo_main, trap_handler
<1>2. CASE UNCHANGED <<image, pc, echoVars>>
  <2>1. UNCHANGED <<line, tx, posted, unsent, rx, accepted, sent, lost, byte, pc, mepc>>
    BY <1>2 DEF echoVars, core, regs, bus, peri, user
  <2>2. (HoldsByte' <=> HoldsByte) /\ Handed' = Handed
    BY <2>1, HandedKept DEF HoldsByte, InHandler
  <2>3. EchoInOrder'
    BY <2>1, <2>2, InHandKept, OrderKept DEF OrderInv
  <2> QED
    BY <2>1, <2>2, <2>3 DEF OrderInv, OrderTypes, OnBus, HandInv
<1> QED
  BY <1>1, <1>2

\* For every FIFO depth, phase length and set of straying statements: every byte the
\* UART accepts is echoed once and in order, except exactly the one in hand when a trap
\* before mtvec is written starts the program again, and no string is lost, wherever an
\* interrupt or a fault falls into main.
THEOREM EchoKeepsOrder == EchoSpec => []EchoInOrder
<1>1. image = "uart_echo" /\ Boot /\ EchoInit => CtlInv /\ OrderInv
  BY CtlInvInit, OrderInvInit
<1>2. OrderInv => EchoInOrder
  BY DEF OrderInv
<1> QED
  BY <1>1, <1>2, CtlInvNext, OrderInvNext, PTL DEF EchoSpec

(***************************************************************************)
(* Quicksort (sim/sw/quicksort/main.c). The invariant ties the calls under *)
(* way to each other: each range lies in the part its caller sorts,        *)
(* entries have only moved inside it since it began, and what lies around  *)
(* it is in order already.                                                 *)
(***************************************************************************)

Frames == [lo : Int, hi : Int, at : {"enter", "partition", "left", "right", "return"},
           p : Int, was : [Index -> Values]]
Top == Len(calls)

\* The bounds of the part of its range that call c has the call inside it sort.
PartLo(c) == IF c.at = "right" THEN c.lo ELSE c.p + 1
PartHi(c) == IF c.at = "right" THEN c.p - 1 ELSE c.hi

\* Entries lo..hi of a are in order.
InOrder(a, lo, hi) == \A k, l \in lo..hi : k <= l => a[k] <= a[l]

\* The pivot of call c stands between the smaller and the larger entries.
Split(a, c) ==
  /\ c.p \in c.lo..c.hi
  /\ \A k \in c.lo..c.p - 1 : a[k] <= a[c.p]
  /\ \A k \in c.p + 1..c.hi : a[c.p] <= a[k]

\* Since call c began, entries have only changed places inside its range.
Moved(a, c) ==
  /\ \A x \in Values : Occurrences(a, c.lo..c.hi, x) = Occurrences(c.was, c.lo..c.hi, x)
  /\ \A k \in Index \ (c.lo..c.hi) : a[k] = c.was[k]

QsortTypeOK ==
  /\ arr \in [Index -> Values] /\ calls \in Seq(Frames)
  /\ pc \in {"sort", "verify", "done"}
  /\ pc = "sort" <=> calls # << >>
  /\ part # << >> <=> calls # << >> /\ calls[Top].at = "partition"

\* The outermost range is the array, each range lies in the parts its callers sort,
\* and a range is shorter by one for each call around it.
RangesInv ==
  /\ calls # << >> => calls[1].lo = 0 /\ calls[1].hi = N - 1
  /\ \A n \in 1..Top : /\ 0 <= calls[n].lo /\ calls[n].hi <= N - 1
                       /\ calls[n].lo <= calls[n].hi + 1
                       /\ calls[n].hi - calls[n].lo + n <= N
  /\ \A n \in 1..Top-1 :
       /\ calls[n].at \in {"right", "return"}
       /\ calls[n + 1].lo = PartLo(calls[n]) /\ calls[n + 1].hi = PartHi(calls[n])
       /\ \A m \in n+1..Top : PartLo(calls[n]) <= calls[m].lo /\ calls[m].hi <= PartHi(calls[n])

MovesInv == \A n \in 1..Top : Moved(arr, calls[n])

\* The loop of partition: entries up to i are small, those between i and j large.
PartitionInv ==
  part # << >> =>
    /\ part[1] \in [i : Int, j : Int, pivot : Values]
    /\ calls[Top].lo - 1 <= part[1].i /\ part[1].i < part[1].j /\ part[1].j <= calls[Top].hi
    /\ part[1].pivot = arr[calls[Top].hi]
    /\ \A k \in calls[Top].lo..part[1].i : arr[k] <= part[1].pivot
    /\ \A k \in part[1].i + 1..part[1].j - 1 : part[1].pivot <= arr[k]

\* What is in order around and in the innermost call, by the statement it is at.
OrderedInv ==
  /\ \A n \in 1..Top-1 :
       /\ Split(arr, calls[n])
       /\ calls[n].at = "return" => InOrder(arr, calls[n].lo, calls[n].p - 1)
  /\ calls # << >> =>
       /\ calls[Top].at \in {"left", "right"} => Split(arr, calls[Top])
       /\ calls[Top].at = "right" => InOrder(arr, calls[Top].lo, calls[Top].p - 1)
       /\ calls[Top].at = "return" => InOrder(arr, calls[Top].lo, calls[Top].hi)
  /\ pc # "sort" => InOrder(arr, 0, N - 1)
  /\ verdict # "BAD"

Sorting == QsortTypeOK /\ RangesInv /\ MovesInv /\ PartitionInv /\ OrderedInv
Unfilled == pc = "reset" /\ calls = << >> /\ part = << >> /\ verdict = "none"
QsortInv == Unfilled \/ Sorting

\* b is a with the entries at ix and j exchanged.
Exchanged(b, a, ix, j) ==
  /\ b \in [Index -> Values] /\ b[ix] = a[j] /\ b[j] = a[ix]
  /\ \A k \in Index : k # ix /\ k # j => b[k] = a[k]

\* Two stores of two loaded entries exchange them.
LEMMA ExceptExchanges ==
  ASSUME NEW a \in [Index -> Values], NEW ix \in Index, NEW j \in Index
  PROVE  Exchanged([a EXCEPT ![ix] = a[j], ![j] = a[ix]], a, ix, j)
BY DEF Exchanged

\* An exchange inside a range keeps how often a value occurs in it.
LEMMA ExchangeKeepsOccurrences ==
  ASSUME NEW a \in [Index -> Values], NEW b, NEW lo \in Int, NEW hi \in Int,
         lo..hi \subseteq Index, NEW ix \in lo..hi, NEW j \in lo..hi,
         Exchanged(b, a, ix, j), NEW v
  PROVE  Occurrences(b, lo..hi, v) = Occurrences(a, lo..hi, v)
<1> DEFINE A == {k \in lo..hi : a[k] = v}
           B == {k \in lo..hi : b[k] = v}
<1>1. IsFiniteSet(A)
  BY FS_Interval, FS_Subset
<1>2. CASE (ix \in A <=> j \in A)
  <2>1. A = B
    BY <1>2 DEF Exchanged
  <2> QED
    BY <2>1 DEF Occurrences
<1>3. ASSUME NEW x \in lo..hi, NEW y \in lo..hi, {x, y} = {ix, j}, x \in A, y \notin A
      PROVE  Cardinality(B) = Cardinality(A)
  <2>1. B = (A \ {x}) \cup {y}
    BY <1>3 DEF Exchanged
  <2> HIDE DEF A, B
  <2>2. IsFiniteSet(A \ {x}) /\ Cardinality(A \ {x}) = Cardinality(A) - 1
    BY <1>1, <1>3, FS_RemoveElement
  <2>3. Cardinality((A \ {x}) \cup {y}) = Cardinality(A \ {x}) + 1
    BY <1>3, <2>2, FS_AddElement
  <2>4. Cardinality(A) \in Nat
    BY <1>1, FS_CardinalityType
  <2> QED
    BY <2>1, <2>2, <2>3, <2>4
<1>4. CASE ~(ix \in A <=> j \in A)
  <2>1. Cardinality(B) = Cardinality(A)
    BY <1>3, <1>4
  <2> QED
    BY <2>1 DEF Occurrences
<1> QED
  BY <1>2, <1>4

\* The bounds of a call, as numbers.
LEMMA FrameType == ASSUME QsortTypeOK, NEW n \in 1..Top
                   PROVE  /\ calls[n] \in Frames /\ calls[n].lo \in Int /\ calls[n].hi \in Int
                          /\ calls[n].p \in Int /\ calls[n].was \in [Index -> Values]
                          /\ Top \in Nat
<1>1. calls[n] \in Frames /\ Top \in Nat
  BY DEF QsortTypeOK, Top
<1> QED
  BY <1>1 DEF Frames

\* An exchange in the innermost range disturbs nothing that the calls around it rely on.
LEMMA ExchangeBelow ==
  ASSUME QsortTypeOK, RangesInv, OrderedInv, NEW b, NEW ix, NEW j, calls # << >>,
         ix \in calls[Top].lo..calls[Top].hi, j \in calls[Top].lo..calls[Top].hi,
         Exchanged(b, arr, ix, j), NEW n \in 1..Top-1
  PROVE  /\ Split(b, calls[n])
         /\ calls[n].at = "return" => InOrder(b, calls[n].lo, calls[n].p - 1)
<1>1. n \in 1..Top /\ Top \in n+1..Top /\ Top \in Nat /\ Top \in 1..Top /\ n < Top
  BY DEF QsortTypeOK, Top
<1> DEFINE c == calls[n]
           t == calls[Top]
<1>2. /\ c.lo \in Int /\ c.hi \in Int /\ c.p \in Int /\ t.lo \in Int /\ t.hi \in Int
      /\ 0 <= c.lo /\ c.hi <= N - 1 /\ N \in Nat
  BY <1>1, FrameType, QsortAssumption DEF RangesInv
<1>3. /\ c.at \in {"right", "return"} /\ PartLo(c) <= t.lo /\ t.hi <= PartHi(c)
      /\ Split(arr, c) /\ (c.at = "return" => InOrder(arr, c.lo, c.p - 1))
  BY <1>1 DEF RangesInv, OrderedInv
<1> HIDE DEF c, t
<1>4. ix \in t.lo..t.hi /\ j \in t.lo..t.hi
  BY DEF t
<1>5. CASE c.at = "right"
  <2>1. ix \in c.lo..c.p-1 /\ j \in c.lo..c.p-1
    BY <1>2, <1>3, <1>4, <1>5 DEF PartLo, PartHi
  <2>2. c.p \in c.lo..c.hi
    BY <1>3 DEF Split
  <2>3. \A k \in Index \ (c.lo..c.p-1) : b[k] = arr[k]
    BY <2>1 DEF Exchanged
  <2>4. \A k \in c.lo..c.p-1 : b[k] = arr[k] \/ b[k] = arr[ix] \/ b[k] = arr[j]
    <3>1. \A k \in c.lo..c.p-1 : k \in Index
      BY <1>2, <2>2 DEF Index
    <3>2. b[ix] = arr[j] /\ b[j] = arr[ix] /\ \A k \in Index : k # ix /\ k # j => b[k] = arr[k]
      BY DEF Exchanged
    <3> QED
      BY <3>1, <3>2
  <2>5. \A k \in c.lo..c.p-1 : b[k] <= arr[c.p]
    <3>1. \A k \in c.lo..c.p-1 : arr[k] <= arr[c.p]
      BY <1>3 DEF Split
    <3>2. arr[ix] <= arr[c.p] /\ arr[j] <= arr[c.p]
      BY <2>1, <3>1
    <3> QED
      BY <2>4, <3>1, <3>2
  <2>6. \A k \in c.p..c.hi : b[k] = arr[k]
    BY <1>2, <2>2, <2>3, SMTT(40) DEF Index
  <2>7. b[c.p] = arr[c.p] /\ \A k \in c.p+1..c.hi : b[k] = arr[k]
    BY <1>2, <2>2, <2>6
  <2>8. Split(b, c)
    BY <1>3, <2>2, <2>5, <2>7 DEF Split
  <2> QED
    BY <1>5, <2>8 DEF c
<1>6. CASE c.at = "return"
  <2>0. PartLo(c) = c.p + 1 /\ PartHi(c) = c.hi
    BY <1>6 DEF PartLo, PartHi
  <2>1. ix \in c.p+1..c.hi /\ j \in c.p+1..c.hi
    BY <1>2, <1>3, <1>4, <2>0
  <2>2. c.p \in c.lo..c.hi
    BY <1>3 DEF Split
  <2>3. \A k \in Index \ (c.p+1..c.hi) : b[k] = arr[k]
    BY <2>1 DEF Exchanged
  <2>4. \A k \in c.p+1..c.hi : b[k] = arr[k] \/ b[k] = arr[ix] \/ b[k] = arr[j]
    <3>1. \A k \in c.p+1..c.hi : k \in Index
      BY <1>2, <2>2 DEF Index
    <3>2. b[ix] = arr[j] /\ b[j] = arr[ix] /\ \A k \in Index : k # ix /\ k # j => b[k] = arr[k]
      BY DEF Exchanged
    <3> QED
      BY <3>1, <3>2
  <2>5. \A k \in c.p+1..c.hi : arr[c.p] <= b[k]
    <3>1. \A k \in c.p+1..c.hi : arr[c.p] <= arr[k]
      BY <1>3 DEF Split
    <3>2. arr[c.p] <= arr[ix] /\ arr[c.p] <= arr[j]
      BY <2>1, <3>1
    <3> QED
      BY <2>4, <3>1, <3>2
  <2>6. \A k \in c.lo..c.p : b[k] = arr[k]
    BY <1>2, <2>2, <2>3 DEF Index
  <2>9. b[c.p] = arr[c.p] /\ \A k \in c.lo..c.p-1 : b[k] = arr[k]
    BY <1>2, <2>2, <2>6
  <2>7. Split(b, c)
    BY <1>3, <2>2, <2>5, <2>9 DEF Split
  <2>8. InOrder(b, c.lo, c.p - 1)
    BY <1>3, <1>6, <2>9 DEF InOrder
  <2> QED
    BY <2>7, <2>8 DEF c
<1> QED
  BY <1>3, <1>5, <1>6

\* An exchange in the innermost range is one inside the range of every call.
LEMMA ExchangeMoves ==
  ASSUME QsortTypeOK, RangesInv, MovesInv, OrderedInv, NEW b, NEW ix, NEW j, calls # << >>,
         ix \in calls[Top].lo..calls[Top].hi, j \in calls[Top].lo..calls[Top].hi,
         Exchanged(b, arr, ix, j), NEW n \in 1..Top
  PROVE  Moved(b, calls[n])
<1> DEFINE c == calls[n]
           t == calls[Top]
<1>1. Top \in Nat /\ Top \in 1..Top /\ n \in Nat
  BY DEF QsortTypeOK, Top
<1>2. /\ c.lo \in Int /\ c.hi \in Int /\ c.p \in Int /\ t.lo \in Int /\ t.hi \in Int
      /\ 0 <= c.lo /\ c.hi <= N - 1 /\ N \in Nat
  BY <1>1, FrameType, QsortAssumption DEF RangesInv
<1>3. c.lo <= t.lo /\ t.hi <= c.hi
  <2>1. CASE n = Top
    BY <1>2, <2>1
  <2>2. CASE n # Top
    <3>1. n \in 1..Top-1 /\ Top \in n+1..Top
      BY <1>1, <2>2
    <3>2. PartLo(c) <= t.lo /\ t.hi <= PartHi(c) /\ Split(arr, c)
      BY <3>1 DEF RangesInv, OrderedInv
    <3> HIDE DEF c, t
    <3>3. c.p \in c.lo..c.hi
      BY <3>2 DEF Split
    <3>4. (PartLo(c) = c.lo /\ PartHi(c) = c.p - 1) \/ (PartLo(c) = c.p + 1 /\ PartHi(c) = c.hi)
      BY DEF PartLo, PartHi
    <3> QED
      BY <1>2, <3>2, <3>3, <3>4, SMTT(40)
  <2> QED
    BY <2>1, <2>2
<1>4. Moved(arr, c) /\ arr \in [Index -> Values]
  BY DEF MovesInv, QsortTypeOK
<1> HIDE DEF c, t
<1>5. ix \in c.lo..c.hi /\ j \in c.lo..c.hi /\ c.lo..c.hi \subseteq Index
  <2>1. ix \in t.lo..t.hi /\ j \in t.lo..t.hi
    BY DEF t
  <2> QED
    BY <1>2, <1>3, <2>1 DEF Index
<1>6. \A x \in Values : Occurrences(b, c.lo..c.hi, x) = Occurrences(arr, c.lo..c.hi, x)
  <2> TAKE x \in Values
  <2>1. c.lo \in Int /\ c.hi \in Int
    BY <1>2
  <2> QED
    BY <1>4, <1>5, <2>1, ExchangeKeepsOccurrences
<1>7. \A k \in Index \ (c.lo..c.hi) : b[k] = arr[k]
  BY <1>5 DEF Exchanged
<1>8. Moved(b, c)
  BY <1>4, <1>6, <1>7 DEF Moved
<1> QED
  BY <1>8 DEF c

Statements == {"enter", "partition", "left", "right", "return"}

\* The innermost call moves on: the others stay, and its range and its start.
SameBelow(d) ==
  /\ d \in Seq(Frames) /\ Len(d) = Top /\ \A n \in 1..Top-1 : d[n] = calls[n]
  /\ d[Top].lo = calls[Top].lo /\ d[Top].hi = calls[Top].hi /\ d[Top].was = calls[Top].was

\* What Moves does to the stack.
LEMMA MovesTop ==
  ASSUME QsortTypeOK, calls # << >>, NEW x \in Statements, NEW d,
         d = [calls EXCEPT ![Len(calls)].at = x]
  PROVE  SameBelow(d) /\ d[Top].at = x /\ d[Top].p = calls[Top].p
<1>1. Top \in 1..Top /\ Top \in Nat /\ calls \in Seq(Frames) /\ calls[Top] \in Frames
  BY DEF QsortTypeOK, Top
<1> DEFINE f == [calls[Top] EXCEPT !.at = x]
<1>2. f \in Frames /\ f.lo = calls[Top].lo /\ f.hi = calls[Top].hi /\ f.was = calls[Top].was
      /\ f.at = x /\ f.p = calls[Top].p
  BY <1>1 DEF Frames, Statements
<1>3. d = [calls EXCEPT ![Top] = f]
  BY <1>1 DEF Top
<1> HIDE DEF f
<1>4. d \in Seq(Frames) /\ Len(d) = Top /\ d[Top] = f /\ \A n \in 1..Top-1 : d[n] = calls[n]
  BY <1>1, <1>2, <1>3 DEF Top
<1> QED
  BY <1>2, <1>4 DEF SameBelow

\* What the end of partition does to the stack.
LEMMA MovesTopPivot ==
  ASSUME QsortTypeOK, calls # << >>, NEW q \in Int, NEW d,
         d = [calls EXCEPT ![Len(calls)].at = "left", ![Len(calls)].p = q]
  PROVE  SameBelow(d) /\ d[Top].at = "left" /\ d[Top].p = q
<1>1. Top \in 1..Top /\ Top \in Nat /\ calls \in Seq(Frames) /\ calls[Top] \in Frames
  BY DEF QsortTypeOK, Top
<1> DEFINE e == [calls EXCEPT ![Len(calls)].at = "left"]
           g == [calls[Top] EXCEPT !.at = "left"]
           f == [g EXCEPT !.p = q]
<1>2. g \in Frames
  BY <1>1 DEF Frames, Statements
<1>3. f \in Frames /\ f.lo = calls[Top].lo /\ f.hi = calls[Top].hi /\ f.was = calls[Top].was
      /\ f.at = "left" /\ f.p = q
  BY <1>1 DEF Frames, Statements
<1>4. e = [calls EXCEPT ![Top] = g]
  BY <1>1 DEF Top
<1>5. d = [e EXCEPT ![Len(calls)].p = q]
  BY Zenon
<1> HIDE DEF e, g
<1>6. e \in Seq(Frames) /\ Len(e) = Top /\ e[Top] = g /\ \A n \in 1..Top-1 : e[n] = calls[n]
  BY <1>1, <1>2, <1>4 DEF Top
<1>7. d = [e EXCEPT ![Top] = f]
  BY <1>5, <1>6 DEF Top
<1> HIDE DEF f
<1>9. Top \in 1..Len(e)
  BY <1>1, <1>6
<1> DEFINE w == [e EXCEPT ![Top] = f]
<1>10. /\ w \in Seq(Frames) /\ Len(w) = Len(e)
       /\ \A n \in 1..Len(e) : w[n] = IF n = Top THEN f ELSE e[n]
  BY <1>3, <1>6, <1>9, ExceptSeq
<1>11. d = w
  BY <1>7
<1> HIDE DEF w
<1>12. w[Top] = f /\ Len(w) = Top
  BY <1>6, <1>9, <1>10
<1>13. \A n \in 1..Top-1 : n \in 1..Len(e) /\ n # Top
  BY <1>1, <1>6
<1>14. \A n \in 1..Top-1 : w[n] = calls[n]
  BY <1>6, <1>10, <1>13
<1>15. SameBelow(w) /\ w[Top].at = "left" /\ w[Top].p = q
  BY <1>3, <1>10, <1>12, <1>14 DEF SameBelow
<1> QED
  BY <1>11, <1>15

\* Moving on, the innermost call keeps the ranges and what has moved.
LEMMA SameBelowKeeps ==
  ASSUME QsortTypeOK, RangesInv, calls # << >>, SameBelow(calls')
  PROVE  /\ RangesInv'
         /\ \A n \in 1..Top : \A a : Moved(a, calls[n]) => Moved(a, calls'[n])
<1>1. Top' = Top /\ Top \in Nat /\ Top \in 1..Top /\ calls' # << >>
  BY DEF SameBelow, QsortTypeOK, Top
<1>2. \A n \in 1..Top : calls'[n].lo = calls[n].lo /\ calls'[n].hi = calls[n].hi
                          /\ calls'[n].was = calls[n].was
  BY <1>1 DEF SameBelow
<1>3. \A n \in 1..Top-1 : calls'[n] = calls[n] /\ n \in 1..Top /\ n + 1 \in 1..Top
                           /\ \A m \in n+1..Top : m \in 1..Top
  BY <1>1 DEF SameBelow
<1>4. 1 \in 1..Top
  BY <1>1
<1>5. RangesInv'
  <2>1. calls'[1].lo = 0 /\ calls'[1].hi = N - 1
    BY <1>2, <1>4 DEF RangesInv
  <2>2. ASSUME NEW n \in 1..Top
        PROVE  /\ 0 <= calls'[n].lo /\ calls'[n].hi <= N - 1
               /\ calls'[n].lo <= calls'[n].hi + 1
               /\ calls'[n].hi - calls'[n].lo + n <= N
    BY <1>2 DEF RangesInv
  <2>3. ASSUME NEW n \in 1..Top-1
        PROVE  /\ calls'[n].at \in {"right", "return"}
               /\ calls'[n + 1].lo = PartLo(calls'[n]) /\ calls'[n + 1].hi = PartHi(calls'[n])
               /\ \A m \in n+1..Top : /\ PartLo(calls'[n]) <= calls'[m].lo
                                      /\ calls'[m].hi <= PartHi(calls'[n])
    BY <1>2, <1>3 DEF RangesInv
  <2> QED
    BY <1>1, <2>1, <2>2, <2>3 DEF RangesInv
<1>6. ASSUME NEW n \in 1..Top, NEW a, Moved(a, calls[n]) PROVE Moved(a, calls'[n])
  BY <1>2, <1>6 DEF Moved
<1> QED
  BY <1>5, <1>6

\* A call begins: it partitions, or has nothing to do.
LEMMA EnterCallSorts == Sorting /\ EnterCall => Sorting'
<1> SUFFICES ASSUME Sorting, EnterCall PROVE Sorting'
  OBVIOUS
<1>0. QsortTypeOK /\ RangesInv /\ MovesInv /\ PartitionInv /\ OrderedInv
  BY DEF Sorting
<1> DEFINE t == calls[Top]
<1>1. /\ pc = "sort" /\ calls # << >> /\ t.at = "enter" /\ UNCHANGED <<pc, arr, verdict>>
      /\ frame = t
  BY DEF EnterCall, frame, Last, Top
<1>2. Top \in Nat /\ Top \in 1..Top /\ t.lo \in Int /\ t.hi \in Int /\ N \in Nat
      /\ 0 <= t.lo /\ t.hi <= N - 1 /\ arr \in [Index -> Values] /\ part = << >>
  <2>1. Top \in Nat /\ Top \in 1..Top
    BY <1>0, <1>1 DEF QsortTypeOK, Top
  <2> QED
    BY <1>0, <1>1, <2>1, FrameType, QsortAssumption DEF QsortTypeOK, RangesInv
<1>3. CASE t.lo < t.hi
  <2>1. /\ calls' = [calls EXCEPT ![Len(calls)].at = "partition"]
        /\ part' = <<[i |-> t.lo - 1, j |-> t.lo, pivot |-> arr[t.hi]]>>
    BY <1>1, <1>3 DEF EnterCall, Moves
  <2>2. SameBelow(calls') /\ calls'[Top].at = "partition"
    BY <1>0, <1>1, <2>1, MovesTop DEF Statements
  <2>3. RangesInv' /\ \A n \in 1..Top : \A a : Moved(a, calls[n]) => Moved(a, calls'[n])
    BY <1>0, <1>1, <2>2, SameBelowKeeps
  <2>4. Top' = Top /\ calls' # << >> /\ calls' \in Seq(Frames)
    BY <1>2, <2>2 DEF SameBelow, Top
  <2>5. QsortTypeOK'
    BY <1>0, <1>1, <1>2, <2>1, <2>2, <2>4 DEF QsortTypeOK
  <2>6. MovesInv'
    BY <1>0, <1>1, <2>3, <2>4 DEF MovesInv
  <2>7. part'[1] = [i |-> t.lo - 1, j |-> t.lo, pivot |-> arr[t.hi]] /\ arr[t.hi] \in Values
    BY <1>2, <1>3, <2>1 DEF Index
  <2>8. PartitionInv'
    <3> HIDE DEF t
    <3>1. calls'[Top].lo = t.lo /\ calls'[Top].hi = t.hi
      BY <2>2 DEF SameBelow, t
    <3>2. part'[1] \in [i : Int, j : Int, pivot : Values]
      BY <1>2, <2>7
    <3> QED
      BY <1>1, <1>2, <1>3, <2>4, <2>7, <3>1, <3>2 DEF PartitionInv
  <2>9. OrderedInv'
    BY <1>0, <1>1, <2>2, <2>4 DEF OrderedInv, SameBelow
  <2> QED
    BY <2>3, <2>5, <2>6, <2>8, <2>9 DEF Sorting
<1>4. CASE ~(t.lo < t.hi)
  <2>1. calls' = [calls EXCEPT ![Len(calls)].at = "return"] /\ part' = part
    BY <1>1, <1>4 DEF EnterCall, Moves
  <2>2. SameBelow(calls') /\ calls'[Top].at = "return"
    BY <1>0, <1>1, <2>1, MovesTop DEF Statements
  <2>3. RangesInv' /\ \A n \in 1..Top : \A a : Moved(a, calls[n]) => Moved(a, calls'[n])
    BY <1>0, <1>1, <2>2, SameBelowKeeps
  <2>4. Top' = Top /\ calls' # << >> /\ calls' \in Seq(Frames)
    BY <1>2, <2>2 DEF SameBelow, Top
  <2>5. QsortTypeOK'
    BY <1>0, <1>1, <1>2, <2>1, <2>2, <2>4 DEF QsortTypeOK
  <2>6. MovesInv'
    BY <1>0, <1>1, <2>3, <2>4 DEF MovesInv
  <2>7. InOrder(arr, t.lo, t.hi)
    <3> SUFFICES ASSUME NEW k \in t.lo..t.hi, NEW l \in t.lo..t.hi PROVE arr[k] <= arr[l]
      BY DEF InOrder
    <3> HIDE DEF t
    <3>1. k = l /\ k \in Index
      BY <1>2, <1>4 DEF Index
    <3>2. arr[k] \in Int
      BY <1>2, <3>1, QsortAssumption
    <3> QED
      BY <3>1, <3>2
  <2>8. PartitionInv'
    BY <1>2, <2>1 DEF PartitionInv
  <2>9. OrderedInv'
    BY <1>0, <1>1, <2>2, <2>4, <2>7 DEF OrderedInv, SameBelow
  <2> QED
    BY <2>3, <2>5, <2>6, <2>8, <2>9 DEF Sorting
<1> QED
  BY <1>3, <1>4

\* A pass of the loop changes the counters and not the pivot.
LEMMA PartFields ==
  ASSUME NEW q \in [i : Int, j : Int, pivot : Values], NEW a \in Int, NEW b \in Int
  PROVE  [q EXCEPT !.i = a, !.j = b] = [i |-> a, j |-> b, pivot |-> q.pivot]
<1> DEFINE e == [q EXCEPT !.i = a]
<1>1. e = [i |-> a, j |-> q.j, pivot |-> q.pivot]
  OBVIOUS
<1>2. [q EXCEPT !.i = a, !.j = b] = [e EXCEPT !.j = b]
  BY Zenon
<1> HIDE DEF e
<1>3. [e EXCEPT !.j = b] = [i |-> a, j |-> b, pivot |-> q.pivot]
  BY <1>1
<1> QED
  BY <1>2, <1>3

\* What holds of the innermost call while partition runs.
LEMMA InPartition ==
  ASSUME Sorting, pc = "sort", part # << >>
  PROVE  /\ calls # << >> /\ Top \in Nat /\ Top \in 1..Top /\ frame = calls[Top]
         /\ calls[Top].lo \in Int /\ calls[Top].hi \in Int /\ N \in Nat
         /\ 0 <= calls[Top].lo /\ calls[Top].hi <= N - 1 /\ arr \in [Index -> Values]
         /\ calls[Top].at = "partition" /\ part[1] \in [i : Int, j : Int, pivot : Values]
         /\ part[1].i \in Int /\ part[1].j \in Int /\ part[1].pivot \in Int
         /\ \A k \in Index : arr[k] \in Int
<1>1. QsortTypeOK /\ RangesInv /\ PartitionInv
  BY DEF Sorting
<1>2. calls # << >> /\ Top \in Nat /\ Top \in 1..Top /\ calls[Top].at = "partition"
      /\ arr \in [Index -> Values]
  BY <1>1 DEF QsortTypeOK, Top
<1>3. part[1] \in [i : Int, j : Int, pivot : Values]
  BY <1>1 DEF PartitionInv
<1>4. frame = calls[Top]
  BY DEF frame, Last, Top
<1>5. calls[Top].lo \in Int /\ calls[Top].hi \in Int
  BY <1>1, <1>2, FrameType
<1> QED
  BY <1>1, <1>2, <1>3, <1>4, <1>5, QsortAssumption DEF RangesInv

\* A pass of the loop of partition: an exchange of a small entry with the first large one.
LEMMA PartitionPassSorts == Sorting /\ PartitionPass => Sorting'
<1> SUFFICES ASSUME Sorting, PartitionPass PROVE Sorting'
  OBVIOUS
<1> DEFINE t == calls[Top]
           ix == part[1].i
           j == part[1].j
           v == part[1].pivot
<1>0. QsortTypeOK /\ RangesInv /\ MovesInv /\ PartitionInv /\ OrderedInv
  BY DEF Sorting
<1>1. pc = "sort" /\ part # << >> /\ UNCHANGED <<pc, calls, verdict>>
  BY DEF PartitionPass
<1>2. /\ calls # << >> /\ Top \in Nat /\ Top \in 1..Top /\ frame = t
      /\ t.lo \in Int /\ t.hi \in Int /\ N \in Nat
      /\ 0 <= t.lo /\ t.hi <= N - 1 /\ arr \in [Index -> Values] /\ t.at = "partition"
      /\ part[1] \in [i : Int, j : Int, pivot : Values] /\ ix \in Int /\ j \in Int /\ v \in Int
      /\ \A k \in Index : arr[k] \in Int
  BY <1>1, InPartition
<1>3. /\ t.lo - 1 <= ix /\ ix < j /\ j <= t.hi /\ v = arr[t.hi]
      /\ \A k \in t.lo..ix : arr[k] <= v
      /\ \A k \in ix + 1..j - 1 : v <= arr[k]
  BY <1>0, <1>1 DEF PartitionInv
<1>4. j < t.hi
  BY <1>2 DEF PartitionPass
<1>11. arr' = IF arr[j] <= v THEN [arr EXCEPT ![ix + 1] = arr[j], ![j] = arr[ix + 1]] ELSE arr
  BY DEF PartitionPass
<1>12. part' = IF arr[j] <= v THEN <<[part[1] EXCEPT !.i = ix + 1, !.j = j + 1]>>
               ELSE <<[part[1] EXCEPT !.j = j + 1]>>
  BY DEF PartitionPass
<1>5. Top' = Top /\ RangesInv'
  BY <1>0, <1>1 DEF RangesInv, Top
<1> HIDE DEF t, ix, j, v
<1>6. ix + 1 \in t.lo..t.hi /\ j \in t.lo..t.hi /\ ix + 1 \in Index /\ j \in Index /\ t.hi \in Index
      /\ t.hi # j /\ t.hi # ix + 1
  <2>1. /\ t.lo \in Int /\ t.hi \in Int /\ ix \in Int /\ j \in Int /\ N \in Nat
        /\ 0 <= t.lo /\ t.hi <= N - 1 /\ t.lo - 1 <= ix /\ ix < j /\ j < t.hi
    BY <1>2, <1>3, <1>4
  <2> QED
    BY <2>1 DEF Index
<1>7. part'[1] = [i |-> IF arr[j] <= v THEN ix + 1 ELSE ix, j |-> j + 1, pivot |-> v]
      /\ part' # << >>
  <2>1. part[1] = [i |-> ix, j |-> j, pivot |-> v]
    BY <1>2 DEF ix, j, v
  <2>2. CASE arr[j] <= v
    <3>1. part' = <<[part[1] EXCEPT !.i = ix + 1, !.j = j + 1]>>
      BY <1>12, <2>2
    <3>2. [part[1] EXCEPT !.i = ix + 1, !.j = j + 1] = [i |-> ix + 1, j |-> j + 1, pivot |-> v]
      <4>1. ix + 1 \in Int /\ j + 1 \in Int
        BY <1>2
      <4> QED
        BY <1>2, <4>1, PartFields DEF v
    <3>3. part' = <<[i |-> ix + 1, j |-> j + 1, pivot |-> v]>>
      BY <3>1, <3>2
    <3> QED
      BY <2>2, <3>3
  <2>3. CASE ~(arr[j] <= v)
    <3>1. part' = <<[part[1] EXCEPT !.j = j + 1]>>
      BY <1>12, <2>3
    <3>2. [part[1] EXCEPT !.j = j + 1] = [i |-> ix, j |-> j + 1, pivot |-> v]
      BY <2>1
    <3>3. part' = <<[i |-> ix, j |-> j + 1, pivot |-> v]>>
      BY <3>1, <3>2
    <3> QED
      BY <2>3, <3>3
  <2> QED
    BY <2>2, <2>3
<1>13. part'[1].j = j + 1 /\ part'[1].pivot = v
       /\ part'[1].i = (IF arr[j] <= v THEN ix + 1 ELSE ix)
  BY <1>7
<1>8. part'[1] \in [i : Int, j : Int, pivot : Values]
  <2>1. part'[1].i \in Int /\ v \in Values
    BY <1>2, <1>13 DEF v
  <2> QED
    BY <1>2, <1>7, <1>13, <2>1
<1>9. CASE arr[j] <= v
  <2>1. Exchanged(arr', arr, ix + 1, j)
    BY <1>2, <1>6, <1>9, <1>11, ExceptExchanges
  <2>2. MovesInv'
    BY <1>0, <1>1, <1>2, <1>5, <1>6, <2>1, ExchangeMoves DEF MovesInv, t
  <2>3. QsortTypeOK'
    BY <1>0, <1>1, <1>5, <1>7, <2>1 DEF QsortTypeOK, Exchanged
  <2>4. \A n \in 1..Top-1 : /\ Split(arr', calls[n])
                            /\ calls[n].at = "return" => InOrder(arr', calls[n].lo, calls[n].p - 1)
    BY <1>0, <1>2, <1>6, <2>1, ExchangeBelow DEF t
  <2>5. OrderedInv'
    BY <1>0, <1>1, <1>2, <1>5, <2>4 DEF OrderedInv, t
  <2>6. arr'[t.hi] = v /\ arr'[ix + 1] = arr[j] /\ arr'[j] = arr[ix + 1]
        /\ \A k \in Index : k # ix + 1 /\ k # j => arr'[k] = arr[k]
    BY <1>3, <1>6, <2>1 DEF Exchanged
  <2>7. ASSUME NEW k \in t.lo..ix+1 PROVE arr'[k] <= v
    <3>1. CASE k = ix + 1
      BY <1>9, <2>6, <3>1
    <3>2. CASE k # ix + 1
      <4>1. k \in t.lo..ix /\ k \in Index /\ k # j
        BY <1>2, <1>3, <1>6, <3>2, SMTT(40) DEF Index
      <4> QED
        BY <1>3, <2>6, <3>2, <4>1
    <3> QED
      BY <3>1, <3>2
  <2>8. ASSUME NEW k \in ix+2..j PROVE v <= arr'[k]
    <3>1. CASE k = j
      <4>1. ix + 1 \in ix+1..j-1
        BY <1>2, <3>1
      <4> QED
        BY <1>3, <2>6, <3>1, <4>1
    <3>2. CASE k # j
      <4>1. k \in ix+1..j-1 /\ k \in Index /\ k # ix + 1
        BY <1>2, <1>3, <1>6, <3>2 DEF Index
      <4> QED
        BY <1>3, <2>6, <3>2, <4>1
    <3> QED
      BY <3>1, <3>2
  <2>9. PartitionInv'
    <3>1. part'[1].i = ix + 1 /\ (ix + 1) + 1 = ix + 2 /\ (j + 1) - 1 = j /\ calls'[Top'] = t
      BY <1>1, <1>2, <1>5, <1>9, <1>13 DEF t
    <3>2. t.lo - 1 <= ix + 1 /\ ix + 1 < j + 1 /\ j + 1 <= t.hi
      BY <1>2, <1>3, <1>4
    <3> QED
      BY <1>8, <1>13, <2>6, <2>7, <2>8, <3>1, <3>2 DEF PartitionInv
  <2> QED
    BY <1>5, <2>2, <2>3, <2>5, <2>9 DEF Sorting
<1>10. CASE ~(arr[j] <= v)
  <2>1. arr' = arr
    BY <1>10, <1>11
  <2>2. MovesInv' /\ OrderedInv'
    BY <1>0, <1>1, <1>5, <2>1 DEF MovesInv, OrderedInv
  <2>3. QsortTypeOK'
    BY <1>0, <1>1, <1>5, <1>7, <2>1 DEF QsortTypeOK
  <2>4. ASSUME NEW k \in ix+1..j PROVE v <= arr[k]
    <3>1. CASE k = j
      BY <1>2, <1>6, <1>10, <3>1
    <3>2. CASE k # j
      <4>1. k \in ix+1..j-1
        BY <1>2, <3>2
      <4> QED
        BY <1>3, <4>1
    <3> QED
      BY <3>1, <3>2
  <2>5. PartitionInv'
    <3>1. part'[1].i = ix /\ (j + 1) - 1 = j /\ calls'[Top'] = t
      BY <1>1, <1>2, <1>5, <1>10, <1>13 DEF t
    <3>2. t.lo - 1 <= ix /\ ix < j + 1 /\ j + 1 <= t.hi
      BY <1>2, <1>3, <1>4
    <3> QED
      BY <1>3, <1>8, <1>13, <2>1, <2>4, <3>1, <3>2 DEF PartitionInv
  <2> QED
    BY <1>5, <2>2, <2>3, <2>5 DEF Sorting
<1> QED
  BY <1>9, <1>10

\* The pivot goes between the small and the large entries.
LEMMA PartitionDoneSorts == Sorting /\ PartitionDone => Sorting'
<1> SUFFICES ASSUME Sorting, PartitionDone PROVE Sorting'
  OBVIOUS
<1> DEFINE t == calls[Top]
           ix == part[1].i
           j == part[1].j
           v == part[1].pivot
<1>0. QsortTypeOK /\ RangesInv /\ MovesInv /\ PartitionInv /\ OrderedInv
  BY DEF Sorting
<1>1. pc = "sort" /\ part # << >> /\ part' = << >> /\ UNCHANGED <<pc, verdict>>
  BY DEF PartitionDone
<1>2. /\ calls # << >> /\ Top \in Nat /\ Top \in 1..Top /\ frame = t
      /\ t.lo \in Int /\ t.hi \in Int /\ N \in Nat
      /\ 0 <= t.lo /\ t.hi <= N - 1 /\ arr \in [Index -> Values] /\ t.at = "partition"
      /\ ix \in Int /\ j \in Int /\ v \in Int
      /\ \A k \in Index : arr[k] \in Int
  BY <1>1, InPartition
<1>3. /\ t.lo - 1 <= ix /\ ix < j /\ j <= t.hi /\ v = arr[t.hi]
      /\ \A k \in t.lo..ix : arr[k] <= v
      /\ \A k \in ix + 1..j - 1 : v <= arr[k]
  BY <1>0, <1>1 DEF PartitionInv
<1>4. /\ j = t.hi
      /\ arr' = [arr EXCEPT ![ix + 1] = arr[t.hi], ![t.hi] = arr[ix + 1]]
      /\ calls' = [calls EXCEPT ![Len(calls)].at = "left", ![Len(calls)].p = ix + 1]
  BY <1>2 DEF PartitionDone, PivotAt
<1>5. SameBelow(calls') /\ calls'[Top].at = "left" /\ calls'[Top].p = ix + 1
  BY <1>0, <1>2, <1>4, MovesTopPivot, ix + 1 \in Int, ZenonT(60)
<1>6. RangesInv' /\ \A n \in 1..Top : \A a : Moved(a, calls[n]) => Moved(a, calls'[n])
  BY <1>0, <1>2, <1>5, SameBelowKeeps
<1>7. Top' = Top /\ calls' # << >> /\ calls' \in Seq(Frames)
  BY <1>2, <1>5 DEF SameBelow, Top
<1> HIDE DEF t, ix, j, v
<1>8. ix + 1 \in t.lo..t.hi /\ t.hi \in t.lo..t.hi /\ ix + 1 \in Index /\ t.hi \in Index
  BY <1>2, <1>3, <1>4, SMTT(40) DEF Index
<1>9. Exchanged(arr', arr, ix + 1, t.hi)
  BY <1>2, <1>4, <1>8, ExceptExchanges
<1>10. MovesInv'
  <2>1. \A n \in 1..Top : Moved(arr', calls[n])
    BY <1>0, <1>2, <1>8, <1>9, ExchangeMoves DEF t
  <2> QED
    BY <1>6, <1>7, <2>1 DEF MovesInv
<1>11. QsortTypeOK'
  BY <1>0, <1>1, <1>5, <1>7, <1>9 DEF QsortTypeOK, Exchanged
<1>12. \A n \in 1..Top-1 : /\ Split(arr', calls[n])
                           /\ calls[n].at = "return" => InOrder(arr', calls[n].lo, calls[n].p - 1)
  BY <1>0, <1>2, <1>8, <1>9, ExchangeBelow DEF t
<1>13. arr'[ix + 1] = v /\ arr'[t.hi] = arr[ix + 1]
       /\ \A k \in Index : k # ix + 1 /\ k # t.hi => arr'[k] = arr[k]
  BY <1>3, <1>8, <1>9 DEF Exchanged
<1>14. ASSUME NEW k \in t.lo..(ix+1)-1 PROVE arr'[k] <= v
  <2>1. k \in t.lo..ix /\ k \in Index /\ k # ix + 1 /\ k # t.hi
    BY <1>2, <1>3, <1>8, SMTT(40) DEF Index
  <2> QED
    BY <1>3, <1>13, <2>1
<1>15. ASSUME NEW k \in (ix+1)+1..t.hi PROVE v <= arr'[k]
  <2>1. CASE k = t.hi
    <3>1. ix + 1 \in ix+1..j-1
      BY <1>2, <1>4, <2>1
    <3> QED
      BY <1>3, <1>13, <2>1, <3>1
  <2>2. CASE k # t.hi
    <3>1. k \in ix+1..j-1 /\ k \in Index /\ k # ix + 1
      BY <1>2, <1>3, <1>4, <1>8, <2>2, SMTT(40) DEF Index
    <3> QED
      BY <1>3, <1>13, <2>2, <3>1
  <2> QED
    BY <2>1, <2>2
<1>16. Split(arr', calls'[Top])
  <2>1. calls'[Top].lo = t.lo /\ calls'[Top].hi = t.hi
    BY <1>5 DEF SameBelow, t
  <2> QED
    BY <1>5, <1>8, <1>13, <1>14, <1>15, <2>1 DEF Split
<1>17. OrderedInv'
  BY <1>0, <1>1, <1>5, <1>7, <1>12, <1>16 DEF OrderedInv, SameBelow
<1>18. PartitionInv'
  BY <1>1 DEF PartitionInv
<1> QED
  BY <1>6, <1>10, <1>11, <1>17, <1>18 DEF Sorting

\* A part of a range beside the pivot is inside it and shorter.
LEMMA PartBounds ==
  \A lo, hi, p, l, h, n \in Int :
    /\ 0 <= lo /\ hi <= N - 1 /\ p \in lo..hi /\ hi - lo + n <= N
    /\ (l = lo /\ h = p - 1) \/ (l = p + 1 /\ h = hi)
    => /\ lo <= l /\ h <= hi /\ l <= h + 1 /\ h - l + (n + 1) <= N /\ 0 <= l /\ h <= N - 1
BY QsortAssumption

\* A call inside another begins: its range is the part its caller has it sort.
LEMMA PushSorts ==
  ASSUME Sorting, pc = "sort", calls # << >>, NEW x \in {"right", "return"}, NEW f, NEW d,
         Split(arr, calls[Top]), x = "return" => InOrder(arr, calls[Top].lo, calls[Top].p - 1),
         d = [calls EXCEPT ![Len(calls)].at = x], calls' = Append(d, f),
         f \in Frames, f.at = "enter", f.was = arr,
         f.lo = PartLo(d[Top]), f.hi = PartHi(d[Top]),
         calls[Top].at # "partition", UNCHANGED <<pc, arr, part, verdict>>
  PROVE  Sorting'
<1> DEFINE c == d[Top]
<1>0. QsortTypeOK /\ RangesInv /\ MovesInv /\ PartitionInv /\ OrderedInv
  BY DEF Sorting
<1>1. Top \in Nat /\ Top \in 1..Top /\ part = << >>
  BY <1>0 DEF QsortTypeOK, Top
<1>2. SameBelow(d) /\ c.at = x /\ c.p = calls[Top].p
  BY <1>0, MovesTop DEF Statements
<1>3. d \in Seq(Frames) /\ Len(d) = Top /\ \A n \in 1..Top-1 : d[n] = calls[n]
  BY <1>2 DEF SameBelow
<1>4. c.lo = calls[Top].lo /\ c.hi = calls[Top].hi /\ c.was = calls[Top].was
  BY <1>2 DEF SameBelow
<1>5. Top' = Top + 1 /\ calls' \in Seq(Frames) /\ calls' # << >> /\ calls'[Top + 1] = f
      /\ \A n \in 1..Top : calls'[n] = d[n]
  <2>1. /\ Append(d, f) \in Seq(Frames) /\ Append(d, f) # << >> /\ Len(Append(d, f)) = Len(d) + 1
        /\ \A n \in 1..Len(d) : Append(d, f)[n] = d[n]
        /\ Append(d, f)[Len(d) + 1] = f
    BY <1>3, AppendProperties
  <2> QED
    BY <1>3, <2>1 DEF Top
<1>6. /\ c.lo \in Int /\ c.hi \in Int /\ c.p \in Int /\ N \in Nat
      /\ 0 <= c.lo /\ c.hi <= N - 1 /\ c.lo <= c.hi + 1 /\ c.hi - c.lo + Top <= N
  BY <1>0, <1>1, <1>2, <1>4, FrameType, QsortAssumption DEF RangesInv
<1>7. Split(arr, c) /\ (x = "return" => InOrder(arr, c.lo, c.p - 1))
  BY <1>2, <1>4 DEF Split
<1>8. c.p \in c.lo..c.hi
  BY <1>7 DEF Split
<1>9. (f.lo = c.lo /\ f.hi = c.p - 1) \/ (f.lo = c.p + 1 /\ f.hi = c.hi)
  BY DEF PartLo, PartHi
<1> HIDE DEF c
<1>10. /\ f.lo \in Int /\ f.hi \in Int /\ c.lo <= f.lo /\ f.hi <= c.hi /\ f.lo <= f.hi + 1
       /\ f.hi - f.lo + (Top + 1) <= N /\ 0 <= f.lo /\ f.hi <= N - 1
  <2>1. f.lo \in Int /\ f.hi \in Int /\ Top \in Int
    BY <1>1 DEF Frames
  <2> QED
    BY <1>6, <1>8, <1>9, <2>1, PartBounds
<1>11. \A n \in 1..Top+1 : n \in 1..Top \/ n = Top + 1
  BY <1>1
<1>12. \A n \in 1..Top : n \in 1..Top-1 \/ n = Top
  BY <1>1
<1>13. \A n \in 1..Top : /\ calls'[n].lo = calls[n].lo /\ calls'[n].hi = calls[n].hi
                         /\ calls'[n].was = calls[n].was
  BY <1>3, <1>4, <1>5, <1>12 DEF c
<1>14. QsortTypeOK'
  BY <1>0, <1>1, <1>5 DEF QsortTypeOK
<1>15. RangesInv'
  <2>1. calls'[1].lo = 0 /\ calls'[1].hi = N - 1
    BY <1>0, <1>1, <1>13, 1 \in 1..Top DEF RangesInv
  <2>2. ASSUME NEW n \in 1..Top+1
        PROVE  /\ 0 <= calls'[n].lo /\ calls'[n].hi <= N - 1
               /\ calls'[n].lo <= calls'[n].hi + 1
               /\ calls'[n].hi - calls'[n].lo + n <= N
    <3>1. CASE n \in 1..Top
      BY <1>0, <1>13, <3>1 DEF RangesInv
    <3>2. CASE n = Top + 1
      BY <1>5, <1>10, <3>2
    <3> QED
      BY <1>11, <3>1, <3>2
  <2>3. ASSUME NEW n \in 1..(Top+1)-1
        PROVE  /\ calls'[n].at \in {"right", "return"}
               /\ calls'[n + 1].lo = PartLo(calls'[n]) /\ calls'[n + 1].hi = PartHi(calls'[n])
               /\ \A m \in n+1..Top+1 : /\ PartLo(calls'[n]) <= calls'[m].lo
                                        /\ calls'[m].hi <= PartHi(calls'[n])
    <3>1. CASE n = Top
      <4>3. calls'[n] = c
        BY <1>1, <1>5, <3>1 DEF c
      <4>1. calls'[n] = c /\ calls'[n + 1] = f /\ \A m \in n+1..Top+1 : m = Top + 1
        <5>1. \A m \in Top+1..Top+1 : m = Top + 1
          BY <1>1
        <5> QED
          BY <1>5, <3>1, <4>3, <5>1
      <4>2. f.lo = PartLo(c) /\ f.hi = PartHi(c)
        BY DEF c
      <4>4. f.lo <= f.lo /\ f.hi <= f.hi /\ c.at \in {"right", "return"}
        BY <1>2, <1>10
      <4>5. \A m \in n+1..Top+1 : calls'[m] = f
        BY <1>5, <4>1
      <4> QED
        BY <4>1, <4>2, <4>4, <4>5
    <3>2. CASE n # Top
      <4>1. n \in 1..Top-1 /\ n \in 1..Top /\ n + 1 \in 1..Top /\ Top \in n+1..Top
        BY <1>1, <3>2
      <4>2. calls'[n] = calls[n]
        BY <1>3, <1>5, <4>1
      <4>3. ASSUME NEW m \in n+1..Top
            PROVE  PartLo(calls[n]) <= calls'[m].lo /\ calls'[m].hi <= PartHi(calls[n])
        <5>1. m \in 1..Top
          BY <1>1
        <5> QED
          BY <1>0, <1>13, <4>1, <5>1 DEF RangesInv
      <4>4. /\ calls[n].at \in {"right", "return"}
            /\ calls'[n + 1].lo = PartLo(calls[n]) /\ calls'[n + 1].hi = PartHi(calls[n])
        BY <1>0, <1>13, <4>1 DEF RangesInv
      <4>5. PartLo(calls[n]) \in Int /\ PartHi(calls[n]) \in Int
        <5>1. calls[n].lo \in Int /\ calls[n].hi \in Int /\ calls[n].p \in Int
          BY <1>0, <4>1, FrameType
        <5> QED
          BY <5>1 DEF PartLo, PartHi
      <4>6. PartLo(calls[n]) <= c.lo /\ c.hi <= PartHi(calls[n])
        BY <1>0, <1>4, <4>1 DEF RangesInv
      <4>7. PartLo(calls[n]) <= f.lo /\ f.hi <= PartHi(calls[n])
        <5>1. \A a, b, e \in Int : a <= b /\ b <= e => a <= e
          OBVIOUS
        <5> QED
          BY <1>6, <1>10, <4>5, <4>6, <5>1
      <4>8. \A m \in n+1..Top+1 : m \in n+1..Top \/ m = Top + 1
        BY <1>1
      <4> QED
        BY <1>5, <4>2, <4>3, <4>4, <4>7, <4>8
    <3> QED
      BY <3>1, <3>2
  <2> QED
    BY <1>5, <2>1, <2>2, <2>3 DEF RangesInv
<1>16. MovesInv'
  <2>1. \A n \in 1..Top : Moved(arr, calls'[n])
    <3> TAKE n \in 1..Top
    <3>1. Moved(arr, calls[n])
      BY <1>0 DEF MovesInv
    <3> QED
      BY <1>13, <3>1 DEF Moved
  <2>2. Moved(arr, f)
    BY DEF Moved
  <2> QED
    BY <1>5, <1>11, <2>1, <2>2 DEF MovesInv
<1>17. PartitionInv'
  BY <1>1 DEF PartitionInv
<1>18. OrderedInv'
  <2>1. ASSUME NEW n \in 1..(Top+1)-1
        PROVE  /\ Split(arr, calls'[n])
               /\ calls'[n].at = "return" => InOrder(arr, calls'[n].lo, calls'[n].p - 1)
    <3>1. CASE n = Top
      <4>1. calls'[n] = c
        BY <1>1, <1>5, <3>1 DEF c
      <4> QED
        BY <1>2, <1>7, <4>1
    <3>2. CASE n # Top
      <4>1. n \in 1..Top-1 /\ n \in 1..Top
        BY <1>1, <3>2
      <4>2. calls'[n] = calls[n]
        BY <1>3, <1>5, <4>1
      <4> QED
        BY <1>0, <4>1, <4>2 DEF OrderedInv
    <3> QED
      BY <3>1, <3>2
  <2>2. verdict # "BAD"
    BY <1>0 DEF OrderedInv
  <2> QED
    BY <1>5, <2>1, <2>2 DEF OrderedInv
<1> QED
  BY <1>14, <1>15, <1>16, <1>17, <1>18 DEF Sorting

\* The two recursive calls.
LEMMA RecurseSorts == Sorting /\ Recurse => Sorting'
<1> SUFFICES ASSUME Sorting, Recurse PROVE Sorting'
  OBVIOUS
<1> DEFINE t == calls[Top]
           d(x) == [calls EXCEPT ![Len(calls)].at = x]
<1>0. QsortTypeOK /\ RangesInv /\ OrderedInv
  BY DEF Sorting
<1>1. pc = "sort" /\ calls # << >> /\ UNCHANGED <<pc, arr, part, verdict>> /\ frame = t
  BY DEF Recurse, frame, Last, Top
<1>2. Top \in Nat /\ Top \in 1..Top /\ t.lo \in Int /\ t.hi \in Int /\ t.p \in Int
      /\ arr \in [Index -> Values]
  <2>1. Top \in Nat /\ Top \in 1..Top
    BY <1>0, <1>1 DEF QsortTypeOK, Top
  <2> QED
    BY <1>0, <2>1, FrameType DEF QsortTypeOK
<1>3. ASSUME NEW x \in {"right", "return"}
      PROVE  d(x)[Top].lo = t.lo /\ d(x)[Top].hi = t.hi /\ d(x)[Top].p = t.p /\ d(x)[Top].at = x
  BY <1>0, <1>1, MovesTop DEF SameBelow, Statements
<1>4. CASE t.at = "left"
  <2>1. calls' = Append(d("right"), Frame(t.lo, t.p - 1))
    BY <1>1, <1>4 DEF Recurse
  <2> DEFINE f == Frame(t.lo, t.p - 1)
  <2>2. f \in Frames /\ f.at = "enter" /\ f.was = arr /\ f.lo = t.lo /\ f.hi = t.p - 1
    BY <1>2 DEF Frame, Frames
  <2>3. PartLo(d("right")[Top]) = t.lo /\ PartHi(d("right")[Top]) = t.p - 1
    BY <1>3 DEF PartLo, PartHi
  <2>4. Split(arr, t)
    BY <1>0, <1>1, <1>4 DEF OrderedInv
  <2> HIDE DEF f
  <2>5. \E e : e = d("right")
    OBVIOUS
  <2> QED
    BY <1>1, <1>4, <2>1, <2>2, <2>3, <2>4, PushSorts DEF f
<1>5. CASE t.at = "right"
  <2>1. calls' = Append(d("return"), Frame(t.p + 1, t.hi))
    BY <1>1, <1>5 DEF Recurse
  <2> DEFINE f == Frame(t.p + 1, t.hi)
  <2>2. f \in Frames /\ f.at = "enter" /\ f.was = arr /\ f.lo = t.p + 1 /\ f.hi = t.hi
    BY <1>2 DEF Frame, Frames
  <2>3. PartLo(d("return")[Top]) = t.p + 1 /\ PartHi(d("return")[Top]) = t.hi
    BY <1>3 DEF PartLo, PartHi
  <2>4. Split(arr, t) /\ InOrder(arr, t.lo, t.p - 1)
    BY <1>0, <1>1, <1>5 DEF OrderedInv
  <2> HIDE DEF f
  <2> QED
    BY <1>1, <1>5, <2>1, <2>2, <2>3, <2>4, PushSorts DEF f
<1> QED
  BY <1>1, <1>4, <1>5 DEF Recurse

\* A call returns: its range is in order, and with it that of its caller, or a half of it.
LEMMA ReturnSorts == Sorting /\ ReturnFromCall => Sorting'
<1> SUFFICES ASSUME Sorting, ReturnFromCall PROVE Sorting'
  OBVIOUS
<1> DEFINE t == calls[Top]
<1>0. QsortTypeOK /\ RangesInv /\ MovesInv /\ PartitionInv /\ OrderedInv
  BY DEF Sorting
<1>1. /\ pc = "sort" /\ calls # << >> /\ t.at = "return" /\ UNCHANGED <<arr, part, verdict>>
      /\ calls' = Front(calls) /\ pc' = IF Top = 1 THEN "verify" ELSE "sort"
  BY DEF ReturnFromCall, frame, Last, Top
<1>2. Top \in Nat /\ Top \in 1..Top /\ part = << >> /\ calls \in Seq(Frames) /\ Top # 0
      /\ arr \in [Index -> Values] /\ t.lo \in Int /\ t.hi \in Int
  <2>1. Top \in Nat /\ Top \in 1..Top
    BY <1>0, <1>1 DEF QsortTypeOK, Top
  <2> QED
    BY <1>0, <1>1, <2>1, FrameType DEF QsortTypeOK
<1>3. InOrder(arr, t.lo, t.hi) /\ verdict # "BAD"
  BY <1>0, <1>1 DEF OrderedInv
<1>4. calls' \in Seq(Frames) /\ Len(calls') = Top - 1 /\ \A n \in 1..Top-1 : calls'[n] = calls[n]
  <2>1. calls' = SubSeq(calls, 1, Top - 1)
    BY <1>1 DEF Front, Top
  <2>2. \A n \in 1..Top-1 : calls[n] \in Frames
    BY <1>2 DEF Top
  <2> DEFINE s == SubSeq(calls, 1, Top - 1)
  <2>3. /\ s \in Seq(Frames) /\ Len(s) = IF 1 <= Top - 1 THEN (Top - 1) - 1 + 1 ELSE 0
        /\ \A n \in 1..(Top - 1) - 1 + 1 : s[n] = calls[1 + n - 1]
    BY <1>2, <2>2, SubSeqProperties
  <2> HIDE DEF s
  <2>4. Len(s) = Top - 1 /\ \A n \in 1..Top-1 : s[n] = calls[n]
    BY <1>2, <2>3
  <2> QED
    BY <2>1, <2>3, <2>4 DEF s
<1>5. Top' = Top - 1
  BY <1>4 DEF Top
<1>6. \A n \in 1..Top-1 : n \in 1..Top /\ n \in Nat
  BY <1>2
<1>7. MovesInv'
  BY <1>0, <1>1, <1>4, <1>5, <1>6 DEF MovesInv
<1>8. PartitionInv'
  BY <1>1, <1>2 DEF PartitionInv
<1>9. CASE Top = 1
  <2>1. calls' = << >> /\ pc' = "verify"
    BY <1>1, <1>4, <1>9
  <2>2. InOrder(arr, 0, N - 1)
    BY <1>0, <1>1, <1>3, <1>9 DEF RangesInv
  <2>3. QsortTypeOK'
    BY <1>1, <1>2, <1>4, <2>1 DEF QsortTypeOK
  <2>4. RangesInv' /\ OrderedInv'
    <3>1. 1..Top' = {} /\ 1..Top'-1 = {}
      BY <1>5, <1>9
    <3> QED
      BY <1>1, <1>3, <2>1, <2>2, <3>1 DEF RangesInv, OrderedInv
  <2> QED
    BY <1>7, <1>8, <2>3, <2>4 DEF Sorting
<1>10. CASE Top # 1
  <2> DEFINE u == calls[Top - 1]
  <2>1. Top - 1 \in 1..Top-1 /\ Top - 1 \in 1..Top /\ (Top - 1) + 1 = Top /\ 1 \in 1..Top-1
    BY <1>2, <1>10
  <2>2. calls'[Top'] = u /\ calls' # << >> /\ calls'[1] = calls[1] /\ pc' = "sort"
    BY <1>1, <1>4, <1>5, <1>10, <2>1
  <2>3. /\ u.at \in {"right", "return"} /\ t.lo = PartLo(u) /\ t.hi = PartHi(u)
        /\ Split(arr, u) /\ (u.at = "return" => InOrder(arr, u.lo, u.p - 1))
    BY <1>0, <2>1 DEF RangesInv, OrderedInv
  <2>4. u.lo \in Int /\ u.hi \in Int /\ u.p \in Int /\ 0 <= u.lo /\ u.hi <= N - 1 /\ N \in Nat
    BY <1>0, <2>1, FrameType, QsortAssumption DEF RangesInv
  <2>5. QsortTypeOK'
    BY <1>1, <1>2, <1>4, <2>2, <2>3 DEF QsortTypeOK
  <2>6. RangesInv'
    <3>1. calls'[1].lo = 0 /\ calls'[1].hi = N - 1
      BY <1>0, <1>1, <2>2 DEF RangesInv
    <3>2. ASSUME NEW n \in 1..Top-1
          PROVE  /\ 0 <= calls'[n].lo /\ calls'[n].hi <= N - 1
                 /\ calls'[n].lo <= calls'[n].hi + 1
                 /\ calls'[n].hi - calls'[n].lo + n <= N
      BY <1>0, <1>4, <1>6 DEF RangesInv
    <3>3. ASSUME NEW n \in 1..(Top-1)-1
          PROVE  /\ calls'[n].at \in {"right", "return"}
                 /\ calls'[n + 1].lo = PartLo(calls'[n]) /\ calls'[n + 1].hi = PartHi(calls'[n])
                 /\ \A m \in n+1..Top-1 : /\ PartLo(calls'[n]) <= calls'[m].lo
                                          /\ calls'[m].hi <= PartHi(calls'[n])
      <4>1. /\ n \in 1..Top-1 /\ n + 1 \in 1..Top-1
            /\ \A m \in n+1..Top-1 : m \in n+1..Top /\ m \in 1..Top-1
        BY <1>2
      <4> QED
        BY <1>0, <1>4, <4>1 DEF RangesInv
    <3> QED
      BY <1>5, <2>2, <3>1, <3>2, <3>3 DEF RangesInv
  <2>7. u.at = "right" => InOrder(arr, u.lo, u.p - 1)
    BY <1>3, <2>3 DEF PartLo, PartHi
  <2>8. u.at = "return" => InOrder(arr, u.lo, u.hi)
    <3> SUFFICES ASSUME u.at = "return", NEW k \in u.lo..u.hi, NEW l \in u.lo..u.hi, k <= l
                 PROVE  arr[k] <= arr[l]
      BY DEF InOrder
    <3>1. InOrder(arr, u.lo, u.p - 1) /\ t.lo = u.p + 1 /\ t.hi = u.hi
      BY <2>3 DEF PartLo, PartHi
    <3>2. InOrder(arr, u.p + 1, u.hi)
      BY <1>3, <3>1
    <3>3. /\ u.p \in u.lo..u.hi
          /\ \A m \in u.lo..u.p-1 : arr[m] <= arr[u.p]
          /\ \A m \in u.p+1..u.hi : arr[u.p] <= arr[m]
      BY <2>3 DEF Split
    <3> HIDE DEF u, t
    <3>4. k \in Index /\ l \in Index /\ u.p \in Index
      BY <2>4, <3>3 DEF Index
    <3>5. arr[k] \in Int /\ arr[l] \in Int /\ arr[u.p] \in Int
      BY <1>2, <3>4, QsortAssumption
    <3>6. \/ k \in u.lo..u.p-1 /\ l \in u.lo..u.p-1
          \/ k \in u.p+1..u.hi /\ l \in u.p+1..u.hi
          \/ k \in u.lo..u.p-1 /\ l \in u.p+1..u.hi
          \/ k = u.p /\ l \in u.p+1..u.hi
          \/ k \in u.lo..u.p-1 /\ l = u.p
          \/ k = u.p /\ l = u.p
      BY <2>4, <3>3
    <3>7. \A a, b, c \in Int : a <= b /\ b <= c => a <= c
      OBVIOUS
    <3>8. CASE k \in u.lo..u.p-1 /\ l \in u.p+1..u.hi
      BY <3>3, <3>5, <3>7, <3>8
    <3>9. CASE k = u.p /\ l = u.p
      BY <3>5, <3>9
    <3> QED
      BY <3>1, <3>2, <3>3, <3>6, <3>8, <3>9 DEF InOrder
  <2>9. OrderedInv'
    <3>1. ASSUME NEW n \in 1..(Top-1)-1
          PROVE  /\ Split(arr, calls'[n])
                 /\ calls'[n].at = "return" => InOrder(arr, calls'[n].lo, calls'[n].p - 1)
      <4>1. n \in 1..Top-1
        BY <1>2
      <4> QED
        BY <1>0, <1>4, <4>1 DEF OrderedInv
    <3> QED
      BY <1>1, <1>3, <1>5, <2>2, <2>3, <2>7, <2>8, <3>1 DEF OrderedInv
  <2> QED
    BY <1>7, <1>8, <2>5, <2>6, <2>9 DEF Sorting
<1> QED
  BY <1>9, <1>10

\* main's check of the sorted array passes.
LEMMA VerifySorts == Sorting /\ Verify => Sorting'
<1> SUFFICES ASSUME Sorting, Verify PROVE Sorting'
  OBVIOUS
<1>0. QsortTypeOK /\ RangesInv /\ MovesInv /\ PartitionInv /\ OrderedInv
  BY DEF Sorting
<1>1. pc = "verify" /\ pc' = "done" /\ UNCHANGED <<arr, calls, part>> /\ calls = << >>
  BY <1>0 DEF Verify, QsortTypeOK
<1>2. InOrder(arr, 0, N - 1) /\ arr \in [Index -> Values] /\ N \in Nat
  BY <1>0, <1>1, QsortAssumption DEF OrderedInv, QsortTypeOK
<1>3. ASSUME NEW k \in 1..N-1 PROVE ~(arr[k - 1] > arr[k])
  <2>1. k - 1 \in 0..N-1 /\ k \in 0..N-1 /\ k - 1 <= k
    BY <1>2
  <2>2. arr[k - 1] <= arr[k]
    BY <1>2, <2>1 DEF InOrder
  <2>3. arr[k - 1] \in Int /\ arr[k] \in Int
    BY <1>2, <2>1, QsortAssumption DEF Index
  <2> QED
    BY <2>2, <2>3
<1>4. verdict' = "GOOD"
  BY <1>3 DEF Verify
<1>5. Top' = Top
  BY <1>1 DEF Top
<1> QED
  BY <1>0, <1>1, <1>2, <1>4, <1>5
     DEF Sorting, QsortTypeOK, RangesInv, MovesInv, PartitionInv, OrderedInv

\* main fills the array and calls quicksort on all of it.
LEMMA FillSorts == Unfilled /\ fill_array => Sorting'
<1> SUFFICES ASSUME Unfilled, fill_array PROVE Sorting'
  OBVIOUS
<1>1. PICK a \in [Index -> Values] :
        /\ arr' = a
        /\ calls' = <<[lo |-> 0, hi |-> N - 1, at |-> "enter", p |-> 0, was |-> a]>>
  BY DEF fill_array
<1> DEFINE f == [lo |-> 0, hi |-> N - 1, at |-> "enter", p |-> 0, was |-> a]
<1>2. f \in Frames /\ f.lo = 0 /\ f.hi = N - 1 /\ f.at = "enter" /\ f.was = a /\ N \in Nat /\ N > 0
  BY QsortAssumption DEF Frames
<1> HIDE DEF f
<1>3. calls' = <<f>>
  BY <1>1 DEF f
<1>4. calls' \in Seq(Frames) /\ calls' # << >> /\ Top' = 1 /\ calls'[1] = f
  BY <1>2, <1>3 DEF Top
<1>5. pc' = "sort" /\ part' = << >> /\ verdict' = "none"
  BY DEF fill_array, Unfilled
<1>6. 1..Top' = {1} /\ 1..Top'-1 = {}
  BY <1>4
<1>7. QsortTypeOK'
  BY <1>1, <1>2, <1>4, <1>5 DEF QsortTypeOK
<1>8. RangesInv'
  BY <1>2, <1>4, <1>6 DEF RangesInv
<1>9. MovesInv'
  BY <1>1, <1>2, <1>4, <1>6 DEF MovesInv, Moved
<1>10. PartitionInv' /\ OrderedInv'
  BY <1>2, <1>4, <1>5, <1>6 DEF PartitionInv, OrderedInv
<1> QED
  BY <1>7, <1>8, <1>9, <1>10 DEF Sorting

\* The invariant holds after every step.
LEMMA QsortInvNext == QsortInv /\ [QsortNext]_<<image, pc, qsVars>> => QsortInv'
<1> SUFFICES ASSUME QsortInv, [QsortNext]_<<image, pc, qsVars>> PROVE QsortInv'
  OBVIOUS
<1>1. CASE UNCHANGED <<image, pc, qsVars>>
  <2>1. UNCHANGED <<pc, arr, calls, part, verdict, Top>>
    BY <1>1 DEF qsVars, Top
  <2> QED
    BY <2>1 DEF QsortInv, Unfilled, Sorting, QsortTypeOK, RangesInv, MovesInv, PartitionInv,
                OrderedInv
<1>2. CASE QsortNext /\ Unfilled
  BY <1>2, FillSorts DEF QsortNext, QsortInv, Unfilled, EnterCall, PartitionPass,
     PartitionDone,
                         Recurse, ReturnFromCall, Verify
<1>3. CASE QsortNext /\ Sorting
  <2>1. ~fill_array
    BY <1>3 DEF Sorting, QsortTypeOK, fill_array
  <2> QED
    BY <1>3, <2>1, EnterCallSorts, PartitionPassSorts, PartitionDoneSorts, RecurseSorts,
       ReturnSorts, VerifySorts DEF QsortNext, QsortInv
<1> QED
  BY <1>1, <1>2, <1>3 DEF QsortInv

\* The invariant says that calls sort.
LEMMA QsortInvSorts == QsortInv => CallsSort
<1> SUFFICES ASSUME QsortInv PROVE CallsSort
  OBVIOUS
<1>1. CASE Unfilled
  BY <1>1, QsortAssumption DEF Unfilled, CallsSort
<1>2. CASE Sorting
  <2>0. QsortTypeOK /\ RangesInv /\ MovesInv /\ PartitionInv /\ OrderedInv
    BY <1>2 DEF Sorting
  <2>1. Top \in Nat /\ N \in Nat /\ (calls # << >> => Top \in 1..Top) /\ (Top # 0 => Top \in 1..Top)
    BY <2>0, QsortAssumption DEF QsortTypeOK, Top
  <2>2. frame = calls[Top]
    BY DEF frame, Last, Top
  <2>3. Len(calls) <= N + 1
    <3>1. CASE Top # 0
      <4>1. /\ calls[Top].lo \in Int /\ calls[Top].hi \in Int
            /\ calls[Top].lo <= calls[Top].hi + 1 /\ calls[Top].hi - calls[Top].lo + Top <= N
        BY <2>0, <2>1, <3>1, FrameType DEF RangesInv
      <4>2. \A lo, hi, n \in Int : lo <= hi + 1 /\ hi - lo + n <= N => n <= N + 1
        BY <2>1
      <4> QED
        BY <2>1, <4>1, <4>2 DEF Top
    <3> QED
      BY <2>1, <3>1 DEF Top
  <2>4. part # << >> => part[1].i + 1 \in frame.lo..frame.hi
    <3> SUFFICES ASSUME part # << >> PROVE part[1].i + 1 \in calls[Top].lo..calls[Top].hi
      BY <2>2
    <3>1. /\ part[1].i \in Int /\ part[1].j \in Int /\ calls[Top].lo - 1 <= part[1].i
          /\ part[1].i < part[1].j /\ part[1].j <= calls[Top].hi
      BY <2>0 DEF PartitionInv
    <3>2. calls[Top].lo \in Int /\ calls[Top].hi \in Int
      BY <2>0, <2>1, FrameType DEF QsortTypeOK
    <3> QED
      BY <3>1, <3>2
  <2>5. ASSUME calls # << >>, frame.at = "return"
        PROVE  /\ \A k \in frame.lo+1..frame.hi : arr[k-1] <= arr[k]
               /\ \A v \in Values : Occurrences(arr, frame.lo..frame.hi, v)
                                      = Occurrences(frame.was, frame.lo..frame.hi, v)
               /\ \A k \in Index \ (frame.lo..frame.hi) : arr[k] = frame.was[k]
    <3> DEFINE t == calls[Top]
    <3>1. InOrder(arr, t.lo, t.hi) /\ Moved(arr, t) /\ t.lo \in Int /\ t.hi \in Int
      BY <2>0, <2>1, <2>2, <2>5, FrameType DEF OrderedInv, MovesInv
    <3> HIDE DEF t
    <3>2. ASSUME NEW k \in t.lo+1..t.hi PROVE arr[k-1] <= arr[k]
      <4>1. k - 1 \in t.lo..t.hi /\ k \in t.lo..t.hi /\ k - 1 <= k
        BY <3>1
      <4> QED
        BY <3>1, <4>1 DEF InOrder
    <3>3. frame = t
      BY <2>2 DEF t
    <3> QED
      BY <3>1, <3>2, <3>3 DEF Moved
  <2> QED
    BY <2>0, <2>3, <2>4, <2>5 DEF CallsSort, OrderedInv
<1> QED
  BY <1>1, <1>2 DEF QsortInv

\* For every length and every contents of the array: a call of quicksort that returns
\* has sorted its range and permuted nothing else, calls nest no deeper than N + 1, and
\* main's own check passes.
THEOREM QuicksortSorts == QsortSpec => []CallsSort
<1>1. image = "quicksort" /\ Boot /\ QsortInit => QsortInv
  BY DEF Boot, QsortInit, QsortInv, Unfilled
<1> QED
  BY <1>1, QsortInvNext, QsortInvSorts, PTL DEF QsortSpec

(***************************************************************************)
(* The benchmark ports (sim/sw/coremark/core_portme.c,                     *)
(* sim/sw/dhrystone/dhry_portme.c). The invariant relates the tick         *)
(* counter, which wraps, to the cycles the region really took, and bounds  *)
(* these by the assumption on the length of an iteration; the rest is      *)
(* division with rest.                                                     *)
(***************************************************************************)

\* Division with rest.
LEMMA Euclid ==
  ASSUME NEW n \in Int, NEW w \in Nat, w > 0
  PROVE  \E q \in Int, r \in 0 .. w - 1 :
           q = n \div w /\ r = n % w /\ n = q * w + r /\ (n \in Nat => q \in Nat)
<1>1. PICK q \in Int, r \in 0 .. w - 1 : q = n \div w /\ r = n % w
  OBVIOUS
<1>2. r = n - w * q
  BY <1>1
<1>3. n = q * w + r
  BY <1>2
<1>4. ASSUME n \in Nat PROVE q \in Nat
  BY <1>1, <1>4
<1> QED
  BY <1>1, <1>3, <1>4

\* Quotient and remainder are determined by it.
LEMMA EuclidUnique ==
  ASSUME NEW w \in Nat, w > 0, NEW q \in Int, NEW r \in 0 .. w - 1
  PROVE  (q * w + r) \div w = q /\ (q * w + r) % w = r
OBVIOUS

\* Division with rest of a number that is not negative.
LEMMA EuclidPick ==
  ASSUME NEW n \in Nat, NEW w \in Nat, w > 0
  PROVE  \E q \in Nat, r \in 0 .. w - 1 : q = n \div w /\ r = n % w /\ n = q * w + r
BY Euclid

\* If n * x <= m * (w - 1) with m <= n then x < w.
LEMMA ScaledBound ==
  ASSUME NEW n \in Nat, n > 0, NEW m \in 0 .. n, NEW w \in Nat, w > 0, NEW x \in Nat,
         x * n <= m * (w - 1)
  PROVE  x < w
<1>1. m * (w - 1) <= n * (w - 1)
  <2>1. PICK k \in Nat : n = m + k
    BY n - m \in Nat, n = m + (n - m)
  <2>2. n * (w - 1) = m * (w - 1) + k * (w - 1) /\ k * (w - 1) \in Nat
    BY <2>1, w - 1 \in Nat
  <2> QED
    BY <2>2, m * (w - 1) \in Nat
<1>2. ASSUME x >= w PROVE FALSE
  <2>1. PICK k \in Nat : x = (w - 1) + 1 + k
    BY <1>2, x - w \in Nat, x = (w - 1) + 1 + (x - w)
  <2>2. x * n = n * (w - 1) + n + k * n /\ k * n \in Nat /\ n * (w - 1) \in Nat
    BY <2>1, w - 1 \in Nat
  <2> QED
    BY <2>2, <1>1, m * (w - 1) \in Nat, x * n \in Nat
<1> QED
  BY <1>2

\* The seconds printed: whole, and hundredths of the rest.
LEMMA SecondsExact ==
  ASSUME NEW t \in Nat
  PROVE  /\ Seconds(t).hundredths < CENT
         /\ Value(Seconds(t)) = (t * CENT) \div CLK_HZ
<1>1. CENT \in Nat /\ CENT > 0 /\ CLK_HZ \in Nat /\ CLK_HZ > 0 /\ CLK_HZ % CENT = 0
  BY BenchAssumption
<1> DEFINE u == CLK_HZ \div CENT
           a == t \div CLK_HZ
           b == t % CLK_HZ
           e == b \div u
           f == b % u
<1>2. CLK_HZ = u * CENT /\ u \in Nat
  BY <1>1, Euclid
<1>3. u > 0
  BY <1>1, <1>2
<1>4. t = a * CLK_HZ + b /\ a \in Nat /\ b \in Nat /\ b < CLK_HZ
  BY <1>1, Euclid
<1> HIDE DEF u, a, b
<1>5. b = e * u + f /\ e \in Nat /\ f \in Nat /\ f < u
  BY <1>2, <1>3, <1>4, Euclid
<1> HIDE DEF e, f
<1>6. e < CENT
  <2>1. ASSUME e >= CENT PROVE FALSE
    <3>1. PICK k \in Nat : e = CENT + k
      BY <1>1, <1>5, <2>1, e - CENT \in Nat, e = CENT + (e - CENT)
    <3>2. e * u = u * CENT + k * u /\ k * u \in Nat
      BY <1>1, <1>2, <3>1
    <3> QED
      BY <1>2, <1>4, <1>5, <3>2
  <2> QED
    BY <2>1, <1>1, <1>5
<1>7. f * CENT \in Nat /\ f * CENT < CLK_HZ
  <2>1. PICK k \in Nat : u = f + 1 + k
    BY <1>2, <1>5, u - f - 1 \in Nat, u = f + 1 + (u - f - 1)
  <2>2. u * CENT = f * CENT + CENT + k * CENT /\ k * CENT \in Nat /\ f * CENT \in Nat
    BY <1>1, <1>5, <2>1
  <2> QED
    BY <1>1, <1>2, <2>2
<1>8. t * CENT = (a * CENT + e) * CLK_HZ + f * CENT
  <2>1. t * CENT = a * CLK_HZ * CENT + e * u * CENT + f * CENT
    BY <1>1, <1>2, <1>4, <1>5
  <2>2. e * u * CENT = e * CLK_HZ
    BY <1>1, <1>2, <1>5
  <2>3. a * CLK_HZ * CENT = a * CENT * CLK_HZ
    BY <1>1, <1>4
  <2>4. (a * CENT + e) * CLK_HZ = a * CENT * CLK_HZ + e * CLK_HZ
    BY <1>1, <1>4, <1>5
  <2> QED
    BY <2>1, <2>2, <2>3, <2>4
<1>9. (t * CENT) \div CLK_HZ = a * CENT + e
  <2>1. a * CENT + e \in Int /\ f * CENT \in 0 .. CLK_HZ - 1
    BY <1>1, <1>4, <1>5, <1>7
  <2> QED
    BY <1>1, <1>8, <2>1, EuclidUnique
<1>10. Seconds(t) = [whole |-> a, hundredths |-> e]
  BY DEF Seconds, x100, a, e, b, u
<1> QED
  BY <1>6, <1>9, <1>10 DEF Value

\* A rate cut to two decimals.
LEMMA RateExact ==
  ASSUME NEW n \in Nat, NEW p \in Nat, p > 0, p * CENT < WORD
  PROVE  LET x == x100(n \div p, (((n % p) * CENT) % WORD) \div p)
         IN  x.hundredths < CENT /\ Value(x) = (n * CENT) \div p
<1>1. CENT \in Nat /\ CENT > 0 /\ WORD \in Nat /\ WORD > 0
  BY BenchAssumption
<1> DEFINE a == n \div p
           b == n % p
<1>2. n = a * p + b /\ a \in Nat /\ b \in Nat /\ b < p
  BY Euclid
<1> HIDE DEF a, b
<1>3. b * CENT \in Nat /\ b * CENT + CENT <= p * CENT
  <2>1. PICK k \in Nat : p = b + 1 + k
    BY <1>2, p - b - 1 \in Nat, p = b + 1 + (p - b - 1)
  <2>2. p * CENT = b * CENT + CENT + k * CENT /\ k * CENT \in Nat /\ b * CENT \in Nat
    BY <1>1, <1>2, <2>1
  <2> QED
    BY <1>1, <2>2
<1>4. (b * CENT) % WORD = b * CENT
  <2>1. b * CENT \in 0 .. WORD - 1 /\ 0 * WORD + b * CENT = b * CENT
    BY <1>1, <1>3, p * CENT \in Nat
  <2>2. (0 * WORD + b * CENT) % WORD = b * CENT
    BY <1>1, <2>1, EuclidUnique
  <2> QED
    BY <2>1, <2>2
<1>5. PICK e \in Nat, f \in 0 .. p - 1 :
        e = (b * CENT) \div p /\ b * CENT = e * p + f
  <2> DEFINE c == b * CENT
  <2>1. c \in Nat
    BY <1>3
  <2> HIDE DEF c
  <2>2. \E q \in Nat, r \in 0 .. p - 1 : q = c \div p /\ c = q * p + r
    BY <2>1, EuclidPick
  <2> QED
    BY <2>2 DEF c
<1>6. e < CENT
  <2>1. ASSUME e >= CENT PROVE FALSE
    <3>1. PICK k \in Nat : e = CENT + k
      BY <1>1, <1>5, <2>1, e - CENT \in Nat, e = CENT + (e - CENT)
    <3>2. e * p = p * CENT + k * p /\ k * p \in Nat
      BY <1>1, <3>1
    <3> QED
      BY <1>1, <1>3, <1>5, <3>2
  <2> QED
    BY <2>1, <1>1, <1>5
<1>7. n * CENT = (a * CENT + e) * p + f
  <2>1. n * CENT = a * p * CENT + b * CENT
    BY <1>1, <1>2
  <2>2. a * p * CENT = a * CENT * p
    BY <1>1, <1>2
  <2>3. (a * CENT + e) * p = a * CENT * p + e * p
    BY <1>1, <1>2, <1>5
  <2>4. a * CENT * p \in Nat /\ e * p \in Nat /\ b * CENT \in Nat
    BY <1>1, <1>2, <1>5
  <2> QED
    BY <2>1, <2>2, <2>3, <2>4, <1>5
<1>8. (n * CENT) \div p = a * CENT + e
  <2>1. a * CENT + e \in Int /\ f \in 0 .. p - 1
    BY <1>1, <1>2, <1>5
  <2> QED
    BY <1>7, <2>1, EuclidUnique
<1>9. x100(n \div p, (((n % p) * CENT) % WORD) \div p) = [whole |-> a, hundredths |-> e]
  BY <1>4, <1>5 DEF x100, a, b
<1> QED
  BY <1>6, <1>8, <1>9 DEF Value

\* A number of hundredths, printed as whole and hundredths.
LEMMA PrintedExact ==
  ASSUME NEW s \in Nat
  PROVE  LET x == x100(s \div CENT, s % CENT)
         IN  x.hundredths < CENT /\ Value(x) = s
<1>1. CENT \in Nat /\ CENT > 0
  BY BenchAssumption
<1>2. PICK q \in Nat, r \in 0 .. CENT - 1 : q = s \div CENT /\ r = s % CENT /\ s = q * CENT + r
  BY <1>1, EuclidPick
<1>3. x100(s \div CENT, s % CENT) = [whole |-> q, hundredths |-> r]
  BY <1>2 DEF x100
<1>4. Value([whole |-> q, hundredths |-> r]) = s /\ r < CENT
  BY <1>1, <1>2 DEF Value
<1> QED
  BY <1>3, <1>4

\* What the summary prints for a region of e cycles.
ReportOf(e) ==
  LET per_iter == e \div ITERATIONS
  IN  IF e = 0 THEN [ticks |-> e, secs |-> << >>, rates |-> << >>]
      ELSE [ticks |-> e, secs |-> <<Seconds(e)>>,
            rates |-> IF ~HasRates(per_iter) THEN << >>
                      ELSE IF image = "coremark" THEN CoreMarkRates(per_iter)
                      ELSE DhrystoneRates(per_iter)]

\* Ticks are integers and counters natural numbers.
BenchTypeOK ==
  /\ image \in {"coremark", "dhrystone"}
  /\ mcycle \in Int /\ t_begin \in Int /\ t_end \in Int /\ t_calls \in Nat
  /\ iter \in 0 .. ITERATIONS /\ elapsed \in Nat /\ banners \in Nat /\ faults \in Nat

\* The region so far: no wrap more than once, and small enough for the scaling.
RegionInv ==
  /\ elapsed * ITERATIONS <= iter * (WORD - 1)
  /\ elapsed * CENT <= iter * (WORD - 1)
  /\ elapsed * VAX_DHRY_PER_SEC <= iter * (WORD - 1)
  /\ pc = "start_time" => t_calls = 0 /\ elapsed = 0
  /\ pc \in {"iterate", "stop_time"} =>
       /\ image = "dhrystone" => t_calls = 1
       /\ \E k \in Int : mcycle - t_begin = k * WORD + elapsed
  /\ pc = "report" => get_time = elapsed
  /\ pc = "done" => report = ReportOf(elapsed)

\* CoreMark prints its banner once and has its reporter from then on.
OnceInv ==
  image = "coremark" =>
    \/ pc \in {"reset", "_start"} /\ mtvec = "_start" /\ banners = 0
    \/ pc \notin {"reset", "_start"} /\ mtvec = "reporter" /\ banners = 1

BenchInv == BenchTypeOK /\ RegionInv /\ OnceInv

\* The constants of the ports are positive.
LEMMA Sizes ==
  /\ WORD \in Nat /\ WORD > 0 /\ CENT \in Nat /\ CENT > 0 /\ MEGA \in Nat /\ MEGA > 0
  /\ CLK_HZ \in Nat /\ CLK_HZ > 0 /\ ITERATIONS \in Nat /\ ITERATIONS > 0
  /\ VAX_DHRY_PER_SEC \in Nat /\ VAX_DHRY_PER_SEC > 0
BY BenchAssumption

\* The reset state satisfies the invariant.
LEMMA BenchInvInit ==
  image \in {"coremark", "dhrystone"} /\ Boot /\ BenchInit => BenchInv
BY Sizes DEF Boot, BenchInit, BenchInv, BenchTypeOK, RegionInv, OnceInv

\* One more iteration of c cycles keeps a scaled region within its bound.
LEMMA ScaledStep ==
  ASSUME NEW e \in Nat, NEW c \in Nat, NEW x \in Nat, NEW m \in Nat, NEW w \in Nat, w > 0,
         e * x <= m * (w - 1), c * x < w
  PROVE  (e + c) * x <= (m + 1) * (w - 1)
<1>1. (e + c) * x = e * x + c * x /\ (m + 1) * (w - 1) = m * (w - 1) + (w - 1)
  BY w - 1 \in Nat
<1>2. e * x \in Nat /\ c * x \in Nat /\ m * (w - 1) \in Nat
  BY w - 1 \in Nat
<1> QED
  BY <1>1, <1>2

\* An iteration keeps the region in its bounds.
LEMMA IterateStep ==
  ASSUME BenchInv, Iterate, UNCHANGED image
  PROVE  BenchInv'
<1>1. CASE iter < ITERATIONS
  <2>1. PICK c \in IterCycles :
          /\ mcycle' = (mcycle + c) % WORD /\ elapsed' = elapsed + c
          /\ iter' = iter + 1 /\ UNCHANGED pc
    BY <1>1 DEF Iterate
  <2>2. c \in Nat /\ c * ITERATIONS < WORD /\ c * CENT < WORD /\ c * VAX_DHRY_PER_SEC < WORD
    BY BenchAssumption
  <2>3. pc = "iterate" /\ UNCHANGED <<mtvec, t_begin, t_end, t_calls, report, banners, faults>>
    BY DEF Iterate
  <2>4. mcycle \in Int /\ t_begin \in Int /\ elapsed \in Nat /\ iter \in Nat
    BY Sizes DEF BenchInv, BenchTypeOK
  <2>5. PICK q \in Int, r \in 0 .. WORD - 1 :
          q = (mcycle + c) \div WORD /\ r = (mcycle + c) % WORD /\ mcycle + c = q * WORD + r
    BY <2>2, <2>4, Sizes, Euclid, mcycle + c \in Int
  <2>6. PICK k \in Int : mcycle - t_begin = k * WORD + elapsed
    BY <2>3 DEF BenchInv, RegionInv
  <2>7. mcycle' - t_begin' = (k - q) * WORD + elapsed' /\ k - q \in Int
    <3>1. (k - q) * WORD = k * WORD - q * WORD /\ k * WORD \in Int /\ q * WORD \in Int
      BY Sizes
    <3> QED
      BY <2>1, <2>2, <2>3, <2>4, <2>5, <2>6, <3>1, Sizes
  <2>8. /\ elapsed' * ITERATIONS <= iter' * (WORD - 1)
        /\ elapsed' * CENT <= iter' * (WORD - 1)
        /\ elapsed' * VAX_DHRY_PER_SEC <= iter' * (WORD - 1)
    BY <2>1, <2>2, <2>4, Sizes, ScaledStep DEF BenchInv, RegionInv
  <2>9. BenchTypeOK'
    BY <1>1, <2>1, <2>2, <2>3, <2>4, <2>5, Sizes DEF BenchInv, BenchTypeOK
  <2>10. RegionInv'
    BY <2>1, <2>3, <2>7, <2>8 DEF BenchInv, RegionInv
  <2> QED
    BY <2>1, <2>3, <2>9, <2>10 DEF BenchInv, OnceInv
<1>2. CASE ~(iter < ITERATIONS)
  BY <1>2 DEF Iterate, BenchInv, BenchTypeOK, RegionInv, OnceInv
<1> QED
  BY <1>1, <1>2

\* The region closes with the cycles it took, across a wrap of the counter.
LEMMA CloseStep ==
  ASSUME BenchInv, CloseRegion, UNCHANGED image
  PROVE  BenchInv'
<1>1. /\ pc = "stop_time" /\ pc' = "report"
      /\ t_end' = mcycle /\ t_begin' = t_begin /\ t_calls' \in Nat
      /\ UNCHANGED <<mcycle, mtvec, iter, report, elapsed, banners, faults>>
  BY DEF CloseRegion, stop_time, time, BenchInv, BenchTypeOK, RegionInv
<1>2. PICK k \in Int : mcycle - t_begin = k * WORD + elapsed
  BY <1>1 DEF BenchInv, RegionInv
<1>3. elapsed < WORD /\ elapsed \in Nat
  BY Sizes, ScaledBound DEF BenchInv, BenchTypeOK, RegionInv
<1>4. (k * WORD + elapsed) % WORD = elapsed
  BY <1>3, Sizes, EuclidUnique, elapsed \in 0 .. WORD - 1
<1>5. get_time' = elapsed'
  BY <1>1, <1>2, <1>4 DEF get_time
<1> QED
  BY <1>1, <1>5 DEF BenchInv, BenchTypeOK, RegionInv, OnceInv

\* Every step of a benchmark keeps the invariant.
LEMMA BenchInvNext == BenchInv /\ [BenchNext]_<<image, pc, benchVars>> => BenchInv'
<1> SUFFICES ASSUME BenchInv, [BenchNext]_<<image, pc, benchVars>> PROVE BenchInv'
  OBVIOUS
<1>1. CASE UNCHANGED <<image, pc, benchVars>>
  BY <1>1 DEF benchVars, BenchInv, BenchTypeOK, RegionInv, OnceInv, get_time, ReportOf,
     CoreMarkRates, DhrystoneRates
<1> SUFFICES ASSUME BenchNext PROVE BenchInv'
  BY <1>1
<1>2. UNCHANGED image
  BY DEF BenchNext
<1>3. CASE PowerUp
  BY <1>2, <1>3, Sizes DEF PowerUp, BenchInv, BenchTypeOK, RegionInv, OnceInv
<1>4. CASE portable_init
  BY <1>2, <1>4, Sizes DEF portable_init, BenchInv, BenchTypeOK, RegionInv, OnceInv
<1>5. CASE OpenRegion
  <2>1. /\ pc = "start_time" /\ pc' = "iterate"
        /\ t_begin' = mcycle /\ UNCHANGED t_end /\ t_calls' \in Nat
        /\ image = "dhrystone" => t_calls' = 1
        /\ UNCHANGED <<mcycle, mtvec, iter, report, elapsed, banners, faults>>
    BY <1>5 DEF OpenRegion, start_time, time, BenchInv, BenchTypeOK, RegionInv
  <2>2. mcycle' - t_begin' = 0 * WORD + elapsed'
    BY <2>1, Sizes DEF BenchInv, BenchTypeOK, RegionInv
  <2>3. RegionInv'
    BY <1>2, <2>1, <2>2 DEF BenchInv, RegionInv
  <2> QED
    BY <1>2, <2>1, <2>3 DEF BenchInv, BenchTypeOK, OnceInv
<1>6. CASE Iterate
  BY <1>2, <1>6, IterateStep
<1>7. CASE CloseRegion
  BY <1>2, <1>7, CloseStep
<1>8. CASE report_port_summary
  <2>1. /\ pc = "report" /\ pc' = "done" /\ get_time = elapsed
        /\ UNCHANGED <<mcycle, mtvec, t_begin, t_end, t_calls, iter, elapsed, banners, faults>>
    BY <1>8 DEF report_port_summary, BenchInv, RegionInv
  <2>2. report' = ReportOf(elapsed)
    BY <1>8, <2>1 DEF report_port_summary, ReportOf
  <2>3. ReportOf(elapsed)' = ReportOf(elapsed)
    BY <1>2, <2>1 DEF ReportOf, Seconds, HasRates, CoreMarkRates, DhrystoneRates, x100
  <2>4. RegionInv'
    BY <2>1, <2>2, <2>3 DEF BenchInv, RegionInv
  <2> QED
    BY <1>2, <2>1, <2>4 DEF BenchInv, BenchTypeOK, OnceInv
<1>9. CASE Trap
  BY <1>2, <1>9 DEF Trap, BenchInv, BenchTypeOK, RegionInv, OnceInv
<1>10. CASE trap_report
  BY <1>2, <1>10 DEF trap_report, benchVars, BenchInv, BenchTypeOK, RegionInv, OnceInv
<1> QED
  BY <1>3, <1>4, <1>5, <1>6, <1>7, <1>8, <1>9, <1>10 DEF BenchNext

\* The mean of the iterations is small enough for the scaling, too.
LEMMA MeanBound ==
  ASSUME NEW e \in Nat, NEW x \in Nat, NEW m \in 0 .. ITERATIONS, e * x <= m * (WORD - 1),
         NEW p \in Nat, p = e \div ITERATIONS
  PROVE  p * x < WORD
<1>1. PICK r \in 0 .. ITERATIONS - 1 : e = p * ITERATIONS + r
  BY Sizes, Euclid
<1>2. e * x = (p * x) * ITERATIONS + r * x /\ r * x \in Nat /\ p * x \in Nat
      /\ (p * x) * ITERATIONS \in Nat
  BY <1>1, Sizes
<1>3. (p * x) * ITERATIONS <= m * (WORD - 1)
  <2>1. m * (WORD - 1) \in Int
    BY Sizes
  <2> QED
    BY <1>2, <2>1
<1> QED
  BY <1>2, <1>3, Sizes, ScaledBound

\* The report of a region is true.
LEMMA ReportOfTrue ==
  ASSUME BenchInv, pc = "done"
  PROVE  /\ report.ticks = elapsed
         /\ \A k \in DOMAIN report.secs :
              /\ report.secs[k].hundredths < CENT
              /\ Value(report.secs[k]) = (elapsed * CENT) \div CLK_HZ
         /\ report.rates # << >> =>
              LET per_iter == elapsed \div ITERATIONS
              IN  /\ \A k \in {1, 2} : report.rates[k].hundredths < CENT
                  /\ image = "coremark" =>
                       Value(report.rates[1]) = (CLK_HZ * CENT) \div per_iter
                  /\ image = "dhrystone" =>
                       Value(report.rates[2]) = (CENT * MEGA) \div (per_iter * VAX_DHRY_PER_SEC)
<1>1. report = ReportOf(elapsed) /\ elapsed \in Nat
  BY DEF BenchInv, RegionInv, BenchTypeOK
<1>2. PICK p \in Nat : p = elapsed \div ITERATIONS
  BY <1>1, Sizes, Euclid
<1>3. p * CENT < WORD /\ p * VAX_DHRY_PER_SEC < WORD
  BY <1>1, <1>2, Sizes, MeanBound DEF BenchInv, BenchTypeOK, RegionInv
<1>4. CASE elapsed = 0
  BY <1>1, <1>4 DEF ReportOf
<1>5. CASE elapsed # 0
  <2>1. report.ticks = elapsed /\ report.secs = <<Seconds(elapsed)>>
    BY <1>1, <1>5 DEF ReportOf
  <2>2. \A k \in DOMAIN report.secs :
          /\ report.secs[k].hundredths < CENT
          /\ Value(report.secs[k]) = (elapsed * CENT) \div CLK_HZ
    <3>1. DOMAIN report.secs = {1} /\ report.secs[1] = Seconds(elapsed)
      BY <2>1
    <3> QED
      BY <1>1, <3>1, SecondsExact
  <2>3. CASE p = 0
    <3>1. report.rates = << >>
      BY <1>1, <1>2, <1>5, <2>3 DEF ReportOf, HasRates
    <3> QED
      BY <2>1, <2>2, <3>1
  <2>4. CASE p # 0 /\ image = "coremark"
    <3> DEFINE score == (CENT * MEGA) \div p
               x == x100(CLK_HZ \div p, (((CLK_HZ % p) * CENT) % WORD) \div p)
               y == x100(score \div CENT, score % CENT)
    <3>1. report.rates = <<x, y>>
      BY <1>1, <1>2, <1>5, <2>4 DEF ReportOf, HasRates, CoreMarkRates
    <3>2. score \in Nat
      <4>1. CENT * MEGA \in Nat
        BY Sizes
      <4> QED
        BY <2>4, <4>1, Euclid
    <3>3. x.hundredths < CENT /\ Value(x) = (CLK_HZ * CENT) \div p
      BY <1>3, <2>4, Sizes, RateExact, SMTT(40)
    <3>4. y.hundredths < CENT
      <4> HIDE DEF score
      <4> QED
        BY <3>2, PrintedExact
    <3> HIDE DEF x, y
    <3>5. report.rates[1] = x /\ report.rates[2] = y
      BY <3>1
    <3> QED
      BY <1>2, <2>1, <2>2, <2>4, <3>3, <3>4, <3>5
  <2>5. CASE p # 0 /\ image = "dhrystone"
    <3> DEFINE rate == CLK_HZ \div p
               d100 == ((rate * CENT) % WORD) \div VAX_DHRY_PER_SEC
               m100 == (CENT * MEGA) \div ((p * VAX_DHRY_PER_SEC) % WORD)
               x == x100(d100 \div CENT, d100 % CENT)
               y == x100(m100 \div CENT, m100 % CENT)
    <3>1. report.rates = <<x, y>>
      BY <1>1, <1>2, <1>5, <2>5 DEF ReportOf, HasRates, DhrystoneRates
    <3>2. d100 \in Nat
      <4>1. rate \in Nat
        BY <2>5, Sizes, Euclid
      <4>2. rate * CENT \in Nat
        BY <4>1, Sizes
      <4> HIDE DEF rate
      <4>3. (rate * CENT) % WORD \in Nat
        BY <4>2, Sizes, Euclid
      <4> QED
        BY <4>3, Sizes, Euclid
    <3>3. (p * VAX_DHRY_PER_SEC) % WORD = p * VAX_DHRY_PER_SEC
      <4>1. p * VAX_DHRY_PER_SEC \in Nat
        BY Sizes
      <4>2. p * VAX_DHRY_PER_SEC \in 0 .. WORD - 1 /\ 0 * WORD + p * VAX_DHRY_PER_SEC = p * VAX_DHRY_PER_SEC
        BY <1>3, <4>1, Sizes
      <4>3. (0 * WORD + p * VAX_DHRY_PER_SEC) % WORD = p * VAX_DHRY_PER_SEC
        BY <4>2, Sizes, EuclidUnique
      <4> QED
        BY <4>2, <4>3
    <3>4. p * VAX_DHRY_PER_SEC \in Nat /\ p * VAX_DHRY_PER_SEC > 0
      BY <2>5, Sizes
    <3>5. m100 = (CENT * MEGA) \div (p * VAX_DHRY_PER_SEC)
      BY <3>3
    <3>6. m100 \in Nat
      <4>1. CENT * MEGA \in Nat
        BY Sizes
      <4> DEFINE z == p * VAX_DHRY_PER_SEC
                 w == CENT * MEGA
      <4> HIDE DEF z, w
      <4>2. w \div z \in Nat
        BY <4>1, <3>4, Euclid DEF z, w
      <4> QED
        BY <4>2, <3>5 DEF z, w
    <3>7. x.hundredths < CENT /\ y.hundredths < CENT /\ Value(y) = m100
      <4> HIDE DEF d100, m100
      <4> QED
        BY <3>2, <3>6, PrintedExact
    <3> HIDE DEF x, y
    <3>8. report.rates[1] = x /\ report.rates[2] = y
      BY <3>1
    <3> HIDE DEF m100
    <3> QED
      BY <1>2, <2>1, <2>2, <2>5, <3>5, <3>7, <3>8
  <2> QED
    BY <2>3, <2>4, <2>5 DEF BenchInv, BenchTypeOK
<1> QED
  BY <1>4, <1>5

\* The report of both benchmarks is true for every clock, word size, number of
\* iterations and way the run is cut up by traps (core_portme.c, dhry_portme.c).
THEOREM ReportsAreTrue == BenchSpec => []ReportTrue
<1>1. BenchInv => ReportTrue
  <2> SUFFICES ASSUME BenchInv PROVE ReportTrue
    OBVIOUS
  <2>1. image = "coremark" => /\ mtvec = "reporter" => pc # "_start"
                              /\ pc = "done" /\ faults > 0 => banners = 1
    BY DEF BenchInv, OnceInv
  <2> QED
    BY <2>1, ReportOfTrue DEF ReportTrue
<1> QED
  BY BenchInvInit, BenchInvNext, <1>1, PTL DEF BenchSpec

(***************************************************************************)
(* The list kernel of CoreMark.                                            *)
(*                                                                         *)
(* The cells in the order of the list are a permutation w; From follows    *)
(* the links along it.  During a merge, w is the merged part, up to place  *)
(* m, then the rest of the first run, then the rest of the list; taking a  *)
(* cell of the second run brings it forward to place m + 1.  Neighbours    *)
(* in a run are in order and both have been compared (Fine): of the cells  *)
(* that were never compared each is a run of its own.                      *)
(***************************************************************************)
\* The cells, and the orders they can be in.
Size == ListSize - 1
Orders == {w \in [1..Size -> Cells] : /\ \A ix, j \in 1..Size : w[ix] = w[j] => ix = j
                                      /\ \A c \in Cells : \E ix \in 1..Size : w[ix] = c}

\* The links nx lead along w from place a to place b, and along all of w to its end.
Run(nx, w, a, b) == \A ix \in a..b-1 : nx[w[ix]] = w[ix + 1]
Chain(nx, w) == Run(nx, w, 1, Size) /\ nx[w[Size]] = NULL

\* The comparison has had the data of c, and what it compares.
Compared(cmp, c) == IF cmp = "idx" THEN data16[c].lo = data16[c].hi ELSE data16[c].lo >= 128
Key(cmp, c) == IF cmp = "idx" THEN idx[c] ELSE data16[c].lo
Fine(cmp, c, d) == Compared(cmp, c) /\ Compared(cmp, d) /\ Key(cmp, c) <= Key(cmp, d)
Sorted(cmp, w) == \A ix \in 1..Size-1 : Fine(cmp, w[ix], w[ix + 1])

\* Places a to b of w are sorted but for the ends of runs of z cells.
Multiple(ix, z) == \E j \in Nat : ix = j * z
InRuns(w, a, b, z) == \A ix \in a..b-1 : Fine(ms.cmp, w[ix], w[ix + 1]) \/ Multiple(ix, z)

\* m cells are merged.
Merged(w, m) ==
  /\ list = IF m = 0 THEN NULL ELSE w[1]
  /\ ms.tail = IF m = 0 THEN NULL ELSE w[m]
  /\ Run(next, w, 1, m) /\ InRuns(w, 1, m, 2 * ms.insize)

\* Between two merges.
MergeAt(w, m) ==
  /\ m \in 0..Size /\ Merged(w, m)
  /\ m <= ms.nmerges * (2 * ms.insize) /\ (m = ms.nmerges * (2 * ms.insize) \/ m = Size)
  /\ ms.p = IF m = Size THEN NULL ELSE w[m + 1]
  /\ Run(next, w, m + 1, Size) /\ (m < Size => next[w[Size]] = NULL)
  /\ InRuns(w, m + 1, Size, ms.insize)

\* In a merge that began behind place s: the first run goes on up to place e.
TakeAt(w, m, s, e) ==
  /\ m \in 0..Size /\ Merged(w, m) /\ e \in m..Size /\ ms.psize = e - m
  /\ ms.nmerges > 0 /\ s \in 0..m /\ s = (ms.nmerges - 1) * (2 * ms.insize)
  /\ ms.qsize \in 0..ms.insize /\ e + ms.qsize <= s + 2 * ms.insize
  /\ e + ms.qsize = s + 2 * ms.insize \/ e = Size
  /\ m < e => ms.p = w[m + 1]
  /\ ms.q = IF e = Size THEN NULL ELSE w[e + 1]
  /\ Run(next, w, m + 1, e) /\ Run(next, w, e + 1, Size) /\ (e < Size => next[w[Size]] = NULL)
  /\ \A ix \in m+1..e-1 : Fine(ms.cmp, w[ix], w[ix + 1])
  /\ InRuns(w, e + 1, Size, ms.insize)
  /\ m > s /\ m < e => Fine(ms.cmp, w[m], w[m + 1])
  /\ m > s /\ e < Size /\ ms.qsize > 0 => Fine(ms.cmp, w[m], w[e + 1])

\* What core_list_mergesort is called for.
SortCalled ==
  /\ DOMAIN ms = {"p", "q", "tail", "psize", "qsize", "insize", "nmerges", "cmp", "ret"}
  /\ ms.insize \in Nat \ {0} /\ ms.nmerges \in Nat
  /\ ms.ret \in {"ready", "remove", "return"}
  /\ ms.cmp = IF ms.ret = "remove" THEN "complex" ELSE "idx"

SortInv ==
  /\ pc \in {"merge", "take"} => SortCalled
  /\ pc = "merge" => \E w \in Orders, m \in 0..Size : MergeAt(w, m)
  /\ pc = "take" => \E w \in Orders, m, s, e \in 0..Size : TakeAt(w, m, s, e)

\* While the list is built, its items go in behind the head.
BuildInv ==
  pc \in {"reset", "insert"} =>
    /\ list = 1 /\ used \in 1..Size /\ home = << >>
    /\ next[1] = IF used = 1 THEN NULL ELSE used
    /\ \A c \in 2..used : next[c] = IF c = 2 THEN NULL ELSE c - 1
    /\ idx[1] = 0 /\ \A c \in 2..used : idx[c] = TailIdx
    /\ pc = "insert" => used > 1

\* Then every cell has its own index, 0 being that of the head.
IndexInv ==
  pc \notin {"reset", "insert"} => idx[1] = 0 /\ \A c, d \in Cells : idx[c] = idx[d] => c = d

\* Between the calls.
Whole == {"ready", "find", "remove", "sortback", "return"}
WholeInv ==
  pc \in Whole =>
    \E w \in Orders : /\ list = w[1] /\ Chain(next, w)
                      /\ pc \in {"ready", "return"} => Sorted("idx", w)
                      /\ pc = "remove" /\ finder_idx > 0 => Sorted("complex", w)

\* Without the third cell, the data of the second and the third exchanged.
CutInv ==
  pc = "undo" =>
    \E w \in Orders :
      /\ list = w[1] /\ next[w[1]] = w[2] /\ remover = w[3]
      /\ next[w[2]] = IF Size = 3 THEN NULL ELSE w[4]
      /\ Run(next, w, 4, Size) /\ (Size > 3 => next[w[Size]] = NULL)
      /\ info = [c \in Cells |-> IF c = w[2] THEN w[3] ELSE IF c = w[3] THEN w[2] ELSE c]

\* The list as it was: in the order of the indices, rebuilt.
IsHome(h, w) ==
  /\ \A ix \in 1..Size-1 : idx[w[ix]] <= idx[w[ix + 1]]
  /\ h = [k \in 1..Size |-> [idx |-> idx[w[k]], data |-> [hi |-> data16[w[k]].hi, lo |-> data16[w[k]].hi]]]
HomeInv ==
  \/ \E w \in Orders : IsHome(home, w)
  \/ home = << >> /\ (pc \in {"reset", "insert", "ready"} \/ (pc \in {"merge", "take"} /\ ms.ret = "ready"))

ListTypeOK ==
  /\ next \in [Cells -> Cells \union {NULL}] /\ idx \in [Cells -> Nat]
  /\ data16 \in [Cells -> [hi : 0..255, lo : 0..255]]
  /\ pc # "undo" => info = [c \in Cells |-> c]
  /\ pc \in {"reset", "insert", "merge", "take", "undo"} \union Whole

ListInv ==
  ListTypeOK /\ SortInv /\ BuildInv /\ IndexInv /\ WholeInv /\ CutInv /\ HomeInv

\* The sizes of the list.
LEMMA SizeFacts ==
  /\ ListSize \in Nat /\ Size \in Nat /\ Size >= 3 /\ ListSize = Size + 1 /\ Cells = 1..Size
  /\ NULL \notin Cells /\ 1 \in Cells /\ \A c \in Cells : c # NULL
  BY ListAssumption DEF Size, Cells, NULL

\* An order has every cell once.
LEMMA OrderFacts ==
  ASSUME NEW w \in Orders
  PROVE  /\ w \in [1..Size -> Cells]
         /\ \A ix \in 1..Size : w[ix] \in Cells /\ w[ix] # NULL
         /\ \A ix, j \in 1..Size : w[ix] = w[j] => ix = j
         /\ \A c \in Cells : \E ix \in 1..Size : w[ix] = c
  BY SizeFacts DEF Orders

\* Following the links from place a gives the cells from there to the end.
LEMMA FromIs ==
  ASSUME NEW w \in Orders, NEW a \in 1..Size, NEW b \in 1..Size, a <= b,
         Run(next, w, a, b), next[w[b]] = NULL
  PROVE  From(w[a]) = [k \in 1..(b - a + 1) |-> w[a + k - 1]] /\ ~Loops(w[a])
<1> DEFINE L == ListSize
           P(f) == f = [k \in 0..L |-> IF k = 0 THEN w[a]
                                       ELSE IF f[k-1] = NULL THEN NULL ELSE next[f[k-1]]]
           h == [k \in 0..L |-> IF k <= b - a THEN w[a + k] ELSE NULL]
           d == CHOOSE f : P(f)
           n == CHOOSE k \in 0..L : d[k] = NULL /\ \A j \in 0..k-1 : d[j] # NULL
<1>1. L \in Nat /\ Size \in Nat /\ L = Size + 1
  BY SizeFacts
<1>2. \A ix \in 1..Size : w[ix] # NULL
  BY OrderFacts
<1>3. \A ix \in a..b-1 : next[w[ix]] = w[ix + 1]
  BY DEF Run
<1>4. From(w[a]) = [k \in 1..n |-> d[k - 1]] /\ Loops(w[a]) = (d[L] # NULL)
  BY DEF From, Loops
<1> HIDE DEF L
<1>5. ASSUME NEW k \in 0..L
      PROVE  h[k] = IF k = 0 THEN w[a] ELSE IF h[k-1] = NULL THEN NULL ELSE next[h[k-1]]
  <2>1. CASE k = 0
    BY <1>1, <2>1
  <2>2. CASE k # 0
    <3>1. k - 1 \in 0..L /\ h[k - 1] = IF k - 1 <= b - a THEN w[a + (k - 1)] ELSE NULL
      BY <1>1, <2>2
    <3>2. CASE k - 1 > b - a
      <4>1. ~(k - 1 <= b - a) /\ ~(k <= b - a)
        BY <3>2
      <4> QED
        BY <2>2, <3>1, <4>1
    <3>3. CASE k - 1 = b - a
      <4>1. a + (k - 1) = b /\ ~(k <= b - a) /\ k - 1 <= b - a
        BY <3>3
      <4> QED
        BY <1>2, <2>2, <3>1, <4>1
    <3>4. CASE k - 1 < b - a
      <4>1. a + (k - 1) \in a..b-1 /\ a + (k - 1) \in 1..Size /\ (a + (k - 1)) + 1 = a + k
            /\ k <= b - a /\ k - 1 <= b - a
        BY <1>1, <2>2, <3>4
      <4> QED
        BY <1>2, <1>3, <2>2, <3>1, <4>1
    <3> QED
      BY <3>2, <3>3, <3>4
  <2> QED
    BY <2>1, <2>2
<1>6. P(h)
  BY <1>5
<1>7. P(d)
  BY <1>6
<1>8. \A k \in 0..L : d[k] = IF k = 0 THEN w[a] ELSE IF d[k-1] = NULL THEN NULL ELSE next[d[k-1]]
  BY <1>7
<1> HIDE DEF d
<1> DEFINE T == {k \in 0..L : d[k] = h[k]}
<1>9. 0 \in T
  BY <1>1, <1>5, <1>8
<1>10. ASSUME NEW k \in 1..L, k - 1 \in T PROVE k \in T
  <2>1. k \in 0..L /\ k # 0 /\ d[k - 1] = h[k - 1]
    BY <1>1, <1>10
  <2> HIDE DEF h
  <2> QED
    BY <1>5, <1>8, <2>1
<1> HIDE DEF T
<1>11. \A k \in 0..L : k \in T
  BY <1>1, <1>9, <1>10, FiniteInduction
<1>12. ASSUME NEW k \in 0..L PROVE d[k] = IF k <= b - a THEN w[a + k] ELSE NULL
  BY <1>11 DEF T
<1> HIDE DEF h
<1>13. ASSUME NEW k \in 0..L PROVE d[k] = NULL <=> k > b - a
  <2>1. CASE k <= b - a
    <3>1. a + k \in 1..Size /\ ~(k > b - a)
      BY <1>1, <2>1
    <3> QED
      BY <1>2, <1>12, <2>1, <3>1
  <2>2. CASE k > b - a
    <3>1. ~(k <= b - a)
      BY <2>2
    <3> QED
      BY <1>12, <2>2, <3>1
  <2> QED
    BY <2>1, <2>2
<1>14. n = b - a + 1
  <2> DEFINE e == b - a + 1
             Q(k) == d[k] = NULL /\ \A j \in 0..k-1 : d[j] # NULL
  <2>1. e \in 0..L /\ e > b - a /\ b - a \in Nat
    BY <1>1
  <2>2. Q(e)
    <3>1. \A j \in 0..e-1 : j \in 0..L /\ ~(j > b - a)
      BY <1>1, <2>1
    <3> QED
      BY <1>13, <2>1, <3>1
  <2>3. ASSUME NEW k \in 0..L, Q(k) PROVE k = e
    <3>1. k > b - a
      BY <1>13, <2>3
    <3>2. ~(e \in 0..k-1)
      BY <1>13, <2>1, <2>3
    <3> QED
      BY <2>1, <3>1, <3>2
  <2>4. n \in 0..L /\ Q(n)
    BY <2>1, <2>2
  <2> HIDE DEF n
  <2> QED
    BY <2>3, <2>4
<1> HIDE DEF n
<1>15. ASSUME NEW k \in 1..(b - a + 1) PROVE d[k - 1] = w[a + k - 1]
  <2>1. k - 1 \in 0..L /\ k - 1 <= b - a /\ a + (k - 1) = a + k - 1
    BY <1>1
  <2> QED
    BY <1>12, <2>1
<1>16. d[L] = NULL
  <2>1. L \in 0..L /\ L > b - a
    BY <1>1
  <2> QED
    BY <1>13, <2>1
<1> QED
  BY <1>4, <1>14, <1>15, <1>16

\* The cell at place b is brought forward to place a.
Bring(w, a, b) ==
  [ix \in 1..Size |-> IF ix = a THEN w[b] ELSE IF ix \in a+1..b THEN w[ix - 1] ELSE w[ix]]

\* That is an order again.
LEMMA BringOrder ==
  ASSUME NEW w \in Orders, NEW a \in 1..Size, NEW b \in 1..Size, a <= b
  PROVE  Bring(w, a, b) \in Orders
<1> DEFINE f(ix) == IF ix = a THEN b ELSE IF ix \in a+1..b THEN ix - 1 ELSE ix
           v == Bring(w, a, b)
<1>1. Size \in Nat
  BY SizeFacts
<1>2. \A ix \in 1..Size : f(ix) \in 1..Size
  BY <1>1
<1>3. \A ix, j \in 1..Size : f(ix) = f(j) => ix = j
  BY <1>1
<1>4. \A j \in 1..Size : \E ix \in 1..Size : f(ix) = j
  <2> SUFFICES ASSUME NEW j \in 1..Size PROVE \E ix \in 1..Size : f(ix) = j
    OBVIOUS
  <2>1. CASE j = b
    BY <2>1
  <2>2. CASE j \in a..b-1
    <3>1. j + 1 \in 1..Size /\ f(j + 1) = j
      BY <1>1, <2>2
    <3> QED
      BY <3>1
  <2>3. CASE j # b /\ ~(j \in a..b-1)
    <3>1. f(j) = j
      BY <1>1, <2>3
    <3> QED
      BY <3>1
  <2> QED
    BY <2>1, <2>2, <2>3
<1>5. \A ix \in 1..Size : v[ix] = w[f(ix)]
  BY DEF Bring
<1>6. DOMAIN v = 1..Size /\ v = [ix \in 1..Size |-> v[ix]]
  BY DEF Bring
<1> HIDE DEF f, v
<1>7. v \in [1..Size -> Cells]
  BY <1>2, <1>5, <1>6, OrderFacts
<1>8. ASSUME NEW ix \in 1..Size, NEW j \in 1..Size, v[ix] = v[j] PROVE ix = j
  <2>1. w[f(ix)] = w[f(j)] /\ f(ix) \in 1..Size /\ f(j) \in 1..Size
    BY <1>2, <1>5, <1>8
  <2>2. \A x, y \in 1..Size : w[x] = w[y] => x = y
    BY OrderFacts
  <2>3. f(ix) = f(j)
    BY <2>1, <2>2
  <2> QED
    BY <1>3, <2>3
<1>9. \A c \in Cells : \E ix \in 1..Size : v[ix] = c
  <2> SUFFICES ASSUME NEW c \in Cells PROVE \E ix \in 1..Size : v[ix] = c
    OBVIOUS
  <2>1. PICK j \in 1..Size : w[j] = c
    BY OrderFacts
  <2>2. PICK ix \in 1..Size : f(ix) = j
    BY <1>4
  <2> QED
    BY <1>5, <2>1, <2>2
<1> QED
  BY <1>7, <1>8, <1>9 DEF Orders, v

\* The last place first.
Backward(w) == [ix \in 1..Size |-> w[(Size + 1) - ix]]

\* That is an order, too.
LEMMA BackwardOrder ==
  ASSUME NEW w \in Orders
  PROVE  Backward(w) \in Orders
<1>1. Size \in Nat /\ \A ix \in 1..Size : (Size + 1) - ix \in 1..Size /\ (Size + 1) - ((Size + 1) - ix) = ix
  BY SizeFacts
<1>2. \A ix \in 1..Size : Backward(w)[ix] = w[(Size + 1) - ix]
  BY DEF Backward
<1>3. Backward(w) \in [1..Size -> Cells]
  BY <1>1, OrderFacts DEF Backward
<1>4. ASSUME NEW ix \in 1..Size, NEW j \in 1..Size, Backward(w)[ix] = Backward(w)[j] PROVE ix = j
  <2>1. PICK x \in 1..Size, y \in 1..Size : x = (Size + 1) - ix /\ y = (Size + 1) - j
    BY <1>1
  <2>2. w[x] = w[y]
    BY <1>2, <1>4, <2>1
  <2>3. x = y
    BY <2>2, OrderFacts
  <2> QED
    BY <1>1, <2>1, <2>3
<1>5. ASSUME NEW c \in Cells PROVE \E ix \in 1..Size : Backward(w)[ix] = c
  <2>1. PICK j \in 1..Size : w[j] = c
    BY OrderFacts
  <2>2. Backward(w)[(Size + 1) - j] = c
    BY <1>1, <1>2, <2>1
  <2> QED
    BY <1>1, <2>2
<1> QED
  BY <1>3, <1>4, <1>5 DEF Orders

\* In an order sorted by a key, earlier places have the lower keys.
LEMMA SortedAll ==
  ASSUME NEW w \in Orders, NEW key \in [Cells -> Nat],
         \A ix \in 1..Size-1 : key[w[ix]] <= key[w[ix + 1]],
         NEW ix \in 1..Size, NEW j \in 1..Size, ix <= j
  PROVE  key[w[ix]] <= key[w[j]]
<1>1. Size \in Nat /\ \A k \in 1..Size : key[w[k]] \in Nat
  BY SizeFacts, OrderFacts
<1> DEFINE T == {k \in 0..Size : ix <= k => key[w[ix]] <= key[w[k]]}
<1>2. 0 \in T
  BY <1>1
<1>3. ASSUME NEW k \in 1..Size, k - 1 \in T PROVE k \in T
  <2>1. CASE ix <= k - 1
    <3>1. k - 1 \in 1..Size-1 /\ (k - 1) + 1 = k /\ k - 1 \in 1..Size
      BY <1>1, <2>1
    <3>2. key[w[ix]] <= key[w[k - 1]] /\ key[w[k - 1]] <= key[w[k]]
      BY <1>3, <2>1, <3>1
    <3> QED
      BY <1>1, <3>1, <3>2
  <2>2. CASE ~(ix <= k - 1)
    BY <1>1, <2>2
  <2> QED
    BY <2>1, <2>2
<1> HIDE DEF T
<1>4. \A k \in 0..Size : k \in T
  BY <1>1, <1>2, <1>3, FiniteInduction
<1> QED
  BY <1>4 DEF T

\* Only one order is sorted by a key that every cell has for its own.
LEMMA SortedUnique ==
  ASSUME NEW w \in Orders, NEW v \in Orders, NEW key \in [Cells -> Nat],
         \A c, d \in Cells : key[c] = key[d] => c = d,
         \A ix \in 1..Size-1 : key[w[ix]] <= key[w[ix + 1]],
         \A ix \in 1..Size-1 : key[v[ix]] <= key[v[ix + 1]]
  PROVE  w = v
<1>1. Size \in Nat
  BY SizeFacts
<1>2. \A ix \in 1..Size : w[ix] \in Cells /\ v[ix] \in Cells /\ key[w[ix]] \in Nat /\ key[v[ix]] \in Nat
  BY OrderFacts
<1>3. ASSUME NEW x \in Orders, NEW y \in Orders, NEW k \in 1..Size,
             \A ix \in 1..Size-1 : key[y[ix]] <= key[y[ix + 1]],
             \A ix \in 1..k-1 : x[ix] = y[ix]
      PROVE  key[y[k]] <= key[x[k]]
  <2>1. PICK j \in 1..Size : y[j] = x[k]
    BY OrderFacts
  <2>2. CASE j < k
    <3>1. j \in 1..k-1 /\ x[j] = x[k]
      BY <1>1, <1>3, <2>1, <2>2
    <3>2. j = k
      BY <3>1, OrderFacts
    <3> QED
      BY <2>2, <3>2
  <2>3. CASE ~(j < k)
    <3>1. k <= j
      BY <2>3
    <3>2. key[y[k]] <= key[y[j]]
      BY <1>3, <3>1, SortedAll
    <3> QED
      BY <2>1, <3>2
  <2> QED
    BY <2>2, <2>3
<1> DEFINE T == {k \in 0..Size : \A ix \in 1..k : w[ix] = v[ix]}
<1>4. 0 \in T
  BY <1>1
<1>5. ASSUME NEW k \in 1..Size, k - 1 \in T PROVE k \in T
  <2>1. \A ix \in 1..k-1 : w[ix] = v[ix]
    BY <1>5
  <2>2. key[v[k]] <= key[w[k]]
    BY <1>3, <2>1
  <2>3. key[w[k]] <= key[v[k]]
    BY <1>3, <2>1
  <2>4. key[w[k]] = key[v[k]]
    BY <1>2, <2>2, <2>3
  <2>5. w[k] = v[k]
    BY <1>2, <2>4
  <2> QED
    BY <1>1, <2>1, <2>5
<1> HIDE DEF T
<1>6. \A k \in 0..Size : k \in T
  BY <1>1, <1>4, <1>5, FiniteInduction
<1>7. \A ix \in 1..Size : w[ix] = v[ix]
  BY <1>1, <1>6 DEF T
<1>8. w = [ix \in 1..Size |-> w[ix]] /\ v = [ix \in 1..Size |-> v[ix]]
  BY OrderFacts
<1> QED
  BY <1>7, <1>8

\* Between two neighbouring multiples there is none.
LEMMA NoMultiple ==
  ASSUME NEW z \in Nat, z > 0, NEW a \in Nat, NEW ix \in Nat, a * z < ix, ix < a * z + z
  PROVE  ~Multiple(ix, z)
<1> SUFFICES ASSUME NEW j \in Nat, ix = j * z PROVE FALSE
  BY DEF Multiple
<1>1. CASE j <= a
  <2>1. j * z <= a * z
    BY <1>1
  <2> QED
    BY <2>1
<1>2. CASE j >= a + 1
  <2>1. j * z >= (a + 1) * z
    BY <1>2
  <2>2. (a + 1) * z = a * z + z
    OBVIOUS
  <2> QED
    BY <2>1, <2>2
<1> QED
  BY <1>1, <1>2

\* What a comparison does to the data of two cells.
Compares(cmp, a, b) ==
  \/ /\ cmp = "complex"
     /\ \E r, s \in CalcResults : data16' = [data16 EXCEPT ![a] = Cached(a, r), ![b] = Cached(b, s)]
  \/ cmp = "idx" /\ data16' = [data16 EXCEPT ![a] = Rebuilt(a), ![b] = Rebuilt(b)]

\* The data of two cells are compared: what was in order stays so, and both have
\* now been compared.
LEMMA ComparedMore ==
  ASSUME data16 \in [Cells -> [hi : 0..255, lo : 0..255]], idx' = idx,
         NEW a \in Cells, NEW b \in Cells, a # b, NEW cmp,
         Compares(cmp, a, b)
  PROVE  /\ data16' \in [Cells -> [hi : 0..255, lo : 0..255]]
         /\ \A c \in Cells : data16'[c].hi = data16[c].hi
         /\ \A c, d \in Cells : Fine(cmp, c, d) => Fine(cmp, c, d)'
         /\ Compared(cmp, a)' /\ Compared(cmp, b)'
<1>1. \A c \in Cells : /\ data16[c] \in [hi : 0..255, lo : 0..255] /\ data16[c].hi \in 0..255
                       /\ data16[c].lo \in 0..255
                       /\ data16[c] = [hi |-> data16[c].hi, lo |-> data16[c].lo]
  OBVIOUS
<1> DEFINE Same(c) == data16'[c] = data16[c]
           New(c) == /\ data16'[c] \in [hi : 0..255, lo : 0..255] /\ data16'[c].hi = data16[c].hi
                     /\ Compared(cmp, c)'
                     /\ Compared(cmp, c) => data16'[c] = data16[c]
<1>2. data16' = [c \in Cells |-> data16'[c]] /\ (\A c \in Cells \ {a, b} : Same(c)) /\ New(a) /\ New(b)
  <2>1. CASE cmp = "complex" /\ \E r, s \in CalcResults :
                 data16' = [data16 EXCEPT ![a] = Cached(a, r), ![b] = Cached(b, s)]
    <3>1. PICK r \in CalcResults, s \in CalcResults :
                 data16' = [data16 EXCEPT ![a] = Cached(a, r), ![b] = Cached(b, s)]
      BY <2>1
    <3>2. data16'[a] = Cached(a, r) /\ data16'[b] = Cached(b, s) /\ \A c \in Cells \ {a, b} : Same(c)
      BY <3>1
    <3>3. ASSUME NEW c \in Cells, NEW t \in CalcResults, data16'[c] = Cached(c, t) PROVE New(c)
      <4>1. t \in 0..127
        BY ListAssumption
      <4>2. Calculated(c, t) \in 0..127
        BY <1>1, <4>1 DEF Calculated
      <4>3. data16'[c] = [hi |-> data16[c].hi, lo |-> 128 + Calculated(c, t)]
        BY <1>1, <3>3 DEF Cached
      <4>4. data16[c].lo >= 128 => 128 + Calculated(c, t) = data16[c].lo
        <5> SUFFICES ASSUME data16[c].lo >= 128 PROVE 128 + Calculated(c, t) = data16[c].lo
          OBVIOUS
        <5>1. Calculated(c, t) = data16[c].lo - 128
          BY DEF Calculated
        <5>2. data16[c].lo \in 0..255
          BY <1>1
        <5> QED
          BY <5>1, <5>2
      <4>5. 128 + Calculated(c, t) \in 0..255 /\ 128 + Calculated(c, t) >= 128
        BY <4>2
      <4>6. PICK u \in 0..255 : u = 128 + Calculated(c, t) /\ u >= 128
        BY <4>5
      <4>7. data16'[c] = [hi |-> data16[c].hi, lo |-> u] /\ (data16[c].lo >= 128 => u = data16[c].lo)
        BY <4>3, <4>4, <4>6
      <4>8. data16'[c].hi = data16[c].hi /\ data16'[c].lo = u
        BY <4>7
      <4>9. data16'[c] \in [hi : 0..255, lo : 0..255]
        BY <1>1, <4>6, <4>7
      <4>10. cmp # "idx"
        BY <2>1
      <4>11. Compared(cmp, c)'
        BY <4>6, <4>8, <4>10 DEF Compared
      <4>12. Compared(cmp, c) => data16'[c] = data16[c]
        <5>1. Compared(cmp, c) => u = data16[c].lo
          BY <4>7, <4>10 DEF Compared
        <5> QED
          BY <1>1, <4>7, <5>1
      <4> QED
        BY <4>8, <4>9, <4>11, <4>12
    <3>4. data16' = [c \in Cells |-> data16'[c]]
      BY <3>1
    <3> HIDE DEF Same, New
    <3> QED
      BY <3>2, <3>3, <3>4
  <2>2. CASE cmp = "idx" /\ data16' = [data16 EXCEPT ![a] = Rebuilt(a), ![b] = Rebuilt(b)]
    <3>1. data16'[a] = Rebuilt(a) /\ data16'[b] = Rebuilt(b) /\ \A c \in Cells \ {a, b} : Same(c)
      BY <2>2
    <3>2. ASSUME NEW c \in Cells, data16'[c] = Rebuilt(c) PROVE New(c)
      <4>1. data16'[c] = [hi |-> data16[c].hi, lo |-> data16[c].hi]
        BY <1>1, <3>2 DEF Rebuilt
      <4> QED
        BY <1>1, <2>2, <4>1 DEF Compared
    <3>3. data16' = [c \in Cells |-> data16'[c]]
      BY <2>2
    <3> HIDE DEF Same, New
    <3> QED
      BY <3>1, <3>2, <3>3
  <2> QED
    BY <2>1, <2>2 DEF Compares
<1>3. ASSUME NEW c \in Cells
      PROVE  /\ data16'[c] \in [hi : 0..255, lo : 0..255] /\ data16'[c].hi = data16[c].hi
             /\ Compared(cmp, c) => data16'[c] = data16[c]
  BY <1>1, <1>2
<1>4. data16' \in [Cells -> [hi : 0..255, lo : 0..255]]
  BY <1>2, <1>3
<1>5. ASSUME NEW c \in Cells, NEW d \in Cells, Fine(cmp, c, d) PROVE Fine(cmp, c, d)'
  <2>1. data16'[c] = data16[c] /\ data16'[d] = data16[d]
    BY <1>3, <1>5 DEF Fine
  <2> QED
    BY <1>5, <2>1 DEF Fine, Compared, Key
<1> QED
  BY <1>2, <1>3, <1>4, <1>5

(***************************************************************************)
(* The steps of core_list_mergesort.                                       *)
(***************************************************************************)
\* Only the link of the last merged cell changes when a cell is taken.
LEMMA LinkTail ==
  ASSUME NEW w \in Orders, NEW m \in 0..Size, NEW x \in Cells, NEW t,
         NEW nx \in [Cells -> Cells \union {NULL}], t = IF m = 0 THEN NULL ELSE w[m]
  PROVE  LET ny == IF t = NULL THEN nx ELSE [nx EXCEPT ![t] = x]
         IN  /\ ny \in [Cells -> Cells \union {NULL}]
             /\ \A ix \in 1..Size : ix # m => ny[w[ix]] = nx[w[ix]]
             /\ m > 0 => ny[w[m]] = x
<1>1. Size \in Nat /\ \A ix \in 1..Size : w[ix] \in Cells /\ w[ix] # NULL
  BY SizeFacts, OrderFacts
<1>2. \A ix, j \in 1..Size : w[ix] = w[j] => ix = j
  BY OrderFacts
<1> DEFINE ny == IF t = NULL THEN nx ELSE [nx EXCEPT ![t] = x]
<1>3. CASE m = 0
  BY <1>1, <1>3
<1>4. CASE m # 0
  <2>1. m \in 1..Size /\ t = w[m] /\ t # NULL /\ t \in Cells
    BY <1>1, <1>4
  <2>2. ny = [nx EXCEPT ![t] = x]
    BY <2>1
  <2>3. \A ix \in 1..Size : ix # m => w[ix] # t
    BY <1>2, <2>1
  <2>4. /\ ny \in [Cells -> Cells \union {NULL}] /\ ny[t] = x
        /\ \A ix \in 1..Size : ix # m => ny[w[ix]] = nx[w[ix]]
    BY <1>1, <2>1, <2>2, <2>3
  <2> QED
    BY <2>1, <2>4
<1> QED
  BY <1>3, <1>4

\* A merge begins: the next insize cells are the first run.
LEMMA StartMergeAt ==
  ASSUME NEW w \in Orders, NEW m \in 0..Size, SortCalled, MergeAt(w, m), StartMerge
  PROVE  SortCalled' /\ \E e \in 0..Size : TakeAt(w, m, m, e)'
<1> DEFINE z == ms.insize
           run == From(ms.p)
           n == IF Len(run) < z THEN Len(run) ELSE z
<1>1. Size \in Nat /\ z \in Nat /\ z > 0 /\ ms.nmerges \in Nat
  BY SizeFacts DEF SortCalled
<1>2. m < Size /\ ms.p = w[m + 1] /\ next[w[Size]] = NULL /\ m + 1 \in 1..Size /\ Size \in 1..Size
  BY <1>1 DEF StartMerge, MergeAt
<1>3. run = [k \in 1..(Size - (m + 1) + 1) |-> w[(m + 1) + k - 1]]
  <2>1. Run(next, w, m + 1, Size) /\ m + 1 <= Size
    BY <1>1, <1>2 DEF MergeAt
  <2> QED
    BY <1>2, <2>1, FromIs
<1>4. Len(run) = Size - m /\ \A k \in 1..(Size - m) : run[k] = w[m + k]
  <2>1. Size - (m + 1) + 1 = Size - m /\ Size - m \in Nat /\ \A k \in 1..(Size - m) : (m + 1) + k - 1 = m + k
    BY <1>1, <1>2
  <2>2. run = [k \in 1..(Size - m) |-> w[m + k]]
    BY <1>3, <2>1
  <2>3. Len(run) = Size - m
    BY <2>1, <2>2
  <2> HIDE DEF run
  <2> QED
    BY <2>2, <2>3
<1>5. /\ ms' = [ms EXCEPT !.nmerges = ms.nmerges + 1, !.psize = n, !.qsize = z,
                          !.q = IF n < Len(run) THEN run[n + 1] ELSE NULL]
      /\ UNCHANGED <<list, next, idx, data16>>
  BY DEF StartMerge
<1> HIDE DEF run, z
<1>6. n \in Nat /\ n > 0 /\ n <= z /\ n <= Size - m /\ (n = z \/ n = Size - m)
  BY <1>1, <1>2, <1>4
<1>7. PICK e \in 0..Size : e \in m..Size /\ n = e - m /\ (n < Len(run) <=> e < Size)
  <2>1. m + n \in 0..Size /\ m + n \in m..Size /\ n = (m + n) - m /\ (n < Len(run) <=> m + n < Size)
    BY <1>1, <1>2, <1>4, <1>6
  <2> QED
    BY <2>1
<1>8. n < Len(run) => run[n + 1] = w[e + 1]
  <2>1. n < Len(run) => n + 1 \in 1..(Size - m) /\ m + (n + 1) = e + 1
    BY <1>1, <1>2, <1>4, <1>6, <1>7
  <2> QED
    BY <1>4, <2>1
<1> HIDE DEF n
<1>9. /\ ms'.nmerges = ms.nmerges + 1 /\ ms'.psize = e - m /\ ms'.qsize = z
      /\ ms'.q = (IF e = Size THEN NULL ELSE w[e + 1])
      /\ ms'.p = ms.p /\ ms'.tail = ms.tail /\ ms'.insize = z /\ ms'.cmp = ms.cmp /\ ms'.ret = ms.ret
      /\ DOMAIN ms' = DOMAIN ms
  <2>1. e < Size <=> e # Size
    BY <1>1, <1>7
  <2>2. (IF n < Len(run) THEN run[n + 1] ELSE NULL) = IF e = Size THEN NULL ELSE w[e + 1]
    BY <1>7, <1>8, <2>1
  <2> QED
    BY <1>5, <1>7, <2>2 DEF SortCalled, z
<1>10. SortCalled'
  BY <1>1, <1>9 DEF SortCalled, z
<1>11. \A c, d : Fine(ms.cmp, c, d)' = Fine(ms.cmp, c, d)
  BY <1>5, <1>9 DEF Fine, Compared, Key
<1>12. Merged(w, m)'
  BY <1>5, <1>9, <1>11 DEF MergeAt, Merged, InRuns, z
<1>13. m = ms.nmerges * (2 * z)
  BY <1>2 DEF MergeAt, z
<1>14. m = (2 * ms.nmerges) * z /\ 2 * ms.nmerges \in Nat
  BY <1>1, <1>13
<1>15. ASSUME NEW ix \in m+1..Size-1 PROVE Fine(ms.cmp, w[ix], w[ix + 1])' \/ Multiple(ix, z)
  BY <1>11 DEF MergeAt, InRuns, z
<1>16. ASSUME NEW ix \in m+1..e-1 PROVE Fine(ms.cmp, w[ix], w[ix + 1])'
  <2>1. ix \in m+1..Size-1 /\ ix \in Nat /\ m < ix /\ ix < m + z
    BY <1>1, <1>6, <1>7
  <2>2. ~Multiple(ix, z)
    BY <1>1, <1>14, <2>1, NoMultiple
  <2> QED
    BY <1>15, <2>1, <2>2
<1>17. InRuns(w, e + 1, Size, ms.insize)'
  <2>1. \A ix \in e+1..Size-1 : ix \in m+1..Size-1
    BY <1>1, <1>7
  <2> QED
    BY <1>9, <1>15, <2>1 DEF InRuns
<1>18. Run(next, w, m + 1, e)' /\ Run(next, w, e + 1, Size)'
  <2>1. \A ix \in m+1..e-1 : ix \in m+1..Size-1
    BY <1>1, <1>7
  <2>2. \A ix \in e+1..Size-1 : ix \in m+1..Size-1
    BY <1>1, <1>7
  <2> QED
    BY <1>5, <2>1, <2>2 DEF MergeAt, Run
<1>19. /\ ms'.nmerges > 0 /\ m \in 0..m /\ m = (ms'.nmerges - 1) * (2 * ms'.insize)
       /\ ms'.qsize \in 0..ms'.insize
       /\ e + ms'.qsize <= m + 2 * ms'.insize
       /\ e + ms'.qsize = m + 2 * ms'.insize \/ e = Size
  <2>1. ms'.nmerges > 0 /\ m \in 0..m /\ ms'.nmerges - 1 = ms.nmerges
    BY <1>1, <1>9
  <2>2. e + z <= m + 2 * z /\ (e + z = m + 2 * z \/ e = Size) /\ z \in 0..z
    BY <1>1, <1>6, <1>7
  <2> QED
    BY <1>9, <1>13, <2>1, <2>2
<1>20. ~(m > m)
  OBVIOUS
<1>21. TakeAt(w, m, m, e)'
  BY <1>2, <1>5, <1>7, <1>9, <1>12, <1>16, <1>17, <1>18, <1>19, <1>20 DEF TakeAt
<1> QED
  BY <1>7, <1>10, <1>21

\* What the comparison of two cells may not disturb, for the steps that take one.
Keeps == idx' = idx /\ \A c, d \in Cells : Fine(ms.cmp, c, d) => Fine(ms.cmp, c, d)'

\* A cell of the first run is taken: the merged part is one longer, the first run one
\* shorter.
LEMMA TakeFirst ==
  ASSUME NEW w \in Orders, NEW m \in 0..Size, NEW s \in 0..Size, NEW e \in 0..Size,
         SortCalled, TakeAt(w, m, s, e), ms.psize > 0, next \in [Cells -> Cells \union {NULL}],
         NEW d16, TakeCell(ms.p, "p", d16), ms'.cmp = ms.cmp, Keeps,
         e < Size /\ ms.qsize > 0 => Fine(ms.cmp, w[m + 1], w[e + 1])'
  PROVE  SortCalled' /\ TakeAt(w, m + 1, s, e)' /\ next' \in [Cells -> Cells \union {NULL}]
<1>1. /\ Size \in Nat /\ ms.insize \in Nat /\ ms.insize > 0 /\ ms.nmerges \in Nat
      /\ \A ix \in 1..Size : w[ix] \in Cells /\ w[ix] # NULL
  <2>1. ms.insize \in Nat /\ ms.insize > 0 /\ ms.nmerges \in Nat
    BY DEF SortCalled
  <2>2. \A ix \in 1..Size : w[ix] \in Cells /\ w[ix] # NULL
    BY OrderFacts
  <2> QED
    BY <2>1, <2>2, SizeFacts
<1>2. m < e /\ e <= Size /\ m + 1 \in 1..Size /\ m + 1 \in 0..Size /\ ms.p = w[m + 1] /\ ms.psize = e - m
  BY <1>1 DEF TakeAt
<1>3. ms.tail = (IF m = 0 THEN NULL ELSE w[m]) /\ list = IF m = 0 THEN NULL ELSE w[1]
  BY DEF TakeAt, Merged
<1>4. /\ next' = (IF ms.tail = NULL THEN next ELSE [next EXCEPT ![ms.tail] = ms.p])
      /\ list' = (IF ms.tail = NULL THEN ms.p ELSE list)
      /\ ms' = [ms EXCEPT !.tail = ms.p, !.p = next[ms.p], !.psize = ms.psize - 1]
  BY DEF TakeCell
<1>5. /\ next' \in [Cells -> Cells \union {NULL}]
      /\ \A ix \in 1..Size : ix # m => next'[w[ix]] = next[w[ix]]
      /\ m > 0 => next'[w[m]] = w[m + 1]
  <2>1. w[m + 1] \in Cells
    BY <1>1, <1>2
  <2> QED
    BY <1>2, <1>3, <1>4, <2>1, LinkTail
<1>6. /\ ms'.tail = w[m + 1] /\ ms'.p = next[w[m + 1]] /\ ms'.psize = e - (m + 1)
      /\ ms'.q = ms.q /\ ms'.qsize = ms.qsize /\ ms'.insize = ms.insize /\ ms'.nmerges = ms.nmerges
      /\ ms'.ret = ms.ret /\ DOMAIN ms' = DOMAIN ms
  <2>1. (e - m) - 1 = e - (m + 1)
    BY <1>1, <1>2
  <2> QED
    BY <1>2, <1>4, <2>1 DEF SortCalled
<1>7. SortCalled'
  BY <1>6 DEF SortCalled
<1>8. list' = w[1]
  <2>1. CASE m = 0
    BY <1>2, <1>3, <1>4, <2>1
  <2>2. CASE m # 0
    BY <1>1, <1>2, <1>3, <1>4, <2>2
  <2> QED
    BY <2>1, <2>2
<1>9. Run(next, w, 1, m + 1)'
  <2>1. ASSUME NEW ix \in 1..(m + 1) - 1 PROVE next'[w[ix]] = w[ix + 1]
    <3>1. CASE ix = m
      BY <1>2, <1>5, <3>1
    <3>2. CASE ix # m
      <4>1. ix \in 1..m-1 /\ ix \in 1..Size
        BY <1>1, <1>2, <3>2
      <4> QED
        BY <1>5, <3>2, <4>1 DEF TakeAt, Merged, Run
    <3> QED
      BY <3>1, <3>2
  <2> QED
    BY <2>1 DEF Run
<1>10. Run(next, w, (m + 1) + 1, e)' /\ Run(next, w, e + 1, Size)'
  <2>1. ASSUME NEW ix \in (m + 1)+1..e-1 PROVE next'[w[ix]] = w[ix + 1]
    <3>1. ix \in m+1..e-1 /\ ix \in 1..Size /\ ix # m
      BY <1>1, <1>2
    <3> QED
      BY <1>5, <3>1 DEF TakeAt, Run
  <2>2. ASSUME NEW ix \in e+1..Size-1 PROVE next'[w[ix]] = w[ix + 1]
    <3>1. ix \in 1..Size /\ ix # m
      BY <1>1, <1>2
    <3> QED
      BY <1>5, <3>1 DEF TakeAt, Run
  <2> QED
    BY <2>1, <2>2 DEF Run
<1>11. e < Size => next'[w[Size]] = NULL
  <2>1. Size \in 1..Size /\ (e < Size => Size # m)
    BY <1>1, <1>2
  <2> QED
    BY <1>5, <2>1 DEF TakeAt
<1>12. m + 1 < e => ms'.p = w[(m + 1) + 1]
  <2>1. m + 1 < e => m + 1 \in m+1..e-1
    BY <1>1, <1>2
  <2> QED
    BY <1>6, <2>1 DEF TakeAt, Run
<1>13. \A ix \in 1..Size-1 : Fine(ms.cmp, w[ix], w[ix + 1]) => Fine(ms.cmp, w[ix], w[ix + 1])'
  <2>1. \A ix \in 1..Size-1 : w[ix] \in Cells /\ w[ix + 1] \in Cells
    BY <1>1
  <2> QED
    BY <2>1 DEF Keeps
<1>14. InRuns(w, 1, m + 1, 2 * ms.insize)'
  <2>1. ASSUME NEW ix \in 1..(m + 1) - 1
        PROVE  Fine(ms.cmp, w[ix], w[ix + 1])' \/ Multiple(ix, 2 * ms.insize)
    <3>0. ix \in 1..Size-1
      BY <1>1, <1>2
    <3>1. CASE ix # m
      <4>1. ix \in 1..m-1
        BY <1>1, <1>2, <3>1
      <4> QED
        BY <1>13, <3>0, <4>1 DEF TakeAt, Merged, InRuns
    <3>2. CASE ix = m /\ m > s
      BY <1>2, <1>13, <3>0, <3>2 DEF TakeAt
    <3>3. CASE ix = m /\ ~(m > s)
      <4>1. m = (ms.nmerges - 1) * (2 * ms.insize) /\ ms.nmerges - 1 \in Nat
        BY <1>1, <3>3 DEF TakeAt
      <4> QED
        BY <3>3, <4>1 DEF Multiple
    <3> QED
      BY <3>1, <3>2, <3>3
  <2> QED
    BY <1>6, <2>1 DEF InRuns
<1>15. \A ix \in (m + 1)+1..e-1 : Fine(ms.cmp, w[ix], w[ix + 1])'
  <2>1. \A ix \in (m + 1)+1..e-1 : ix \in m+1..e-1 /\ ix \in 1..Size-1
    BY <1>1, <1>2
  <2> QED
    BY <1>13, <2>1 DEF TakeAt
<1>16. InRuns(w, e + 1, Size, ms.insize)'
  <2>1. \A ix \in e+1..Size-1 : ix \in 1..Size-1
    BY <1>1
  <2> QED
    BY <1>6, <1>13, <2>1 DEF TakeAt, InRuns
<1>17. m + 1 < e => Fine(ms.cmp, w[m + 1], w[(m + 1) + 1])'
  <2>1. m + 1 < e => m + 1 \in m+1..e-1 /\ m + 1 \in 1..Size-1
    BY <1>1, <1>2
  <2> QED
    BY <1>13, <2>1 DEF TakeAt
<1>18. e < Size /\ ms'.qsize > 0 => Fine(ms.cmp, w[m + 1], w[e + 1])'
  BY <1>6
<1>19. /\ s \in 0..(m + 1) /\ e \in (m + 1)..Size /\ m + 1 # 0
       /\ ms.nmerges > 0 /\ s = (ms.nmerges - 1) * (2 * ms.insize)
       /\ ms.qsize \in 0..ms.insize /\ e + ms.qsize <= s + 2 * ms.insize
       /\ (e + ms.qsize = s + 2 * ms.insize \/ e = Size)
       /\ ms.q = IF e = Size THEN NULL ELSE w[e + 1]
  <2>1. s \in 0..m
    BY DEF TakeAt
  <2>2. s \in 0..(m + 1) /\ e \in (m + 1)..Size /\ m + 1 # 0
    BY <1>1, <1>2, <2>1
  <2> QED
    BY <2>2 DEF TakeAt
<1>20. Merged(w, m + 1)'
  BY <1>6, <1>8, <1>9, <1>14, <1>19 DEF Merged
<1>21. TakeAt(w, m + 1, s, e)'
  BY <1>2, <1>6, <1>10, <1>11, <1>12, <1>15, <1>16, <1>17, <1>18, <1>19, <1>20 DEF TakeAt
<1> QED
  BY <1>5, <1>7, <1>21

\* A cell of the second run is taken: it is brought forward to the end of the merged
\* part.
LEMMA TakeSecond ==
  ASSUME NEW w \in Orders, NEW m \in 0..Size, NEW s \in 0..Size, NEW e \in 0..Size,
         SortCalled, TakeAt(w, m, s, e), HasQ, next \in [Cells -> Cells \union {NULL}],
         NEW d16, TakeCell(ms.q, "q", d16), ms'.cmp = ms.cmp, Keeps,
         m < e => Fine(ms.cmp, w[e + 1], w[m + 1])'
  PROVE  /\ SortCalled' /\ next' \in [Cells -> Cells \union {NULL}]
         /\ e + 1 \in 0..Size /\ m + 1 \in 0..Size
         /\ \E v \in Orders : TakeAt(v, m + 1, s, e + 1)'
<1>1. /\ Size \in Nat /\ ms.insize \in Nat /\ ms.insize > 0 /\ ms.nmerges \in Nat
      /\ \A ix \in 1..Size : w[ix] \in Cells /\ w[ix] # NULL
  <2>1. ms.insize \in Nat /\ ms.insize > 0 /\ ms.nmerges \in Nat
    BY DEF SortCalled
  <2>2. \A ix \in 1..Size : w[ix] \in Cells /\ w[ix] # NULL
    BY OrderFacts
  <2> QED
    BY <2>1, <2>2, SizeFacts
<1>2. /\ m <= e /\ e < Size /\ m + 1 \in 1..Size /\ e + 1 \in 1..Size /\ m + 1 <= e + 1
      /\ e + 1 \in 0..Size /\ m + 1 \in 0..Size
      /\ ms.q = w[e + 1] /\ ms.psize = e - m /\ ms.qsize > 0 /\ ms.qsize \in Nat
  BY <1>1 DEF TakeAt, HasQ
<1>3. ms.tail = (IF m = 0 THEN NULL ELSE w[m]) /\ list = IF m = 0 THEN NULL ELSE w[1]
  BY DEF TakeAt, Merged
<1>4. /\ next' = (IF ms.tail = NULL THEN next ELSE [next EXCEPT ![ms.tail] = ms.q])
      /\ list' = (IF ms.tail = NULL THEN ms.q ELSE list)
      /\ ms' = [ms EXCEPT !.tail = ms.q, !.q = next[ms.q], !.qsize = ms.qsize - 1]
  BY DEF TakeCell
<1>5. /\ next' \in [Cells -> Cells \union {NULL}]
      /\ \A ix \in 1..Size : ix # m => next'[w[ix]] = next[w[ix]]
      /\ m > 0 => next'[w[m]] = w[e + 1]
  <2>1. w[e + 1] \in Cells
    BY <1>1, <1>2
  <2> QED
    BY <1>2, <1>3, <1>4, <2>1, LinkTail
<1>6. /\ ms'.tail = w[e + 1] /\ ms'.q = next[w[e + 1]] /\ ms'.psize = (e + 1) - (m + 1)
      /\ ms'.p = ms.p /\ ms'.qsize = ms.qsize - 1 /\ ms'.insize = ms.insize /\ ms'.nmerges = ms.nmerges
      /\ ms'.ret = ms.ret /\ DOMAIN ms' = DOMAIN ms
  <2>1. e - m = (e + 1) - (m + 1)
    BY <1>1, <1>2
  <2> QED
    BY <1>2, <1>4, <2>1 DEF SortCalled
<1>7. SortCalled'
  BY <1>6 DEF SortCalled
<1>8. PICK v \in Orders : v = Bring(w, m + 1, e + 1)
  BY <1>2, BringOrder
<1>9. /\ \A ix \in 1..m : v[ix] = w[ix]
      /\ v[m + 1] = w[e + 1]
      /\ \A ix \in m+1..e : v[ix + 1] = w[ix]
      /\ \A ix \in (e + 1)+1..Size : v[ix] = w[ix]
  <2>1. \A ix \in 1..Size : v[ix] = IF ix = m + 1 THEN w[e + 1]
                                  ELSE IF ix \in (m + 1)+1..e + 1 THEN w[ix - 1] ELSE w[ix]
    BY <1>8 DEF Bring
  <2>2. \A ix \in 1..m : ix \in 1..Size /\ ix # m + 1 /\ ~(ix \in (m + 1)+1..e + 1)
    BY <1>1, <1>2
  <2>3. \A ix \in m+1..e : /\ ix + 1 \in 1..Size /\ ix + 1 # m + 1
                           /\ ix + 1 \in (m + 1)+1..e + 1 /\ (ix + 1) - 1 = ix
    BY <1>1, <1>2
  <2>4. \A ix \in (e + 1)+1..Size : ix \in 1..Size /\ ix # m + 1 /\ ~(ix \in (m + 1)+1..e + 1)
    BY <1>1, <1>2
  <2> QED
    BY <1>2, <2>1, <2>2, <2>3, <2>4
<1>10. list' = v[1]
  <2>1. CASE m = 0
    BY <1>2, <1>3, <1>4, <1>9, <2>1
  <2>2. CASE m # 0
    <3>1. 1 \in 1..m /\ 1 \in 1..Size /\ m \in 1..Size
      BY <1>1, <1>2, <2>2
    <3> QED
      BY <1>1, <1>3, <1>4, <1>9, <2>2, <3>1
  <2> QED
    BY <2>1, <2>2
<1>11. Run(next, v, 1, m + 1)'
  <2>1. ASSUME NEW ix \in 1..(m + 1) - 1 PROVE next'[v[ix]] = v[ix + 1]
    <3>1. CASE ix = m
      <4>1. m \in 1..m /\ m > 0
        BY <1>1, <3>1
      <4> QED
        BY <1>5, <1>9, <3>1, <4>1
    <3>2. CASE ix # m
      <4>1. ix \in 1..m-1 /\ ix \in 1..Size /\ ix \in 1..m /\ ix + 1 \in 1..m
        BY <1>1, <1>2, <3>2
      <4>2. next[w[ix]] = w[ix + 1]
        BY <4>1 DEF TakeAt, Merged, Run
      <4> QED
        BY <1>5, <1>9, <3>2, <4>1, <4>2
    <3> QED
      BY <3>1, <3>2
  <2> QED
    BY <2>1 DEF Run
<1>12. Run(next, v, (m + 1) + 1, e + 1)' /\ Run(next, v, (e + 1) + 1, Size)'
  <2>1. ASSUME NEW ix \in (m + 1)+1..(e + 1)-1 PROVE next'[v[ix]] = v[ix + 1]
    <3>1. PICK j \in m+1..e-1 : ix = j + 1
      <4>1. ix - 1 \in m+1..e-1 /\ ix = (ix - 1) + 1
        BY <1>1, <1>2
      <4> QED
        BY <4>1
    <3>2. j \in m+1..e /\ ix \in m+1..e /\ j \in 1..Size /\ j # m
      BY <1>1, <1>2, <3>1
    <3>3. next[w[j]] = w[j + 1] /\ v[ix] = w[j] /\ v[ix + 1] = w[ix]
      BY <1>9, <3>1, <3>2 DEF TakeAt, Run
    <3> QED
      BY <1>5, <3>1, <3>2, <3>3
  <2>2. ASSUME NEW ix \in (e + 1)+1..Size-1 PROVE next'[v[ix]] = v[ix + 1]
    <3>1. /\ ix \in 1..Size /\ ix # m /\ ix \in e+1..Size-1
          /\ ix \in (e + 1)+1..Size /\ ix + 1 \in (e + 1)+1..Size
      BY <1>1, <1>2
    <3>2. next[w[ix]] = w[ix + 1]
      BY <3>1 DEF TakeAt, Run
    <3> QED
      BY <1>5, <1>9, <3>1, <3>2
  <2> QED
    BY <2>1, <2>2 DEF Run
<1>13. e + 1 < Size => next'[v[Size]] = NULL
  <2>1. e + 1 < Size => Size \in 1..Size /\ Size # m /\ Size \in (e + 1)+1..Size
    BY <1>1, <1>2
  <2>2. next[w[Size]] = NULL
    BY <1>2 DEF TakeAt
  <2> QED
    BY <1>5, <1>9, <2>1, <2>2
<1>14. m + 1 < e + 1 => ms'.p = v[(m + 1) + 1]
  <2>1. m + 1 < e + 1 => m + 1 \in m+1..e /\ m < e
    BY <1>1, <1>2
  <2> QED
    BY <1>6, <1>9, <2>1 DEF TakeAt
<1>15. ms'.q = IF e + 1 = Size THEN NULL ELSE v[(e + 1) + 1]
  <2>1. CASE e + 1 = Size
    <3>1. next[w[Size]] = NULL
      BY <1>2 DEF TakeAt
    <3> QED
      BY <1>6, <2>1, <3>1
  <2>2. CASE e + 1 # Size
    <3>1. e + 1 \in e+1..Size-1 /\ (e + 1) + 1 \in (e + 1)+1..Size
      BY <1>1, <1>2, <2>2
    <3>2. next[w[e + 1]] = w[(e + 1) + 1]
      BY <3>1 DEF TakeAt, Run
    <3> QED
      BY <1>6, <1>9, <2>2, <3>1, <3>2
  <2> QED
    BY <2>1, <2>2
<1>16. \A ix, j \in 1..Size : Fine(ms.cmp, w[ix], w[j]) => Fine(ms.cmp, w[ix], w[j])'
  BY <1>1 DEF Keeps
<1>17. InRuns(v, 1, m + 1, 2 * ms.insize)'
  <2>1. ASSUME NEW ix \in 1..(m + 1) - 1
        PROVE  Fine(ms.cmp, v[ix], v[ix + 1])' \/ Multiple(ix, 2 * ms.insize)
    <3>1. CASE ix # m
      <4>1. ix \in 1..m-1 /\ ix \in 1..m /\ ix + 1 \in 1..m /\ ix \in 1..Size /\ ix + 1 \in 1..Size
        BY <1>1, <1>2, <3>1
      <4>2. v[ix] = w[ix] /\ v[ix + 1] = w[ix + 1]
        BY <1>9, <4>1
      <4>3. Fine(ms.cmp, w[ix], w[ix + 1]) \/ Multiple(ix, 2 * ms.insize)
        BY <4>1 DEF TakeAt, Merged, InRuns
      <4>4. Fine(ms.cmp, w[ix], w[ix + 1])' \/ Multiple(ix, 2 * ms.insize)
        BY <1>16, <4>1, <4>3
      <4> QED
        BY <4>2, <4>4
    <3>2. CASE ix = m /\ m > s
      <4>1. m \in 1..Size /\ m \in 1..m
        BY <1>1, <1>2, <3>2
      <4>2. Fine(ms.cmp, w[m], w[e + 1])
        BY <1>2, <3>2 DEF TakeAt
      <4>3. Fine(ms.cmp, w[m], w[e + 1])'
        BY <1>2, <1>16, <4>1, <4>2
      <4>4. v[ix] = w[m] /\ v[ix + 1] = w[e + 1]
        BY <1>9, <3>2, <4>1
      <4> QED
        BY <4>3, <4>4
    <3>3. CASE ix = m /\ ~(m > s)
      <4>1. m = (ms.nmerges - 1) * (2 * ms.insize) /\ ms.nmerges - 1 \in Nat
        BY <1>1, <3>3 DEF TakeAt
      <4> QED
        BY <3>3, <4>1 DEF Multiple
    <3> QED
      BY <3>1, <3>2, <3>3
  <2> QED
    BY <1>6, <2>1 DEF InRuns
<1>18. ASSUME NEW ix \in (m + 1)+1..(e + 1)-1 PROVE Fine(ms.cmp, v[ix], v[ix + 1])'
  <2>1. PICK j \in m+1..e-1 : ix = j + 1
    <3>1. ix - 1 \in m+1..e-1 /\ ix = (ix - 1) + 1
      BY <1>1, <1>2
    <3> QED
      BY <3>1
  <2>2. j \in m+1..e /\ ix \in m+1..e /\ j \in 1..Size /\ j + 1 \in 1..Size
    BY <1>1, <1>2, <2>1
  <2>3. v[ix] = w[j] /\ v[ix + 1] = w[j + 1]
    BY <1>9, <2>1, <2>2
  <2>4. Fine(ms.cmp, w[j], w[j + 1])
    BY <2>1 DEF TakeAt
  <2>5. Fine(ms.cmp, w[j], w[j + 1])'
    BY <1>16, <2>2, <2>4
  <2> QED
    BY <2>3, <2>5
<1>19. InRuns(v, (e + 1) + 1, Size, ms.insize)'
  <2>1. ASSUME NEW ix \in (e + 1)+1..Size-1
        PROVE  Fine(ms.cmp, v[ix], v[ix + 1])' \/ Multiple(ix, ms.insize)
    <3>1. ix \in 1..Size /\ ix + 1 \in 1..Size /\ ix \in e+1..Size-1 /\ ix \in (e + 1)+1..Size
          /\ ix + 1 \in (e + 1)+1..Size
      BY <1>1, <1>2
    <3>2. Fine(ms.cmp, w[ix], w[ix + 1]) \/ Multiple(ix, ms.insize)
      BY <3>1 DEF TakeAt, InRuns
    <3>3. Fine(ms.cmp, w[ix], w[ix + 1])' \/ Multiple(ix, ms.insize)
      BY <1>16, <3>1, <3>2
    <3>4. v[ix] = w[ix] /\ v[ix + 1] = w[ix + 1]
      BY <1>9, <3>1
    <3> QED
      BY <3>3, <3>4
  <2> QED
    BY <1>6, <2>1 DEF InRuns
<1>20. m + 1 < e + 1 => Fine(ms.cmp, v[m + 1], v[(m + 1) + 1])'
  <2>1. m + 1 < e + 1 => m + 1 \in m+1..e /\ m < e
    BY <1>1, <1>2
  <2>2. m + 1 < e + 1 => v[m + 1] = w[e + 1] /\ v[(m + 1) + 1] = w[m + 1]
    BY <1>9, <2>1
  <2> QED
    BY <2>1, <2>2
<1>21. e + 1 < Size /\ ms'.qsize > 0 => Fine(ms.cmp, v[m + 1], v[(e + 1) + 1])'
  <2> SUFFICES ASSUME e + 1 < Size, ms'.qsize > 0 PROVE Fine(ms.cmp, v[m + 1], v[(e + 1) + 1])'
    OBVIOUS
  <2>1. e + 1 \in e+1..Size-1 /\ (e + 1) + 1 \in (e + 1)+1..Size /\ (e + 1) + 1 \in 1..Size
    BY <1>1, <1>2
  <2>2. PICK g \in Nat, z \in Nat : g = ms.nmerges - 1 /\ z = ms.insize
    <3>1. ms.nmerges > 0
      BY DEF TakeAt
    <3>2. ms.nmerges - 1 \in Nat
      BY <1>1, <3>1
    <3> QED
      BY <1>1, <3>2
  <2>3. s = g * (2 * z) /\ e + ms.qsize = s + 2 * z /\ ms.qsize \in 2..z
    <3>1. /\ s = (ms.nmerges - 1) * (2 * ms.insize) /\ ms.qsize \in 0..ms.insize
          /\ (e + ms.qsize = s + 2 * ms.insize \/ e = Size)
      BY DEF TakeAt
    <3>2. e # Size /\ ms.qsize - 1 > 0
      BY <1>1, <1>2, <1>6
    <3>3. PICK k \in Nat : k = ms.qsize
      BY <1>2
    <3>4. k \in 0..z /\ k - 1 > 0 /\ e + k = s + 2 * z /\ s = g * (2 * z)
      BY <2>2, <3>1, <3>2, <3>3
    <3>5. k \in 2..z
      BY <2>2, <3>4
    <3> QED
      BY <3>3, <3>4, <3>5
  <2>4. g * (2 * z) = 2 * (g * z) /\ (2 * g + 1) * z = 2 * (g * z) + z
    BY <2>2
  <2>5. PICK y \in Nat : y = g * z
    BY <2>2
  <2>6. 2 * y + z < e + 1 /\ e + 1 < (2 * y + z) + z /\ 2 * g + 1 \in Nat /\ e + 1 \in Nat /\ z > 0
    <3>1. PICK k \in Nat : k = ms.qsize
      BY <1>2
    <3>2. e + k = 2 * y + 2 * z /\ k >= 2 /\ k <= z /\ e \in Nat
      BY <2>3, <2>4, <2>5, <3>1
    <3> QED
      BY <3>2
  <2>7. ~Multiple(e + 1, z)
    <3>1. PICK a \in Nat, ix \in Nat : a = 2 * g + 1 /\ ix = e + 1
      BY <2>6
    <3>2. a * z < ix /\ ix < a * z + z
      BY <2>4, <2>5, <2>6, <3>1
    <3> QED
      BY <2>6, <3>1, <3>2, NoMultiple
  <2>8. Fine(ms.cmp, w[e + 1], w[(e + 1) + 1])
    BY <2>1, <2>2, <2>7 DEF TakeAt, InRuns
  <2>9. Fine(ms.cmp, w[e + 1], w[(e + 1) + 1])'
    BY <1>2, <1>16, <2>1, <2>8
  <2>10. v[m + 1] = w[e + 1] /\ v[(e + 1) + 1] = w[(e + 1) + 1]
    BY <1>9, <2>1
  <2> QED
    BY <2>9, <2>10
<1>22. /\ s \in 0..(m + 1) /\ e + 1 \in (m + 1)..Size /\ m + 1 # 0
       /\ ms.nmerges > 0 /\ s = (ms.nmerges - 1) * (2 * ms.insize)
       /\ ms'.qsize \in 0..ms.insize /\ (e + 1) + ms'.qsize <= s + 2 * ms.insize
       /\ ((e + 1) + ms'.qsize = s + 2 * ms.insize \/ e + 1 = Size)
  <2>1. /\ s \in 0..m /\ ms.nmerges > 0 /\ s = (ms.nmerges - 1) * (2 * ms.insize)
        /\ ms.qsize \in 0..ms.insize
        /\ e + ms.qsize = s + 2 * ms.insize
    BY <1>1, <1>2 DEF TakeAt
  <2>2. s \in 0..(m + 1) /\ e + 1 \in (m + 1)..Size /\ m + 1 # 0
    BY <1>1, <1>2, <2>1
  <2>3. ms'.qsize \in 0..ms.insize /\ (e + 1) + ms'.qsize = s + 2 * ms.insize
    <3>1. PICK k \in Nat, z \in Nat : k = ms.qsize /\ z = ms.insize
      BY <1>1, <1>2
    <3>2. k > 0 /\ k <= z /\ (e + 1) + (k - 1) = e + k /\ k - 1 \in 0..z
      BY <1>2, <2>1, <3>1
    <3> QED
      BY <1>6, <2>1, <3>1, <3>2
  <2>4. s + 2 * ms.insize <= s + 2 * ms.insize
    BY <1>1
  <2> QED
    BY <2>1, <2>2, <2>3, <2>4
<1>23. Merged(v, m + 1)'
  BY <1>6, <1>9, <1>10, <1>11, <1>17, <1>22 DEF Merged
<1>24. TakeAt(v, m + 1, s, e + 1)'
  BY <1>2, <1>6, <1>12, <1>13, <1>14, <1>15, <1>18, <1>19, <1>20, <1>21, <1>22, <1>23 DEF TakeAt
<1> QED
  BY <1>2, <1>5, <1>7, <1>8, <1>24

\* What the comparison of two cells says of which is the first.
Decides(cmp, a, b, first) ==
  \/ /\ cmp = "complex"
     /\ \E r, s \in CalcResults :
          /\ data16' = [data16 EXCEPT ![a] = Cached(a, r), ![b] = Cached(b, s)]
          /\ first = FirstWins(Calculated(a, r), Calculated(b, s))
  \/ cmp = "idx" /\ first = FirstWins(idx[a], idx[b])

\* The cell whose data are the lower is the one that may go before the other.
LEMMA LowerFine ==
  ASSUME data16 \in [Cells -> [hi : 0..255, lo : 0..255]], idx \in [Cells -> Nat], idx' = idx,
         NEW a \in Cells, NEW b \in Cells, a # b, NEW cmp, NEW first \in BOOLEAN,
         Compared(cmp, a)', Compared(cmp, b)', Decides(cmp, a, b, first)
  PROVE  IF first THEN Fine(cmp, a, b)' ELSE Fine(cmp, b, a)'
<1>1. CASE cmp = "idx" /\ first = FirstWins(idx[a], idx[b])
  <2>1. idx[a] \in Nat /\ idx[b] \in Nat /\ Key(cmp, a)' = idx[a] /\ Key(cmp, b)' = idx[b]
    BY <1>1 DEF Key
  <2>2. IF first THEN idx[a] <= idx[b] ELSE idx[b] <= idx[a]
    <3>1. first <=> idx[a] <= idx[b]
      BY <1>1, Zenon DEF FirstWins
    <3> QED
      BY <2>1, <3>1
  <2> QED
    BY <2>1, <2>2 DEF Fine
<1>2. CASE /\ cmp = "complex"
           /\ \E r, s \in CalcResults :
                 /\ data16' = [data16 EXCEPT ![a] = Cached(a, r), ![b] = Cached(b, s)]
                 /\ first = FirstWins(Calculated(a, r), Calculated(b, s))
  <2>1. PICK r \in CalcResults, s \in CalcResults :
                 /\ data16' = [data16 EXCEPT ![a] = Cached(a, r), ![b] = Cached(b, s)]
                 /\ first = FirstWins(Calculated(a, r), Calculated(b, s))
    BY <1>2
  <2>2. ASSUME NEW c \in Cells, NEW t \in CalcResults
        PROVE  Calculated(c, t) \in Nat /\ Cached(c, t).lo = 128 + Calculated(c, t)
    <3>1. t \in 0..127 /\ data16[c] \in [hi : 0..255, lo : 0..255] /\ data16[c].lo \in 0..255
      BY ListAssumption
    <3>2. Calculated(c, t) \in Nat
      BY <3>1 DEF Calculated
    <3>3. Cached(c, t).lo = 128 + Calculated(c, t)
      BY <3>1 DEF Cached
    <3> QED
      BY <3>2, <3>3
  <2>3. data16'[a] = Cached(a, r) /\ data16'[b] = Cached(b, s)
    BY <2>1
  <2>4. PICK x \in Nat, y \in Nat : x = Calculated(a, r) /\ y = Calculated(b, s)
    BY <2>2
  <2>5. Key(cmp, a)' = 128 + x /\ Key(cmp, b)' = 128 + y
    BY <1>2, <2>2, <2>3, <2>4 DEF Key
  <2>6. IF first THEN 128 + x <= 128 + y ELSE 128 + y <= 128 + x
    <3>1. first <=> x <= y
      BY <2>1, <2>4, Zenon DEF FirstWins
    <3> QED
      BY <3>1
  <2> QED
    BY <2>5, <2>6 DEF Fine
<1> QED
  BY <1>1, <1>2 DEF Decides

\* One pass of the inner loop takes a cell of one of the runs.
LEMMA TakeLowerAt ==
  ASSUME NEW w \in Orders, NEW m \in 0..Size, NEW s \in 0..Size, NEW e \in 0..Size,
         ListTypeOK, SortCalled, TakeAt(w, m, s, e), TakeLower
  PROVE  /\ SortCalled' /\ next' \in [Cells -> Cells \union {NULL}]
         /\ data16' \in [Cells -> [hi : 0..255, lo : 0..255]]
         /\ \A c \in Cells : data16'[c].hi = data16[c].hi
         /\ \E v \in Orders, n, t, f \in 0..Size : TakeAt(v, n, t, f)'
         /\ ms'.ret = ms.ret
<1>1. /\ Size \in Nat /\ \A ix \in 1..Size : w[ix] \in Cells /\ w[ix] # NULL
      /\ \A ix, j \in 1..Size : w[ix] = w[j] => ix = j
  BY SizeFacts, OrderFacts
<1>2. /\ next \in [Cells -> Cells \union {NULL}] /\ data16 \in [Cells -> [hi : 0..255, lo : 0..255]]
      /\ idx \in [Cells -> Nat] /\ idx' = idx /\ info = [c \in Cells |-> c]
      /\ ms.psize > 0 \/ HasQ
  BY DEF ListTypeOK, TakeLower
<1>3. /\ m <= e /\ e <= Size /\ ms.psize = e - m /\ (m < e => ms.p = w[m + 1])
      /\ ms.q = IF e = Size THEN NULL ELSE w[e + 1]
  BY <1>1 DEF TakeAt
<1>4. e < Size /\ ms.qsize > 0 => HasQ
  <2>1. e < Size => e # Size /\ e + 1 \in 1..Size
    BY <1>1, <1>3
  <2> QED
    BY <1>1, <1>3, <2>1 DEF HasQ
<1>5. HasQ => e < Size /\ ms.qsize > 0 /\ ms.q = w[e + 1] /\ e + 1 \in 1..Size
  BY <1>1, <1>3 DEF HasQ
<1>6. ms.psize > 0 <=> m < e
  BY <1>1, <1>3
<1>7. ASSUME NEW x, NEW side \in {"p", "q"}, NEW d, TakeCell(x, side, d)
      PROVE  ms'.cmp = ms.cmp /\ ms'.ret = ms.ret /\ data16' = d
  BY <1>7 DEF TakeCell, SortCalled
<1>8. data16' = data16 /\ ms'.cmp = ms.cmp => Keeps
  BY <1>2 DEF Keeps, Fine, Compared, Key
<1>9. CASE ms.psize = 0 /\ TakeCell(ms.q, "q", data16)
  <2>1. ms'.cmp = ms.cmp /\ ms'.ret = ms.ret /\ data16' = data16 /\ Keeps
    BY <1>7, <1>8, <1>9
  <2>2. ~(m < e) /\ HasQ
    BY <1>1, <1>2, <1>3, <1>9
  <2>3. /\ SortCalled' /\ next' \in [Cells -> Cells \union {NULL}]
        /\ e + 1 \in 0..Size /\ m + 1 \in 0..Size
        /\ \E v \in Orders : TakeAt(v, m + 1, s, e + 1)'
    BY <1>2, <1>9, <2>1, <2>2, TakeSecond
  <2> QED
    BY <1>2, <2>1, <2>3
<1>10. CASE ms.psize > 0 /\ ~HasQ /\ TakeCell(ms.p, "p", data16)
  <2>1. ms'.cmp = ms.cmp /\ ms'.ret = ms.ret /\ data16' = data16 /\ Keeps
    BY <1>7, <1>8, <1>10
  <2>2. ~(e < Size /\ ms.qsize > 0) /\ m + 1 \in 0..Size
    BY <1>1, <1>3, <1>4, <1>6, <1>10
  <2>3. SortCalled' /\ TakeAt(w, m + 1, s, e)' /\ next' \in [Cells -> Cells \union {NULL}]
    BY <1>2, <1>10, <2>1, <2>2, TakeFirst
  <2> QED
    BY <1>2, <2>1, <2>2, <2>3
<1>11. CASE ms.psize > 0 /\ HasQ
  <2>1. m < e /\ e < Size /\ m + 1 \in 1..Size /\ e + 1 \in 1..Size /\ m + 1 # e + 1
        /\ ms.p = w[m + 1] /\ ms.q = w[e + 1] /\ m + 1 \in 0..Size
    BY <1>1, <1>3, <1>5, <1>6, <1>11
  <2>2. PICK a \in Cells, b \in Cells : a = w[m + 1] /\ b = w[e + 1] /\ a # b
    BY <1>1, <2>1
  <2>3. info[ms.p] = a /\ info[ms.q] = b /\ ms.p = a /\ ms.q = b
    BY <1>2, <2>1, <2>2
  <2>4. PICK first, d :
             /\ first \in BOOLEAN /\ TakeCell(IF first THEN a ELSE b, IF first THEN "p" ELSE "q", d)
             /\ \/ /\ ms.cmp = "complex"
                   /\ \E r, t \in CalcResults :
                         /\ d = [data16 EXCEPT ![a] = Cached(a, r), ![b] = Cached(b, t)]
                         /\ first = FirstWins(Calculated(a, r), Calculated(b, t))
                \/ /\ ms.cmp = "idx" /\ d = [data16 EXCEPT ![a] = Rebuilt(a), ![b] = Rebuilt(b)]
                   /\ first = FirstWins(idx[a], idx[b])
    <3>1. \/ /\ ms.cmp = "complex"
             /\ \E r, t \in CalcResults :
                  LET first == FirstWins(Calculated(a, r), Calculated(b, t))
                  IN  TakeCell(IF first THEN a ELSE b, IF first THEN "p" ELSE "q",
                               [data16 EXCEPT ![a] = Cached(a, r), ![b] = Cached(b, t)])
          \/ /\ ms.cmp = "idx"
             /\ LET first == FirstWins(idx[a], idx[b])
                IN  TakeCell(IF first THEN a ELSE b, IF first THEN "p" ELSE "q",
                             [data16 EXCEPT ![a] = Rebuilt(a), ![b] = Rebuilt(b)])
      <4>1. ms.psize # 0 /\ HasQ
        BY <1>11
      <4> QED
        BY <2>3, <4>1 DEF TakeLower
    <3>2. \A x, y : FirstWins(x, y) \in BOOLEAN
      BY DEF FirstWins
    <3>3. CASE ms.cmp = "complex"
      <4>1. PICK r \in CalcResults, t \in CalcResults :
                  LET first == FirstWins(Calculated(a, r), Calculated(b, t))
                  IN  TakeCell(IF first THEN a ELSE b, IF first THEN "p" ELSE "q",
                               [data16 EXCEPT ![a] = Cached(a, r), ![b] = Cached(b, t)])
        BY <3>1, <3>3
      <4>2. PICK first \in BOOLEAN : first = FirstWins(Calculated(a, r), Calculated(b, t))
        BY <3>2
      <4>3. PICK d : d = [data16 EXCEPT ![a] = Cached(a, r), ![b] = Cached(b, t)]
        OBVIOUS
      <4>4. TakeCell(IF first THEN a ELSE b, IF first THEN "p" ELSE "q", d)
        BY <4>1, <4>2, <4>3
      <4> QED
        BY <3>3, <4>2, <4>3, <4>4
    <3>4. CASE ms.cmp = "idx" 
      <4>1. PICK first \in BOOLEAN : first = FirstWins(idx[a], idx[b])
        BY <3>2
      <4>2. PICK d : d = [data16 EXCEPT ![a] = Rebuilt(a), ![b] = Rebuilt(b)]
        OBVIOUS
      <4>3. ms.cmp # "complex"
        BY <3>4
      <4>4. TakeCell(IF first THEN a ELSE b, IF first THEN "p" ELSE "q", d)
        BY <3>1, <4>1, <4>2, <4>3
      <4> QED
        BY <3>4, <4>1, <4>2, <4>4
    <3> QED
      BY <3>1, <3>3, <3>4
  <2>5. ms'.cmp = ms.cmp /\ ms'.ret = ms.ret /\ data16' = d
    <3>1. PICK side, x : /\ side \in {"p", "q"} /\ side = IF first THEN "p" ELSE "q"
                         /\ x = IF first THEN a ELSE b
      OBVIOUS
    <3> QED
      BY <1>7, <2>4, <3>1
  <2>6. PICK cmp : cmp = ms.cmp
    OBVIOUS
  <2>7. /\ data16' \in [Cells -> [hi : 0..255, lo : 0..255]]
        /\ \A c \in Cells : data16'[c].hi = data16[c].hi
        /\ \A c, g \in Cells : Fine(cmp, c, g) => Fine(cmp, c, g)'
        /\ Compared(cmp, a)' /\ Compared(cmp, b)'
    <3>1. Compares(cmp, a, b)
      BY <2>4, <2>5, <2>6 DEF Compares
    <3> QED
      BY <1>2, <2>2, <3>1, ComparedMore
  <2>8. Keeps
    BY <1>2, <2>5, <2>6, <2>7 DEF Keeps
  <2>9. IF first THEN Fine(cmp, a, b)' ELSE Fine(cmp, b, a)'
    <3>1. Decides(cmp, a, b, first) /\ first \in BOOLEAN
      BY <2>4, <2>5, <2>6 DEF Decides
    <3> QED
      BY <1>2, <2>2, <2>7, <3>1, LowerFine
  <2>10. CASE first
    <3>1. Fine(ms.cmp, w[m + 1], w[e + 1])' /\ TakeCell(ms.p, "p", d)
      BY <2>2, <2>3, <2>4, <2>5, <2>6, <2>9, <2>10
    <3>2. SortCalled' /\ TakeAt(w, m + 1, s, e)' /\ next' \in [Cells -> Cells \union {NULL}]
      BY <1>2, <1>11, <2>5, <2>8, <3>1, TakeFirst
    <3> QED
      BY <2>1, <2>5, <2>7, <3>2
  <2>11. CASE ~first
    <3>1. Fine(ms.cmp, w[e + 1], w[m + 1])' /\ TakeCell(ms.q, "q", d)
      BY <2>2, <2>3, <2>4, <2>5, <2>6, <2>9, <2>11
    <3>2. /\ SortCalled' /\ next' \in [Cells -> Cells \union {NULL}]
          /\ e + 1 \in 0..Size /\ m + 1 \in 0..Size
          /\ \E v \in Orders : TakeAt(v, m + 1, s, e + 1)'
      BY <1>2, <1>11, <2>5, <2>8, <3>1, TakeSecond
    <3> QED
      BY <2>5, <2>7, <3>2
  <2> QED
    BY <2>10, <2>11
<1> QED
  BY <1>9, <1>10, <1>11 DEF TakeLower

\* The two runs are merged.
LEMMA EndMergeAt ==
  ASSUME NEW w \in Orders, NEW m \in 0..Size, NEW s \in 0..Size, NEW e \in 0..Size,
         SortCalled, TakeAt(w, m, s, e), EndMerge
  PROVE  SortCalled' /\ MergeAt(w, m)' /\ ms'.ret = ms.ret
<1>1. Size \in Nat /\ ms.insize \in Nat /\ ms.insize > 0 /\ ms.nmerges \in Nat
  BY SizeFacts DEF SortCalled
<1>2. ms.psize = 0 /\ ~HasQ /\ ms' = [ms EXCEPT !.p = ms.q] /\ UNCHANGED <<list, next, idx, data16>>
  BY DEF EndMerge
<1>3. /\ ms'.p = ms.q /\ ms'.tail = ms.tail /\ ms'.insize = ms.insize /\ ms'.nmerges = ms.nmerges
      /\ ms'.cmp = ms.cmp /\ ms'.ret = ms.ret /\ DOMAIN ms' = DOMAIN ms
  BY <1>2 DEF SortCalled
<1>4. SortCalled'
  BY <1>3 DEF SortCalled
<1>5. \A c, d : Fine(ms.cmp, c, d)' = Fine(ms.cmp, c, d)
  BY <1>2, <1>3 DEF Fine, Compared, Key
<1>6. e = m
  <2>1. ms.psize = e - m
    BY DEF TakeAt
  <2> QED
    BY <1>1, <1>2, <2>1
<1>7. m = Size \/ ms.qsize = 0
  <2>1. m # Size => m + 1 \in 1..Size
    BY <1>1
  <2>2. m # Size => ms.q # NULL
    <3>1. m # Size => ms.q = w[m + 1]
      BY <1>6 DEF TakeAt
    <3> QED
      BY <2>1, <3>1, OrderFacts
  <2>3. ms.qsize \in Nat
    BY <1>1 DEF TakeAt
  <2> QED
    BY <1>2, <2>2, <2>3 DEF HasQ
<1>8. m <= ms.nmerges * (2 * ms.insize) /\ (m = ms.nmerges * (2 * ms.insize) \/ m = Size)
  <2>1. PICK k \in Nat, z \in Nat, g \in Nat : k = ms.qsize /\ z = ms.insize /\ g = ms.nmerges
    BY <1>1 DEF TakeAt
  <2>2. s = (g - 1) * (2 * z) /\ m + k <= s + 2 * z /\ (m + k = s + 2 * z \/ m = Size)
    BY <1>6, <2>1 DEF TakeAt
  <2>3. (g - 1) * (2 * z) + 2 * z = g * (2 * z)
    BY <2>1
  <2>4. m + k <= g * (2 * z) /\ (m + k = g * (2 * z) \/ m = Size)
    BY <2>2, <2>3
  <2>5. PICK y \in Nat : y = g * (2 * z)
    BY <2>1
  <2>6. m <= y /\ (m = y \/ m = Size)
    BY <1>7, <2>1, <2>4, <2>5
  <2> QED
    BY <2>1, <2>5, <2>6
<1>9. Merged(w, m)'
  BY <1>2, <1>3, <1>5 DEF TakeAt, Merged, InRuns
<1>10. Run(next, w, m + 1, Size)' /\ (m < Size => next'[w[Size]] = NULL)
  BY <1>2, <1>6 DEF TakeAt
<1>11. InRuns(w, m + 1, Size, ms.insize)'
  BY <1>3, <1>5, <1>6 DEF TakeAt, InRuns
<1>12. ms'.p = IF m = Size THEN NULL ELSE w[m + 1]
  BY <1>3, <1>6 DEF TakeAt
<1> QED
  BY <1>3, <1>4, <1>8, <1>9, <1>10, <1>11, <1>12 DEF MergeAt

\* The last pass leaves the list sorted; any other one runs of twice the size.
LEMMA EndPassAt ==
  ASSUME NEW w \in Orders, NEW m \in 0..Size, next \in [Cells -> Cells \union {NULL}],
         SortCalled, MergeAt(w, m), EndPass
  PROVE  /\ next' \in [Cells -> Cells \union {NULL}]
         /\ \/ /\ pc' = ms.ret /\ list' = w[1] /\ Chain(next, w)'
               /\ \A cmp : cmp = ms.cmp => Sorted(cmp, w)'
            \/ pc' = pc /\ SortCalled' /\ MergeAt(w, 0)' /\ ms'.ret = ms.ret
<1>1. Size \in Nat /\ Size >= 3 /\ ms.insize \in Nat /\ ms.insize > 0 /\ ms.nmerges \in Nat
  BY SizeFacts DEF SortCalled
<1>2. \A ix \in 1..Size : w[ix] \in Cells /\ w[ix] # NULL
  BY OrderFacts
<1>3. \A ix, j \in 1..Size : w[ix] = w[j] => ix = j
  BY OrderFacts
<1>4. ms.p = NULL /\ next' = Terminated /\ UNCHANGED <<idx, data16>>
  BY DEF EndPass
<1>5. m = Size
  <2>1. m # Size => m + 1 \in 1..Size /\ ms.p = w[m + 1]
    BY <1>1 DEF MergeAt
  <2> QED
    BY <1>2, <1>4, <2>1
<1>6. list = w[1] /\ ms.tail = w[Size] /\ Run(next, w, 1, Size) /\ InRuns(w, 1, Size, 2 * ms.insize)
  BY <1>1, <1>5 DEF MergeAt, Merged
<1>7. Size \in 1..Size /\ 1 \in 1..Size
  BY <1>1
<1>8. next' = [next EXCEPT ![w[Size]] = NULL]
  BY <1>4, <1>6 DEF Terminated
<1>9. next' \in [Cells -> Cells \union {NULL}]
  BY <1>2, <1>7, <1>8
<1>10. next'[w[Size]] = NULL
  BY <1>2, <1>7, <1>8
<1>11. ASSUME NEW ix \in 1..Size-1 PROVE next'[w[ix]] = w[ix + 1]
  <2>1. ix \in 1..Size /\ ix # Size
    BY <1>1
  <2>2. next[w[ix]] = w[ix + 1] /\ w[ix] # w[Size]
    BY <1>3, <1>6, <1>7, <2>1 DEF Run
  <2> QED
    BY <1>2, <1>8, <2>1, <2>2
<1>12. Run(next, w, 1, Size)' /\ Chain(next, w)'
  BY <1>10, <1>11 DEF Run, Chain
<1>13. CASE ms.nmerges <= 1
  <2>1. pc' = ms.ret /\ list' = w[1]
    BY <1>6, <1>13 DEF EndPass
  <2>2. PICK z \in Nat, g \in Nat : z = ms.insize /\ g = ms.nmerges
    BY <1>1
  <2>3. Size <= 2 * z
    <3>1. Size <= g * (2 * z) /\ (g = 0 \/ g = 1)
      BY <1>5, <1>13, <2>2 DEF MergeAt
    <3>2. CASE g = 0
      <4>1. g * (2 * z) = 0
        BY <3>2
      <4> QED
        BY <1>1, <3>1, <4>1
    <3>3. CASE g = 1
      <4>1. g * (2 * z) = 2 * z
        BY <3>3
      <4> QED
        BY <3>1, <4>1
    <3> QED
      BY <3>1, <3>2, <3>3
  <2>4. ASSUME NEW cmp, cmp = ms.cmp, NEW ix \in 1..Size-1 PROVE Fine(cmp, w[ix], w[ix + 1])'
    <3>1. PICK y \in Nat : y = 2 * z /\ y > 0 /\ ix \in Nat /\ 0 < ix /\ ix < y
      BY <1>1, <2>2, <2>3
    <3>2. 0 * y = 0 /\ 0 + y = y
      BY <3>1
    <3>3. ~Multiple(ix, y)
      <4>1. 0 \in Nat /\ 0 * y < ix /\ ix < 0 * y + y
        BY <3>1, <3>2
      <4> QED
        BY <3>1, <4>1, NoMultiple
    <3>4. Fine(cmp, w[ix], w[ix + 1])
      BY <1>6, <2>2, <2>4, <3>1, <3>3 DEF InRuns
    <3> QED
      BY <1>4, <3>4 DEF Fine, Compared, Key
  <2>5. \A cmp : cmp = ms.cmp => Sorted(cmp, w)'
    BY <2>4 DEF Sorted
  <2> QED
    BY <1>9, <1>12, <2>1, <2>5
<1>14. CASE ~(ms.nmerges <= 1)
  <2>1. /\ ms' = [ms EXCEPT !.insize = 2 * ms.insize, !.p = list, !.tail = NULL, !.nmerges = 0]
        /\ list' = NULL /\ pc' = pc
    BY <1>14 DEF EndPass
  <2>2. /\ ms'.insize = 2 * ms.insize /\ ms'.p = w[1] /\ ms'.tail = NULL /\ ms'.nmerges = 0
        /\ ms'.cmp = ms.cmp /\ ms'.ret = ms.ret /\ DOMAIN ms' = DOMAIN ms
    BY <1>6, <2>1 DEF SortCalled
  <2>3. 2 * ms.insize \in Nat \ {0}
    BY <1>1
  <2>4. SortCalled'
    BY <2>2, <2>3 DEF SortCalled
  <2>5. \A c, d : Fine(ms.cmp, c, d)' = Fine(ms.cmp, c, d)
    BY <1>4, <2>2 DEF Fine, Compared, Key
  <2>6. InRuns(w, 1, Size, ms.insize)'
    BY <1>6, <2>2, <2>5 DEF InRuns
  <2>7. Merged(w, 0)'
    <3>1. \A ix \in 1..0-1 : FALSE
      OBVIOUS
    <3> QED
      BY <2>1, <2>2, <3>1 DEF Merged, Run, InRuns
  <2>8. 0 \in 0..Size /\ 0 # Size /\ 0 + 1 = 1
    BY <1>1
  <2>9. 0 * (2 * ms'.insize) = 0 /\ 0 <= 0
    <3>1. PICK z \in Nat : z = 2 * ms'.insize
      BY <1>1, <2>2
    <3>2. 0 * z = 0
      BY <3>1
    <3> QED
      BY <3>1, <3>2
  <2>10. MergeAt(w, 0)'
    BY <1>10, <1>12, <2>2, <2>6, <2>7, <2>8, <2>9 DEF MergeAt
  <2> QED
    BY <1>9, <2>1, <2>2, <2>4, <2>10
<1> QED
  BY <1>13, <1>14

\* The sort begins with runs of one cell.
LEMMA SortStarts ==
  ASSUME NEW w \in Orders, list = w[1], Chain(next, w), next' = next, NEW cmp, NEW ret,
         ret \in {"ready", "remove", "return"}, cmp = (IF ret = "remove" THEN "complex" ELSE "idx"),
         core_list_mergesort(cmp, ret)
  PROVE  SortCalled' /\ MergeAt(w, 0)' /\ ms'.ret = ret /\ pc' = "merge"
<1>1. /\ ms' = [p |-> list, q |-> NULL, tail |-> NULL, psize |-> 0, qsize |-> 0,
                insize |-> 1, nmerges |-> 0, cmp |-> cmp, ret |-> ret]
      /\ list' = NULL /\ pc' = "merge"
  BY DEF core_list_mergesort
<1>2. Size \in Nat /\ Size >= 3
  BY SizeFacts
<1>3. SortCalled'
  BY <1>1 DEF SortCalled
<1>4. Merged(w, 0)'
  <2>1. \A ix \in 1..0-1 : FALSE
    OBVIOUS
  <2> QED
    BY <1>1, <2>1 DEF Merged, Run, InRuns
<1>5. InRuns(w, 1, Size, 1)'
  <2>1. ASSUME NEW ix \in 1..Size-1 PROVE Multiple(ix, 1)
    <3>1. ix \in Nat /\ ix = ix * 1
      BY <1>2
    <3> QED
      BY <3>1 DEF Multiple
  <2> QED
    BY <2>1 DEF InRuns
<1>6. 0 \in 0..Size /\ 0 # Size /\ 0 + 1 = 1 /\ 0 * (2 * 1) = 0 /\ 0 <= 0 
  BY <1>2
<1>7. Run(next, w, 1, Size)' /\ next'[w[Size]] = NULL
  BY DEF Chain
<1>8. ms'.p = w[1] /\ ms'.insize = 1 /\ ms'.nmerges = 0 /\ ms'.ret = ret
  BY <1>1
<1>9. MergeAt(w, 0)'
  <2>1. InRuns(w, 1, Size, ms.insize)'
    BY <1>5, <1>8
  <2> QED
    BY <1>4, <1>6, <1>7, <1>8, <2>1 DEF MergeAt
<1> QED
  BY <1>1, <1>3, <1>8, <1>9

(***************************************************************************)
(* Every step keeps the invariant.                                         *)
(***************************************************************************)
\* The kernel only ever changes the cached byte of the data.
LEMMA HomeKept ==
  ASSUME NEW w \in Orders, IsHome(home, w), idx' = idx, home' = home,
         \A c \in Cells : data16'[c].hi = data16[c].hi
  PROVE  IsHome(home, w)'
<1>1. \A ix \in 1..Size : w[ix] \in Cells
  BY OrderFacts
<1> QED
  BY <1>1 DEF IsHome

\* A step in the sort.
LEMMA SortGoesOn ==
  ASSUME ListInv, pc \in {"merge", "take"}, pc' \in {"merge", "take"}, ms'.ret = ms.ret, SortCalled',
         next' \in [Cells -> Cells \union {NULL}], data16' \in [Cells -> [hi : 0..255, lo : 0..255]],
         \A c \in Cells : data16'[c].hi = data16[c].hi, UNCHANGED <<info, idx, home>>,
         pc' = "merge" => \E w \in Orders, m \in 0..Size : MergeAt(w, m)',
         pc' = "take" => \E w \in Orders, m, s, e \in 0..Size : TakeAt(w, m, s, e)'
  PROVE  ListInv'
<1>1. /\ pc \notin {"reset", "insert", "undo", "ready"} /\ pc' # "undo" /\ pc' \notin {"reset", "insert"}
      /\ pc' \notin Whole
  BY DEF Whole
<1>2. ListTypeOK'
  BY <1>1 DEF ListInv, ListTypeOK
<1>3. SortInv'
  BY DEF SortInv
<1>4. BuildInv' /\ WholeInv' /\ CutInv'
  BY <1>1 DEF BuildInv, WholeInv, CutInv
<1>5. IndexInv'
  BY <1>1 DEF ListInv, IndexInv
<1>6. HomeInv'
  <2>1. CASE \E w \in Orders : IsHome(home, w)
    BY <2>1, HomeKept DEF HomeInv
  <2>2. CASE ~\E w \in Orders : IsHome(home, w)
    BY <1>1, <2>2 DEF ListInv, HomeInv
  <2> QED
    BY <2>1, <2>2
<1> QED
  BY <1>2, <1>3, <1>4, <1>5, <1>6 DEF ListInv

\* The sort begins.
LEMMA SortBegins ==
  ASSUME NEW w \in Orders, ListInv, NEW cmp, NEW ret, 
         list = w[1], Chain(next, w), 
         ret \in {"ready", "remove", "return"}, cmp = (IF ret = "remove" THEN "complex" ELSE "idx"),
         core_list_mergesort(cmp, ret), pc # "undo", UNCHANGED <<next, info, data16, home>>,
         idx' \in [Cells -> Nat], idx'[1] = 0, \A c, d \in Cells : idx'[c] = idx'[d] => c = d,
         (\E v \in Orders : IsHome(home, v)') \/ (home = << >> /\ ret = "ready")
  PROVE  ListInv'
<1>1. SortCalled' /\ MergeAt(w, 0)' /\ ms'.ret = ret /\ pc' = "merge"
  BY SortStarts
<1>2. /\ pc' # "undo" /\ pc' \notin {"reset", "insert"} /\ pc' # "take" /\ pc' \notin Whole
  BY <1>1 DEF Whole
<1>3. ListTypeOK'
  BY <1>1 DEF ListInv, ListTypeOK
<1>4. SortInv'
  <2>1. 0 \in 0..Size
    BY SizeFacts
  <2> QED
    BY <1>1, <1>2, <2>1 DEF SortInv
<1>5. BuildInv' /\ WholeInv' /\ CutInv'
  BY <1>2 DEF BuildInv, WholeInv, CutInv
<1>6. IndexInv'
  BY DEF IndexInv
<1>7. HomeInv'
  BY <1>1 DEF HomeInv
<1> QED
  BY <1>3, <1>4, <1>5, <1>6, <1>7 DEF ListInv

\* A step from one call of the kernel to the next, outside the sort.
LEMMA CallGoesOn ==
  ASSUME ListInv, pc \in {"ready", "find", "remove", "undo", "sortback", "return"}, pc' \in Whole,
         next' \in [Cells -> Cells \union {NULL}], UNCHANGED <<idx, data16>>,
         info' = [c \in Cells |-> c],
         NEW w \in Orders, list' = w[1], Chain(next, w)',
         pc' \in {"ready", "return"} => Sorted("idx", w)',
         pc' = "remove" /\ finder_idx' > 0 => Sorted("complex", w)',
         \E v \in Orders : IsHome(home, v)'
  PROVE  ListInv'
<1>1. /\ pc \notin {"reset", "insert"} /\ pc' # "undo" /\ pc' \notin {"reset", "insert"}
      /\ pc' \notin {"merge", "take"} /\ pc' # "merge" /\ pc' # "take"
  BY DEF Whole
<1>2. ListTypeOK'
  BY DEF ListInv, ListTypeOK
<1>3. SortInv' /\ BuildInv' /\ CutInv'
  BY <1>1 DEF SortInv, BuildInv, CutInv
<1>4. IndexInv'
  BY <1>1 DEF ListInv, IndexInv
<1>5. WholeInv'
  BY DEF WholeInv
<1>6. HomeInv'
  BY DEF HomeInv
<1> QED
  BY <1>2, <1>3, <1>4, <1>5, <1>6 DEF ListInv

\* StartMerge.
LEMMA StartMergeInv ==
  ASSUME ListInv, StartMerge
  PROVE  ListInv'
<1>1. pc = "merge" /\ pc' = "take" /\ UNCHANGED <<next, info, idx, data16, home>>
  BY DEF StartMerge
<1>2. PICK w \in Orders, m \in 0..Size : MergeAt(w, m)
  BY <1>1 DEF ListInv, SortInv
<1>3. SortCalled
  BY <1>1 DEF ListInv, SortInv
<1>4. SortCalled' /\ \E e \in 0..Size : TakeAt(w, m, m, e)'
  BY <1>2, <1>3, StartMergeAt
<1>5. ms'.ret = ms.ret
  BY <1>3 DEF StartMerge, SortCalled
<1>6. /\ next' \in [Cells -> Cells \union {NULL}] /\ data16' \in [Cells -> [hi : 0..255, lo : 0..255]]
      /\ \A c \in Cells : data16'[c].hi = data16[c].hi
  BY <1>1 DEF ListInv, ListTypeOK
<1>7. \E v \in Orders, n, t, f \in 0..Size : TakeAt(v, n, t, f)'
  BY <1>4
<1> QED
  BY <1>1, <1>4, <1>5, <1>6, <1>7, SortGoesOn

\* TakeLower.
LEMMA TakeLowerInv ==
  ASSUME ListInv, TakeLower
  PROVE  ListInv'
<1>1. pc = "take" /\ pc' = "take" /\ UNCHANGED <<info, idx, home>>
  BY DEF TakeLower
<1>2. PICK w \in Orders, m \in 0..Size, s \in 0..Size, e \in 0..Size : TakeAt(w, m, s, e)
  BY <1>1 DEF ListInv, SortInv
<1>3. SortCalled /\ ListTypeOK
  BY <1>1 DEF ListInv, SortInv
<1>4. /\ SortCalled' /\ next' \in [Cells -> Cells \union {NULL}]
      /\ data16' \in [Cells -> [hi : 0..255, lo : 0..255]]
      /\ \A c \in Cells : data16'[c].hi = data16[c].hi
      /\ \E v \in Orders, n, t, f \in 0..Size : TakeAt(v, n, t, f)'
      /\ ms'.ret = ms.ret
  BY <1>2, <1>3, TakeLowerAt
<1> QED
  BY <1>1, <1>4, SortGoesOn

\* EndMerge.
LEMMA EndMergeInv ==
  ASSUME ListInv, EndMerge
  PROVE  ListInv'
<1>1. pc = "take" /\ pc' = "merge" /\ UNCHANGED <<next, info, idx, data16, home>>
  BY DEF EndMerge
<1>2. PICK w \in Orders, m \in 0..Size, s \in 0..Size, e \in 0..Size : TakeAt(w, m, s, e)
  BY <1>1 DEF ListInv, SortInv
<1>3. SortCalled
  BY <1>1 DEF ListInv, SortInv
<1>4. SortCalled' /\ MergeAt(w, m)' /\ ms'.ret = ms.ret
  BY <1>2, <1>3, EndMergeAt
<1>5. /\ next' \in [Cells -> Cells \union {NULL}] /\ data16' \in [Cells -> [hi : 0..255, lo : 0..255]]
      /\ \A c \in Cells : data16'[c].hi = data16[c].hi
  BY <1>1 DEF ListInv, ListTypeOK
<1> QED
  BY <1>1, <1>4, <1>5, SortGoesOn

\* EndPass.
LEMMA EndPassInv ==
  ASSUME ListInv, EndPass
  PROVE  ListInv'
<1>1. pc = "merge" /\ UNCHANGED <<info, idx, data16, home>>
  BY DEF EndPass
<1>2. PICK w \in Orders, m \in 0..Size : MergeAt(w, m)
  BY <1>1 DEF ListInv, SortInv
<1>3. SortCalled /\ next \in [Cells -> Cells \union {NULL}]
  BY <1>1 DEF ListInv, SortInv, ListTypeOK
<1>4. /\ next' \in [Cells -> Cells \union {NULL}]
      /\ \/ /\ pc' = ms.ret /\ list' = w[1] /\ Chain(next, w)'
            /\ \A cmp : cmp = ms.cmp => Sorted(cmp, w)'
         \/ pc' = pc /\ SortCalled' /\ MergeAt(w, 0)' /\ ms'.ret = ms.ret
  BY <1>2, <1>3, EndPassAt
<1>5. data16' \in [Cells -> [hi : 0..255, lo : 0..255]] /\ \A c \in Cells : data16'[c].hi = data16[c].hi
  BY <1>1 DEF ListInv, ListTypeOK
<1>6. CASE pc' = pc /\ SortCalled' /\ MergeAt(w, 0)' /\ ms'.ret = ms.ret
  <2>1. \E v \in Orders, n \in 0..Size : MergeAt(v, n)'
    <3>1. 0 \in 0..Size
      BY SizeFacts
    <3> QED
      BY <1>6, <3>1
  <2>2. pc' = "merge"
    BY <1>1, <1>6
  <2> QED
    BY <1>1, <1>4, <1>5, <1>6, <2>1, <2>2, SortGoesOn
<1>7. CASE /\ pc' = ms.ret /\ list' = w[1] /\ Chain(next, w)'
           /\ \A cmp : cmp = ms.cmp => Sorted(cmp, w)'
  <2>1. /\ pc' \in {"ready", "remove", "return"}
        /\ ms.cmp = IF pc' = "remove" THEN "complex" ELSE "idx"
    BY <1>3, <1>7 DEF SortCalled
  <2>2. /\ pc' \in Whole /\ pc' # "undo" /\ pc' \notin {"reset", "insert", "merge", "take"}
        /\ pc' # "merge" /\ pc' # "take"
    BY <2>1 DEF Whole
  <2>3. ListTypeOK'
    BY <1>1, <1>4, <2>2 DEF ListInv, ListTypeOK
  <2>4. SortInv' /\ BuildInv' /\ CutInv'
    BY <2>2 DEF SortInv, BuildInv, CutInv
  <2>5. IndexInv'
    BY <1>1 DEF ListInv, IndexInv
  <2>6. /\ pc' \in {"ready", "return"} => Sorted("idx", w)'
        /\ pc' = "remove" => Sorted("complex", w)'
    BY <1>7, <2>1
  <2>7. WholeInv'
    BY <1>7, <2>6 DEF WholeInv
  <2>8. HomeInv'
    <3>1. CASE \E v \in Orders : IsHome(home, v)
      BY <1>1, <1>5, <3>1, HomeKept DEF HomeInv
    <3>2. CASE ~\E v \in Orders : IsHome(home, v)
      BY <1>1, <1>7, <3>2 DEF ListInv, HomeInv
    <3> QED
      BY <3>1, <3>2
  <2> QED
    BY <2>3, <2>4, <2>5, <2>7, <2>8 DEF ListInv
<1> QED
  BY <1>4, <1>6, <1>7

\* What is known between two calls.
LEMMA Between ==
  ASSUME ListInv, pc \in Whole
  PROVE  /\ info = [c \in Cells |-> c] /\ next \in [Cells -> Cells \union {NULL}]
         /\ idx \in [Cells -> Nat] /\ data16 \in [Cells -> [hi : 0..255, lo : 0..255]]
         /\ idx[1] = 0 /\ \A c, d \in Cells : idx[c] = idx[d] => c = d
         /\ \E w \in Orders : /\ list = w[1] /\ Chain(next, w)
                              /\ pc \in {"ready", "return"} => Sorted("idx", w)
                              /\ pc = "remove" /\ finder_idx > 0 => Sorted("complex", w)
         /\ pc # "ready" => \E w \in Orders : IsHome(home, w)
<1>1. pc # "undo" /\ pc \notin {"reset", "insert"} /\ pc \notin {"merge", "take"}
  BY DEF Whole
<1> QED
  BY <1>1 DEF ListInv, ListTypeOK, IndexInv, WholeInv, HomeInv

\* SortByContent.
LEMMA SortByContentInv ==
  ASSUME ListInv, SortByContent
  PROVE  ListInv'
<1>1. pc = "find" /\ UNCHANGED <<next, info, idx, data16, finder_idx, home>> /\ pc \in Whole
  BY DEF SortByContent, Whole
<1>2. PICK w \in Orders : list = w[1] /\ Chain(next, w)
  BY <1>1, Between
<1>3. /\ next \in [Cells -> Cells \union {NULL}] /\ info = [c \in Cells |-> c]
      /\ idx \in [Cells -> Nat] /\ idx[1] = 0 /\ \A c, d \in Cells : idx[c] = idx[d] => c = d
  BY <1>1, Between
<1>4. PICK v \in Orders : IsHome(home, v)
  BY <1>1, Between
<1>5. IsHome(home, v)'
  BY <1>1, <1>4, HomeKept
<1>6. CASE finder_idx > 0
  <2>1. core_list_mergesort("complex", "remove")
    BY <1>6 DEF SortByContent
  <2>2. PICK cmp, ret : cmp = "complex" /\ ret = "remove"
    OBVIOUS
  <2> QED
    BY <1>1, <1>2, <1>3, <1>5, <2>1, <2>2, SortBegins
<1>7. CASE ~(finder_idx > 0)
  <2>1. pc' = "remove" /\ list' = list
    BY <1>7 DEF SortByContent
  <2>2. pc' \in Whole /\ ~(finder_idx' > 0) /\ pc' \notin {"ready", "return"} /\ Chain(next, w)'
    BY <1>1, <1>2, <1>7, <2>1 DEF Whole, Chain, Run
  <2> QED
    BY <1>1, <1>2, <1>3, <1>5, <2>1, <2>2, CallGoesOn
<1> QED
  BY <1>6, <1>7

\* SortByIndex.
LEMMA SortByIndexInv ==
  ASSUME ListInv, SortByIndex
  PROVE  ListInv'
<1>1. /\ pc = "sortback" /\ UNCHANGED <<next, info, idx, data16, home>> /\ pc \in Whole
      /\ core_list_mergesort("idx", "return")
  BY DEF SortByIndex, Whole
<1>2. PICK w \in Orders : list = w[1] /\ Chain(next, w)
  BY <1>1, Between
<1>3. idx \in [Cells -> Nat] /\ idx[1] = 0 /\ \A c, d \in Cells : idx[c] = idx[d] => c = d
  BY <1>1, Between
<1>4. PICK v \in Orders : IsHome(home, v)
  BY <1>1, Between
<1>5. IsHome(home, v)'
  BY <1>1, <1>4, HomeKept
<1>6. PICK cmp, ret : cmp = "idx" /\ ret = "return"
  OBVIOUS
<1> QED
  BY <1>1, <1>2, <1>3, <1>5, <1>6, SortBegins

\* EndBench.
LEMMA EndBenchInv ==
  ASSUME ListInv, EndBench
  PROVE  ListInv'
<1>1. /\ pc = "return" /\ pc' = "ready" /\ pc \in Whole /\ pc' \in Whole
      /\ UNCHANGED <<list, next, info, idx, data16, home>>
  BY DEF EndBench, Whole
<1>2. PICK w \in Orders : list = w[1] /\ Chain(next, w) /\ Sorted("idx", w)
  BY <1>1, Between
<1>3. next \in [Cells -> Cells \union {NULL}] /\ info = [c \in Cells |-> c]
  BY <1>1, Between
<1>4. PICK v \in Orders : IsHome(home, v)
  BY <1>1, Between
<1>5. IsHome(home, v)'
  BY <1>1, <1>4, HomeKept
<1>6. Chain(next, w)' /\ Sorted("idx", w)'
  BY <1>1, <1>2 DEF Chain, Run, Sorted, Fine, Compared, Key
<1> QED
  BY <1>1, <1>2, <1>3, <1>5, <1>6, CallGoesOn

\* InsertItems: a cell goes in behind the head.
LEMMA InsertItemsInv ==
  ASSUME ListInv, InsertItems
  PROVE  ListInv'
<1>1. /\ pc \in {"reset", "insert"} /\ pc' = "insert" /\ UNCHANGED <<list, info, home>>
      /\ \E d \in IF used = 1 THEN {TailData} ELSE HiBytes : core_list_insert_new(TailIdx, d)
  BY DEF InsertItems
<1>2. PICK d \in 0..255 : core_list_insert_new(TailIdx, d)
  <2>1. TailData \in 0..255 /\ HiBytes \subseteq 0..255
    BY ListAssumption DEF TailData
  <2> QED
    BY <1>1, <2>1
<1>3. PICK c \in Cells : c = used + 1
  BY <1>2 DEF core_list_insert_new
<1>4. /\ next' = [next EXCEPT ![c] = next[1], ![1] = c]
      /\ idx' = [idx EXCEPT ![c] = TailIdx] /\ data16' = [data16 EXCEPT ![c] = [hi |-> d, lo |-> d]]
      /\ used' = c
  BY <1>2, <1>3 DEF core_list_insert_new
<1>5. /\ list = 1 /\ used \in 1..Size /\ home = << >>
      /\ next[1] = (IF used = 1 THEN NULL ELSE used)
      /\ \A x \in 2..used : next[x] = IF x = 2 THEN NULL ELSE x - 1
      /\ idx[1] = 0 /\ \A x \in 2..used : idx[x] = TailIdx
  BY <1>1 DEF ListInv, BuildInv
<1>6. /\ next \in [Cells -> Cells \union {NULL}] /\ idx \in [Cells -> Nat]
      /\ data16 \in [Cells -> [hi : 0..255, lo : 0..255]] /\ info = [x \in Cells |-> x]
  BY <1>1 DEF ListInv, ListTypeOK
<1>7. Size \in Nat /\ Cells = 1..Size /\ 1 \in Cells /\ TailIdx \in Nat /\ c \in 2..Size
  BY <1>3, <1>5, SizeFacts DEF TailIdx
<1>8. ListTypeOK'
  <2>1. next[1] \in Cells \union {NULL}
    BY <1>6, <1>7
  <2>2. next' \in [Cells -> Cells \union {NULL}]
    BY <1>3, <1>4, <1>6, <1>7, <2>1
  <2>3. idx' \in [Cells -> Nat]
    BY <1>4, <1>6, <1>7
  <2>4. data16' \in [Cells -> [hi : 0..255, lo : 0..255]]
    BY <1>4, <1>6
  <2> QED
    BY <1>1, <1>6, <2>2, <2>3, <2>4 DEF ListTypeOK
<1>9. BuildInv'
  <2>1. next'[1] = IF c = 1 THEN NULL ELSE c
    BY <1>4, <1>6, <1>7
  <2>2. ASSUME NEW x \in 2..c PROVE next'[x] = IF x = 2 THEN NULL ELSE x - 1
    <3>1. CASE x = c
      <4>1. next'[c] = next[1]
        BY <1>4, <1>6, <1>7
      <4>2. (used = 1 <=> c = 2) /\ used = c - 1
        BY <1>3, <1>5
      <4> QED
        BY <1>5, <3>1, <4>1, <4>2
    <3>2. CASE x # c
      <4>1. x \in 2..used /\ x \in Cells /\ x # 1
        BY <1>3, <1>5, <1>7, <3>2
      <4>2. next'[x] = next[x]
        BY <1>4, <1>6, <3>2, <4>1
      <4> QED
        BY <1>5, <4>1, <4>2
    <3> QED
      BY <3>1, <3>2
  <2>3. idx'[1] = 0
    BY <1>4, <1>5, <1>6, <1>7
  <2>4. ASSUME NEW x \in 2..c PROVE idx'[x] = TailIdx
    <3>1. x \in Cells /\ (x # c => x \in 2..used)
      BY <1>3, <1>5, <1>7
    <3> QED
      BY <1>4, <1>5, <1>6, <3>1
  <2>5. c \in 1..Size /\ c > 1
    BY <1>7
  <2> QED
    BY <1>1, <1>4, <1>5, <2>1, <2>2, <2>3, <2>4, <2>5 DEF BuildInv
<1>10. SortInv' /\ IndexInv' /\ WholeInv' /\ CutInv' /\ HomeInv'
  BY <1>1, <1>5 DEF SortInv, IndexInv, WholeInv, CutInv, HomeInv, Whole
<1> QED
  BY <1>8, <1>9, <1>10 DEF ListInv

\* IndexItems: the items are numbered, each with a number of its own.
LEMMA IndexItemsInv ==
  ASSUME ListInv, IndexItems
  PROVE  ListInv'
<1> DEFINE items == 3..ListSize-1
<1>1. /\ pc = "insert" /\ used + 1 \notin Cells /\ core_list_mergesort("idx", "ready")
      /\ UNCHANGED <<next, info, data16, home>>
  BY DEF IndexItems
<1>2. PICK f \in [items -> 1..Cardinality(items)] :
           /\ \A c, d \in items : c # d => f[c] # f[d]
           /\ idx' = [c \in Cells |-> IF c \in items THEN f[c] ELSE idx[c]]
  BY DEF IndexItems
<1>3. /\ list = 1 /\ used \in 1..Size /\ home = << >>
      /\ next[1] = (IF used = 1 THEN NULL ELSE used)
      /\ \A x \in 2..used : next[x] = IF x = 2 THEN NULL ELSE x - 1
      /\ idx[1] = 0 /\ \A x \in 2..used : idx[x] = TailIdx
  BY <1>1 DEF ListInv, BuildInv
<1>4. Size \in Nat /\ Size >= 3 /\ ListSize = Size + 1 /\ Cells = 1..Size /\ 1 \in Cells /\ 2 \in Cells
  BY SizeFacts
<1>5. used = Size
  BY <1>1, <1>3, <1>4
<1>6. items = 3..Size /\ Cardinality(items) = Size - 2 /\ Size - 2 < TailIdx /\ TailIdx \in Nat
  <2>1. items = 3..Size
    BY <1>4
  <2>2. IsFiniteSet(3..Size) /\ Cardinality(3..Size) = IF 3 > Size THEN 0 ELSE Size - 3 + 1
    <3>1. 3 \in Int /\ Size \in Int
      BY <1>4
    <3> QED
      BY <3>1, FS_Interval
  <2>3. Size - 2 < TailIdx /\ TailIdx \in Nat
    BY <1>4, ListAssumption DEF TailIdx
  <2> QED
    BY <1>4, <2>1, <2>2, <2>3
<1> HIDE DEF items
<1>7. \A c \in items : f[c] \in Nat /\ f[c] > 0 /\ f[c] < TailIdx
  BY <1>4, <1>6
<1>8. idx'[1] = 0 /\ idx'[2] = TailIdx /\ \A c \in items : c \in Cells /\ idx'[c] = f[c]
  <2>1. 2 \in 2..used /\ 1 \notin items /\ 2 \notin items /\ \A c \in items : c \in Cells
    BY <1>4, <1>5, <1>6
  <2> QED
    BY <1>2, <1>3, <1>4, <2>1
<1>9. \A c \in Cells : c = 1 \/ c = 2 \/ c \in items
  BY <1>4, <1>6
<1>10. idx' \in [Cells -> Nat]
  <2>1. \A c \in Cells : idx'[c] \in Nat
    BY <1>6, <1>7, <1>8, <1>9
  <2>2. idx' = [c \in Cells |-> idx'[c]]
    BY <1>2
  <2> QED
    BY <2>1, <2>2
<1>11. \A c, d \in Cells : idx'[c] = idx'[d] => c = d
  <2>1. TailIdx > 0
    BY DEF TailIdx
  <2> QED
    BY <1>2, <1>6, <1>7, <1>8, <1>9, <2>1
<1> DEFINE u == [ix \in 1..Size |-> IF ix = 1 THEN 1 ELSE (Size + 2) - ix]
<1>12. u \in Orders
  <2>1. u \in [1..Size -> Cells]
    BY <1>4
  <2>2. \A ix, j \in 1..Size : u[ix] = u[j] => ix = j
    BY <1>4
  <2>3. ASSUME NEW c \in Cells PROVE \E ix \in 1..Size : u[ix] = c
    <3>1. CASE c = 1
      <4>1. 1 \in 1..Size /\ u[1] = c
        BY <1>4, <3>1
      <4> QED
        BY <4>1
    <3>2. CASE c # 1
      <4>1. (Size + 2) - c \in 1..Size /\ u[(Size + 2) - c] = c
        BY <1>4, <3>2
      <4> QED
        BY <4>1
    <3> QED
      BY <3>1, <3>2
  <2> QED
    BY <2>1, <2>2, <2>3 DEF Orders
<1>13. u[1] = 1 /\ u[2] = Size /\ u[Size] = 2 /\ \A ix \in 2..Size : u[ix] = (Size + 2) - ix
  BY <1>4
<1> HIDE DEF u
<1>14. Chain(next, u)
  <2>1. ASSUME NEW ix \in 1..Size-1 PROVE next[u[ix]] = u[ix + 1]
    <3>1. CASE ix = 1
      <4>1. next[1] = Size /\ 1 + 1 = 2
        BY <1>3, <1>4, <1>5
      <4> QED
        BY <1>13, <3>1, <4>1
    <3>2. CASE ix # 1
      <4>1. ix \in 2..Size /\ ix + 1 \in 2..Size
        BY <1>4, <3>2
      <4>2. u[ix] = (Size + 2) - ix /\ u[ix + 1] = (Size + 2) - (ix + 1)
        BY <1>13, <4>1
      <4>3. (Size + 2) - ix \in 2..used /\ (Size + 2) - ix # 2 /\ ((Size + 2) - ix) - 1 = (Size + 2) - (ix + 1)
        BY <1>4, <1>5, <3>2
      <4> QED
        BY <1>3, <4>2, <4>3
    <3> QED
      BY <3>1, <3>2
  <2>2. next[u[Size]] = NULL
    <3>1. 2 \in 2..used
      BY <1>4, <1>5
    <3> QED
      BY <1>3, <1>13, <3>1
  <2> QED
    BY <2>1, <2>2 DEF Chain, Run
<1>15. PICK cmp, ret : cmp = "idx" /\ ret = "ready"
  OBVIOUS
<1>16. pc # "undo" /\ list = u[1]
  BY <1>1, <1>3, <1>13
<1> QED
  BY <1>1, <1>3, <1>8, <1>10, <1>11, <1>12, <1>14, <1>15, <1>16, SortBegins

\* The first state.
LEMMA ListStarts ==
  ASSUME Boot, ListInit
  PROVE  ListInv
<1>1. Size \in Nat /\ Size >= 3 /\ Cells = 1..Size /\ 1 \in Cells /\ 1 \in 1..Size
  BY SizeFacts
<1>2. pc = "reset"
  BY DEF Boot
<1>3. ListTypeOK
  BY <1>2 DEF ListInit, ListTypeOK, HeadData
<1>4. BuildInv
  <2>1. \A c \in 2..1 : FALSE
    OBVIOUS
  <2> QED
    BY <1>1, <1>2, <2>1 DEF ListInit, BuildInv
<1>5. SortInv /\ IndexInv /\ WholeInv /\ CutInv /\ HomeInv
  BY <1>2 DEF ListInit, SortInv, IndexInv, WholeInv, CutInv, HomeInv, Whole
<1> QED
  BY <1>3, <1>4, <1>5 DEF ListInv

\* The links of a whole list give its order.
LEMMA FromWhole ==
  ASSUME NEW w \in Orders, Chain(next, w)
  PROVE  From(w[1]) = w /\ ~Loops(w[1]) /\ Len(w) = Size /\ DOMAIN w = 1..Size
<1>1. Size \in Nat /\ 1 \in 1..Size /\ Size \in 1..Size /\ 1 <= Size /\ Size - 1 + 1 = Size
      /\ \A k \in 1..Size : 1 + k - 1 = k
  BY SizeFacts
<1>2. From(w[1]) = [k \in 1..(Size - 1 + 1) |-> w[1 + k - 1]] /\ ~Loops(w[1])
  BY <1>1, FromIs DEF Chain
<1>3. w = [k \in 1..Size |-> w[k]] /\ DOMAIN w = 1..Size
  BY OrderFacts
<1>4. From(w[1]) = w
  BY <1>1, <1>2, <1>3
<1>5. Len([k \in 1..Size |-> w[k]]) = Size
  BY <1>1
<1> QED
  BY <1>2, <1>3, <1>4, <1>5

\* What a reader sees of it.
LEMMA ViewIs ==
  ASSUME NEW w \in Orders, Chain(next, w), list = w[1], info = [c \in Cells |-> c]
  PROVE  View = [k \in 1..Size |-> [idx |-> idx[w[k]], data |-> data16[w[k]]]]
<1>1. From(list) = w /\ DOMAIN w = 1..Size
  BY FromWhole
<1>2. \A k \in 1..Size : info[w[k]] = w[k]
  BY OrderFacts
<1> QED
  BY <1>1, <1>2 DEF View

\* A list sorted by index has no cached results.
LEMMA SortedRebuilt ==
  ASSUME NEW w \in Orders, Sorted("idx", w), data16 \in [Cells -> [hi : 0..255, lo : 0..255]]
  PROVE  /\ \A k \in 1..Size : data16[w[k]] = [hi |-> data16[w[k]].hi, lo |-> data16[w[k]].hi]
         /\ \A ix \in 1..Size-1 : idx[w[ix]] <= idx[w[ix + 1]]
<1>1. Size \in Nat /\ Size >= 3 /\ \A ix \in 1..Size : w[ix] \in Cells
  BY SizeFacts, OrderFacts
<1>2. ASSUME NEW k \in 1..Size PROVE data16[w[k]].lo = data16[w[k]].hi
  <2>1. CASE k = Size
    <3>1. k - 1 \in 1..Size-1 /\ (k - 1) + 1 = k
      BY <1>1, <2>1
    <3> QED
      BY <3>1 DEF Sorted, Fine, Compared
  <2>2. CASE k # Size
    <3>1. k \in 1..Size-1
      BY <1>1, <2>2
    <3> QED
      BY <3>1 DEF Sorted, Fine, Compared
  <2> QED
    BY <2>1, <2>2
<1>3. ASSUME NEW k \in 1..Size PROVE data16[w[k]] = [hi |-> data16[w[k]].hi, lo |-> data16[w[k]].hi]
  <2>1. data16[w[k]] \in [hi : 0..255, lo : 0..255]
    BY <1>1
  <2> QED
    BY <1>2, <2>1
<1>4. \A ix \in 1..Size-1 : idx[w[ix]] <= idx[w[ix + 1]]
  BY DEF Sorted, Fine, Key
<1> QED
  BY <1>3, <1>4

\* StartBench: the list as core_list_init made it is the one to go back to.
LEMMA StartBenchInv ==
  ASSUME ListInv, StartBench
  PROVE  ListInv'
<1>1. /\ pc = "ready" /\ pc' = "find" /\ pc \in Whole /\ pc' \in Whole
      /\ home' = (IF home = << >> THEN View ELSE home)
      /\ UNCHANGED <<list, next, info, idx, data16>>
  BY DEF StartBench, Whole
<1>2. PICK w \in Orders : list = w[1] /\ Chain(next, w) /\ Sorted("idx", w)
  BY <1>1, Between
<1>3. /\ next \in [Cells -> Cells \union {NULL}] /\ info = [c \in Cells |-> c]
      /\ data16 \in [Cells -> [hi : 0..255, lo : 0..255]]
  BY <1>1, Between
<1>4. \E v \in Orders : IsHome(home, v)'
  <2>1. CASE home = << >>
    <3>1. View = [k \in 1..Size |-> [idx |-> idx[w[k]], data |-> data16[w[k]]]]
      BY <1>2, <1>3, ViewIs
    <3>2. /\ \A k \in 1..Size : data16[w[k]] = [hi |-> data16[w[k]].hi, lo |-> data16[w[k]].hi]
          /\ \A ix \in 1..Size-1 : idx[w[ix]] <= idx[w[ix + 1]]
      BY <1>2, <1>3, SortedRebuilt
    <3>3. home' = [k \in 1..Size |-> [idx |-> idx[w[k]],
                                      data |-> [hi |-> data16[w[k]].hi, lo |-> data16[w[k]].hi]]]
      BY <1>1, <2>1, <3>1, <3>2
    <3>4. IsHome(home, w)'
      BY <1>1, <3>2, <3>3 DEF IsHome
    <3> QED
      BY <3>4
  <2>2. CASE home # << >>
    <3>1. PICK v \in Orders : IsHome(home, v)
      BY <2>2 DEF ListInv, HomeInv
    <3>2. home' = home
      BY <1>1, <2>2
    <3> QED
      BY <1>1, <3>1, <3>2, HomeKept
  <2> QED
    BY <2>1, <2>2
<1>5. Chain(next, w)' /\ pc' \notin {"ready", "return"} /\ pc' # "remove"
  BY <1>1, <1>2 DEF Chain, Run
<1> QED
  BY <1>1, <1>2, <1>3, <1>4, <1>5, CallGoesOn

\* core_list_remove: the third cell goes, with the data of the second.
LEMMA RemoveInv ==
  ASSUME ListInv, core_list_remove
  PROVE  ListInv'
<1>1. pc = "remove" /\ pc' = "undo" /\ pc \in Whole /\ UNCHANGED <<list, idx, data16, home>>
  BY DEF core_list_remove, Whole
<1>2. PICK w \in Orders : list = w[1] /\ Chain(next, w)
  BY <1>1, Between
<1>3. next \in [Cells -> Cells \union {NULL}] /\ info = [c \in Cells |-> c]
  BY <1>1, Between
<1>4. /\ Size \in Nat /\ Size >= 3 /\ 1 \in 1..Size /\ 2 \in 1..Size /\ 3 \in 1..Size
      /\ 1 \in 1..Size-1 /\ 2 \in 1..Size-1 /\ (Size # 3 => 3 \in 1..Size-1) /\ Size \in 1..Size
  BY SizeFacts
<1>5. \A ix \in 1..Size : w[ix] \in Cells
  BY OrderFacts
<1>6. \A ix, j \in 1..Size : w[ix] = w[j] => ix = j
  BY OrderFacts
<1>7. \A ix \in 1..Size-1 : next[w[ix]] = w[ix + 1]
  BY <1>2 DEF Chain, Run
<1>8. /\ next[w[1]] = w[2] /\ next[w[2]] = w[3] /\ w[1] # w[2] /\ w[1] # w[3] /\ w[2] # w[3]
      /\ next[w[3]] = IF Size = 3 THEN NULL ELSE w[4]
  <2>1. next[w[1]] = w[1 + 1] /\ next[w[2]] = w[2 + 1] /\ (Size # 3 => next[w[3]] = w[3 + 1])
    BY <1>4, <1>7
  <2>2. w[1] # w[2] /\ w[1] # w[3] /\ w[2] # w[3]
    BY <1>4, <1>6
  <2>3. Size = 3 => next[w[3]] = NULL
    BY <1>2 DEF Chain
  <2> QED
    BY <2>1, <2>2, <2>3
<1>9. PICK a \in Cells, b \in Cells : a = w[2] /\ b = w[3] /\ a # b
  BY <1>4, <1>5, <1>8
<1>10. /\ info' = [info EXCEPT ![a] = info[b], ![b] = info[a]]
       /\ next' = [next EXCEPT ![a] = next[b], ![b] = NULL] /\ remover' = b
  BY <1>2, <1>8, <1>9 DEF core_list_remove
<1>11. next' \in [Cells -> Cells \union {NULL}]
  <2>1. next[b] \in Cells \union {NULL}
    BY <1>3
  <2> QED
    BY <1>3, <1>10, <2>1
<1>12. info' = [c \in Cells |-> IF c = a THEN b ELSE IF c = b THEN a ELSE c]
  BY <1>3, <1>9, <1>10
<1>13. next'[a] = next[b] /\ next'[b] = NULL /\ \A c \in Cells \ {a, b} : next'[c] = next[c]
  BY <1>3, <1>9, <1>10
<1>14. next'[w[1]] = w[2] /\ next'[w[2]] = IF Size = 3 THEN NULL ELSE w[4]
  BY <1>4, <1>5, <1>8, <1>9, <1>13
<1>15. ASSUME NEW ix \in 4..Size PROVE next'[w[ix]] = next[w[ix]]
  <2>1. ix \in 1..Size /\ ix # 2 /\ ix # 3
    BY <1>4
  <2>2. w[ix] \in Cells \ {a, b}
    BY <1>4, <1>5, <1>6, <1>9, <2>1
  <2> QED
    BY <1>13, <2>2
<1>16. Run(next, w, 4, Size)' /\ (Size > 3 => next'[w[Size]] = NULL)
  <2>1. \A ix \in 4..Size-1 : ix \in 4..Size /\ ix \in 1..Size-1
    BY <1>4
  <2>2. Run(next, w, 4, Size)'
    BY <1>7, <1>15, <2>1 DEF Run
  <2>3. Size > 3 => Size \in 4..Size
    BY <1>4
  <2> QED
    BY <1>2, <1>15, <2>2, <2>3 DEF Chain
<1>17. CutInv'
  <2>1. /\ list' = w[1] /\ remover' = w[3]
        /\ info' = [c \in Cells |-> IF c = w[2] THEN w[3] ELSE IF c = w[3] THEN w[2] ELSE c]
    BY <1>1, <1>2, <1>9, <1>10, <1>12
  <2> QED
    BY <1>14, <1>16, <2>1 DEF CutInv
<1>18. ListTypeOK'
  BY <1>1, <1>11 DEF ListInv, ListTypeOK
<1>19. SortInv' /\ BuildInv' /\ WholeInv'
  BY <1>1 DEF SortInv, BuildInv, WholeInv, Whole
<1>20. IndexInv'
  BY <1>1 DEF ListInv, IndexInv
<1>21. HomeInv'
  BY <1>1, Between, HomeKept DEF HomeInv
<1> QED
  BY <1>17, <1>18, <1>19, <1>20, <1>21 DEF ListInv

\* core_list_undo_remove: it comes back, and the data with it.
LEMMA UndoInv ==
  ASSUME ListInv, core_list_undo_remove
  PROVE  ListInv'
<1>1. pc = "undo" /\ pc' = "sortback" /\ pc' \in Whole /\ UNCHANGED <<list, idx, data16, home>>
  BY DEF core_list_undo_remove, Whole
<1>2. PICK w \in Orders :
      /\ list = w[1] /\ next[w[1]] = w[2] /\ remover = w[3]
      /\ next[w[2]] = (IF Size = 3 THEN NULL ELSE w[4])
      /\ Run(next, w, 4, Size) /\ (Size > 3 => next[w[Size]] = NULL)
      /\ info = [c \in Cells |-> IF c = w[2] THEN w[3] ELSE IF c = w[3] THEN w[2] ELSE c]
  BY <1>1 DEF ListInv, CutInv
<1>3. next \in [Cells -> Cells \union {NULL}]
  BY DEF ListInv, ListTypeOK
<1>4. /\ Size \in Nat /\ Size >= 3 /\ 1 \in 1..Size /\ 2 \in 1..Size /\ 3 \in 1..Size /\ Size \in 1..Size
  BY SizeFacts
<1>5. \A ix \in 1..Size : w[ix] \in Cells
  BY OrderFacts
<1>6. \A ix, j \in 1..Size : w[ix] = w[j] => ix = j
  BY OrderFacts
<1>7. PICK a \in Cells, b \in Cells : a = w[2] /\ b = w[3] /\ a # b
  BY <1>4, <1>5, <1>6
<1>8. /\ info' = [info EXCEPT ![a] = info[b], ![b] = info[a]]
      /\ next' = [next EXCEPT ![b] = next[a], ![a] = b]
  BY <1>2, <1>7 DEF core_list_undo_remove
<1>9. info' = [c \in Cells |-> c]
  BY <1>2, <1>7, <1>8
<1>10. next' \in [Cells -> Cells \union {NULL}]
  <2>1. next[a] \in Cells \union {NULL}
    BY <1>3
  <2> QED
    BY <1>3, <1>8, <2>1
<1>11. next'[b] = next[a] /\ next'[a] = b /\ \A c \in Cells \ {a, b} : next'[c] = next[c]
  BY <1>3, <1>7, <1>8
<1>12. ASSUME NEW ix \in 1..Size, ix # 2, ix # 3 PROVE next'[w[ix]] = next[w[ix]]
  <2>1. w[ix] \in Cells \ {a, b}
    BY <1>4, <1>5, <1>6, <1>7, <1>12
  <2> QED
    BY <1>11, <2>1
<1>13. ASSUME NEW ix \in 1..Size-1 PROVE next'[w[ix]] = w[ix + 1]
  <2>0. ix \in 1..Size
    BY <1>4
  <2>1. CASE ix = 1
    <3>1. next'[w[1]] = w[2] /\ 1 + 1 = 2
      BY <1>2, <1>4, <1>12
    <3> QED
      BY <2>1, <3>1
  <2>2. CASE ix = 2
    <3>1. 2 + 1 = 3
      OBVIOUS
    <3> QED
      BY <1>7, <1>11, <2>2, <3>1
  <2>3. CASE ix = 3
    <3>1. Size # 3 /\ 3 + 1 = 4
      BY <1>4, <2>3
    <3> QED
      BY <1>2, <1>7, <1>11, <2>3, <3>1
  <2>4. CASE ix \notin {1, 2, 3}
    <3>1. ix \in 4..Size-1 /\ ix # 2 /\ ix # 3
      BY <1>4, <2>4
    <3> QED
      BY <1>2, <1>12, <2>0, <3>1 DEF Run
  <2> QED
    BY <2>1, <2>2, <2>3, <2>4
<1>14. next'[w[Size]] = NULL
  <2>1. CASE Size = 3
    BY <1>2, <1>7, <1>11, <2>1
  <2>2. CASE Size # 3
    <3>1. Size > 3 /\ Size # 2
      BY <1>4, <2>2
    <3> QED
      BY <1>2, <1>4, <1>12, <2>2, <3>1
  <2> QED
    BY <2>1, <2>2
<1>15. Chain(next, w)'
  BY <1>13, <1>14 DEF Chain, Run
<1>16. \E v \in Orders : IsHome(home, v)'
  <2>1. \E v \in Orders : IsHome(home, v)
    BY <1>1 DEF ListInv, HomeInv
  <2> QED
    BY <1>1, <2>1, HomeKept
<1>17. pc' \notin {"ready", "return"} /\ pc' # "remove" /\ list' = w[1]
  BY <1>1, <1>2
<1> QED
  BY <1>1, <1>9, <1>10, <1>15, <1>16, <1>17, CallGoesOn

\* Reversed turns the links round.
LEMMA ReversedIs ==
  ASSUME NEW w \in Orders, Chain(next, w), list = w[1]
  PROVE  Reversed \in [Cells -> Cells \union {NULL}] /\ Chain(Reversed, Backward(w))
<1>1. From(list) = w /\ DOMAIN w = 1..Size
  BY FromWhole
<1>2. Size \in Nat /\ Size >= 3 /\ \A ix \in 1..Size : w[ix] \in Cells
  BY SizeFacts, OrderFacts
<1>3. \A ix, j \in 1..Size : w[ix] = w[j] => ix = j
  BY OrderFacts
<1>4. Reversed = [c \in Cells |-> IF \E k \in 1..Size : k > 1 /\ w[k] = c
                                  THEN w[(CHOOSE k \in 1..Size : w[k] = c) - 1] ELSE NULL]
  BY <1>1 DEF Reversed
<1>5. ASSUME NEW k \in 1..Size PROVE Reversed[w[k]] = IF k > 1 THEN w[k - 1] ELSE NULL
  <2>0. PICK c \in Cells : c = w[k]
    BY <1>2
  <2>1. \A j \in 1..Size : w[j] = c <=> j = k
    BY <1>3, <2>0
  <2>2. (CHOOSE j \in 1..Size : w[j] = c) = k
    BY <2>1
  <2>3. (\E j \in 1..Size : j > 1 /\ w[j] = c) <=> k > 1
    BY <2>1
  <2>4. Reversed[c] = IF \E j \in 1..Size : j > 1 /\ w[j] = c
                      THEN w[(CHOOSE j \in 1..Size : w[j] = c) - 1] ELSE NULL
    BY <1>4
  <2>5. Reversed[c] = IF k > 1 THEN w[k - 1] ELSE NULL
    BY <2>2, <2>3, <2>4
  <2> QED
    BY <2>0, <2>5
<1>6. ASSUME NEW c \in Cells PROVE Reversed[c] \in Cells \union {NULL}
  <2>1. PICK k \in 1..Size : w[k] = c
    BY OrderFacts
  <2>2. k > 1 => k - 1 \in 1..Size
    BY <1>2
  <2> QED
    BY <1>2, <1>5, <2>1, <2>2
<1>7. Reversed \in [Cells -> Cells \union {NULL}]
  <2>1. Reversed = [c \in Cells |-> Reversed[c]]
    BY <1>4
  <2> QED
    BY <1>6, <2>1
<1>8. ASSUME NEW ix \in 1..Size-1 PROVE Reversed[Backward(w)[ix]] = Backward(w)[ix + 1]
  <2>1. PICK k \in 1..Size : k = (Size + 1) - ix /\ k > 1 /\ k - 1 = (Size + 1) - (ix + 1)
    BY <1>2
  <2>2. Backward(w)[ix] = w[k] /\ Backward(w)[ix + 1] = w[k - 1]
    <3>1. ix \in 1..Size /\ ix + 1 \in 1..Size
      BY <1>2
    <3> QED
      BY <2>1, <3>1 DEF Backward
  <2> QED
    BY <1>5, <2>1, <2>2
<1>9. Reversed[Backward(w)[Size]] = NULL
  <2>1. Size \in 1..Size /\ (Size + 1) - Size = 1 /\ 1 \in 1..Size /\ ~(1 > 1)
    BY <1>2
  <2>2. Backward(w)[Size] = w[1]
    BY <2>1 DEF Backward
  <2> QED
    BY <1>5, <2>1, <2>2
<1> QED
  BY <1>7, <1>8, <1>9 DEF Chain, Run

\* What the pass does to the links nx when it found a cell that is not the last.
BehindHead(nx, hit, head) ==
  LET after == nx[hit]
      cut == [nx EXCEPT ![hit] = nx[after]]
  IN  [cut EXCEPT ![after] = cut[head], ![head] = after]

\* The cell behind place j moves behind the head.
LEMMA MovedBehindHead ==
  ASSUME NEW v \in Orders, NEW nx \in [Cells -> Cells \union {NULL}], Chain(nx, v),
         NEW j \in 1..Size-1
  PROVE  /\ BehindHead(nx, v[j], v[1]) \in [Cells -> Cells \union {NULL}]
         /\ \E u \in Orders : u[1] = v[1] /\ Chain(BehindHead(nx, v[j], v[1]), u)
<1>0. PICK hit, after, head, cut, ny :
        /\ hit = v[j] /\ after = nx[hit] /\ head = v[1] /\ cut = [nx EXCEPT ![hit] = nx[after]]
        /\ ny = [cut EXCEPT ![after] = cut[head], ![head] = after]
        /\ ny = BehindHead(nx, v[j], v[1])
  BY DEF BehindHead
<1>1. Size \in Nat /\ Size >= 3 /\ \A ix \in 1..Size : v[ix] \in Cells
  BY SizeFacts, OrderFacts
<1>2. \A ix, k \in 1..Size : v[ix] = v[k] => ix = k
  BY OrderFacts
<1>3. \A ix \in 1..Size-1 : nx[v[ix]] = v[ix + 1]
  BY DEF Chain, Run
<1>4. nx[v[Size]] = NULL
  BY DEF Chain
<1>5. j \in 1..Size /\ j + 1 \in 1..Size /\ 1 \in 1..Size /\ 2 \in 1..Size /\ 2 <= j + 1
  BY <1>1
<1>6. after = v[j + 1] /\ hit \in Cells /\ after \in Cells /\ head \in Cells
      /\ hit # after /\ head # after /\ (hit = head <=> j = 1)
  <2>1. after = v[j + 1]
    BY <1>0, <1>3
  <2>2. j # j + 1 /\ 1 # j + 1
    BY <1>5
  <2> QED
    BY <1>0, <1>1, <1>2, <1>5, <2>1, <2>2
<1>7. nx[after] \in Cells \union {NULL} /\ cut \in [Cells -> Cells \union {NULL}]
      /\ cut[hit] = nx[after] /\ \A c \in Cells \ {hit} : cut[c] = nx[c]
  BY <1>0, <1>6
<1>8. cut[head] \in Cells \union {NULL}
  BY <1>6, <1>7
<1>9. ny \in [Cells -> Cells \union {NULL}] /\ ny[head] = after /\ ny[after] = cut[head]
      /\ \A c \in Cells \ {head, after} : ny[c] = cut[c]
  BY <1>0, <1>6, <1>7, <1>8
<1>10. PICK u \in Orders : u = Bring(v, 2, j + 1)
  BY <1>5, BringOrder
<1>11. /\ u[1] = v[1] /\ u[2] = v[j + 1]
       /\ \A ix \in 2..j : u[ix + 1] = v[ix]
       /\ \A ix \in j+2..Size : u[ix] = v[ix]
  <2>1. \A ix \in 1..Size : u[ix] = IF ix = 2 THEN v[j + 1] ELSE IF ix \in 2+1..j+1 THEN v[ix - 1] ELSE v[ix]
    BY <1>10 DEF Bring
  <2>2. 1 # 2 /\ 1 \notin 2+1..j+1
    BY <1>1
  <2>3. \A ix \in 2..j : ix + 1 \in 1..Size /\ ix + 1 # 2 /\ ix + 1 \in 2+1..j+1 /\ (ix + 1) - 1 = ix
    BY <1>1
  <2>4. \A ix \in j+2..Size : ix \in 1..Size /\ ix # 2 /\ ix \notin 2+1..j+1
    BY <1>1
  <2> QED
    BY <1>5, <2>1, <2>2, <2>3, <2>4
<1>12. nx[after] = IF j + 1 = Size THEN NULL ELSE v[j + 2]
  <2>1. j + 1 # Size => j + 1 \in 1..Size-1 /\ (j + 1) + 1 = j + 2
    BY <1>1
  <2> QED
    BY <1>3, <1>4, <1>6, <2>1
<1>13. ASSUME NEW ix \in 2..Size, ix # j, ix # j + 1 PROVE ny[v[ix]] = nx[v[ix]]
  <2>1. ix \in 1..Size /\ ix # 1
    BY <1>1
  <2>2. v[ix] # head /\ v[ix] # hit /\ v[ix] # after /\ v[ix] \in Cells
    BY <1>0, <1>1, <1>2, <1>5, <1>6, <1>13, <2>1
  <2> QED
    BY <1>7, <1>9, <2>2
<1>14. ny[u[1]] = u[2]
  BY <1>0, <1>6, <1>9, <1>11
<1>15. ny[u[2]] = u[3]
  <2>1. CASE j = 1
    <3>1. j + 1 # Size /\ j + 2 = 3 /\ 3 \in j+2..Size
      BY <1>1, <2>1
    <3>2. cut[head] = v[3]
      BY <1>6, <1>7, <1>12, <2>1, <3>1
    <3> QED
      BY <1>6, <1>9, <1>11, <3>1, <3>2
  <2>2. CASE j # 1
    <3>1. 2 \in 2..j /\ 2 + 1 = 3 /\ 1 \in 1..Size-1 /\ 1 + 1 = 2
      BY <1>1, <2>2
    <3>2. cut[head] = v[2]
      BY <1>0, <1>3, <1>6, <1>7, <2>2, <3>1
    <3>3. u[3] = v[2]
      BY <1>11, <3>1
    <3> QED
      BY <1>6, <1>9, <1>11, <3>2, <3>3
  <2> QED
    BY <2>1, <2>2
<1>16. ASSUME NEW ix \in 2..j-1 PROVE ny[u[ix + 1]] = u[(ix + 1) + 1]
  <2>1. ix \in 2..j /\ ix + 1 \in 2..j /\ ix \in 2..Size /\ ix # j /\ ix # j + 1 /\ ix \in 1..Size-1
    BY <1>1
  <2>2. u[ix + 1] = v[ix] /\ u[(ix + 1) + 1] = v[ix + 1]
    BY <1>11, <2>1
  <2> QED
    BY <1>3, <1>13, <2>1, <2>2
<1>17. j # 1 => ny[u[j + 1]] = IF j + 1 = Size THEN NULL ELSE u[j + 2]
  <2> SUFFICES ASSUME j # 1 PROVE ny[u[j + 1]] = IF j + 1 = Size THEN NULL ELSE u[j + 2]
    OBVIOUS
  <2>1. j \in 2..j /\ (j + 1 # Size => j + 2 \in j+2..Size)
    BY <1>1
  <2>2. u[j + 1] = hit /\ hit # head /\ (j + 1 # Size => u[j + 2] = v[j + 2])
    BY <1>0, <1>6, <1>11, <2>1
  <2>3. ny[hit] = nx[after]
    BY <1>6, <1>7, <1>9, <2>2
  <2> QED
    BY <1>12, <2>2, <2>3
<1>18. ASSUME NEW ix \in j+2..Size PROVE ny[u[ix]] = nx[v[ix]] /\ u[ix] = v[ix]
  <2>1. ix \in 2..Size /\ ix # j /\ ix # j + 1
    BY <1>1
  <2> QED
    BY <1>11, <1>13, <2>1
<1>19. ASSUME NEW ix \in 1..Size-1 PROVE ny[u[ix]] = u[ix + 1]
  <2>1. CASE ix = 1
    <3>1. 1 + 1 = 2
      OBVIOUS
    <3> QED
      BY <1>14, <2>1, <3>1
  <2>2. CASE ix = 2
    <3>1. 2 + 1 = 3
      OBVIOUS
    <3> QED
      BY <1>15, <2>2, <3>1
  <2>3. CASE ix > 2 /\ ix <= j
    <3>1. PICK k \in 2..j-1 : ix = k + 1
      <4>1. ix - 1 \in 2..j-1 /\ ix = (ix - 1) + 1
        BY <1>1, <2>3
      <4> QED
        BY <4>1
    <3> QED
      BY <1>16, <3>1
  <2>4. CASE ix > 2 /\ ix = j + 1
    <3>1. j # 1 /\ j + 1 # Size /\ ix + 1 = j + 2
      BY <1>1, <2>4
    <3> QED
      BY <1>17, <2>4, <3>1
  <2>5. CASE ix > j + 1
    <3>1. ix \in j+2..Size /\ ix + 1 \in j+2..Size
      BY <1>1, <2>5
    <3> QED
      BY <1>3, <1>18, <3>1
  <2>6. ix = 1 \/ ix = 2 \/ (ix > 2 /\ ix <= j) \/ (ix > 2 /\ ix = j + 1) \/ ix > j + 1
    BY <1>1
  <2> QED
    BY <2>1, <2>2, <2>3, <2>4, <2>5, <2>6
<1>20. ny[u[Size]] = NULL
  <2>1. CASE j + 1 = Size
    <3>1. j # 1
      BY <1>1, <2>1
    <3> QED
      BY <1>17, <2>1, <3>1
  <2>2. CASE j + 1 # Size
    <3>1. Size \in j+2..Size
      BY <1>1, <2>2
    <3> QED
      BY <1>4, <1>18, <3>1
  <2> QED
    BY <2>1, <2>2
<1>21. Chain(ny, u)
  BY <1>19, <1>20 DEF Chain, Run
<1>22. PICK nz : nz = BehindHead(nx, v[j], v[1])
  OBVIOUS
<1>23. ny = nz
  BY <1>0, <1>22
<1>24. nz \in [Cells -> Cells \union {NULL}] /\ u[1] = v[1] /\ Chain(nz, u)
  BY <1>9, <1>11, <1>21, <1>23
<1>25. nz \in [Cells -> Cells \union {NULL}] /\ \E x \in Orders : x[1] = v[1] /\ Chain(nz, x)
  BY <1>24
<1> QED
  BY <1>22, <1>25, Zenon

\* core_list_find returns a cell of the list or NULL.
LEMMA FindIs ==
  ASSUME NEW w \in Orders, Chain(next, w), list = w[1], NEW ix, NEW b
  PROVE  core_list_find(list, ix, b) \in Cells \union {NULL}
<1> DEFINE hits == {k \in DOMAIN From(list) :
                 IF ix >= 0 THEN idx[info[From(list)[k]]] = ix ELSE data16[info[From(list)[k]]].lo = b}
<1>1. From(list) = w /\ DOMAIN w = 1..Size /\ \A k \in 1..Size : w[k] \in Cells
  BY FromWhole, OrderFacts
<1>2. core_list_find(list, ix, b) =
        IF hits = {} THEN NULL ELSE From(list)[CHOOSE k \in hits : \A j \in hits : k <= j]
  BY DEF core_list_find
<1>3. hits \subseteq 1..Size /\ 1..Size \subseteq Nat
  BY <1>1, SizeFacts
<1> HIDE DEF hits
<1>4. CASE hits = {}
  BY <1>2, <1>4
<1>5. CASE hits # {}
  <2>1. \E k \in hits : \A j \in hits : k <= j
    BY <1>3, <1>5, LeastMember
  <2>2. PICK k \in hits : k = CHOOSE x \in hits : \A j \in hits : x <= j
    BY <2>1
  <2> QED
    BY <1>1, <1>2, <1>3, <1>5, <2>2
<1> QED
  BY <1>4, <1>5

\* FindPass: whatever was found, the list is whole again.
LEMMA FindPassInv ==
  ASSUME ListInv, FindPass
  PROVE  ListInv'
<1>1. /\ pc = "find" /\ pc' = pc /\ pc \in Whole /\ pc' \in Whole
      /\ UNCHANGED <<info, idx, data16, home>>
  BY DEF FindPass, Whole
<1>2. PICK w \in Orders : list = w[1] /\ Chain(next, w)
  BY <1>1, Between
<1>3. next \in [Cells -> Cells \union {NULL}] /\ info = [c \in Cells |-> c]
  BY <1>1, Between
<1>4. PICK v \in Orders : v = Backward(w)
  BY BackwardOrder
<1>5. PICK rev : rev = Reversed
  OBVIOUS
<1>6. rev \in [Cells -> Cells \union {NULL}] /\ Chain(rev, v)
  BY <1>2, <1>4, <1>5, ReversedIs
<1>7. From(list)[Len(From(list))] = v[1]
  <2>1. From(list) = w /\ Len(w) = Size
    BY <1>2, FromWhole
  <2>2. 1 \in 1..Size /\ (Size + 1) - 1 = Size
    BY SizeFacts
  <2>3. v[1] = w[Size]
    BY <1>4, <2>2 DEF Backward
  <2> QED
    BY <2>1, <2>3
<1>8. PICK hit \in Cells \union {NULL} : hit = core_list_find(list, find, n_found)
  BY <1>2, FindIs
<1>9. PICK head : head = v[1]
  OBVIOUS
<1>10. /\ list' = head
       /\ next' = IF hit = NULL \/ rev[hit] = NULL THEN rev
                  ELSE LET after == rev[hit]
                           cut == [rev EXCEPT ![hit] = rev[after]]
                       IN  [cut EXCEPT ![after] = cut[head], ![head] = after]
  BY <1>5, <1>7, <1>8, <1>9 DEF FindPass
<1>11. \E u \in Orders : list' = u[1] /\ Chain(next, u)' /\ next' \in [Cells -> Cells \union {NULL}]
  <2>1. CASE hit = NULL \/ rev[hit] = NULL
    <3>1. next' = rev
      BY <1>10, <2>1
    <3>2. Chain(next, v)'
      BY <1>6, <3>1 DEF Chain, Run
    <3> QED
      BY <1>6, <1>9, <1>10, <3>1, <3>2
  <2>2. CASE ~(hit = NULL \/ rev[hit] = NULL)
    <3>1. PICK k \in 1..Size : v[k] = hit
      BY <2>2, OrderFacts
    <3>2. k # Size /\ k \in 1..Size-1
      <4>1. k # Size
        BY <1>6, <2>2, <3>1 DEF Chain
      <4> QED
        BY <4>1, SizeFacts
    <3>3. /\ BehindHead(rev, v[k], v[1]) \in [Cells -> Cells \union {NULL}]
          /\ \E u \in Orders : u[1] = v[1] /\ Chain(BehindHead(rev, v[k], v[1]), u)
      BY <1>6, <3>2, MovedBehindHead
    <3>4. next' = BehindHead(rev, v[k], v[1])
      BY <1>9, <1>10, <2>2, <3>1 DEF BehindHead
    <3>5. PICK u \in Orders : u[1] = v[1] /\ Chain(next', u)
      BY <3>3, <3>4
    <3>6. Chain(next, u)'
      BY <3>5 DEF Chain, Run
    <3> QED
      BY <1>9, <1>10, <3>3, <3>4, <3>5, <3>6
  <2> QED
    BY <2>1, <2>2
<1>12. PICK u \in Orders : list' = u[1] /\ Chain(next, u)' /\ next' \in [Cells -> Cells \union {NULL}]
  BY <1>11
<1>13. \E y \in Orders : IsHome(home, y)'
  BY <1>1, Between, HomeKept
<1>14. pc' \notin {"ready", "return"} /\ pc' # "remove" /\ info' = [c \in Cells |-> c]
  BY <1>1, <1>3
<1> QED
  BY <1>1, <1>12, <1>13, <1>14, CallGoesOn

\* Every step of the program keeps the invariant.
LEMMA ListInvNext ==
  ASSUME ListInv, ListNext
  PROVE  ListInv'
<1>1. \/ InsertItems \/ IndexItems \/ StartMerge \/ TakeLower \/ EndMerge \/ EndPass
      \/ StartBench \/ FindPass \/ SortByContent \/ core_list_remove
      \/ core_list_undo_remove \/ SortByIndex \/ EndBench
  BY DEF ListNext
<1> QED
  BY <1>1, InsertItemsInv, IndexItemsInv, StartMergeInv, TakeLowerInv, EndMergeInv, EndPassInv,
     StartBenchInv, FindPassInv, SortByContentInv, RemoveInv, UndoInv, SortByIndexInv, EndBenchInv

\* A step that changes nothing keeps it.
LEMMA ListInvStutter ==
  ASSUME ListInv, UNCHANGED <<image, pc, listVars>>
  PROVE  ListInv'
<1>1. /\ pc' = pc /\ list' = list /\ next' = next /\ info' = info /\ idx' = idx /\ data16' = data16
      /\ used' = used /\ ms' = ms /\ finder_idx' = finder_idx /\ remover' = remover /\ home' = home
  BY DEF listVars
<1>2. ListTypeOK' = ListTypeOK /\ BuildInv' = BuildInv /\ IndexInv' = IndexInv
  BY <1>1 DEF ListTypeOK, BuildInv, IndexInv
<1>3. \A w \in Orders : IsHome(home, w)' = IsHome(home, w)
  BY <1>1 DEF IsHome
<1>4. HomeInv'
  BY <1>1, <1>3 DEF ListInv, HomeInv
<1>5. ASSUME NEW w \in Orders
      PROVE  Sorted("idx", w)' = Sorted("idx", w) /\ Sorted("complex", w)' = Sorted("complex", w)
  BY <1>1 DEF Sorted, Fine, Compared, Key
<1>6. ASSUME NEW w \in Orders PROVE Chain(next, w)' = Chain(next, w)
  BY <1>1 DEF Chain, Run
<1>7. WholeInv'
  BY <1>1, <1>5, <1>6 DEF ListInv, WholeInv
<1>8. CutInv'
  BY <1>1 DEF ListInv, CutInv, Run
<1>9. \A w \in Orders, m \in 0..Size : MergeAt(w, m)' = MergeAt(w, m)
  BY <1>1 DEF MergeAt, Merged, Run, InRuns, Fine, Compared, Key
<1>10. \A w \in Orders, m, s, e \in 0..Size : TakeAt(w, m, s, e)' = TakeAt(w, m, s, e)
  BY <1>1 DEF TakeAt, Merged, Run, InRuns, Fine, Compared, Key
<1>11. SortCalled' = SortCalled
  BY <1>1 DEF SortCalled
<1>12. SortInv'
  BY <1>1, <1>9, <1>10, <1>11 DEF ListInv, SortInv
<1> QED
  BY <1>2, <1>4, <1>7, <1>8, <1>12 DEF ListInv

\* The invariant has what the property says.
LEMMA ListInvRestores ==
  ASSUME ListInv
  PROVE  ListRestored
<1>1. Size \in Nat /\ Size >= 3 /\ ListSize = Size + 1 /\ ListSize - 1 = Size /\ ListSize - 2 = Size - 1
  BY SizeFacts
<1>2. ASSUME pc \in Whole PROVE ~Loops(list) /\ Len(From(list)) = ListSize - 1
  <2>1. PICK w \in Orders : list = w[1] /\ Chain(next, w)
    BY <1>2, Between
  <2> QED
    BY <1>1, <2>1, FromWhole
<1>3. ASSUME pc = "undo" PROVE ~Loops(list) /\ Len(From(list)) = ListSize - 2
  <2>1. PICK w \in Orders :
      /\ list = w[1] /\ next[w[1]] = w[2]
      /\ next[w[2]] = (IF Size = 3 THEN NULL ELSE w[4])
      /\ Run(next, w, 4, Size) /\ (Size > 3 => next[w[Size]] = NULL)
    BY <1>3 DEF ListInv, CutInv
  <2>2. /\ 1 \in 1..Size /\ 2 \in 1..Size /\ 3 \in 1..Size /\ 1 <= 3 /\ Size \in 1..Size /\ 2 <= Size
        /\ Size - 2 + 1 = Size - 1 /\ Size - 1 \in Nat
    BY <1>1
  <2>3. PICK u \in Orders : u = Bring(w, 1, 3)
    BY <2>2, BringOrder
  <2>4. /\ u[2] = w[1] /\ u[3] = w[2] /\ \A ix \in 4..Size : u[ix] = w[ix]
    <3>1. \A ix \in 1..Size : u[ix] = IF ix = 1 THEN w[3] ELSE IF ix \in 1+1..3 THEN w[ix - 1] ELSE w[ix]
      BY <2>3 DEF Bring
    <3>2. 2 # 1 /\ 3 # 1 /\ 2 \in 1+1..3 /\ 3 \in 1+1..3 /\ 2 - 1 = 1 /\ 3 - 1 = 2
      OBVIOUS
    <3>3. \A ix \in 4..Size : ix \in 1..Size /\ ix # 1 /\ ix \notin 1+1..3
      BY <1>1
    <3> QED
      BY <2>2, <3>1, <3>2, <3>3
  <2>5. ASSUME NEW ix \in 2..Size-1 PROVE next[u[ix]] = u[ix + 1]
    <3>1. CASE ix = 2
      <4>1. 2 + 1 = 3
        OBVIOUS
      <4> QED
        BY <2>1, <2>4, <3>1, <4>1
    <3>2. CASE ix = 3
      <4>1. Size # 3 /\ 4 \in 4..Size /\ 3 + 1 = 4
        BY <1>1, <3>2
      <4> QED
        BY <2>1, <2>4, <3>2, <4>1
    <3>3. CASE ix # 2 /\ ix # 3
      <4>1. ix \in 4..Size-1 /\ ix \in 4..Size /\ ix + 1 \in 4..Size
        BY <1>1, <3>3
      <4> QED
        BY <2>1, <2>4, <4>1 DEF Run
    <3> QED
      BY <3>1, <3>2, <3>3
  <2>6. next[u[Size]] = NULL
    <3>1. CASE Size = 3
      BY <2>1, <2>4, <3>1
    <3>2. CASE Size # 3
      <4>1. Size \in 4..Size /\ Size > 3
        BY <1>1, <3>2
      <4> QED
        BY <2>1, <2>4, <4>1
    <3> QED
      BY <3>1, <3>2
  <2>7. Run(next, u, 2, Size)
    BY <2>5 DEF Run
  <2>8. From(u[2]) = [k \in 1..(Size - 2 + 1) |-> u[2 + k - 1]] /\ ~Loops(u[2])
    BY <2>2, <2>6, <2>7, FromIs
  <2>9. Len(From(u[2])) = Size - 1
    BY <2>2, <2>8
  <2> QED
    BY <1>1, <2>1, <2>4, <2>8, <2>9
<1>4. ASSUME NEW w \in Orders, list = w[1], Chain(next, w), pc \in Whole
      PROVE  /\ View = [k \in 1..Size |-> [idx |-> idx[w[k]], data |-> data16[w[k]]]]
             /\ Sorted("idx", w) => Ordered("idx")
             /\ Sorted("complex", w) => Ordered("complex")
  <2>1. View = [k \in 1..Size |-> [idx |-> idx[w[k]], data |-> data16[w[k]]]]
    BY <1>4, Between, ViewIs
  <2>2. Len(View) = Size
    BY <1>1, <2>1
  <2>3. ASSUME NEW k \in 2..Len(View)
        PROVE  /\ k - 1 \in 1..Size-1 /\ (k - 1) + 1 = k
               /\ View[k - 1].idx = idx[w[k - 1]] /\ View[k].idx = idx[w[k]]
               /\ View[k - 1].data.lo = data16[w[k - 1]].lo /\ View[k].data.lo = data16[w[k]].lo
    <3>1. k \in 1..Size /\ k - 1 \in 1..Size /\ k - 1 \in 1..Size-1 /\ (k - 1) + 1 = k
      BY <1>1, <2>2
    <3> QED
      BY <2>1, <3>1
  <2>4. Sorted("idx", w) => Ordered("idx")
    BY <2>3 DEF Sorted, Fine, Key, Ordered
  <2>5. Sorted("complex", w) => Ordered("complex")
    BY <2>3 DEF Sorted, Fine, Key, Ordered
  <2> QED
    BY <2>1, <2>4, <2>5
<1>5. pc = "ready" => Ordered("idx")
  BY <1>4, Between DEF Whole
<1>6. pc = "remove" /\ finder_idx > 0 => Ordered("complex")
  BY <1>4, Between DEF Whole
<1>7. ASSUME pc = "return" PROVE View = home /\ list = 1
  <2>1. pc \in Whole
    BY <1>7 DEF Whole
  <2>2. PICK w \in Orders : list = w[1] /\ Chain(next, w) /\ Sorted("idx", w)
    BY <1>7, <2>1, Between
  <2>3. PICK v \in Orders : IsHome(home, v)
    BY <1>7, <2>1, Between
  <2>4. /\ idx \in [Cells -> Nat] /\ data16 \in [Cells -> [hi : 0..255, lo : 0..255]]
        /\ idx[1] = 0 /\ \A c, d \in Cells : idx[c] = idx[d] => c = d
    BY <2>1, Between
  <2>5. /\ \A k \in 1..Size : data16[w[k]] = [hi |-> data16[w[k]].hi, lo |-> data16[w[k]].hi]
        /\ \A ix \in 1..Size-1 : idx[w[ix]] <= idx[w[ix + 1]]
    BY <2>2, <2>4, SortedRebuilt
  <2>6. \A ix \in 1..Size-1 : idx[v[ix]] <= idx[v[ix + 1]]
    BY <2>3 DEF IsHome
  <2>7. w = v
    <3>1. PICK key \in [Cells -> Nat] : key = idx
      BY <2>4
    <3> QED
      BY <2>4, <2>5, <2>6, <3>1, SortedUnique
  <2>8. View = home
    <3>1. View = [k \in 1..Size |-> [idx |-> idx[w[k]], data |-> data16[w[k]]]]
      BY <1>4, <2>1, <2>2
    <3>2. home = [k \in 1..Size |-> [idx |-> idx[w[k]],
                                     data |-> [hi |-> data16[w[k]].hi, lo |-> data16[w[k]].hi]]]
      BY <2>3, <2>7 DEF IsHome
    <3> QED
      BY <2>5, <3>1, <3>2
  <2>9. list = 1
    <3>1. PICK j \in 1..Size : w[j] = 1
      BY SizeFacts, OrderFacts
    <3>2. 1 \in 1..Size /\ 1 <= j /\ 1 \in Cells
      BY SizeFacts
    <3>3. idx[w[1]] <= idx[w[j]]
      <4>1. PICK key \in [Cells -> Nat] : key = idx
        BY <2>4
      <4>2. key[w[1]] <= key[w[j]]
        BY <2>5, <3>2, <4>1, SortedAll
      <4> QED
        BY <4>1, <4>2
    <3>4. w[1] \in Cells /\ idx[w[1]] \in Nat
      BY <2>4, <3>2, OrderFacts
    <3>5. idx[w[1]] = idx[1]
      BY <2>4, <3>1, <3>3, <3>4
    <3> QED
      BY <2>2, <2>4, <3>2, <3>4, <3>5
  <2> QED
    BY <2>8, <2>9
<1> QED
  BY <1>2, <1>3, <1>5, <1>6, <1>7 DEF ListRestored, Whole

\* The kernel gives back the list it was called with, whatever it found, cached, sorted and
\* cut, for every size of the block and every data: no cell is lost, doubled or tied into
\* a ring between its calls, and both sorts sort (core_list_join.c:156, 163, 222).
THEOREM ListIsRestored == ListSpec => []ListRestored
<1>1. image = "core_list" /\ Boot /\ ListInit => ListInv
  BY ListStarts
<1>2. ListInv /\ [ListNext]_<<image, pc, listVars>> => ListInv'
  BY ListInvNext, ListInvStutter
<1>3. ListInv => ListRestored
  BY ListInvRestores
<1> QED
  BY <1>1, <1>2, <1>3, PTL DEF ListSpec
=============================================================================
