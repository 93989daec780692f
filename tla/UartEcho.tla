------------------------------ MODULE UartEcho ------------------------------
(***************************************************************************)
(* The bring-up program sim/sw/peri/uart_echo/uart_echo.c with the polled  *)
(* UART routines of sim/sw/common/uart.h, on the core and the peripherals  *)
(* they run on.  A step is a few instructions of which at most one         *)
(* touches shared state, so an interrupt falls between any two accesses.   *)
(*                                                                         *)
(* pc names the C statement that runs next.  uart_putc is two accesses,    *)
(* the poll of TX_READY and the store: rdy says that the poll of the       *)
(* uart_putc at pc has succeeded.  uart_puts and the hex printer are       *)
(* sequences of uart_putc and stand for one of them: a string is one token *)
(* on the line, Text.  A user byte is a positive number.                   *)
(*                                                                         *)
(* The machine, as the modules of the core show it: a store to a           *)
(* peripheral is posted, and the next peripheral access waits for it; a    *)
(* store to a full TX FIFO is held; interrupt lines are levels; WFI        *)
(* retires and then freezes until an enabled interrupt is pending, and     *)
(* mepc is then the instruction behind it; an interrupt is taken at the    *)
(* latest in front of an instruction that is not a memory access.          *)
(***************************************************************************)
EXTENDS Integers, Sequences, FiniteSets, Image

CONSTANTS
  PHASE_CHARS, MSI_SPIN_LIMIT,
  TX_DEPTH, RX_DEPTH,          \* FIFO depths of the UART
  UserMax,                     \* bound: bytes the user sends
  Strays                       \* statements at which a stray fetch may fault

ASSUME EchoAssumption ==
  /\ {PHASE_CHARS, MSI_SPIN_LIMIT, TX_DEPTH, RX_DEPTH, UserMax} \subseteq Nat \ {0}

VARIABLES
  rdy,                \* the uart_putc at pc has seen TX_READY
  saved_rdy,          \* rdy of the interrupted uart_putc, in the saved registers
  mepc, cause, mie, MIE, MPIE,
  byte, i, spin,        \* the byte in hand; loop counters
  irq_chars, sync_traps, msi_count, bad_cause, bad_traps, result,
  posted,             \* the peripheral store under way, or << >>
  rx, tx, rx_ie, msip,   \* the peripherals
  sent,               \* user bytes sent so far
  accepted,           \* history: user bytes the RX FIFO took
  line,               \* history: user bytes transmitted
  lost,               \* history: user bytes in hand when a trap started the program again
  unsent,             \* history: strings stored to TXDATA and not yet transmitted
  stray               \* the statement that faults, or "none", until the next start

core == <<mepc, cause, mie, MIE, MPIE>>
regs == <<byte, i, spin>>
bus == <<posted, unsent>>
counters == <<irq_chars, sync_traps, msi_count, bad_cause, bad_traps>>
peri == <<rx, tx, rx_ie, msip>>
user == <<sent, accepted, line, lost, stray>>
echoVars == <<rdy, saved_rdy, core, regs, counters, result, bus, peri, user>>

Text == 0
IsByte(t) == t # Text

EchoInit ==
  /\ rdy = FALSE /\ saved_rdy = FALSE
  /\ mepc = "reset" /\ cause = "none" /\ mie = {} /\ MIE = FALSE /\ MPIE = FALSE
  /\ byte = 0 /\ i = 0 /\ spin = 0
  /\ irq_chars = 0 /\ sync_traps = 0 /\ msi_count = 0 /\ bad_cause = FALSE /\ bad_traps = 0
  /\ result = "none" /\ posted = << >>
  /\ rx = << >> /\ tx = << >> /\ rx_ie = FALSE /\ msip = FALSE
  /\ sent = 0 /\ accepted = << >> /\ line = << >> /\ lost = {} /\ stray = "none"
  /\ unsent = 0

(***************************************************************************)
(* The machine.                                                            *)
(***************************************************************************)
InHandler == pc \in {"h_H", "h_cause", "h_msip", "h_msi_count", "h_ecall", "h_bad", "h_parkmsg",
                     "h_park", "h_status", "h_rxdata", "h_echo", "h_count", "h_X", "mret"}

\* Statements that begin with a load or a store: an interrupt may wait for them.
MemoryFirst == {"getc", "msipread", "spin", "chars", "bad", "ctrl", "msip", "ctrl0", "mark"}

\* Statements in front of which an interrupt may not be taken: execute lets it
\* wait for the wfi, which then wakes at once.
NotTaken == {"wfi"}

Pending == {x \in mie : (x = "MEI" /\ rx_ie /\ rx # << >>) \/ (x = "MSI" /\ msip)}
IntPending == MIE /\ Pending # {}
Highest == IF "MEI" \in Pending THEN "MEI" ELSE "MSI"

\* Main moves on, with no interrupt that has to be taken first.
MayRun == InHandler \/ pc \in MemoryFirst \cup NotTaken \/ rdy \/ ~IntPending
At(l) == pc = l /\ stray # l /\ MayRun

Goto(l) == pc' = l /\ UNCHANGED <<rdy, saved_rdy>>

\* Up to the csrw of main, mtvec is 0 from reset: the entry of start.S.
Unvectored == {"reset", "banner", "walk", "getc", "echo", "irqmsg", "ctrl", "mtvec"}
TrapVector == IF pc \in Unvectored THEN "reset" ELSE "h_H"

\* Trap entry: mepc is the statement to return to, MIE is stacked.  A program that
\* starts again forgets the byte it has in hand.
Enter(why, return) ==
  /\ cause' = why /\ mepc' = return /\ MPIE' = MIE /\ MIE' = FALSE
  /\ pc' = TrapVector /\ saved_rdy' = rdy /\ rdy' = FALSE
  /\ lost' = IF pc = "echo" THEN lost \cup {byte} ELSE lost
  /\ UNCHANGED <<mie, regs, counters, result, bus, peri, sent, accepted, line, stray>>

TakeInterrupt ==
  /\ ~InHandler /\ IntPending /\ pc \notin NotTaken
  /\ Enter(Highest, IF pc = "halt" THEN "chars" ELSE pc)

\* A fetch that strays reads zero, an illegal instruction, each time it is tried.
Fault ==
  /\ stray = pc /\ ~InHandler
  /\ Enter("illegal", pc)

Mret ==
  /\ At("mret")
  /\ MIE' = MPIE /\ MPIE' = TRUE /\ pc' = mepc /\ rdy' = saved_rdy
  /\ UNCHANGED <<saved_rdy, mepc, cause, mie, regs, counters, result, bus, peri, user>>

\* Mutant: a store into a full TX FIFO completes, and the byte is dropped.
Drained_dropping(s) ==
  /\ tx' = IF s.reg = "TXDATA" /\ Len(tx) < TX_DEPTH THEN Append(tx, s.val) ELSE tx
  /\ rx_ie' = IF s.reg = "CTRL" THEN s.val ELSE rx_ie
  /\ msip' = IF s.reg = "MSIP" THEN s.val ELSE msip

\* The posted store reaches its slave; one to a full TX FIFO is held.
Drained(s) ==
  /\ s.reg = "TXDATA" => Len(tx) < TX_DEPTH
  /\ tx' = IF s.reg = "TXDATA" THEN Append(tx, s.val) ELSE tx
  /\ rx_ie' = IF s.reg = "CTRL" THEN s.val ELSE rx_ie
  /\ msip' = IF s.reg = "MSIP" THEN s.val ELSE msip

Drain ==
  /\ posted # << >> /\ posted' = << >> /\ Drained(posted[1])
  /\ UNCHANGED <<pc, rdy, saved_rdy, core, regs, counters, result, unsent, rx, user>>

\* A frame leaves the transmitter.
Transmit ==
  /\ tx # << >> /\ tx' = Tail(tx)
  /\ line' = IF IsByte(Head(tx)) THEN Append(line, Head(tx)) ELSE line
  /\ unsent' = IF IsByte(Head(tx)) THEN unsent ELSE unsent - 1
  /\ UNCHANGED <<pc, rdy, saved_rdy, core, regs, counters, result, posted, rx, rx_ie, msip,
                 sent, accepted, lost, stray>>

\* A byte of the user arrives, and is lost if the RX FIFO is full.
Receive ==
  /\ sent < UserMax /\ sent' = sent + 1
  /\ IF Len(rx) < RX_DEPTH
     THEN rx' = Append(rx, sent + 1) /\ accepted' = Append(accepted, sent + 1)
     ELSE UNCHANGED <<rx, accepted>>
  /\ UNCHANGED <<pc, rdy, saved_rdy, core, regs, counters, result, bus, tx, rx_ie, msip,
                 line, lost, stray>>

Post(r, v) ==
  /\ posted = << >> /\ posted' = <<[reg |-> r, val |-> v]>>
  /\ unsent' = IF r = "TXDATA" /\ ~IsByte(v) THEN unsent + 1 ELSE unsent
PeriRead == posted = << >>

(***************************************************************************)
(* uart.h.                                                                 *)
(***************************************************************************)
\* The loop on STATUS.TX_READY, then the store to TXDATA.
uart_putc(v, next) ==
  \/ /\ ~rdy /\ PeriRead /\ Len(tx) < TX_DEPTH
     /\ rdy' = TRUE /\ UNCHANGED <<pc, saved_rdy, bus>>
  \/ /\ rdy /\ Post("TXDATA", v)
     /\ rdy' = FALSE /\ pc' = next /\ UNCHANGED saved_rdy

\* One pass of the loop on STATUS.RX_READY that succeeds, with the read of RXDATA.
uart_getc(next) ==
  /\ PeriRead /\ rx # << >>
  /\ byte' = Head(rx) /\ rx' = Tail(rx) /\ pc' = next
  /\ UNCHANGED <<rdy, saved_rdy, bus>>

\* Statements that only print, with the statement behind each.
PrintThen ==
  [banner |-> "walk", irqmsg |-> "ctrl", mtvecmsg |-> "mipspin", mipmsg |-> "ecall",
   trapmsg |-> "mask", msipmsg |-> "enable", msimsg |-> "meie", timeoutmsg |-> "meie",
   mst2msg |-> "chars", donemsg |-> "park",
   h_H |-> "h_cause", h_X |-> "mret", h_parkmsg |-> "h_park"]

\* Mutant: the handler returns without its closing uart_putc.
uart_puts_no_X ==
  \E l \in DOMAIN PrintThen :
    /\ At(l)
    /\ IF l = "h_X" THEN Goto("mret") /\ UNCHANGED bus ELSE uart_putc(Text, PrintThen[l])
    /\ UNCHANGED <<core, regs, counters, result, peri, user>>

uart_puts ==
  \E l \in DOMAIN PrintThen :
    /\ At(l) /\ uart_putc(Text, PrintThen[l])
    /\ UNCHANGED <<core, regs, counters, result, peri, user>>

(***************************************************************************)
(* trap_handler.                                                           *)
(***************************************************************************)
DispatchCause ==
  /\ At("h_cause")
  /\ Goto(CASE cause = "MSI" -> "h_msip" [] cause = "ecall" -> "h_ecall"
            [] cause = "MEI" -> "h_status" [] OTHER -> "h_bad")
  /\ UNCHANGED <<core, regs, counters, result, bus, peri, user>>

HandleMsi ==
  \/ /\ At("h_msip") /\ Post("MSIP", FALSE) /\ Goto("h_msi_count")
     /\ UNCHANGED <<core, regs, counters, result, peri, user>>
  \/ /\ At("h_msi_count") /\ msi_count' = msi_count + 1 /\ Goto("h_X")
     /\ UNCHANGED <<core, regs, irq_chars, sync_traps, bad_cause, bad_traps, result, bus,
                    peri, user>>

\* mepc + 4: the statement behind the ecall.
HandleEcall ==
  /\ At("h_ecall") /\ mepc' = "trapmsg" /\ sync_traps' = sync_traps + 1 /\ Goto("h_X")
  /\ UNCHANGED <<cause, mie, MIE, MPIE, regs, irq_chars, msi_count, bad_cause, bad_traps,
                 result, bus, peri, user>>

HandleBad ==
  /\ At("h_bad") /\ bad_cause' = TRUE /\ MIE' = FALSE /\ bad_traps' = bad_traps + 1
  /\ Goto(IF bad_traps + 1 >= 4 THEN "h_parkmsg" ELSE "h_X")
  /\ UNCHANGED <<mepc, cause, mie, MPIE, regs, irq_chars, sync_traps, msi_count, result,
                 bus, peri, user>>

\* Mutant: the handler counts a byte without echoing it.
HandleMei_drops ==
  \/ /\ At("h_status") /\ PeriRead /\ Goto(IF rx = << >> THEN "h_X" ELSE "h_rxdata")
     /\ UNCHANGED <<core, regs, counters, result, bus, peri, user>>
  \/ /\ At("h_rxdata") /\ PeriRead /\ rx # << >>
     /\ byte' = Head(rx) /\ rx' = Tail(rx) /\ Goto("h_echo")
     /\ UNCHANGED <<core, i, spin, counters, result, bus, tx, rx_ie, msip, user>>
  \/ /\ At("h_echo") /\ Goto("h_count")
     /\ UNCHANGED <<core, regs, counters, result, bus, peri, user>>
  \/ /\ At("h_count") /\ irq_chars' = irq_chars + 1 /\ Goto("h_status")
     /\ UNCHANGED <<core, regs, sync_traps, msi_count, bad_cause, bad_traps, result, bus,
                    peri, user>>

\* The loop that drains the RX FIFO: status, data, echo, count.
HandleMei ==
  \/ /\ At("h_status") /\ PeriRead /\ Goto(IF rx = << >> THEN "h_X" ELSE "h_rxdata")
     /\ UNCHANGED <<core, regs, counters, result, bus, peri, user>>
  \/ /\ At("h_rxdata") /\ PeriRead
     /\ byte' = Head(rx) /\ rx' = Tail(rx) /\ Goto("h_echo")
     /\ UNCHANGED <<core, i, spin, counters, result, bus, tx, rx_ie, msip, user>>
  \/ /\ At("h_echo") /\ uart_putc(byte, "h_count")
     /\ UNCHANGED <<core, regs, counters, result, peri, user>>
  \/ /\ At("h_count") /\ irq_chars' = irq_chars + 1 /\ Goto("h_status")
     /\ UNCHANGED <<core, regs, sync_traps, msi_count, bad_cause, bad_traps, result, bus,
                    peri, user>>

(***************************************************************************)
(* main.                                                                   *)
(***************************************************************************)
\* start.S calls main, after reset or after a trap before there is a handler; where
\* a fetch will stray, if anywhere, is up to the board.  The counters are in .data:
\* nothing but the loader sets them.
Start ==
  /\ pc = "reset" /\ \E s \in Strays \cup {"none"} : stray' = s
  /\ Goto("banner")
  /\ UNCHANGED <<core, regs, counters, result, bus, peri, sent, accepted, line, lost>>

\* The patterns stay behind in mepc and mcause; then the loop of phase 1 begins.
csr_bit_walk ==
  /\ At("walk") /\ mepc' = "pattern" /\ cause' = "pattern" /\ i' = 0 /\ Goto("getc")
  /\ UNCHANGED <<mie, MIE, MPIE, byte, spin, counters, result, bus, peri, user>>

PollPhase ==
  \/ /\ At("getc") /\ uart_getc("echo")
     /\ UNCHANGED <<core, i, spin, counters, result, tx, rx_ie, msip, user>>
  \/ /\ At("echo") /\ uart_putc(byte, IF i + 1 < PHASE_CHARS THEN "getc" ELSE "irqmsg")
     /\ i' = IF rdy THEN i + 1 ELSE i
     /\ UNCHANGED <<core, byte, spin, counters, result, peri, user>>

ArmExternal ==
  \/ /\ At("ctrl") /\ Post("CTRL", TRUE) /\ Goto("mtvec")
     /\ UNCHANGED <<core, regs, counters, result, peri, user>>
  \/ /\ At("mtvec") /\ mie' = mie \cup {"MEI"} /\ Goto("mtvecmsg")
     /\ UNCHANGED <<mepc, cause, MIE, MPIE, regs, counters, result, bus, peri, user>>
  \/ /\ At("mipspin") /\ rx_ie /\ rx # << >> /\ Goto("mipmsg")
     /\ UNCHANGED <<core, regs, counters, result, bus, peri, user>>

EcallProbe == At("ecall") /\ Enter("ecall", "ecall")

SoftwareInterrupt ==
  \/ /\ At("mask") /\ mie' = {"MSI"} /\ Goto("msip")
     /\ UNCHANGED <<mepc, cause, MIE, MPIE, regs, counters, result, bus, peri, user>>
  \/ /\ At("msip") /\ Post("MSIP", TRUE) /\ Goto("msipread")
     /\ UNCHANGED <<core, regs, counters, result, peri, user>>
  \/ /\ At("msipread") /\ PeriRead /\ Goto("msipmsg")
     /\ UNCHANGED <<core, regs, counters, result, bus, peri, user>>
  \/ /\ At("enable") /\ MIE' = TRUE /\ Goto("spin")
     /\ UNCHANGED <<mepc, cause, mie, MPIE, regs, counters, result, bus, peri, user>>

\* The bounded wait: two loads, then the count in a register.
SpinLoop ==
  \/ /\ At("spin") /\ Goto(IF msi_count > 0 \/ bad_cause THEN "unmsie" ELSE "spincount")
     /\ UNCHANGED <<core, regs, counters, result, bus, peri, user>>
  \/ /\ At("spincount") /\ spin' = spin + 1
     /\ Goto(IF spin + 1 < MSI_SPIN_LIMIT THEN "spin" ELSE "unmsie")
     /\ UNCHANGED <<core, byte, i, counters, result, bus, peri, user>>
  \/ /\ At("unmsie") /\ mie' = mie \ {"MSI"}
     /\ Goto(IF msi_count > 0 THEN "msimsg" ELSE "timeoutmsg")
     /\ UNCHANGED <<mepc, cause, MIE, MPIE, regs, counters, result, bus, peri, user>>

ExternalInterrupt ==
  /\ At("meie") /\ mie' = mie \cup {"MEI"} /\ MIE' = TRUE /\ Goto("mst2msg")
  /\ UNCHANGED <<mepc, cause, MPIE, regs, counters, result, bus, peri, user>>

\* while (irq_chars < PHASE_CHARS && !bad_cause) wfi: two loads, the branch on
\* the second, the wfi.
SleepLoop ==
  \/ /\ At("chars") /\ Goto(IF irq_chars < PHASE_CHARS THEN "bad" ELSE "disable")
     /\ UNCHANGED <<core, regs, counters, result, bus, peri, user>>
  \/ /\ At("bad") /\ Goto(IF bad_cause THEN "disable" ELSE "branch")
     /\ UNCHANGED <<core, regs, counters, result, bus, peri, user>>
  \/ /\ At("branch") /\ Goto("wfi")
     /\ UNCHANGED <<core, regs, counters, result, bus, peri, user>>
  \/ /\ At("wfi") /\ Goto("halt")
     /\ UNCHANGED <<core, regs, counters, result, bus, peri, user>>

Report ==
  \/ /\ At("disable") /\ MIE' = FALSE /\ Goto("ctrl0")
     /\ UNCHANGED <<mepc, cause, mie, MPIE, regs, counters, result, bus, peri, user>>
  \/ /\ At("ctrl0") /\ Post("CTRL", FALSE) /\ Goto("mark")
     /\ UNCHANGED <<core, regs, counters, result, peri, user>>
  \/ /\ At("mark")
     /\ result' = IF bad_cause \/ irq_chars < PHASE_CHARS THEN "BAD" ELSE "GOOD"
     /\ Goto("donemsg")
     /\ UNCHANGED <<core, regs, counters, bus, peri, user>>

trap_handler == DispatchCause \/ HandleMsi \/ HandleEcall \/ HandleBad \/ HandleMei \/ Mret

echo_main ==
  \/ Start \/ csr_bit_walk \/ PollPhase \/ ArmExternal \/ EcallProbe \/ SoftwareInterrupt
  \/ SpinLoop \/ ExternalInterrupt \/ SleepLoop \/ Report

Cpu == echo_main \/ trap_handler \/ uart_puts \/ TakeInterrupt \/ Fault

EchoNext == Linked("uart_echo") /\ (Cpu \/ Drain \/ Transmit \/ Receive)

\* The core and the peripherals never stop; the user may.
EchoFairness ==
  /\ WF_<<image, pc, echoVars>>(Linked("uart_echo") /\ Cpu)
  /\ WF_<<image, pc, echoVars>>(Linked("uart_echo") /\ Drain)
  /\ WF_<<image, pc, echoVars>>(Linked("uart_echo") /\ Transmit)

EchoSpec ==
  /\ image = "uart_echo" /\ Boot /\ EchoInit
  /\ [][EchoNext]_<<image, pc, echoVars>> /\ EchoFairness
-----------------------------------------------------------------------------
\* What has been handed to the UART, in order: sent, queued, posted.
Handed == line \o tx \o (IF posted # << >> /\ posted[1].reg = "TXDATA"
                         THEN <<posted[1].val>> ELSE << >>)

\* The byte main or the handler has read and not yet echoed.
InHand == IF pc \in {"echo", "h_echo"} THEN <<byte>> ELSE << >>

\* What is left of s without the entries in drop; the user bytes among the tokens of s.
Without(s, drop) ==
  LET f[n \in 0..Len(s)] == IF n = 0 THEN << >>
                            ELSE IF s[n] \in drop THEN f[n-1] ELSE Append(f[n-1], s[n])
  IN  f[Len(s)]
BytesIn(s) == Without(s, {Text})

\* Every byte the UART accepted is echoed once and in order, whichever of the
\* polling loop and the handler serves it and wherever the interrupt falls
\* into a uart_putc of main: it is still queued, in hand, or on its way out.
\* A trap before there is a handler starts the program again: that costs the byte
\* in hand and no other, be it queued on either side.
\* What main and the handler print between them is not lost either, although
\* the handler may fill the FIFO behind main's poll (uart_echo.c:191-195, 250, 270,
\* uart.h:48-50).
EchoInOrder ==
  /\ Without(accepted, lost) = BytesIn(Handed) \o InHand \o rx
  /\ Len(Handed) = Len(BytesIn(Handed)) + unsent

\* The one software interrupt is taken once, although the store that clears
\* it is posted and the core may leave the handler before it lands; main sees
\* it before the bounded wait gives up; and a pass is reported only when the
\* probes have run, the phase has had its bytes and no unexpected cause has come
\* before the verdict: only behind it may a fetch still stray (uart_echo.c:148,
\* 351, 394-400).
ProbesTrue ==
  /\ msi_count <= 1 /\ pc # "timeoutmsg"
  /\ result = "GOOD" => /\ sync_traps = 1 /\ msi_count = 1 /\ irq_chars >= PHASE_CHARS
                        /\ bad_cause => stray \in {"donemsg", "park"}

\* Statements that run before main first looks for a byte.
BeforeReading == {"banner", "walk", "getc"}

\* A byte that the UART accepts is echoed in the end, unless a restart caught it in
\* hand, the program has ended or is parked on a fault, or it starts over and over
\* without coming to read (uart_echo.c:9-12).
EchoServed ==
  \A n \in 1..UserMax :
    Len(accepted) >= n ~> \/ Len(line) + Cardinality(lost) >= n
                          \/ pc \in {"park", "h_park"}
                          \/ stray \in BeforeReading

\* Once the user has sent the bytes of both phases and none was lost, the
\* program writes its result marker (uart_echo.c:18).
ResultWritten ==
  (Len(accepted) >= 2 * PHASE_CHARS /\ stray = "none") ~> result # "none"
=============================================================================
