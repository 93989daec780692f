-------------------------------- MODULE Uart --------------------------------
(***************************************************************************)
(* The UART (utils/axi4_lite_uart.sv): an AXI4-Lite slave with a transmit  *)
(* and a receive FIFO, two serial engines and one divisor.  One step is    *)
(* one clock edge; its inputs are a record                                 *)
(*   aw   the register whose address is on AW, or nothing                  *)
(*   w    the data on W: [low, val], low = byte 0 is strobed, or nothing   *)
(*   ar   the register whose address is on AR, or nothing                  *)
(*   br   bready       rr   rready       rxd   the serial input            *)
(* "Nothing" is << >> and x is <<x>>.  A register with a valid bit of its  *)
(* own is such an option too (aw_seen_q/awaddr_word_q, w_seen_q/wdata_q/   *)
(* wstrb_q, rvalid_q/rdata_q, div_pending_valid_q/div_pending_q): its      *)
(* contents are read under the bit only.  A byte is the sequence of its    *)
(* NBITS bits, least significant first.                                    *)
(***************************************************************************)
EXTENDS Integers, Sequences

CONSTANTS
  TX_FIFO_DEPTH, RX_FIFO_DEPTH,
  NBITS,           \* data bits of a frame (8 in the RTL)
  BAUD_DIV_RESET,  \* clock cycles per bit, minus one, after reset
  Divs             \* the divisors software writes

ASSUME UartAssumption ==
  /\ TX_FIFO_DEPTH \in Nat /\ TX_FIFO_DEPTH > 1
  /\ RX_FIFO_DEPTH \in Nat /\ RX_FIFO_DEPTH > 1
  /\ NBITS \in Nat /\ NBITS > 1
  /\ Divs \subseteq Nat /\ BAUD_DIV_RESET \in Divs

VARIABLES
  aw_q, w_q, bvalid_q,              \* write channel
  rd_q,                             \* read channel: [reg, val] being answered
  ie_q,                             \* interrupts enabled in CTRL
  div_q, div_pending_q,             \* divisor in use, divisor written
  tx, tx_fifo_q, tx_wptr_q, tx_rptr_q,
  rx, rx_fifo_q, rx_wptr_q, rx_rptr_q, rx_overrun_q

busRegs == <<aw_q, w_q, bvalid_q, rd_q, ie_q, div_q, div_pending_q>>
txRegs == <<tx, tx_fifo_q, tx_wptr_q, tx_rptr_q>>
rxRegs == <<rx, rx_fifo_q, rx_wptr_q, rx_rptr_q, rx_overrun_q>>
uartVars == <<busRegs, txRegs, rxRegs>>

Byte == [1..NBITS -> {0, 1}]
Option(S) == {<< >>} \cup {<<x>> : x \in S}

(***************************************************************************)
(* FIFO flags.  A pointer has one bit more than the index it holds.        *)
(***************************************************************************)
\* Mutant: a FIFO is never full.
ring_full_never(wptr, rptr, depth) == FALSE

ring_full(wptr, rptr, depth) ==
  wptr \div depth # rptr \div depth /\ wptr % depth = rptr % depth
next_ptr(ptr, depth) == (ptr + 1) % (2 * depth)

tx_fifo_empty == tx_wptr_q = tx_rptr_q
tx_fifo_full == ring_full(tx_wptr_q, tx_rptr_q, TX_FIFO_DEPTH)
rx_fifo_empty == rx_wptr_q = rx_rptr_q
rx_fifo_full == ring_full(rx_wptr_q, rx_rptr_q, RX_FIFO_DEPTH)
tx_fifo_head == tx_fifo_q[tx_rptr_q % TX_FIFO_DEPTH]
rx_fifo_head == rx_fifo_q[rx_rptr_q % RX_FIFO_DEPTH]

tx_ready == ~tx_fifo_full
rx_ready == ~rx_fifo_empty
tx_idle == tx.state = "IDLE"
rx_idle == rx.state = "IDLE"
tx_fifo_pop == tx_idle /\ ~tx_fifo_empty

uart_irq == (tx_ready /\ "tx" \in ie_q) \/ (rx_ready /\ "rx" \in ie_q)

(***************************************************************************)
(* Write channel.  A TXDATA write that finds no room is refused at AW, and *)
(* held at its commit when W came first.                                   *)
(***************************************************************************)
awready(in) ==
  aw_q = << >> /\ ~bvalid_q /\ ~(in.aw = <<"TXDATA">> /\ ~tx_ready)
wready == w_q = << >> /\ ~bvalid_q
aw_eff(in) == IF in.aw # << >> /\ awready(in) THEN in.aw ELSE aw_q
w_eff(in) == IF in.w # << >> /\ wready THEN in.w ELSE w_q

tx_write_hold(in) == aw_eff(in) = <<"TXDATA">> /\ ~tx_ready

do_write(in) ==
  aw_eff(in) # << >> /\ w_eff(in) # << >> /\ ~bvalid_q /\ ~tx_write_hold(in)

\* The write commits to register reg, byte 0 strobed.
writes(in, reg) == do_write(in) /\ aw_eff(in) = <<reg>> /\ w_eff(in)[1].low
tx_push(in) == writes(in, "TXDATA")
b_hs(in) == bvalid_q /\ in.br

\* A divisor is applied between frames only.
div_apply == div_pending_q # << >> /\ tx_idle /\ rx_idle

\* The clearing assignment comes last, so it wins over a write.
next_div_pending(in) ==
  IF div_apply THEN << >>
  ELSE IF writes(in, "BAUDDIV") THEN <<w_eff(in)[1].val>> ELSE div_pending_q

WriteChannel(in) ==
  /\ aw_q' = IF do_write(in) THEN << >> ELSE aw_eff(in)
  /\ w_q' = IF do_write(in) THEN << >> ELSE w_eff(in)
  /\ bvalid_q' = (do_write(in) \/ (bvalid_q /\ ~b_hs(in)))
  /\ ie_q' = IF writes(in, "CTRL") THEN w_eff(in)[1].val ELSE ie_q
  /\ div_pending_q' = next_div_pending(in)
  /\ div_q' = IF div_apply THEN div_pending_q[1] ELSE div_q

(***************************************************************************)
(* Read channel.  Accepting an RXDATA read pops the FIFO in the same cycle.*)
(***************************************************************************)
arready(in) == rd_q = << >> \/ in.rr
ar_hs(in) == in.ar # << >> /\ arready(in)

status ==
  {f \in {"TX_READY", "RX_READY", "RX_OVERRUN"} :
     \/ f = "TX_READY" /\ tx_ready
     \/ f = "RX_READY" /\ rx_ready
     \/ f = "RX_OVERRUN" /\ rx_overrun_q}

rdata_mux(reg) ==
  CASE reg = "RXDATA" -> rx_fifo_head
    [] reg = "STATUS" -> status
    [] reg = "CTRL" -> ie_q
    [] reg = "BAUDDIV" -> div_q
    [] OTHER -> 0

rx_read(in) == ar_hs(in) /\ in.ar = <<"RXDATA">>

\* Mutant: the byte is popped when R is taken by the master, not at AR.
rx_fifo_pop_late(in) == rd_q # << >> /\ rd_q[1].reg = "RXDATA" /\ in.rr /\ rx_ready

rx_fifo_pop(in) == rx_read(in) /\ rx_ready

ReadChannel(in) ==
  rd_q' = IF ar_hs(in) THEN <<[reg |-> in.ar[1], val |-> rdata_mux(in.ar[1])]>>
          ELSE IF in.rr THEN << >> ELSE rd_q

(***************************************************************************)
(* Transmit engine.                                                        *)
(***************************************************************************)
tx_baud_tick == tx.cnt = div_q

\* A tick ends the bit on the line and starts the next one.
next_tx_bit ==
  CASE tx.state = "START" ->
         [tx EXCEPT !.cnt = 0, !.state = "DATA", !.bit = 0, !.txd = tx.shift[1]]
    [] tx.state = "DATA" /\ tx.bit = NBITS - 1 ->
         [tx EXCEPT !.cnt = 0, !.state = "STOP", !.txd = 1]
    [] tx.state = "DATA" /\ tx.bit # NBITS - 1 ->
         [tx EXCEPT !.cnt = 0, !.bit = @ + 1,
                    !.shift = Append(Tail(@), 0), !.txd = tx.shift[2]]
    [] tx.state = "STOP" -> [tx EXCEPT !.cnt = 0, !.state = "IDLE"]

next_tx ==
  CASE tx_fifo_pop -> [tx EXCEPT !.cnt = 0, !.shift = tx_fifo_head,
                                 !.state = "START", !.txd = 0]
    [] tx_idle /\ ~tx_fifo_pop -> [tx EXCEPT !.cnt = 0]
    [] ~tx_idle /\ tx_baud_tick -> next_tx_bit
    [] ~tx_idle /\ ~tx_baud_tick -> [tx EXCEPT !.cnt = @ + 1]

Transmit(in) ==
  /\ tx' = next_tx
  /\ tx_fifo_q' = IF tx_push(in)
                  THEN [tx_fifo_q EXCEPT ![tx_wptr_q % TX_FIFO_DEPTH] = w_eff(in)[1].val]
                  ELSE tx_fifo_q
  /\ tx_wptr_q' = IF tx_push(in) THEN next_ptr(tx_wptr_q, TX_FIFO_DEPTH) ELSE tx_wptr_q
  /\ tx_rptr_q' = IF tx_fifo_pop THEN next_ptr(tx_rptr_q, TX_FIFO_DEPTH) ELSE tx_rptr_q

(***************************************************************************)
(* Receive engine.  Bits are sampled a full period apart, the first one    *)
(* half a period after the start edge; the stop bit is not checked.        *)
(***************************************************************************)
\* Mutant: the start bit is confirmed a whole period after its edge.
rx_half_div_full == div_q

rx_half_div == div_q \div 2

rx_sample == rx.cnt = IF rx.state = "START" THEN rx_half_div ELSE div_q
rx_frame_done == rx.state = "STOP" /\ rx_sample

\* Mutant: a frame ending on a full FIFO is stored although nothing leaves.
rx_fifo_push_always(in) == rx_frame_done

rx_fifo_push(in) == rx_frame_done /\ (~rx_fifo_full \/ rx_fifo_pop(in))

rx_overrun(in) == rx_frame_done /\ rx_fifo_full /\ ~rx_fifo_pop(in)

next_rx_bit(rxd) ==
  CASE rx.state = "START" /\ rxd = 0 ->
         [rx EXCEPT !.cnt = 0, !.state = "DATA", !.bit = 0]
    [] rx.state = "START" /\ rxd = 1 -> [rx EXCEPT !.cnt = 0, !.state = "IDLE"]
    [] rx.state = "DATA" ->
         [rx EXCEPT !.cnt = 0, !.shift = Append(Tail(@), rxd),
                    !.state = IF rx.bit = NBITS - 1 THEN "STOP" ELSE "DATA",
                    !.bit = IF rx.bit = NBITS - 1 THEN @ ELSE @ + 1]
    [] rx.state = "STOP" -> [rx EXCEPT !.cnt = 0, !.state = "IDLE"]

next_rx(rxd) ==
  CASE rx_idle -> [rx EXCEPT !.cnt = 0, !.state = IF rxd = 0 THEN "START" ELSE "IDLE"]
    [] ~rx_idle /\ rx_sample -> next_rx_bit(rxd)
    [] ~rx_idle /\ ~rx_sample -> [rx EXCEPT !.cnt = @ + 1]

Receive(in) ==
  /\ rx' = next_rx(in.rxd)
  /\ rx_overrun_q' = (rx_overrun(in) \/ (rx_overrun_q /\ ~rx_read(in)))
  /\ rx_fifo_q' = IF rx_fifo_push(in)
                  THEN [rx_fifo_q EXCEPT ![rx_wptr_q % RX_FIFO_DEPTH] = rx.shift]
                  ELSE rx_fifo_q
  /\ rx_wptr_q' = IF rx_fifo_push(in) THEN next_ptr(rx_wptr_q, RX_FIFO_DEPTH) ELSE rx_wptr_q
  /\ rx_rptr_q' = IF rx_fifo_pop(in) THEN next_ptr(rx_rptr_q, RX_FIFO_DEPTH) ELSE rx_rptr_q

(***************************************************************************)
(* Reset, and one clock edge.  The FIFO storage has no reset; a slot is    *)
(* read before it is written only by an RXDATA read of an empty FIFO,      *)
(* whose value means nothing, so the storage starts as zero here.          *)
(***************************************************************************)
ZeroByte == [i \in 1..NBITS |-> 0]

UartInit ==
  /\ aw_q = << >> /\ w_q = << >> /\ bvalid_q = FALSE
  /\ rd_q = << >>
  /\ ie_q = {}
  /\ div_q = BAUD_DIV_RESET /\ div_pending_q = << >>
  /\ tx = [state |-> "IDLE", shift |-> ZeroByte, bit |-> 0, cnt |-> 0, txd |-> 1]
  /\ tx_fifo_q = [i \in 0..TX_FIFO_DEPTH-1 |-> ZeroByte]
  /\ tx_wptr_q = 0 /\ tx_rptr_q = 0
  /\ rx = [state |-> "IDLE", shift |-> ZeroByte, bit |-> 0, cnt |-> 0]
  /\ rx_fifo_q = [i \in 0..RX_FIFO_DEPTH-1 |-> ZeroByte]
  /\ rx_wptr_q = 0 /\ rx_rptr_q = 0
  /\ rx_overrun_q = FALSE

Edge(in) == WriteChannel(in) /\ ReadChannel(in) /\ Transmit(in) /\ Receive(in)

\* Every register stays in range: pointers within the wrapped index, bit
\* counters within the divisor in use.
UartTypeOK ==
  /\ aw_q \in Option({"TXDATA", "RXDATA", "STATUS", "CTRL", "BAUDDIV"})
  /\ Len(w_q) \in 0..1 /\ Len(rd_q) \in 0..1 /\ bvalid_q \in BOOLEAN
  /\ ie_q \subseteq {"tx", "rx"}
  /\ div_q \in Divs /\ div_pending_q \in Option(Divs)
  /\ tx \in [state : {"IDLE", "START", "DATA", "STOP"}, shift : Byte,
             bit : 0..NBITS-1, cnt : 0..div_q, txd : {0, 1}]
  /\ tx_fifo_q \in [0..TX_FIFO_DEPTH-1 -> Byte]
  /\ tx_wptr_q \in 0..2*TX_FIFO_DEPTH-1 /\ tx_rptr_q \in 0..2*TX_FIFO_DEPTH-1
  /\ rx \in [state : {"IDLE", "START", "DATA", "STOP"}, shift : Byte,
             bit : 0..NBITS-1, cnt : 0..div_q]
  /\ rx_fifo_q \in [0..RX_FIFO_DEPTH-1 -> Byte]
  /\ rx_wptr_q \in 0..2*RX_FIFO_DEPTH-1 /\ rx_rptr_q \in 0..2*RX_FIFO_DEPTH-1
  /\ rx_overrun_q \in BOOLEAN
=============================================================================
