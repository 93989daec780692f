------------------------------ MODULE UartLine ------------------------------
(***************************************************************************)
(* The UART on its bus and on its line.  The master behaves as the bus     *)
(* bridge: one access at a time, each phase offered until it is taken, B   *)
(* and R taken at once.  The far end of the line sends back what it        *)
(* receives: rxd_i is txd_o, but for pulses of a single cycle that may hit *)
(* the line while there is nothing to send.  History variables, for the    *)
(* properties only:                                                        *)
(*   owed     bytes the master was given to send that have not come back   *)
(*            over the line, oldest first                                  *)
(*   waiting  bytes received and not yet read, oldest first                *)
(*   lost     a byte was dropped since RXDATA was last read                *)
(*   written  the divisor last written                                     *)
(*   held     cycles for which the TXDATA write at hand has waited         *)
(***************************************************************************)
EXTENDS Uart

CONSTANTS
  WriteReqs,    \* the writes software makes: [reg, low, val]
  Reads         \* the registers software reads

ASSUME LineAssumption ==
  \A w \in WriteReqs :
    /\ w.reg \in {"TXDATA", "RXDATA", "STATUS", "CTRL", "BAUDDIV"}
    /\ w.low \in BOOLEAN
    /\ w.reg = "TXDATA" => w.val \in Byte
    /\ w.reg = "BAUDDIV" => w.val \in Divs

VARIABLES wr, owed, waiting, lost, written, held

history == <<owed, waiting, lost, written, held>>
lineVars == <<uartVars, wr, history>>

LineInit ==
  /\ UartInit
  /\ wr = << >>
  /\ owed = << >> /\ waiting = << >> /\ lost = FALSE
  /\ written = BAUD_DIV_RESET
  /\ held = 0

\* What the bus and the line carry while the master has the write w, of
\* which the slave may have taken a phase already.
Offer(w, x, taken) == IF w = << >> \/ taken \/ bvalid_q THEN << >> ELSE <<x>>

Inputs(w) ==
  [aw : {Offer(w, w[1].reg, aw_q # << >>)},
   w : {Offer(w, [low |-> w[1].low, val |-> w[1].val], w_q # << >>)},
   ar : IF w = << >> THEN Option(Reads) ELSE {<< >>},
   br : {TRUE}, rr : {TRUE},
   rxd : {tx.txd} \cup {b \in {0} : tx_idle /\ rx_idle /\ tx_fifo_empty /\ w = << >>}]

Take(in) == in.ar = <<"RXDATA">> /\ arready(in) /\ waiting # << >>
Room(in) == Len(waiting) < RX_FIFO_DEPTH \/ Take(in)
Dequeued(in) == IF Take(in) THEN Tail(waiting) ELSE waiting

\* The byte that the write w, if it is a new one, gives to the transmitter.
Given(w) == IF wr = << >> /\ w # << >> /\ w[1].reg = "TXDATA" /\ w[1].low
            THEN <<w[1].val>> ELSE << >>

\* One clock edge with the write w in the master's hands; the bytes in sent
\* begin their way over the line.
LineEdge(w, in, sent) ==
  /\ Edge(in)
  /\ wr' = IF b_hs(in) THEN << >> ELSE w
  /\ LET new == owed \o sent
     IN owed' = IF rx_frame_done /\ new # << >> THEN Tail(new) ELSE new
  /\ waiting' = IF rx_frame_done /\ Room(in) THEN Append(Dequeued(in), rx.shift)
                ELSE Dequeued(in)
  /\ lost' = ((rx_frame_done /\ ~Room(in)) \/ (lost /\ ~rx_read(in)))
  /\ written' = IF writes(in, "BAUDDIV") THEN w_eff(in)[1].val ELSE written
  /\ held' = IF w # << >> /\ w[1].reg = "TXDATA" /\ ~bvalid_q /\ ~do_write(in)
             THEN held + 1 ELSE 0

Cycle ==
  \E w \in IF wr # << >> THEN {wr}
             ELSE IF rd_q # << >> THEN {<< >>} ELSE Option(WriteReqs) :
    \E in \in Inputs(w) : LineEdge(w, in, Given(w))

LineSpec == LineInit /\ [][Cycle]_lineVars

(***************************************************************************)
(* Properties                                                              *)
(***************************************************************************)
\* Bit timing, FIFO order and the hold on a full FIFO together: every frame
\* that ends carries the oldest byte written to TXDATA and not yet seen,
\* whatever the divisor was changed to in between, and no pulse on the idle
\* line is taken for a frame (uart: TX and RX engines, tx_push, div_q).
FramesExact == rx_frame_done => owed # << >> /\ rx.shift = owed[1]

\* The ring contents, oldest first, as the pointers delimit them.
RxContents ==
  [i \in 1..((rx_wptr_q - rx_rptr_q) % (2 * RX_FIFO_DEPTH)) |->
     rx_fifo_q[(rx_rptr_q + i - 1) % RX_FIFO_DEPTH]]

\* The receive ring is the queue of the bytes received and not yet read: a
\* pop and a frame that end in the same cycle on a full ring lose nothing
\* and duplicate nothing; and RX_OVERRUN reports exactly the loss of a byte
\* since the last RXDATA read, also when that read and the end of a frame fall
\* together (rx_fifo_push, rx_fifo_pop, rx_overrun_q).
RxQueueExact == RxContents = waiting /\ rx_overrun_q = lost

\* The value answered to an RXDATA read is the oldest byte not yet read, and
\* that read alone consumes it (rdata_q, rx_fifo_pop).
ReadTakesOldest ==
  [][\/ waiting' = waiting
     \/ waiting # << >> /\ rd_q' = <<[reg |-> "RXDATA", val |-> waiting[1]]>>
     \/ \E b \in Byte : waiting' = Append(waiting, b)]_lineVars

\* Once the master has its answers and both engines rest on an idle line,
\* every byte given to TXDATA has been received; and a write that finds the
\* transmit FIFO full is held for one frame time at most, as the engine drains
\* the FIFO on its own and a freed slot is seen at once (tx_push, tx_fifo_pop,
\* tx_write_hold).  The frame may be one of the divisor before, applied just
\* as it ended.
NothingVanishes ==
  /\ wr = << >> /\ tx_fifo_empty /\ tx_idle /\ rx_idle => owed = << >>
  /\ \E d \in Divs : held <= (NBITS + 2) * (d + 1) + 1

\* A divisor write takes effect: when none is pending, the divisor in use is
\* the one written last (BAUDDIV).
DivisorNotLost == div_pending_q = << >> => div_q = written
=============================================================================
