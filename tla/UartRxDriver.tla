---------------------------- MODULE UartRxDriver ----------------------------
(***************************************************************************)
(* The other far end of the line: the stimulus driver of the simulation    *)
(* harness (sim_main.cpp, UartRxDriver), which plays a string of bytes     *)
(* into rxd_i frame by frame.  Its step runs before the clock edge, on the *)
(* rx_fifo_full of the cycle.  The program under test only reads.          *)
(***************************************************************************)
EXTENDS UartLine

CONSTANTS
  GAP_CYCLES,   \* idle cycles between two frames
  PlayBytes,    \* what the bytes of the string may be
  PlayMax       \* bound: length of the string

ASSUME PlayAssumption ==
  GAP_CYCLES \in Nat /\ PlayBytes \subseteq Byte /\ PlayMax \in Nat

VARIABLES
  far,    \* the far end: "loop", or a driver that is "paced" or "free"
  drv     \* the driver's fields

playVars == <<lineVars, far, drv>>

bit_cycles == BAUD_DIV_RESET + 1

PlayInit ==
  /\ LineInit
  /\ far \in {"loop", "paced", "free"}
  /\ drv = [idx |-> 0, active |-> FALSE, cur |-> ZeroByte, bit |-> 0, cnt |-> 0, gap |-> 0]

\* The level of the line in the frame d, and the frame after this cycle.
Level(d) == CASE d.bit = 0 -> 0
              [] d.bit \in 1..NBITS -> d.cur[d.bit]
              [] d.bit > NBITS -> 1

Shipped(d) ==
  CASE d.cnt + 1 < bit_cycles -> [d EXCEPT !.cnt = @ + 1]
    [] d.cnt + 1 = bit_cycles /\ d.bit <= NBITS -> [d EXCEPT !.cnt = 0, !.bit = @ + 1]
    [] d.cnt + 1 = bit_cycles /\ d.bit > NBITS ->
         [d EXCEPT !.cnt = 0, !.bit = @ + 1, !.active = FALSE, !.gap = GAP_CYCLES]

\* One edge with the line at level, the bytes in sent beginning their way.
PlayEdge(level, sent) ==
  /\ \E r \in Option(Reads) :
       LineEdge(<< >>, [aw |-> << >>, w |-> << >>, ar |-> r, br |-> TRUE, rr |-> TRUE,
                        rxd |-> level], sent)
  /\ UNCHANGED far

\* Mutant: a frame starts whether or not the UART can take another byte.
blocked_ignored == FALSE

blocked == far = "paced" /\ rx_fifo_full

MayStart == drv.gap = 0 /\ drv.idx < PlayMax /\ ~blocked

Rest ==
  /\ ~drv.active /\ ~MayStart
  /\ drv' = [drv EXCEPT !.gap = IF @ > 0 THEN @ - 1 ELSE 0]
  /\ PlayEdge(1, << >>)

StartFrame ==
  /\ ~drv.active /\ MayStart
  /\ \E b \in PlayBytes :
       LET d == [drv EXCEPT !.idx = @ + 1, !.cur = b, !.active = TRUE, !.bit = 0, !.cnt = 0]
       IN  drv' = Shipped(d) /\ PlayEdge(Level(d), <<b>>)

Ship ==
  /\ drv.active /\ drv' = Shipped(drv)
  /\ PlayEdge(Level(drv), << >>)

Play == far # "loop" /\ (Rest \/ StartFrame \/ Ship)

PlayNext ==
  \/ far = "loop" /\ Cycle /\ UNCHANGED <<far, drv>>
  \/ Play

PlaySpec == PlayInit /\ [][PlayNext]_playVars

\* A paced stimulus never provokes RX_OVERRUN, however slowly the program
\* reads: room seen before the start bit is still there when the frame ends
\* (sim_main.cpp:99).
DriverPaced == far = "paced" => ~rx_overrun_q /\ ~lost
=============================================================================
