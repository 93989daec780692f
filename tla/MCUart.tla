------------------------------- MODULE MCUart -------------------------------
(***************************************************************************)
(* The UART with two-bit bytes, two-entry FIFOs and its output wired to    *)
(* its input: two bytes to send, and a divisor to set at any time; or with *)
(* the stimulus driver on the line.                                        *)
(***************************************************************************)
EXTENDS UartRxDriver

MCDivs == {1, 2}
Send(b) == [reg |-> "TXDATA", low |-> TRUE, val |-> b]
SetDiv(d) == [reg |-> "BAUDDIV", low |-> TRUE, val |-> d]

MCWrites == {Send(<<1, 0>>), Send(<<0, 1>>), SetDiv(1)}
MCReads == {"RXDATA"}

MCBaudWrites == {Send(<<1, 0>>), SetDiv(1), SetDiv(2)}
MCNoReads == {}

MCPlay == {<<1, 0>>, <<0, 1>>}
=============================================================================
