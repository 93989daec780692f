------------------------------- MODULE MCSim --------------------------------
(***************************************************************************)
(* The harness around an execute stage with one PC, one interrupt source   *)
(* and CSR accesses that open interrupts.                                  *)
(***************************************************************************)
EXTENDS SimHarness

MCIntCode == [s \in Sources |-> 1]
MCCsrOps ==
  { [reg |-> "mstatus", fn |-> "rs", src |-> {"MIE"}],
    [reg |-> "mie", fn |-> "rs", src |-> {"MTI"}] }
=============================================================================
