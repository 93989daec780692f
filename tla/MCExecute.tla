----------------------------- MODULE MCExecute -----------------------------
(***************************************************************************)
(* ExecuteStage with the program at PCs 0..1, the trap vector at 2 and the *)
(* interrupt vectors behind it, and CSR accesses that open, close, restore *)
(* and nest interrupts.                                                    *)
(***************************************************************************)
EXTENDS ExecuteStage

MCSources == {"MTI"}
MCIntCode == [s \in Sources |-> 1]
MCCsrOps ==
  { [reg |-> "mstatus", fn |-> "rs", src |-> {"MIE"}],
    [reg |-> "mstatus", fn |-> "rc", src |-> {"MIE"}],
    [reg |-> "mstatus", fn |-> "rw", src |-> {"MPIE"}],
    [reg |-> "mie", fn |-> "rs", src |-> {}],
    [reg |-> "mie", fn |-> "rs", src |-> {"MTI"}],
    [reg |-> "mepc", fn |-> "rw", src |-> 1] }
=============================================================================
