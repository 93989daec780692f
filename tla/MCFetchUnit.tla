----------------------------- MODULE MCFetchUnit -----------------------------
(***************************************************************************)
(* FetchUnit with a 32-byte I-mem in a 64-byte address space: four blocks *)
(* of instructions and four unfetchable ones, targets at every halfword.   *)
(***************************************************************************)
EXTENDS FetchUnit

MCTargets == {a \in 0 .. 39 : a % 2 = 0} \cup {62}
=============================================================================
