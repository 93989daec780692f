----------------------------- MODULE MCFrontEnd -----------------------------
(***************************************************************************)
(* The front end over every program of a 16-byte I-mem, with targets on an *)
(* aligned word, on upper halfwords, and outside the I-mem.                *)
(***************************************************************************)
EXTENDS FrontEnd

MCTargets == {0, 10, 14, 18}
MCPrograms == [ {a \in 0 .. IMEM_BYTES - 1 : a % 2 = 0} -> BOOLEAN ]
=============================================================================
