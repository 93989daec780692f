----------------------------- MODULE MCPeriBus -----------------------------
(***************************************************************************)
(* Two registers in the first window, one in the second, one unmapped      *)
(* address; slaves that may refuse any phase, or none.                     *)
(***************************************************************************)
EXTENDS PeriBus

MCWindow == [a \in {"u0", "u1", "t0"} |-> IF a = "t0" THEN 1 ELSE 0]
MCUnmapped == {"hole"}
MCValues == {0, 1}
MCStalls == SUBSET {"aw", "w", "ar", "do"}
=============================================================================
