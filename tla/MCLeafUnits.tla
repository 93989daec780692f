----------------------------- MODULE MCLeafUnits -----------------------------
(***************************************************************************)
(* The leaf units, small: a ring at its real depth with two entries that   *)
(* can be told apart, words of two bits in the timer and of four in the    *)
(* divider, a stack of two return addresses, a RAM of two words.           *)
(***************************************************************************)
EXTENDS LeafUnits

CONSTANTS e1, e2

MCEntries == {e1, e2}
=============================================================================
