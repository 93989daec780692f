------------------------------- MODULE Image --------------------------------
(***************************************************************************)
(* What the programs under sim/sw have in common: the image linked into    *)
(* the instruction memory and the statement that runs next.  start.S       *)
(* clears .bss, so every static variable starts at zero, and calls main.   *)
(***************************************************************************)
VARIABLES
  image,   \* which program is loaded
  pc       \* the C statement that runs next

Boot == pc = "reset"
Linked(program) == image = program /\ UNCHANGED image
=============================================================================
