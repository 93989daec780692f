------------------------------ MODULE FrontEnd ------------------------------
(***************************************************************************)
(* Fetch, instruction memory and decode composed, with execute as the      *)
(* environment (rv32imac_zicsr_zifencei.sv).  Execute may stall D/E or     *)
(* redirect at any cycle; the one thing it never does is let an access     *)
(* fault pass: it holds it or it traps (sync_trap_req).                    *)
(***************************************************************************)
EXTENDS FetchUnit, DecodeStage

CONSTANT Programs   \* the memory contents considered

\* Execute clears bit 0 of a jalr target, and offsets and vectors are even; an
\* odd mepc, which software alone could write, is left out.
ASSUME FrontAssumption ==
  /\ \A t \in Targets \cup {BOOT_ADDR} : t % 2 = 0
  /\ Programs \subseteq [{a \in 0 .. IMEM_BYTES - 1 : a % 2 = 0} -> BOOLEAN]

VARIABLE dry   \* history: cycles in a row in which execute could take an
               \* instruction and was handed none

frontVars == <<unitVars, decodeVars, dry>>

\* Fetch's F/D outputs: the head of the buffer and the entry behind it.
NoEntry == [valid |-> FALSE, fault |-> FALSE, pc |-> 0, word |-> 0]
Port(i) ==
  IF Len(buf) < i THEN NoEntry
  ELSE [valid |-> TRUE, fault |-> buf[i].fault, pc |-> buf[i].pc, word |-> buf[i].word]
fe == Port(1)
nx == Port(2)

holds_fault == de_q.valid /\ de_q.fault

\* Execute redirects (mispredict, trap, mret, interrupt).
FrontFlush(t) ==
  /\ UnitRedirect(ExecRedirectTo(t))
  /\ DecodeFlush
  /\ dry' = 0

\* Decode hands over an instruction predicted taken and steers fetch.
FrontPredict(t) ==
  /\ ~holds_fault
  /\ DecodePredict(fe, nx, t)
  /\ UnitRedirect(PredRedirectTo(t))
  /\ dry' = 0

\* Execute holds D/E.
FrontStall ==
  /\ UnitAdvance([stall |-> TRUE, pop2 |-> fe_pop2(fe, nx)])
  /\ DecodeStall(fe)
  /\ UNCHANGED dry

\* An ordinary cycle.
FrontRun ==
  /\ ~holds_fault
  /\ UnitAdvance([stall |-> resource_stall(fe), pop2 |-> fe_pop2(fe, nx)])
  /\ DecodeConsume(fe, nx)
  /\ dry' = IF de_q'.valid THEN 0 ELSE dry + 1

FrontInit ==
  /\ UnitInit
  /\ prog \in Programs
  /\ DecodeReset
  /\ dry = 0

FrontNext ==
  \/ \E t \in Targets : FrontFlush(t)
  \/ \E t \in Targets : FrontPredict(t)
  \/ FrontStall
  \/ FrontRun

FrontSpec == FrontInit /\ [][FrontNext]_frontVars

-----------------------------------------------------------------------------
\* Where the stream stands: the stashed half, else the oldest buffered word,
\* else the live read in flight, else the next address to fetch.
StreamPc ==
  IF hold_q THEN hold_pc_q
  ELSE IF buf # << >> THEN buf[1].pc
  ELSE PcBehind(0)

SettledPc ==
  IF ~OutOfRange(StreamPc) /\ prog[StreamPc] /\ OutOfRange((StreamPc + 2) % ADDR_SPACE)
  THEN (StreamPc + 2) % ADDR_SPACE
  ELSE StreamPc

Stream == INSTANCE InstrStream WITH next <- SettledPc, de <- de_q

(***************************************************************************)
(* The front end implements the instruction stream: no instruction lost,   *)
(* repeated, cut in two or taken from a killed path, under every pattern   *)
(* of stalls, redirects, predictions, faults and buffer levels.            *)
(***************************************************************************)
FrontImplementsStream == Stream!StreamSpec

(***************************************************************************)
(* The direction bit an instruction is predicted with was looked up for    *)
(* that instruction's own halfword, also when it travelled through the     *)
(* hold buffer or came from the second entry of a stitch.                  *)
(***************************************************************************)
PredictionIsOwn == de_q.valid /\ ~de_q.fault => de_q.pred = de_q.pc

(***************************************************************************)
(* The front end does not run dry: an execute stage that neither stalls    *)
(* nor redirects waits at most MaxDry cycles for its next instruction.  No *)
(* handshake between fetch, memory and decode can get stuck.               *)
(***************************************************************************)
MaxDry == 3
NeverDry == dry <= MaxDry
=============================================================================
