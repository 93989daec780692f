------------------------------ MODULE NativeRam ------------------------------
(***************************************************************************)
(* The block-RAM behind the I-mem and the D-mem (utils/native_ram.sv): one *)
(* cycle of read latency, a landing register with bypass, and a shift FIFO *)
(* of OUTSTANDING answers for the cycles in which the master is not ready. *)
(*                                                                         *)
(* One step is one clock edge; its inputs are                              *)
(*   q  the request [valid, we, addr, data, strb]   (word address)         *)
(*   rr req_rready_i                                                       *)
(* A word is a function from its byte lanes to values.  skid_q with        *)
(* count_q is the sequence of its occupied slots.                          *)
(***************************************************************************)
EXTENDS Integers, Sequences

CONSTANTS
  OUTSTANDING,   \* answers the skid FIFO can hold
  READ_ONLY,     \* no write path (I-mem)
  Words,         \* word addresses
  Lanes,         \* byte lanes of a word
  Values         \* contents of a lane

VARIABLES
  mem,      \* the array
  rif_q,    \* a read launched last cycle lands now
  rd_d_q,   \* its data
  skid_q,   \* answers waiting for the master, oldest first
  answers   \* history: the words owed for the accepted reads, oldest first

ramVars == <<mem, rif_q, rd_d_q, skid_q, answers>>

land == rif_q
skid_pop(rr) == skid_q # << >> /\ rr
land_consumed(rr) == land /\ skid_q = << >> /\ rr
land_stored(rr) == land /\ ~land_consumed(rr)

rsp_rvalid == skid_q # << >> \/ land
rsp_rdata == IF skid_q # << >> THEN skid_q[1] ELSE rd_d_q

new_count(rr) ==
  Len(skid_q) - (IF skid_pop(rr) THEN 1 ELSE 0) + (IF land_stored(rr) THEN 1 ELSE 0)

\* Mutant: the word landing this cycle is not counted.
rsp_wready_blind(rr) == Len(skid_q) < OUTSTANDING

rsp_wready(rr) == new_count(rr) < OUTSTANDING

launch_hs(q, rr) == q.valid /\ rsp_wready(rr)
launch_read(q, rr) == launch_hs(q, rr) /\ ~q.we
launch_write(q, rr) == launch_hs(q, rr) /\ q.we

\* The pop shifts first; a stored landing word takes the freed slot.
next_skid(rr) ==
  LET rest == IF skid_pop(rr) THEN Tail(skid_q) ELSE skid_q
  IN  IF land_stored(rr) THEN Append(rest, rd_d_q) ELSE rest

\* Mutant: a partial write drops the lanes it does not select.
next_mem_unmerged(q, rr) ==
  IF launch_write(q, rr) /\ ~READ_ONLY
  THEN [mem EXCEPT ![q.addr] = [l \in q.strb |-> q.data[l]]]
  ELSE mem

next_mem(q, rr) ==
  IF launch_write(q, rr) /\ ~READ_ONLY
  THEN [mem EXCEPT ![q.addr] =
          [l \in Lanes |-> IF l \in q.strb THEN q.data[l] ELSE @[l]]]
  ELSE mem

\* What the accepted reads are owed: the word as it was when the read was
\* accepted, until the master takes it.
next_answers(q, rr) ==
  LET rest == IF rsp_rvalid /\ rr THEN Tail(answers) ELSE answers
  IN  IF launch_read(q, rr) THEN Append(rest, mem[q.addr]) ELSE rest

RamCycle(q, rr) ==
  /\ rif_q' = launch_read(q, rr)
  /\ rd_d_q' = IF launch_read(q, rr) THEN mem[q.addr] ELSE rd_d_q
  /\ skid_q' = next_skid(rr)
  /\ mem' = next_mem(q, rr)
  /\ answers' = next_answers(q, rr)

Contents == [Lanes -> Values]
Zero == [l \in Lanes |-> 0]

RamReset ==
  /\ rif_q = FALSE
  /\ rd_d_q = Zero
  /\ skid_q = << >>
  /\ answers = << >>

(***************************************************************************)
(* The component alone, under any sequence of requests and readiness.      *)
(***************************************************************************)
Requests == [valid: BOOLEAN, we: BOOLEAN, addr: Words, data: Contents,
             strb: SUBSET Lanes]

RamInit == mem \in [Words -> Contents] /\ RamReset

RamIdle(rr)   == \E q \in Requests : ~q.valid /\ RamCycle(q, rr)
RamRead(rr)   == \E q \in Requests : q.valid /\ ~q.we /\ RamCycle(q, rr)
RamWrite(rr)  == \E q \in Requests : q.valid /\ q.we /\ RamCycle(q, rr)

RamNext == \E rr \in BOOLEAN : RamIdle(rr) \/ RamRead(rr) \/ RamWrite(rr)

RamSpec == RamInit /\ [][RamNext]_ramVars

-----------------------------------------------------------------------------
(***************************************************************************)
(* The skid FIFO never overflows: rsp_wready counts the word landing next  *)
(* cycle, so a launch always leaves a slot for its own answer.             *)
(***************************************************************************)
RamRoom == Len(skid_q) + (IF rif_q THEN 1 ELSE 0) <= OUTSTANDING

(***************************************************************************)
(* Exactly the answers owed, in order, none lost while the master was not  *)
(* ready and none repeated: the FIFO followed by the landing word is the   *)
(* sequence of words the accepted reads are owed, whatever was written     *)
(* after they were accepted.                                               *)
(***************************************************************************)
AnswersExact == answers = skid_q \o (IF rif_q THEN <<rd_d_q>> ELSE << >>)
=============================================================================
