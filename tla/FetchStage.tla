----------------------------- MODULE FetchStage -----------------------------
(***************************************************************************)
(* The instruction fetch unit of the core (core/fetch_stage.sv).           *)
(*                                                                         *)
(* One step of the specification is one clock edge.  The combinational     *)
(* wires of the module are operators over the registers and over the       *)
(* inputs sampled by that edge:                                            *)
(*   r  the redirect presented to fetch  [kind, addr]                      *)
(*   m  the answer of the I-mem          [ready, rvalid, rdata]            *)
(*   d  the demand of decode             [stall, pop2]                     *)
(*                                                                         *)
(* Data abstraction.  A 64-bit memory block is named by its byte address,  *)
(* a 32-bit word by its own; an instruction-buffer entry therefore says    *)
(* which word was really read next to the PC it was stamped with.  The     *)
(* depth-8 ring (buf_*_q, head_q, tail_q, count_q) is the sequence buf of  *)
(* its occupied slots; module FetchBuffer shows that the ring implements   *)
(* that sequence.                                                          *)
(***************************************************************************)
EXTENDS Integers, Sequences

CONSTANTS
  BUF_DEPTH,            \* slots of the instruction buffer (8 in the code)
  ADDR_SPACE,           \* 2^XLEN
  IMEM_BYTES,           \* 2^IMEM_ADDR_W, the implemented I-mem
  EXEC_REDIR_INCYCLE,   \* does an execute redirect launch in its own cycle?
  BOOT_ADDR,            \* boot_addr_i
  Targets               \* addresses the environment may redirect to

ASSUME FetchAssumption ==
  /\ BUF_DEPTH \in 2 .. 16
  /\ ADDR_SPACE \in Nat \ {0}
  /\ ADDR_SPACE % 8 = 0
  /\ IMEM_BYTES \in 1 .. ADDR_SPACE
  /\ IMEM_BYTES % 8 = 0
  /\ EXEC_REDIR_INCYCLE \in BOOLEAN
  /\ BOOT_ADDR \in 0 .. ADDR_SPACE - 1
  /\ Targets \subseteq 0 .. ADDR_SPACE - 1

VARIABLES
  pc_q,               \* next fetch address
  req_pc_q,           \* address of the in-flight read: one register
  inflight_q,         \* reads launched and not yet accepted back
  stale_q,            \* how many of them belong to a killed path
  redir_launched_q,   \* the last redirect cycle already read at its target
  buf,                \* the instruction buffer, oldest entry first
  owed                \* history: reads the memory still owes, oldest first,
                      \* and whether the last redirect left them alive

fetchVars ==
  <<pc_q, req_pc_q, inflight_q, stale_q, redir_launched_q, buf, owed>>

Addr == 0 .. ADDR_SPACE - 1

(***************************************************************************)
(* Address arithmetic.                                                     *)
(***************************************************************************)
Block(a) == a - (a % 8)
Word(a) == a - (a % 4)
OutOfRange(a) == a >= IMEM_BYTES

\* What the I-mem returns for address a: it decodes IMEM_ADDR_W bits only.
MemBlock(a) == Block(a % IMEM_BYTES)

pc_next_block  == (Block(pc_q) + 8) % ADDR_SPACE
pc_next_block2 == (Block(pc_q) + 16) % ADDR_SPACE

(***************************************************************************)
(* Redirect inputs.  The decode prediction is suppressed when execute      *)
(* redirects in the same cycle, so at most one source is live.             *)
(***************************************************************************)
NoRedirect == [kind |-> "none", addr |-> 0]
PredRedirectTo(t) == [kind |-> "pred", addr |-> t]
ExecRedirectTo(t) == [kind |-> "exec", addr |-> t]

redirect(r) == r.kind # "none"

(***************************************************************************)
(* Issue side: what is launched, and where.                                *)
(***************************************************************************)
pc_fault == OutOfRange(pc_q)

\* Mutant: a read in flight reserves one word, not two.
reserved_single == Len(buf) + inflight_q

reserved == Len(buf) + 2 * inflight_q

\* Five-bit unsigned subtraction: a negative room wraps to a large one.
available == (BUF_DEPTH - reserved) % 32

incycle_launch(r) ==
  IF EXEC_REDIR_INCYCLE THEN redirect(r) ELSE r.kind = "pred"

issue_addr(r) ==
  IF incycle_launch(r) THEN r.addr
  ELSE IF redir_launched_q THEN pc_next_block ELSE pc_q

\* Room on a redirect cycle is that of the buffer the redirect empties.
available_issue(r) ==
  IF redirect(r) THEN (BUF_DEPTH - 2 * inflight_q) % 32 ELSE available

exec_redir_hold(r) == ~EXEC_REDIR_INCYCLE /\ r.kind = "exec"

bus_issue(r) ==
  /\ inflight_q < 2
  /\ available_issue(r) >= 2
  /\ incycle_launch(r) \/ ~pc_fault
  /\ ~exec_redir_hold(r)

launch(r, m) == bus_issue(r) /\ m.ready

(***************************************************************************)
(* Response side: what is accepted, dropped, split and pushed.             *)
(***************************************************************************)
\* Mutant: off by one at the last free pair of slots.
rready_strict == stale_q # 0 \/ Len(buf) < BUF_DEPTH - 2

rready == stale_q # 0 \/ Len(buf) <= BUF_DEPTH - 2

rsp_cap(m) == m.rvalid /\ rready

do_rsp(m) == rsp_cap(m) /\ stale_q = 0

rsp_fault == OutOfRange(req_pc_q)

\* Mutant: a fault entry waits for the issue gate like a read.
fault_push_gated(m) ==
  pc_fault /\ bus_issue(NoRedirect) /\ ~rsp_cap(m) /\ inflight_q = 0

fault_push(m) ==
  pc_fault /\ available >= 1 /\ ~rsp_cap(m) /\ inflight_q = 0

\* Mutant: the upper word of a block is split as if it were the lower one.
rsp_two_always == TRUE

rsp_two == (req_pc_q % 8) < 4
rsp_high_pc == Block(req_pc_q) + 4

DataEntry(pc, word) == [pc |-> pc, word |-> word, fault |-> FALSE]
FaultEntry(pc)      == [pc |-> pc, word |-> 0,    fault |-> TRUE]

\* The entries this cycle writes at the tail: none, one or two.
pushes(m) ==
  IF do_rsp(m)
  THEN IF rsp_fault
       THEN <<FaultEntry(req_pc_q)>>
       ELSE IF rsp_two
            THEN <<DataEntry(req_pc_q, m.rdata),
                   DataEntry(rsp_high_pc, m.rdata + 4)>>
            ELSE <<DataEntry(req_pc_q, m.rdata + 4)>>
  ELSE IF fault_push(m) THEN <<FaultEntry(pc_q)>> ELSE << >>

buf_pop_cnt(d) ==
  IF buf # << >> /\ ~d.stall THEN (IF d.pop2 THEN 2 ELSE 1) ELSE 0

Drop(s, n) == SubSeq(s, n + 1, Len(s))

(***************************************************************************)
(* Next state.                                                             *)
(***************************************************************************)
\* Mutant: the read launched on the redirect cycle itself is forgotten.
next_pc_relaunch(m) ==
  IF fault_push(m) \/ launch(NoRedirect, m) THEN pc_next_block ELSE pc_q

next_pc(m) ==
  IF fault_push(m) THEN pc_next_block
  ELSE IF redir_launched_q
       THEN (IF launch(NoRedirect, m) THEN pc_next_block2 ELSE pc_next_block)
       ELSE (IF launch(NoRedirect, m) THEN pc_next_block ELSE pc_q)

next_inflight(r, m) ==
  inflight_q + (IF launch(r, m) THEN 1 ELSE 0) - (IF rsp_cap(m) THEN 1 ELSE 0)

\* Mutant: the read a redirect launches at its own target is counted stale.
next_stale_own(r, m) ==
  IF redirect(r) THEN next_inflight(r, m)
  ELSE IF rsp_cap(m) /\ stale_q # 0 THEN stale_q - 1 ELSE stale_q

next_stale(r, m) ==
  IF redirect(r) THEN inflight_q - (IF rsp_cap(m) THEN 1 ELSE 0)
  ELSE IF rsp_cap(m) /\ stale_q # 0 THEN stale_q - 1 ELSE stale_q

\* The history of reads the memory owes: an accepted response leaves at the
\* head, a redirect kills what is left, a launch joins at the end.
next_owed(r, m) ==
  LET rest == IF rsp_cap(m) THEN Tail(owed) ELSE owed
      kept == IF redirect(r)
              THEN [i \in 1 .. Len(rest) |-> [addr |-> rest[i].addr, live |-> FALSE]]
              ELSE rest
  IN  IF launch(r, m)
      THEN Append(kept, [addr |-> issue_addr(r), live |-> TRUE])
      ELSE kept

\* The part of the edge that does not depend on the redirect branch.
BusUpdate(r, m) ==
  /\ inflight_q' = next_inflight(r, m)
  /\ req_pc_q' = IF launch(r, m) THEN issue_addr(r) ELSE req_pc_q
  /\ redir_launched_q' = (incycle_launch(r) /\ launch(r, m))
  /\ stale_q' = next_stale(r, m)
  /\ owed' = next_owed(r, m)

\* A redirect empties the buffer; a push or a pop of that cycle is void.
Redirect(r, m) ==
  /\ pc_q' = r.addr
  /\ buf' = << >>
  /\ BusUpdate(r, m)

\* An ordinary cycle: issue, split and push, drain.
Advance(m, d) ==
  /\ pc_q' = next_pc(m)
  /\ buf' = Drop(buf, buf_pop_cnt(d)) \o pushes(m)
  /\ BusUpdate(NoRedirect, m)

(***************************************************************************)
(* The component alone, against any in-order memory of any latency and     *)
(* any decode that pops two entries only when it sees two.                 *)
(***************************************************************************)
FetchInit ==
  /\ pc_q = BOOT_ADDR
  /\ req_pc_q = 0
  /\ inflight_q = 0
  /\ stale_q = 0
  /\ redir_launched_q = FALSE
  /\ buf = << >>
  /\ owed = << >>

MemAnswers ==
  { m \in [ready: BOOLEAN, rvalid: BOOLEAN,
           rdata: {IF owed = << >> THEN 0 ELSE MemBlock(Head(owed).addr)}] :
      m.rvalid => owed # << >> }

Demands == { d \in [stall: BOOLEAN, pop2: BOOLEAN] : d.pop2 => Len(buf) >= 2 }

ExecRedirect == \E t \in Targets, m \in MemAnswers : Redirect(ExecRedirectTo(t), m)
PredRedirect == \E t \in Targets, m \in MemAnswers : Redirect(PredRedirectTo(t), m)
Run          == \E m \in MemAnswers, d \in Demands : Advance(m, d)

FetchNext == ExecRedirect \/ PredRedirect \/ Run

FetchSpec == FetchInit /\ [][FetchNext]_fetchVars

-----------------------------------------------------------------------------
Entry == [pc: Addr, word: Addr, fault: BOOLEAN]

\* Types, with the widths of the registers: both PCs stay XLEN-bit addresses
\* across the wrap of the adders, and at most two reads are in flight.
FetchTypeOK ==
  /\ pc_q \in Addr
  /\ req_pc_q \in Addr
  /\ inflight_q \in 0 .. 2
  /\ stale_q \in 0 .. 2
  /\ redir_launched_q \in BOOLEAN
  /\ buf \in Seq(Entry)
  /\ owed \in Seq([addr: Addr, live: BOOLEAN])

(***************************************************************************)
(* Buffer room (the assertion at the end of fetch_stage.sv): the words     *)
(* held plus two per read in flight never exceed the buffer, whatever the  *)
(* latency of the memory.  A breach would wrap `available`.                *)
(***************************************************************************)
RoomInv == Len(buf) + 2 * inflight_q <= BUF_DEPTH

(***************************************************************************)
(* stale_q is exact: it counts the reads launched before the last          *)
(* redirect, these are the oldest ones in flight, and the read launched on *)
(* the redirect cycle itself is not among them.  So a response is dropped  *)
(* iff its path was killed.                                                *)
(***************************************************************************)
StaleExact ==
  /\ Len(owed) = inflight_q
  /\ stale_q <= inflight_q
  /\ \A i \in 1 .. Len(owed) : owed[i].live <=> i > stale_q

(***************************************************************************)
(* A response is never refused: with a read in flight rready is high.  The *)
(* header argues that dropping the redirect term from rready is harmless   *)
(* because this case cannot arise.                                         *)
(***************************************************************************)
ResponseNeverRefused == inflight_q > 0 => rready
=============================================================================
