------------------------------ MODULE FetchUnit ------------------------------
(***************************************************************************)
(* The fetch stage wired to its real memory: the read-only, two-outstanding*)
(* native RAM (rv32imac_zicsr_zifencei.sv / top_module.sv wiring).  Decode *)
(* is still the environment.  What FetchStage leaves to the memory -- the  *)
(* PC stamp held in the single register req_pc_q -- is settled here.       *)
(*                                                                         *)
(* The RAM has one 64-bit word per block; its content names the block.     *)
(***************************************************************************)
EXTENDS FetchStage

VARIABLES i_mem, i_rif, i_rd, i_skid, i_answers

imem == INSTANCE NativeRam WITH
  OUTSTANDING <- 2, READ_ONLY <- TRUE,
  Words <- {b \in 0 .. IMEM_BYTES - 1 : b % 8 = 0}, Lanes <- {0}, Values <- Addr,
  mem <- i_mem, rif_q <- i_rif, rd_d_q <- i_rd, skid_q <- i_skid,
  answers <- i_answers

imemVars == <<i_mem, i_rif, i_rd, i_skid, i_answers>>
unitVars == <<fetchVars, imemVars>>

\* The RAM's side of the handshake, as fetch sees it this cycle.
imem_rsp ==
  [ready  |-> imem!rsp_wready(rready),
   rvalid |-> imem!rsp_rvalid,
   rdata  |-> imem!rsp_rdata[0]]

\* Mutant: the address pins are driven from pc_q on every cycle.
imem_req_pc(r) ==
  [valid |-> bus_issue(r), we |-> FALSE, addr |-> MemBlock(pc_q),
   data |-> [l \in {0} |-> 0], strb |-> {}]

\* The request fetch drives under redirect r.
imem_req(r) ==
  [valid |-> bus_issue(r), we |-> FALSE, addr |-> MemBlock(issue_addr(r)),
   data |-> [l \in {0} |-> 0], strb |-> {}]

\* One clock edge of the unit.
UnitRedirect(r) == Redirect(r, imem_rsp) /\ imem!RamCycle(imem_req(r), rready)

UnitAdvance(d) ==
  Advance(imem_rsp, d) /\ imem!RamCycle(imem_req(NoRedirect), rready)

UnitInit ==
  /\ FetchInit
  /\ i_mem = [b \in {b \in 0 .. IMEM_BYTES - 1 : b % 8 = 0} |-> [l \in {0} |-> b]]
  /\ imem!RamReset

UnitExecRedirect == \E t \in Targets : UnitRedirect(ExecRedirectTo(t))
UnitPredRedirect == \E t \in Targets : UnitRedirect(PredRedirectTo(t))
UnitRun          == \E d \in Demands : UnitAdvance(d)

UnitNext == UnitExecRedirect \/ UnitPredRedirect \/ UnitRun

UnitSpec == UnitInit /\ [][UnitNext]_unitVars

-----------------------------------------------------------------------------
(***************************************************************************)
(* The unit implements FetchStage in its arbitrary-memory environment: the *)
(* native RAM answers in order and never answers what was not asked.       *)
(***************************************************************************)
UnitImplementsFetch == FetchSpec

(***************************************************************************)
(* The assertion on req_pc_q in fetch_stage.sv: on the one-cycle RAM a     *)
(* launch never overwrites the address of a read whose answer is still     *)
(* owed.  Together with the shape of the answer it makes every PC stamp    *)
(* the address really read: a data entry holds the word at its PC, and a   *)
(* fault entry stands for a PC outside the I-mem.                          *)
(***************************************************************************)
StampsTrue ==
  /\ \A i \in 1 .. Len(buf) :
       IF buf[i].fault THEN OutOfRange(buf[i].pc)
       ELSE ~OutOfRange(buf[i].pc) /\ buf[i].word = Word(buf[i].pc)
  /\ Len(owed) <= 1
  /\ owed # << >> => owed[1].addr = req_pc_q

\* The PC that follows an entry in program order: the next word, or, after
\* an access fault, the next block.
EntrySucc(e) ==
  IF e.fault THEN (Block(e.pc) + 8) % ADDR_SPACE ELSE (Word(e.pc) + 4) % ADDR_SPACE

\* Where the stream resumes behind everything already launched.
Frontier == IF redir_launched_q THEN pc_next_block ELSE pc_q

LiveReads == {i \in 1 .. Len(owed) : owed[i].live}

\* The PC the stream goes on with behind the reads up to the i-th: that of
\* the oldest live read after them, or the frontier.
PcBehind(i) ==
  LET later == {j \in LiveReads : j > i}
  IN  IF later = {} THEN Frontier
      ELSE owed[CHOOSE j \in later : \A k \in later : j <= k].addr

(***************************************************************************)
(* The stream is contiguous: the buffered entries, then the live reads in  *)
(* flight, then the next address to fetch follow each other in program     *)
(* order -- no word skipped, repeated, or taken from a killed path --      *)
(* under every interleaving of redirects, stalls, faults and in-cycle      *)
(* launches (redir_launched_q).                                            *)
(***************************************************************************)
StreamContiguous ==
  /\ \A i \in 1 .. Len(buf) :
       EntrySucc(buf[i]) = IF i < Len(buf) THEN buf[i + 1].pc ELSE PcBehind(0)
  /\ \A i \in LiveReads : PcBehind(i) = (Block(owed[i].addr) + 8) % ADDR_SPACE
=============================================================================
