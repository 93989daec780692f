------------------------------ MODULE PeriBus ------------------------------
(***************************************************************************)
(* The way from the load/store unit to the peripherals: the AXI4-Lite      *)
(* bridge (bus/axi4_lite_master_bridge.sv), the 1-to-3 crossbar with its   *)
(* decode-error terminator (bus/axi4_lite_xbar_3.sv), and three slaves of  *)
(* the shape that msip_peri, clint_timer, axi4_lite_uart and axi4_lite_ram *)
(* share: each write phase is held until both are there, one answer is     *)
(* outstanding.  One step is one clock edge; its inputs are                *)
(*   q      the LSU's request <<[we, addr, data]>>, or << >>               *)
(*   rr     req_i.rready                                                   *)
(*   stall  what the slaves refuse in this cycle: a phase ("aw", "w", "ar")*)
(*          or the commit of a write ("do")                                *)
(* An option (<< >> or <<x>>) is a register with its valid bit: the held   *)
(* phases, the busy/select pairs of the crossbar, and the bridge's request *)
(* latch, which is read outside S_IDLE only.  Values carry the strobes.    *)
(***************************************************************************)
EXTENDS Integers, Sequences

CONSTANTS
  Window,    \* the port, 0, 1 or 2, that serves a register address
  Unmapped,  \* addresses in no window
  Values,    \* register contents
  Stalls     \* sets of refusals the slaves are capable of

ASSUME BusAssumption ==
  /\ \A a \in DOMAIN Window : Window[a] \in 0..2
  /\ Unmapped \cap DOMAIN Window = {}
  /\ 0 \in Values

Mapped == DOMAIN Window
Requests == [we : {TRUE}, addr : Mapped \cup Unmapped, data : Values]
              \cup [we : {FALSE}, addr : Mapped \cup Unmapped, data : {0}]
Option(S) == {<< >>} \cup {<<x>> : x \in S}

VARIABLES
  state_q, req_q,   \* bridge
  wr_q, rd_q,       \* crossbar: select of the write and read under way
  s,                \* per port: held phases aw, w, pending answers b, r
  regs,             \* register contents
  answer            \* history: the answer the LSU got at the last edge

busVars == <<state_q, req_q, wr_q, rd_q, s, regs, answer>>

NoMatch == 3        \* the decode-error terminator

(***************************************************************************)
(* Bridge: what it drives.  In S_IDLE a request goes out live.             *)
(***************************************************************************)
\* Mutant: a retry drives the live request, which the LSU may have changed.
driven_live(in) == IF in.q # << >> THEN in.q ELSE req_q

driven(in) == IF state_q = "IDLE" THEN in.q ELSE req_q

launch(in, we) == state_q = "IDLE" /\ in.q # << >> /\ in.q[1].we = we
awvalid(in) == launch(in, TRUE) \/ state_q \in {"WR_BOTH", "WR_DATA"}
wvalid(in) == launch(in, TRUE) \/ state_q \in {"WR_BOTH", "WR_ADDR"}
arvalid(in) == launch(in, FALSE) \/ state_q = "RD_ADDR"
rready(in) == state_q = "RD_WAIT" /\ in.rr

(***************************************************************************)
(* Crossbar: selection.  An address channel that is not driven carries     *)
(* zero, which is in no window.                                            *)
(***************************************************************************)
decode(a) == IF a \in Mapped THEN Window[a] ELSE NoMatch

wr_sel_live(in) == IF awvalid(in) THEN decode(driven(in)[1].addr) ELSE NoMatch
rd_sel_live(in) == IF arvalid(in) THEN decode(driven(in)[1].addr) ELSE NoMatch

\* Mutant: W follows the address on the bus after AW was taken.
wr_sel_eff_live(in) == wr_sel_live(in)

wr_sel_eff(in) == IF wr_q # << >> THEN wr_q[1] ELSE wr_sel_live(in)

\* A slave also takes AR while its last answer is fetched, but the crossbar
\* offers none then (rd_q).
refused(in, k, c) == k # NoMatch /\ c \in in.stall
aw_hs(in) ==
  LET k == wr_sel_live(in)
  IN awvalid(in) /\ wr_q = << >> /\ s[k].aw = << >> /\ ~s[k].b /\ ~refused(in, k, "aw")
w_hs(in) ==
  LET k == wr_sel_eff(in)
  IN wvalid(in) /\ s[k].w = << >> /\ ~s[k].b /\ ~refused(in, k, "w")
ar_hs(in) ==
  LET k == rd_sel_live(in)
  IN arvalid(in) /\ rd_q = << >> /\ s[k].r = << >> /\ ~refused(in, k, "ar")
b_hs == wr_q # << >> /\ s[wr_q[1]].b
r_hs(in) == rready(in) /\ rd_q # << >> /\ s[rd_q[1]].r # << >>

(***************************************************************************)
(* Slaves and terminator.                                                  *)
(***************************************************************************)
aw_eff(in, k) ==
  IF aw_hs(in) /\ wr_sel_live(in) = k THEN <<driven(in)[1].addr>> ELSE s[k].aw
w_eff(in, k) ==
  IF w_hs(in) /\ wr_sel_eff(in) = k THEN <<driven(in)[1].data>> ELSE s[k].w
do_write(in, k) ==
  aw_eff(in, k) # << >> /\ w_eff(in, k) # << >> /\ ~s[k].b /\ ~refused(in, k, "do")
read_value(in) ==
  IF rd_sel_live(in) = NoMatch THEN 0 ELSE regs[driven(in)[1].addr]

NextPort(in, k) ==
  [aw |-> IF do_write(in, k) THEN << >> ELSE aw_eff(in, k),
   w |-> IF do_write(in, k) THEN << >> ELSE w_eff(in, k),
   b |-> do_write(in, k) \/ (s[k].b /\ wr_q # <<k>>),
   r |-> IF ar_hs(in) /\ rd_sel_live(in) = k THEN <<read_value(in)>>
         ELSE IF r_hs(in) /\ rd_q = <<k>> THEN << >> ELSE s[k].r]

NextRegs(in) ==
  [a \in Mapped |->
     IF do_write(in, Window[a]) /\ aw_eff(in, Window[a]) = <<a>>
     THEN w_eff(in, Window[a])[1] ELSE regs[a]]

(***************************************************************************)
(* Next state of the bridge and of the crossbar.                           *)
(***************************************************************************)
\* After a cycle with both phases driven, by what was taken.
after_write(in) ==
  CASE aw_hs(in) /\ w_hs(in) -> "WR_WAIT"
    [] aw_hs(in) /\ ~w_hs(in) -> "WR_ADDR"
    [] ~aw_hs(in) /\ w_hs(in) -> "WR_DATA"
    [] ~aw_hs(in) /\ ~w_hs(in) -> "WR_BOTH"

\* Mutant: the write is over once both phases are taken.
next_state_posted(in) ==
  CASE launch(in, TRUE) \/ state_q = "WR_BOTH" ->
         IF after_write(in) = "WR_WAIT" THEN "IDLE" ELSE after_write(in)
    [] launch(in, FALSE) \/ state_q = "RD_ADDR" ->
         IF ar_hs(in) THEN "RD_WAIT" ELSE "RD_ADDR"
    [] state_q = "WR_ADDR" -> IF w_hs(in) THEN "IDLE" ELSE "WR_ADDR"
    [] state_q = "WR_DATA" -> IF aw_hs(in) THEN "IDLE" ELSE "WR_DATA"
    [] state_q = "RD_WAIT" -> IF r_hs(in) THEN "IDLE" ELSE "RD_WAIT"
    [] state_q = "WR_WAIT" -> IF b_hs THEN "IDLE" ELSE "WR_WAIT"
    [] state_q = "IDLE" /\ in.q = << >> -> "IDLE"

next_state(in) ==
  CASE launch(in, TRUE) \/ state_q = "WR_BOTH" -> after_write(in)
    [] launch(in, FALSE) \/ state_q = "RD_ADDR" ->
         IF ar_hs(in) THEN "RD_WAIT" ELSE "RD_ADDR"
    [] state_q = "WR_ADDR" -> IF w_hs(in) THEN "WR_WAIT" ELSE "WR_ADDR"
    [] state_q = "WR_DATA" -> IF aw_hs(in) THEN "WR_WAIT" ELSE "WR_DATA"
    [] state_q = "RD_WAIT" -> IF r_hs(in) THEN "IDLE" ELSE "RD_WAIT"
    [] state_q = "WR_WAIT" -> IF b_hs THEN "IDLE" ELSE "WR_WAIT"
    [] state_q = "IDLE" /\ in.q = << >> -> "IDLE"

next_answer(in) ==
  CASE state_q = "RD_WAIT" /\ r_hs(in) -> <<[we |-> FALSE, val |-> s[rd_q[1]].r[1]]>>
    [] state_q = "WR_WAIT" /\ b_hs -> <<[we |-> TRUE, val |-> 0]>>
    [] OTHER -> << >>

BusInit ==
  /\ state_q = "IDLE" /\ req_q = << >>
  /\ wr_q = << >> /\ rd_q = << >>
  /\ s = [k \in 0..NoMatch |-> [aw |-> << >>, w |-> << >>, b |-> FALSE, r |-> << >>]]
  /\ regs = [a \in Mapped |-> 0]
  /\ answer = << >>

Edge(in) ==
  /\ state_q' = next_state(in)
  /\ req_q' = IF next_state(in) = "IDLE" THEN << >> ELSE driven(in)
  /\ wr_q' = IF aw_hs(in) THEN <<wr_sel_live(in)>> ELSE IF b_hs THEN << >> ELSE wr_q
  /\ rd_q' = IF ar_hs(in) THEN <<rd_sel_live(in)>> ELSE IF r_hs(in) THEN << >> ELSE rd_q
  /\ s' = [k \in 0..NoMatch |-> NextPort(in, k)]
  /\ regs' = NextRegs(in)
  /\ answer' = next_answer(in)

Inputs == [q : Option(Requests), rr : BOOLEAN, stall : Stalls]

Cycle == \E in \in Inputs : Edge(in)

\* An edge at which the LSU is ready and no slave refuses anything.
Obliging == \E in \in Inputs : in.q = << >> /\ in.rr /\ in.stall = {} /\ Edge(in)

BusSpec == BusInit /\ [][Cycle]_busVars

\* The clock runs, and neither a slave refuses nor the LSU waits for ever.
BusLive == BusSpec /\ WF_busVars(Obliging)

(***************************************************************************)
(* Properties                                                              *)
(***************************************************************************)
\* Each port holds addresses of its own window only; the terminator holds
\* unmapped ones and answers 0.
BusTypeOK ==
  /\ state_q \in {"IDLE", "RD_ADDR", "RD_WAIT", "WR_BOTH", "WR_ADDR", "WR_DATA", "WR_WAIT"}
  /\ req_q \in Option(Requests)
  /\ wr_q \in Option(0..NoMatch) /\ rd_q \in Option(0..NoMatch)
  /\ DOMAIN s = 0..NoMatch
  /\ \A k \in 0..NoMatch :
       s[k] \in [aw : Option(IF k = NoMatch THEN Unmapped ELSE {a \in Mapped : Window[a] = k}),
                 w : Option(Values), b : BOOLEAN,
                 r : Option(IF k = NoMatch THEN {0} ELSE Values)]
  /\ regs \in [Mapped -> Values]
  /\ answer \in Option([we : BOOLEAN, val : Values])

\* When the bridge offers to take a request nothing of an earlier one is
\* left anywhere: no phase held by a slave the other phase did not reach, no
\* answer nobody fetched, no select (bridge S_IDLE; xbar wr_busy_q, rd_busy_q).
Quiescent ==
  state_q = "IDLE" =>
    /\ wr_q = << >> /\ rd_q = << >>
    /\ \A k \in 0..NoMatch : s[k] = [aw |-> << >>, w |-> << >>, b |-> FALSE, r |-> << >>]

\* Some port has the answer of the access under way.
Performed == \E k \in 0..NoMatch : s[k].b \/ s[k].r # << >>
PerformedValue ==
  IF \E k \in 0..NoMatch : s[k].r # << >>
  THEN s[CHOOSE k \in 0..NoMatch : s[k].r # << >>].r[1] ELSE 0

Port == INSTANCE PeriPort WITH
  job <- IF state_q = "IDLE" THEN << >>
         ELSE <<[req |-> req_q[1], done |-> Performed, val |-> PerformedValue]>>

\* Bridge, crossbar and slaves together are the peripheral port: an access
\* reaches one register, once, and is answered with what it read, whatever
\* the order in which the phases are taken (bridge S_WR_*, S_RD_*).
BusImplementsPort == Port!PortSpec

\* Every access ends, also one to an address no peripheral serves: the LSU
\* does not park in EX_MEM_WAIT (xbar decode-error terminator).
EveryAccessEnds == state_q # "IDLE" ~> answer # << >>
=============================================================================
