----------------------------- MODULE SimHarness -----------------------------
(***************************************************************************)
(* The simulation harness around the core (sim/sim_main.cpp, main loop):   *)
(* in every cycle it samples wires before the clock edge and registers     *)
(* after it, counts events, charges a cycle that retires nothing to its    *)
(* cause, and watches WFI halts.  It ends at a parked program or after     *)
(* max_cyc cycles; here it goes on, and every run of it is a prefix.       *)
(*                                                                         *)
(* A counter is kept as off: by how much it differs from the number of     *)
(* instructions of its kind that have completed, or of redirects that have *)
(* happened.  What decode and fetch show, fe, is any of their conditions.  *)
(***************************************************************************)
EXTENDS ExecuteStage

CONSTANTS WFI_STUCK_N, WFI_HALT_N

ASSUME HarnessAssumption == WFI_STUCK_N \in Nat /\ WFI_HALT_N \in Nat

VARIABLES
  pv,              \* pv_div, pv_csr, pv_redir: the wires of the cycle before
  off,
  post_redirect,
  wfi,             \* wfi_held, wfi_since_wake, wfi_wake_seen, wfi_fail_why
  misplaced        \* history: a cycle was charged to the wrong cause

harnessVars == <<pv, off, post_redirect, wfi, misplaced>>
simVars == <<exVars, harnessVars>>

HarnessInit ==
  /\ pv = [div |-> FALSE, csr |-> FALSE, redir |-> FALSE]
  /\ off = [loads |-> 0, stores |-> 0, divs |-> 0, csrs |-> 0, redirects |-> 0, resolved |-> 0]
  /\ post_redirect = FALSE
  /\ wfi = [held |-> 0, since |-> 0, seen |-> FALSE, fail |-> "none"]
  /\ misplaced = FALSE

mem_running(i) == ex_state_q = "EX_MEM_WAIT" /\ ~mem_done(i)
mem_bus_drive == dmem_load_drive \/ captured_drive
div_running(i) == ex_state_q = "EX_DIV_BUSY" /\ ~i.divdone
branch_valid(i) == mispredict(i) \/ trap_redirect_req

\* An instruction has completed: ex_valid, after the edge.
ex_valid == left'.how = "commit"

(***************************************************************************)
(* Event counters.                                                         *)
(***************************************************************************)
Ones(x) == IF x THEN 1 ELSE 0

\* What the counter of redirects is measured by.
Redirected(i) == left'.how \in {"trap", "int"} \/ (ex_valid /\ (is("mret") \/ mispredict(i)))

CountEvents(i) ==
  /\ off' = [loads |-> off.loads + Ones(mem_done(i)) - Ones(ex_valid /\ is("load")),
             stores |-> off.stores + Ones(store_done(i)) - Ones(ex_valid /\ is("store")),
             divs |-> off.divs + Ones(alu_start /\ ~pv.div) - Ones(ex_valid /\ is("div")),
             csrs |-> off.csrs + Ones(csr_start /\ ~pv.csr) - Ones(ex_valid /\ is("csr")),
             redirects |-> off.redirects + Ones(branch_valid(i) /\ ~pv.redir)
                             - Ones(Redirected(i)),
             resolved |-> off.resolved + Ones(cf_resolving) - Ones(ex_valid /\ is("branch"))]
  /\ pv' = [div |-> alu_start, csr |-> csr_start, redir |-> branch_valid(i)]

(***************************************************************************)
(* The cause of a cycle, by priority: execute, then decode and fetch.      *)
(***************************************************************************)
FrontEnds == {"rvc_hold", "rvc_span", "imem", "dec_bubble", "ready"}

Causes(i, fe) ==
  << <<"load_wait", mem_running(i)>>,
     <<"lsu_launch", (mem_bus_drive \/ mem_capture) /\ ~store_done(i)>>,
     <<"lsu_mistrap", misaligned_trap>>,
     <<"div", div_running(i) \/ alu_start>>,
     <<"csr", csr_start>>,
     <<"wfi", wfi_stall>>,
     <<"rvc_hold", fe = "rvc_hold">>,
     <<"rvc_span", fe = "rvc_span">>,
     <<"redirect", post_redirect>>,
     <<"imem", fe = "imem">>,
     <<"dec_bubble", fe = "dec_bubble">>,
     <<"other", TRUE>> >>

sc_this(i, fe) ==
  LET cs == Causes(i, fe)
      k == CHOOSE k \in DOMAIN cs : cs[k][2] /\ \A j \in 1..k-1 : ~cs[j][2]
  IN  cs[k][1]

\* The instructions that may hold a cycle with this cause.
Holders(cause) ==
  CASE cause = "load_wait" -> {"load"}
    [] cause \in {"lsu_launch", "lsu_mistrap"} -> {"load", "store"}
    [] cause = "div" -> {"div"}
    [] cause = "csr" -> {"csr"}
    [] OTHER -> {}

ExecuteCauses == {"load_wait", "lsu_launch", "lsu_mistrap", "div", "csr", "wfi"}

\* The cycle belongs to execute if and only if execute stalls, and then to the
\* instruction that holds it; the cycle behind a redirect is the redirect's,
\* but for decode's own bubbles.
RightlyCharged(i, cause) ==
  /\ (cause \in ExecuteCauses) <=> stall_o(i)
  /\ cause \in ExecuteCauses \ {"wfi"} => de.valid /\ de.ins.op \in Holders(cause)
  /\ pv.redir => cause \in {"rvc_hold", "rvc_span", "redirect"}

\* Mutant: the flag is set before the retire test, which clears it again.
next_post_redirect_early(i) == ~ex_valid /\ (branch_valid(i) \/ post_redirect)

next_post_redirect(i) == branch_valid(i) \/ (post_redirect /\ ~ex_valid)

ChargeCycle(i) ==
  /\ post_redirect' = next_post_redirect(i)
  /\ misplaced' = (misplaced \/ \E fe \in FrontEnds :
                     ~ex_valid /\ ~RightlyCharged(i, sc_this(i, fe)))

(***************************************************************************)
(* The WFI checks, on the registers behind the edge.                       *)
(***************************************************************************)
AtMost(n, bound) == IF n <= bound THEN n ELSE bound

WatchWfi ==
  LET seen == wfi.seen \/ int_pending'
      held == AtMost(wfi.held + 1, WFI_HALT_N + 1)
      since == IF seen THEN AtMost(wfi.since + 1, WFI_STUCK_N + 1) ELSE wfi.since
      fail == CASE wfi.fail # "none" -> wfi.fail
                [] wfi.fail = "none" /\ seen /\ since > WFI_STUCK_N -> "stuck"
                [] wfi.fail = "none" /\ ~(seen /\ since > WFI_STUCK_N) ->
                     IF held > WFI_HALT_N THEN "unwoken" ELSE "none"
  IN  wfi' = IF wfi_halt_q' THEN [held |-> held, since |-> since, seen |-> seen, fail |-> fail]
             ELSE [held |-> 0, since |-> 0, seen |-> FALSE, fail |-> wfi.fail]

Observe(i) == CountEvents(i) /\ ChargeCycle(i) /\ WatchWfi

SimNext == \E i \in Inputs : Edge(i) /\ Observe(i)

SimSpec ==
  /\ ExecInit /\ HarnessInit /\ [][SimNext]_simVars
  /\ WF_exVars(EdgeObliging) /\ SF_exVars(EdgeOrdinary)
-----------------------------------------------------------------------------
\* A cycle in which execute stalls is charged to execute, whatever decode and
\* fetch show: execute owns the retire slot (sim_main.cpp:319-323, 491-512).
CyclesCharged == ~misplaced

(***************************************************************************)
(* The report of a run is true.  Each counter has counted the instructions *)
(* that completed, and the divide or CSR access under way, none twice and  *)
(* none merged with the one before; every cycle without a retirement is    *)
(* charged to what held the pipe; and the check for a WFI that is stuck    *)
(* after its wake never fires on this core (sim_main.cpp:300-322, 361-374, *)
(* 381-398).                                                               *)
(***************************************************************************)
HarnessExact ==
  /\ off = [loads |-> 0, stores |-> 0, divs |-> Ones(ex_state_q = "EX_DIV_BUSY"),
            csrs |-> Ones(ex_state_q = "EX_CSR_WAIT"), redirects |-> 0, resolved |-> 0]
  /\ CyclesCharged
  /\ wfi.fail # "stuck"
=============================================================================
