------------------------------ MODULE RamBench ------------------------------
(***************************************************************************)
(* The RAM in the three configurations the SoC builds, under any requests  *)
(* and under the bus-functional models of its two benches                  *)
(* (hw/native_mem_tb/native_mem_tb.cpp, hw/native_ram64_tb/...).           *)
(*   "d"  the D-mem: one answer waiting, read and write                    *)
(*   "i"  the I-mem port of the first bench: one answer waiting, read only *)
(*   "f"  the fetch port: two answers waiting, read only                   *)
(* A call of the bench is a loop of clock edges; one step is one edge, or  *)
(* the call itself.  The scripts of the first bench are sequences of its   *)
(* calls: here they come in any order, with any words, lanes and delays.   *)
(***************************************************************************)
EXTENDS Integers, Sequences

CONSTANTS
  Words, Lanes, Values,
  HOLD,     \* bound: cycles for which a call keeps RREADY low
  GUARD     \* edges a loop waits before it reports a timeout (20 in the benches)

ASSUME BenchAssumption == HOLD \in Nat /\ GUARD \in Nat

VARIABLES
  mem, rif_q, rd_d_q, skid_q, answers,   \* the RAM
  port,                                  \* which configuration
  bfm,                                   \* a bench drives it, or anyone
  b,                                     \* the call under way
  shadow,                                \* the words the bench expects to read
  fails

ramVars == <<mem, rif_q, rd_d_q, skid_q, answers>>
tbVars == <<ramVars, port, bfm, b, shadow, fails>>

D == INSTANCE NativeRam WITH OUTSTANDING <- 1, READ_ONLY <- FALSE
I == INSTANCE NativeRam WITH OUTSTANDING <- 1, READ_ONLY <- TRUE
F == INSTANCE NativeRam WITH OUTSTANDING <- 2, READ_ONLY <- TRUE

rvalid == D!rsp_rvalid
rdata == D!rsp_rdata
wready(rr) == IF port = "f" THEN F!rsp_wready(rr) ELSE D!rsp_wready(rr)

\* One clock edge with the request q and RREADY rr.
tick(q, rr) == CASE port = "d" -> D!RamCycle(q, rr)
                 [] port = "i" -> I!RamCycle(q, rr)
                 [] port = "f" -> F!RamCycle(q, rr)

NoRequest == [valid |-> FALSE, we |-> FALSE, addr |-> CHOOSE a \in Words : TRUE,
              data |-> D!Zero, strb |-> {}]
Read(a) == [NoRequest EXCEPT !.valid = TRUE, !.addr = a]
Write(a, d, s) == [valid |-> TRUE, we |-> TRUE, addr |-> a, data |-> d, strb |-> s]

Main == [at |-> "main", op |-> "none", q |-> NoRequest, n |-> 0, guard |-> 0]

TbInit ==
  /\ D!RamInit
  /\ port \in {"d", "i", "f"} /\ bfm \in BOOLEAN
  /\ b = Main /\ shadow = mem /\ fails = FALSE

\* A check of the bench.
CHECK(cond) == fails' = (fails \/ ~cond)

\* A loop of the bench that waits for cond, one edge with q at a time, then
\* goes on at next; it gives up when the guard runs out.
WaitFor(cond, q, next) ==
  IF cond
  THEN b' = [b EXCEPT !.at = next, !.guard = 0] /\ UNCHANGED fails
  ELSE b' = [b EXCEPT !.guard = @ + 1] /\ CHECK(b.guard < GUARD)

\* main calls one of the functions of the bench, or makes its probe of the
\* single outstanding read.
CallBfm ==
  /\ b.at = "main" /\ port # "f"
  /\ \E a \in Words, n \in 0..HOLD, op \in {"write", "read", "probe"} :
     \E d \in IF op = "read" THEN {D!Zero} ELSE D!Contents,
        s \in IF op = "read" THEN {{}} ELSE SUBSET Lanes :
       /\ op # "read" => n = 0
       /\ op = "probe" => port = "d"
       /\ b' = [at |-> "launch", op |-> op, n |-> n, guard |-> 0,
                q |-> IF op = "read" THEN Read(a) ELSE Write(a, d, s)]
  /\ UNCHANGED <<ramVars, shadow, fails>>

\* d_write, d_read, i_read, i_write_attempt: offer the request, RREADY low,
\* until it is accepted.
Launch ==
  /\ b.at = "launch"
  /\ LET q == IF b.op = "probe" THEN Read(b.q.addr) ELSE b.q
     IN  /\ WaitFor(wready(FALSE), q, IF q.we THEN "main" ELSE "await") /\ tick(q, FALSE)
         /\ shadow' = IF wready(FALSE) /\ q.we /\ port = "d"
                      THEN [shadow EXCEPT ![q.addr] =
                              [l \in Lanes |-> IF l \in q.strb THEN q.data[l] ELSE @[l]]]
                      ELSE shadow

\* Wait for RVALID; no edge passes when it is up already.
Await ==
  /\ b.at = "await" /\ WaitFor(rvalid, NoRequest, "hold")
  /\ IF rvalid THEN UNCHANGED ramVars ELSE tick(NoRequest, FALSE)
  /\ UNCHANGED shadow

\* RREADY stays low for n cycles, RVALID must stay up.
Hold ==
  /\ b.at = "hold" /\ b.n > 0 /\ b' = [b EXCEPT !.n = @ - 1]
  /\ CHECK(rvalid) /\ tick(NoRequest, FALSE)
  /\ UNCHANGED shadow

\* Take the answer; RVALID falls behind it.
Accept ==
  /\ b.at = "hold" /\ b.n = 0 /\ b.op = "read" /\ b' = Main
  /\ tick(NoRequest, TRUE)
  /\ CHECK(rvalid /\ rdata = shadow[b.q.addr] /\ ~rvalid')
  /\ UNCHANGED shadow

\* A write offered while the answer waits is refused in two cycles; then the
\* answer is drained, and the word is read to see that nothing was written.
Probe ==
  /\ b.at = "hold" /\ b.op = "probe" /\ b' = [b EXCEPT !.at = "drain"]
  /\ tick(b.q, FALSE)
  /\ CHECK(rvalid /\ ~wready(FALSE) /\ ~wready(FALSE)')
  /\ UNCHANGED shadow

Drain ==
  /\ b.at = "drain" /\ tick(NoRequest, TRUE)
  /\ b' = [Main EXCEPT !.at = "launch", !.op = "read", !.q = Read(b.q.addr)]
  /\ UNCHANGED <<shadow, fails>>

(***************************************************************************)
(* The bench of the fetch port is one script: three reads into two slots.  *)
(* read is the read offered (0: none) and ready what WREADY must be; head  *)
(* is the read whose answer must be at the head (0: not looked at).        *)
(***************************************************************************)
Step(read, rr, ready, head) == [read |-> read, rr |-> rr, ready |-> ready, head |-> head]
Script ==
  << Step(1, FALSE, TRUE, 0), Step(2, FALSE, TRUE, 1), Step(3, FALSE, FALSE, 1) >>
  \o [n \in 1..4 |-> Step(0, FALSE, FALSE, 1)]
  \o << Step(0, TRUE, FALSE, 1), Step(3, FALSE, TRUE, 0), Step(0, TRUE, FALSE, 2),
        Step(0, TRUE, FALSE, 3) >>

StartScript ==
  /\ b.at = "main" /\ port = "f" /\ b.op = "none"
  /\ \E addrs \in [1..3 -> Words] : b' = [Main EXCEPT !.at = "script", !.op = "read",
                                                     !.q = addrs, !.n = 1]
  /\ UNCHANGED <<ramVars, shadow, fails>>

RunScript ==
  /\ b.at = "script"
  /\ LET s == Script[b.n]  last == b.n = Len(Script)
     IN  /\ tick(IF s.read = 0 THEN NoRequest ELSE Read(b.q[s.read]), s.rr)
         /\ CHECK(/\ s.read # 0 => wready(s.rr) = s.ready
                  /\ s.head # 0 => rvalid /\ rdata = shadow[b.q[s.head]]
                  /\ last => ~rvalid')
         /\ b' = IF last THEN Main ELSE [b EXCEPT !.n = @ + 1]
  /\ UNCHANGED shadow

Anyone ==
  /\ \/ port = "d" /\ D!RamNext
     \/ port = "i" /\ I!RamNext
     \/ port = "f" /\ F!RamNext
  /\ UNCHANGED <<b, shadow, fails>>

TbNext ==
  /\ UNCHANGED <<port, bfm>>
  /\ \/ ~bfm /\ Anyone
     \/ bfm /\ \/ CallBfm \/ Launch \/ Await \/ Hold \/ Accept \/ Probe \/ Drain
               \/ StartScript \/ RunScript

TbSpec == TbInit /\ [][TbNext]_tbVars
-----------------------------------------------------------------------------
\* In each configuration the answers owed for the accepted reads are those in
\* the skid FIFO and the landing register, in order, none lost, repeated or
\* touched by a later write, and the FIFO never overflows (native_ram.sv).
RamExact ==
  CASE port = "d" -> D!RamRoom /\ D!AnswersExact
    [] port = "i" -> I!RamRoom /\ I!AnswersExact
    [] port = "f" -> F!RamRoom /\ F!AnswersExact

\* No check of the benches fails and no guard runs out, whatever words, lanes
\* and delays their calls use: RVALID is held, a full skid refuses, a refused
\* or read-only write leaves no trace (native_mem_tb.cpp:4-15,
\* native_ram64_tb.cpp:4-13).
BenchPasses == ~fails
=============================================================================
