------------------------------ MODULE BenchPort -----------------------------
(***************************************************************************)
(* The port layers of the two benchmarks, sim/sw/coremark/core_portme.c    *)
(* and sim/sw/dhrystone/dhry_portme.c: the timed region, the report that   *)
(* follows it, and what a trap does to the run.  The benchmark itself is   *)
(* iterations that take some cycles each.                                  *)
(*                                                                         *)
(* A word has WORD values (2^32); CENT stands for the 100 of the two       *)
(* decimals and MEGA for the 10^6 of "per MHz".  mcycle comes up as it     *)
(* likes.  CoreMark installs a trap reporter that parks; Dhrystone leaves  *)
(* mtvec at its reset value, the entry of start.S, so that a trap starts   *)
(* the program again.                                                      *)
(***************************************************************************)
EXTENDS Integers, Sequences, Image

CONSTANTS
  WORD, CENT, MEGA, CLK_HZ, ITERATIONS, VAX_DHRY_PER_SEC,
  IterCycles,      \* cycles an iteration may take
  FaultMax         \* bound: traps

ASSUME BenchAssumption ==
  /\ {WORD, CENT, MEGA, CLK_HZ, ITERATIONS, VAX_DHRY_PER_SEC} \subseteq Nat \ {0}
  /\ CLK_HZ % CENT = 0
  \* The timed region stays under 2^32 cycles, and a rate scaled by a hundred fits.
  /\ \A c \in IterCycles : /\ c \in Nat /\ c * ITERATIONS < WORD
                           /\ c * CENT < WORD /\ c * VAX_DHRY_PER_SEC < WORD

VARIABLES
  mcycle,
  mtvec,                  \* "reporter" or the reset value, "_start"
  t_begin, t_end, t_calls,   \* start_ticks and stop_ticks in CoreMark
  iter,                   \* iterations done
  report,                 \* what the summary prints
  elapsed,                \* history: cycles of the timed region, not wrapped
  banners, faults         \* history: banners printed, traps taken

benchVars == <<mcycle, mtvec, t_begin, t_end, t_calls, iter, report, elapsed, banners, faults>>

BenchInit ==
  /\ mcycle = 0 /\ mtvec = "_start" /\ t_begin = 0 /\ t_end = 0 /\ t_calls = 0 /\ iter = 0
  /\ report = << >> /\ elapsed = 0 /\ banners = 0 /\ faults = 0

\* Power-up: the counter may be anywhere in front of its wrap.
PowerUp ==
  /\ pc = "reset" /\ pc' = "_start"
  /\ \E m \in {0, WORD - 1, WORD - ITERATIONS} : mcycle' = m
  /\ UNCHANGED <<mtvec, t_begin, t_end, t_calls, iter, report, elapsed, banners, faults>>

\* start.S clears .bss and calls main; portable_init of CoreMark or main of
\* Dhrystone print the banner.
portable_init ==
  /\ pc = "_start" /\ pc' = "start_time"
  /\ mtvec' = IF image = "coremark" THEN "reporter" ELSE mtvec
  /\ t_begin' = 0 /\ t_end' = 0 /\ t_calls' = 0 /\ iter' = 0 /\ elapsed' = 0
  /\ banners' = banners + 1
  /\ UNCHANGED <<mcycle, report, faults>>

\* Mutant: every call of time() is the first one.
time_forgets ==
  /\ t_calls' = t_calls /\ t_begin' = mcycle /\ UNCHANGED t_end

\* time(): the first call of the program opens the region, the second closes it.
time ==
  /\ t_calls' = t_calls + 1
  /\ IF t_calls = 0 THEN t_begin' = mcycle /\ UNCHANGED t_end
     ELSE t_end' = mcycle /\ UNCHANGED t_begin

\* start_time() and stop_time() of CoreMark.
start_time == t_begin' = mcycle /\ UNCHANGED <<t_end, t_calls>>
stop_time == t_end' = mcycle /\ UNCHANGED <<t_begin, t_calls>>

OpenRegion ==
  /\ pc = "start_time" /\ pc' = "iterate"
  /\ IF image = "coremark" THEN start_time ELSE time
  /\ UNCHANGED <<mcycle, mtvec, iter, report, elapsed, banners, faults>>

Iterate ==
  /\ pc = "iterate"
  /\ IF iter < ITERATIONS
     THEN \E c \in IterCycles : /\ mcycle' = (mcycle + c) % WORD /\ elapsed' = elapsed + c
                                /\ iter' = iter + 1 /\ UNCHANGED pc
     ELSE pc' = "stop_time" /\ UNCHANGED <<mcycle, elapsed, iter>>
  /\ UNCHANGED <<mtvec, t_begin, t_end, t_calls, report, banners, faults>>

CloseRegion ==
  /\ pc = "stop_time" /\ pc' = "report"
  /\ IF image = "coremark" THEN stop_time ELSE time
  /\ UNCHANGED <<mcycle, mtvec, iter, report, elapsed, banners, faults>>

get_time == (t_end - t_begin) % WORD

x100(whole, hundredths) == [whole |-> whole, hundredths |-> hundredths]

Seconds(ticks) == x100(ticks \div CLK_HZ, (ticks % CLK_HZ) \div (CLK_HZ \div CENT))

\* The rate and the score of CoreMark, and those of Dhrystone.
CoreMarkRates(per_iter) ==
  LET score100 == (CENT * MEGA) \div per_iter
  IN  <<x100(CLK_HZ \div per_iter, (((CLK_HZ % per_iter) * CENT) % WORD) \div per_iter),
        x100(score100 \div CENT, score100 % CENT)>>

DhrystoneRates(per_iter) ==
  LET dhry_per_sec == CLK_HZ \div per_iter
      dmips100 == ((dhry_per_sec * CENT) % WORD) \div VAX_DHRY_PER_SEC
      dmips_mhz100 == (CENT * MEGA) \div ((per_iter * VAX_DHRY_PER_SEC) % WORD)
  IN  <<x100(dmips100 \div CENT, dmips100 % CENT),
        x100(dmips_mhz100 \div CENT, dmips_mhz100 % CENT)>>

HasRates(per_iter) == per_iter # 0

report_port_summary ==
  LET ticks == get_time
      per_iter == ticks \div ITERATIONS
  IN  /\ pc = "report" /\ pc' = "done"
      /\ report' =
           IF ticks = 0 THEN [ticks |-> ticks, secs |-> << >>, rates |-> << >>]
           ELSE [ticks |-> ticks, secs |-> <<Seconds(ticks)>>,
                 rates |-> IF ~HasRates(per_iter) THEN << >>
                           ELSE IF image = "coremark" THEN CoreMarkRates(per_iter)
                           ELSE DhrystoneRates(per_iter)]
      /\ UNCHANGED <<mcycle, mtvec, t_begin, t_end, t_calls, iter, elapsed, banners, faults>>

\* A trap anywhere in the run: the core goes to mtvec.
Trap ==
  /\ pc \in {"_start", "start_time", "iterate", "stop_time", "report"} /\ faults < FaultMax
  /\ faults' = faults + 1
  /\ pc' = IF mtvec = "reporter" THEN "trap_report" ELSE "_start"
  /\ UNCHANGED <<mcycle, mtvec, t_begin, t_end, t_calls, iter, report, elapsed, banners>>

\* trap_report_c prints the cause and parks.
trap_report ==
  /\ pc = "trap_report" /\ pc' = "parked" /\ UNCHANGED benchVars

BenchNext ==
  /\ image \in {"coremark", "dhrystone"} /\ UNCHANGED image
  /\ \/ PowerUp \/ portable_init \/ OpenRegion \/ Iterate \/ CloseRegion
     \/ report_port_summary \/ Trap \/ trap_report
-----------------------------------------------------------------------------
Value(x) == x.whole * CENT + x.hundredths

\* The report is true: its ticks are the cycles of the run it ends, across a wrap
\* of mcycle and after a restart; seconds and rates are these ticks in exact
\* arithmetic, cut to two decimals, and no division is by zero; and no CoreMark
\* run reports after a trap or starts over behind its banner
\* (core_portme.c:62-80, 176-214; dhry_portme.c:209-246).
ReportTrue ==
  /\ image \in {"coremark", "dhrystone"} /\ pc = "done" =>
       /\ report.ticks = elapsed
       /\ \A k \in DOMAIN report.secs :
            /\ report.secs[k].hundredths < CENT
            /\ Value(report.secs[k]) = (elapsed * CENT) \div CLK_HZ
       /\ report.rates # << >> =>
            LET per_iter == elapsed \div ITERATIONS
            IN  /\ \A k \in {1, 2} : report.rates[k].hundredths < CENT
                /\ image = "coremark" =>
                     Value(report.rates[1]) = (CLK_HZ * CENT) \div per_iter
                /\ image = "dhrystone" =>
                     Value(report.rates[2]) = (CENT * MEGA) \div (per_iter * VAX_DHRY_PER_SEC)
  /\ image = "coremark" => /\ mtvec = "reporter" => pc # "_start"
                           /\ pc = "done" /\ faults > 0 => banners = 1

BenchSpec ==
  /\ image \in {"coremark", "dhrystone"} /\ Boot /\ BenchInit
  /\ [][BenchNext]_<<image, pc, benchVars>>
=============================================================================
