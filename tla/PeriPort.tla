------------------------------ MODULE PeriPort ------------------------------
(***************************************************************************)
(* What the load/store unit is promised on its peripheral port: one access *)
(* at a time; it is performed exactly once, on the register it names,      *)
(* between its acceptance and its answer; a read is answered with the      *)
(* register's value at that moment; an address outside every window reads  *)
(* 0, swallows writes and is answered all the same.                        *)
(***************************************************************************)
EXTENDS Integers, Sequences

CONSTANTS
  Mapped, Unmapped,   \* register addresses, and addresses of no register
  Values,             \* register contents; 0 is one
  Requests            \* [we, addr, data]

VARIABLES
  regs,     \* the registers
  job,      \* the access under way: [req, done, val], or << >>
  answer    \* the answer given at the last edge: [we, val], or << >>

portVars == <<regs, job, answer>>

PortInit ==
  /\ regs = [a \in Mapped |-> 0]
  /\ job = << >>
  /\ answer = << >>

Value(q) == IF q.we \/ q.addr \in Unmapped THEN 0 ELSE regs[q.addr]

\* The access q takes effect.
Effect(q) ==
  /\ job' = <<[req |-> q, done |-> TRUE, val |-> Value(q)]>>
  /\ regs' = IF q.we /\ q.addr \in Mapped THEN [regs EXCEPT ![q.addr] = q.data]
             ELSE regs
  /\ answer' = << >>

Accept(q) ==
  /\ job = << >>
  /\ \/ /\ job' = <<[req |-> q, done |-> FALSE, val |-> 0]>>
        /\ answer' = << >>
        /\ UNCHANGED regs
     \/ Effect(q)

Perform ==
  /\ job # << >> /\ ~job[1].done
  /\ Effect(job[1].req)

Finish ==
  /\ job # << >> /\ job[1].done
  /\ answer' = <<[we |-> job[1].req.we, val |-> job[1].val]>>
  /\ job' = << >>
  /\ UNCHANGED regs

\* Nothing happens at this edge but that the last answer is gone.
Wait ==
  /\ answer' = << >>
  /\ UNCHANGED <<regs, job>>

PortNext == (\E q \in Requests : Accept(q)) \/ Perform \/ Finish \/ Wait

PortSpec == PortInit /\ [][PortNext]_portVars
=============================================================================
