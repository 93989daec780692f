----------------------------- MODULE FetchQueue -----------------------------
(***************************************************************************)
(* What the instruction buffer promises: a first-in first-out queue of at  *)
(* most Capacity entries that takes up to two entries and gives up to two  *)
(* in one cycle, and that a redirect empties.                              *)
(***************************************************************************)
EXTENDS Integers, Sequences

CONSTANTS Capacity, Entries

VARIABLES
  queue,    \* oldest entry first
  cycle     \* the last cycle: [in, out, kill]

QueueInit == queue = << >> /\ cycle = [in |-> << >>, out |-> << >>, kill |-> FALSE]

Bursts == {<< >>} \cup {<<e>> : e \in Entries} \cup {<<e, f>> : e, f \in Entries}

\* What is given is the oldest, what is taken goes behind the youngest.
Pass(c) ==
  /\ c.out = SubSeq(queue, 1, Len(c.out))
  /\ queue' = SubSeq(queue, Len(c.out) + 1, Len(queue)) \o c.in
  /\ Len(queue') <= Capacity

QueueNext ==
  /\ cycle'.in \in Bursts /\ cycle'.out \in Bursts
  /\ IF cycle'.kill THEN queue' = << >> ELSE Pass(cycle')

QueueSpec == QueueInit /\ [][QueueNext]_<<queue, cycle>>
=============================================================================
