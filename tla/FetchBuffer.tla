----------------------------- MODULE FetchBuffer -----------------------------
(***************************************************************************)
(* The instruction buffer of fetch_stage.sv as it is built: a ring of      *)
(* Depth slots with head, tail and count registers, two write ports, and   *)
(* read ports at the head and behind it.  FetchStage uses the queue it     *)
(* implements.  The room gate of FetchStage (RoomInv) and decode's pop-two *)
(* condition are this module's environment.                                *)
(***************************************************************************)
EXTENDS Integers, Sequences

CONSTANTS
  Depth,     \* BUF_DEPTH: slots, and the modulus of the 3-bit indices
  Entries    \* contents of a slot

ASSUME BufferAssumption == Depth \in Nat /\ Depth >= 2

VARIABLES
  slots, head_q, tail_q, count_q,
  cycle     \* history: what the last cycle pushed and decode took from the read ports

bufferVars == <<slots, head_q, tail_q, count_q, cycle>>

Plus(index, n) == (index + n) % Depth

\* Mutant: the second write port does not wrap.
WritePortsUnwrapped(pushed) ==
  slots' = [k \in 0 .. Depth - 1 |->
              IF Len(pushed) >= 2 /\ k = tail_q + 1 THEN pushed[2]
              ELSE IF Len(pushed) >= 1 /\ k = tail_q THEN pushed[1]
              ELSE slots[k]]

\* The two write ports.  They act on a redirect cycle as well.
WritePorts(pushed) ==
  slots' = [k \in 0 .. Depth - 1 |->
              IF Len(pushed) >= 2 /\ k = Plus(tail_q, 1) THEN pushed[2]
              ELSE IF Len(pushed) >= 1 /\ k = tail_q THEN pushed[1]
              ELSE slots[k]]

\* The head and head+1 ports, with their valid flags.
ReadPorts ==
  <<[valid |-> count_q # 0, entry |-> slots[head_q]],
    [valid |-> count_q >= 2, entry |-> slots[Plus(head_q, 1)]]>>

pop_count(stall, pop2) ==
  IF count_q # 0 /\ ~stall THEN (IF pop2 THEN 2 ELSE 1) ELSE 0

BufferRedirect(pushed) ==
  /\ WritePorts(pushed)
  /\ head_q' = 0 /\ tail_q' = 0 /\ count_q' = 0

BufferMove(pushed, stall, pop2) ==
  /\ WritePorts(pushed)
  /\ head_q' = Plus(head_q, pop_count(stall, pop2))
  /\ tail_q' = Plus(tail_q, Len(pushed))
  /\ count_q' = count_q + Len(pushed) - pop_count(stall, pop2)

BufferInit ==
  /\ slots \in [0 .. Depth - 1 -> Entries]
  /\ head_q = 0 /\ tail_q = 0 /\ count_q = 0
  /\ cycle = [in |-> << >>, out |-> << >>, kill |-> FALSE]

\* A response was launched only with room for both its words.
Arrivals ==
  { p \in {<< >>} \cup {<<e>> : e \in Entries} \cup {<<e, f>> : e, f \in Entries} :
      count_q + Len(p) <= Depth }

Popped(n) == [k \in 1 .. n |-> ReadPorts[k].entry]

BufferKill == \E p \in Arrivals :
                /\ BufferRedirect(p)
                /\ cycle' = [in |-> p, out |-> << >>, kill |-> TRUE]
BufferRun  == \E p \in Arrivals, stall, pop2 \in BOOLEAN :
                /\ pop2 => ReadPorts[2].valid
                /\ BufferMove(p, stall, pop2)
                /\ cycle' = [in |-> p, out |-> Popped(pop_count(stall, pop2)), kill |-> FALSE]

BufferNext == BufferKill \/ BufferRun

BufferSpec == BufferInit /\ [][BufferNext]_bufferVars

-----------------------------------------------------------------------------
Contents == [k \in 1 .. count_q |-> slots[Plus(head_q, k - 1)]]

Queue == INSTANCE FetchQueue WITH Capacity <- Depth, queue <- Contents

(***************************************************************************)
(* The ring implements the queue: decode is given the oldest entries in    *)
(* the order they came, none lost, overwritten or repeated when the indices*)
(* wrap, when push and pop meet on a full or empty ring, or by the push    *)
(* that still lands on a redirect cycle.                                   *)
(***************************************************************************)
RingImplementsQueue == Queue!QueueSpec
=============================================================================
