--------------------------- MODULE BranchPredictor ---------------------------
(***************************************************************************)
(* The branch predictor (core/branch_predictor.sv): a gshare table of      *)
(* two-bit counters and a circular return-address stack, both trained by   *)
(* execute when a control-flow instruction resolves.  One step is one      *)
(* clock edge.  An index and the history register are the sets of their    *)
(* one bits, so exclusive or is symmetric difference; a PC is the set of   *)
(* the bits 1..IDX_W it is looked up with.                                 *)
(***************************************************************************)
EXTENDS Integers, Sequences

CONSTANTS
  IDX_W,        \* bits of an index, and of the history register
  RAS_DEPTH,
  ReturnPcs     \* return addresses

ASSUME PredictorAssumption ==
  IDX_W \in Nat /\ IDX_W > 1 /\ RAS_DEPTH \in Nat /\ RAS_DEPTH > 0

VARIABLES
  pht_q, ghr_q,
  ras_q, ras_ptr_q, ras_cnt_q,
  callers       \* history: return addresses not yet returned to, oldest first

bpVars == <<pht_q, ghr_q, ras_q, ras_ptr_q, ras_cnt_q, callers>>

Bits == 0..IDX_W-1
Indices == SUBSET Bits
Xor(a, b) == (a \ b) \cup (b \ a)

\* ras_q has no reset: a slot holds anything until it is pushed.
BpInit ==
  /\ pht_q = [x \in Indices |-> 1] /\ ghr_q = {}
  /\ ras_q \in [0..RAS_DEPTH-1 -> ReturnPcs] /\ ras_ptr_q = 0 /\ ras_cnt_q = 0
  /\ callers = << >>

(***************************************************************************)
(* Lookup.  Bit k of an index comes from bit k + 1 of the PC.              *)
(***************************************************************************)
lookup_index(pc) == Xor({b - 1 : b \in pc}, ghr_q)
Direction(x) == pht_q[x] >= 2

ras_top_idx == (ras_ptr_q - 1) % RAS_DEPTH
ras_valid == ras_cnt_q # 0

\* The push-time lookup of a word reads an aligned pair of entries; bit 0 of
\* the history says which of the two is the lower halfword's.
Pair(pc) == Xor({b - 1 : b \in pc \ {1}}, ghr_q \ {0})
push_pred_lo(pc) == Direction(IF 0 \in ghr_q THEN Pair(pc) \cup {0} ELSE Pair(pc))
push_pred_hi(pc) == Direction(IF 0 \in ghr_q THEN Pair(pc) ELSE Pair(pc) \cup {0})

(***************************************************************************)
(* Training.                                                               *)
(***************************************************************************)
sat_update(c, taken) == IF taken THEN (IF c = 3 THEN 3 ELSE c + 1)
                        ELSE (IF c = 0 THEN 0 ELSE c - 1)

\* x is the index the branch carries from its lookup.
TrainCond(x, taken) ==
  /\ pht_q' = [pht_q EXCEPT ![x] = sat_update(@, taken)]
  /\ ghr_q' = {b + 1 : b \in ghr_q \ {IDX_W - 1}} \cup (IF taken THEN {0} ELSE {})
  /\ UNCHANGED <<ras_q, ras_ptr_q, ras_cnt_q, callers>>

\* The last at most n elements of s.
LastOf(n, s) == IF Len(s) <= n THEN s ELSE SubSeq(s, Len(s) - n + 1, Len(s))

TrainCall(push_pc) ==
  /\ ras_q' = [ras_q EXCEPT ![ras_ptr_q] = push_pc]
  /\ ras_ptr_q' = (ras_ptr_q + 1) % RAS_DEPTH
  /\ ras_cnt_q' = IF ras_cnt_q = RAS_DEPTH THEN ras_cnt_q ELSE ras_cnt_q + 1
  /\ callers' = LastOf(RAS_DEPTH, Append(callers, push_pc))
  /\ UNCHANGED <<pht_q, ghr_q>>

\* Mutant: a return from an empty stack leaves the count wrapped.
next_cnt_wraps == (ras_cnt_q - 1) % (2 * RAS_DEPTH)

next_cnt == IF ras_cnt_q = 0 THEN 0 ELSE ras_cnt_q - 1

TrainReturn ==
  /\ ras_ptr_q' = (ras_ptr_q - 1) % RAS_DEPTH
  /\ ras_cnt_q' = next_cnt
  /\ callers' = IF callers = << >> THEN << >> ELSE SubSeq(callers, 1, Len(callers) - 1)
  /\ UNCHANGED <<pht_q, ghr_q, ras_q>>

\* One instruction trains at most one of the three: a call writes x1 or x5, a
\* return writes x0 (execute_stage.sv:1203-1206).
BpNext ==
  \/ \E x \in Indices, taken \in BOOLEAN : TrainCond(x, taken)
  \/ \E p \in ReturnPcs : TrainCall(p)
  \/ TrainReturn

BpSpec == BpInit /\ [][BpNext]_bpVars
-----------------------------------------------------------------------------
\* The circular stack is a stack of the last RAS_DEPTH calls: however calls
\* overflow it and returns run it empty, a valid entry is the return address
\* of the innermost call not yet returned from, and no slot that was never
\* pushed is used; and the two bits read when a word is pushed are those that
\* its two halfwords would look up (branch_predictor.sv:163-166, 180-196,
\* 244-260).
PredictorExact ==
  /\ callers = [k \in 1..ras_cnt_q |-> ras_q[(ras_ptr_q - ras_cnt_q + k - 1) % RAS_DEPTH]]
  /\ \A pc \in SUBSET (1..IDX_W) :
       /\ push_pred_lo(pc) = Direction(lookup_index(pc \ {1}))
       /\ push_pred_hi(pc) = Direction(lookup_index(pc \cup {1}))
=============================================================================
