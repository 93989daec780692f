----------------------------- MODULE DecodeStage -----------------------------
(***************************************************************************)
(* The half of the decode stage that keeps state (core/decode_stage.sv):   *)
(* the parse of the word stream into 16- and 32-bit instructions with the  *)
(* RVC hold buffer, the fault and prediction priorities, and the D/E       *)
(* register.                                                               *)
(*                                                                         *)
(* Inputs of a clock edge:                                                 *)
(*   fe, nx  the head and head+1 entries of fetch [valid, fault, pc, word] *)
(*   flush   execute redirects;   stall  execute holds D/E                 *)
(*                                                                         *)
(* Data abstraction.  A halfword is named by its byte address; prog tells  *)
(* for each one whether its low bits are 11, i.e. whether it opens a       *)
(* 32-bit instruction.  A direction bit read from the predictor is named   *)
(* by the halfword it was looked up for.  Field decoding, immediates and   *)
(* operands do not influence the parse and are left out; whether an        *)
(* instruction is control flow predicted taken, and to where, is an input. *)
(***************************************************************************)
EXTENDS Integers, Sequences

VARIABLES
  prog,          \* halfword address -> opens a 32-bit instruction?
  hold_q,        \* a halfword is stashed
  hold_word_q,   \* which one
  hold_pc_q,     \* its PC
  hold_pred_q,   \* halfword the stashed direction bit was read for
  de_q           \* the D/E pipeline register

decodeVars == <<prog, hold_q, hold_word_q, hold_pc_q, hold_pred_q, de_q>>

\* A D/E register without an instruction, with an access fault, and with an
\* instruction: its PC, its halfwords, the halfword its direction bit was
\* read for, and the prediction fetch was steered by (pred_taken / _target).
Bubble == [valid |-> FALSE, fault |-> FALSE, pc |-> 0, halves |-> << >>,
           pred |-> 0, taken |-> FALSE, target |-> 0]
FaultInstr(pc) == [Bubble EXCEPT !.valid = TRUE, !.fault = TRUE, !.pc = pc]
Instr(pc, halves, pred) ==
  [Bubble EXCEPT !.valid = TRUE, !.pc = pc, !.halves = halves, !.pred = pred]

\* The two halfwords of a fetched word.
lower(w) == w
upper(w) == w + 2

(***************************************************************************)
(* Spanning-stitch predicates.                                             *)
(***************************************************************************)
hold_is_span == prog[hold_word_q]
hold_plain_pending == hold_q /\ ~hold_is_span
span_pending == hold_q /\ hold_is_span

take_fault(fe) == fe.valid /\ fe.fault /\ ~hold_plain_pending

span_complete(fe) == ~take_fault(fe) /\ span_pending /\ fe.valid
span_wait(fe) == ~take_fault(fe) /\ span_pending /\ ~fe.valid

target_upper(fe) ==
  ~take_fault(fe) /\ ~hold_q /\ fe.valid /\ fe.pc % 4 >= 2
target_span(fe) == target_upper(fe) /\ prog[upper(fe.word)]
\* Mutant: the fault flag of the second entry is not looked at.
target_span_complete_blind(fe, nx) == target_span(fe) /\ nx.valid

target_span_complete(fe, nx) == target_span(fe) /\ nx.valid /\ ~nx.fault
target_span_wait(fe, nx) == target_span(fe) /\ ~target_span_complete(fe, nx)

buffer_upper(fe) ==
  ~hold_q /\ ~target_upper(fe) /\ fe.valid /\ ~prog[lower(fe.word)]

decoded_valid(fe, nx) ==
  \/ take_fault(fe)
  \/ span_complete(fe)
  \/ hold_plain_pending
  \/ fe.valid /\ ~hold_q /\ ~take_fault(fe) /\ ~target_span_wait(fe, nx)

(***************************************************************************)
(* Source selection: the instruction presented to the uniform decoder.     *)
(***************************************************************************)
src_halves(fe, nx) ==
  CASE span_complete(fe)            -> <<hold_word_q, lower(fe.word)>>
    [] hold_plain_pending           -> <<hold_word_q>>
    [] target_span_complete(fe, nx) -> <<upper(fe.word), lower(nx.word)>>
    [] target_upper(fe) /\ ~target_span(fe) -> <<upper(fe.word)>>
    [] OTHER -> IF prog[lower(fe.word)]
                THEN <<lower(fe.word), upper(fe.word)>>
                ELSE <<lower(fe.word)>>

from_hold(fe) == span_complete(fe) \/ hold_plain_pending

src_pc(fe) == IF from_hold(fe) THEN hold_pc_q ELSE fe.pc

\* The direction bits fetch stored with an entry when it was pushed: one for
\* each halfword of the word the PC stamp names.
pred_lo(e) == e.pc - (e.pc % 4)
pred_hi(e) == e.pc - (e.pc % 4) + 2

\* Mutant: the direction bit is always that of the lower halfword.
pht_taken_src_lower(fe) == IF from_hold(fe) THEN hold_pred_q ELSE pred_lo(fe)

pht_taken_src(fe) ==
  IF from_hold(fe) THEN hold_pred_q
  ELSE IF fe.pc % 4 >= 2 THEN pred_hi(fe) ELSE pred_lo(fe)

de_d(fe, nx) ==
  IF ~decoded_valid(fe, nx) THEN Bubble
  ELSE IF take_fault(fe) THEN FaultInstr(fe.pc)
  ELSE Instr(src_pc(fe), src_halves(fe, nx), pht_taken_src(fe))

\* A predicted-taken redirect needs a decoded instruction that is neither
\* an access fault nor held or killed by execute.
can_predict(fe, nx) == decoded_valid(fe, nx) /\ ~take_fault(fe)

(***************************************************************************)
(* Back-pressure to fetch.                                                 *)
(***************************************************************************)
resource_stall(fe) == hold_plain_pending /\ fe.valid
stall_o(fe, stall) == resource_stall(fe) \/ stall
fe_pop2(fe, nx) == target_span_complete(fe, nx)

(***************************************************************************)
(* Hold buffer and D/E register next state.                                *)
(***************************************************************************)
Stash(half, pc, pred) ==
  /\ hold_q' = TRUE
  /\ hold_word_q' = half
  /\ hold_pc_q' = pc
  /\ hold_pred_q' = pred

ClearStash == hold_q' = FALSE /\ UNCHANGED <<hold_word_q, hold_pc_q, hold_pred_q>>
KeepStash == UNCHANGED <<hold_q, hold_word_q, hold_pc_q, hold_pred_q>>

\* The hold buffer on a cycle in which decode consumes its source.
HoldConsume(fe, nx) ==
  IF take_fault(fe) THEN ClearStash
  ELSE IF span_wait(fe) THEN KeepStash
  ELSE IF span_complete(fe) THEN Stash(upper(fe.word), fe.pc + 2, pred_hi(fe))
  ELSE IF hold_plain_pending THEN ClearStash
  ELSE IF target_span_complete(fe, nx)
       THEN Stash(upper(nx.word), nx.pc + 2, pred_hi(nx))
  ELSE IF target_span_wait(fe, nx) THEN Stash(upper(fe.word), fe.pc, pred_hi(fe))
  ELSE IF buffer_upper(fe) THEN Stash(upper(fe.word), fe.pc + 2, pred_hi(fe))
  ELSE ClearStash

DecodeFlush == ClearStash /\ de_q' = Bubble /\ UNCHANGED prog

DecodePredict(fe, nx, t) ==
  /\ can_predict(fe, nx)
  /\ ClearStash
  /\ de_q' = [de_d(fe, nx) EXCEPT !.taken = TRUE, !.target = t]
  /\ UNCHANGED prog

\* Execute holds D/E: the stash stays, unless a fault already made it moot.
DecodeStall(fe) ==
  /\ IF take_fault(fe) THEN ClearStash ELSE KeepStash
  /\ UNCHANGED <<de_q, prog>>

DecodeConsume(fe, nx) ==
  /\ HoldConsume(fe, nx)
  /\ de_q' = de_d(fe, nx)
  /\ UNCHANGED prog

DecodeReset ==
  /\ hold_q = FALSE
  /\ hold_word_q = 0
  /\ hold_pc_q = 0
  /\ hold_pred_q = 0
  /\ de_q = Bubble
=============================================================================
