------------------------------ MODULE LeafUnits ------------------------------
(***************************************************************************)
(* The blocks of the SoC that meet the rest only at their own ports, each  *)
(* under any inputs its neighbours can give it: the instruction ring of    *)
(* fetch, the machine timer, the divider, the branch predictor and the     *)
(* on-chip RAM with its benches.  unit says which one a behaviour is of.   *)
(***************************************************************************)
EXTENDS FetchBuffer, ClintTimer, Divider, BranchPredictor, RamBench

VARIABLE unit

unitVars == <<unit, bufferVars, timerVars, divVars, bpVars, tbVars>>

\* The registers without a reset matter in the unit that is looked at only.
Idle ==
  /\ unit # "ring" => slots = [k \in 0 .. Depth - 1 |-> CHOOSE e \in Entries : TRUE]
  /\ unit # "predictor" => ras_q = [k \in 0 .. RAS_DEPTH - 1 |-> CHOOSE p \in ReturnPcs : TRUE]
  /\ unit # "ram" => /\ port = "d" /\ bfm
                     /\ mem = [w \in Words |-> [l \in Lanes |-> CHOOSE v \in Values : TRUE]]

UnitsInit ==
  /\ unit \in {"ring", "timer", "divider", "predictor", "ram"}
  /\ BufferInit /\ TimerInit /\ DivInit /\ BpInit /\ TbInit
  /\ Idle

UnitsNext ==
  /\ UNCHANGED unit
  /\ \/ unit = "ring" /\ BufferNext /\ UNCHANGED <<timerVars, divVars, bpVars, tbVars>>
     \/ unit = "timer" /\ TimerNext /\ UNCHANGED <<bufferVars, divVars, bpVars, tbVars>>
     \/ unit = "divider" /\ DivNext /\ UNCHANGED <<bufferVars, timerVars, bpVars, tbVars>>
     \/ unit = "predictor" /\ BpNext /\ UNCHANGED <<bufferVars, timerVars, divVars, tbVars>>
     \/ unit = "ram" /\ TbNext /\ UNCHANGED <<bufferVars, timerVars, divVars, bpVars>>

UnitsSpec == UnitsInit /\ [][UnitsNext]_unitVars
=============================================================================
