----------------------------- MODULE Quicksort ------------------------------
(***************************************************************************)
(* The program sim/sw/quicksort/main.c: Lomuto's partition and a recursive *)
(* quicksort over a static array.  One step is one pass of a loop, one     *)
(* call or one return; the stack of calls is explicit.  The generator that *)
(* fills the array is abstracted to any contents.                          *)
(***************************************************************************)
EXTENDS Integers, Sequences, SequencesExt, Image

CONSTANTS N, Values   \* length of the array; what its entries may be

ASSUME QsortAssumption == N \in Nat \ {0} /\ Values \subseteq Int

VARIABLES
  arr,      \* arr[0..N-1]
  calls,    \* calls of quicksort under way, innermost last: [lo, hi, at, was]
  part,     \* partition under way: [i, j, pivot], or << >>
  verdict   \* what main returns

qsVars == <<arr, calls, part, verdict>>

Index == 0..N-1
Frame(lo, hi) == [lo |-> lo, hi |-> hi, at |-> "enter", p |-> lo, was |-> arr]
frame == Last(calls)
\* The innermost call moves on to statement at.
Moves(at) == calls' = [calls EXCEPT ![Len(calls)].at = at]

QsortInit ==
  /\ arr = [k \in Index |-> CHOOSE v \in Values : TRUE]
  /\ calls = << >> /\ part = << >> /\ verdict = "none"

fill_array ==
  /\ pc = "reset" /\ pc' = "sort"
  /\ \E a \in [Index -> Values] :
       /\ arr' = a
       /\ calls' = <<[lo |-> 0, hi |-> N - 1, at |-> "enter", p |-> 0, was |-> a]>>
  /\ UNCHANGED <<part, verdict>>

\* if (lo < hi), and the first statements of partition.
EnterCall ==
  /\ pc = "sort" /\ calls # << >> /\ frame.at = "enter"
  /\ IF frame.lo < frame.hi
     THEN /\ Moves("partition")
          /\ part' = <<[i |-> frame.lo - 1, j |-> frame.lo, pivot |-> arr[frame.hi]]>>
     ELSE Moves("return") /\ UNCHANGED part
  /\ UNCHANGED <<pc, arr, verdict>>

\* One pass of partition's loop; lxsw loads both entries before the stores.
PartitionPass ==
  LET i == part[1].i + 1  j == part[1].j
  IN  /\ pc = "sort" /\ part # << >> /\ part[1].j < frame.hi
      /\ IF arr[j] <= part[1].pivot
         THEN /\ arr' = [arr EXCEPT ![i] = arr[j], ![j] = arr[i]]
              /\ part' = <<[part[1] EXCEPT !.i = i, !.j = j + 1]>>
         ELSE part' = <<[part[1] EXCEPT !.j = j + 1]>> /\ UNCHANGED arr
      /\ UNCHANGED <<pc, calls, verdict>>

\* Mutant: the pivot stays where it is.
PivotAt_unmoved == frame.hi

PivotAt == part[1].i + 1

\* The pivot goes to its place, and the call goes on behind partition.
PartitionDone ==
  /\ pc = "sort" /\ part # << >> /\ part[1].j = frame.hi
  /\ arr' = [arr EXCEPT ![PivotAt] = arr[frame.hi], ![frame.hi] = arr[PivotAt]]
  /\ calls' = [calls EXCEPT ![Len(calls)].at = "left", ![Len(calls)].p = PivotAt]
  /\ part' = << >>
  /\ UNCHANGED <<pc, verdict>>

Recurse ==
  /\ pc = "sort" /\ calls # << >>
  /\ \/ /\ frame.at = "left"
        /\ calls' = Append([calls EXCEPT ![Len(calls)].at = "right"],
                           Frame(frame.lo, frame.p - 1))
     \/ /\ frame.at = "right"
        /\ calls' = Append([calls EXCEPT ![Len(calls)].at = "return"],
                           Frame(frame.p + 1, frame.hi))
  /\ UNCHANGED <<pc, arr, part, verdict>>

ReturnFromCall ==
  /\ pc = "sort" /\ calls # << >> /\ frame.at = "return"
  /\ calls' = Front(calls)
  /\ pc' = IF Len(calls) = 1 THEN "verify" ELSE pc
  /\ UNCHANGED <<arr, part, verdict>>

\* The check main makes of its own work.
Verify ==
  /\ pc = "verify" /\ pc' = "done"
  /\ verdict' = IF \E k \in 1..N-1 : arr[k-1] > arr[k] THEN "BAD" ELSE "GOOD"
  /\ UNCHANGED <<arr, calls, part>>

QsortNext ==
  /\ Linked("quicksort")
  /\ \/ fill_array \/ EnterCall \/ PartitionPass \/ PartitionDone \/ Recurse
     \/ ReturnFromCall \/ Verify
-----------------------------------------------------------------------------
Occurrences(a, S, v) == Cardinality({k \in S : a[k] = v})

\* A call that returns has put its range in order: it holds the entries it held
\* at the call, sorted, and every entry outside of it is untouched.  It never
\* indexes outside its range, and calls nest no deeper than one per entry and one
\* on an empty range (quicksort/main.c:102, 127).
CallsSort ==
  /\ Len(calls) <= N + 1
  /\ part # << >> => part[1].i + 1 \in frame.lo..frame.hi
  /\ calls # << >> /\ frame.at = "return" =>
       /\ \A k \in frame.lo+1..frame.hi : arr[k-1] <= arr[k]
       /\ \A v \in Values : Occurrences(arr, frame.lo..frame.hi, v)
                              = Occurrences(frame.was, frame.lo..frame.hi, v)
       /\ \A k \in Index \ (frame.lo..frame.hi) : arr[k] = frame.was[k]
  /\ verdict # "BAD"

QsortSpec == image = "quicksort" /\ Boot /\ QsortInit /\ [][QsortNext]_<<image, pc, qsVars>>
=============================================================================
