------------------------------ MODULE CoreList ------------------------------
(***************************************************************************)
(* The linked-list kernel of CoreMark, coremark/eembc/core_list_join.c: a  *)
(* list in a static block of memory that is searched, reversed, patched,   *)
(* sorted by content, cut, mended and sorted back by index, in place and   *)
(* without recursion.  One step is one call, or one pass of a loop of the  *)
(* sort.                                                                   *)
(*                                                                         *)
(* A cell is its place in the memory block and a record of data its place  *)
(* in the data block; 0 is NULL.  idx is a number; data16 is its two bytes *)
(* [hi, lo], hi being the value lo is rebuilt from and lo + 128 a cached   *)
(* result.  The other two kernels, which compute that result, are some     *)
(* value; the checksums kept on the side are left out.                     *)
(***************************************************************************)
EXTENDS Integers, Sequences, FiniteSets, Image

CONSTANTS
  ListSize,      \* size of core_list_init: the block has room for ListSize - 1 cells
  HiBytes,       \* rebuild values of the items
  CalcResults,   \* results of the other kernels, 0..127
  find_num       \* res->seed3

NULL == 0
Cells == 1..ListSize-1
HeadData == 128
TailData == 255
TailIdx == 32767   \* 0x7fff

ASSUME ListAssumption ==
  /\ ListSize \in Nat /\ ListSize > 3 /\ ListSize - 3 < TailIdx /\ find_num \in Nat
  /\ HiBytes \subseteq 0..255 /\ CalcResults \subseteq 0..127

VARIABLES
  list, next, info,   \* first cell; cell -> cell; cell -> data
  idx, data16,        \* data -> its two fields
  used,               \* cells of the block handed out
  ms,                 \* core_list_mergesort: its locals, or << >>
  find, n_found,      \* core_bench_list: info.idx; passes of the find loop
  finder_idx, remover,
  home                \* history: the list core_list_init made

listVars == <<list, next, info, idx, data16, used, ms, find, n_found, finder_idx, remover, home>>

\* The cells from c on, in order.
From(c) ==
  LET path[k \in 0..ListSize] == IF k = 0 THEN c
                                 ELSE IF path[k-1] = NULL THEN NULL ELSE next[path[k-1]]
      n == CHOOSE k \in 0..ListSize : path[k] = NULL /\ \A j \in 0..k-1 : path[j] # NULL
  IN  [k \in 1..n |-> path[k-1]]
Loops(c) ==
  LET path[k \in 0..ListSize] == IF k = 0 THEN c
                                 ELSE IF path[k-1] = NULL THEN NULL ELSE next[path[k-1]]
  IN  path[ListSize] # NULL

ListInit ==
  /\ list = 1 /\ next = [c \in Cells |-> NULL] /\ info = [c \in Cells |-> c]
  /\ idx = [c \in Cells |-> 0] /\ data16 = [c \in Cells |-> [hi |-> HeadData, lo |-> HeadData]]
  /\ used = 1 /\ ms = << >> /\ find = 0 /\ n_found = 0 /\ finder_idx = 0 /\ remover = NULL
  /\ home = << >>

(***************************************************************************)
(* core_list_init.                                                         *)
(***************************************************************************)
\* The next cell of the block goes in behind the head, with its data.
core_list_insert_new(i, d) ==
  LET c == used + 1
  IN  /\ c \in Cells
      /\ next' = [next EXCEPT ![c] = next[1], ![1] = c]
      /\ idx' = [idx EXCEPT ![c] = i] /\ data16' = [data16 EXCEPT ![c] = [hi |-> d, lo |-> d]]
      /\ used' = c

\* The tail, then the items, as long as the block has room; all with the index
\* of the tail, for now.
InsertItems ==
  /\ pc \in {"reset", "insert"} /\ pc' = "insert"
  /\ \E d \in IF used = 1 THEN {TailData} ELSE HiBytes : core_list_insert_new(TailIdx, d)
  /\ UNCHANGED <<list, info, ms, find, n_found, finder_idx, remover, home>>

\* Calls the sort, which goes on at ret.
core_list_mergesort(cmp, ret) ==
  /\ ms' = [p |-> list, q |-> NULL, tail |-> NULL, psize |-> 0, qsize |-> 0,
            insize |-> 1, nmerges |-> 0, cmp |-> cmp, ret |-> ret]
  /\ list' = NULL /\ pc' = "merge"

\* Every item between head and tail gets a number of its own, in a mixed order
\* (so it is in the 2000 bytes of a run with seed 0, 0x3415 or 8); then the list is
\* sorted by it.
IndexItems ==
  /\ pc = "insert" /\ used + 1 \notin Cells
  /\ LET items == 3..ListSize-1
     IN  \E f \in [items -> 1..Cardinality(items)] :
           /\ \A c, d \in items : c # d => f[c] # f[d]
           /\ idx' = [c \in Cells |-> IF c \in items THEN f[c] ELSE idx[c]]
  /\ core_list_mergesort("idx", "ready")
  /\ UNCHANGED <<next, info, data16, used, find, n_found, finder_idx, remover, home>>

(***************************************************************************)
(* core_list_mergesort.                                                    *)
(***************************************************************************)
\* Two runs to merge: p, and q insize places along, or the end of the list.
StartMerge ==
  LET run == From(ms.p)
      n == IF Len(run) < ms.insize THEN Len(run) ELSE ms.insize
  IN  /\ pc = "merge" /\ ms.p # NULL /\ pc' = "take"
      /\ ms' = [ms EXCEPT !.nmerges = @ + 1, !.psize = n, !.qsize = ms.insize,
                          !.q = IF n < Len(run) THEN run[n + 1] ELSE NULL]
      /\ UNCHANGED <<list, next, info, idx, data16, used, find, n_found, finder_idx, remover, home>>

\* calc_func: a cached result, or a new one that is cached; hi stays.
Calculated(d, r) == IF data16[d].lo >= 128 THEN data16[d].lo - 128 ELSE r
Cached(d, r) == [data16[d] EXCEPT !.lo = 128 + Calculated(d, r)]
Rebuilt(d) == [data16[d] EXCEPT !.lo = data16[d].hi]

\* e moves to the end of the merged list; side says which run it came from.
TakeCell(e, side, d16) ==
  /\ next' = IF ms.tail = NULL THEN next ELSE [next EXCEPT ![ms.tail] = e]
  /\ list' = IF ms.tail = NULL THEN e ELSE list
  /\ data16' = d16
  /\ ms' = IF side = "p" THEN [ms EXCEPT !.tail = e, !.p = next[e], !.psize = @ - 1]
           ELSE [ms EXCEPT !.tail = e, !.q = next[e], !.qsize = @ - 1]

HasQ == ms.qsize > 0 /\ ms.q # NULL

FirstWins(a, b) == a <= b

\* One pass of the inner loop.
TakeLower ==
  /\ pc = "take" /\ (ms.psize > 0 \/ HasQ)
  /\ \/ /\ ms.psize = 0 /\ TakeCell(ms.q, "q", data16)
     \/ /\ ms.psize > 0 /\ ~HasQ /\ TakeCell(ms.p, "p", data16)
     \/ /\ ms.psize > 0 /\ HasQ
        /\ LET a == info[ms.p]  b == info[ms.q]
           IN  \/ /\ ms.cmp = "complex"
                  /\ \E r, s \in CalcResults :
                       LET first == FirstWins(Calculated(a, r), Calculated(b, s))
                       IN  TakeCell(IF first THEN ms.p ELSE ms.q, IF first THEN "p" ELSE "q",
                                    [data16 EXCEPT ![a] = Cached(a, r), ![b] = Cached(b, s)])
               \/ /\ ms.cmp = "idx"
                  /\ LET first == FirstWins(idx[a], idx[b])
                     IN  TakeCell(IF first THEN ms.p ELSE ms.q, IF first THEN "p" ELSE "q",
                                  [data16 EXCEPT ![a] = Rebuilt(a), ![b] = Rebuilt(b)])
  /\ UNCHANGED <<pc, info, idx, used, find, n_found, finder_idx, remover, home>>

\* The two runs are merged: go on behind them.
EndMerge ==
  /\ pc = "take" /\ ms.psize = 0 /\ ~HasQ /\ pc' = "merge"
  /\ ms' = [ms EXCEPT !.p = ms.q]
  /\ UNCHANGED <<list, next, info, idx, data16, used, find, n_found, finder_idx, remover, home>>

\* Mutant: the last cell keeps its old successor.
Terminated_not == next

Terminated == [next EXCEPT ![ms.tail] = NULL]

\* The pass is over: done after a single merge, else runs of twice the size.
EndPass ==
  /\ pc = "merge" /\ ms.p = NULL
  /\ next' = Terminated
  /\ IF ms.nmerges <= 1
     THEN pc' = ms.ret /\ ms' = << >> /\ UNCHANGED list
     ELSE /\ ms' = [ms EXCEPT !.insize = 2 * @, !.p = list, !.tail = NULL, !.nmerges = 0]
          /\ list' = NULL /\ UNCHANGED pc
  /\ UNCHANGED <<info, idx, data16, used, find, n_found, finder_idx, remover, home>>

(***************************************************************************)
(* core_bench_list.                                                        *)
(***************************************************************************)
\* The list with everything a reader of it sees.
View == LET cs == From(list)
        IN  [k \in DOMAIN cs |-> [idx |-> idx[info[cs[k]]], data |-> data16[info[cs[k]]]]]

\* The first cell from c on with the index looked for or, if that is negative,
\* with the low byte b.
core_list_find(c, i, b) ==
  LET hits == {k \in DOMAIN From(c) :
                 IF i >= 0 THEN idx[info[From(c)[k]]] = i ELSE data16[info[From(c)[k]]].lo = b}
  IN  IF hits = {} THEN NULL ELSE From(c)[CHOOSE k \in hits : \A j \in hits : k <= j]

Reversed == LET cs == From(list)
            IN  [c \in Cells |-> IF \E k \in DOMAIN cs : k > 1 /\ cs[k] = c
                                 THEN cs[(CHOOSE k \in DOMAIN cs : cs[k] = c) - 1] ELSE NULL]

\* The iteration calls the kernel with index 1 and with -1.
StartBench ==
  /\ pc = "ready" /\ pc' = "find"
  /\ home' = IF home = << >> THEN View ELSE home
  /\ \E f \in {1, -1} : finder_idx' = f /\ find' = f
  /\ n_found' = 0
  /\ UNCHANGED <<list, next, info, idx, data16, used, ms, remover>>

\* One pass of the find loop: find, reverse, and move the cell behind the one
\* found to the front.
FindPass ==
  /\ pc = "find" /\ n_found < find_num
  /\ LET hit == core_list_find(list, find, n_found)
         rev == Reversed
         head == From(list)[Len(From(list))]
     IN  /\ list' = head
         /\ next' = IF hit = NULL \/ rev[hit] = NULL THEN rev
                    ELSE LET after == rev[hit]
                             cut == [rev EXCEPT ![hit] = rev[after]]
                         IN  [cut EXCEPT ![after] = cut[head], ![head] = after]
  /\ n_found' = n_found + 1 /\ find' = IF find >= 0 THEN find + 1 ELSE find
  /\ UNCHANGED <<pc, info, idx, data16, used, ms, finder_idx, remover, home>>

SortByContent ==
  /\ pc = "find" /\ n_found = find_num
  /\ IF finder_idx > 0 THEN core_list_mergesort("complex", "remove")
     ELSE pc' = "remove" /\ UNCHANGED <<list, ms>>
  /\ UNCHANGED <<next, info, idx, data16, used, find, n_found, finder_idx, remover, home>>

\* The data of the cell behind list go, with the cell behind that one.
core_list_remove ==
  LET item == next[list]  ret == next[item]
  IN  /\ pc = "remove" /\ pc' = "undo"
      /\ info' = [info EXCEPT ![item] = info[ret], ![ret] = info[item]]
      /\ next' = [next EXCEPT ![item] = next[ret], ![ret] = NULL] /\ remover' = ret
      /\ UNCHANGED <<list, idx, data16, used, ms, find, n_found, finder_idx, home>>

core_list_undo_remove ==
  LET item == next[list]
  IN  /\ pc = "undo" /\ pc' = "sortback"
      /\ info' = [info EXCEPT ![item] = info[remover], ![remover] = info[item]]
      /\ next' = [next EXCEPT ![remover] = next[item], ![item] = remover] /\ remover' = NULL
      /\ UNCHANGED <<list, idx, data16, used, ms, find, n_found, finder_idx, home>>

SortByIndex ==
  /\ pc = "sortback" /\ core_list_mergesort("idx", "return")
  /\ UNCHANGED <<next, info, idx, data16, used, find, n_found, finder_idx, remover, home>>

EndBench ==
  /\ pc = "return" /\ pc' = "ready" /\ finder_idx' = 0 /\ find' = 0 /\ n_found' = 0
  /\ UNCHANGED <<list, next, info, idx, data16, used, ms, remover, home>>

ListNext ==
  /\ Linked("core_list")
  /\ \/ InsertItems \/ IndexItems
     \/ StartMerge \/ TakeLower \/ EndMerge \/ EndPass
     \/ StartBench \/ FindPass \/ SortByContent \/ core_list_remove
     \/ core_list_undo_remove \/ SortByIndex \/ EndBench
-----------------------------------------------------------------------------
Ordered(cmp) ==
  \A k \in 2..Len(View) :
    IF cmp = "idx" THEN View[k-1].idx <= View[k].idx
    ELSE View[k-1].data.lo <= View[k].data.lo

\* The list is back in its original state when the kernel returns, indices,
\* contents and caches, whatever was found, cached and cut on the way, and
\* begins at the cell the caller keeps as its head; between the calls no cell
\* is lost, doubled or tied into a ring (core_list_join.c:156, 163, 222).
ListRestored ==
  image = "core_list" =>
    /\ pc \in {"ready", "find", "remove", "sortback", "return"} =>
         ~Loops(list) /\ Len(From(list)) = ListSize - 1
    /\ pc = "undo" => ~Loops(list) /\ Len(From(list)) = ListSize - 2
    /\ pc = "ready" => Ordered("idx")
    /\ pc = "remove" /\ finder_idx > 0 => Ordered("complex")
    /\ pc = "return" => View = home /\ list = 1

ListSpec == image = "core_list" /\ Boot /\ ListInit /\ [][ListNext]_<<image, pc, listVars>>
=============================================================================
